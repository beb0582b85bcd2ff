--------------------------- MODULE BriefingsProofs ----------------------------
(***************************************************************************)
(* Theorems about Briefings for any number of messages and chat turns,     *)
(* deliveries, tool calls and versions of the bars.                        *)
(*                                                                         *)
(* The argument: a row is written by one open transaction at a time        *)
(* (Exclusive), and the row of an engine call only where there is none     *)
(* (WrittenOnce).  So what a job has seen of a call stays what it sees     *)
(* until its transaction is over, whoever commits in between, and what it  *)
(* holds or has written from it (Local) is what the ledger will show with  *)
(* it (Committed).                                                         *)
(***************************************************************************)
EXTENDS Briefings, TLAPS

Calls == {"get_price_move", "get_attribution"}
AnyRow == Packs \cup Moves \cup {NoRow}

Shape ==
  /\ TypeOK
  /\ db \in [Keys -> AnyRow]
  /\ pending \in [Jobs -> [Keys -> AnyRow]]

Exclusive ==
  \A j, o \in Jobs : j # o =>
    \A k \in Keys : pending[j][k] = NoRow \/ pending[o][k] = NoRow

WrittenOnce ==
  \A j \in Jobs : \A k \in Calls : pending[j][k] # NoRow => db[k] = NoRow

\* An attribution that does not contradict the price move that is there.
Agrees(value, price) ==
  value \in {NoRow, Null, price} \/ "get_price_move" \in outrun

\* A card, or what a card is about to be made of, shows what the ledger has.
Backed(card, price, attribution) ==
  /\ price # NoRow /\ attribution # NoRow
  /\ card.price = price
  /\ card.attribution = attribution \/ "get_attribution" \in outrun
  /\ Agrees(card.attribution, price)

\* Rows, of which attribution and card were written from the others.
Consistent(daily, card, price, attribution) ==
  /\ daily # NoRow => price # NoRow /\ Agrees(daily, price)
  /\ Agrees(attribution, price)
  /\ card # NoRow => Backed(card, price, attribution)

Committed ==
  Consistent(db["daily_attribution"], db["briefing_card"],
             db["get_price_move"], db["get_attribution"])

\* What a job sees, its own writes over the committed rows.
View(j) ==
  Consistent(Seen(j, "daily_attribution"), Seen(j, "briefing_card"),
             Seen(j, "get_price_move"), Seen(j, "get_attribution"))

\* What a job has in hand at each step.
Local(j) ==
  LET price == Seen(j, "get_price_move")
      attribution == Seen(j, "get_attribution")
  IN  /\ pc[j] \in {"pack", "askAttribution"} => Agrees(call[j], price)
      /\ pc[j] \in {"selectDaily", "attribute"} =>
           price # NoRow /\ move[j] # Null /\ Agrees(move[j], price)
      /\ pc[j] = "pack" => price # NoRow
      /\ pc[j] \in {"selectCard", "file"} =>
           Backed([price |-> move[j], attribution |-> attr[j]], price, attribution)
      /\ pc[j] \notin CallSteps => call[j] = NoRow

Inv ==
  /\ Shape
  /\ Exclusive
  /\ WrittenOnce
  /\ Committed
  /\ \A j \in Jobs : View(j) /\ Local(j)

-------------------------------------------------------------------------------
(* Tables                                                                      *)

\* Rows of the four tables are told from no row.
LEMMA RowFacts ==
  /\ NoRow \notin Packs /\ NoRow \notin Moves /\ NoRow \notin Nat /\ NoRow # Null
  /\ Null \in Moves /\ Nat \subseteq Moves /\ Null \notin Nat
BY NoRowAssumption DEF Moves

LEMMA KeyFacts ==
  /\ "get_price_move" \in Keys /\ "get_attribution" \in Keys
  /\ "daily_attribution" \in Keys /\ "briefing_card" \in Keys
  /\ Calls \subseteq Keys
  /\ \A k \in Calls : RowsOf(k) = Moves
  /\ RowsOf("daily_attribution") = Nat
  /\ RowsOf("briefing_card") = Packs
  /\ \A k \in Keys : RowsOf(k) \cup {NoRow} \subseteq AnyRow
BY RowFacts DEF Keys, Calls, RowsOf, AnyRow

LEMMA EmptyFacts ==
  /\ Empty \in [Keys -> AnyRow] /\ IsTable(Empty)
  /\ \A k \in Keys : Empty[k] = NoRow
BY KeyFacts DEF Empty, IsTable

LEMMA SeenType ==
  ASSUME Shape, NEW j \in Jobs, NEW k \in Keys
  PROVE  Seen(j, k) \in RowsOf(k) \cup {NoRow}
BY DEF Shape, TypeOK, IsTable, Seen

\* What is written is a row of its table.
LEMMA WriteType ==
  ASSUME Shape, NEW j \in Jobs, NEW k \in Keys, NEW v \in RowsOf(k), Write(j, k, v)
  PROVE  /\ pending' \in [Jobs -> [Keys -> AnyRow]]
         /\ \A i \in Jobs : IsTable(pending'[i])
         /\ \A i \in Jobs \ {j} : pending'[i] = pending[i]
         /\ pending'[j][k] = v
         /\ \A l \in Keys \ {k} : pending'[j][l] = pending[j][l]
<1>1. v \in AnyRow
  BY KeyFacts
<1>2. pending' = [pending EXCEPT ![j] = [pending[j] EXCEPT ![k] = v]]
  BY DEF Write
<1>3. [pending[j] EXCEPT ![k] = v] \in [Keys -> AnyRow]
  BY <1>1 DEF Shape
<1>4. IsTable([pending[j] EXCEPT ![k] = v])
  BY DEF Shape, TypeOK, IsTable
<1>5. /\ pending'[j] = [pending[j] EXCEPT ![k] = v]
      /\ \A i \in Jobs \ {j} : pending'[i] = pending[i]
      /\ pending' \in [Jobs -> [Keys -> AnyRow]]
  BY <1>2, <1>3 DEF Shape
<1>6. \A i \in Jobs : IsTable(pending'[i])
  BY <1>4, <1>5 DEF Shape, TypeOK
<1>. QED
  BY <1>5, <1>6 DEF Shape

\* A write that waits for no open transaction keeps rows exclusive.
LEMMA WriteAlone ==
  ASSUME Shape, Exclusive, NEW j \in Jobs, pc[j] \in DOMAIN Target, ~Waits(j),
         NEW v \in RowsOf(Target[pc[j]]), Target[pc[j]] \in Keys, Write(j, Target[pc[j]], v)
  PROVE  Exclusive'
<1>1. \A i \in Jobs \ {j} : pending[i][Target[pc[j]]] = NoRow
  BY DEF Waits, WaitsFor
<1>. QED
  BY <1>1, WriteType DEF Exclusive

-------------------------------------------------------------------------------
(* What a job sees                                                             *)

\* What a job has in hand stays right as long as the calls it sees are the same.
LEMMA LocalStays ==
  ASSUME NEW i \in Jobs, Local(i), outrun \subseteq outrun',
         pc'[i] = pc[i], call'[i] = call[i], move'[i] = move[i], attr'[i] = attr[i],
         \A k \in Calls : Seen(i, k) # NoRow => Seen(i, k)' = Seen(i, k)
  PROVE  Local(i)'
<1>1. \A k \in Calls : Seen(i, k) # NoRow => Seen(i, k)' # NoRow
  OBVIOUS
<1>. QED
  BY <1>1 DEF Local, Agrees, Backed, Calls

\* What one job does to its own frame and writes leaves the others' facts alone.
LEMMA OthersKept ==
  ASSUME Inv, NEW j \in Jobs, UNCHANGED db, outrun \subseteq outrun',
         \A i \in Jobs \ {j} :
           /\ pc'[i] = pc[i] /\ call'[i] = call[i] /\ move'[i] = move[i] /\ attr'[i] = attr[i]
           /\ pending'[i] = pending[i]
  PROVE  Committed' /\ \A i \in Jobs \ {j} : View(i)' /\ Local(i)'
<1>1. Committed'
  BY DEF Inv, Committed, Consistent, Backed, Agrees
<1>2. ASSUME NEW i \in Jobs \ {j} PROVE View(i)' /\ Local(i)'
  <2>1. \A k : Seen(i, k)' = Seen(i, k)
    BY DEF Seen
  <2>2. Local(i)'
    BY <2>1, LocalStays DEF Inv
  <2>3. View(i)'
    BY <2>1 DEF Inv, View, Consistent, Backed, Agrees
  <2>. QED
    BY <2>2, <2>3
<1>. QED
  BY <1>1, <1>2

\* A step of one job that commits nothing keeps the invariant if it keeps the types,
\* the rows exclusive and written once, and the job's own facts.
LEMMA OwnStep ==
  ASSUME Inv, NEW j \in Jobs, UNCHANGED db, outrun \subseteq outrun',
         \A i \in Jobs \ {j} :
           /\ pc'[i] = pc[i] /\ call'[i] = call[i] /\ move'[i] = move[i] /\ attr'[i] = attr[i]
           /\ pending'[i] = pending[i],
         Shape', Exclusive', WrittenOnce', View(j)', Local(j)'
  PROVE  Inv'
BY OthersKept DEF Inv

\* A step that writes nothing, either.
LEMMA QuietStep ==
  ASSUME Inv, NEW j \in Jobs, UNCHANGED <<db, pending, outrun>>, TypeOK',
         \A i \in Jobs \ {j} :
           pc'[i] = pc[i] /\ call'[i] = call[i] /\ move'[i] = move[i] /\ attr'[i] = attr[i],
         Local(j)'
  PROVE  Inv'
<1>1. Shape' /\ Exclusive' /\ WrittenOnce'
  BY DEF Inv, Shape, Exclusive, WrittenOnce
<1>2. View(j)'
  BY DEF Inv, View, Seen, Consistent, Backed, Agrees
<1>. QED
  BY <1>1, <1>2, OwnStep

-------------------------------------------------------------------------------
(* The end of a transaction                                                    *)

\* A job whose transaction is over holds nothing.
LEMMA EndFacts ==
  ASSUME Shape, NEW j \in Jobs, NEW to \in {"failed", "queued", "done", "committed"},
         EndTransaction(j, to)
  PROVE  /\ pc' \in [Jobs -> Ended \cup {"new", "queued", "committed"} \cup Steps]
         /\ call' \in [Jobs -> Moves \cup {NoRow}] /\ move' \in [Jobs -> Moves]
         /\ attr' \in [Jobs -> Moves] /\ found' \in [Jobs -> BOOLEAN]
         /\ pending' \in [Jobs -> [Keys -> AnyRow]] /\ \A i \in Jobs : IsTable(pending'[i])
         /\ curated' \subseteq Briefs
         /\ pc'[j] = to /\ call'[j] = NoRow /\ pending'[j] = Empty
         /\ \A i \in Jobs \ {j} :
              /\ pc'[i] = pc[i] /\ call'[i] = call[i] /\ move'[i] = move[i]
              /\ attr'[i] = attr[i] /\ pending'[i] = pending[i]
<1>. USE DEF EndTransaction, Goto, Forget, Shape, TypeOK
<1>1. /\ pc' \in [Jobs -> Ended \cup {"new", "queued", "committed"} \cup Steps]
      /\ pc'[j] = to /\ \A i \in Jobs \ {j} : pc'[i] = pc[i]
  BY DEF Ended
<1>2. /\ call' \in [Jobs -> Moves \cup {NoRow}] /\ call'[j] = NoRow
      /\ \A i \in Jobs \ {j} : call'[i] = call[i]
  OBVIOUS
<1>3. /\ move' \in [Jobs -> Moves] /\ attr' \in [Jobs -> Moves] /\ found' \in [Jobs -> BOOLEAN]
      /\ \A i \in Jobs \ {j} : move'[i] = move[i] /\ attr'[i] = attr[i]
  BY RowFacts
<1>4. /\ pending' \in [Jobs -> [Keys -> AnyRow]] /\ pending'[j] = Empty
      /\ \A i \in Jobs \ {j} : pending'[i] = pending[i]
  BY EmptyFacts
<1>5. \A i \in Jobs : IsTable(pending'[i])
  BY <1>4, EmptyFacts
<1>6. curated' \subseteq Briefs
  OBVIOUS
<1>. QED
  BY <1>1, <1>2, <1>3, <1>4, <1>5, <1>6

\* What it had written is gone, whatever ended it: a failure, a deadlock, a crash, or
\* an insert that came too late.
LEMMA RollbackStep ==
  ASSUME Inv, NEW j \in Jobs, NEW to \in {"failed", "queued", "done", "committed"},
         EndTransaction(j, to), UNCHANGED <<bars, db, deliveries, outrun>>
  PROVE  Inv'
<1>. USE EmptyFacts
<1>1. Shape'
  BY EndFacts DEF Inv, Shape, TypeOK
<1>2. Exclusive' /\ WrittenOnce'
  <2>1. /\ \A k \in Keys : pending'[j][k] = NoRow
        /\ \A i \in Jobs \ {j} : pending'[i] = pending[i]
    BY EndFacts DEF Inv
  <2>2. Exclusive'
    BY <2>1 DEF Inv, Exclusive
  <2>3. WrittenOnce'
    BY <2>1, KeyFacts DEF Inv, WrittenOnce
  <2>. QED
    BY <2>2, <2>3
<1>3. View(j)'
  <2>1. \A k \in Keys : Seen(j, k)' = db[k]
    BY EndFacts DEF Inv, Seen
  <2>. QED
    BY <2>1, KeyFacts DEF Inv, Committed, View, Consistent, Backed, Agrees
<1>4. Local(j)'
  BY EndFacts DEF Inv, Local, CallSteps, AskSteps
<1>. QED
  BY <1>1, <1>2, <1>3, <1>4, EndFacts, OwnStep DEF Inv

\* Nobody else has a row in hand where the committed job has one; so whoever sees a
\* call sees it still, and whoever does not sees the new one with all it backs.
LEMMA CommitStep ==
  ASSUME Inv, NEW j \in Jobs, Commit(j)
  PROVE  Inv'
<1>. USE EmptyFacts
<1>. DEFINE to == IF j \in Chats THEN "done" ELSE "committed"
<1>1. /\ EndTransaction(j, to) /\ to \in {"failed", "queued", "done", "committed"}
      /\ db' = [k \in Keys |-> Seen(j, k)] /\ UNCHANGED <<bars, deliveries, outrun>>
  BY DEF Commit
<1>. HIDE DEF to
<1>2. \A k \in Keys : db'[k] = Seen(j, k) /\ db'[k] \in RowsOf(k) \cup {NoRow}
  BY <1>1, SeenType DEF Inv
<1>3. db' \in [Keys -> AnyRow] /\ IsTable(db')
  BY <1>1, <1>2, KeyFacts DEF IsTable
<1>4. Shape'
  BY <1>1, <1>3, EndFacts DEF Inv, Shape, TypeOK
<1>5. Exclusive'
  BY <1>1, EndFacts DEF Inv, Exclusive
<1>6. WrittenOnce'
  <2>1. ASSUME NEW i \in Jobs \ {j}, NEW k \in Calls, pending[i][k] # NoRow PROVE db'[k] = NoRow
    BY <1>2, <2>1, KeyFacts DEF Inv, Exclusive, WrittenOnce, Seen
  <2>2. \A k \in Calls : pending'[j][k] = NoRow
    BY <1>1, EndFacts, KeyFacts DEF Inv
  <2>3. \A i \in Jobs \ {j} : pending'[i] = pending[i]
    BY <1>1, EndFacts DEF Inv
  <2>. QED
    BY <2>1, <2>2, <2>3 DEF WrittenOnce
<1>7. \A k \in Keys : Seen(j, k)' = db'[k]
  BY <1>1, EndFacts DEF Inv, Seen
<1>8. Committed'
  BY <1>1, <1>2, KeyFacts DEF Inv, View, Committed, Consistent, Backed, Agrees
<1>9. View(j)' /\ Local(j)'
  <2>1. View(j)'
    BY <1>7, <1>8, KeyFacts DEF View, Committed
  <2>. QED
    BY <1>1, <2>1, EndFacts DEF Inv, Local, CallSteps, AskSteps
<1>10. ASSUME NEW i \in Jobs \ {j} PROVE View(i)' /\ Local(i)'
  <2>1. \A k \in Calls : Seen(i, k) # NoRow => Seen(i, k)' = Seen(i, k)
    BY <1>1, <1>2, EndFacts, KeyFacts DEF Inv, Exclusive, WrittenOnce, Seen
  <2>2. \A k \in Calls : Seen(j, k) # NoRow => Seen(i, k)' = Seen(j, k)
    BY <1>1, <1>2, <1>6, EndFacts, KeyFacts DEF Inv, WrittenOnce, Seen
  <2>3. \A k \in Keys : Seen(i, k)' \in {Seen(i, k), Seen(j, k)}
    BY <1>1, <1>2, EndFacts DEF Inv, Seen
  <2>4. View(i)'
    BY <1>1, <2>1, <2>2, <2>3, KeyFacts DEF Inv, View, Consistent, Backed, Agrees, Calls
  <2>5. Local(i)'
    BY <1>1, <2>1, EndFacts, LocalStays DEF Inv
  <2>. QED
    BY <2>4, <2>5
<1>. QED
  BY <1>4, <1>5, <1>6, <1>8, <1>9, <1>10 DEF Inv

-------------------------------------------------------------------------------
(* Engine calls                                                                *)

\* What a call is about to return, or has left behind: it agrees with the price move
\* if it is of get_attribution.
LEMMA ResultFacts ==
  ASSUME Inv, NEW j \in Jobs, pc[j] \in CallSteps, call[j] # NoRow \/ Seen(j, Target[pc[j]]) # NoRow
  PROVE  /\ Target[pc[j]] \in Calls
         /\ Target[pc[j]] = IF pc[j] \in {"price", "askPrice"} THEN "get_price_move" ELSE "get_attribution"
         /\ Result(j) \in Moves
         /\ pc[j] \in {"pack", "askAttribution"} => Agrees(Result(j), Seen(j, "get_price_move"))
<1>1. /\ Target[pc[j]] \in Calls
      /\ Target[pc[j]] = IF pc[j] \in {"price", "askPrice"} THEN "get_price_move" ELSE "get_attribution"
  BY DEF CallSteps, AskSteps, Target, Calls
<1>2. call[j] \in Moves \cup {NoRow} /\ Seen(j, Target[pc[j]]) \in Moves \cup {NoRow}
  BY <1>1, SeenType, KeyFacts DEF Inv, Shape, TypeOK
<1>3. Result(j) \in Moves
  BY <1>2 DEF Result
<1>4. ASSUME pc[j] \in {"pack", "askAttribution"} PROVE Agrees(Result(j), Seen(j, "get_price_move"))
  <2>1. Target[pc[j]] = "get_attribution"
    BY <1>1, <1>4
  <2>. QED
    BY <1>4, <2>1 DEF Inv, View, Local, Consistent, Result
<1>. QED
  BY <1>1, <1>3, <1>4

LEMMA ReturnFacts ==
  ASSUME Inv, NEW j \in Jobs, pc[j] \in CallSteps, Return(j), UNCHANGED db
  PROVE  /\ call' \in [Jobs -> Moves \cup {NoRow}] /\ call'[j] = NoRow
         /\ pending' \in [Jobs -> [Keys -> AnyRow]] /\ \A i \in Jobs : IsTable(pending'[i])
         /\ \A i \in Jobs \ {j} : call'[i] = call[i] /\ pending'[i] = pending[i]
         /\ outrun \subseteq outrun' /\ outrun' \subseteq Calls
         /\ Exclusive' /\ WrittenOnce'
<1>. DEFINE k == Target[pc[j]]
            row == Seen(j, k)
<1>1. /\ call[j] # NoRow \/ row # NoRow
      /\ call' = [call EXCEPT ![j] = NoRow]
      /\ IF row # NoRow THEN UNCHANGED pending ELSE ~Waits(j) /\ Write(j, k, call[j])
      /\ outrun' = IF row \in {NoRow, Result(j)} THEN outrun ELSE outrun \cup {k}
  BY DEF Return
<1>2. k \in Calls /\ k \in Keys
  BY <1>1, ResultFacts, KeyFacts
<1>3. /\ call' \in [Jobs -> Moves \cup {NoRow}] /\ call'[j] = NoRow
      /\ \A i \in Jobs \ {j} : call'[i] = call[i]
  BY <1>1 DEF Inv, Shape, TypeOK
<1>4. outrun \subseteq outrun' /\ outrun' \subseteq Calls
  BY <1>1, <1>2 DEF Inv, Shape, TypeOK, Calls
<1>5. CASE row # NoRow
  <2>1. UNCHANGED pending
    BY <1>1, <1>5
  <2>2. Exclusive' /\ WrittenOnce'
    BY <2>1 DEF Inv, Exclusive, WrittenOnce
  <2>. QED
    BY <1>3, <1>4, <2>1, <2>2 DEF Inv, Shape, TypeOK
<1>6. CASE row = NoRow
  <2>1. ~Waits(j) /\ Write(j, k, call[j])
    BY <1>1, <1>6
  <2>2. call[j] \in RowsOf(k)
    BY <1>1, <1>2, <1>6, KeyFacts DEF Inv, Shape, TypeOK
  <2>3. /\ pending' \in [Jobs -> [Keys -> AnyRow]] /\ \A i \in Jobs : IsTable(pending'[i])
        /\ \A i \in Jobs \ {j} : pending'[i] = pending[i]
        /\ \A l \in Keys \ {k} : pending'[j][l] = pending[j][l]
    BY <1>2, <2>1, <2>2, WriteType DEF Inv
  <2>4. Exclusive'
    <3>1. pc[j] \in DOMAIN Target
      BY DEF CallSteps, AskSteps, Target
    <3>. QED
      BY <1>2, <2>1, <2>2, <3>1, WriteAlone DEF Inv
  <2>5. db[k] = NoRow
    BY <1>6 DEF Seen
  <2>6. WrittenOnce'
    BY <2>3, <2>5, KeyFacts DEF Inv, WrittenOnce
  <2>. QED
    BY <1>3, <1>4, <2>3, <2>4, <2>6
<1>. QED
  BY <1>5, <1>6

\* After it, the job sees a row of the call: the one it saw before, or what the call has
\* returned; if it is neither, the call was outrun.
LEMMA ReturnSees ==
  ASSUME Inv, NEW j \in Jobs, pc[j] \in CallSteps, Return(j), UNCHANGED db,
         NEW k, k = Target[pc[j]]
  PROVE  /\ Seen(j, k)' \in Moves
         /\ \A l \in Keys : Seen(j, l) # NoRow => Seen(j, l)' = Seen(j, l)
         /\ \A l \in Keys \ {k} : Seen(j, l)' = Seen(j, l)
         /\ Result(j) = Seen(j, k)' \/ k \in outrun'
<1>. DEFINE row == Seen(j, k)
<1>1. /\ call[j] # NoRow \/ row # NoRow
      /\ IF row # NoRow THEN UNCHANGED pending ELSE ~Waits(j) /\ Write(j, k, call[j])
      /\ outrun' = IF row \in {NoRow, Result(j)} THEN outrun ELSE outrun \cup {k}
  BY DEF Return
<1>2. k \in Calls /\ k \in Keys /\ RowsOf(k) = Moves
  BY <1>1, ResultFacts, KeyFacts
<1>3. CASE row # NoRow
  <2>1. \A l \in Keys : Seen(j, l)' = Seen(j, l)
    BY <1>1, <1>3 DEF Seen
  <2>2. row \in Moves
    BY <1>2, <1>3, SeenType DEF Inv
  <2>. QED
    BY <1>1, <1>2, <1>3, <2>1, <2>2
<1>4. CASE row = NoRow
  <2>1. call[j] \in Moves /\ Write(j, k, call[j])
    BY <1>1, <1>4 DEF Inv, Shape, TypeOK
  <2>2. pending'[j][k] = call[j] /\ \A l \in Keys \ {k} : pending'[j][l] = pending[j][l]
    BY <1>2, <2>1, WriteType DEF Inv
  <2>3. Seen(j, k)' = call[j]
    BY <2>1, <2>2, RowFacts DEF Seen
  <2>4. \A l \in Keys \ {k} : Seen(j, l)' = Seen(j, l)
    BY <2>2 DEF Seen
  <2>5. Result(j) = call[j]
    BY <1>1, <1>4 DEF Result
  <2>. QED
    BY <1>4, <2>1, <2>3, <2>4, <2>5
<1>. QED
  BY <1>3, <1>4

\* It stays consistent: a price move is new only where nothing was made of one yet, and
\* an attribution comes from the row that was made of it.
LEMMA ReturnView ==
  ASSUME Inv, NEW j \in Jobs, pc[j] \in CallSteps, Return(j), UNCHANGED db
  PROVE  View(j)'
<1>1. /\ \A k \in Keys : Seen(j, k) # NoRow => Seen(j, k)' = Seen(j, k)
      /\ \A k \in Keys \ {Target[pc[j]]} : Seen(j, k)' = Seen(j, k)
      /\ outrun \subseteq outrun'
  BY ReturnSees, ReturnFacts
<1>2. call[j] # NoRow \/ Seen(j, Target[pc[j]]) # NoRow
  BY DEF Return
<1>3. CASE pc[j] \in {"price", "askPrice"}
  <2>1. Target[pc[j]] = "get_price_move"
    BY <1>2, <1>3, ResultFacts
  <2>. QED
    BY <1>1, <2>1, KeyFacts DEF Inv, View, Consistent, Backed, Agrees
<1>4. CASE pc[j] \in {"pack", "askAttribution"}
  <2>1. Target[pc[j]] = "get_attribution"
    BY <1>2, <1>4, ResultFacts
  <2>2. Agrees(Result(j), Seen(j, "get_price_move"))
    BY <1>2, <1>4, ResultFacts
  <2>3. Seen(j, "get_attribution")' \in {Seen(j, "get_attribution"), Result(j)}
    <3>1. CASE Seen(j, "get_attribution") # NoRow
      BY <1>1, <3>1, KeyFacts
    <3>2. CASE Seen(j, "get_attribution") = NoRow
      <4>1. Write(j, "get_attribution", call[j]) /\ call[j] # NoRow
        BY <2>1, <3>2 DEF Return
      <4>2. call[j] \in RowsOf("get_attribution")
        BY <4>1, KeyFacts DEF Inv, Shape, TypeOK, Calls
      <4>3. pending'[j]["get_attribution"] = call[j]
        BY <4>1, <4>2, KeyFacts, WriteType DEF Inv
      <4>. QED
        BY <4>1, <4>3 DEF Seen, Result
    <3>. QED
      BY <3>1, <3>2
  <2>. QED
    BY <1>1, <2>1, <2>2, <2>3, KeyFacts DEF Inv, View, Consistent, Backed, Agrees
<1>. QED
  BY <1>3, <1>4 DEF CallSteps, AskSteps

\* Steps name a place that there is.
LEMMA GotoFacts ==
  ASSUME Shape, NEW j \in Jobs, NEW to \in Steps \cup Ended, Goto(j, to)
  PROVE  /\ pc' \in [Jobs -> Ended \cup {"new", "queued", "committed"} \cup Steps]
         /\ pc'[j] = to /\ \A i \in Jobs \ {j} : pc'[i] = pc[i]
BY DEF Shape, TypeOK, Goto

LEMMA PriceStep ==
  ASSUME Inv, NEW j \in Jobs, Price(j)
  PROVE  Inv'
<1>. DEFINE to == IF Result(j) = Null THEN "pack" ELSE "selectDaily"
<1>1. /\ pc[j] = "price" /\ Goto(j, to) /\ move' = [move EXCEPT ![j] = Result(j)] /\ Return(j)
      /\ UNCHANGED <<bars, db, attr, found, deliveries, curated>>
  BY DEF Price
<1>2. pc[j] \in CallSteps /\ Target[pc[j]] = "get_price_move" /\ "get_price_move" \in Calls
  BY <1>1 DEF CallSteps, Target, Calls
<1>3. Result(j) \in Moves
  BY <1>1, <1>2, ResultFacts DEF Return
<1>4. /\ pc' \in [Jobs -> Ended \cup {"new", "queued", "committed"} \cup Steps]
      /\ pc'[j] = to /\ \A i \in Jobs \ {j} : pc'[i] = pc[i]
  BY <1>1, GotoFacts DEF Inv, Steps
<1>5. move' \in [Jobs -> Moves] /\ move'[j] = Result(j) /\ \A i \in Jobs \ {j} : move'[i] = move[i]
  BY <1>1, <1>3 DEF Inv, Shape, TypeOK
<1>6. Shape'
  BY <1>1, <1>2, <1>4, <1>5, ReturnFacts DEF Inv, Shape, TypeOK, Calls
<1>7. Local(j)'
  <2>1. Seen(j, "get_price_move")' \in Moves
    BY <1>1, <1>2, ReturnSees
  <2>2. Result(j) = Seen(j, "get_price_move")' \/ "get_price_move" \in outrun'
    BY <1>1, <1>2, ReturnSees
  <2>3. call'[j] = NoRow
    BY <1>1, <1>2, ReturnFacts
  <2>. QED
    BY <1>4, <1>5, <2>1, <2>2, <2>3, RowFacts DEF Local, Agrees
<1>8. View(j)'
  BY <1>1, <1>2, ReturnView
<1>. QED
  BY <1>1, <1>2, <1>4, <1>5, <1>6, <1>7, <1>8, ReturnFacts, OwnStep

LEMMA PackStep ==
  ASSUME Inv, NEW j \in Jobs, Pack(j)
  PROVE  Inv'
<1>1. /\ pc[j] = "pack" /\ Goto(j, "selectCard")
      /\ move' = [move EXCEPT ![j] = Seen(j, "get_price_move")]
      /\ attr' = [attr EXCEPT ![j] = Result(j)] /\ Return(j)
      /\ UNCHANGED <<bars, db, found, deliveries, curated>>
  BY DEF Pack
<1>2. pc[j] \in CallSteps /\ Target[pc[j]] = "get_attribution" /\ "get_attribution" \in Calls
  BY <1>1 DEF CallSteps, Target, Calls
<1>3. Result(j) \in Moves /\ Agrees(Result(j), Seen(j, "get_price_move"))
  BY <1>1, <1>2, ResultFacts DEF Return
<1>4. Seen(j, "get_price_move") \in Moves
  BY <1>1, SeenType, KeyFacts DEF Inv, Local, Calls
<1>5. /\ pc' \in [Jobs -> Ended \cup {"new", "queued", "committed"} \cup Steps]
      /\ pc'[j] = "selectCard" /\ \A i \in Jobs \ {j} : pc'[i] = pc[i]
  BY <1>1, GotoFacts DEF Inv, Steps
<1>6. /\ move' \in [Jobs -> Moves] /\ move'[j] = Seen(j, "get_price_move")
      /\ attr' \in [Jobs -> Moves] /\ attr'[j] = Result(j)
      /\ \A i \in Jobs \ {j} : move'[i] = move[i] /\ attr'[i] = attr[i]
  BY <1>1, <1>3, <1>4 DEF Inv, Shape, TypeOK
<1>7. Shape'
  BY <1>1, <1>2, <1>5, <1>6, ReturnFacts DEF Inv, Shape, TypeOK, Calls
<1>8. Local(j)'
  <2>1. Seen(j, "get_attribution")' \in Moves
    BY <1>1, <1>2, ReturnSees
  <2>2. Result(j) = Seen(j, "get_attribution")' \/ "get_attribution" \in outrun'
    BY <1>1, <1>2, ReturnSees
  <2>3. Seen(j, "get_price_move")' = Seen(j, "get_price_move")
    BY <1>1, <1>2, KeyFacts, ReturnSees
  <2>4. call'[j] = NoRow /\ outrun \subseteq outrun'
    BY <1>1, <1>2, ReturnFacts
  <2>. QED
    BY <1>3, <1>4, <1>5, <1>6, <2>1, <2>2, <2>3, <2>4, RowFacts DEF Local, Backed, Agrees
<1>9. View(j)'
  BY <1>1, <1>2, ReturnView
<1>. QED
  BY <1>1, <1>2, <1>5, <1>6, <1>7, <1>8, <1>9, ReturnFacts, OwnStep

LEMMA AnswerStep ==
  ASSUME Inv, NEW j \in Jobs, Answer(j)
  PROVE  Inv'
<1>1. /\ pc[j] \in CallSteps /\ Goto(j, "asked") /\ Return(j)
      /\ UNCHANGED <<bars, db, move, attr, found, deliveries, curated>>
  BY DEF Answer, CallSteps
<1>2. /\ pc' \in [Jobs -> Ended \cup {"new", "queued", "committed"} \cup Steps]
      /\ pc'[j] = "asked" /\ \A i \in Jobs \ {j} : pc'[i] = pc[i]
  BY <1>1, GotoFacts DEF Inv, Steps
<1>3. Shape'
  BY <1>1, <1>2, ReturnFacts DEF Inv, Shape, TypeOK, Calls
<1>4. Local(j)'
  BY <1>1, <1>2, ReturnFacts DEF Local
<1>5. View(j)'
  BY <1>1, ReturnView
<1>. QED
  BY <1>1, <1>2, <1>3, <1>4, <1>5, ReturnFacts, OwnStep

-------------------------------------------------------------------------------
(* Upserts                                                                     *)

\* An upsert leaves the row it was for, and touches no other, or ends the transaction.
LEMMA UpsertFacts ==
  ASSUME Inv, NEW j \in Jobs, pc[j] \in {"attribute", "file"},
         NEW k \in Keys \ Calls, k = Target[pc[j]], NEW v \in RowsOf(k),
         NEW next \in {"pack", "commit"}, Upsert(j, v, next),
         UNCHANGED <<bars, db, deliveries, outrun>>, ~EndTransaction(j, "failed")
  PROVE  /\ Shape' /\ Exclusive' /\ WrittenOnce'
         /\ pc'[j] = next /\ UNCHANGED frame
         /\ \A i \in Jobs \ {j} : pc'[i] = pc[i] /\ pending'[i] = pending[i]
         /\ Seen(j, k)' = v /\ \A l \in Keys \ {k} : Seen(j, l)' = Seen(j, l)
<1>1. Goto(j, next) /\ UNCHANGED <<frame, curated>>
  BY DEF Upsert
<1>2. /\ pc' \in [Jobs -> Ended \cup {"new", "queued", "committed"} \cup Steps]
      /\ pc'[j] = next /\ \A i \in Jobs \ {j} : pc'[i] = pc[i]
  BY <1>1, GotoFacts DEF Inv, Steps
<1>3. CASE ~Waits(j) /\ Write(j, k, v)
  <2>1. /\ pending' \in [Jobs -> [Keys -> AnyRow]] /\ \A i \in Jobs : IsTable(pending'[i])
        /\ \A i \in Jobs \ {j} : pending'[i] = pending[i]
        /\ pending'[j][k] = v /\ \A l \in Keys \ {k} : pending'[j][l] = pending[j][l]
    BY <1>3, WriteType DEF Inv
  <2>2. Exclusive'
    <3>1. pc[j] \in DOMAIN Target
      BY DEF Target
    <3>. QED
      BY <1>3, <3>1, WriteAlone DEF Inv
  <2>3. WrittenOnce'
    BY <2>1, KeyFacts DEF Inv, WrittenOnce
  <2>4. v # NoRow
    BY RowFacts DEF RowsOf
  <2>5. Seen(j, k)' = v
    BY <2>1, <2>4 DEF Seen
  <2>6. \A l \in Keys \ {k} : Seen(j, l)' = Seen(j, l)
    BY <2>1 DEF Seen
  <2>7. Shape'
    BY <1>1, <1>2, <2>1 DEF Inv, Shape, TypeOK, frame
  <2>. QED
    BY <1>1, <1>2, <2>1, <2>2, <2>3, <2>5, <2>6, <2>7
<1>4. CASE Seen(j, k) = v /\ UNCHANGED pending
  <2>1. Shape' /\ Exclusive' /\ WrittenOnce'
    BY <1>1, <1>2, <1>4 DEF Inv, Shape, TypeOK, frame, Exclusive, WrittenOnce
  <2>2. \A l \in Keys : Seen(j, l)' = Seen(j, l)
    BY <1>4 DEF Seen
  <2>. QED
    BY <1>1, <1>2, <1>4, <2>1, <2>2
<1>. QED
  BY <1>3, <1>4 DEF Upsert

LEMMA AttributeStep ==
  ASSUME Inv, NEW j \in Jobs, Attribute(j)
  PROVE  Inv'
<1>1. /\ pc[j] = "attribute" /\ Upsert(j, move[j], "pack")
      /\ UNCHANGED <<bars, db, deliveries, outrun>>
  BY DEF Attribute
<1>2. CASE EndTransaction(j, "failed")
  BY <1>1, <1>2, RollbackStep
<1>3. CASE ~EndTransaction(j, "failed")
  <2>1. Target[pc[j]] = "daily_attribution" /\ "daily_attribution" \in Keys \ Calls
    BY <1>1 DEF Target, Keys, Calls
  <2>2. /\ Seen(j, "get_price_move") # NoRow /\ Agrees(move[j], Seen(j, "get_price_move"))
        /\ move[j] \in RowsOf("daily_attribution")
    BY <1>1, KeyFacts DEF Inv, Local, Shape, TypeOK, Moves
  <2>3. /\ Shape' /\ Exclusive' /\ WrittenOnce' /\ pc'[j] = "pack" /\ UNCHANGED frame
        /\ \A i \in Jobs \ {j} : pc'[i] = pc[i] /\ pending'[i] = pending[i]
        /\ Seen(j, "daily_attribution")' = move[j]
        /\ \A l \in Keys \ {"daily_attribution"} : Seen(j, l)' = Seen(j, l)
    BY <1>1, <1>3, <2>1, <2>2, UpsertFacts
  <2>4. View(j)'
    BY <1>1, <2>2, <2>3, KeyFacts DEF Inv, View, Consistent, Backed, Agrees
  <2>5. Local(j)'
    BY <1>1, <2>2, <2>3, KeyFacts DEF Inv, Local, CallSteps, AskSteps, Agrees, frame
  <2>. QED
    BY <1>1, <2>3, <2>4, <2>5, OwnStep DEF frame
<1>. QED
  BY <1>2, <1>3

LEMMA FileStep ==
  ASSUME Inv, NEW j \in Jobs, File(j)
  PROVE  Inv'
<1>. DEFINE card == [price |-> move[j], attribution |-> attr[j]]
<1>1. /\ pc[j] = "file" /\ Upsert(j, card, "commit")
      /\ UNCHANGED <<bars, db, deliveries, outrun>>
  BY DEF File
<1>2. CASE EndTransaction(j, "failed")
  BY <1>1, <1>2, RollbackStep
<1>3. CASE ~EndTransaction(j, "failed")
  <2>1. Target[pc[j]] = "briefing_card" /\ "briefing_card" \in Keys \ Calls
    BY <1>1 DEF Target, Keys, Calls
  <2>2. Backed(card, Seen(j, "get_price_move"), Seen(j, "get_attribution"))
    BY <1>1 DEF Inv, Local
  <2>3. card \in RowsOf("briefing_card")
    BY KeyFacts DEF Inv, Shape, TypeOK, Packs
  <2>. HIDE DEF card
  <2>4. /\ Shape' /\ Exclusive' /\ WrittenOnce' /\ pc'[j] = "commit" /\ UNCHANGED frame
        /\ \A i \in Jobs \ {j} : pc'[i] = pc[i] /\ pending'[i] = pending[i]
        /\ Seen(j, "briefing_card")' = card
        /\ \A l \in Keys \ {"briefing_card"} : Seen(j, l)' = Seen(j, l)
    BY <1>1, <1>3, <2>1, <2>3, UpsertFacts
  <2>5. View(j)'
    BY <1>1, <2>2, <2>4, KeyFacts DEF Inv, View, Consistent, Backed, Agrees
  <2>6. Local(j)'
    BY <1>1, <2>4 DEF Inv, Local, CallSteps, AskSteps, frame
  <2>. QED
    BY <1>1, <2>4, <2>5, <2>6, OwnStep DEF frame
<1>. QED
  BY <1>2, <1>3

-------------------------------------------------------------------------------
(* Steps that write nothing                                                    *)

\* What a call computes agrees with the price move, if it is of get_attribution: it
\* reads the attribution row, which was made of the price move that the job sees.
LEMMA InvokeStep ==
  ASSUME Inv, NEW j \in Jobs, Invoke(j)
  PROVE  Inv'
<1>. DEFINE k == Target[pc[j]]
<1>1. /\ pc[j] \in CallSteps /\ call' = [call EXCEPT ![j] = Compute(j, k)]
      /\ UNCHANGED <<bars, db, pending, pc, move, attr, found, deliveries, curated, outrun>>
  BY DEF Invoke
<1>2. Seen(j, "daily_attribution") \in Nat \cup {NoRow}
  BY SeenType, KeyFacts DEF Inv
<1>3. PriceMove \in Moves
  BY DEF Inv, Shape, TypeOK, PriceMove, Moves
<1>4. Compute(j, k) \in Moves
  BY <1>2, <1>3, RowFacts DEF Compute
<1>5. call' \in [Jobs -> Moves \cup {NoRow}] /\ call'[j] = Compute(j, k)
      /\ \A i \in Jobs \ {j} : call'[i] = call[i]
  BY <1>1, <1>4 DEF Inv, Shape, TypeOK
<1>6. TypeOK'
  BY <1>1, <1>5 DEF Inv, Shape, TypeOK
<1>7. ASSUME pc[j] \in {"pack", "askAttribution"} PROVE Agrees(Compute(j, k), Seen(j, "get_price_move"))
  <2>1. k = "get_attribution"
    BY <1>7 DEF Target
  <2>2. Compute(j, k) \in {Null, Seen(j, "daily_attribution")}
        /\ (Compute(j, k) # Null => Seen(j, "daily_attribution") # NoRow)
    BY <2>1 DEF Compute
  <2>. QED
    BY <2>2 DEF Inv, View, Consistent, Agrees
<1>8. Local(j)'
  BY <1>1, <1>5, <1>7 DEF Inv, Local, Seen, Agrees, Backed
<1>. QED
  BY <1>1, <1>5, <1>6, <1>8, QuietStep

\* The SELECT of an upsert changes only what it found.
LEMMA SelectStep ==
  ASSUME Inv, NEW j \in Jobs, SelectDaily(j) \/ SelectCard(j)
  PROVE  Inv'
<1>1. PICK to \in {"attribute", "file"}, k \in Keys :
        /\ Goto(j, to) /\ found' = [found EXCEPT ![j] = Seen(j, k) # NoRow]
        /\ pc[j] = IF to = "attribute" THEN "selectDaily" ELSE "selectCard"
        /\ UNCHANGED <<bars, db, pending, call, move, attr, deliveries, curated, outrun>>
  BY KeyFacts DEF SelectDaily, SelectCard
<1>2. /\ pc' \in [Jobs -> Ended \cup {"new", "queued", "committed"} \cup Steps]
      /\ pc'[j] = to /\ \A i \in Jobs \ {j} : pc'[i] = pc[i]
  BY <1>1, GotoFacts DEF Inv, Steps
<1>3. TypeOK'
  BY <1>1, <1>2 DEF Inv, Shape, TypeOK
<1>4. Local(j)'
  BY <1>1, <1>2 DEF Inv, Local, Seen, Agrees, Backed, CallSteps, AskSteps
<1>. QED
  BY <1>1, <1>2, <1>3, <1>4, QuietStep

\* Deliveries, acknowledgements and questions begin or end with empty hands.
LEMMA MessageStep ==
  ASSUME Inv, NEW j \in Jobs, Deliver(j) \/ Ack(j) \/ Ask(j)
  PROVE  Inv'
<1>1. /\ pc[j] \in {"queued", "committed", "new", "asked"}
      /\ UNCHANGED <<bars, db, pending, call, move, attr, found, outrun>>
      /\ curated' \subseteq Briefs
  BY DEF Deliver, Ack, Ask, Inv, Shape, TypeOK, frame
<1>2. PICK to \in {"price", "done"} \cup AskSteps : Goto(j, to)
  BY DEF Deliver, Ack, Ask
<1>3. deliveries' \in [Jobs -> Nat]
  BY DEF Deliver, Ack, Ask, Inv, Shape, TypeOK
<1>4. /\ pc' \in [Jobs -> Ended \cup {"new", "queued", "committed"} \cup Steps]
      /\ pc'[j] = to /\ \A i \in Jobs \ {j} : pc'[i] = pc[i]
  BY <1>2, GotoFacts DEF Inv, Steps, Ended
<1>5. TypeOK'
  BY <1>1, <1>3, <1>4 DEF Inv, Shape, TypeOK
<1>6. call'[j] = NoRow
  BY <1>1 DEF Inv, Local, CallSteps, AskSteps
<1>7. Local(j)'
  BY <1>4, <1>6 DEF Local, Agrees, AskSteps
<1>. QED
  BY <1>1, <1>4, <1>5, <1>7, QuietStep

\* Bars are not what rows are made of once a call has returned.
LEMMA IngestStep ==
  ASSUME Inv, Ingest
  PROVE  Inv'
<1>1. bars' \in Nat /\ UNCHANGED <<db, pending, pc, frame, deliveries, curated, outrun>>
  BY DEF Ingest, Inv, Shape, TypeOK
<1>2. Shape' /\ Exclusive' /\ WrittenOnce'
  BY <1>1 DEF Inv, Shape, TypeOK, Exclusive, WrittenOnce, frame
<1>3. Committed'
  BY <1>1 DEF Inv, Committed, Consistent, Backed, Agrees
<1>4. ASSUME NEW i \in Jobs PROVE View(i)' /\ Local(i)'
  BY <1>1 DEF Inv, View, Consistent, Local, Seen, Backed, Agrees, frame
<1>. QED
  BY <1>2, <1>3, <1>4 DEF Inv

\* A task or a turn that ends early ends its transaction.
LEMMA EndStep ==
  ASSUME Inv, NEW j \in Jobs, DeadlockVictim(j) \/ Fail(j) \/ Crash(j)
  PROVE  Inv'
BY RollbackStep DEF DeadlockVictim, Fail, Crash

-------------------------------------------------------------------------------
(* Every behaviour                                                             *)

LEMMA InitInv == Init => Inv
<1>. SUFFICES ASSUME Init PROVE Inv
  OBVIOUS
<1>. USE EmptyFacts, KeyFacts, RowFacts
<1>1. Shape
  BY DEF Init, Shape, TypeOK, Ended
<1>2. Exclusive /\ WrittenOnce
  BY DEF Init, Exclusive, WrittenOnce
<1>3. \A k \in Keys : db[k] = NoRow /\ \A j \in Jobs : Seen(j, k) = NoRow
  BY DEF Init, Seen
<1>4. Committed
  BY <1>3 DEF Committed, Consistent, Agrees
<1>5. ASSUME NEW j \in Jobs PROVE View(j) /\ Local(j)
  <2>1. View(j)
    BY <1>3 DEF View, Consistent, Agrees
  <2>2. pc[j] \in {"new", "queued"} /\ call[j] = NoRow
    BY DEF Init
  <2>. QED
    BY <2>1, <2>2 DEF Local
<1>. QED
  BY <1>1, <1>2, <1>4, <1>5 DEF Inv

LEMMA NextInv == Inv /\ [Next]_vars => Inv'
<1>. SUFFICES ASSUME Inv, [Next]_vars PROVE Inv'
  OBVIOUS
<1>1. CASE UNCHANGED vars
  <2>1. Shape' /\ Exclusive' /\ WrittenOnce'
    BY <1>1 DEF Inv, Shape, TypeOK, Exclusive, WrittenOnce, vars, frame
  <2>2. Committed'
    BY <1>1 DEF Inv, Committed, Consistent, Backed, Agrees, vars
  <2>3. ASSUME NEW i \in Jobs PROVE View(i)' /\ Local(i)'
    BY <1>1 DEF Inv, View, Consistent, Local, Seen, Backed, Agrees, vars, frame
  <2>. QED
    BY <2>1, <2>2, <2>3 DEF Inv
<1>2. CASE Ingest
  BY <1>2, IngestStep
<1>3. ASSUME NEW j \in Jobs, Work(j) \/ Ask(j) \/ Fail(j) \/ Crash(j) PROVE Inv'
  BY <1>3, MessageStep, InvokeStep, PriceStep, SelectStep, AttributeStep, PackStep, FileStep,
     AnswerStep, CommitStep, EndStep DEF Work
<1>. QED
  BY <1>1, <1>2, <1>3 DEF Next

LEMMA InvAlways == Spec => []Inv
BY InitInv, NextInv, PTL DEF Spec

\* Tables hold rows of their kind, and an attribution row a return, for any tasks and
\* chat turns (engine/drivers/attribution.py, engine/drivers/briefing.py).
THEOREM TypeCorrect == Spec => []TypeOK
<1>1. Inv => TypeOK
  BY DEF Inv, Shape
<1>. QED
  BY <1>1, InvAlways, PTL

\* The numbers of a briefing card are those of the engine_call rows it cites
\* (engine/drivers/briefing.py), whatever ran before, beside or between.
THEOREM CardAlwaysIsLedger == Spec => []CardIsLedger
<1>1. Inv => CardIsLedger
  BY DEF Inv, Committed, Consistent, Backed, CardIsLedger
<1>. QED
  BY <1>1, InvAlways, PTL

\* The attribution row is made of the price move that the ledger holds
\* (engine/drivers/attribution.py), unless a call of get_price_move was outrun.
THEOREM AttributionAlwaysIsPriceMove == Spec => []AttributionIsPriceMove
<1>1. Inv => AttributionIsPriceMove
  <2>. SUFFICES ASSUME Inv PROVE AttributionIsPriceMove
    OBVIOUS
  <2>1. db["daily_attribution"] \in Nat \cup {NoRow}
    BY KeyFacts DEF Inv, Shape, TypeOK, IsTable
  <2>. QED
    BY <2>1, RowFacts DEF Inv, Committed, Consistent, Agrees, AttributionIsPriceMove
<1>. QED
  BY <1>1, InvAlways, PTL

\* A card does not contradict itself: what it says of the attribution was made of the
\* price move it shows, unless a call of get_price_move was outrun.
THEOREM CardAlwaysAgreesWithItself == Spec => []CardAgreesWithItself
<1>1. Inv => CardAgreesWithItself
  <2>. SUFFICES ASSUME Inv, db["briefing_card"] # NoRow
                PROVE  \/ db["briefing_card"].attribution \in {Null, db["briefing_card"].price}
                       \/ "get_price_move" \in outrun
    BY DEF CardAgreesWithItself
  <2>1. db["briefing_card"].attribution \in Moves
    <3>1. db["briefing_card"] \in Packs
      BY KeyFacts DEF Inv, Shape, TypeOK, IsTable
    <3>. QED
      BY <3>1 DEF Packs
  <2>. QED
    BY <2>1, RowFacts DEF Inv, Committed, Consistent, Backed, Agrees
<1>. QED
  BY <1>1, InvAlways, PTL

\* A task that runs again, or beside another, leaves the numbers of a card as they are
\* (pipeline/tasks.py), unless a call of get_attribution was outrun.
THEOREM CardNumbersAlwaysStay == Spec => CardNumbersStay
<1>1. Inv /\ Inv' /\ [Next]_vars =>
        [db["briefing_card"] # NoRow =>
           \/ db'["briefing_card"] = db["briefing_card"]
           \/ "get_attribution" \in outrun]_vars
  <2>. SUFFICES ASSUME Inv, Inv', [Next]_vars, db["briefing_card"] # NoRow,
                       db'["briefing_card"] # db["briefing_card"], "get_attribution" \notin outrun
                PROVE  FALSE
    OBVIOUS
  <2>1. PICK j \in Jobs : Commit(j)
    BY DEF Next, vars, Ingest, Work, Deliver, Invoke, Price, SelectDaily, Attribute, Pack,
           SelectCard, File, Answer, Ack, DeadlockVictim, Ask, Fail, Crash
  <2>2. outrun' = outrun /\ \A k \in Keys : db'[k] = Seen(j, k)
    BY <2>1 DEF Commit
  <2>3. \A k \in Calls : db[k] # NoRow => db'[k] = db[k]
    BY <2>2, KeyFacts DEF Inv, WrittenOnce, Seen
  <2>4. db["briefing_card"] \in Packs /\ db'["briefing_card"] \in Packs
    <3>1. db'["briefing_card"] # NoRow
      BY <2>2, KeyFacts DEF Seen
    <3>. QED
      BY <3>1, KeyFacts DEF Inv, Shape, TypeOK, IsTable
  <2>5. /\ db'["briefing_card"].price = db["briefing_card"].price
        /\ db'["briefing_card"].attribution = db["briefing_card"].attribution
    BY <2>2, <2>3, <2>4, RowFacts DEF Inv, Committed, Consistent, Backed, Calls
  <2>. QED
    BY <2>4, <2>5 DEF Packs
<1>. QED
  BY <1>1, InvAlways, PTL DEF Spec, CardNumbersStay

-------------------------------------------------------------------------------
(* The ledger                                                                  *)

\* What of the database is the ledger, for the two calls of D.
Ledger == [k \in Calls |-> db[k]]
Store == INSTANCE LedgerStore WITH CallIds <- Calls, Rows <- Moves, store <- Ledger

\* The two calls that tasks and chat turns share are a store that is written once, as
\* the ledger that EngineLedger models in detail (engine/ledger.py): what a
\* card cites is what it was written from for good.
THEOREM ImplementsStore == Spec => Store!Spec
<1>1. Init => Store!Init
  BY EmptyFacts, KeyFacts DEF Init, Store!Init, Ledger
<1>2. Inv /\ Inv' /\ [Next]_vars => [Store!Publish]_Ledger
  <2>. SUFFICES ASSUME Inv, Inv', [Next]_vars, Ledger' # Ledger PROVE Store!Publish
    OBVIOUS
  <2>1. PICK j \in Jobs : Commit(j)
    BY DEF Next, vars, Ingest, Work, Deliver, Invoke, Price, SelectDaily, Attribute, Pack,
           SelectCard, File, Answer, Ack, DeadlockVictim, Ask, Fail, Crash, Ledger
  <2>2. \A k \in Calls : db[k] # NoRow => db'[k] = db[k]
    BY <2>1, KeyFacts DEF Commit, Inv, WrittenOnce, Seen
  <2>3. \A k \in Calls : db'[k] \in Moves \cup {NoRow}
    BY KeyFacts DEF Inv, Shape, TypeOK, IsTable
  <2>. QED
    BY <2>2, <2>3 DEF Store!Publish, Store!Stores, Ledger
<1>. QED
  BY <1>1, <1>2, InvAlways, PTL DEF Spec, Store!Spec
===============================================================================
