----------------------------- MODULE Briefings ------------------------------
(***************************************************************************)
(* The briefing tasks of one company and one trading date D                *)
(* (pipeline/tasks.py, engine/drivers/attribution.py and briefing.py): the *)
(* attribution of D (Tier 3) is computed and upserted, a pack of engine    *)
(* results is narrated, and the briefing card is upserted, in a single     *)
(* transaction.  Chat turns call the same engine tools for D at any time,  *)
(* before or after the bar of D is curated.  Celery acknowledges a task    *)
(* late: if its worker dies, before or after the commit, the task is       *)
(* delivered again.                                                        *)
(*                                                                         *)
(* db holds one committed row for each unique key that matters for D, and  *)
(* pending what each open transaction has written.  A write of a row that  *)
(* another open transaction has written waits for its end: it is a unique  *)
(* key, or a row lock.                                                     *)
(*                                                                         *)
(* A price move is the version of the price_bar rows it was computed from; *)
(* version 0 has no bar of D, and no return at all unless the company has  *)
(* earlier bars.                                                           *)
(***************************************************************************)
EXTENDS Naturals

CONSTANTS
  Briefs,        \* messages of briefing.generate_for_company
  Chats,         \* chat turns
  NoRow,         \* no row in a table
  Null,          \* a row without a return
  HasHistory,    \* the company has bars of earlier days
  MaxBars,       \* bound on the versions of the bars
  MaxDeliveries, \* bound on the deliveries of each message
  MaxAsks        \* bound on the tool calls of a chat turn

Jobs == Briefs \cup Chats

\* What get_price_move and get_attribution say of a return.
Moves == Nat \cup {Null}
Packs == [price : Moves, attribution : Moves]

ASSUME NoRowAssumption ==
  NoRow # Null /\ NoRow \notin Nat /\ Null \notin Nat /\ NoRow \notin Packs
ASSUME JobAssumption == Briefs \cap Chats = {}
ASSUME HistoryAssumption == HasHistory \in BOOLEAN
ASSUME BoundAssumption ==
  MaxBars \in Nat /\ MaxDeliveries \in [Briefs -> Nat] /\ MaxAsks \in Nat

VARIABLES
  bars,       \* version of the curated bars of the company
  db,         \* committed rows
  pending,    \* rows written by each open transaction
  pc,         \* where each job stands
  call,       \* what the engine call under way computed
  move,       \* the price move a task has in hand
  attr,       \* the answer of get_attribution that it has in hand
  found,      \* what its last SELECT for an upsert found
  deliveries, \* times a message was delivered; tool calls of a chat turn
  curated,    \* history: tasks under way that were delivered when D was curated
  outrun      \* history: tools of which a call has returned other data than
              \* the row it was persisted under

frame == <<call, move, attr, found>>
vars == <<bars, db, pending, pc, frame, deliveries, curated, outrun>>

----------------------------------------------------------------------------
(* Rows and transactions *)

\* The last two are rows of engine_call.
Keys == {"daily_attribution", "briefing_card", "get_price_move", "get_attribution"}

Empty == [k \in Keys |-> NoRow]

Seen(j, k) == IF pending[j][k] # NoRow THEN pending[j][k] ELSE db[k]

\* The row that the statement at each step writes.
Target ==
  [price |-> "get_price_move", attribute |-> "daily_attribution",
   pack |-> "get_attribution", file |-> "briefing_card",
   askPrice |-> "get_price_move", askAttribution |-> "get_attribution"]

WaitsFor(j, o) ==
  /\ o # j
  /\ pc[j] \in DOMAIN Target
  /\ pending[o][Target[pc[j]]] # NoRow

Waits(j) == \E o \in Jobs : WaitsFor(j, o)

\* Each of a set of jobs waits for another of them, and is waited for.
Deadlocked(j) ==
  /\ Waits(j)
  /\ \E C \in SUBSET Jobs :
       /\ j \in C
       /\ \A c \in C : \E d \in C : WaitsFor(c, d)
       /\ \A d \in C : \E c \in C : WaitsFor(c, d)

AskSteps == {"askPrice", "askAttribution"}
CallSteps == {"price", "pack"} \cup AskSteps
Ended == {"done", "failed"}
Working(j) == pc[j] \notin Ended \cup {"new", "queued", "committed"}

Goto(j, to) == pc' = [pc EXCEPT ![j] = to]

Write(j, k, v) == pending' = [pending EXCEPT ![j][k] = v]

Forget(j) ==
  /\ call' = [call EXCEPT ![j] = NoRow]
  /\ move' = [move EXCEPT ![j] = Null]
  /\ attr' = [attr EXCEPT ![j] = Null]
  /\ found' = [found EXCEPT ![j] = FALSE]

EndTransactionMutant(j, to) ==
  /\ Goto(j, to)
  /\ Forget(j)
  /\ UNCHANGED pending
  /\ curated' = IF to = "committed" THEN curated ELSE curated \ {j}

\* The transaction of j is over, and what it held is released.
EndTransaction(j, to) ==
  /\ Goto(j, to)
  /\ Forget(j)
  /\ pending' = [pending EXCEPT ![j] = Empty]
  /\ curated' = IF to = "committed" THEN curated ELSE curated \ {j}

\* The flush of an upsert that has looked for the row before: an UPDATE if it
\* was there, which is not sent if it changes nothing, else an INSERT, which
\* fails if the row has been committed since.
Upsert(j, v, next) ==
  LET k == Target[pc[j]] IN
    \/ /\ found[j] \/ Seen(j, k) = NoRow
       /\ ~Waits(j)
       /\ Goto(j, next)
       /\ Write(j, k, v)
       /\ UNCHANGED <<frame, curated>>
    \/ /\ found[j] /\ Seen(j, k) = v
       /\ Goto(j, next)
       /\ UNCHANGED <<pending, frame, curated>>
    \/ /\ ~found[j] /\ Seen(j, k) # NoRow
       /\ EndTransaction(j, "failed")

----------------------------------------------------------------------------
(* Engine tools *)

PriceMove == IF bars = 0 /\ ~HasHistory THEN Null ELSE bars

ComputeMutant(j, k) == PriceMove

\* What the tool computes from the tables that j sees.
Compute(j, k) ==
  IF k = "get_price_move" THEN PriceMove
  ELSE IF Seen(j, "daily_attribution") # NoRow THEN Seen(j, "daily_attribution")
  ELSE Null

\* A call finds no row in the ledger, and the tool computes one.
Invoke(j) ==
  /\ pc[j] \in CallSteps
  /\ call[j] = NoRow /\ Seen(j, Target[pc[j]]) = NoRow
  /\ call' = [call EXCEPT ![j] = Compute(j, Target[pc[j]])]
  /\ UNCHANGED <<bars, db, pending, pc, move, attr, found, deliveries, curated, outrun>>

\* What the call gives to j.
Result(j) == IF call[j] # NoRow THEN call[j] ELSE Seen(j, Target[pc[j]])

\* The call returns: with the row it found, or with what it computed.  That is
\* inserted, unless a row of its id was committed in the meantime, which is kept.
Return(j) ==
  LET k == Target[pc[j]]
      row == Seen(j, k)
  IN /\ call[j] # NoRow \/ row # NoRow
     /\ call' = [call EXCEPT ![j] = NoRow]
     /\ IF row # NoRow THEN UNCHANGED pending ELSE ~Waits(j) /\ Write(j, k, call[j])
     /\ outrun' = IF row \in {NoRow, Result(j)} THEN outrun ELSE outrun \cup {k}

----------------------------------------------------------------------------
(* Celery *)

Deliver(j) ==
  /\ j \in Briefs /\ pc[j] = "queued"
  /\ Goto(j, "price")
  /\ deliveries' = [deliveries EXCEPT ![j] = @ + 1]
  /\ curated' = IF bars > 0 THEN curated \cup {j} ELSE curated
  /\ UNCHANGED <<bars, db, pending, frame, outrun>>

Commit(j) ==
  /\ pc[j] \in {"commit", "asked"}
  /\ EndTransaction(j, IF j \in Chats THEN "done" ELSE "committed")
  /\ db' = [k \in Keys |-> Seen(j, k)]
  /\ UNCHANGED <<bars, deliveries, outrun>>

Ack(j) ==
  /\ pc[j] = "committed"
  /\ Goto(j, "done")
  /\ curated' = curated \ {j}
  /\ UNCHANGED <<bars, db, pending, frame, deliveries, outrun>>

\* Something raises: the language model, a statement, an insert that lost the
\* race for its key.  No task calls retry() or names exceptions to retry on, so
\* Celery acknowledges the message, as it does when only the worker's child
\* process dies.
Fail(j) ==
  /\ Working(j)
  /\ EndTransaction(j, "failed")
  /\ UNCHANGED <<bars, db, deliveries, outrun>>

DeadlockVictim(j) ==
  /\ Deadlocked(j)
  /\ EndTransaction(j, "failed")
  /\ UNCHANGED <<bars, db, deliveries, outrun>>

\* The worker dies, in the middle of a task or before it acknowledges it.
Crash(j) ==
  /\ j \in Briefs
  /\ Working(j) \/ pc[j] = "committed"
  /\ deliveries[j] < MaxDeliveries[j]
  /\ EndTransaction(j, "queued")
  /\ UNCHANGED <<bars, db, deliveries, outrun>>

----------------------------------------------------------------------------
(* briefing.generate_for_company *)

PriceMutant(j) ==
  /\ pc[j] = "price"
  /\ Goto(j, IF PriceMove = Null THEN "pack" ELSE "selectDaily")
  /\ move' = [move EXCEPT ![j] = PriceMove]
  /\ Return(j)
  /\ UNCHANGED <<bars, db, attr, found, deliveries, curated>>

PriceAlwaysMutant(j) ==
  /\ pc[j] = "price"
  /\ Goto(j, "selectDaily")
  /\ move' = [move EXCEPT ![j] = Result(j)]
  /\ Return(j)
  /\ UNCHANGED <<bars, db, attr, found, deliveries, curated>>

\* compute_attribution: get_price_move.  Without a return there is no more to do.
Price(j) ==
  /\ pc[j] = "price"
  /\ Goto(j, IF Result(j) = Null THEN "pack" ELSE "selectDaily")
  /\ move' = [move EXCEPT ![j] = Result(j)]
  /\ Return(j)
  /\ UNCHANGED <<bars, db, attr, found, deliveries, curated>>

SelectDaily(j) ==
  /\ pc[j] = "selectDaily"
  /\ Goto(j, "attribute")
  /\ found' = [found EXCEPT ![j] = Seen(j, "daily_attribution") # NoRow]
  /\ UNCHANGED <<bars, db, pending, call, move, attr, deliveries, curated, outrun>>

Attribute(j) ==
  /\ pc[j] = "attribute"
  /\ Upsert(j, move[j], "pack")
  /\ UNCHANGED <<bars, db, deliveries, outrun>>

PackMutant(j) ==
  /\ pc[j] = "pack"
  /\ Goto(j, "selectCard")
  /\ move' = [move EXCEPT ![j] = PriceMove]
  /\ attr' = [attr EXCEPT ![j] = Result(j)]
  /\ Return(j)
  /\ UNCHANGED <<bars, db, found, deliveries, curated>>

\* generate_briefing: build_fact_pack calls get_price_move again, whose row is
\* there by now, and get_attribution.
Pack(j) ==
  /\ pc[j] = "pack"
  /\ Goto(j, "selectCard")
  /\ move' = [move EXCEPT ![j] = Seen(j, "get_price_move")]
  /\ attr' = [attr EXCEPT ![j] = Result(j)]
  /\ Return(j)
  /\ UNCHANGED <<bars, db, found, deliveries, curated>>

\* The narrative is there; is there a card for the company and D?
SelectCard(j) ==
  /\ pc[j] = "selectCard"
  /\ Goto(j, "file")
  /\ found' = [found EXCEPT ![j] = Seen(j, "briefing_card") # NoRow]
  /\ UNCHANGED <<bars, db, pending, call, move, attr, deliveries, curated, outrun>>

File(j) ==
  /\ pc[j] = "file"
  /\ Upsert(j, [price |-> move[j], attribution |-> attr[j]], "commit")
  /\ UNCHANGED <<bars, db, deliveries, outrun>>

----------------------------------------------------------------------------
(* A chat turn that calls the same tools for D, in any order *)

Ask(j) ==
  /\ j \in Chats
  /\ pc[j] \in {"new", "asked"}
  /\ deliveries[j] < MaxAsks
  /\ \E to \in AskSteps : Goto(j, to)
  /\ deliveries' = [deliveries EXCEPT ![j] = @ + 1]
  /\ UNCHANGED <<bars, db, pending, frame, curated, outrun>>

Answer(j) ==
  /\ pc[j] \in AskSteps
  /\ Goto(j, "asked")
  /\ Return(j)
  /\ UNCHANGED <<bars, db, move, attr, found, deliveries, curated>>

----------------------------------------------------------------------------

\* Ingestion curates bars of the company: first those of D and of the day
\* before, so that there is a return.
Ingest ==
  /\ bars < MaxBars
  /\ bars' = bars + 1
  /\ UNCHANGED <<db, pending, pc, frame, deliveries, curated, outrun>>

Init ==
  /\ bars = 0
  /\ db = Empty
  /\ pending = [j \in Jobs |-> Empty]
  /\ pc = [j \in Jobs |-> IF j \in Chats THEN "new" ELSE "queued"]
  /\ call = [j \in Jobs |-> NoRow]
  /\ move = [j \in Jobs |-> Null]
  /\ attr = [j \in Jobs |-> Null]
  /\ found = [j \in Jobs |-> FALSE]
  /\ deliveries = [j \in Jobs |-> 0]
  /\ curated = {}
  /\ outrun = {}

\* What a worker, or a turn, does by itself.
Work(j) ==
  \/ Deliver(j) \/ Invoke(j)
  \/ Price(j) \/ SelectDaily(j) \/ Attribute(j)
  \/ Pack(j) \/ SelectCard(j) \/ File(j)
  \/ Answer(j)
  \/ Commit(j) \/ Ack(j)
  \/ DeadlockVictim(j)

Next == Ingest \/ \E j \in Jobs : Work(j) \/ Ask(j) \/ Fail(j) \/ Crash(j)

\* A worker takes the messages of its queue and goes on with what it has
\* begun; a deadlock is detected.  Nothing makes a user ask.
Fairness == \A j \in Jobs : WF_vars(Work(j))

Spec == Init /\ [][Next]_vars
FairSpec == Spec /\ Fairness

----------------------------------------------------------------------------
(* Properties *)

RowsOf(k) ==
  IF k = "briefing_card" THEN Packs
  ELSE IF k = "daily_attribution" THEN Nat
  ELSE Moves

Steps ==
  {"price", "selectDaily", "attribute", "pack", "selectCard", "file", "asked",
   "commit"} \cup AskSteps

IsTable(rows) ==
  DOMAIN rows = Keys /\ \A k \in Keys : rows[k] \in RowsOf(k) \cup {NoRow}

\* Every table holds rows of its own kind; an attribution has a return.
TypeOK ==
  /\ bars \in Nat
  /\ IsTable(db)
  /\ \A j \in Jobs : IsTable(pending[j])
  /\ pc \in [Jobs -> Ended \cup {"new", "queued", "committed"} \cup Steps]
  /\ call \in [Jobs -> Moves \cup {NoRow}]
  /\ move \in [Jobs -> Moves]
  /\ attr \in [Jobs -> Moves]
  /\ found \in [Jobs -> BOOLEAN]
  /\ deliveries \in [Jobs -> Nat]
  /\ curated \subseteq Briefs
  /\ outrun \subseteq {"get_price_move", "get_attribution"}

\* The numbers of a card are those of the engine_call rows it cites, so its
\* evidence shows what the narrative was written from, however often the task
\* ran and whatever was ingested in between.  The one way to an attribution
\* that is not the cited one is a call that was outrun.
CardIsLedger ==
  LET card == db["briefing_card"] IN
    card # NoRow =>
      /\ card.price = db["get_price_move"]
      /\ db["get_attribution"] # NoRow
      /\ card.attribution = db["get_attribution"] \/ "get_attribution" \in outrun

\* The attribution row is computed from the price move that the ledger holds,
\* although it is written by tasks that may run twice or side by side, unless
\* a call of get_price_move was outrun.
AttributionIsPriceMove ==
  db["daily_attribution"] \in {NoRow, db["get_price_move"]}
    \/ "get_price_move" \in outrun

\* A card never shows an attribution that contradicts its price move, unless
\* a call of get_price_move was outrun.
CardAgreesWithItself ==
  LET card == db["briefing_card"] IN
    card # NoRow =>
      card.attribution \in {Null, card.price} \/ "get_price_move" \in outrun

\* A task that runs again, or beside another one, rewrites the card with the
\* same numbers, unless a call of get_attribution was outrun.
CardNumbersStay ==
  [][db["briefing_card"] # NoRow =>
       \/ db'["briefing_card"] = db["briefing_card"]
       \/ "get_attribution" \in outrun]_vars

\* A message that is in the queue is done with some day, whether tasks and chat
\* turns wait for each other's rows or not.
TasksEnd == \A j \in Briefs : pc[j] = "queued" ~> pc[j] \in Ended

\* docs/DATA_MODEL.md: Tier 3 is "recomputable from curated inputs".  A
\* briefing that was delivered when D's bar was curated leaves the attribution
\* of that bar.
AttributionFollowsCurated ==
  \A j \in curated : pc[j] = "committed" => db["daily_attribution"] = bars
=============================================================================
