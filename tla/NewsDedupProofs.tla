--------------------------- MODULE NewsDedupProofs ----------------------------
(***************************************************************************)
(* Theorems about NewsDedup, for any rows, sources, groups and ingestions. *)
(*                                                                         *)
(* An ingestion that is still alone when it stores has gathered every row  *)
(* that has an item and is recent (Complete), and what it plans for an     *)
(* item only adds to it (Adds).  One that is not alone marks its groups as *)
(* torn, and touches no others (Canonical).                                *)
(***************************************************************************)
EXTENDS NewsDedup, TLAPS

Tables == [RawRows -> (SUBSET Sources) \cup {NoItem}]

Shape ==
  /\ now \in Nat
  /\ fetched \in [RawRows -> Nat]
  /\ items \in Tables
  /\ pc \in [Ingests -> {"idle", "select", "store"}]
  /\ cands \in [Ingests -> SUBSET RawRows]
  /\ plan \in [Ingests -> Tables]
  /\ found \in [Ingests -> SUBSET RawRows]
  /\ alone \in [Ingests -> BOOLEAN]
  /\ ingested \subseteq RawRows
  /\ torn \subseteq Groups

Fetched == \A r \in RawRows : items[r] # NoItem => fetched[r] > 0

GatheredFetched(i) == \A r \in cands[i] : fetched[r] > 0

\* Nothing that has an item and is recent has been overlooked.
Complete(i) ==
  pc[i] # "idle" /\ alone[i] =>
    \A q \in RawRows : items[q] # NoItem /\ Recent(q) => q \in cands[i]

\* A planned item is of a best candidate of its group.
Canonical(i) ==
  pc[i] = "store" => \A r \in RawRows : plan[i][r] # NoItem =>
    r \in cands[i] /\ \A p \in InGroup(cands[i], GroupOf[r]) : Rank(r) <= Rank(p)

\* Every candidate has a planned item or is named by one of its group.
Covered(i) ==
  pc[i] = "store" => \A r \in cands[i] : \E q \in cands[i] :
    GroupOf[q] = GroupOf[r] /\ plan[i][q] # NoItem /\ (q = r \/ SourceOf[r] \in plan[i][q])

Adds(i) ==
  pc[i] = "store" /\ alone[i] => \A r \in RawRows :
    plan[i][r] # NoItem /\ items[r] # NoItem => items[r] \subseteq plan[i][r]

IngestInv(i) == GatheredFetched(i) /\ Complete(i) /\ Canonical(i) /\ Covered(i) /\ Adds(i)

Inv == Shape /\ Fetched /\ \A i \in Ingests : IngestInv(i)

-------------------------------------------------------------------------------

LEMMA EmptyPlan == [r \in RawRows |-> NoItem] \in Tables
BY DEF Tables

LEMMA InitInv == Init => Inv /\ EveryReleaseReported
<1>. SUFFICES ASSUME Init PROVE Inv /\ EveryReleaseReported
  OBVIOUS
<1>1. Shape
  BY EmptyPlan DEF Init, Shape, Tables
<1>2. Fetched /\ EveryReleaseReported
  BY DEF Init, Fetched, EveryReleaseReported
<1>3. ASSUME NEW i \in Ingests PROVE IngestInv(i)
  BY DEF Init, IngestInv, GatheredFetched, Complete, Canonical, Covered, Adds
<1>. QED
  BY <1>1, <1>2, <1>3 DEF Inv

\* An ingestion of which nothing has changed, while items and fetched rows stay.
LEMMA OthersKept ==
  ASSUME Inv, NEW i \in Ingests, UNCHANGED <<now, fetched, items>>,
         pc'[i] = pc[i], cands'[i] = cands[i], plan'[i] = plan[i], alone'[i] = alone[i]
  PROVE  IngestInv(i)'
BY DEF Inv, IngestInv, GatheredFetched, Complete, Canonical, Covered, Adds, Recent

LEMMA GatherStep ==
  ASSUME Inv, NEW i \in Ingests, Gather(i)
  PROVE  Inv'
<1>1. UNCHANGED <<now, fetched, items, plan, found, ingested, torn>>
  BY DEF Gather
<1>2. /\ pc' = [pc EXCEPT ![i] = "select"]
      /\ cands' = [cands EXCEPT ![i] = {r \in RawRows : Recent(r)}]
      /\ alone' = [alone EXCEPT ![i] = TRUE]
  BY DEF Gather, Goto
<1>3. Shape'
  BY <1>1, <1>2 DEF Inv, Shape
<1>4. Fetched'
  BY <1>1 DEF Inv, Fetched
<1>5. IngestInv(i)'
  <2>1. pc'[i] = "select" /\ cands'[i] = {r \in RawRows : Recent(r)}
    BY <1>2 DEF Inv, Shape
  <2>. QED
    BY <1>1, <2>1 DEF IngestInv, GatheredFetched, Complete, Canonical, Covered, Adds, Recent
<1>6. ASSUME NEW p \in Ingests \ {i} PROVE IngestInv(p)'
  BY <1>1, <1>2, OthersKept DEF Inv, Shape
<1>. QED
  BY <1>3, <1>4, <1>5, <1>6 DEF Inv

LEMMA SelectStep ==
  ASSUME Inv, NEW i \in Ingests, Select(i)
  PROVE  Inv'
<1>1. UNCHANGED <<now, fetched, items, cands, alone, ingested, torn>>
  BY DEF Select
<1>2. PICK canonical \in [{GroupOf[r] : r \in cands[i]} -> cands[i]] :
        /\ \A g \in {GroupOf[r] : r \in cands[i]} : canonical[g] \in Best(InGroup(cands[i], g))
        /\ plan' = [plan EXCEPT ![i] = [r \in RawRows |->
             IF \E g \in {GroupOf[p] : p \in cands[i]} : r = canonical[g]
               THEN Kept(r) \cup Also(InGroup(cands[i], GroupOf[r]), r)
               ELSE NoItem]]
  BY DEF Select
<1>3. /\ pc' = [pc EXCEPT ![i] = "store"]
      /\ found' = [found EXCEPT ![i] = {r \in cands[i] : plan'[i][r] # NoItem /\ items[r] # NoItem}]
  BY DEF Select, Goto
<1>. DEFINE groups == {GroupOf[r] : r \in cands[i]}
            Chosen(r) == \E g \in groups : r = canonical[g]
            entry == [r \in RawRows |-> IF Chosen(r)
                        THEN Kept(r) \cup Also(InGroup(cands[i], GroupOf[r]), r) ELSE NoItem]
<1>4. cands[i] \subseteq RawRows
  BY DEF Inv, Shape
<1>5. ASSUME NEW r \in RawRows
      PROVE  Kept(r) \cup Also(InGroup(cands[i], GroupOf[r]), r) \in SUBSET Sources
  <2>1. Kept(r) \subseteq Sources
    BY DEF Kept, Inv, Shape, Tables
  <2>2. Also(InGroup(cands[i], GroupOf[r]), r) \subseteq Sources
    BY <1>4, RowAssumption DEF Also, InGroup
  <2>. QED
    BY <2>1, <2>2
<1>6. entry \in Tables /\ plan'[i] = entry
  BY <1>2, <1>5 DEF Tables, Inv, Shape
<1>7. Shape'
  BY <1>1, <1>2, <1>3, <1>6 DEF Inv, Shape
<1>8. Fetched'
  BY <1>1 DEF Inv, Fetched
<1>9. \A r \in RawRows : Chosen(r) =>
        /\ r \in cands[i] /\ canonical[GroupOf[r]] = r
        /\ \A p \in InGroup(cands[i], GroupOf[r]) : Rank(r) <= Rank(p)
  BY <1>2 DEF Best, InGroup
<1>10. \A r \in RawRows : entry[r] # NoItem <=> Chosen(r)
  BY <1>5, RowAssumption
<1>11. Canonical(i)'
  BY <1>1, <1>6, <1>9, <1>10 DEF Canonical, Rank
<1>12. Covered(i)'
  <2>1. ASSUME NEW r \in cands[i]
        PROVE  \E q \in cands[i] : /\ GroupOf[q] = GroupOf[r] /\ entry[q] # NoItem
                                   /\ q = r \/ SourceOf[r] \in entry[q]
    <3>. DEFINE q == canonical[GroupOf[r]]
    <3>1. q \in cands[i] /\ GroupOf[q] = GroupOf[r] /\ Chosen(q)
      BY <1>2 DEF Best, InGroup
    <3>2. entry[q] = Kept(q) \cup Also(InGroup(cands[i], GroupOf[q]), q)
      BY <1>4, <3>1
    <3>3. q # r => SourceOf[r] \in Also(InGroup(cands[i], GroupOf[q]), q)
      BY <3>1 DEF Also, InGroup
    <3>4. entry[q] # NoItem
      BY <1>4, <1>10, <3>1
    <3>. QED
      BY <3>1, <3>2, <3>3, <3>4
  <2>. HIDE DEF entry
  <2>. QED
    BY <1>1, <1>6, <2>1 DEF Covered
<1>13. Adds(i)'
  BY <1>1, <1>6 DEF Adds, Kept
<1>14. GatheredFetched(i)' /\ Complete(i)'
  <2>1. pc[i] # "idle"
    BY DEF Select
  <2>. QED
    BY <1>1, <2>1 DEF Inv, IngestInv, GatheredFetched, Complete, Recent
<1>15. ASSUME NEW p \in Ingests \ {i} PROVE IngestInv(p)'
  BY <1>1, <1>2, <1>3, OthersKept DEF Inv, Shape
<1>. QED
  BY <1>7, <1>8, <1>11, <1>12, <1>13, <1>14, <1>15 DEF Inv, IngestInv

\* What an ingestion's commit does to the item of a row.
LEMMA StoreWrites ==
  ASSUME NEW i \in Ingests, Store(i), NEW r \in RawRows
  PROVE  items'[r] = IF plan[i][r] # NoItem THEN plan[i][r] ELSE items[r]
BY DEF Store, Written

LEMMA StoreStep ==
  ASSUME Inv, NEW i \in Ingests, Store(i)
  PROVE  Inv'
<1>1. UNCHANGED <<now, fetched>> /\ pc[i] = "store"
  BY DEF Store
<1>2. /\ pc' = [pc EXCEPT ![i] = "idle"]
      /\ cands' = [cands EXCEPT ![i] = {}]
      /\ plan' = [plan EXCEPT ![i] = [r \in RawRows |-> NoItem]]
      /\ found' = [found EXCEPT ![i] = {}]
      /\ alone' = [p \in Ingests |-> FALSE]
      /\ ingested' = ingested \cup cands[i]
      /\ torn' = IF alone[i] THEN torn ELSE torn \cup {GroupOf[r] : r \in cands[i]}
      /\ items' = [r \in RawRows |-> IF r \in Written(i) THEN plan[i][r] ELSE items[r]]
  BY DEF Store, Forget, Goto
<1>3. cands[i] \subseteq RawRows /\ plan[i] \in Tables /\ items \in Tables
  BY DEF Inv, Shape
<1>4. Shape'
  <2>1. items' \in Tables
    BY <1>2, <1>3 DEF Tables
  <2>2. ingested' \subseteq RawRows /\ torn' \subseteq Groups
    BY <1>2, <1>3 DEF Inv, Shape, Groups
  <2>. QED
    BY <1>1, <1>2, <2>1, <2>2, EmptyPlan DEF Inv, Shape
<1>5. Fetched'
  BY <1>1, StoreWrites DEF Inv, Fetched, IngestInv, Canonical, GatheredFetched
<1>6. IngestInv(i)'
  <2>1. pc'[i] = "idle" /\ cands'[i] = {}
    BY <1>2 DEF Inv, Shape
  <2>. QED
    BY <2>1 DEF IngestInv, GatheredFetched, Complete, Canonical, Covered, Adds
<1>7. ASSUME NEW p \in Ingests \ {i} PROVE IngestInv(p)'
  <2>1. pc'[p] = pc[p] /\ cands'[p] = cands[p] /\ plan'[p] = plan[p] /\ alone'[p] = FALSE
    BY <1>2 DEF Inv, Shape
  <2>. QED
    BY <1>1, <2>1 DEF Inv, IngestInv, GatheredFetched, Complete, Canonical, Covered, Adds
<1>. QED
  BY <1>4, <1>5, <1>6, <1>7 DEF Inv

LEMMA FailStep ==
  ASSUME Inv, NEW i \in Ingests, Fail(i)
  PROVE  Inv'
<1>1. UNCHANGED <<now, fetched, items, ingested, torn>>
  BY DEF Fail
<1>2. /\ pc' = [pc EXCEPT ![i] = "idle"]
      /\ cands' = [cands EXCEPT ![i] = {}]
      /\ plan' = [plan EXCEPT ![i] = [r \in RawRows |-> NoItem]]
      /\ found' = [found EXCEPT ![i] = {}]
      /\ alone' = [alone EXCEPT ![i] = FALSE]
  BY DEF Fail, Forget, Goto
<1>3. Shape'
  BY <1>1, <1>2, EmptyPlan DEF Inv, Shape
<1>4. Fetched'
  BY <1>1 DEF Inv, Fetched
<1>5. IngestInv(i)'
  <2>1. pc'[i] = "idle" /\ cands'[i] = {}
    BY <1>2 DEF Inv, Shape
  <2>. QED
    BY <2>1 DEF IngestInv, GatheredFetched, Complete, Canonical, Covered, Adds
<1>6. ASSUME NEW p \in Ingests \ {i} PROVE IngestInv(p)'
  BY <1>1, <1>2, OthersKept DEF Inv, Shape
<1>. QED
  BY <1>3, <1>4, <1>5, <1>6 DEF Inv

LEMMA ArriveStep ==
  ASSUME Inv, NEW r \in RawRows, Arrive(r)
  PROVE  Inv'
<1>1. UNCHANGED <<now, items, pc, cands, plan, found, alone, ingested, torn>>
  BY DEF Arrive, frame
<1>2. fetched[r] = 0 /\ fetched' = [fetched EXCEPT ![r] = now]
  BY DEF Arrive
<1>3. Shape'
  BY <1>1, <1>2 DEF Inv, Shape
<1>4. items[r] = NoItem /\ \A i \in Ingests : r \notin cands[i]
  BY <1>2 DEF Inv, Shape, Fetched, IngestInv, GatheredFetched
<1>5. \A q \in RawRows \ {r} : fetched'[q] = fetched[q]
  BY <1>2 DEF Inv, Shape
<1>6. Fetched'
  BY <1>1, <1>4, <1>5 DEF Inv, Fetched
<1>7. ASSUME NEW i \in Ingests PROVE IngestInv(i)'
  <2>1. cands[i] \subseteq RawRows
    BY DEF Inv, Shape
  <2>2. GatheredFetched(i)'
    BY <1>1, <1>4, <1>5, <2>1 DEF Inv, IngestInv, GatheredFetched
  <2>3. Complete(i)'
    BY <1>1, <1>4, <1>5 DEF Inv, IngestInv, Complete, Recent
  <2>4. Canonical(i)' /\ Covered(i)' /\ Adds(i)'
    BY <1>1 DEF Inv, IngestInv, Canonical, Covered, Adds
  <2>. QED
    BY <2>2, <2>3, <2>4 DEF IngestInv
<1>. QED
  BY <1>3, <1>6, <1>7 DEF Inv

LEMMA TickStep ==
  ASSUME Inv, Tick
  PROVE  Inv'
<1>1. UNCHANGED <<fetched, items, pc, cands, plan, found, alone, ingested, torn>>
  BY DEF Tick, frame
<1>2. now' = now + 1
  BY DEF Tick
<1>3. Shape' /\ Fetched'
  BY <1>1, <1>2 DEF Inv, Shape, Fetched
<1>4. \A q \in RawRows : Recent(q)' => Recent(q)
  BY <1>1, <1>2, BoundAssumption DEF Inv, Shape, Recent
<1>5. ASSUME NEW i \in Ingests PROVE IngestInv(i)'
  <2>1. Complete(i)'
    BY <1>1, <1>4 DEF Inv, IngestInv, Complete
  <2>2. GatheredFetched(i)' /\ Canonical(i)' /\ Covered(i)' /\ Adds(i)'
    BY <1>1 DEF Inv, IngestInv, GatheredFetched, Canonical, Covered, Adds
  <2>. QED
    BY <2>1, <2>2 DEF IngestInv
<1>. QED
  BY <1>3, <1>5 DEF Inv

LEMMA NextInv == Inv /\ [Next]_vars => Inv'
<1>. SUFFICES ASSUME Inv, [Next]_vars PROVE Inv'
  OBVIOUS
<1>1. ASSUME UNCHANGED vars PROVE Inv'
  <2>1. UNCHANGED <<now, fetched, items, pc, cands, plan, found, alone, ingested, torn>>
    BY <1>1 DEF vars, frame
  <2>2. Shape' /\ Fetched'
    BY <2>1 DEF Inv, Shape, Fetched
  <2>. QED
    BY <2>1, <2>2, OthersKept DEF Inv
<1>2. ASSUME NEW i \in Ingests, Ingest(i) PROVE Inv'
  BY <1>2, GatherStep, SelectStep, StoreStep, FailStep DEF Ingest
<1>. QED
  BY <1>1, <1>2, ArriveStep, TickStep DEF Next

LEMMA InvAlways == Spec => []Inv
<1>1. Init => Inv
  BY InitInv
<1>. QED
  BY <1>1, NextInv, PTL DEF Spec

-------------------------------------------------------------------------------
\* Items, plans and candidates keep their shape, for any rows and ingestions.
THEOREM TypeCorrect == Spec => []TypeOK
<1>1. Inv => TypeOK
  BY DEF Inv, Shape, TypeOK, IsTable, Tables
<1>. QED
  BY <1>1, InvAlways, PTL

\* What has been reported stays reported: a commit touches the items of its own
\* groups only, and adds to them if it was alone.
LEMMA ReportedStep ==
  ASSUME Inv, EveryReleaseReported, [Next]_vars
  PROVE  EveryReleaseReported'
<1>1. ASSUME NEW i \in Ingests, Store(i) PROVE EveryReleaseReported'
  <2>1. /\ pc[i] = "store" /\ cands[i] \subseteq RawRows /\ ingested \subseteq RawRows
        /\ ingested' = ingested \cup cands[i]
        /\ torn' = IF alone[i] THEN torn ELSE torn \cup {GroupOf[r] : r \in cands[i]}
    BY <1>1 DEF Store, Inv, Shape
  <2>2. SUFFICES ASSUME NEW r \in ingested', GroupOf[r] \notin torn'
                 PROVE  \E q \in RawRows : /\ GroupOf[q] = GroupOf[r] /\ items'[q] # NoItem
                                           /\ q = r \/ SourceOf[r] \in items'[q]
    BY DEF EveryReleaseReported, Items, InGroup
  <2>3. CASE r \in cands[i]
    <3>1. PICK q \in cands[i] : /\ GroupOf[q] = GroupOf[r] /\ plan[i][q] # NoItem
                                /\ q = r \/ SourceOf[r] \in plan[i][q]
      BY <2>1, <2>3 DEF Inv, IngestInv, Covered
    <3>2. q \in RawRows /\ items'[q] = plan[i][q]
      BY <1>1, <2>1, <3>1, StoreWrites
    <3>. QED
      BY <3>1, <3>2
  <2>4. CASE r \in ingested
    <3>1. GroupOf[r] \notin torn
      BY <2>1, <2>2
    <3>2. PICK q \in RawRows : /\ GroupOf[q] = GroupOf[r] /\ items[q] # NoItem
                               /\ q = r \/ SourceOf[r] \in items[q]
      BY <2>4, <3>1 DEF EveryReleaseReported, Items, InGroup
    <3>3. CASE plan[i][q] = NoItem
      BY <1>1, <3>2, <3>3, StoreWrites
    <3>4. CASE plan[i][q] # NoItem
      <4>1. q \in cands[i]
        BY <2>1, <3>4 DEF Inv, IngestInv, Canonical
      <4>2. alone[i]
        BY <2>1, <2>2, <3>2, <4>1
      <4>3. items[q] \subseteq plan[i][q]
        BY <2>1, <3>2, <3>4, <4>2 DEF Inv, IngestInv, Adds
      <4>4. items'[q] = plan[i][q]
        BY <1>1, <3>4, StoreWrites
      <4>. QED
        BY <3>2, <3>4, <4>3, <4>4
    <3>. QED
      BY <3>3, <3>4
  <2>. QED
    BY <2>1, <2>3, <2>4
<1>2. CASE UNCHANGED <<items, ingested, torn>>
  BY <1>2 DEF EveryReleaseReported, Items, InGroup
<1>. QED
  BY <1>1, <1>2 DEF Next, Ingest, Gather, Select, Fail, Arrive, Tick, vars

\* No source of a release is forgotten (ingestion/news.py:47-57), for any rows,
\* sources, groups and windows.
THEOREM EveryReleaseStaysReported == Spec => []EveryReleaseReported
<1>1. Init => EveryReleaseReported
  BY InitInv
<1>2. Inv /\ EveryReleaseReported /\ [Next]_vars => EveryReleaseReported'
  BY ReportedStep
<1>. QED
  BY <1>1, <1>2, InvAlways, PTL DEF Spec

\* A second item of a release comes only of a row of authority as high, of an item that
\* has left the window or of ingestions that overlapped (ingestion/news.py:44-53).
THEOREM SecondItemsAreLate == Spec => SecondItemOnly
<1>1. Inv /\ [Next]_vars =>
        [\A g \in Groups \ torn' : \A r \in Items(g)' \ Items(g), q \in Items(g) :
           Rank(r) <= Rank(q) \/ ~Recent(q)]_vars
  <2>. SUFFICES ASSUME Inv, [Next]_vars, NEW g \in Groups \ torn',
                       NEW r \in Items(g)' \ Items(g), NEW q \in Items(g), Recent(q)
                PROVE  Rank(r) <= Rank(q)
    OBVIOUS
  <2>1. /\ r \in RawRows /\ GroupOf[r] = g /\ items'[r] # NoItem /\ items[r] = NoItem
        /\ q \in RawRows /\ GroupOf[q] = g /\ items[q] # NoItem
    BY DEF Items, InGroup
  <2>2. PICK i \in Ingests : Store(i)
    BY <2>1 DEF Next, Ingest, Gather, Select, Fail, Arrive, Tick, vars
  <2>3. plan[i][r] # NoItem /\ pc[i] = "store"
    BY <2>1, <2>2, StoreWrites DEF Store
  <2>4. r \in cands[i] /\ \A p \in InGroup(cands[i], g) : Rank(r) <= Rank(p)
    BY <2>1, <2>3 DEF Inv, IngestInv, Canonical
  <2>5. alone[i]
    BY <2>1, <2>2, <2>4 DEF Store
  <2>6. q \in cands[i]
    BY <2>1, <2>3, <2>5 DEF Inv, IngestInv, Complete
  <2>. QED
    BY <2>1, <2>4, <2>6 DEF InGroup
<1>. QED
  BY <1>1, InvAlways, PTL DEF Spec, SecondItemOnly
===============================================================================
