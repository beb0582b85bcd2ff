------------------------------ MODULE NewsDedup ------------------------------
(***************************************************************************)
(* Press releases on their way from the raw tables of three sources to     *)
(* news_item (ingestion/news.py).  Raw rows of one release, the same       *)
(* company, day and normalised title, form a group; an ingestion gives the *)
(* group one item, that of the source of highest authority, and stamps the *)
(* other sources into its also_seen_in.                                    *)
(*                                                                         *)
(* Rows arrive in any order and on different days, an ingestion looks only *)
(* at rows fetched in the last IngestTime, and ingestions may overlap:     *)
(* each reads the raw rows, then the items, then writes what it has worked *)
(* out.  The flush and the commit are one step: an UPDATE waits for the    *)
(* other transaction's and then overwrites it, an INSERT of an item that   *)
(* has been committed fails.                                               *)
(***************************************************************************)
EXTENDS Naturals

CONSTANTS
  RawRows,    \* rows that the sources will have
  SourceOf,   \* the source of each
  GroupOf,    \* its dedup key
  RankOf,     \* _AUTHORITY_RANK, 0 for the highest authority
  Ingests,    \* ingest.all tasks
  NoItem,
  IngestTime, \* the window of the ingestion
  MaxTime     \* bound on the time that passes

Sources == DOMAIN RankOf
Groups == {GroupOf[r] : r \in RawRows}

ASSUME RowAssumption ==
  /\ SourceOf \in [RawRows -> Sources]
  /\ RankOf \in [Sources -> Nat]
  /\ \A S \in SUBSET Sources : NoItem # S
ASSUME BoundAssumption == IngestTime \in Nat /\ MaxTime \in Nat

VARIABLES
  now,
  fetched,  \* when each raw row was fetched, 0 before
  items,    \* also_seen_in of the item of each raw row, or NoItem
  pc,       \* where each ingestion stands
  cands,    \* the candidates it has gathered
  plan,     \* the items it is about to write
  found,    \* those of them that it found
  alone,    \* history: no other ingestion has committed since it gathered
  ingested, \* history: rows that a committed ingestion had gathered
  torn      \* history: groups written by an ingestion that was not alone

frame == <<pc, cands, plan, found>>
vars == <<now, fetched, items, frame, alone, ingested, torn>>

----------------------------------------------------------------------------
(* Candidates *)

\* fetched_at >= since
Recent(r) == fetched[r] > 0 /\ now <= fetched[r] + IngestTime

Rank(r) == RankOf[SourceOf[r]]

InGroup(rows, g) == {r \in rows : GroupOf[r] = g}

BestMutant(rows) == {r \in rows : \A q \in rows : Rank(q) <= Rank(r)}

\* The candidates that may come first once a group is sorted: SELECT gives no
\* order to rows of one source.
Best(rows) == {r \in rows : \A q \in rows : Rank(r) <= Rank(q)}

AlsoRowsMutant(rows, r) == rows \ {r}

\* Where the rest of the group was seen.
Also(rows, r) == {SourceOf[q] : q \in rows \ {r}}

Kept(r) == IF items[r] = NoItem THEN {} ELSE items[r]

----------------------------------------------------------------------------

Goto(i, to) == pc' = [pc EXCEPT ![i] = to]

Forget(i) ==
  /\ Goto(i, "idle")
  /\ cands' = [cands EXCEPT ![i] = {}]
  /\ plan' = [plan EXCEPT ![i] = [r \in RawRows |-> NoItem]]
  /\ found' = [found EXCEPT ![i] = {}]

Gather(i) ==
  /\ pc[i] = "idle"
  /\ Goto(i, "select")
  /\ cands' = [cands EXCEPT ![i] = {r \in RawRows : Recent(r)}]
  /\ alone' = [alone EXCEPT ![i] = TRUE]
  /\ UNCHANGED <<now, fetched, items, plan, found, ingested, torn>>

SelectMutant(i) ==
  /\ pc[i] = "select"
  /\ Goto(i, "store")
  /\ \E canonical \in [{GroupOf[r] : r \in cands[i]} -> cands[i]] :
       /\ \A g \in DOMAIN canonical : canonical[g] \in Best(InGroup(cands[i], g))
       /\ plan' = [plan EXCEPT ![i] = [r \in RawRows |->
            IF \E g \in DOMAIN canonical : r = canonical[g]
              THEN Also(InGroup(cands[i], GroupOf[r]), r)
              ELSE NoItem]]
  /\ found' = [found EXCEPT ![i] = {r \in cands[i] : plan'[i][r] # NoItem /\ items[r] # NoItem}]
  /\ UNCHANGED <<now, fetched, items, cands, alone, ingested, torn>>

\* The first candidate of each group is canonical.  Its item is looked up: what
\* is there is kept and the other sources added.
Select(i) ==
  /\ pc[i] = "select"
  /\ Goto(i, "store")
  /\ \E canonical \in [{GroupOf[r] : r \in cands[i]} -> cands[i]] :
       /\ \A g \in DOMAIN canonical : canonical[g] \in Best(InGroup(cands[i], g))
       /\ plan' = [plan EXCEPT ![i] = [r \in RawRows |->
            IF \E g \in DOMAIN canonical : r = canonical[g]
              THEN Kept(r) \cup Also(InGroup(cands[i], GroupOf[r]), r)
              ELSE NoItem]]
  /\ found' = [found EXCEPT ![i] = {r \in cands[i] : plan'[i][r] # NoItem /\ items[r] # NoItem}]
  /\ UNCHANGED <<now, fetched, items, cands, alone, ingested, torn>>

\* The rows it writes: new items, and those whose also_seen_in was not that.
Written(i) == {r \in RawRows : plan[i][r] # NoItem /\ plan[i][r] # items[r]}

Store(i) ==
  /\ pc[i] = "store"
  /\ \A r \in RawRows : plan[i][r] # NoItem /\ items[r] # NoItem => r \in found[i]
  /\ Forget(i)
  /\ items' = [r \in RawRows |-> IF r \in Written(i) THEN plan[i][r] ELSE items[r]]
  /\ alone' = [p \in Ingests |-> FALSE]
  /\ ingested' = ingested \cup cands[i]
  /\ torn' = IF alone[i] THEN torn ELSE torn \cup {GroupOf[r] : r \in cands[i]}
  /\ UNCHANGED <<now, fetched>>

\* A statement fails: the INSERT of an item that is there by now, for one.
Fail(i) ==
  /\ pc[i] # "idle"
  /\ Forget(i)
  /\ alone' = [alone EXCEPT ![i] = FALSE]
  /\ UNCHANGED <<now, fetched, items, ingested, torn>>

\* The crawl of a source commits a row that it did not have.
Arrive(r) ==
  /\ fetched[r] = 0
  /\ fetched' = [fetched EXCEPT ![r] = now]
  /\ UNCHANGED <<now, items, frame, alone, ingested, torn>>

Tick ==
  /\ now < MaxTime
  /\ now' = now + 1
  /\ UNCHANGED <<fetched, items, frame, alone, ingested, torn>>

Init ==
  /\ now = 1
  /\ fetched = [r \in RawRows |-> 0]
  /\ items = [r \in RawRows |-> NoItem]
  /\ pc = [i \in Ingests |-> "idle"]
  /\ cands = [i \in Ingests |-> {}]
  /\ plan = [i \in Ingests |-> [r \in RawRows |-> NoItem]]
  /\ found = [i \in Ingests |-> {}]
  /\ alone = [i \in Ingests |-> FALSE]
  /\ ingested = {}
  /\ torn = {}

Ingest(i) == Gather(i) \/ Select(i) \/ Store(i) \/ Fail(i)

Next ==
  \/ \E i \in Ingests : Ingest(i)
  \/ \E r \in RawRows : Arrive(r)
  \/ Tick

Spec == Init /\ [][Next]_vars

----------------------------------------------------------------------------
(* Properties *)

IsTable(rows) ==
  /\ DOMAIN rows = RawRows
  /\ \A r \in RawRows : rows[r] = NoItem \/ rows[r] \subseteq Sources

TypeOK ==
  /\ now \in Nat
  /\ fetched \in [RawRows -> Nat]
  /\ IsTable(items)
  /\ pc \in [Ingests -> {"idle", "select", "store"}]
  /\ cands \in [Ingests -> SUBSET RawRows]
  /\ \A i \in Ingests : IsTable(plan[i])
  /\ found \in [Ingests -> SUBSET RawRows]
  /\ alone \in [Ingests -> BOOLEAN]
  /\ ingested \subseteq RawRows
  /\ torn \subseteq Groups

Items(g) == {r \in InGroup(RawRows, g) : items[r] # NoItem}

\* No source of a release is forgotten: a row that an ingestion has promoted has
\* an item of its own, or is named by one of its group, however late other rows
\* came and whatever has left the window since.  Overlapping ingestions may
\* overwrite each other's also_seen_in.
EveryReleaseReported ==
  \A r \in ingested : GroupOf[r] \notin torn =>
    \E q \in Items(GroupOf[r]) : q = r \/ SourceOf[r] \in items[q]

\* A release gets another item only when a row of higher authority came late,
\* when the row of the item it has is out of the window, when one source has it
\* twice, or when ingestions overlapped.
SecondItemOnly ==
  [][\A g \in Groups \ torn' : \A r \in Items(g)' \ Items(g), q \in Items(g) :
       Rank(r) <= Rank(q) \/ ~Recent(q)]_vars

\* ingestion/news.py: "When the same release appears in multiple sources, we
\* keep the highest-authority canonical row and stamp the others into
\* also_seen_in".  A release has one item, once an ingestion has run.
OneItemPerRelease ==
  \A g \in Groups : \A r, q \in Items(g) : r = q
=============================================================================
