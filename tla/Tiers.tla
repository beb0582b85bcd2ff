-------------------------------- MODULE Tiers --------------------------------
(***************************************************************************)
(* One upstream series on its way from the crawler's raw table (Tier 1) to *)
(* the curated table (Tier 2): crawlers/base.py with the upsert_raw of a   *)
(* source, and ingestion/prices.py or macro.py.  A value is the version of *)
(* what the upstream publishes for a date; it may be revised later.        *)
(*                                                                         *)
(* Crawls and ingestions run in a transaction each, at any time of the     *)
(* day, side by side or again, and may fail at any point.  The crawl of a  *)
(* day reaches CrawlDays back; an ingestion reads the raw rows that were   *)
(* first fetched IngestDays ago or later.                                  *)
(***************************************************************************)
EXTENDS Naturals

CONSTANTS
  Crawls,      \* crawl tasks of the source
  Ingests,     \* ingest.all tasks
  Dates,       \* dates of the observations
  CrawlDays,   \* the window of the crawl task
  IngestDays,  \* the window of the ingestion
  MaxDay,      \* bound on the days that pass
  MaxVersion   \* bound on the versions of one observation

ASSUME DateAssumption == Dates \subseteq Nat
ASSUME BoundAssumption ==
  CrawlDays \in Nat /\ IngestDays \in Nat /\ MaxDay \in Nat /\ MaxVersion \in Nat
ASSUME TaskAssumption == Crawls \cap Ingests = {}

Tasks == Crawls \cup Ingests

VARIABLES
  keeps,     \* the source keeps the row it has (yahoo_finance), or rewrites it
  today,
  published, \* upstream's version for each date, 0 before there is one
  raw,       \* committed raw rows
  curated,   \* committed curated versions
  pc,        \* where each task stands
  got,       \* what a crawl fetched, or an ingestion read
  put,       \* what each open transaction has written
  steady,    \* history: dates of which no row has changed since an ingestion read
  owed,      \* history: dates whose raw row has changed, and no ingestion that
             \* began later has committed, or one did that wrote what had changed
  missed     \* history: dates that were owed at midnight

tasks == <<pc, got, put>>
vars == <<keeps, today, published, raw, curated, tasks, steady, owed, missed>>

----------------------------------------------------------------------------
(* Rows *)

NoRow == [version |-> 0, fetched |-> 0]
Row(v, day) == [version |-> v, fetched |-> day]
NoRows == [d \in Dates |-> NoRow]

\* The rows that differ between two states of a table.
Changed(before, after) == {d \in Dates : after[d] # before[d]}

Over(rows, writes) ==
  [d \in Dates |-> IF writes[d] # NoRow THEN writes[d] ELSE rows[d]]

Goto(t, to) == pc' = [pc EXCEPT ![t] = to]
Put(t, rows) == put' = [put EXCEPT ![t] = rows]
Got(t, rows) == got' = [got EXCEPT ![t] = rows]

\* A write waits for the task's peers that have written a row of the same date.
Waits(t, peers, rows) ==
  \E p \in peers \ {t}, d \in Dates : rows[d] # NoRow /\ put[p][d] # NoRow

----------------------------------------------------------------------------
(* Crawls *)

\* DateRange.trailing
Window == {d \in Dates : d <= today /\ today <= d + CrawlDays}

FetchMutant(c) ==
  /\ pc[c] = "idle"
  /\ Goto(c, "upsert")
  /\ Got(c, [d \in Dates |->
       IF d \notin Window THEN NoRow
       ELSE Row(IF published[d] > 0 THEN published[d] ELSE 0 - 1, today)])
  /\ UNCHANGED <<keeps, today, published, raw, curated, put, steady, owed, missed>>

\* fetch_batches and parse; now() is the day the transaction began.
Fetch(c) ==
  /\ pc[c] = "idle"
  /\ Goto(c, "upsert")
  /\ Got(c, [d \in Dates |->
       IF d \in Window /\ published[d] > 0 THEN Row(published[d], today) ELSE NoRow])
  /\ UNCHANGED <<keeps, today, published, raw, curated, put, steady, owed, missed>>

UpsertedMutant(d, row) ==
  IF row = NoRow \/ row.version = raw[d].version THEN NoRow
  ELSE IF raw[d] = NoRow THEN row
  ELSE Row(row.version, raw[d].fetched)

\* What upsert_raw writes for a date: a new row, or, where the source rewrites
\* rows, a new value into the old one, which keeps its fetched_at.
Upserted(d, row) ==
  IF row = NoRow \/ row.version = raw[d].version THEN NoRow
  ELSE IF raw[d] = NoRow THEN row
  ELSE IF keeps THEN NoRow
  ELSE Row(row.version, raw[d].fetched)

UpsertRaw(c) ==
  LET rows == [d \in Dates |-> Upserted(d, got[c][d])] IN
    /\ pc[c] = "upsert"
    /\ ~Waits(c, Crawls, rows)
    /\ Goto(c, "commit")
    /\ Put(c, rows)
    /\ Got(c, NoRows)
    /\ UNCHANGED <<keeps, today, published, raw, curated, steady, owed, missed>>

CommitCrawl(c) ==
  /\ pc[c] = "commit"
  /\ Goto(c, "idle")
  /\ raw' = Over(raw, put[c])
  /\ Put(c, NoRows)
  /\ owed' = owed \cup Changed(raw, raw')
  /\ steady' = [i \in Ingests |-> steady[i] \ Changed(raw, raw')]
  /\ UNCHANGED <<keeps, today, published, curated, got, missed>>

----------------------------------------------------------------------------
(* ingest.all *)

RecentMutant(row) == row # NoRow /\ row.fetched + IngestDays > today

\* fetched_at >= threshold
Recent(row) == row # NoRow /\ row.fetched + IngestDays >= today

\* The rows of the raw table that are recent.
Read(i) ==
  /\ pc[i] = "idle"
  /\ Goto(i, "write")
  /\ Got(i, [d \in Dates |-> IF Recent(raw[d]) THEN raw[d] ELSE NoRow])
  /\ steady' = [steady EXCEPT ![i] = Dates]
  /\ UNCHANGED <<keeps, today, published, raw, curated, put, owed, missed>>

\* Look for each curated row, insert it, or update it where it differs.
Write(i) ==
  LET rows == [d \in Dates |->
        IF got[i][d].version # curated[d] THEN got[i][d] ELSE NoRow]
  IN /\ pc[i] = "write"
     /\ ~Waits(i, Ingests, rows)
     /\ Goto(i, "promote")
     /\ Put(i, rows)
     /\ UNCHANGED <<keeps, today, published, raw, curated, got, steady, owed, missed>>

\* The commit of prices, news and macro.
Promote(i) ==
  LET wrote == {d \in Dates : put[i][d] # NoRow} IN
    /\ pc[i] = "promote"
    /\ Goto(i, "idle")
    /\ curated' =
         [d \in Dates |-> IF d \in wrote THEN put[i][d].version ELSE curated[d]]
    /\ Put(i, NoRows)
    /\ Got(i, NoRows)
    /\ steady' = [p \in Ingests |-> IF p = i THEN {} ELSE steady[p] \ wrote]
    /\ owed' = (owed \cup wrote) \ steady[i]
    /\ UNCHANGED <<keeps, today, published, raw, missed>>

----------------------------------------------------------------------------

\* The source, a statement or the worker fails.  The crawler marks its crawl_run
\* row as failed and raises; nobody commits.
Fail(t) ==
  /\ pc[t] # "idle"
  /\ Goto(t, "idle")
  /\ Put(t, NoRows)
  /\ Got(t, NoRows)
  /\ steady' = [i \in Ingests |-> IF i = t THEN {} ELSE steady[i]]
  /\ UNCHANGED <<keeps, today, published, raw, curated, owed, missed>>

\* The upstream publishes the observation of a date, or revises it.
Publish(d) ==
  /\ d <= today
  /\ published[d] < MaxVersion
  /\ published' = [published EXCEPT ![d] = @ + 1]
  /\ UNCHANGED <<keeps, today, raw, curated, tasks, steady, owed, missed>>

\* The beat's tasks of a day end on that day.
Midnight ==
  /\ today < MaxDay
  /\ \A t \in Tasks : pc[t] = "idle"
  /\ today' = today + 1
  /\ missed' = missed \cup owed
  /\ owed' = {}
  /\ UNCHANGED <<keeps, published, raw, curated, tasks, steady>>

Init ==
  /\ keeps \in BOOLEAN
  /\ today = 1
  /\ published = [d \in Dates |-> 0]
  /\ raw = NoRows
  /\ curated = [d \in Dates |-> 0]
  /\ pc = [t \in Tasks |-> "idle"]
  /\ got = [t \in Tasks |-> NoRows]
  /\ put = [t \in Tasks |-> NoRows]
  /\ steady = [i \in Ingests |-> {}]
  /\ owed = {}
  /\ missed = {}

Crawl(c) == Fetch(c) \/ UpsertRaw(c) \/ CommitCrawl(c)
Ingest(i) == Read(i) \/ Write(i) \/ Promote(i)

Next ==
  \/ \E c \in Crawls : Crawl(c)
  \/ \E i \in Ingests : Ingest(i)
  \/ \E t \in Tasks : Fail(t)
  \/ \E d \in Dates : Publish(d)
  \/ Midnight

Spec == Init /\ [][Next]_vars

----------------------------------------------------------------------------
(* Properties *)

Rows == [version : Nat, fetched : Nat]

TypeOK ==
  /\ keeps \in BOOLEAN
  /\ today \in Nat
  /\ published \in [Dates -> Nat]
  /\ raw \in [Dates -> Rows]
  /\ curated \in [Dates -> Nat]
  /\ pc \in [Tasks -> {"idle", "upsert", "commit", "write", "promote"}]
  /\ got \in [Tasks -> [Dates -> Rows]]
  /\ put \in [Tasks -> [Dates -> Rows]]
  /\ steady \in [Ingests -> SUBSET Dates]
  /\ owed \subseteq Dates
  /\ missed \subseteq Dates

\* Where the source keeps its rows, a curated price stays what it was when it
\* was first promoted: revisions, repeated crawls and ingestions that run side
\* by side do not change what the engine has computed from.
PricesStay ==
  [][keeps => \A d \in Dates : curated[d] # 0 => curated'[d] = curated[d]]_vars

\* What is in the raw table is in the curated table once an ingestion that began
\* later has committed: its window leaves nothing out, if one runs on the day of
\* each change, and none writes what another has changed since it read.
UpToDate ==
  \A d \in Dates \ (owed \cup missed) : curated[d] = raw[d].version
=============================================================================
