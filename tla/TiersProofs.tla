----------------------------- MODULE TiersProofs ------------------------------
(***************************************************************************)
(* Theorems about Tiers, for any tasks, dates, windows and bounds.         *)
(*                                                                         *)
(* Two facts carry both properties.  The rows of one date are written by   *)
(* one crawl at a time, because the others wait for it (PutAlone), so what *)
(* a crawl is about to commit still fits the row that is there.  And what  *)
(* an ingestion has read of a date is still that date's row, or has the    *)
(* same fetched_at, whatever was committed since (IngestInv).              *)
(***************************************************************************)
EXTENDS Tiers, TLAPS

Table == [Dates -> Rows]

\* Nothing is published before its date, and a row that is there was fetched on its
\* date or later.
RawInv ==
  /\ \A d \in Dates : published[d] > 0 => d <= today
  /\ \A d \in Dates : raw[d] # NoRow => d <= raw[d].fetched

\* What a crawl has fetched was in its window today, and what it is about to commit
\* keeps the fetched_at of the row that is there; a source that keeps its rows
\* writes none twice.
CrawlInv(c) ==
  /\ pc[c] \in {"idle", "upsert", "commit"}
  /\ pc[c] # "upsert" => got[c] = NoRows
  /\ pc[c] # "commit" => put[c] = NoRows
  /\ \A d \in Dates : got[c][d] # NoRow => d \in Window /\ got[c][d].fetched = today
  /\ \A d \in Dates : put[c][d] # NoRow =>
       /\ d \in Window
       /\ raw[d] = NoRow => put[c][d].fetched = today
       /\ raw[d] # NoRow => put[c][d].fetched = raw[d].fetched /\ ~keeps

PutAlone ==
  \A c, p \in Crawls : c # p =>
    \A d \in Dates : put[c][d] = NoRow \/ put[p][d] = NoRow

\* What an ingestion has read of a date is recent and has the fetched_at of the row
\* that is there; it is that row if none has changed since, or the source keeps them.
\* Then it has read every recent row, and plans to write those that are not curated.
IngestInv(i) ==
  /\ pc[i] \in {"idle", "write", "promote"}
  /\ pc[i] = "idle" => got[i] = NoRows
  /\ pc[i] # "promote" => put[i] = NoRows
  /\ \A d \in Dates : got[i][d] # NoRow =>
       /\ raw[d] # NoRow /\ raw[d].fetched = got[i][d].fetched
       /\ Recent(raw[d])
       /\ keeps => got[i][d] = raw[d]
  /\ \A d \in Dates : put[i][d] # NoRow => put[i][d] = got[i][d]
  /\ pc[i] # "idle" => \A d \in steady[i] : Recent(raw[d]) => got[i][d] = raw[d]
  /\ pc[i] = "promote" => \A d \in steady[i] :
       put[i][d] = NoRow => got[i][d] = NoRow \/ got[i][d].version = curated[d]

\* A curated price of a source that keeps its rows is the version of its raw row.
KeptInv ==
  keeps => \A d \in Dates : curated[d] # 0 => raw[d] # NoRow /\ curated[d] = raw[d].version

Inv ==
  /\ TypeOK
  /\ RawInv
  /\ \A c \in Crawls : CrawlInv(c)
  /\ PutAlone
  /\ \A i \in Ingests : IngestInv(i)
  /\ KeptInv

\* Every change that is still owed is of a row that an ingestion reads today.
OwedInv ==
  /\ \A d \in owed : Recent(raw[d])
  /\ UpToDate

-------------------------------------------------------------------------------

LEMMA NoRowFacts ==
  /\ NoRow \in Rows /\ NoRows \in Table
  /\ \A d \in Dates : NoRows[d] = NoRow
  /\ NoRow.version = 0
BY DEF NoRow, NoRows, Rows, Table

LEMMA InitInv == Init => Inv /\ OwedInv
<1>. SUFFICES ASSUME Init PROVE Inv /\ OwedInv
  OBVIOUS
<1>. USE NoRowFacts
<1>1. TypeOK
  BY DEF Init, TypeOK, Table
<1>2. RawInv /\ PutAlone /\ KeptInv
  BY DEF Init, RawInv, PutAlone, KeptInv, Tasks
<1>3. ASSUME NEW c \in Crawls PROVE CrawlInv(c)
  BY DEF Init, CrawlInv, Tasks
<1>4. ASSUME NEW i \in Ingests PROVE IngestInv(i)
  BY DEF Init, IngestInv, Tasks
<1>5. OwedInv
  BY DEF Init, OwedInv, UpToDate
<1>. QED
  BY <1>1, <1>2, <1>3, <1>4, <1>5 DEF Inv

\* Crawls are not ingestions.
LEMMA TasksApart ==
  /\ \A c \in Crawls : c \in Tasks /\ c \notin Ingests
  /\ \A i \in Ingests : i \in Tasks /\ i \notin Crawls
BY TaskAssumption DEF Tasks

\* What one task does to its own frame leaves the others' facts alone.
LEMMA OthersKept ==
  ASSUME Inv, NEW t \in Tasks,
         UNCHANGED <<keeps, today, raw, curated>>,
         \A p \in Tasks \ {t} : pc'[p] = pc[p] /\ got'[p] = got[p] /\ put'[p] = put[p],
         \A i \in Ingests \ {t} : steady'[i] = steady[i]
  PROVE  /\ \A c \in Crawls \ {t} : CrawlInv(c)'
         /\ \A i \in Ingests \ {t} : IngestInv(i)'
         /\ KeptInv'
<1>. USE TasksApart
<1>1. ASSUME NEW c \in Crawls \ {t} PROVE CrawlInv(c)'
  BY <1>1 DEF Inv, CrawlInv, Window
<1>2. ASSUME NEW i \in Ingests \ {t} PROVE IngestInv(i)'
  BY <1>2 DEF Inv, IngestInv, Recent
<1>3. KeptInv'
  BY DEF Inv, KeptInv
<1>. QED
  BY <1>1, <1>2, <1>3

-------------------------------------------------------------------------------
(* Crawls                                                                      *)

LEMMA FetchStep ==
  ASSUME Inv, NEW c \in Crawls, Fetch(c)
  PROVE  Inv'
<1>. USE TasksApart, NoRowFacts
<1>1. UNCHANGED <<keeps, today, published, raw, curated, put, steady, owed, missed>>
  BY DEF Fetch
<1>2. /\ pc' = [pc EXCEPT ![c] = "upsert"]
      /\ got' = [got EXCEPT ![c] = [d \in Dates |->
           IF d \in Window /\ published[d] > 0 THEN Row(published[d], today) ELSE NoRow]]
  BY DEF Fetch, Goto, Got
<1>3. [d \in Dates |-> IF d \in Window /\ published[d] > 0
                         THEN Row(published[d], today) ELSE NoRow] \in Table
  BY DEF Inv, TypeOK, Table, Row, Rows
<1>4. TypeOK'
  BY <1>1, <1>2, <1>3 DEF Inv, TypeOK, Table
<1>5. RawInv' /\ PutAlone'
  BY <1>1 DEF Inv, RawInv, PutAlone
<1>6. CrawlInv(c)'
  <2>1. pc'[c] = "upsert"
    BY <1>2 DEF Inv, TypeOK
  <2>2. \A d \in Dates : got'[c][d] # NoRow => d \in Window /\ got'[c][d].fetched = today
    BY <1>2 DEF Inv, TypeOK, Row
  <2>3. put'[c] = NoRows
    BY <1>1 DEF Inv, CrawlInv, Fetch
  <2>. QED
    BY <1>1, <2>1, <2>2, <2>3 DEF CrawlInv, Window
<1>7. /\ \A p \in Crawls \ {c} : CrawlInv(p)'
      /\ \A i \in Ingests \ {c} : IngestInv(i)'
      /\ KeptInv'
  BY <1>1, <1>2, OthersKept DEF Inv, TypeOK
<1>. QED
  BY <1>4, <1>5, <1>6, <1>7 DEF Inv

LEMMA UpsertStep ==
  ASSUME Inv, NEW c \in Crawls, UpsertRaw(c)
  PROVE  Inv'
<1>. USE TasksApart, NoRowFacts
<1>. DEFINE rows == [d \in Dates |-> Upserted(d, got[c][d])]
<1>1. UNCHANGED <<keeps, today, published, raw, curated, steady, owed, missed>>
  BY DEF UpsertRaw
<1>2. /\ pc' = [pc EXCEPT ![c] = "commit"]
      /\ put' = [put EXCEPT ![c] = rows]
      /\ got' = [got EXCEPT ![c] = NoRows]
      /\ ~Waits(c, Crawls, rows)
  BY DEF UpsertRaw, Goto, Got, Put
<1>3. got[c] \in Table /\ raw \in Table /\ \A d \in Dates : got[c][d] \in Rows /\ raw[d] \in Rows
  BY DEF Inv, TypeOK, Table
<1>4. \A d \in Dates : rows[d] \in Rows
  BY <1>3 DEF Upserted, Row, Rows
<1>5. rows \in Table
  BY <1>4 DEF Table
<1>6. TypeOK'
  BY <1>1, <1>2, <1>5 DEF Inv, TypeOK, Table
<1>7. RawInv'
  BY <1>1 DEF Inv, RawInv
<1>8. PutAlone'
  <2>1. \A p \in Crawls \ {c}, d \in Dates : rows[d] = NoRow \/ put[p][d] = NoRow
    BY <1>2 DEF Waits
  <2>2. put'[c] = rows /\ \A p \in Crawls \ {c} : put'[p] = put[p]
    BY <1>2 DEF Inv, TypeOK
  <2>. QED
    BY <2>1, <2>2 DEF Inv, PutAlone
<1>9. CrawlInv(c)'
  <2>1. pc'[c] = "commit" /\ got'[c] = NoRows /\ put'[c] = rows
    BY <1>2 DEF Inv, TypeOK
  <2>2. ASSUME NEW d \in Dates, rows[d] # NoRow
        PROVE  /\ d \in Window
               /\ raw[d] = NoRow => rows[d].fetched = today
               /\ raw[d] # NoRow => rows[d].fetched = raw[d].fetched /\ ~keeps
    <3>1. got[c][d] # NoRow
      BY <2>2 DEF Upserted
    <3>2. d \in Window /\ got[c][d].fetched = today
      BY <3>1 DEF Inv, CrawlInv
    <3>3. raw[d] = NoRow => rows[d] = got[c][d]
      BY <2>2 DEF Upserted
    <3>4. raw[d] # NoRow => ~keeps /\ rows[d] = Row(got[c][d].version, raw[d].fetched)
      BY <2>2 DEF Upserted
    <3>. QED
      BY <3>2, <3>3, <3>4 DEF Row
  <2>3. CrawlInv(c)' <=>
          /\ pc'[c] \in {"idle", "upsert", "commit"}
          /\ pc'[c] # "upsert" => got'[c] = NoRows
          /\ pc'[c] # "commit" => put'[c] = NoRows
          /\ \A d \in Dates : got'[c][d] # NoRow => d \in Window /\ got'[c][d].fetched = today
          /\ \A d \in Dates : put'[c][d] # NoRow =>
               /\ d \in Window
               /\ raw[d] = NoRow => put'[c][d].fetched = today
               /\ raw[d] # NoRow => put'[c][d].fetched = raw[d].fetched /\ ~keeps
    BY <1>1 DEF CrawlInv, Window
  <2>. HIDE DEF rows
  <2>. QED
    BY <2>1, <2>2, <2>3
<1>10. /\ \A p \in Crawls \ {c} : CrawlInv(p)'
       /\ \A i \in Ingests \ {c} : IngestInv(i)'
       /\ KeptInv'
  BY <1>1, <1>2, OthersKept DEF Inv, TypeOK
<1>. QED
  BY <1>6, <1>7, <1>8, <1>9, <1>10 DEF Inv

\* What a crawl's commit does to the row of a date.
LEMMA CommitWrites ==
  ASSUME Inv, NEW c \in Crawls, CommitCrawl(c), NEW d \in Dates
  PROVE  /\ raw[d] \in Rows /\ raw'[d] \in Rows
         /\ put[c][d] = NoRow => raw'[d] = raw[d]
         /\ put[c][d] # NoRow => /\ raw'[d] = put[c][d] /\ d \in Window
                                 /\ raw[d] = NoRow => raw'[d].fetched = today
         /\ raw[d] # NoRow => /\ raw'[d] # NoRow /\ raw'[d].fetched = raw[d].fetched
                              /\ keeps => raw'[d] = raw[d]
<1>1. raw'[d] = IF put[c][d] # NoRow THEN put[c][d] ELSE raw[d]
  BY DEF CommitCrawl, Over
<1>2. raw[d] \in Rows /\ put[c][d] \in Rows
  BY TasksApart DEF Inv, TypeOK
<1>3. put[c][d] # NoRow => /\ d \in Window
                           /\ raw[d] = NoRow => put[c][d].fetched = today
                           /\ raw[d] # NoRow => put[c][d].fetched = raw[d].fetched /\ ~keeps
  BY DEF Inv, CrawlInv
<1>. QED
  BY <1>1, <1>2, <1>3

LEMMA CommitCrawlStep ==
  ASSUME Inv, NEW c \in Crawls, CommitCrawl(c)
  PROVE  Inv'
<1>. USE TasksApart, NoRowFacts
<1>1. UNCHANGED <<keeps, today, published, curated, got, missed>>
  BY DEF CommitCrawl
<1>2. /\ pc' = [pc EXCEPT ![c] = "idle"]
      /\ put' = [put EXCEPT ![c] = NoRows]
      /\ raw' = [d \in Dates |-> IF put[c][d] # NoRow THEN put[c][d] ELSE raw[d]]
      /\ owed' = owed \cup Changed(raw, raw')
      /\ steady' = [i \in Ingests |-> steady[i] \ Changed(raw, raw')]
  BY DEF CommitCrawl, Goto, Put, Over
<1>3. TypeOK'
  <2>1. raw' \in Table
    BY <1>2, CommitWrites DEF Table
  <2>2. owed' \subseteq Dates /\ steady' \in [Ingests -> SUBSET Dates]
    BY <1>2 DEF Inv, TypeOK, Changed
  <2>. QED
    BY <1>1, <1>2, <2>1, <2>2 DEF Inv, TypeOK, Table
<1>4. RawInv'
  <2>1. ASSUME NEW d \in Dates, raw'[d] # NoRow PROVE d <= raw'[d].fetched
    <3>1. CASE raw[d] # NoRow
      BY <3>1, CommitWrites DEF Inv, RawInv
    <3>2. CASE raw[d] = NoRow
      <4>1. d \in Window /\ raw'[d].fetched = today
        BY <2>1, <3>2, CommitWrites
      <4>. QED
        BY <4>1 DEF Window
    <3>. QED
      BY <3>1, <3>2
  <2>. QED
    BY <1>1, <2>1 DEF Inv, RawInv
<1>5. PutAlone'
  BY <1>2 DEF Inv, TypeOK, PutAlone
<1>6. CrawlInv(c)'
  <2>1. pc'[c] = "idle" /\ put'[c] = NoRows /\ got'[c] = NoRows
    BY <1>1, <1>2 DEF Inv, TypeOK, CrawlInv, CommitCrawl
  <2>. QED
    BY <2>1 DEF CrawlInv
<1>7. ASSUME NEW p \in Crawls \ {c} PROVE CrawlInv(p)'
  <2>1. pc'[p] = pc[p] /\ put'[p] = put[p] /\ got'[p] = got[p]
    BY <1>1, <1>2 DEF Inv, TypeOK
  <2>2. \A d \in Dates : put[p][d] # NoRow => raw'[d] = raw[d]
    BY CommitWrites DEF Inv, PutAlone
  <2>. QED
    BY <1>1, <2>1, <2>2 DEF Inv, CrawlInv, Window
<1>8. ASSUME NEW i \in Ingests PROVE IngestInv(i)'
  <2>1. pc'[i] = pc[i] /\ put'[i] = put[i] /\ got'[i] = got[i]
    BY <1>1, <1>2 DEF Inv, TypeOK
  <2>2. steady'[i] \subseteq steady[i] /\ \A d \in steady'[i] : raw'[d] = raw[d]
    BY <1>2 DEF Inv, TypeOK, Changed
  <2>3. ASSUME NEW d \in Dates, got[i][d] # NoRow
        PROVE  /\ raw'[d] # NoRow /\ raw'[d].fetched = got[i][d].fetched
               /\ raw'[d].fetched + IngestDays >= today
               /\ keeps => got[i][d] = raw'[d]
    <3>1. /\ raw[d] # NoRow /\ raw[d].fetched = got[i][d].fetched
          /\ raw[d].fetched + IngestDays >= today
          /\ keeps => got[i][d] = raw[d]
      BY <2>3 DEF Inv, IngestInv, Recent
    <3>. QED
      BY <3>1, CommitWrites
  <2>. QED
    BY <1>1, <2>1, <2>2, <2>3 DEF Inv, IngestInv, Recent
<1>9. KeptInv'
  BY <1>1, CommitWrites DEF Inv, KeptInv
<1>. QED
  BY <1>3, <1>4, <1>5, <1>6, <1>7, <1>8, <1>9 DEF Inv

-------------------------------------------------------------------------------
(* Ingestions                                                                  *)

LEMMA ReadStep ==
  ASSUME Inv, NEW i \in Ingests, Read(i)
  PROVE  Inv'
<1>. USE TasksApart, NoRowFacts
<1>. DEFINE rows == [d \in Dates |-> IF Recent(raw[d]) THEN raw[d] ELSE NoRow]
<1>1. UNCHANGED <<keeps, today, published, raw, curated, put, owed, missed>>
  BY DEF Read
<1>2. /\ pc[i] = "idle"
      /\ pc' = [pc EXCEPT ![i] = "write"]
      /\ got' = [got EXCEPT ![i] = rows]
      /\ steady' = [steady EXCEPT ![i] = Dates]
  BY DEF Read, Goto, Got
<1>3. rows \in Table
  BY DEF Inv, TypeOK, Table
<1>4. TypeOK'
  BY <1>1, <1>2, <1>3 DEF Inv, TypeOK, Table
<1>5. RawInv' /\ PutAlone'
  BY <1>1 DEF Inv, RawInv, PutAlone
<1>6. IngestInv(i)'
  <2>1. pc'[i] = "write" /\ got'[i] = rows /\ put'[i] = NoRows
    BY <1>1, <1>2 DEF Inv, TypeOK, IngestInv
  <2>2. \A d \in Dates : rows[d] # NoRow => rows[d] = raw[d] /\ Recent(raw[d])
    OBVIOUS
  <2>3. steady'[i] = Dates /\ \A d \in Dates : Recent(raw[d]) => rows[d] = raw[d]
    BY <1>2 DEF Inv, TypeOK
  <2>. HIDE DEF rows
  <2>. QED
    BY <1>1, <2>1, <2>2, <2>3 DEF IngestInv, Recent
<1>7. /\ \A c \in Crawls \ {i} : CrawlInv(c)'
      /\ \A p \in Ingests \ {i} : IngestInv(p)'
      /\ KeptInv'
  BY <1>1, <1>2, OthersKept DEF Inv, TypeOK
<1>. QED
  BY <1>4, <1>5, <1>6, <1>7 DEF Inv

LEMMA WriteStep ==
  ASSUME Inv, NEW i \in Ingests, Write(i)
  PROVE  Inv'
<1>. USE TasksApart, NoRowFacts
<1>. DEFINE rows == [d \in Dates |->
              IF got[i][d].version # curated[d] THEN got[i][d] ELSE NoRow]
<1>1. UNCHANGED <<keeps, today, published, raw, curated, got, steady, owed, missed>>
  BY DEF Write
<1>2. /\ pc[i] = "write"
      /\ pc' = [pc EXCEPT ![i] = "promote"]
      /\ put' = [put EXCEPT ![i] = rows]
  BY DEF Write, Goto, Put
<1>3. rows \in Table
  BY DEF Inv, TypeOK, Table
<1>4. TypeOK'
  BY <1>1, <1>2, <1>3 DEF Inv, TypeOK, Table
<1>5. RawInv' /\ PutAlone'
  BY <1>1, <1>2 DEF Inv, TypeOK, RawInv, PutAlone
<1>6. IngestInv(i)'
  <2>1. pc'[i] = "promote" /\ got'[i] = got[i] /\ put'[i] = rows /\ steady'[i] = steady[i]
    BY <1>1, <1>2 DEF Inv, TypeOK
  <2>2. /\ \A d \in Dates : rows[d] # NoRow => rows[d] = got[i][d]
        /\ \A d \in Dates : rows[d] = NoRow => got[i][d] = NoRow \/ got[i][d].version = curated[d]
    OBVIOUS
  <2>3. steady[i] \subseteq Dates
    BY DEF Inv, TypeOK
  <2>. HIDE DEF rows
  <2>. QED
    BY <1>1, <1>2, <2>1, <2>2, <2>3 DEF Inv, IngestInv, Recent
<1>7. /\ \A c \in Crawls \ {i} : CrawlInv(c)'
      /\ \A p \in Ingests \ {i} : IngestInv(p)'
      /\ KeptInv'
  BY <1>1, <1>2, OthersKept DEF Inv, TypeOK
<1>. QED
  BY <1>4, <1>5, <1>6, <1>7 DEF Inv

LEMMA PromoteStep ==
  ASSUME Inv, NEW i \in Ingests, Promote(i)
  PROVE  Inv'
<1>. USE TasksApart, NoRowFacts
<1>. DEFINE wrote == {d \in Dates : put[i][d] # NoRow}
<1>1. UNCHANGED <<keeps, today, published, raw, missed>>
  BY DEF Promote
<1>2. /\ pc' = [pc EXCEPT ![i] = "idle"]
      /\ curated' = [d \in Dates |-> IF d \in wrote THEN put[i][d].version ELSE curated[d]]
      /\ put' = [put EXCEPT ![i] = NoRows]
      /\ got' = [got EXCEPT ![i] = NoRows]
      /\ steady' = [p \in Ingests |-> IF p = i THEN {} ELSE steady[p] \ wrote]
      /\ owed' = (owed \cup wrote) \ steady[i]
  BY DEF Promote, Goto, Put, Got
<1>3. TypeOK'
  <2>1. \A d \in Dates : put[i][d] \in Rows
    BY DEF Inv, TypeOK
  <2>2. curated' \in [Dates -> Nat]
    BY <1>2, <2>1 DEF Inv, TypeOK, Rows
  <2>3. owed' \subseteq Dates /\ steady' \in [Ingests -> SUBSET Dates]
    BY <1>2 DEF Inv, TypeOK
  <2>. QED
    BY <1>1, <1>2, <2>2, <2>3 DEF Inv, TypeOK, Table
<1>4. RawInv' /\ PutAlone'
  BY <1>1, <1>2 DEF Inv, TypeOK, RawInv, PutAlone
<1>5. ASSUME NEW c \in Crawls PROVE CrawlInv(c)'
  <2>1. pc'[c] = pc[c] /\ put'[c] = put[c] /\ got'[c] = got[c]
    BY <1>2 DEF Inv, TypeOK
  <2>. QED
    BY <1>1, <2>1 DEF Inv, CrawlInv, Window
<1>6. IngestInv(i)'
  <2>1. pc'[i] = "idle" /\ put'[i] = NoRows /\ got'[i] = NoRows
    BY <1>2 DEF Inv, TypeOK
  <2>. QED
    BY <2>1 DEF IngestInv
<1>7. ASSUME NEW p \in Ingests \ {i} PROVE IngestInv(p)'
  <2>1. pc'[p] = pc[p] /\ put'[p] = put[p] /\ got'[p] = got[p]
    BY <1>2 DEF Inv, TypeOK
  <2>2. steady'[p] = steady[p] \ wrote
    BY <1>2
  <2>3. \A d \in steady'[p] : d \in steady[p] /\ curated'[d] = curated[d]
    BY <1>2, <2>2 DEF Inv, TypeOK
  <2>. QED
    BY <1>1, <2>1, <2>3 DEF Inv, IngestInv, Recent
<1>8. KeptInv'
  <2>1. ASSUME keeps, NEW d \in Dates, curated'[d] # 0
        PROVE  raw[d] # NoRow /\ curated'[d] = raw[d].version
    <3>1. CASE d \in wrote
      <4>1. put[i][d] = got[i][d] /\ got[i][d] # NoRow
        BY <3>1 DEF Inv, IngestInv
      <4>2. raw[d] # NoRow /\ got[i][d] = raw[d]
        BY <2>1, <4>1 DEF Inv, IngestInv
      <4>. QED
        BY <1>2, <3>1, <4>1, <4>2
    <3>2. CASE d \notin wrote
      BY <1>2, <2>1, <3>2 DEF Inv, KeptInv
    <3>. QED
      BY <3>1, <3>2
  <2>. QED
    BY <1>1, <2>1 DEF KeptInv
<1>. QED
  BY <1>3, <1>4, <1>5, <1>6, <1>7, <1>8 DEF Inv

-------------------------------------------------------------------------------
(* Failures, the upstream and the days                                         *)

LEMMA FailStep ==
  ASSUME Inv, NEW t \in Tasks, Fail(t)
  PROVE  Inv'
<1>. USE TasksApart, NoRowFacts
<1>1. UNCHANGED <<keeps, today, published, raw, curated, owed, missed>>
  BY DEF Fail
<1>2. /\ pc' = [pc EXCEPT ![t] = "idle"]
      /\ put' = [put EXCEPT ![t] = NoRows]
      /\ got' = [got EXCEPT ![t] = NoRows]
      /\ steady' = [i \in Ingests |-> IF i = t THEN {} ELSE steady[i]]
  BY DEF Fail, Goto, Put, Got
<1>3. TypeOK'
  BY <1>1, <1>2 DEF Inv, TypeOK, Table
<1>4. RawInv' /\ PutAlone'
  BY <1>1, <1>2 DEF Inv, TypeOK, RawInv, PutAlone
<1>5. pc'[t] = "idle" /\ put'[t] = NoRows /\ got'[t] = NoRows
  BY <1>2 DEF Inv, TypeOK
<1>6. t \in Crawls => CrawlInv(t)'
  BY <1>5 DEF CrawlInv
<1>7. t \in Ingests => IngestInv(t)'
  BY <1>5 DEF IngestInv
<1>8. /\ \A c \in Crawls \ {t} : CrawlInv(c)'
      /\ \A i \in Ingests \ {t} : IngestInv(i)'
      /\ KeptInv'
  BY <1>1, <1>2, OthersKept DEF Inv, TypeOK
<1>. QED
  BY <1>3, <1>4, <1>6, <1>7, <1>8 DEF Inv

LEMMA PublishStep ==
  ASSUME Inv, NEW d \in Dates, Publish(d)
  PROVE  Inv'
<1>1. UNCHANGED <<keeps, today, raw, curated, pc, got, put, steady, owed, missed>>
  BY DEF Publish, tasks
<1>2. d <= today /\ published' = [published EXCEPT ![d] = published[d] + 1]
  BY DEF Publish
<1>3. TypeOK'
  BY <1>1, <1>2 DEF Inv, TypeOK
<1>4. RawInv'
  BY <1>1, <1>2 DEF Inv, TypeOK, RawInv
<1>5. PutAlone' /\ KeptInv'
  BY <1>1 DEF Inv, PutAlone, KeptInv
<1>6. ASSUME NEW c \in Crawls PROVE CrawlInv(c)'
  BY <1>1 DEF Inv, CrawlInv, Window
<1>7. ASSUME NEW i \in Ingests PROVE IngestInv(i)'
  BY <1>1 DEF Inv, IngestInv, Recent
<1>. QED
  BY <1>3, <1>4, <1>5, <1>6, <1>7 DEF Inv

LEMMA MidnightStep ==
  ASSUME Inv, Midnight
  PROVE  Inv'
<1>. USE TasksApart, NoRowFacts
<1>1. UNCHANGED <<keeps, published, raw, curated, pc, got, put, steady>>
  BY DEF Midnight, tasks
<1>2. today' = today + 1 /\ missed' = missed \cup owed /\ owed' = {}
  BY DEF Midnight
<1>3. \A t \in Tasks : pc[t] = "idle"
  BY DEF Midnight
<1>4. TypeOK'
  BY <1>1, <1>2 DEF Inv, TypeOK
<1>5. RawInv'
  BY <1>1, <1>2, DateAssumption DEF Inv, TypeOK, RawInv
<1>6. PutAlone' /\ KeptInv'
  BY <1>1 DEF Inv, PutAlone, KeptInv
<1>7. ASSUME NEW c \in Crawls PROVE CrawlInv(c)'
  BY <1>1, <1>3 DEF Inv, CrawlInv
<1>8. ASSUME NEW i \in Ingests PROVE IngestInv(i)'
  <2>1. got[i] = NoRows /\ put[i] = NoRows /\ pc[i] = "idle"
    BY <1>3 DEF Inv, IngestInv
  <2>. QED
    BY <1>1, <2>1 DEF IngestInv
<1>. QED
  BY <1>4, <1>5, <1>6, <1>7, <1>8 DEF Inv

LEMMA NextInv == Inv /\ [Next]_vars => Inv'
<1>. SUFFICES ASSUME Inv, [Next]_vars PROVE Inv'
  OBVIOUS
<1>1. ASSUME UNCHANGED vars PROVE Inv'
  BY <1>1 DEF vars, tasks, Inv, TypeOK, RawInv, CrawlInv, Window, PutAlone, IngestInv,
              Recent, KeptInv
<1>2. ASSUME NEW c \in Crawls, Crawl(c) PROVE Inv'
  BY <1>2, FetchStep, UpsertStep, CommitCrawlStep DEF Crawl
<1>3. ASSUME NEW i \in Ingests, Ingest(i) PROVE Inv'
  BY <1>3, ReadStep, WriteStep, PromoteStep DEF Ingest
<1>. QED
  BY <1>1, <1>2, <1>3, FailStep, PublishStep, MidnightStep DEF Next

LEMMA InvAlways == Spec => []Inv
<1>1. Init => Inv
  BY InitInv
<1>. QED
  BY <1>1, NextInv, PTL DEF Spec

-------------------------------------------------------------------------------
\* The tables and the tasks keep their shape, for any tasks, dates, windows and
\* bounds: crawlers/base.py and ingestion write nothing but rows.
THEOREM TypeCorrect == Spec => []TypeOK
<1>1. Inv => TypeOK
  BY DEF Inv
<1>. QED
  BY <1>1, InvAlways, PTL

\* A promoted price of a source that keeps its rows is never changed
\* (yahoo_finance.py's ON CONFLICT DO NOTHING), whatever runs beside what.
THEOREM PricesAlwaysStay == Spec => PricesStay
<1>1. Inv /\ Inv' /\ [Next]_vars =>
        [keeps => \A d \in Dates : curated[d] # 0 => curated'[d] = curated[d]]_vars
  <2>. SUFFICES ASSUME Inv, Inv', [Next]_vars, keeps, NEW d \in Dates, curated[d] # 0
                PROVE  curated'[d] = curated[d]
    OBVIOUS
  <2>1. ASSUME NEW i \in Ingests, Promote(i) PROVE curated'[d] = curated[d]
    <3>1. curated'[d] = IF put[i][d] # NoRow THEN put[i][d].version ELSE curated[d]
      BY <2>1 DEF Promote
    <3>2. ASSUME put[i][d] # NoRow PROVE put[i][d].version = curated[d]
      <4>1. put[i][d] = got[i][d] /\ got[i][d] # NoRow
        BY <3>2 DEF Inv, IngestInv
      <4>2. got[i][d] = raw[d]
        BY <4>1 DEF Inv, IngestInv
      <4>3. curated[d] = raw[d].version
        BY DEF Inv, KeptInv
      <4>. QED
        BY <4>1, <4>2, <4>3
    <3>. QED
      BY <3>1, <3>2
  <2>2. CASE ~\E i \in Ingests : Promote(i)
    BY <2>2 DEF Next, vars, tasks, Crawl, Ingest, Fetch, UpsertRaw, CommitCrawl, Read, Write,
                Fail, Publish, Midnight
  <2>. QED
    BY <2>1, <2>2
<1>. QED
  BY <1>1, NextInv, InvAlways, PTL DEF Spec, PricesStay

\* A date that was owed and never missed at midnight is read by the next ingestion,
\* and what it commits is what is there: if the crawl reaches back no further than
\* the ingestion, as FRED's and Yahoo's do and SCB's does not (pipeline/tasks.py:96).
LEMMA OwedStep ==
  ASSUME CrawlDays <= IngestDays, Inv, OwedInv, [Next]_vars
  PROVE  OwedInv'
<1>. USE TasksApart, NoRowFacts
<1>1. ASSUME NEW c \in Crawls, CommitCrawl(c) PROVE OwedInv'
  <2>1. UNCHANGED <<today, curated, missed>> /\ owed' = owed \cup Changed(raw, raw')
    BY <1>1 DEF CommitCrawl
  <2>2. ASSUME NEW d \in owed PROVE Recent(raw[d])'
    <3>1. d \in Dates /\ raw[d] # NoRow /\ raw[d].fetched + IngestDays >= today
      BY <2>2 DEF Inv, TypeOK, OwedInv, Recent
    <3>. QED
      BY <1>1, <2>1, <3>1, CommitWrites DEF Recent
  <2>3. ASSUME NEW d \in Changed(raw, raw') PROVE Recent(raw[d])'
    <3>1. d \in Dates /\ raw'[d] # raw[d]
      BY <2>3 DEF Changed
    <3>2. raw'[d] # NoRow /\ d \in Window /\ raw'[d] \in Rows
      BY <1>1, <3>1, CommitWrites
    <3>3. d <= raw'[d].fetched
      BY <1>1, <3>1, <3>2, CommitCrawlStep DEF Inv, RawInv
    <3>4. d \in Nat /\ today \in Nat /\ raw'[d].fetched \in Nat
      BY <3>1, <3>2, DateAssumption DEF Inv, TypeOK, Rows
    <3>5. today <= d + CrawlDays
      BY <3>2 DEF Window
    <3>. QED
      BY <2>1, <3>2, <3>3, <3>4, <3>5, BoundAssumption DEF Recent
  <2>4. \A d \in Dates \ owed' : raw'[d] = raw[d]
    BY <2>1 DEF Changed
  <2>. QED
    BY <2>1, <2>2, <2>3, <2>4 DEF OwedInv, UpToDate
<1>2. ASSUME NEW i \in Ingests, Promote(i) PROVE OwedInv'
  <2>. DEFINE wrote == {d \in Dates : put[i][d] # NoRow}
  <2>1. UNCHANGED <<today, raw, missed>> /\ owed' = (owed \cup wrote) \ steady[i]
    BY <1>2 DEF Promote
  <2>2. \A d \in Dates : curated'[d] = IF put[i][d] # NoRow THEN put[i][d].version ELSE curated[d]
    BY <1>2 DEF Promote
  <2>3. pc[i] = "promote"
    BY <1>2 DEF Promote
  <2>4. \A d \in wrote : Recent(raw[d]) /\ put[i][d] = got[i][d] /\ got[i][d] # NoRow
    BY DEF Inv, IngestInv
  <2>5. \A d \in owed' : Recent(raw[d])'
    BY <2>1, <2>4 DEF OwedInv, Recent
  <2>6. ASSUME NEW d \in Dates \ (owed' \cup missed') PROVE curated'[d] = raw'[d].version
    <3>1. CASE d \notin steady[i]
      BY <2>1, <2>2, <2>6, <3>1 DEF OwedInv, UpToDate
    <3>2. CASE d \in steady[i] /\ got[i][d] # NoRow
      <4>1. got[i][d] = raw[d]
        BY <2>3, <3>2 DEF Inv, IngestInv
      <4>2. put[i][d] # NoRow => put[i][d] = got[i][d]
        BY DEF Inv, IngestInv
      <4>3. put[i][d] = NoRow => got[i][d].version = curated[d]
        BY <2>3, <3>2 DEF Inv, IngestInv
      <4>. QED
        BY <2>1, <2>2, <4>1, <4>2, <4>3
    <3>3. CASE d \in steady[i] /\ got[i][d] = NoRow
      <4>1. ~Recent(raw[d])
        BY <2>3, <3>3 DEF Inv, IngestInv, Recent
      <4>2. d \notin owed
        BY <4>1 DEF OwedInv
      <4>3. put[i][d] = NoRow
        BY <2>4, <3>3
      <4>. QED
        BY <2>1, <2>2, <2>6, <4>2, <4>3 DEF OwedInv, UpToDate
    <3>. QED
      BY <3>1, <3>2, <3>3
  <2>. QED
    BY <2>5, <2>6 DEF OwedInv, UpToDate
<1>3. ASSUME Midnight PROVE OwedInv'
  BY <1>3 DEF Midnight, OwedInv, UpToDate
<1>4. CASE UNCHANGED <<today, raw, curated, owed, missed>>
  BY <1>4 DEF OwedInv, UpToDate, Recent
<1>. QED
  BY <1>1, <1>2, <1>3, <1>4 DEF Next, vars, tasks, Crawl, Ingest, Fetch, UpsertRaw, Read, Write,
                               Fail, Publish

\* What is in the raw table is curated once a later ingestion has committed, for any
\* number of crawls and ingestions that overlap and fail, if the ingestion's window
\* covers the crawl's.
THEOREM UpToDateHolds == CrawlDays <= IngestDays => (Spec => []UpToDate)
<1>. SUFFICES ASSUME CrawlDays <= IngestDays PROVE Spec => []UpToDate
  OBVIOUS
<1>1. Init => OwedInv
  BY InitInv
<1>2. Inv /\ OwedInv /\ [Next]_vars => OwedInv'
  BY OwedStep
<1>3. OwedInv => UpToDate
  BY DEF OwedInv
<1>. QED
  BY <1>1, <1>2, <1>3, InvAlways, PTL DEF Spec
===============================================================================
