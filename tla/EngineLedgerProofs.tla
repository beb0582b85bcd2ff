------------------------- MODULE EngineLedgerProofs -------------------------
(***************************************************************************)
(* Theorems about EngineLedger for every set of sessions and call ids and  *)
(* every bound: its type invariant, the invariants that the runs check on  *)
(* two sessions, and that the ledger implements LedgerStore.               *)
(***************************************************************************)
EXTENDS EngineLedger, TLAPS

----------------------------------------------------------------------------
(* Type correctness *)

\* The rows written by ledger.persist and ledger.persist_error, and no row, are
\* told apart by their status.
LEMMA RowFacts ==
  /\ NoRow \notin Rows
  /\ ErrorRow \in Rows
  /\ \A v \in Nat, w \in Releases : OkRow(v, w) \in Rows
  /\ \A row \in Rows \cup {NoRow} : row.data \in Nat
  /\ \A row \in Rows \cup {NoRow} : row.status = "ok" => row \in Rows
  /\ NoRow.status # "ok"
BY DEF NoRow, Rows, ErrorRow, OkRow

\* An empty engine_call table is a table.
LEMMA NoRowsType == NoRows \in [CallIds -> Rows \cup {NoRow}]
BY DEF NoRows

\* What get_cached finds for a session is a row or nothing.
LEMMA SeenType ==
  ASSUME TypeOK, NEW s \in Sessions, NEW id \in CallIds
  PROVE  Seen(s, id) \in Rows \cup {NoRow}
BY DEF TypeOK, Seen

\* Every wrapper action that ends a call names a known id and a natural number.
LEMMA OutcomeTypes ==
  ASSUME NEW id \in CallIds, NEW v \in Nat
  PROVE  Returned(id, v) \in Outcomes /\ Blank(id) \in Outcomes /\ Raised(id) \in Outcomes
BY DEF Returned, Blank, Raised, Outcomes

\* A cache hit tells the caller one thing, and leaves everything else as it is.
LEMMA HitTells ==
  ASSUME NEW s \in Sessions, NEW id \in CallIds, InvokeHit(s, id)
  PROVE  \E o : /\ Hit(s, id, o)
               /\ \/ o = Returned(id, Seen(s, id).data) /\ id \in Typed /\ Converts(s, id)
                  \/ o = Raised(id) /\ id \in Typed /\ ~Converts(s, id)
                  \/ o = Blank(id) /\ id \notin Typed
BY DEF InvokeHit, HitTyped, HitRefused, HitUntyped

\* A session in the middle of a call has an open transaction and an id.
CallBound ==
  \A s \in Sessions : pc[s] # "idle" => txn[s] = "active" /\ call[s] \in CallIds

TypeInv == TypeOK /\ CallBound

\* The initial tables and sessions have the right shape.
LEMMA TypeInit == Init => TypeInv
BY NoRowsType DEF Init, TypeInv, TypeOK, CallBound, NoRows

\* Every step of the wrapper, of its caller and of ingestion keeps the shape.
LEMMA TypeStep == TypeInv /\ [Next]_vars => TypeInv'
<1> SUFFICES ASSUME TypeInv, [Next]_vars PROVE TypeInv'
  OBVIOUS
<1> USE DEF TypeInv, TypeOK, CallBound
<1>1. CASE UNCHANGED vars
  BY <1>1 DEF vars
<1>2. CASE Ingest
  BY <1>2 DEF Ingest
<1>3. ASSUME NEW s \in Sessions, SessionStep(s) PROVE TypeInv'
  <2>1. CASE Begin(s)
    BY <2>1 DEF Begin, Open
  <2>2. ASSUME NEW id \in CallIds, InvokeHit(s, id) PROVE TypeInv'
    <3>1. PICK o : Hit(s, id, o) /\ o \in {Returned(id, Seen(s, id).data), Raised(id), Blank(id)}
      BY <2>2, HitTells
    <3>2. o \in Outcomes
      BY <3>1, SeenType, RowFacts, OutcomeTypes
    <3> QED BY <3>1, <3>2 DEF Hit, At, Report
  <2>3. ASSUME NEW id \in CallIds, InvokeMiss(s, id) PROVE TypeInv'
    BY <2>3 DEF InvokeMiss, At, Goto
  <2>4. CASE Compute(s)
    <3>1. CASE ComputeOk(s)
      BY <3>1 DEF ComputeOk, At, Goto
    <3>2. CASE ComputeRaises(s)
      BY <3>2 DEF ComputeRaises, At, Goto
    <3>3. CASE ComputeFails(s)
      <4>1. call[s] \in CallIds
        BY <3>3 DEF ComputeFails, At
      <4> QED BY <3>3, <4>1, OutcomeTypes, NoRowsType DEF ComputeFails, Fail, Reply, Leave, Report
    <3> QED BY <2>4, <3>1, <3>2, <3>3 DEF Compute
  <2>5. CASE Persist(s)
    <3>1. CASE PersistFindsRow(s)
      <4>1. call[s] \in CallIds /\ value[s] \in Nat
        BY <3>1 DEF PersistFindsRow, At
      <4> QED BY <3>1, <4>1, OutcomeTypes DEF PersistFindsRow, Reply, Leave, Report
    <3>2. CASE PersistFindsNone(s)
      BY <3>2 DEF PersistFindsNone, At, Goto
    <3> QED BY <2>5, <3>1, <3>2 DEF Persist
  <2>6. CASE Flush(s)
    <3>0. call[s] \in CallIds /\ value[s] \in Nat
      BY <2>6 DEF Flush, Insert, InsertConflict, RecordError, RecordConflict, At
    <3>1. CASE Insert(s)
      <4>1. OkRow(value[s], CodeOf[s]) \in Rows
        BY <3>0, RowFacts, ReadsAssumption
      <4>. QED
        BY <3>0, <3>1, <4>1, OutcomeTypes DEF Insert, Reply, Leave, Report
    <3>2. CASE InsertConflict(s)
      BY <3>0, <3>2, OutcomeTypes, NoRowsType DEF InsertConflict, Fail, Reply, Leave, Report
    <3>3. CASE RecordError(s)
      BY <3>0, <3>3, OutcomeTypes, RowFacts DEF RecordError, Reply, Leave, Report
    <3>4. CASE RecordConflict(s)
      BY <3>0, <3>4, OutcomeTypes, NoRowsType DEF RecordConflict, Fail, Reply, Leave, Report
    <3> QED BY <2>6, <3>1, <3>2, <3>3, <3>4 DEF Flush
  <2>7. CASE DeadlockVictim(s)
    <3>1. call[s] \in CallIds
      BY <2>7 DEF DeadlockVictim, Deadlocked, WaitsFor, At
    <3> QED BY <2>7, <3>1, OutcomeTypes, NoRowsType DEF DeadlockVictim, Fail, Reply, Leave, Report
  <2>8. CASE Finish(s)
    <3>1. CASE Commit(s)
      <4>1. ledger' \in [CallIds -> Rows \cup {NoRow}]
        BY <3>1, SeenType DEF Commit
      <4> QED BY <3>1, <4>1, NoRowsType DEF Commit, At
    <3>2. CASE Abandon(s)
      BY <3>2, NoRowsType DEF Abandon, RollBack, Leave
    <3> QED BY <2>8, <3>1, <3>2 DEF Finish
  <2>9. CASE Cancel(s)
    BY <2>9, NoRowsType DEF Cancel, RollBack, Leave
  <2> QED BY <1>3, <2>1, <2>2, <2>3, <2>4, <2>5, <2>6, <2>7, <2>8, <2>9 DEF SessionStep
<1> QED BY <1>1, <1>2, <1>3 DEF Next

\* The state of sessions, transactions and rows keeps its shape.
THEOREM TypeCorrect == Spec => []TypeOK
<1>1. Spec => []TypeInv
  BY TypeInit, TypeStep, PTL DEF Spec
<1>2. TypeInv => TypeOK
  BY DEF TypeInv
<1> QED BY <1>1, <1>2, PTL

----------------------------------------------------------------------------
(* Safety *)

\* Only an open, working transaction has uncommitted rows.
PendingBound ==
  \A s \in Sessions, id \in CallIds : pending[s][id] # NoRow => txn[s] = "active"

\* Ids settled for a session keep their "ok" row, and it never recomputes them.
SettledBound ==
  \A s \in Sessions :
    /\ \A id \in settled[s] : ledger[id].status = "ok"
    /\ pc[s] # "idle" => call[s] \notin settled[s]

\* The inductive invariant.
IInv ==
  /\ TypeInv
  /\ RowsExclusive
  /\ PendingBound
  /\ SettledBound
  /\ EveryCallHasRow
  /\ SettledIdsAgree

\* With no rows and no sessions the inductive invariant holds.
LEMMA InvInit == Init => IInv
BY TypeInit, RowFacts
   DEF Init, IInv, RowsExclusive, PendingBound, SettledBound, EveryCallHasRow,
       SettledIdsAgree, NoRows

\* A step that touches rows and transactions in no way but by failing or closing
\* the transaction of s, and reports no new "ok" outcome, keeps the invariant.
LEMMA DropStep ==
  ASSUME IInv, TypeInv', NEW s \in Sessions,
         pending' = [pending EXCEPT ![s] = NoRows],
         txn' \in {[txn EXCEPT ![s] = "failed"], [txn EXCEPT ![s] = "closed"]},
         pc' = [pc EXCEPT ![s] = "idle"],
         \/ outcomes' = [outcomes EXCEPT ![s] = {}]
         \/ /\ call[s] \in CallIds \ settled[s]
            /\ outcomes' = [outcomes EXCEPT ![s] = @ \cup {Raised(call[s])}],
         \A t \in Sessions : call'[t] = call[t] \/ t = s,
         UNCHANGED <<ledger, settled>>
  PROVE  IInv'
<1> USE DEF IInv, TypeInv, TypeOK
<1>0. /\ \A id \in CallIds : pending'[s][id] = NoRow
      /\ \A t \in Sessions \ {s} : /\ pending'[t] = pending[t]
                                   /\ txn'[t] = txn[t]
                                   /\ pc'[t] = pc[t]
                                   /\ call'[t] = call[t]
                                   /\ outcomes'[t] = outcomes[t]
      /\ txn'[s] \notin {"active", "committed"}
      /\ pc'[s] = "idle"
  BY DEF NoRows
<1>1. RowsExclusive'
  BY <1>0 DEF RowsExclusive
<1>2. PendingBound'
  BY <1>0 DEF PendingBound
<1>3. SettledBound'
  BY <1>0 DEF SettledBound
<1>4. EveryCallHasRow'
  BY <1>0 DEF EveryCallHasRow, Seen, Outcomes
<1>5. SettledIdsAgree'
  <2> SUFFICES ASSUME NEW t \in Sessions, NEW o \in outcomes'[t], o.id \in settled[t]
               PROVE  Agrees(t, o)
    BY DEF SettledIdsAgree, Agrees
  <2>1. o \in outcomes[t]
    <3>1. CASE t = s
      BY <3>1 DEF Raised
    <3> QED BY <1>0, <3>1
  <2> QED BY <2>1 DEF SettledIdsAgree
<1> QED BY <1>1, <1>2, <1>3, <1>4, <1>5

\* A step that leaves rows, transactions and settled ids alone, and in which
\* s stays where it is or works on an id that is not settled.
LEMMA LocalStep ==
  ASSUME IInv, TypeInv', NEW s \in Sessions,
         txn[s] = "active",
         \A t \in Sessions \ {s} : /\ pc'[t] = pc[t]
                                   /\ call'[t] = call[t]
                                   /\ outcomes'[t] = outcomes[t],
         pc'[s] # "idle" => call'[s] \notin settled[s],
         \A o \in outcomes'[s] :
           \/ o \in outcomes[s]
           \/ /\ Seen(s, o.id) # NoRow
              /\ o.id \in settled[s] => Agrees(s, o),
         UNCHANGED <<ledger, pending, txn, settled>>
  PROVE  IInv'
<1> USE DEF IInv
<1>1. RowsExclusive' /\ PendingBound'
  BY DEF RowsExclusive, PendingBound
<1>2. SettledBound'
  BY DEF SettledBound
<1>3. EveryCallHasRow'
  BY DEF EveryCallHasRow, Seen
<1>4. SettledIdsAgree'
  BY DEF SettledIdsAgree, Agrees
<1> QED BY <1>1, <1>2, <1>3, <1>4

\* A flush that goes through: s writes the row of an id that nobody has.
LEMMA WriteStep ==
  ASSUME IInv, TypeInv', NEW s \in Sessions, NEW row \in Rows, NEW o,
         txn[s] = "active", pc[s] # "idle", o.id = call[s],
         ledger[call[s]] = NoRow,
         \A t \in Sessions \ {s} : pending[t][call[s]] = NoRow,
         pending' = [pending EXCEPT ![s][call[s]] = row],
         pc' = [pc EXCEPT ![s] = "idle"],
         call' = [call EXCEPT ![s] = NoCall],
         outcomes' = [outcomes EXCEPT ![s] = @ \cup {o}],
         UNCHANGED <<ledger, txn, settled>>
  PROVE  IInv'
<1> USE RowFacts DEF IInv, TypeInv, TypeOK, CallBound
<1>0. /\ call[s] \in CallIds \ settled[s]
      /\ \A t \in Sessions \ {s} : /\ pending'[t] = pending[t]
                                   /\ pc'[t] = pc[t]
                                   /\ call'[t] = call[t]
                                   /\ outcomes'[t] = outcomes[t]
      /\ \A id \in CallIds : pending'[s][id] = IF id = call[s] THEN row ELSE pending[s][id]
      /\ outcomes'[s] = outcomes[s] \cup {o}
      /\ pc'[s] = "idle"
  BY DEF SettledBound
<1>1. RowsExclusive'
  BY <1>0 DEF RowsExclusive
<1>2. PendingBound'
  BY <1>0 DEF PendingBound
<1>3. SettledBound'
  BY <1>0 DEF SettledBound
<1>4. EveryCallHasRow'
  BY <1>0 DEF EveryCallHasRow, Seen, Outcomes
<1>5. SettledIdsAgree'
  <2> SUFFICES ASSUME NEW t \in Sessions, NEW p \in outcomes'[t], p.id \in settled'[t]
               PROVE  Agrees(t, p)'
    BY DEF SettledIdsAgree
  <2>1. p \in outcomes[t]
    BY <1>0
  <2>2. Agrees(t, p)
    BY <2>1 DEF SettledIdsAgree
  <2> QED BY <2>2 DEF Agrees
<1> QED BY <1>1, <1>2, <1>3, <1>4, <1>5

\* A commit publishes rows of ids that had no committed row, and so keeps what
\* other sessions were told.
LEMMA CommitStep ==
  ASSUME IInv, TypeInv', NEW s \in Sessions, Commit(s)
  PROVE  IInv'
<1> USE DEF IInv, TypeInv, TypeOK, Commit, At
<1>0. /\ \A id \in CallIds : ledger'[id] = Seen(s, id)
      /\ \A id \in CallIds : ledger[id] # NoRow => ledger'[id] = ledger[id]
      /\ \A id \in CallIds : pending'[s][id] = NoRow
      /\ \A t \in Sessions \ {s} : pending'[t] = pending[t] /\ txn'[t] = txn[t]
      /\ txn'[s] = "committed"
  BY DEF RowsExclusive, Seen, NoRows
<1>1. RowsExclusive'
  BY <1>0 DEF RowsExclusive, Seen
<1>2. PendingBound'
  BY <1>0 DEF PendingBound
<1>3. SettledBound'
  <2>1. ASSUME NEW t \in Sessions, NEW id \in settled[t] PROVE ledger'[id].status = "ok"
    <3>1. id \in CallIds /\ ledger[id].status = "ok"
      BY DEF SettledBound
    <3>2. ledger[id] # NoRow
      BY <3>1, RowFacts
    <3> QED BY <1>0, <3>1, <3>2
  <2>2. UNCHANGED <<pc, call, settled>>
    OBVIOUS
  <2> QED BY <2>1, <2>2 DEF SettledBound
<1>4. EveryCallHasRow'
  <2> SUFFICES ASSUME NEW t \in Sessions, txn'[t] \in {"active", "committed"},
                      NEW o \in outcomes[t]
               PROVE  Seen(t, o.id)' # NoRow
    BY DEF EveryCallHasRow
  <2>1. o.id \in CallIds
    BY DEF Outcomes
  <2>2. Seen(t, o.id) # NoRow
    BY <1>0 DEF EveryCallHasRow
  <2> QED BY <1>0, <2>1, <2>2 DEF Seen
<1>5. SettledIdsAgree'
  <2>1. ASSUME NEW t \in Sessions, NEW o \in outcomes[t], o.id \in settled[t]
        PROVE  Agrees(t, o)'
    <3>1. Agrees(t, o) /\ o.id \in CallIds
      BY <2>1 DEF SettledIdsAgree, Outcomes
    <3>2. ledger'[o.id] = ledger[o.id]
      BY <1>0, <3>1, RowFacts DEF Agrees
    <3> QED BY <3>1, <3>2 DEF Agrees
  <2> QED BY <2>1 DEF SettledIdsAgree
<1> QED BY <1>1, <1>2, <1>3, <1>4, <1>5

\* A session that begins settles the ids that are committed at that moment.
LEMMA BeginStep ==
  ASSUME IInv, TypeInv', NEW s \in Sessions, Begin(s)
  PROVE  IInv'
<1> USE DEF IInv, TypeInv, TypeOK, Begin, Open
<1>1. RowsExclusive'
  BY DEF RowsExclusive
<1>2. PendingBound'
  BY DEF PendingBound
<1>3. SettledBound'
  BY DEF SettledBound, CallBound
<1>4. EveryCallHasRow'
  BY DEF EveryCallHasRow, Seen
<1>5. SettledIdsAgree'
  <2> SUFFICES ASSUME NEW t \in Sessions, NEW o \in outcomes'[t], o.id \in settled'[t]
               PROVE  Agrees(t, o)'
    BY DEF SettledIdsAgree
  <2>1. t # s
    OBVIOUS
  <2>2. outcomes'[t] = outcomes[t] /\ settled'[t] = settled[t]
    BY <2>1
  <2> QED BY <2>2 DEF SettledIdsAgree, Agrees
<1> QED BY <1>1, <1>2, <1>3, <1>4, <1>5

\* The steps that drop a transaction in the middle of a call.
LEMMA FailStep ==
  ASSUME IInv, TypeInv', NEW s \in Sessions,
         Fail(s), Reply(s, Raised(call[s])), pc[s] # "idle",
         UNCHANGED <<ledger, settled>>
  PROVE  IInv'
<1>1. call[s] \in CallIds \ settled[s]
  BY DEF IInv, TypeInv, CallBound, SettledBound
<1> QED BY <1>1, DropStep DEF Fail, Reply, Leave, Report, IInv, TypeInv, TypeOK

\* Every step keeps the inductive invariant: one case per action.
LEMMA InvStep == IInv /\ [Next]_vars => IInv'
<1> SUFFICES ASSUME IInv, [Next]_vars PROVE IInv'
  OBVIOUS
<1>0. TypeInv'
  BY TypeStep DEF IInv
<1>1. CASE UNCHANGED vars
  BY <1>0, <1>1 DEF vars, IInv, RowsExclusive, PendingBound, SettledBound,
                    EveryCallHasRow, SettledIdsAgree, Agrees, Seen
<1>2. CASE Ingest
  BY <1>0, <1>2 DEF Ingest, IInv, RowsExclusive, PendingBound, SettledBound,
                    EveryCallHasRow, SettledIdsAgree, Agrees, Seen
<1>3. ASSUME NEW s \in Sessions, SessionStep(s) PROVE IInv'
  <2> USE <1>0
  <2>1. CASE Begin(s)
    BY <2>1, BeginStep
  <2>2. ASSUME NEW id \in CallIds, InvokeHit(s, id) PROVE IInv'
    <3>1. PICK o : /\ Hit(s, id, o)
                   /\ \/ o = Returned(id, Seen(s, id).data) /\ id \in Typed /\ Converts(s, id)
                      \/ o = Raised(id) /\ id \in Typed /\ ~Converts(s, id)
                      \/ o = Blank(id) /\ id \notin Typed
      BY <2>2, HitTells
    <3>2. o.id = id
      BY <3>1 DEF Returned, Raised, Blank
    <3>3. /\ outcomes'[s] = outcomes[s] \cup {o}
          /\ \A t \in Sessions \ {s} : outcomes'[t] = outcomes[t]
      BY <3>1 DEF Hit, Report, IInv, TypeInv, TypeOK
    <3>4. /\ pc'[s] = "idle" /\ txn[s] = "active" /\ Seen(s, id).status = "ok"
          /\ UNCHANGED <<ledger, pending, txn, pc, call, settled>>
      BY <3>1 DEF Hit, At, Served
    <3>5. Seen(s, id) # NoRow
      BY <3>4, RowFacts
    <3>6. id \in settled[s] => Agrees(s, o)
      <4>1. id \in settled[s] => Seen(s, id) = ledger[id]
        BY RowFacts DEF IInv, RowsExclusive, SettledBound, Seen
      <4> QED BY <3>1, <3>2, <3>4, <4>1 DEF Agrees, Converts, Returned, Raised, Blank
    <3> QED BY <3>2, <3>3, <3>4, <3>5, <3>6, LocalStep
  <2>3. ASSUME NEW id \in CallIds, InvokeMiss(s, id) PROVE IInv'
    <3>1. id \notin settled[s]
      BY <2>3, RowFacts DEF InvokeMiss, Served, IInv, RowsExclusive, SettledBound, Seen
    <3>2. /\ call'[s] = id
          /\ \A t \in Sessions \ {s} : pc'[t] = pc[t] /\ call'[t] = call[t]
      BY <2>3 DEF InvokeMiss, Goto, IInv, TypeInv, TypeOK
    <3> QED BY <2>3, <3>1, <3>2, LocalStep DEF InvokeMiss, At
  <2>4. CASE ComputeOk(s) \/ ComputeRaises(s) \/ PersistFindsNone(s)
    <3>1. /\ pc[s] # "idle" /\ txn[s] = "active"
          /\ \A t \in Sessions \ {s} : pc'[t] = pc[t]
          /\ UNCHANGED <<ledger, pending, txn, call, outcomes, settled>>
      BY <2>4 DEF ComputeOk, ComputeRaises, PersistFindsNone, At, Goto, IInv, TypeInv, TypeOK
    <3>2. call[s] \notin settled[s]
      BY <3>1 DEF IInv, SettledBound
    <3> QED BY <3>1, <3>2, LocalStep
  <2>5. CASE PersistFindsRow(s)
    <3>1. /\ pc[s] # "idle" /\ txn[s] = "active" /\ Seen(s, call[s]) # NoRow
          /\ pc'[s] = "idle"
          /\ \A t \in Sessions \ {s} : /\ pc'[t] = pc[t]
                                       /\ call'[t] = call[t]
                                       /\ outcomes'[t] = outcomes[t]
          /\ outcomes'[s] = outcomes[s] \cup {Returned(call[s], value[s])}
          /\ UNCHANGED <<ledger, pending, txn, settled>>
      BY <2>5 DEF PersistFindsRow, At, Reply, Leave, Report, IInv, TypeInv, TypeOK
    <3>2. call[s] \notin settled[s]
      BY <3>1 DEF IInv, SettledBound
    <3> QED BY <3>1, <3>2, LocalStep DEF Returned
  <2>6. CASE ComputeFails(s) \/ InsertConflict(s) \/ RecordConflict(s) \/ DeadlockVictim(s)
    BY <2>6, FailStep
       DEF ComputeFails, InsertConflict, RecordConflict, DeadlockVictim, Deadlocked, WaitsFor, At
  <2>7. CASE Insert(s)
    <3>1. \A t \in Sessions \ {s} : pending[t][call[s]] = NoRow
      BY <2>7 DEF Insert, Waiting, WaitsFor
    <3>2. OkRow(value[s], CodeOf[s]) \in Rows
      BY RowFacts, ReadsAssumption DEF IInv, TypeInv, TypeOK
    <3>3. Returned(call[s], value[s]).id = call[s]
      BY DEF Returned
    <3>4. /\ txn[s] = "active" /\ pc[s] # "idle" /\ ledger[call[s]] = NoRow
          /\ pending' = [pending EXCEPT ![s][call[s]] = OkRow(value[s], CodeOf[s])]
          /\ pc' = [pc EXCEPT ![s] = "idle"]
          /\ call' = [call EXCEPT ![s] = NoCall]
          /\ outcomes' = [outcomes EXCEPT ![s] = @ \cup {Returned(call[s], value[s])}]
          /\ UNCHANGED <<ledger, txn, settled>>
      BY <2>7 DEF Insert, At, Reply, Leave, Report
    <3> QED BY <3>1, <3>2, <3>3, <3>4, WriteStep
  <2>8. CASE RecordError(s)
    <3>1. \A t \in Sessions \ {s} : pending[t][call[s]] = NoRow
      BY <2>8 DEF RecordError, Waiting, WaitsFor
    <3>2. ledger[call[s]] = NoRow
      BY <2>8 DEF RecordError, Seen
    <3>3. Raised(call[s]).id = call[s] /\ ErrorRow \in Rows
      BY RowFacts DEF Raised
    <3>4. /\ txn[s] = "active" /\ pc[s] # "idle"
          /\ pending' = [pending EXCEPT ![s][call[s]] = ErrorRow]
          /\ pc' = [pc EXCEPT ![s] = "idle"]
          /\ call' = [call EXCEPT ![s] = NoCall]
          /\ outcomes' = [outcomes EXCEPT ![s] = @ \cup {Raised(call[s])}]
          /\ UNCHANGED <<ledger, txn, settled>>
      BY <2>8 DEF RecordError, At, Reply, Leave, Report
    <3> QED BY <3>1, <3>2, <3>3, <3>4, WriteStep
  <2>9. CASE Commit(s)
    BY <2>9, CommitStep
  <2>10. CASE Abandon(s) \/ Cancel(s)
    BY <2>10, DropStep DEF Abandon, Cancel, RollBack, Leave, IInv, TypeInv, TypeOK
  <2> QED
    BY <1>3, <2>1, <2>2, <2>3, <2>4, <2>5, <2>6, <2>7, <2>8, <2>9, <2>10
       DEF SessionStep, Compute, Persist, Flush, Finish
<1> QED BY <1>1, <1>2, <1>3 DEF Next

\* The inductive invariant holds in every reachable state.
LEMMA Invariance == Spec => []IInv
BY InvInit, InvStep, PTL DEF Spec

\* No two transactions write the same id, although lookup and insert are
\* separate steps of the wrapper.
THEOREM RowsExclusiveHolds == Spec => []RowsExclusive
<1>1. IInv => RowsExclusive
  BY DEF IInv
<1> QED BY <1>1, Invariance, PTL

\* What a turn cites can be looked up in the transaction that cites it.
THEOREM EveryCallHasRowHolds == Spec => []EveryCallHasRow
<1>1. IInv => EveryCallHasRow
  BY DEF IInv
<1> QED BY <1>1, Invariance, PTL

\* Content addressing works for whoever starts after the row is committed, as
\* far as the tool has a returns_model and its release reads the row; otherwise
\* the caller is told nothing, and never another number.
THEOREM SettledIdsAgreeHolds == Spec => []SettledIdsAgree
<1>1. IInv => SettledIdsAgree
  BY DEF IInv
<1> QED BY <1>1, Invariance, PTL

----------------------------------------------------------------------------
(* Refinement *)

\* Every behaviour of the wrapper is one of the write-once store.
THEOREM ImplementsStore == Spec => WriteOnce
<1>1. Init => Store!Init
  BY DEF Init, Store!Init, NoRows
<1>2. IInv /\ IInv' /\ [Next]_vars => [Store!Publish]_ledger
  <2> SUFFICES ASSUME IInv, IInv', [Next]_vars, ledger' # ledger PROVE Store!Publish
    OBVIOUS
  <2>1. PICK s \in Sessions : Commit(s)
    BY DEF Next, vars, Ingest, SessionStep, Begin, InvokeHit, HitTyped, HitRefused, HitUntyped, Hit,
           InvokeMiss, Compute, ComputeOk,
           ComputeRaises, ComputeFails, Persist, PersistFindsRow, PersistFindsNone, Flush,
           Insert, InsertConflict, RecordError, RecordConflict, DeadlockVictim, Finish,
           Abandon, Cancel, RollBack
  <2>2. ledger' \in [CallIds -> Rows \cup {NoRow}]
    BY DEF IInv, TypeInv, TypeOK
  <2>3. \A id \in CallIds : ledger[id] # NoRow => ledger'[id] = ledger[id]
    BY <2>1 DEF Commit, Seen, IInv, RowsExclusive
  <2> QED BY <2>2, <2>3 DEF Store!Publish, Store!Stores
<1> QED BY <1>1, <1>2, Invariance, PTL DEF Spec, WriteOnce, Store!Spec
=============================================================================
