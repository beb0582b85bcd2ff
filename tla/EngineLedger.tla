---------------------------- MODULE EngineLedger ----------------------------
(***************************************************************************)
(* The wrapper that @engine_tool puts around every Engine tool             *)
(* (engine/registry.py) and the engine_call table it keeps                 *)
(* (engine/ledger.py), used by concurrent database sessions: chat turns,   *)
(* which hold one transaction open from the user's message to the commit   *)
(* of the answer, and briefing tasks, which hold one per company.          *)
(*                                                                         *)
(* A call's id is a hash of the tool's name and its parameters             *)
(* (envelope.hash_call_id): CallIds is the set of such ids, and the data a *)
(* tool computes is the version of the curated tables it read.  The id     *)
(* says nothing of the release of the code that computed it: a row has the *)
(* shape of the release that wrote it, and on a hit the tool's             *)
(* returns_model, if it has one, has to read that shape.                   *)
(*                                                                         *)
(* PostgreSQL runs at READ COMMITTED: a statement sees the committed rows  *)
(* and its own transaction's.  An INSERT of a key that another open        *)
(* transaction has inserted waits until that transaction ends.  A failed   *)
(* statement rolls the transaction back at once, and SQLAlchemy then       *)
(* refuses every further use of the session (PendingRollbackError).        *)
(***************************************************************************)
EXTENDS Naturals

CONSTANTS
  Sessions,    \* AsyncSessions: one per request or task
  CallIds,     \* content-addressed engine_call ids
  NoCall,      \* the absence of a call
  Typed,       \* ids of the tools that have a returns_model
  Releases,    \* releases of the code that serve side by side
  CodeOf,      \* the release of the process that each session runs in
  Reads,       \* <<r, w>>: the returns_models of r accept what those of w wrote
  NoShape,     \* the shape of a row without a result
  MaxVersion,  \* bound on the number of ingestions
  MaxCalls     \* bound on the tool calls of one session

ASSUME NoCallAssumption == NoCall \notin CallIds
ASSUME TypedAssumption == Typed \subseteq CallIds
ASSUME ReadsAssumption ==
  /\ NoShape \notin Releases
  /\ CodeOf \in [Sessions -> Releases]
  /\ Reads \subseteq Releases \X Releases
  /\ \A r \in Releases : <<r, r>> \in Reads
ASSUME BoundAssumption == MaxVersion \in Nat /\ MaxCalls \in Nat

VARIABLES
  source,   \* version of the curated (Tier-2) tables
  ledger,   \* committed engine_call rows
  pending,  \* rows each session has inserted and not committed
  txn,      \* state of each session's transaction
  pc,       \* where each session stands in registry.wrapper
  call,     \* the id the session's wrapper is working on
  value,    \* what the tool function returned to the wrapper
  calls,    \* tool calls the session has made
  outcomes, \* how the session's calls ended, as its caller saw it
  settled   \* history: ids with a committed "ok" row when the session began

vars == <<source, ledger, pending, txn, pc, call, value, calls, outcomes, settled>>

----------------------------------------------------------------------------
(* Rows *)

OkRowMutant(v, r) == [status |-> "done", data |-> v, shape |-> r]

OkRow(v, r) == [status |-> "ok", data |-> v, shape |-> r]
ErrorRow == [status |-> "error", data |-> 0, shape |-> NoShape]
NoRow == [status |-> "none", data |-> 0, shape |-> NoShape]

Rows == [status : {"ok", "error"}, data : Nat, shape : Releases \cup {NoShape}]
NoRows == [id \in CallIds |-> NoRow]

Outcomes == [id : CallIds, kind : {"ok", "blank", "raised"}, data : Nat]
Returned(id, v) == [id |-> id, kind |-> "ok", data |-> v]
Raised(id) == [id |-> id, kind |-> "raised", data |-> 0]

\* A stored dict in the place of a model: EngineResult.data is bound to the bare
\* BaseModel, which has no fields and keeps nothing of it.
Blank(id) == [id |-> id, kind |-> "blank", data |-> 0]

\* get_cached: the row of id that session s sees.
Seen(s, id) == IF pending[s][id] # NoRow THEN pending[s][id] ELSE ledger[id]

ServedMutant(row) == FALSE

\* The wrapper serves a row from the ledger only when its status is "ok".
Served(row) == row.status = "ok"

\* returns.model_validate accepts what is stored.
Converts(s, id) == <<CodeOf[s], Seen(s, id).shape>> \in Reads

----------------------------------------------------------------------------
(* Sessions and their transactions *)

Open(s) == txn[s] \in {"active", "failed"}

At(s, from) == txn[s] = "active" /\ pc[s] = from

Goto(s, to) == pc' = [pc EXCEPT ![s] = to]

\* The session that a waiting INSERT of s waits for.
WaitsFor(s, t) ==
  /\ At(s, "insert") \/ At(s, "record")
  /\ t # s
  /\ pending[t][call[s]] # NoRow

Waiting(s) == \E t \in Sessions : WaitsFor(s, t)

\* Each of a set of sessions waits for another of them, and is waited for.
Deadlocked(s) ==
  \E C \in SUBSET Sessions :
    /\ s \in C
    /\ \A c \in C : \E d \in C : WaitsFor(c, d)
    /\ \A d \in C : \E c \in C : WaitsFor(c, d)

Report(s, outcome) == outcomes' = [outcomes EXCEPT ![s] = @ \cup {outcome}]

\* The wrapper's frame is gone.
Leave(s) ==
  /\ pc' = [pc EXCEPT ![s] = "idle"]
  /\ call' = [call EXCEPT ![s] = NoCall]
  /\ value' = [value EXCEPT ![s] = 0]

\* The wrapper returns or raises to its caller.
Reply(s, outcome) == Leave(s) /\ Report(s, outcome)

FailMutant(s) ==
  /\ pending' = [pending EXCEPT ![s] = NoRows]
  /\ UNCHANGED txn

\* A failed statement: the rows of the transaction are gone, and so is its use.
Fail(s) ==
  /\ txn' = [txn EXCEPT ![s] = "failed"]
  /\ pending' = [pending EXCEPT ![s] = NoRows]

Begin(s) ==
  /\ ~Open(s)
  /\ txn' = [txn EXCEPT ![s] = "active"]
  /\ outcomes' = [outcomes EXCEPT ![s] = {}]
  /\ settled' = [settled EXCEPT ![s] = {id \in CallIds : ledger[id].status = "ok"}]
  /\ UNCHANGED <<source, ledger, pending, pc, call, value, calls>>

\* The caller is done and commits: its rows become visible to everyone.
Commit(s) ==
  /\ At(s, "idle")
  /\ ledger' = [id \in CallIds |-> Seen(s, id)]
  /\ pending' = [pending EXCEPT ![s] = NoRows]
  /\ txn' = [txn EXCEPT ![s] = "committed"]
  /\ calls' = [calls EXCEPT ![s] = 0]
  /\ UNCHANGED <<source, pc, call, value, outcomes, settled>>

RollBack(s) ==
  /\ pending' = [pending EXCEPT ![s] = NoRows]
  /\ txn' = [txn EXCEPT ![s] = "closed"]
  /\ calls' = [calls EXCEPT ![s] = 0]
  /\ outcomes' = [outcomes EXCEPT ![s] = {}]
  /\ Leave(s)
  /\ UNCHANGED <<source, ledger, settled>>

\* The caller gives up between two calls: an exception left the turn or the
\* task, its transaction failed, or the commit was refused.
Abandon(s) == Open(s) /\ pc[s] = "idle" /\ RollBack(s)

\* The client goes away, or the worker dies, in the middle of a call.
Cancel(s) == Open(s) /\ pc[s] # "idle" /\ RollBack(s)

----------------------------------------------------------------------------
(* registry.wrapper *)

\* Lookup and cache hit: how s is told of it.
Hit(s, id, outcome) ==
  /\ At(s, "idle")
  /\ calls[s] < MaxCalls
  /\ Served(Seen(s, id))
  /\ calls' = [calls EXCEPT ![s] = @ + 1]
  /\ Report(s, outcome)
  /\ UNCHANGED <<source, ledger, pending, txn, pc, call, value, settled>>

\* The returns_model reads the stored result back.
HitTyped(s, id) ==
  id \in Typed /\ Converts(s, id) /\ Hit(s, id, Returned(id, Seen(s, id).data))

\* The returns_model refuses it, outside of the try: nothing is recorded or
\* rolled back, and the id stays as it is.
HitRefused(s, id) ==
  id \in Typed /\ ~Converts(s, id) /\ Hit(s, id, Raised(id))

\* The tool has no returns_model (ad_hoc_query).
HitUntyped(s, id) == id \notin Typed /\ Hit(s, id, Blank(id))

InvokeHit(s, id) == HitTyped(s, id) \/ HitRefused(s, id) \/ HitUntyped(s, id)

\* Lookup that finds no row, or finds the row of a call that raised.
InvokeMiss(s, id) ==
  /\ At(s, "idle")
  /\ calls[s] < MaxCalls
  /\ ~Served(Seen(s, id))
  /\ calls' = [calls EXCEPT ![s] = @ + 1]
  /\ call' = [call EXCEPT ![s] = id]
  /\ Goto(s, "compute")
  /\ UNCHANGED <<source, ledger, pending, txn, value, outcomes, settled>>

ComputeOk(s) ==
  /\ At(s, "compute")
  /\ value' = [value EXCEPT ![s] = source]
  /\ Goto(s, "persist")
  /\ UNCHANGED <<source, ledger, pending, txn, call, calls, outcomes, settled>>

\* The tool raises an exception of its own (no data for the date, bad SQL text).
ComputeRaises(s) ==
  /\ At(s, "compute")
  /\ Goto(s, "record")
  /\ UNCHANGED <<source, ledger, pending, txn, call, value, calls, outcomes, settled>>

\* A statement of the tool fails in the database (ad_hoc_query: unknown
\* column, statement timeout).  persist_error's INSERT is then refused.
ComputeFails(s) ==
  /\ At(s, "compute")
  /\ Fail(s)
  /\ Reply(s, Raised(call[s]))
  /\ UNCHANGED <<source, ledger, calls, settled>>

\* ledger.persist looks again.  If a row has appeared, whatever its status and
\* data, it is kept, and the caller gets what was just computed.
PersistFindsRow(s) ==
  /\ At(s, "persist")
  /\ Seen(s, call[s]) # NoRow
  /\ Reply(s, Returned(call[s], value[s]))
  /\ UNCHANGED <<source, ledger, pending, txn, calls, settled>>

PersistFindsNone(s) ==
  /\ At(s, "persist")
  /\ Seen(s, call[s]) = NoRow
  /\ Goto(s, "insert")
  /\ UNCHANGED <<source, ledger, pending, txn, call, value, calls, outcomes, settled>>

InsertUpsertMutant(s) ==
  /\ At(s, "insert")
  /\ pending' = [pending EXCEPT ![s][call[s]] = OkRow(value[s], CodeOf[s])]
  /\ Reply(s, Returned(call[s], value[s]))
  /\ UNCHANGED <<source, ledger, txn, calls, settled>>

\* ledger.persist's flush goes through.
Insert(s) ==
  /\ At(s, "insert")
  /\ ~Waiting(s)
  /\ ledger[call[s]] = NoRow
  /\ pending' = [pending EXCEPT ![s][call[s]] = OkRow(value[s], CodeOf[s])]
  /\ Reply(s, Returned(call[s], value[s]))
  /\ UNCHANGED <<source, ledger, txn, calls, settled>>

\* The row was committed by another session after ledger.persist looked: a
\* unique violation.  The except branch then calls persist_error on a session
\* that refuses every use, which raises in turn.
InsertConflict(s) ==
  /\ At(s, "insert")
  /\ ~Waiting(s)
  /\ ledger[call[s]] # NoRow
  /\ Fail(s)
  /\ Reply(s, Raised(call[s]))
  /\ UNCHANGED <<source, ledger, calls, settled>>

\* ledger.persist_error inserts the error row and the wrapper re-raises.
RecordError(s) ==
  /\ At(s, "record")
  /\ ~Waiting(s)
  /\ Seen(s, call[s]) = NoRow
  /\ pending' = [pending EXCEPT ![s][call[s]] = ErrorRow]
  /\ Reply(s, Raised(call[s]))
  /\ UNCHANGED <<source, ledger, txn, calls, settled>>

RecordRetryMutant(s) ==
  /\ At(s, "record")
  /\ ~Waiting(s)
  /\ Seen(s, call[s]) # NoRow
  /\ Goto(s, "compute")
  /\ UNCHANGED <<source, ledger, pending, txn, call, value, calls, outcomes, settled>>

\* The id already has a row, of an earlier failure or of a success: the
\* unconditional INSERT of persist_error violates the primary key.
RecordConflict(s) ==
  /\ At(s, "record")
  /\ ~Waiting(s)
  /\ Seen(s, call[s]) # NoRow
  /\ Fail(s)
  /\ Reply(s, Raised(call[s]))
  /\ UNCHANGED <<source, ledger, calls, settled>>

\* PostgreSQL's deadlock detector picks s among sessions that wait in a circle.
DeadlockVictim(s) ==
  /\ Deadlocked(s)
  /\ Fail(s)
  /\ Reply(s, Raised(call[s]))
  /\ UNCHANGED <<source, ledger, calls, settled>>

----------------------------------------------------------------------------

\* Ingestion curates new prices, news or observations.
Ingest ==
  /\ source < MaxVersion
  /\ source' = source + 1
  /\ UNCHANGED <<ledger, pending, txn, pc, call, value, calls, outcomes, settled>>

Init ==
  /\ source = 0
  /\ ledger = NoRows
  /\ pending = [s \in Sessions |-> NoRows]
  /\ txn = [s \in Sessions |-> "closed"]
  /\ pc = [s \in Sessions |-> "idle"]
  /\ call = [s \in Sessions |-> NoCall]
  /\ value = [s \in Sessions |-> 0]
  /\ calls = [s \in Sessions |-> 0]
  /\ outcomes = [s \in Sessions |-> {}]
  /\ settled = [s \in Sessions |-> {}]

Compute(s) == ComputeOk(s) \/ ComputeRaises(s) \/ ComputeFails(s)
Persist(s) == PersistFindsRow(s) \/ PersistFindsNone(s)
Flush(s) == Insert(s) \/ InsertConflict(s) \/ RecordError(s) \/ RecordConflict(s)
Finish(s) == Commit(s) \/ Abandon(s)

SessionStep(s) ==
  \/ Begin(s)
  \/ \E id \in CallIds : InvokeHit(s, id) \/ InvokeMiss(s, id)
  \/ Compute(s)
  \/ Persist(s)
  \/ Flush(s)
  \/ DeadlockVictim(s)
  \/ Finish(s)
  \/ Cancel(s)

Next == Ingest \/ \E s \in Sessions : SessionStep(s)

\* A call's own steps are taken, a caller that is between calls ends its
\* transaction some day, and a deadlock is detected.  PostgreSQL queues the
\* waiters of a key, so one whose turn keeps coming gets it: strong fairness
\* of the flush.  Nothing makes a client disconnect.
Fairness ==
  \A s \in Sessions :
    /\ WF_vars(Compute(s))
    /\ WF_vars(Persist(s))
    /\ SF_vars(Flush(s))
    /\ WF_vars(DeadlockVictim(s))
    /\ WF_vars(Finish(s))

Spec == Init /\ [][Next]_vars
FairSpec == Spec /\ Fairness

----------------------------------------------------------------------------
(* Properties *)

\* The shape of the state: statuses are those of the table's CHECK constraint.
TypeOK ==
  /\ source \in Nat
  /\ ledger \in [CallIds -> Rows \cup {NoRow}]
  /\ pending \in [Sessions -> [CallIds -> Rows \cup {NoRow}]]
  /\ txn \in [Sessions -> {"active", "failed", "committed", "closed"}]
  /\ pc \in [Sessions -> {"idle", "compute", "persist", "insert", "record"}]
  /\ call \in [Sessions -> CallIds \cup {NoCall}]
  /\ value \in [Sessions -> Nat]
  /\ calls \in [Sessions -> Nat]
  /\ outcomes \in [Sessions -> SUBSET Outcomes]
  /\ settled \in [Sessions -> SUBSET CallIds]

\* An id is written by one open transaction at most, and by none once it has a
\* committed row, although the wrapper looks and inserts in separate steps.
RowsExclusive ==
  \A s \in Sessions, id \in CallIds :
    pending[s][id] # NoRow =>
      /\ ledger[id] = NoRow
      /\ \A t \in Sessions \ {s} : pending[t][id] = NoRow

\* Every call a turn has made, returned or raised, has a row that the turn
\* sees and commits with its answer, unless the whole turn is lost: the
\* foreign key of chat_engine_call and the sources of a briefing resolve.
EveryCallHasRow ==
  \A s \in Sessions : txn[s] \in {"active", "committed"} =>
    \A o \in outcomes[s] : Seen(s, o.id) # NoRow

\* Once an "ok" row is committed, no session that begins later is told another
\* number under its id, whatever ingestion or other sessions do in the meantime.
\* It is told the row's number exactly when the tool has a returns_model and the
\* release it runs in can read what the release that wrote the row has written.
Agrees(s, o) ==
  /\ ledger[o.id].status = "ok"
  /\ o.kind = "ok" => o.data = ledger[o.id].data
  /\ o.kind = "ok" <=> o.id \in Typed /\ <<CodeOf[s], ledger[o.id].shape>> \in Reads

SettledIdsAgree ==
  \A s \in Sessions : \A o \in outcomes[s] : o.id \in settled[s] => Agrees(s, o)

\* The ledger is written once per id and by whole transactions.
Store == INSTANCE LedgerStore WITH store <- ledger
WriteOnce == Store!Spec

\* A call always comes back to its caller, even when two turns insert the same
\* ids in opposite orders.
CallsEnd == \A s \in Sessions : pc[s] # "idle" ~> pc[s] = "idle"

\* docs/adr/0003: a number in a rendered output is an engine result persisted
\* under the id it cites.  For a committed turn: the row holds what it was told.
CitedIsPersisted ==
  \A s \in Sessions : txn[s] = "committed" =>
    \A o \in outcomes[s] : o.kind = "ok" =>
      ledger[o.id].status = "ok" /\ ledger[o.id].data = o.data
=============================================================================
