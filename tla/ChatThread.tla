----------------------------- MODULE ChatThread -----------------------------
(***************************************************************************)
(* The turns of one chat thread (chat/orchestrator.py, _drive_turn), each  *)
(* driven by a request with a database session of its own.  A turn keeps   *)
(* one transaction open from the insertion of the user's message until the *)
(* answer is committed, across every call to the language model.           *)
(*                                                                         *)
(* The language model is abstracted to what its drafts cite: cites is the  *)
(* set of engine calls whose results the numbers of a draft are grounded   *)
(* on, by a marker or because the value occurs in one result only          *)
(* (chat/citations.py), and bare says that it has a number with no such    *)
(* ground.                                                                 *)
(*                                                                         *)
(* chat_turn is unique in (thread_id, idx): an INSERT of an index that     *)
(* another open transaction has inserted waits for its end.  When a flush  *)
(* fails, the transaction is rolled back at once and the session refuses   *)
(* every further use of the database: the turn is then "dead", and finds   *)
(* out at its next statement.                                              *)
(***************************************************************************)
EXTENDS Naturals

CONSTANTS
  Turns,        \* POST /chat/threads/{id}/turns requests
  CallIds,      \* engine_call ids
  NoAnswer,     \* what a user's row has for an answer
  HistoryLimit, \* HISTORY_LIMIT
  MaxRounds     \* MAX_TOOL_CALLS

ASSUME LimitAssumption == HistoryLimit \in Nat \ {0} /\ MaxRounds \in Nat

VARIABLES
  thread,  \* committed chat_turn rows, an answer with its chat_engine_call links
  title,   \* the turn that gave the thread its title, or "raw"
  pending, \* rows inserted by each turn's transaction and not committed
  dead,    \* what made the turn's session unusable: "no", "log", "tool"
  pc,      \* where each turn stands in _drive_turn
  idx,     \* the index read by _next_idx for the next row
  context, \* indices of the rows sent to the model as history
  ids,     \* state.hooks.engine_call_ids, of the first run
  retryIds, \* retry_state.hooks.engine_call_ids, of the strict retry
  valid,   \* valid_ids, which parse_citations is given for either draft
  rounds,  \* tool rounds made in the run
  draft,   \* the answer, once there is one
  named    \* the turn has set the thread's title in its transaction

vars == <<thread, title, pending, dead, pc, idx, context, ids, retryIds, valid, rounds,
          draft, named>>

----------------------------------------------------------------------------
(* Rows and answers *)

Answers ==
  [kind : {"answer", "refusal"}, spans : SUBSET CallIds, links : SUBSET CallIds,
   uncited : BOOLEAN, warned : BOOLEAN, context : SUBSET Nat]

Log == INSTANCE ThreadLog WITH told <- {t \in Turns : pc[t] = "done"}

Drafts == [cites : SUBSET CallIds, bare : BOOLEAN]

\* find_uncited_numerics after parse_citations and auto_ground.
Uncited(d, allowed) == d.bare \/ ~(d.cites \subseteq allowed)

RefusalMutant ==
  [kind |-> "stop", spans |-> {}, links |-> {}, uncited |-> FALSE,
   warned |-> FALSE, context |-> {}]

Refusal ==
  [kind |-> "refusal", spans |-> {}, links |-> {}, uncited |-> FALSE,
   warned |-> FALSE, context |-> {}]

\* What parse_citations and auto_ground make of a draft of t.  It has no links yet.
Answer(t, d, allowed, warned) ==
  [kind |-> "answer", spans |-> d.cites \cap allowed, links |-> {},
   uncited |-> Uncited(d, allowed), warned |-> warned, context |-> context[t]]

\* What is stored for it: an answer is linked to the calls of the first run.
Linked(t) ==
  IF draft[t].kind = "answer" THEN [draft[t] EXCEPT !.links = ids[t]] ELSE draft[t]

\* The rows that the session of t sees.
Visible(t) == thread \cup pending[t]

NextIdx(t) == Log!LastIdx(Visible(t)) + 1

HistoryMutant(t) ==
  {i \in Log!Idxs(thread) : Log!LastIdx(Visible(t)) <= i + HistoryLimit}

\* The last HistoryLimit rows but the turn's own.
History(t) ==
  {i \in Log!Idxs(thread) : Log!LastIdx(Visible(t)) < i + HistoryLimit}

----------------------------------------------------------------------------
(* Steps of a turn *)

Ended == {"done", "unseen", "lost"}
Open(t) == pc[t] \notin Ended \cup {"new", "committed"}

Goto(t, to) == pc' = [pc EXCEPT ![t] = to]

Alive(t, at) == pc[t] = at /\ dead[t] = "no"

LoseMutant(t) == Goto(t, "lost") /\ UNCHANGED pending

\* The generator is left without a commit and the session closed.
Lose(t) == Goto(t, "lost") /\ pending' = [pending EXCEPT ![t] = {}]

Kill(t, why) ==
  /\ pending' = [pending EXCEPT ![t] = {}]
  /\ dead' = [dead EXCEPT ![t] = why]

\* llm_log.record_call: the INSERT goes through, or fails and is swallowed.
RecordCall(t) ==
  \/ UNCHANGED <<pending, dead>>
  \/ dead[t] = "no" /\ Kill(t, "log")

\* _load_thread and the first _next_idx.
Start(t) ==
  /\ pc[t] = "new"
  /\ idx' = [idx EXCEPT ![t] = NextIdx(t)]
  /\ Goto(t, "insert")
  /\ UNCHANGED <<thread, title, pending, dead, context, ids, retryIds, valid,
                 rounds, draft, named>>

Waits(t) == \E u \in Turns \ {t} : idx[t] \in Log!Idxs(pending[u])

TakenMutant(t) == FALSE

\* What chat_turn_idx_unique refuses.
Taken(t) == idx[t] \in Log!Idxs(thread)

InsertUser(t) ==
  /\ Alive(t, "insert") /\ ~Waits(t) /\ ~Taken(t)
  /\ pending' = [pending EXCEPT ![t] = {Log!UserRow(idx[t], t)}]
  /\ Goto(t, "gate")
  /\ UNCHANGED <<thread, title, dead, idx, context, ids, retryIds, valid,
                 rounds, draft, named>>

\* Another turn has committed the index: IntegrityError.
Conflict(t) ==
  /\ Alive(t, "insert") \/ Alive(t, "store")
  /\ ~Waits(t) /\ Taken(t)
  /\ Lose(t)
  /\ UNCHANGED <<thread, title, dead, idx, context, ids, retryIds, valid,
                 rounds, draft, named>>

\* The topic gate lets the message through, is unavailable or is bypassed.
PassGate(t) ==
  /\ pc[t] = "gate"
  /\ RecordCall(t)
  /\ Goto(t, "history")
  /\ UNCHANGED <<thread, title, idx, context, ids, retryIds, valid, rounds,
                 draft, named>>

\* The topic gate says off topic: _persist_and_emit_refusal.
Refuse(t) ==
  /\ pc[t] = "gate"
  /\ RecordCall(t)
  /\ draft' = [draft EXCEPT ![t] = Refusal]
  /\ Goto(t, "number")
  /\ UNCHANGED <<thread, title, idx, context, ids, retryIds, valid, rounds, named>>

BuildHistory(t) ==
  /\ Alive(t, "history")
  /\ context' = [context EXCEPT ![t] = History(t)]
  /\ Goto(t, "model")
  /\ UNCHANGED <<thread, title, pending, dead, idx, ids, retryIds, valid, rounds, draft, named>>

\* A tool call, on the turn's session: an envelope whose id the PostToolUse
\* hook adds to a collection; an error that the model is told of; or a failed
\* statement.
Round(t, collected, next) ==
  /\ rounds[t] < MaxRounds
  /\ rounds' = [rounds EXCEPT ![t] = @ + 1]
  /\ \/ /\ dead[t] = "no"
        /\ \E id \in CallIds : next = [collected EXCEPT ![t] = @ \cup {id}]
        /\ UNCHANGED <<pending, dead>>
     \/ next = collected /\ UNCHANGED <<pending, dead>>
     \/ dead[t] = "no" /\ Kill(t, "tool") /\ next = collected
  /\ UNCHANGED <<thread, title, pc, idx, context, valid, draft, named>>

ToolRound(t) == pc[t] = "model" /\ Round(t, ids, ids') /\ UNCHANGED retryIds

\* The strict retry is run with an empty list of allowed tools, but with the engine's
\* server attached and no permission asked for: a call that the SDK lets through is
\* made on the same session, and collected apart from those of the first run.
RetryRound(t) == pc[t] = "retry" /\ Round(t, retryIds, retryIds') /\ UNCHANGED ids

\* The model's first draft has no uncited number, and is the answer.
AcceptDraft(t) ==
  /\ pc[t] = "model"
  /\ RecordCall(t)
  /\ valid' = [valid EXCEPT ![t] = ids[t]]
  /\ \E d \in Drafts :
       /\ ~Uncited(d, ids[t])
       /\ draft' = [draft EXCEPT ![t] = Answer(t, d, ids[t], FALSE)]
  /\ Goto(t, "number")
  /\ UNCHANGED <<thread, title, idx, context, ids, retryIds, rounds, named>>

\* It has one: the model is asked again.
RejectDraft(t) ==
  /\ pc[t] = "model"
  /\ RecordCall(t)
  /\ valid' = [valid EXCEPT ![t] = ids[t]]
  /\ \E d \in Drafts : Uncited(d, ids[t])
  /\ rounds' = [rounds EXCEPT ![t] = 0]
  /\ Goto(t, "retry")
  /\ UNCHANGED <<thread, title, idx, context, ids, retryIds, draft, named>>

\* Mutant: the retry's draft is never warned about.
RetryUnwarnedMutant(t) ==
  /\ pc[t] = "retry"
  /\ RecordCall(t)
  /\ \E d \in Drafts : draft' = [draft EXCEPT ![t] = Answer(t, d, valid[t], FALSE)]
  /\ Goto(t, "number")
  /\ UNCHANGED <<thread, title, idx, context, ids, retryIds, valid, rounds, named>>

\* Mutant: the retry's draft may cite what the retry has called.
RetryCallsMutant(t) ==
  /\ pc[t] = "retry"
  /\ RecordCall(t)
  /\ \E d \in Drafts :
       LET allowed == valid[t] \cup retryIds[t]
       IN  draft' = [draft EXCEPT ![t] = Answer(t, d, allowed, Uncited(d, allowed))]
  /\ Goto(t, "number")
  /\ UNCHANGED <<thread, title, idx, context, ids, retryIds, valid, rounds, named>>

\* The retry's draft replaces the first one, and is checked against the ids that were
\* valid for the first one.
RetryDraft(t) ==
  /\ pc[t] = "retry"
  /\ RecordCall(t)
  /\ \E d \in Drafts :
       draft' = [draft EXCEPT ![t] = Answer(t, d, valid[t], Uncited(d, valid[t]))]
  /\ Goto(t, "number")
  /\ UNCHANGED <<thread, title, idx, context, ids, retryIds, valid, rounds, named>>

\* An answer is shown to the client now; then the second _next_idx.
NumberAnswer(t) ==
  /\ Alive(t, "number")
  /\ idx' = [idx EXCEPT ![t] = NextIdx(t)]
  /\ Goto(t, "store")
  /\ UNCHANGED <<thread, title, pending, dead, context, ids, retryIds, valid,
                 rounds, draft, named>>

StoreAnswerMutant(t) ==
  /\ Alive(t, "store") /\ ~Waits(t) /\ ~Taken(t)
  /\ pending' = [pending EXCEPT ![t] = @ \cup {Log!AnswerRow(idx[t], t, Linked(t))}]
  /\ IF draft[t].kind = "answer"
       THEN Goto(t, "title") \/ Goto(t, "commit")
       ELSE Goto(t, "commit")
  /\ UNCHANGED <<thread, title, dead, idx, context, ids, retryIds, valid,
                 rounds, draft, named>>

\* The assistant's row and its links.  The first exchange names the thread.
StoreAnswer(t) ==
  /\ Alive(t, "store") /\ ~Waits(t) /\ ~Taken(t)
  /\ pending' = [pending EXCEPT ![t] = @ \cup {Log!AnswerRow(idx[t], t, Linked(t))}]
  /\ IF draft[t].kind = "answer" /\ idx[t] <= 2
       THEN Goto(t, "title") \/ Goto(t, "commit") \* the title may not be raw
       ELSE Goto(t, "commit")
  /\ UNCHANGED <<thread, title, dead, idx, context, ids, retryIds, valid,
                 rounds, draft, named>>

\* generate_title never raises, and may come back without a title.
Name(t) ==
  /\ pc[t] = "title"
  /\ RecordCall(t)
  /\ named' \in {named, [named EXCEPT ![t] = TRUE]}
  /\ Goto(t, "commit")
  /\ UNCHANGED <<thread, title, idx, context, ids, retryIds, valid, rounds, draft>>

Commit(t) ==
  /\ Alive(t, "commit")
  /\ thread' = Visible(t)
  /\ title' = IF named[t] THEN t ELSE title
  /\ pending' = [pending EXCEPT ![t] = {}]
  /\ Goto(t, "committed")
  /\ UNCHANGED <<dead, idx, context, ids, retryIds, valid, rounds, draft, named>>

\* The next statement of a dead session raises PendingRollbackError.
FindDead(t) ==
  /\ dead[t] # "no"
  /\ pc[t] \in {"history", "number", "commit"}
  /\ Lose(t)
  /\ UNCHANGED <<thread, title, dead, idx, context, ids, retryIds, valid,
                 rounds, draft, named>>

Tell(t) ==
  /\ pc[t] = "committed"
  /\ Goto(t, "done")
  /\ UNCHANGED <<thread, title, pending, dead, idx, context, ids, retryIds,
                 valid, rounds, draft, named>>

\* The client goes away, the process dies, or the gate or the SDK raises.
Break(t) ==
  /\ Open(t)
  /\ Lose(t)
  /\ UNCHANGED <<thread, title, dead, idx, context, ids, retryIds, valid,
                 rounds, draft, named>>

\* The client goes away between the commit and the "done" event.
MissDone(t) ==
  /\ pc[t] = "committed"
  /\ Goto(t, "unseen")
  /\ UNCHANGED <<thread, title, pending, dead, idx, context, ids, retryIds,
                 valid, rounds, draft, named>>

----------------------------------------------------------------------------

Init ==
  /\ thread = {}
  /\ title = "raw"
  /\ pending = [t \in Turns |-> {}]
  /\ dead = [t \in Turns |-> "no"]
  /\ pc = [t \in Turns |-> "new"]
  /\ idx = [t \in Turns |-> 0]
  /\ context = [t \in Turns |-> {}]
  /\ ids = [t \in Turns |-> {}]
  /\ retryIds = [t \in Turns |-> {}]
  /\ valid = [t \in Turns |-> {}]
  /\ rounds = [t \in Turns |-> 0]
  /\ draft = [t \in Turns |-> NoAnswer]
  /\ named = [t \in Turns |-> FALSE]

\* What _drive_turn does by itself once it has started.
Drive(t) ==
  \/ InsertUser(t) \/ Conflict(t)
  \/ PassGate(t) \/ Refuse(t)
  \/ BuildHistory(t) \/ ToolRound(t)
  \/ AcceptDraft(t) \/ RejectDraft(t)
  \/ RetryRound(t) \/ RetryDraft(t)
  \/ NumberAnswer(t) \/ StoreAnswer(t) \/ Name(t) \/ Commit(t) \/ Tell(t)
  \/ FindDead(t)

Next == \E t \in Turns : Start(t) \/ Drive(t) \/ Break(t) \/ MissDone(t)

\* A coroutine that can go on does: the database, the gate and the SDK answer
\* or raise.  Nothing makes a client send a message, or go away.
Fairness == \A t \in Turns : WF_vars(Drive(t))

Spec == Init /\ [][Next]_vars
FairSpec == Spec /\ Fairness

----------------------------------------------------------------------------
(* Properties *)

TurnRows ==
  [idx : Nat \ {0}, role : {"user", "assistant"}, turn : Turns,
   answer : Answers \cup {NoAnswer}]

\* The shape of the state, the model's columns of chat_turn among it.
TypeOK ==
  /\ thread \subseteq TurnRows
  /\ title \in Turns \cup {"raw"}
  /\ pending \in [Turns -> SUBSET TurnRows]
  /\ dead \in [Turns -> {"no", "log", "tool"}]
  /\ pc \in [Turns -> Ended \cup {"new", "insert", "gate", "history", "model",
                "retry", "number", "store", "title", "commit", "committed"}]
  /\ idx \in [Turns -> Nat]
  /\ context \in [Turns -> SUBSET Nat]
  /\ ids \in [Turns -> SUBSET CallIds]
  /\ retryIds \in [Turns -> SUBSET CallIds]
  /\ valid \in [Turns -> SUBSET CallIds]
  /\ rounds \in [Turns -> Nat]
  /\ draft \in [Turns -> Answers \cup {NoAnswer}]
  /\ named \in [Turns -> BOOLEAN]

StoredAnswers == {r \in thread : r.role = "assistant" /\ r.answer.kind = "answer"}

\* A committed answer was written with exactly the rows in view that precede
\* its question in the thread, the last HistoryLimit - 1 of them, although
\* other turns ran between the reading of the history and the commit.
AnswersInContext ==
  \A r \in StoredAnswers :
    r.answer.context = {i \in 1 .. (r.idx - 2) : r.idx - 1 < i + HistoryLimit}

\* A committed answer carries the warning exactly when it has a number that no
\* engine call of its turn grounds, whichever of the two drafts it comes from.
WarnedIffUncited ==
  \A r \in StoredAnswers : r.answer.warned <=> r.answer.uncited

\* Every span of a committed answer cites an engine call that the answer is linked to
\* through chat_engine_call.  The ids a draft may cite are fixed before the retry, the
\* links are made after it, and the retry's own calls are in neither.
SpansBacked == \A r \in StoredAnswers : r.answer.spans \subseteq r.answer.links

\* Only the thread's first exchange, and only if answered, gives it its title.
TitleFromFirstExchange ==
  title # "raw" => \E r \in StoredAnswers : r.idx = 2 /\ r.turn = title

\* Rows are committed by whole exchanges, numbered without gaps, never changed,
\* and a client that was told "done" finds its exchange in the thread.
ThreadGrowsByExchanges == Log!Spec

\* A turn that starts comes to an end: none waits for ever for an index that
\* another one holds.
TurnsEnd == \A t \in Turns : pc[t] # "new" ~> pc[t] \in Ended

\* chat/llm_log.py: "a failed insert never aborts the surface that made the LLM
\* call".  A turn that is lost was not lost to the logging of a call.
LoggingIsBestEffort == \A t \in Turns : pc[t] = "lost" => dead[t] # "log"
=============================================================================
