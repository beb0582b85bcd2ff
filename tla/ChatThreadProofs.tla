-------------------------- MODULE ChatThreadProofs --------------------------
(***************************************************************************)
(* Theorems about ChatThread, for every set of turns and calls, every      *)
(* HistoryLimit and MaxRounds.  At most one turn has uncommitted rows: its *)
(* question stands right behind the committed rows, whose number no other  *)
(* turn can change before it ends.  All the rest follows from that.        *)
(***************************************************************************)
EXTENDS ChatThread, TLAPS

\* The number of committed rows, and the context of a question behind them.
Len == Log!LastIdx(thread)
Before == {i \in 1 .. Len : Len + 1 < i + HistoryLimit}

Asked == {"gate", "history", "model", "retry", "number", "store"}
Answered == {"title", "commit"}
Drafted == {"number", "store"} \cup Answered
Kept == {"committed", "done", "unseen"}

Question(t) == Log!UserRow(Len + 1, t)
Reply(t) == Log!AnswerRow(Len + 2, t, Linked(t))

\* Rows are numbered from 1, without a gap.
Numbered == Len \in Nat /\ Log!Idxs(thread) = 1 .. Len

\* What the turn's transaction has inserted.
PendingShape(t) ==
  pending[t] = IF dead[t] # "no" THEN {}
               ELSE IF pc[t] \in Asked THEN {Question(t)}
               ELSE IF pc[t] \in Answered THEN {Question(t), Reply(t)}
               ELSE {}

\* Where the turn is going to insert, or has inserted its answer.
Place(t) ==
  /\ pc[t] \in {"new", "insert"} => dead[t] = "no"
  /\ pc[t] = "insert" => idx[t] \in 1 .. (Len + 1)
  /\ dead[t] = "no" /\ pc[t] \in {"store"} \cup Answered => idx[t] = Len + 2

Honest(a) == a.kind = "answer" => (a.warned <=> a.uncited)

DraftHonest(t) == pc[t] \in Drafted => draft[t] \in Answers /\ Honest(draft[t])

DraftInContext(t) ==
  dead[t] = "no" =>
    /\ pc[t] \in {"model", "retry"} => context[t] = Before
    /\ pc[t] \in Drafted /\ draft[t].kind = "answer" => draft[t].context = Before

\* A draft cites calls of the first run only, those it is going to be linked to.
Citing(t) ==
  /\ pc[t] = "retry" => valid[t] \subseteq ids[t]
  /\ pc[t] \in Drafted /\ draft[t].kind = "answer" => draft[t].spans \subseteq ids[t]

\* The turn names the thread only when it answers the first question.
Naming(t) ==
  /\ named[t] => pc[t] \in {"commit", "lost"} \cup Kept
  /\ pc[t] = "title" \/ (named[t] /\ pc[t] = "commit") =>
       draft[t].kind = "answer" /\ idx[t] <= 2

\* The turn has rows in the thread exactly when it has committed.
Keeping(t) == pc[t] \in Kept <=> \E r \in thread : r.turn = t

Local(t) ==
  /\ PendingShape(t) /\ Place(t)
  /\ DraftHonest(t) /\ DraftInContext(t)
  /\ Naming(t) /\ Keeping(t) /\ Citing(t)

OneWriter == \A t, u \in Turns : t # u => pending[t] = {} \/ pending[u] = {}

\* What is true of the committed rows.
Committed ==
  /\ Numbered
  /\ AnswersInContext
  /\ WarnedIffUncited
  /\ SpansBacked
  /\ TitleFromFirstExchange

Inv == TypeOK /\ Committed /\ OneWriter /\ \A t \in Turns : Local(t)

----------------------------------------------------------------------------

\* The greatest index of rows that are numbered without a gap.
LEMMA LastOfRange ==
  ASSUME NEW R, NEW m \in Nat, Log!Idxs(R) = 1 .. m
  PROVE  Log!LastIdx(R) = m
<1>1. CASE m = 0
  BY <1>1 DEF Log!LastIdx, Log!Idxs
<1>2. CASE m # 0
  <2>1. m \in Log!Idxs(R) /\ \A j \in Log!Idxs(R) : j <= m
    BY <1>2
  <2>2. R # {}
    BY <2>1 DEF Log!Idxs
  <2>3. \A i \in Log!Idxs(R) : (\A j \in Log!Idxs(R) : j <= i) => i = m
    BY <2>1
  <2> QED BY <2>1, <2>2, <2>3 DEF Log!LastIdx
<1> QED BY <1>1, <1>2

\* The indices of rows put together.
LEMMA IdxsUnion ==
  ASSUME NEW R, NEW S
  PROVE  Log!Idxs(R \cup S) = Log!Idxs(R) \cup Log!Idxs(S)
BY DEF Log!Idxs

\* The index of a row that stands alone.
LEMMA IdxsRow ==
  ASSUME NEW i, NEW role, NEW t, NEW a
  PROVE  Log!Idxs({Log!Row(i, role, t, a)}) = {i}
BY DEF Log!Idxs, Log!Row

\* What _next_idx reads in a live turn that has asked: its question's index.
LEMMA LastVisible ==
  ASSUME Inv, NEW t \in Turns, dead[t] = "no", pc[t] \in Asked
  PROVE  Log!LastIdx(Visible(t)) = Len + 1
<1>1. Len \in Nat /\ Log!Idxs(thread) = 1 .. Len
  BY DEF Inv, Committed, Numbered
<1>2. pending[t] = {Question(t)}
  BY DEF Inv, Local, PendingShape
<1>3. Log!Idxs(Visible(t)) = (1 .. Len) \cup {Len + 1}
  <2>1. Log!Idxs(pending[t]) = {Len + 1}
    BY <1>2, IdxsRow DEF Question, Log!UserRow
  <2> QED BY <1>1, <2>1, IdxsUnion DEF Visible
<1>4. Log!Idxs(Visible(t)) = 1 .. (Len + 1)
  BY <1>1, <1>3
<1> QED BY <1>1, <1>4, LastOfRange

\* A turn without rows of its own sees the committed ones.
LEMMA LastCommitted ==
  ASSUME Inv, NEW t \in Turns, pc[t] = "new"
  PROVE  Log!LastIdx(Visible(t)) = Len
<1>1. pending[t] = {}
  BY DEF Inv, Local, PendingShape, Asked, Answered
<1>2. Visible(t) = thread
  BY <1>1 DEF Visible
<1> QED BY <1>2 DEF Len

\* The rows a turn inserts and the answers it drafts have the columns' types.
LEMMA AnswerType ==
  ASSUME TypeOK, NEW t \in Turns, NEW d \in Drafts, NEW w \in BOOLEAN,
         NEW allowed \in SUBSET CallIds
  PROVE  Answer(t, d, allowed, w) \in Answers
BY DEF TypeOK, Answer, Answers, Drafts, Uncited

\* The links are the only thing that storing an answer adds to it.
LEMMA LinkedType ==
  ASSUME TypeOK, NEW t \in Turns, draft[t] \in Answers
  PROVE  /\ Linked(t) \in Answers
         /\ Linked(t).kind = draft[t].kind /\ Linked(t).context = draft[t].context
         /\ Linked(t).warned = draft[t].warned /\ Linked(t).uncited = draft[t].uncited
         /\ Linked(t).spans = draft[t].spans
         /\ Linked(t).kind = "answer" => Linked(t).links = ids[t]
BY DEF TypeOK, Linked, Answers

----------------------------------------------------------------------------
(* One step of one turn *)

\* The turns other than t keep what is theirs.
Frame(t) ==
  \A u \in Turns \ {t} :
    /\ pending'[u] = pending[u] /\ dead'[u] = dead[u] /\ pc'[u] = pc[u]
    /\ idx'[u] = idx[u] /\ context'[u] = context[u] /\ draft'[u] = draft[u]
    /\ ids'[u] = ids[u] /\ valid'[u] = valid[u] /\ named'[u] = named[u]

\* A step of t that leaves the committed rows alone disturbs no other turn.
LEMMA LocalStep ==
  ASSUME Inv, NEW t \in Turns, Frame(t), thread' = thread, title' = title,
         TypeOK', OneWriter', Local(t)'
  PROVE  Inv'
<1>1. Len' = Len /\ Before' = Before
  BY DEF Len, Before, Log!LastIdx, Log!Idxs
<1>2. Committed'
  <2>1. Committed
    BY DEF Inv
  <2>2. Numbered'
    BY <2>1, <1>1 DEF Committed, Numbered, Log!Idxs
  <2>3. StoredAnswers' = StoredAnswers
    BY DEF StoredAnswers
  <2> QED
    BY <2>1, <2>2, <2>3 DEF Committed, AnswersInContext, WarnedIffUncited,
       SpansBacked, TitleFromFirstExchange
<1>3. ASSUME NEW u \in Turns, u # t PROVE Local(u)'
  <2>1. Local(u)
    BY DEF Inv
  <2>2. /\ pending'[u] = pending[u] /\ dead'[u] = dead[u] /\ pc'[u] = pc[u]
        /\ idx'[u] = idx[u] /\ context'[u] = context[u] /\ draft'[u] = draft[u]
        /\ ids'[u] = ids[u] /\ valid'[u] = valid[u] /\ named'[u] = named[u]
    BY <1>3 DEF Frame
  <2>3. PendingShape(u)'
    BY <2>1, <2>2, <1>1 DEF Local, PendingShape, Question, Reply, Linked
  <2>4. Place(u)' /\ DraftHonest(u)' /\ DraftInContext(u)'
    BY <2>1, <2>2, <1>1 DEF Local, Place, DraftHonest, DraftInContext
  <2>5. Naming(u)' /\ Keeping(u)' /\ Citing(u)'
    BY <2>1, <2>2 DEF Local, Naming, Keeping, Citing
  <2> QED BY <2>3, <2>4, <2>5 DEF Local
<1> QED BY <1>2, <1>3 DEF Inv

\* When t gains no rows, there is one writer still.
LEMMA NoNewWriter ==
  ASSUME Inv, NEW t \in Turns, Frame(t),
         pending'[t] = {} \/ pending'[t] = pending[t]
  PROVE  OneWriter'
BY DEF Inv, OneWriter, Frame

\* When no other turn has rows, t may be the writer.
LEMMA SoleWriter ==
  ASSUME Inv, NEW t \in Turns, Frame(t), \A u \in Turns \ {t} : pending[u] = {}
  PROVE  OneWriter'
BY DEF Inv, OneWriter, Frame

----------------------------------------------------------------------------
(* The steps that leave the committed rows alone and insert none *)

Private(t) ==
  \/ Start(t) \/ Conflict(t) \/ PassGate(t) \/ Refuse(t) \/ BuildHistory(t)
  \/ ToolRound(t) \/ AcceptDraft(t) \/ RejectDraft(t) \/ RetryRound(t) \/ RetryDraft(t)
  \/ NumberAnswer(t) \/ Name(t) \/ Tell(t) \/ MissDone(t) \/ FindDead(t) \/ Break(t)

\* Such a step is the turn's own business.
LEMMA PrivateFrame ==
  ASSUME TypeOK, NEW t \in Turns, Private(t)
  PROVE  /\ thread' = thread /\ title' = title
         /\ Frame(t)
         /\ pending'[t] = {} \/ pending'[t] = pending[t]
<1>1. CASE Start(t)
  BY <1>1 DEF Start, TypeOK, Frame, Goto
<1>2. CASE Conflict(t)
  BY <1>2 DEF Conflict, TypeOK, Frame, Goto, Lose
<1>3. CASE PassGate(t)
  BY <1>3 DEF PassGate, TypeOK, Frame, Goto, RecordCall, Kill
<1>4. CASE Refuse(t)
  BY <1>4 DEF Refuse, TypeOK, Frame, Goto, RecordCall, Kill
<1>5. CASE BuildHistory(t)
  BY <1>5 DEF BuildHistory, TypeOK, Frame, Goto
<1>6. CASE ToolRound(t)
  BY <1>6 DEF ToolRound, Round, TypeOK, Frame, Kill
<1>7. CASE AcceptDraft(t)
  BY <1>7 DEF AcceptDraft, TypeOK, Frame, Goto, RecordCall, Kill
<1>8. CASE RejectDraft(t)
  BY <1>8 DEF RejectDraft, TypeOK, Frame, Goto, RecordCall, Kill
<1>9. CASE RetryDraft(t)
  BY <1>9 DEF RetryDraft, TypeOK, Frame, Goto, RecordCall, Kill
<1>10. CASE NumberAnswer(t)
  BY <1>10 DEF NumberAnswer, TypeOK, Frame, Goto
<1>11. CASE Name(t)
  BY <1>11 DEF Name, TypeOK, Frame, Goto, RecordCall, Kill
<1>12. CASE Tell(t)
  BY <1>12 DEF Tell, TypeOK, Frame, Goto
<1>13. CASE MissDone(t)
  BY <1>13 DEF MissDone, TypeOK, Frame, Goto
<1>14. CASE FindDead(t)
  BY <1>14 DEF FindDead, TypeOK, Frame, Goto, Lose
<1>15. CASE Break(t)
  BY <1>15 DEF Break, TypeOK, Frame, Goto, Lose
<1>16. CASE RetryRound(t)
  BY <1>16 DEF RetryRound, Round, TypeOK, Frame, Kill
<1> QED
  BY <1>1, <1>2, <1>3, <1>4, <1>5, <1>6, <1>7, <1>8,
     <1>9, <1>10, <1>11, <1>12, <1>13, <1>14, <1>15, <1>16 DEF Private

\* What the log of a call does to the rows of a turn that is still asking, or
\* that stays where its answer is: nothing, or it takes them with the session.
LEMMA LoggedShape ==
  ASSUME Inv, NEW t \in Turns, RecordCall(t), thread' = thread,
         \/ pc[t] \in Asked /\ pc'[t] \in Asked
         \/ pc[t] \in Answered /\ pc'[t] \in Answered /\ draft' = draft /\ ids' = ids
  PROVE  PendingShape(t)'
<1>1. PendingShape(t) /\ TypeOK
  BY DEF Inv, Local
<1>2. Len' = Len
  BY DEF Len, Log!LastIdx, Log!Idxs
<1>3. CASE UNCHANGED <<pending, dead>>
  BY <1>1, <1>2, <1>3 DEF PendingShape, Question, Reply, Linked, Asked, Answered
<1>4. CASE Kill(t, "log")
  BY <1>1, <1>4 DEF PendingShape, TypeOK, Kill
<1> QED BY <1>3, <1>4 DEF RecordCall

\* The other parts of Local after a step that is the turn's own business.
LEMMA PrivateLocal ==
  ASSUME Inv, NEW t \in Turns, Private(t)
  PROVE  TypeOK' /\ Local(t)'
<1>1. /\ TypeOK /\ PendingShape(t) /\ Place(t) /\ DraftHonest(t)
      /\ DraftInContext(t) /\ Naming(t) /\ Keeping(t) /\ Citing(t)
  BY DEF Inv, Local
<1>2. Len \in Nat
  BY DEF Inv, Committed, Numbered
<1>3. thread' = thread /\ Len' = Len /\ Before' = Before
  <2>1. thread' = thread
    BY <1>1, PrivateFrame
  <2> QED BY <2>1 DEF Len, Before, Log!LastIdx, Log!Idxs
<1>4. CASE Start(t)
  <2>1. NextIdx(t) = Len + 1
    BY <1>4, LastCommitted DEF Start, NextIdx
  <2>2. TypeOK'
    BY <1>1, <1>4, <1>2, <2>1 DEF Start, TypeOK, Ended, Goto
  <2>3. PendingShape(t)'
    BY <1>1, <1>4, <1>3 DEF Start, TypeOK, PendingShape, Question, Reply, Asked, Answered, Ended, Goto
  <2>4. Place(t)' /\ DraftHonest(t)' /\ DraftInContext(t)'
    BY <1>1, <1>4, <1>2, <1>3, <2>1 DEF Start, TypeOK, Place, DraftHonest, DraftInContext, Asked, Answered, Drafted, Kept, Goto
  <2>5. Naming(t)' /\ Keeping(t)' /\ Citing(t)'
    BY <1>1, <1>4, <1>3 DEF Start, TypeOK, Naming, Keeping, Citing, Asked, Answered, Drafted, Kept, Goto
  <2> QED BY <2>2, <2>3, <2>4, <2>5 DEF Local
<1>5. CASE Conflict(t)
  <2>1. TypeOK'
    BY <1>1, <1>5, <1>2 DEF Conflict, TypeOK, Ended, Goto, Lose, Alive
  <2>2. PendingShape(t)'
    BY <1>1, <1>5, <1>3 DEF Conflict, TypeOK, PendingShape, Question, Reply, Asked, Answered, Ended, Goto, Lose, Alive
  <2>3. Place(t)' /\ DraftHonest(t)' /\ DraftInContext(t)'
    BY <1>1, <1>5, <1>2, <1>3 DEF Conflict, TypeOK, Place, DraftHonest, DraftInContext, Asked, Answered, Drafted, Kept, Goto, Lose, Alive
  <2>4. Naming(t)' /\ Keeping(t)' /\ Citing(t)'
    BY <1>1, <1>5, <1>3 DEF Conflict, TypeOK, Naming, Keeping, Citing, Asked, Answered, Drafted, Kept, Goto, Lose, Alive
  <2> QED BY <2>1, <2>2, <2>3, <2>4 DEF Local
<1>6. CASE PassGate(t)
  <2>1. TypeOK'
    BY <1>1, <1>6, <1>2 DEF PassGate, TypeOK, Ended, Goto, RecordCall, Kill
  <2>2. PendingShape(t)'
    BY <1>3, <1>6, <2>1, LoggedShape DEF PassGate, TypeOK, Goto, Asked, Answered, Ended
  <2>3. Place(t)' /\ DraftHonest(t)' /\ DraftInContext(t)'
    BY <1>1, <1>6, <1>2, <1>3 DEF PassGate, TypeOK, Place, DraftHonest, DraftInContext, Asked, Answered, Drafted, Kept, Goto, RecordCall, Kill
  <2>4. Naming(t)' /\ Keeping(t)' /\ Citing(t)'
    BY <1>1, <1>6, <1>3 DEF PassGate, TypeOK, Naming, Keeping, Citing, Asked, Answered, Drafted, Kept, Goto, RecordCall, Kill
  <2> QED BY <2>1, <2>2, <2>3, <2>4 DEF Local
<1>7. CASE Refuse(t)
  <2>1. Refusal \in Answers /\ Honest(Refusal) /\ Refusal.kind # "answer"
    BY DEF Refusal, Answers, Honest
  <2>2. TypeOK'
    BY <1>1, <1>7, <1>2, <2>1 DEF Refuse, TypeOK, Ended, Goto, RecordCall, Kill
  <2>3. PendingShape(t)'
    BY <1>3, <1>7, <2>2, LoggedShape DEF Refuse, TypeOK, Goto, Asked, Answered, Ended
  <2>4. Place(t)' /\ DraftHonest(t)' /\ DraftInContext(t)'
    BY <1>1, <1>7, <1>2, <1>3, <2>1 DEF Refuse, TypeOK, Place, DraftHonest, DraftInContext, Asked, Answered, Drafted, Kept, Goto, RecordCall, Kill
  <2>5. Naming(t)' /\ Keeping(t)' /\ Citing(t)'
    BY <1>1, <1>7, <1>3, <2>1 DEF Refuse, TypeOK, Naming, Keeping, Citing, Asked, Answered, Drafted, Kept, Goto, RecordCall, Kill
  <2> QED BY <2>2, <2>3, <2>4, <2>5 DEF Local
<1>8. CASE BuildHistory(t)
  <2>1. dead[t] = "no" /\ History(t) = Before /\ Before \in SUBSET Nat
    BY <1>8, LastVisible DEF BuildHistory, Alive, History, Before, Asked, Inv,
       Committed, Numbered
  <2>2. TypeOK'
    BY <1>1, <1>8, <1>2, <2>1 DEF BuildHistory, TypeOK, Ended, Goto, Alive
  <2>3. PendingShape(t)'
    BY <1>1, <1>8, <1>3 DEF BuildHistory, TypeOK, PendingShape, Question, Reply, Asked, Answered, Ended, Goto, Alive
  <2>4. Place(t)' /\ DraftHonest(t)' /\ DraftInContext(t)'
    BY <1>1, <1>8, <1>2, <1>3, <2>1 DEF BuildHistory, TypeOK, Place, DraftHonest, DraftInContext, Asked, Answered, Drafted, Kept, Goto, Alive
  <2>5. Naming(t)' /\ Keeping(t)' /\ Citing(t)'
    BY <1>1, <1>8, <1>3 DEF BuildHistory, TypeOK, Naming, Keeping, Citing, Asked, Answered, Drafted, Kept, Goto, Alive
  <2> QED BY <2>2, <2>3, <2>4, <2>5 DEF Local
<1>9. CASE ToolRound(t)
  <2>1. TypeOK'
    BY <1>1, <1>9, <1>2 DEF ToolRound, Round, TypeOK, Ended, Kill
  <2>2. PendingShape(t)'
    BY <1>1, <1>9, <1>3 DEF ToolRound, Round, TypeOK, PendingShape, Question, Reply, Asked, Answered, Ended, Kill
  <2>3. Place(t)' /\ DraftHonest(t)' /\ DraftInContext(t)'
    BY <1>1, <1>9, <1>2, <1>3 DEF ToolRound, Round, TypeOK, Place, DraftHonest, DraftInContext, Asked, Answered, Drafted, Kept, Kill
  <2>4. Naming(t)' /\ Keeping(t)' /\ Citing(t)'
    BY <1>1, <1>9, <1>3 DEF ToolRound, Round, TypeOK, Naming, Keeping, Citing, Asked, Answered, Drafted, Kept, Kill
  <2> QED BY <2>1, <2>2, <2>3, <2>4 DEF Local
<1>10. CASE AcceptDraft(t)
  <2>1. PICK d \in Drafts :
          ~Uncited(d, ids[t]) /\ draft' = [draft EXCEPT ![t] = Answer(t, d, ids[t], FALSE)]
    BY <1>10 DEF AcceptDraft
  <2>2. /\ Answer(t, d, ids[t], FALSE) \in Answers /\ Honest(Answer(t, d, ids[t], FALSE))
        /\ Answer(t, d, ids[t], FALSE).context = context[t]
        /\ Answer(t, d, ids[t], FALSE).spans \subseteq ids[t]
    BY <1>1, <2>1, AnswerType DEF Answer, Honest, TypeOK
  <2>3. TypeOK'
    BY <1>1, <1>10, <1>2, <2>1, <2>2 DEF AcceptDraft, TypeOK, Ended, Goto, RecordCall, Kill
  <2>4. PendingShape(t)'
    BY <1>3, <1>10, <2>3, LoggedShape DEF AcceptDraft, TypeOK, Goto, Asked, Answered, Ended
  <2>5. Place(t)' /\ DraftHonest(t)' /\ DraftInContext(t)'
    BY <1>1, <1>10, <1>2, <1>3, <2>1, <2>2 DEF AcceptDraft, TypeOK, Place, DraftHonest, DraftInContext, Asked, Answered, Drafted, Kept, Goto, RecordCall, Kill
  <2>6. Naming(t)' /\ Keeping(t)' /\ Citing(t)'
    BY <1>1, <1>10, <1>3, <2>1, <2>2 DEF AcceptDraft, TypeOK, Naming, Keeping, Citing, Asked, Answered, Drafted, Kept, Goto, RecordCall, Kill
  <2> QED BY <2>3, <2>4, <2>5, <2>6 DEF Local
<1>11. CASE RejectDraft(t)
  <2>1. TypeOK'
    BY <1>1, <1>11, <1>2 DEF RejectDraft, TypeOK, Ended, Goto, RecordCall, Kill
  <2>2. PendingShape(t)'
    BY <1>3, <1>11, <2>1, LoggedShape DEF RejectDraft, TypeOK, Goto, Asked, Answered, Ended
  <2>3. Place(t)' /\ DraftHonest(t)' /\ DraftInContext(t)'
    BY <1>1, <1>11, <1>2, <1>3 DEF RejectDraft, TypeOK, Place, DraftHonest, DraftInContext, Asked, Answered, Drafted, Kept, Goto, RecordCall, Kill
  <2>4. Naming(t)' /\ Keeping(t)' /\ Citing(t)'
    BY <1>1, <1>11, <1>3 DEF RejectDraft, TypeOK, Naming, Keeping, Citing, Asked, Answered, Drafted, Kept, Goto, RecordCall, Kill
  <2> QED BY <2>1, <2>2, <2>3, <2>4 DEF Local
<1>12. CASE RetryDraft(t)
  <2>1. PICK d \in Drafts :
          draft' = [draft EXCEPT ![t] = Answer(t, d, valid[t], Uncited(d, valid[t]))]
    BY <1>12 DEF RetryDraft
  <2>2. Uncited(d, valid[t]) \in BOOLEAN
    BY <2>1 DEF Uncited, Drafts
  <2> DEFINE answer == Answer(t, d, valid[t], Uncited(d, valid[t]))
  <2>3. /\ draft' = [draft EXCEPT ![t] = answer]
        /\ answer \in Answers /\ Honest(answer) /\ answer.context = context[t]
        /\ answer.spans \subseteq valid[t] /\ valid[t] \subseteq ids[t]
    BY <1>1, <1>12, <2>1, <2>2, AnswerType DEF Answer, Honest, TypeOK, Citing, RetryDraft
  <2> HIDE DEF answer
  <2>4. TypeOK'
    BY <1>1, <1>12, <1>2, <2>1, <2>2, <2>3 DEF RetryDraft, TypeOK, Ended, Goto, RecordCall, Kill
  <2>5. PendingShape(t)'
    BY <1>3, <1>12, <2>4, LoggedShape DEF RetryDraft, TypeOK, Goto, Asked, Answered, Ended
  <2>6. Place(t)' /\ DraftHonest(t)' /\ DraftInContext(t)'
    BY <1>1, <1>12, <1>2, <1>3, <2>1, <2>2, <2>3 DEF RetryDraft, TypeOK, Place, DraftHonest, DraftInContext, Asked, Answered, Drafted, Kept, Goto, RecordCall, Kill
  <2>7. Naming(t)' /\ Keeping(t)' /\ Citing(t)'
    BY <1>1, <1>12, <1>3, <2>1, <2>3 DEF RetryDraft, TypeOK, Naming, Keeping, Citing, Asked, Answered, Drafted, Kept, Goto, RecordCall, Kill
  <2> QED BY <2>4, <2>5, <2>6, <2>7 DEF Local
<1>13. CASE NumberAnswer(t)
  <2>1. dead[t] = "no" /\ NextIdx(t) = Len + 2
    BY <1>2, <1>13, LastVisible DEF NumberAnswer, Alive, NextIdx, Asked
  <2>2. TypeOK'
    BY <1>1, <1>13, <1>2, <2>1 DEF NumberAnswer, TypeOK, Ended, Goto, Alive
  <2>3. PendingShape(t)'
    BY <1>1, <1>13, <1>3 DEF NumberAnswer, TypeOK, PendingShape, Question, Reply, Asked, Answered, Ended, Goto, Alive
  <2>4. Place(t)' /\ DraftHonest(t)' /\ DraftInContext(t)'
    BY <1>1, <1>13, <1>2, <1>3, <2>1 DEF NumberAnswer, TypeOK, Place, DraftHonest, DraftInContext, Asked, Answered, Drafted, Kept, Goto, Alive
  <2>5. Naming(t)' /\ Keeping(t)' /\ Citing(t)'
    BY <1>1, <1>13, <1>3 DEF NumberAnswer, TypeOK, Naming, Keeping, Citing, Asked, Answered, Drafted, Kept, Goto, Alive
  <2> QED BY <2>2, <2>3, <2>4, <2>5 DEF Local
<1>14. CASE Name(t)
  <2>1. TypeOK'
    BY <1>1, <1>14, <1>2 DEF Name, TypeOK, Ended, Goto, RecordCall, Kill
  <2>2. PendingShape(t)'
    BY <1>3, <1>14, <2>1, LoggedShape DEF Name, TypeOK, Goto, Asked, Answered, Ended
  <2>3. Place(t)' /\ DraftHonest(t)' /\ DraftInContext(t)'
    BY <1>1, <1>14, <1>2, <1>3 DEF Name, TypeOK, Place, DraftHonest, DraftInContext, Asked, Answered, Drafted, Kept, Goto, RecordCall, Kill
  <2>4. Naming(t)' /\ Keeping(t)' /\ Citing(t)'
    BY <1>1, <1>14, <1>3 DEF Name, TypeOK, Naming, Keeping, Citing, Asked, Answered, Drafted, Kept, Goto, RecordCall, Kill
  <2> QED BY <2>1, <2>2, <2>3, <2>4 DEF Local
<1>15. CASE Tell(t)
  <2>1. TypeOK'
    BY <1>1, <1>15, <1>2 DEF Tell, TypeOK, Ended, Goto
  <2>2. PendingShape(t)'
    BY <1>1, <1>15, <1>3 DEF Tell, TypeOK, PendingShape, Question, Reply, Asked, Answered, Ended, Goto
  <2>3. Place(t)' /\ DraftHonest(t)' /\ DraftInContext(t)'
    BY <1>1, <1>15, <1>2, <1>3 DEF Tell, TypeOK, Place, DraftHonest, DraftInContext, Asked, Answered, Drafted, Kept, Goto
  <2>4. Naming(t)' /\ Keeping(t)' /\ Citing(t)'
    BY <1>1, <1>15, <1>3 DEF Tell, TypeOK, Naming, Keeping, Citing, Asked, Answered, Drafted, Kept, Goto
  <2> QED BY <2>1, <2>2, <2>3, <2>4 DEF Local
<1>16. CASE MissDone(t)
  <2>1. TypeOK'
    BY <1>1, <1>16, <1>2 DEF MissDone, TypeOK, Ended, Goto
  <2>2. PendingShape(t)'
    BY <1>1, <1>16, <1>3 DEF MissDone, TypeOK, PendingShape, Question, Reply, Asked, Answered, Ended, Goto
  <2>3. Place(t)' /\ DraftHonest(t)' /\ DraftInContext(t)'
    BY <1>1, <1>16, <1>2, <1>3 DEF MissDone, TypeOK, Place, DraftHonest, DraftInContext, Asked, Answered, Drafted, Kept, Goto
  <2>4. Naming(t)' /\ Keeping(t)' /\ Citing(t)'
    BY <1>1, <1>16, <1>3 DEF MissDone, TypeOK, Naming, Keeping, Citing, Asked, Answered, Drafted, Kept, Goto
  <2> QED BY <2>1, <2>2, <2>3, <2>4 DEF Local
<1>17. CASE FindDead(t)
  <2>1. TypeOK'
    BY <1>1, <1>17, <1>2 DEF FindDead, TypeOK, Ended, Goto, Lose
  <2>2. PendingShape(t)'
    BY <1>1, <1>17, <1>3 DEF FindDead, TypeOK, PendingShape, Question, Reply, Asked, Answered, Ended, Goto, Lose
  <2>3. Place(t)' /\ DraftHonest(t)' /\ DraftInContext(t)'
    BY <1>1, <1>17, <1>2, <1>3 DEF FindDead, TypeOK, Place, DraftHonest, DraftInContext, Asked, Answered, Drafted, Kept, Goto, Lose
  <2>4. Naming(t)' /\ Keeping(t)' /\ Citing(t)'
    BY <1>1, <1>17, <1>3 DEF FindDead, TypeOK, Naming, Keeping, Citing, Asked, Answered, Drafted, Kept, Goto, Lose
  <2> QED BY <2>1, <2>2, <2>3, <2>4 DEF Local
<1>18. CASE Break(t)
  <2>1. TypeOK'
    BY <1>1, <1>18, <1>2 DEF Break, TypeOK, Ended, Goto, Lose, Open, Ended
  <2>2. PendingShape(t)'
    BY <1>1, <1>18, <1>3 DEF Break, TypeOK, PendingShape, Question, Reply, Asked, Answered, Ended, Goto, Lose, Open, Ended
  <2>3. Place(t)' /\ DraftHonest(t)' /\ DraftInContext(t)'
    BY <1>1, <1>18, <1>2, <1>3 DEF Break, TypeOK, Place, DraftHonest, DraftInContext, Asked, Answered, Drafted, Kept, Goto, Lose, Open, Ended
  <2>4. Naming(t)' /\ Keeping(t)' /\ Citing(t)'
    BY <1>1, <1>18, <1>3 DEF Break, TypeOK, Naming, Keeping, Citing, Asked, Answered, Drafted, Kept, Goto, Lose, Open, Ended
  <2> QED BY <2>1, <2>2, <2>3, <2>4 DEF Local
<1>19. CASE RetryRound(t)
  <2>1. TypeOK'
    BY <1>1, <1>19, <1>2 DEF RetryRound, Round, TypeOK, Ended, Kill
  <2>2. PendingShape(t)'
    BY <1>1, <1>19, <1>3 DEF RetryRound, Round, TypeOK, PendingShape, Question, Reply, Asked, Answered, Ended, Kill
  <2>3. Place(t)' /\ DraftHonest(t)' /\ DraftInContext(t)'
    BY <1>1, <1>19, <1>2, <1>3 DEF RetryRound, Round, TypeOK, Place, DraftHonest, DraftInContext, Asked, Answered, Drafted, Kept, Kill
  <2>4. Naming(t)' /\ Keeping(t)' /\ Citing(t)'
    BY <1>1, <1>19, <1>3 DEF RetryRound, Round, TypeOK, Naming, Keeping, Citing, Asked, Answered, Drafted, Kept, Kill
  <2> QED BY <2>1, <2>2, <2>3, <2>4 DEF Local
<1> QED
  BY <1>4, <1>5, <1>6, <1>7, <1>8, <1>9, <1>10, <1>11,
     <1>12, <1>13, <1>14, <1>15, <1>16, <1>17, <1>18, <1>19 DEF Private

\* A private step preserves the invariant.
LEMMA PrivateStep ==
  ASSUME Inv, NEW t \in Turns, Private(t)
  PROVE  Inv'
<1>1. TypeOK
  BY DEF Inv
<1>2. Frame(t) /\ thread' = thread /\ title' = title
      /\ (pending'[t] = {} \/ pending'[t] = pending[t])
  BY <1>1, PrivateFrame
<1>3. TypeOK' /\ Local(t)'
  BY PrivateLocal
<1> QED BY <1>2, <1>3, NoNewWriter, LocalStep

----------------------------------------------------------------------------
(* The steps that insert rows and the commit *)

\* The rows of a turn that waits, or whose answer is next, have these types.
LEMMA RowTypes ==
  ASSUME Inv, NEW t \in Turns
  PROVE  /\ Question(t) \in TurnRows /\ Question(t).idx = Len + 1
         /\ pc[t] \in Drafted => Reply(t) \in TurnRows /\ Reply(t).idx = Len + 2
<1>1. Len \in Nat
  BY DEF Inv, Committed, Numbered
<1>2. pc[t] \in Drafted => draft[t] \in Answers
  BY DEF Inv, Local, DraftHonest
<1>3. pc[t] \in Drafted => Linked(t) \in Answers
  BY <1>2, LinkedType DEF Inv
<1> QED
  BY <1>1, <1>3 DEF TurnRows, Question, Reply, Log!UserRow, Log!AnswerRow, Log!Row

\* The question is inserted behind the committed rows, and by one turn only:
\* another that had its rows there would be waited for.
LEMMA InsertUserStep ==
  ASSUME Inv, NEW t \in Turns, InsertUser(t)
  PROVE  Inv'
<1>1. /\ TypeOK /\ Place(t) /\ DraftHonest(t) /\ Naming(t) /\ Keeping(t)
      /\ \A u \in Turns : PendingShape(u)
  BY DEF Inv, Local
<1>2. Len \in Nat /\ Log!Idxs(thread) = 1 .. Len
  BY DEF Inv, Committed, Numbered
<1>3. idx[t] = Len + 1
  BY <1>1, <1>2 DEF InsertUser, Alive, Taken, Place
<1>4. ASSUME NEW u \in Turns \ {t} PROVE pending[u] = {}
  <2>1. SUFFICES ASSUME Question(u) \in pending[u] PROVE FALSE
    BY <1>1 DEF PendingShape
  <2>2. Len + 1 \in Log!Idxs(pending[u])
    BY <2>1, RowTypes DEF Log!Idxs
  <2> QED BY <1>3, <2>2 DEF InsertUser, Waits
<1>5. thread' = thread /\ title' = title /\ Frame(t)
  BY <1>1 DEF InsertUser, TypeOK, Frame, Goto
<1>6. Len' = Len /\ Before' = Before
  BY <1>5 DEF Len, Before, Log!LastIdx, Log!Idxs
<1>7. pending' = [pending EXCEPT ![t] = {Question(t)}]
  BY <1>3 DEF InsertUser, Question
<1>8. TypeOK'
  <2>1. pending' \in [Turns -> SUBSET TurnRows]
    BY <1>1, <1>7, RowTypes DEF TypeOK
  <2>2. pc' \in [Turns -> Ended \cup {"new", "insert", "gate", "history", "model",
                  "retry", "number", "store", "title", "commit", "committed"}]
    BY <1>1 DEF InsertUser, TypeOK, Goto
  <2> QED BY <1>1, <2>1, <2>2 DEF InsertUser, TypeOK
<1>9. PendingShape(t)'
  BY <1>1, <1>6, <1>7 DEF InsertUser, TypeOK, Alive, Goto, PendingShape, Question, Asked
<1>10. Place(t)' /\ DraftHonest(t)' /\ DraftInContext(t)'
  BY <1>1, <1>6 DEF InsertUser, TypeOK, Alive, Goto, Place, DraftHonest, DraftInContext,
     Answered, Drafted
<1>11. Naming(t)' /\ Keeping(t)' /\ Citing(t)'
  BY <1>1 DEF InsertUser, TypeOK, Alive, Goto, Naming, Keeping, Citing, Kept, Answered,
     Drafted
<1>12. Local(t)'
  BY <1>9, <1>10, <1>11 DEF Local
<1> QED BY <1>4, <1>5, <1>8, <1>12, SoleWriter, LocalStep

\* The answer is inserted behind the turn's own question.
LEMMA StoreAnswerStep ==
  ASSUME Inv, NEW t \in Turns, StoreAnswer(t)
  PROVE  Inv'
<1>1. /\ TypeOK /\ PendingShape(t) /\ Place(t) /\ DraftHonest(t)
      /\ DraftInContext(t) /\ Naming(t) /\ Keeping(t) /\ Citing(t) /\ OneWriter
  BY DEF Inv, Local
<1>2. pc[t] = "store" /\ dead[t] = "no" /\ idx[t] = Len + 2
  BY <1>1 DEF StoreAnswer, Alive, Place
<1>3. pending[t] = {Question(t)}
  BY <1>1, <1>2 DEF PendingShape, Asked
<1>4. \A u \in Turns \ {t} : pending[u] = {}
  BY <1>1, <1>3 DEF OneWriter
<1>5. thread' = thread /\ title' = title /\ Frame(t)
  BY <1>1 DEF StoreAnswer, TypeOK, Frame, Goto
<1>6. Len' = Len /\ Before' = Before
  BY <1>5 DEF Len, Before, Log!LastIdx, Log!Idxs
<1>7. pending' = [pending EXCEPT ![t] = {Question(t), Reply(t)}]
  BY <1>1, <1>2, <1>3 DEF StoreAnswer, Reply, TypeOK
<1>8. \/ pc' = [pc EXCEPT ![t] = "title"] /\ draft[t].kind = "answer" /\ idx[t] <= 2
      \/ pc' = [pc EXCEPT ![t] = "commit"]
  BY DEF StoreAnswer, Goto
<1>9. UNCHANGED <<dead, idx, context, ids, retryIds, valid, rounds, draft, named>>
  BY DEF StoreAnswer
<1>10. TypeOK'
  BY <1>1, <1>2, <1>5, <1>7, <1>8, <1>9, RowTypes DEF TypeOK, Drafted, Ended
<1>11. PendingShape(t)'
  BY <1>1, <1>2, <1>6, <1>7, <1>8, <1>9 DEF TypeOK, PendingShape, Question, Reply,
     Linked, Asked, Answered
<1>12. Place(t)' /\ DraftHonest(t)' /\ DraftInContext(t)'
  BY <1>1, <1>2, <1>6, <1>8, <1>9 DEF TypeOK, Place, DraftHonest, DraftInContext,
     Answered, Drafted
<1>13. Naming(t)' /\ Keeping(t)' /\ Citing(t)'
  BY <1>1, <1>2, <1>5, <1>8, <1>9 DEF TypeOK, Naming, Keeping, Citing, Kept, Drafted,
     Answered
<1>14. Local(t)'
  BY <1>11, <1>12, <1>13 DEF Local
<1> QED BY <1>4, <1>5, <1>10, <1>14, SoleWriter, LocalStep

\* A commit puts one exchange behind the committed rows.
LEMMA CommitAppends ==
  ASSUME Inv, NEW t \in Turns, Commit(t)
  PROVE  /\ pending[t] = {Question(t), Reply(t)}
         /\ thread' = thread \cup {Question(t), Reply(t)}
         /\ Len' = Len + 2 /\ Log!Idxs(thread') = 1 .. (Len + 2)
         /\ draft[t] \in Answers /\ Linked(t) \in Answers
<1>1. Len \in Nat /\ Log!Idxs(thread) = 1 .. Len
  BY DEF Inv, Committed, Numbered
<1>2. pc[t] = "commit" /\ dead[t] = "no"
  BY DEF Commit, Alive
<1>3. pending[t] = {Question(t), Reply(t)}
  BY <1>2 DEF Inv, Local, PendingShape, Asked, Answered
<1>4. draft[t] \in Answers
  BY <1>2 DEF Inv, Local, DraftHonest, Drafted, Answered
<1>5. thread' = thread \cup ({Question(t)} \cup {Reply(t)})
  BY <1>3 DEF Commit, Visible
<1>6. Question(t).idx = Len + 1 /\ Reply(t).idx = Len + 2
  BY <1>2, RowTypes DEF Drafted, Answered
<1>7. \A i : i \in Log!Idxs(thread') <=> i \in Log!Idxs(thread) \/ i = Len + 1 \/ i = Len + 2
  BY <1>5, <1>6 DEF Log!Idxs
<1>8. Log!Idxs(thread') = 1 .. (Len + 2)
  <2>1. \A i : i \in 1 .. (Len + 2) <=> i \in 1 .. Len \/ i = Len + 1 \/ i = Len + 2
    BY <1>1
  <2> QED BY <1>1, <1>7, <2>1
<1>9. Log!LastIdx(thread') = Len + 2
  BY <1>1, <1>8, LastOfRange
<1>10. Linked(t) \in Answers
  BY <1>4, LinkedType DEF Inv
<1> QED BY <1>3, <1>4, <1>5, <1>8, <1>9, <1>10 DEF Len

\* A commit preserves the invariant: no other turn has rows that its exchange
\* could displace.
LEMMA CommitStep ==
  ASSUME Inv, NEW t \in Turns, Commit(t)
  PROVE  Inv'
<1>1. /\ TypeOK /\ Committed /\ OneWriter
      /\ \A u \in Turns : Local(u)
  BY DEF Inv
<1>2. /\ PendingShape(t) /\ Place(t) /\ DraftHonest(t)
      /\ DraftInContext(t) /\ Naming(t) /\ Keeping(t) /\ Citing(t)
  BY <1>1 DEF Local
<1>3. Len \in Nat
  BY <1>1 DEF Committed, Numbered
<1>4. pc[t] = "commit" /\ dead[t] = "no" /\ idx[t] = Len + 2
  BY <1>2 DEF Commit, Alive, Place, Answered
<1>5. thread' = thread \cup {Question(t), Reply(t)} /\ Len' = Len + 2
  BY CommitAppends
<1>6. \A u \in Turns \ {t} : pending[u] = {}
  BY <1>1, CommitAppends DEF OneWriter
<1>7. /\ pending' = [pending EXCEPT ![t] = {}]
      /\ pc' = [pc EXCEPT ![t] = "committed"]
      /\ UNCHANGED <<dead, idx, context, ids, retryIds, valid, rounds, draft, named>>
  BY DEF Commit, Goto
<1>8. Question(t) \in TurnRows /\ Reply(t) \in TurnRows
  BY <1>4, RowTypes DEF Drafted, Answered
<1>9. /\ Question(t).role = "user" /\ Question(t).turn = t
      /\ Reply(t).role = "assistant" /\ Reply(t).turn = t
      /\ Reply(t).answer = Linked(t) /\ Reply(t).idx = Len + 2
  BY DEF Question, Reply, Log!UserRow, Log!AnswerRow, Log!Row
<1>10. TypeOK'
  <2>1. thread' \subseteq TurnRows /\ title' \in Turns \cup {"raw"}
    BY <1>1, <1>5, <1>8 DEF Commit, TypeOK
  <2> QED BY <1>1, <1>7, <2>1 DEF TypeOK, Ended
<1>11. Committed'
  <2>0. /\ Linked(t).kind = draft[t].kind /\ Linked(t).context = draft[t].context
        /\ Linked(t).warned = draft[t].warned /\ Linked(t).uncited = draft[t].uncited
        /\ Linked(t).spans = draft[t].spans
        /\ Linked(t).kind = "answer" => Linked(t).links = ids[t]
    BY <1>1, CommitAppends, LinkedType
  <2>1. Numbered'
    BY <1>3, <1>5, CommitAppends DEF Numbered, Log!Idxs
  <2>2. \A r \in StoredAnswers' :
          r \in StoredAnswers \/ (r = Reply(t) /\ draft[t].kind = "answer")
    <3>1. TAKE r \in StoredAnswers'
    <3>2. r \in thread' /\ r.role = "assistant" /\ r.answer.kind = "answer"
      BY DEF StoredAnswers
    <3>3. CASE r \in thread
      BY <3>2, <3>3 DEF StoredAnswers
    <3>4. CASE r \in {Question(t), Reply(t)}
      BY <1>9, <2>0, <3>2, <3>4
    <3> QED BY <1>5, <3>2, <3>3, <3>4
  <2>3. AnswersInContext'
    <3>1. draft[t].kind = "answer" =>
            draft[t].context
              = {i \in 1 .. ((Len + 2) - 2) : (Len + 2) - 1 < i + HistoryLimit}
      BY <1>2, <1>3, <1>4 DEF DraftInContext, Before, Drafted, Answered
    <3> QED BY <1>1, <1>9, <2>0, <2>2, <3>1 DEF Committed, AnswersInContext
  <2>4. WarnedIffUncited' /\ SpansBacked'
    <3>1. Honest(draft[t])
      BY <1>2, <1>4 DEF DraftHonest, Drafted, Answered
    <3>2. draft[t].kind = "answer" => draft[t].spans \subseteq ids[t]
      BY <1>2, <1>4 DEF Citing, Drafted, Answered
    <3>3. WarnedIffUncited'
      BY <1>1, <1>9, <2>0, <2>2, <3>1 DEF Committed, WarnedIffUncited, Honest
    <3>4. SpansBacked'
      BY <1>1, <1>9, <2>0, <2>2, <3>2 DEF Committed, SpansBacked
    <3> QED BY <3>3, <3>4
  <2>5. TitleFromFirstExchange'
    <3>1. StoredAnswers \subseteq StoredAnswers'
      BY <1>5 DEF StoredAnswers
    <3>2. CASE named[t]
      <4>1. title' = t /\ draft[t].kind = "answer" /\ Len + 2 = 2
        BY <1>2, <1>3, <1>4, <3>2 DEF Commit, Naming
      <4>2. Reply(t) \in StoredAnswers'
        BY <1>5, <1>9, <2>0, <4>1 DEF StoredAnswers
      <4> QED BY <1>9, <4>1, <4>2 DEF TitleFromFirstExchange
    <3>3. CASE ~named[t]
      BY <1>1, <3>1, <3>3 DEF Committed, TitleFromFirstExchange, Commit
    <3> QED BY <3>2, <3>3
  <2> QED BY <2>1, <2>3, <2>4, <2>5 DEF Committed
<1>12. Local(t)'
  <2>1. pc'[t] = "committed" /\ pending'[t] = {}
    BY <1>1, <1>7 DEF TypeOK
  <2>2. PendingShape(t)' /\ Place(t)' /\ DraftHonest(t)' /\ DraftInContext(t)' /\ Naming(t)'
        /\ Citing(t)'
    BY <2>1 DEF PendingShape, Place, DraftHonest, DraftInContext, Naming, Citing,
       Asked, Answered, Drafted, Kept
  <2>3. Keeping(t)'
    BY <1>5, <1>9, <2>1 DEF Keeping, Kept
  <2> QED BY <2>2, <2>3 DEF Local
<1>13. ASSUME NEW u \in Turns \ {t} PROVE Local(u)'
  <2>1. /\ pending'[u] = {} /\ dead'[u] = dead[u] /\ pc'[u] = pc[u]
        /\ idx'[u] = idx[u] /\ draft'[u] = draft[u] /\ named'[u] = named[u]
        /\ ids'[u] = ids[u] /\ valid'[u] = valid[u]
    BY <1>1, <1>6, <1>7 DEF TypeOK
  <2>2. /\ PendingShape(u) /\ Place(u) /\ DraftHonest(u) /\ Naming(u) /\ Keeping(u)
        /\ Citing(u)
    BY <1>1 DEF Local
  <2>3. dead[u] # "no" \/ pc[u] \notin Asked \cup Answered
    BY <1>6, <2>2 DEF PendingShape
  <2>4. PendingShape(u)' /\ Place(u)'
    BY <1>3, <1>5, <2>1, <2>2, <2>3 DEF PendingShape, Place, Asked, Answered
  <2>5. DraftHonest(u)' /\ DraftInContext(u)' /\ Naming(u)'
    BY <2>1, <2>2, <2>3 DEF DraftHonest, DraftInContext, Naming, Asked, Answered, Drafted
  <2>6. Keeping(u)' /\ Citing(u)'
    BY <1>5, <1>9, <2>1, <2>2 DEF Keeping, Citing
  <2> QED BY <2>4, <2>5, <2>6 DEF Local
<1>14. OneWriter'
  BY <1>1, <1>6, <1>7 DEF OneWriter, TypeOK
<1> QED BY <1>10, <1>11, <1>12, <1>13, <1>14 DEF Inv

----------------------------------------------------------------------------
(* The theorems *)

\* The invariant holds of the empty thread.
LEMMA InvInit == Init => Inv
<1> SUFFICES ASSUME Init PROVE Inv
  OBVIOUS
<1>1. Log!Idxs(thread) = 1 .. 0
  BY DEF Init, Log!Idxs
<1>2. Len = 0
  BY <1>1, LastOfRange DEF Len
<1>3. TypeOK
  BY DEF Init, TypeOK, Ended
<1>4. Committed
  BY <1>1, <1>2 DEF Init, Committed, Numbered, StoredAnswers, AnswersInContext,
     WarnedIffUncited, SpansBacked, TitleFromFirstExchange
<1>5. OneWriter
  BY DEF Init, OneWriter
<1>6. ASSUME NEW t \in Turns PROVE Local(t)
  BY DEF Init, Local, PendingShape, Place, DraftHonest, DraftInContext, Naming,
     Keeping, Citing, Asked, Answered, Drafted, Kept
<1> QED BY <1>3, <1>4, <1>5, <1>6 DEF Inv

\* Every step preserves the invariant.
LEMMA InvStep == Inv /\ [Next]_vars => Inv'
<1> SUFFICES ASSUME Inv, [Next]_vars PROVE Inv'
  OBVIOUS
<1>1. CASE UNCHANGED vars
  <2>1. Len' = Len /\ Before' = Before
    BY <1>1 DEF vars, Len, Before, Log!LastIdx, Log!Idxs
  <2>2. TypeOK' /\ OneWriter'
    BY <1>1 DEF Inv, vars, TypeOK, OneWriter
  <2>3. Committed'
    BY <1>1, <2>1 DEF Inv, vars, Committed, Numbered, StoredAnswers, AnswersInContext,
       WarnedIffUncited, SpansBacked, TitleFromFirstExchange, Log!Idxs
  <2>4. ASSUME NEW t \in Turns PROVE Local(t)'
    BY <1>1, <2>1 DEF Inv, vars, Local, PendingShape, Place, DraftHonest, DraftInContext,
       Naming, Keeping, Citing, Question, Reply, Linked
  <2> QED BY <2>2, <2>3, <2>4 DEF Inv
<1>2. ASSUME NEW t \in Turns, Start(t) \/ Drive(t) \/ Break(t) \/ MissDone(t)
      PROVE  Inv'
  <2>1. Private(t) \/ InsertUser(t) \/ StoreAnswer(t) \/ Commit(t)
    BY <1>2 DEF Drive, Private
  <2> QED BY <2>1, PrivateStep, InsertUserStep, StoreAnswerStep, CommitStep
<1> QED BY <1>1, <1>2 DEF Next

\* The invariant holds in every reachable state.
LEMMA Invariance == Spec => []Inv
BY InvInit, InvStep, PTL DEF Spec

\* Type correctness of the turns on a thread.
THEOREM TypeCorrect == Spec => []TypeOK
<1>1. Inv => TypeOK
  BY DEF Inv
<1> QED BY <1>1, Invariance, PTL

\* Every committed answer was written with exactly the rows in view that precede
\* its question, however the turns of the thread interleave.
THEOREM AnswersInContextHold == Spec => []AnswersInContext
<1>1. Inv => AnswersInContext
  BY DEF Inv, Committed
<1> QED BY <1>1, Invariance, PTL

\* A committed answer carries the warning exactly when it has a number that no
\* engine call of its turn grounds.
THEOREM WarnedIffUncitedHolds == Spec => []WarnedIffUncited
<1>1. Inv => WarnedIffUncited
  BY DEF Inv, Committed
<1> QED BY <1>1, Invariance, PTL

\* Every span of a committed answer cites a call that the answer is linked to: the ids
\* that a draft may cite are fixed before the strict retry, the links are made after it,
\* and what the retry itself calls is in neither (Citing is the invariant between them).
THEOREM SpansBackedHolds == Spec => []SpansBacked
<1>1. Inv => SpansBacked
  BY DEF Inv, Committed
<1> QED BY <1>1, Invariance, PTL

\* Only the thread's first exchange gives the thread its title.
THEOREM TitleFromFirstExchangeHolds == Spec => []TitleFromFirstExchange
<1>1. Inv => TitleFromFirstExchange
  BY DEF Inv, Committed
<1> QED BY <1>1, Invariance, PTL

\* Two turns never have uncommitted rows in one thread at the same time: the
\* second waits for the index of the first.
THEOREM OneWriterHolds == Spec => []OneWriter
<1>1. Inv => OneWriter
  BY DEF Inv
<1> QED BY <1>1, Invariance, PTL

\* The steps of turns on a thread implement the abstract log: rows appear by
\* whole exchanges, and a client is told "done" only of an exchange that is there.
LEMMA LogStep == Inv /\ [Next]_vars => [Log!Next]_<<thread, {t \in Turns : pc[t] = "done"}>>
<1> SUFFICES ASSUME Inv, [Next]_vars
             PROVE  [Log!Next]_<<thread, {t \in Turns : pc[t] = "done"}>>
  OBVIOUS
<1> DEFINE told == {t \in Turns : pc[t] = "done"}
<1>1. TypeOK
  BY DEF Inv
<1>2. CASE UNCHANGED vars
  BY <1>2 DEF vars
<1>3. ASSUME NEW t \in Turns, Commit(t)
      PROVE  Log!Exchange(t)
  <2>1. \A r \in thread : r.turn # t
    BY <1>3 DEF Inv, Local, Keeping, Commit, Alive, Kept
  <2>2. Log!Idxs(thread) = 1 .. Len
    BY DEF Inv, Committed, Numbered
  <2>3. thread' = thread \cup {Question(t), Reply(t)} /\ Linked(t) \in Answers
    BY <1>3, CommitAppends
  <2>4. Reply(t).answer = Linked(t) /\ Reply(t) \in thread'
    BY <2>3 DEF Reply, Log!AnswerRow, Log!Row
  <2>5. told' = told
    BY <1>1, <1>3 DEF Commit, Alive, Goto, TypeOK
  <2> QED BY <2>1, <2>2, <2>3, <2>4, <2>5 DEF Log!Exchange, Len, Question, Reply
<1>4. ASSUME NEW t \in Turns, Tell(t)
      PROVE  Log!Tell(t)
  <2>1. \E r \in thread : r.turn = t
    BY <1>4 DEF Inv, Local, Keeping, Tell, Kept
  <2>2. thread' = thread /\ told' = told \cup {t}
    BY <1>1, <1>4 DEF Tell, Goto, TypeOK
  <2> QED BY <2>1, <2>2 DEF Log!Tell
<1>5. ASSUME NEW t \in Turns, Start(t) \/ Drive(t) \/ Break(t) \/ MissDone(t),
             ~Commit(t), ~Tell(t)
      PROVE  thread' = thread /\ told' = told
  <2>1. thread' = thread
    BY <1>1, <1>5, PrivateFrame DEF Drive, Private, InsertUser, StoreAnswer
  <2>2. pc[t] # "done" /\ pc'[t] # "done" /\ (\A u \in Turns \ {t} : pc'[u] = pc[u])
    BY <1>1, <1>5 DEF Drive, TypeOK, Goto, Alive, Open, Ended, Lose, Start, InsertUser,
       Conflict, PassGate, Refuse, BuildHistory, ToolRound, RetryRound, Round, AcceptDraft,
       RejectDraft, RetryDraft, NumberAnswer, StoreAnswer, Name, FindDead, Break, MissDone
  <2> QED BY <2>1, <2>2
<1> QED BY <1>2, <1>3, <1>4, <1>5 DEF Next, Log!Next

\* The thread only grows, by whole exchanges, for any number of concurrent turns.
THEOREM ImplementsLog == Spec => ThreadGrowsByExchanges
<1>1. Init => Log!Init
  BY DEF Init, Log!Init
<1> QED BY <1>1, LogStep, Invariance, PTL DEF Spec, ThreadGrowsByExchanges, Log!Spec
=============================================================================
