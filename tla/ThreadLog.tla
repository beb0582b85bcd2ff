----------------------------- MODULE ThreadLog -----------------------------
(***************************************************************************)
(* What a chat thread promises its reader: a numbered sequence of rows     *)
(* that grows by whole exchanges, a user's message and the answer to it,   *)
(* one exchange after the other, and a client is told that a turn is done  *)
(* only when its exchange is there.  ChatThread implements it.             *)
(***************************************************************************)
EXTENDS Naturals

CONSTANTS Turns, Answers, NoAnswer

VARIABLES
  thread, \* the set of rows
  told    \* turns whose client has received the "done" event

Row(i, role, t, a) == [idx |-> i, role |-> role, turn |-> t, answer |-> a]
UserRow(i, t) == Row(i, "user", t, NoAnswer)
AnswerRow(i, t, a) == Row(i, "assistant", t, a)

Idxs(rows) == {r.idx : r \in rows}

LastIdx(rows) ==
  IF rows = {} THEN 0
  ELSE CHOOSE i \in Idxs(rows) : \A j \in Idxs(rows) : j <= i

Init == thread = {} /\ told = {}

\* The exchange of turn t goes behind the rows that are there.
Exchange(t) ==
  /\ \A r \in thread : r.turn # t
  /\ LET n == LastIdx(thread) IN
       /\ Idxs(thread) = 1 .. n
       /\ \E r \in thread' :
            /\ r.answer \in Answers
            /\ thread' = thread \cup {UserRow(n + 1, t), AnswerRow(n + 2, t, r.answer)}
  /\ UNCHANGED told

Tell(t) ==
  /\ \E r \in thread : r.turn = t
  /\ told' = told \cup {t}
  /\ UNCHANGED thread

Next == \E t \in Turns : Exchange(t) \/ Tell(t)

Spec == Init /\ [][Next]_<<thread, told>>
=============================================================================
