------------------------- MODULE ConversationProofs -------------------------
(***************************************************************************)
(* Theorems about Conversation, for any number of messages and threads.    *)
(* Two sends of the pane that is mounted are at work together only if both *)
(* are doubled; so the card below the turns is that of the one send on its *)
(* way that is not, and only this one and doubled ones write into it.      *)
(***************************************************************************)
EXTENDS Conversation, TLAPS

Busy(s) == s \in attached /\ pc[s] \in InFlight \cup {"creating", "listing"}

Placed == \A s \in Sends : pc[s] \in InFlight \cup {"listing"} => thread[s] \in threads

TypeInv == TypeOK /\ Placed

OverlapsDoubled ==
  \A r, s \in Sends : Busy(r) /\ Busy(s) => r = s \/ {r, s} \subseteq doubled

\* A send on its way that overlaps with none has the card.
OwnsCard ==
  \A s \in Sends \ doubled : OnItsWay(s) => card # NoCard /\ card.user = s

CardOwned ==
  card # NoCard =>
    /\ OnItsWay(card.user)
    /\ card.thread = thread[card.user]
    /\ card.from \subseteq doubled \cup {card.user}

CardInv == TypeInv /\ OverlapsDoubled /\ OwnsCard /\ CardOwned

\* The text is safe as soon as the answer or the error is there.
TextInv ==
  \A s \in Sends :
    pc[s] \in {"refetch", "over"} =>
      srv[s] = "stored" \/ draft = s \/ s \in dropped

----------------------------------------------------------------------------
(* Types *)

LEMMA InitType == Init => TypeInv
BY ThreadAssumption DEF Init, TypeInv, TypeOK, Placed, InFlight

LEMMA UserType ==
  ASSUME TypeInv, User
  PROVE  TypeInv'
<1> USE SendAssumption, ThreadAssumption
<1>1. ASSUME NEW s \in Sends, Type(s)
      PROVE  TypeInv'
  BY <1>1 DEF TypeInv, TypeOK, Placed, InFlight, Type, Draft, sends
<1>2. ASSUME NEW s \in Sends, SubmitHere(s)
      PROVE  TypeInv'
  <2>1. card' \in Cards \cup {NoCard}
    BY <1>2 DEF TypeInv, TypeOK, Placed, InFlight, SubmitHere, Attach, ShowCard, Cards
  <2>2. doubled' \subseteq Sends /\ attached' \subseteq Sends
    BY <1>2 DEF TypeInv, TypeOK, Placed, InFlight, SubmitHere, Attach, Creating
  <2>. QED
    BY <1>2, <2>1, <2>2 DEF TypeInv, TypeOK, Placed, InFlight, SubmitHere, Attach, Goto
<1>3. ASSUME NEW s \in Sends, SubmitNew(s)
      PROVE  TypeInv'
  <2>1. doubled' \subseteq Sends /\ attached' \subseteq Sends
    BY <1>3 DEF TypeInv, TypeOK, Placed, InFlight, SubmitNew, Attach, Creating
  <2>. QED
    BY <1>3, <2>1 DEF TypeInv, TypeOK, Placed, InFlight, SubmitNew, Attach, Goto
<1>4. ASSUME NEW t \in Threads \cup {NoThread}, Activate(t)
      PROVE  TypeInv'
  BY <1>4 DEF TypeInv, TypeOK, Placed, InFlight, Activate, pane, sends, history
<1>5. CASE NewChat
  BY <1>5 DEF TypeInv, TypeOK, Placed, InFlight, NewChat, Draft, sends
<1>6. CASE Leave
  BY <1>6 DEF TypeInv, TypeOK, Placed, InFlight, Leave, sends, history
<1>. QED
  BY <1>1, <1>2, <1>3, <1>4, <1>5, <1>6 DEF User

LEMMA SendType ==
  ASSUME TypeInv,
         NEW s \in Sends,
         Proceed(s) \/ Event(s) \/ Receive(s) \/ Serve(s)
  PROVE  TypeInv'
<1> USE SendAssumption, ThreadAssumption
<1>1. CASE Created(s)
  BY <1>1 DEF TypeInv, TypeOK, Placed, InFlight, Created, Goto, pane, history
<1>2. CASE CreateFails(s)
  BY <1>2 DEF TypeInv, TypeOK, Placed, InFlight, CreateFails, Goto, Draft
<1>3. CASE Post(s)
  <2>1. card' = card \/ card' = [thread |-> thread[s], user |-> s, from |-> {}]
    BY <1>3 DEF Post, ShowCard
  <2>2. thread[s] \in Threads
    BY <1>3 DEF TypeInv, TypeOK, Placed, Post
  <2>3. card' = NoCard \/ card' \in Cards
    BY <2>1, <2>2 DEF TypeInv, TypeOK, Cards
  <2>. QED
    BY <1>3, <2>3 DEF TypeInv, TypeOK, Placed, InFlight, Post, Goto, history
<1>4. CASE Open(s)
  BY <1>4 DEF TypeInv, TypeOK, Placed, InFlight, Open, Goto, pane, history
<1>5. CASE Event(s)
  BY <1>5 DEF TypeInv, TypeOK, Placed, InFlight, Event, Cards, sends, history
<1>6. CASE Done(s)
  BY <1>6 DEF TypeInv, TypeOK, Placed, InFlight, Done, Cards, Goto, history
<1>7. CASE Drop(s)
  BY <1>7 DEF TypeInv, TypeOK, Placed, InFlight, Drop, Goto, Draft
<1>8. CASE Settle(s)
  BY <1>8 DEF TypeInv, TypeOK, Placed, InFlight, Settle, Goto, history
<1>9. CASE Receive(s) \/ Serve(s)
  BY <1>9 DEF TypeInv, TypeOK, Placed, InFlight, Receive, Serve, pane, sends, history
<1>. QED
  BY <1>1, <1>2, <1>3, <1>4, <1>5, <1>6, <1>7, <1>8, <1>9 DEF Proceed

LEMMA TypeNext ==
  ASSUME TypeInv, [Next]_vars
  PROVE  TypeInv'
<1>1. CASE User
  BY <1>1, UserType
<1>2. ASSUME NEW s \in Sends, Proceed(s) \/ Event(s) \/ Receive(s) \/ Serve(s)
      PROVE  TypeInv'
  BY <1>2, SendType
<1>3. CASE UNCHANGED vars
  BY <1>3 DEF TypeInv, TypeOK, Placed, vars, pane, sends, history
<1>. QED
  BY <1>1, <1>2, <1>3 DEF Next

----------------------------------------------------------------------------
(* The card *)

\* What the actions that start a send have in common.
LEMMA AttachDoubles ==
  ASSUME CardInv, card = NoCard, NEW s \in Sends, Unsent(s), Attach(s)
  PROVE  /\ doubled \subseteq doubled'
         /\ \A r \in Sends : Busy(r) => r \in doubled' /\ s \in doubled'
         /\ \A r \in Sends : OnItsWay(r) => r \in doubled
<1>1. ASSUME NEW r \in Sends, OnItsWay(r)
      PROVE  r \in doubled
  BY <1>1 DEF CardInv, OwnsCard
<1>2. ASSUME NEW r \in Sends, Busy(r)
      PROVE  r \in doubled' /\ s \in doubled'
  <2>1. CASE OnItsWay(r)
    BY <1>1, <2>1 DEF Attach
  <2>2. CASE r \in Creating
    BY <2>2 DEF Attach
  <2>. QED
    BY <1>2, <2>1, <2>2 DEF Busy, OnItsWay, Creating
<1>. QED
  BY <1>1, <1>2 DEF Attach

LEMMA SubmitHereCard ==
  ASSUME CardInv, NEW s \in Sends, SubmitHere(s)
  PROVE  (OverlapsDoubled /\ OwnsCard /\ CardOwned)'
<1>1. /\ doubled \subseteq doubled'
      /\ \A r \in Sends : Busy(r) => r \in doubled' /\ s \in doubled'
      /\ \A r \in Sends : OnItsWay(r) => r \in doubled
  BY AttachDoubles DEF SubmitHere
<1>2. /\ attached' = attached \cup {s}
      /\ \A r \in Sends : r # s => pc'[r] = pc[r]
      /\ pc'[s] = "posting" /\ thread'[s] = active
  BY DEF SubmitHere, Attach, Goto, CardInv, TypeInv, TypeOK
<1>3. card' = [thread |-> active, user |-> s, from |-> {}]
  BY <1>2 DEF SubmitHere, ShowCard
<1>4. card' # NoCard
  BY <1>3, SendAssumption DEF SubmitHere, CardInv, TypeInv, TypeOK, Cards
<1>5. \A r \in Sends : r # s /\ Busy(r)' => Busy(r)
  BY <1>2 DEF Busy
<1>6. OverlapsDoubled'
  BY <1>1, <1>5 DEF OverlapsDoubled, CardInv
<1>7. \A r \in Sends : r # s /\ OnItsWay(r)' => r \in doubled'
  BY <1>1, <1>2 DEF OnItsWay
<1>8. OwnsCard'
  BY <1>3, <1>4, <1>7 DEF OwnsCard
<1>9. CardOwned'
  BY <1>2, <1>3 DEF CardOwned, OnItsWay, InFlight
<1>. QED
  BY <1>6, <1>8, <1>9

LEMMA SubmitNewCard ==
  ASSUME CardInv, NEW s \in Sends, SubmitNew(s)
  PROVE  (OverlapsDoubled /\ OwnsCard /\ CardOwned)'
<1>1. /\ doubled \subseteq doubled'
      /\ \A r \in Sends : Busy(r) => r \in doubled' /\ s \in doubled'
      /\ \A r \in Sends : OnItsWay(r) => r \in doubled
  BY AttachDoubles DEF SubmitNew
<1>2. /\ attached' = attached \cup {s}
      /\ \A r \in Sends : r # s => pc'[r] = pc[r]
      /\ pc'[s] = "creating" /\ card' = NoCard
  BY DEF SubmitNew, Attach, Goto, CardInv, TypeInv, TypeOK
<1>3. \A r \in Sends : r # s /\ Busy(r)' => Busy(r)
  BY <1>2 DEF Busy
<1>4. OverlapsDoubled'
  BY <1>1, <1>3 DEF OverlapsDoubled, CardInv
<1>5. \A r \in Sends : OnItsWay(r)' => r \in doubled'
  BY <1>1, <1>2 DEF OnItsWay, InFlight
<1>. QED
  BY <1>2, <1>4, <1>5 DEF OwnsCard, CardOwned

LEMMA UserCard ==
  ASSUME CardInv, User
  PROVE  (OverlapsDoubled /\ OwnsCard /\ CardOwned)'
<1>1. ASSUME NEW s \in Sends, Type(s)
      PROVE  (OverlapsDoubled /\ OwnsCard /\ CardOwned)'
  BY <1>1
  DEF Type, sends, CardInv, OverlapsDoubled, OwnsCard, CardOwned, Busy, OnItsWay
<1>2. ASSUME NEW t \in Threads \cup {NoThread}, Activate(t)
      PROVE  (OverlapsDoubled /\ OwnsCard /\ CardOwned)'
  BY <1>2
  DEF Activate, pane, sends, history,
      CardInv, OverlapsDoubled, OwnsCard, CardOwned, Busy, OnItsWay
<1>3. CASE NewChat
  BY <1>3
  DEF NewChat, sends, CardInv, OverlapsDoubled, OwnsCard, CardOwned, Busy, OnItsWay
<1>4. CASE Leave
  BY <1>4 DEF Leave, OverlapsDoubled, OwnsCard, CardOwned, Busy, OnItsWay
<1>. QED
  BY <1>1, <1>2, <1>3, <1>4, SubmitHereCard, SubmitNewCard DEF User

LEMMA PostCard ==
  ASSUME CardInv, NEW s \in Sends, Post(s)
  PROVE  (OverlapsDoubled /\ OwnsCard /\ CardOwned)'
<1>1. /\ attached' = attached /\ doubled' = doubled /\ thread' = thread
      /\ \A r \in Sends : r # s => pc'[r] = pc[r]
      /\ pc[s] = "listing" /\ pc'[s] = "posting"
  BY DEF Post, Goto, history, CardInv, TypeInv, TypeOK
<1>2. \A r \in Sends : Busy(r)' <=> Busy(r)
  BY <1>1 DEF Busy, InFlight
<1>3. OverlapsDoubled'
  BY <1>1, <1>2 DEF CardInv, OverlapsDoubled
<1>4. CASE s \in attached
  <2>1. card' = [thread |-> thread[s], user |-> s, from |-> {}]
    BY <1>1, <1>4 DEF Post, ShowCard
  <2>2. card' # NoCard
    BY <1>1, <2>1, SendAssumption DEF CardInv, TypeInv, TypeOK, Placed, Cards
  <2>3. \A r \in Sends : r # s /\ OnItsWay(r)' => r \in doubled'
    BY <1>1, <1>4 DEF CardInv, OverlapsDoubled, OnItsWay, Busy
  <2>4. OwnsCard'
    BY <2>1, <2>2, <2>3 DEF OwnsCard
  <2>5. CardOwned'
    BY <1>1, <1>4, <2>1 DEF CardOwned, OnItsWay, InFlight
  <2>. QED
    BY <1>3, <2>4, <2>5
<1>5. CASE s \notin attached
  <2>1. card' = card
    BY <1>1, <1>5 DEF Post, ShowCard
  <2>2. \A r \in Sends : OnItsWay(r)' <=> OnItsWay(r)
    BY <1>1, <1>5 DEF OnItsWay
  <2>3. card # NoCard => card.user \in Sends
    BY DEF CardInv, TypeInv, TypeOK, Cards
  <2>. QED
    BY <1>1, <1>3, <2>1, <2>2, <2>3 DEF CardInv, OwnsCard, CardOwned
<1>. QED
  BY <1>4, <1>5

\* The steps of a send on its way that leave the card where it is.
LEMMA WayCard ==
  ASSUME CardInv, NEW s \in Sends, Open(s) \/ Event(s) \/ Done(s) \/ Drop(s)
  PROVE  (OverlapsDoubled /\ OwnsCard /\ CardOwned)'
<1>1. /\ attached' = attached /\ doubled' = doubled /\ thread' = thread
      /\ \A r \in Sends : r # s => pc'[r] = pc[r]
      /\ pc[s] \in InFlight /\ pc'[s] \in InFlight
  BY DEF Open, Event, Done, Drop, Goto, pane, sends, history, InFlight,
         CardInv, TypeInv, TypeOK
<1>2. \A r \in Sends : (Busy(r)' <=> Busy(r)) /\ (OnItsWay(r)' <=> OnItsWay(r))
  BY <1>1 DEF Busy, OnItsWay
<1>3. \/ card' = card
      \/ /\ card # NoCard /\ OnItsWay(s)
         /\ card' = [card EXCEPT !.from = card.from \cup {s}]
  BY DEF Open, Event, Done, Drop, pane, OnItsWay, InFlight
<1>4. OverlapsDoubled'
  BY <1>1, <1>2 DEF CardInv, OverlapsDoubled
<1>5. card # NoCard => card \in Cards /\ card.user \in Sends
  BY DEF CardInv, TypeInv, TypeOK, Cards
<1>6. CASE card' = card
  BY <1>1, <1>2, <1>4, <1>5, <1>6 DEF CardInv, OwnsCard, CardOwned
<1>7. CASE /\ card # NoCard /\ OnItsWay(s)
           /\ card' = [card EXCEPT !.from = card.from \cup {s}]
  <2>1. card' \in Cards /\ card' # NoCard
    BY <1>5, <1>7, SendAssumption DEF Cards
  <2>2. /\ card'.user = card.user /\ card'.thread = card.thread
        /\ card'.from = card.from \cup {s}
    BY <1>5, <1>7 DEF Cards
  <2>3. s \in doubled \cup {card.user}
    BY <1>7 DEF CardInv, OwnsCard
  <2>. QED
    BY <1>1, <1>2, <1>4, <1>5, <1>7, <2>1, <2>2, <2>3 DEF CardInv, OwnsCard, CardOwned
<1>. QED
  BY <1>3, <1>6, <1>7

LEMMA SettleCard ==
  ASSUME CardInv, NEW s \in Sends, Settle(s)
  PROVE  (OverlapsDoubled /\ OwnsCard /\ CardOwned)'
<1>1. /\ attached' = attached /\ doubled' = doubled /\ thread' = thread
      /\ \A r \in Sends : r # s => pc'[r] = pc[r]
      /\ pc[s] = "refetch" /\ pc'[s] = "over"
  BY DEF Settle, Goto, history, CardInv, TypeInv, TypeOK
<1>2. \A r \in Sends : (Busy(r)' <=> Busy(r) /\ r # s)
                    /\ (OnItsWay(r)' <=> OnItsWay(r) /\ r # s)
  BY <1>1 DEF Busy, OnItsWay, InFlight
<1>3. OverlapsDoubled'
  BY <1>1, <1>2 DEF CardInv, OverlapsDoubled
<1>4. CASE s \in attached
  <2>1. card' = NoCard
    BY <1>4 DEF Settle
  <2>2. \A r \in Sends : OnItsWay(r)' => r \in doubled'
    BY <1>1, <1>2, <1>4 DEF CardInv, OverlapsDoubled, OnItsWay, Busy, InFlight
  <2>. QED
    BY <1>3, <2>1, <2>2 DEF OwnsCard, CardOwned
<1>5. CASE s \notin attached
  <2>1. card' = card
    BY <1>5 DEF Settle
  <2>2. \A r \in Sends : OnItsWay(r)' <=> OnItsWay(r)
    BY <1>2, <1>5 DEF OnItsWay
  <2>3. card # NoCard => card.user \in Sends
    BY DEF CardInv, TypeInv, TypeOK, Cards
  <2>. QED
    BY <1>1, <1>3, <2>1, <2>2, <2>3 DEF CardInv, OwnsCard, CardOwned
<1>. QED
  BY <1>4, <1>5

\* The others touch neither the card nor a thread that has one.
LEMMA OtherCard ==
  ASSUME CardInv,
         NEW s \in Sends, Created(s) \/ CreateFails(s) \/ Receive(s) \/ Serve(s)
  PROVE  (OverlapsDoubled /\ OwnsCard /\ CardOwned)'
<1>1. /\ attached' = attached /\ doubled' = doubled /\ card' = card
      /\ \A r \in Sends : pc[r] \in InFlight => thread'[r] = thread[r]
      /\ \A r \in Sends : pc'[r] \in InFlight <=> pc[r] \in InFlight
      /\ \A r \in Sends : pc'[r] \in {"creating", "listing"} => pc[r] \in {"creating", "listing"}
  BY DEF Created, CreateFails, Receive, Serve, Goto, pane, sends, history,
         InFlight, CardInv, TypeInv, TypeOK
<1>2. \A r \in Sends : (Busy(r)' => Busy(r)) /\ (OnItsWay(r)' <=> OnItsWay(r))
  BY <1>1 DEF Busy, OnItsWay
<1>3. OverlapsDoubled'
  BY <1>1, <1>2 DEF CardInv, OverlapsDoubled
<1>4. card # NoCard => card.user \in Sends
  BY DEF CardInv, TypeInv, TypeOK, Cards
<1>5. card # NoCard => thread'[card.user] = thread[card.user]
  BY <1>1, <1>4 DEF CardInv, CardOwned, OnItsWay
<1>. QED
  BY <1>1, <1>2, <1>3, <1>4, <1>5 DEF CardInv, OwnsCard, CardOwned

LEMMA CardNext ==
  ASSUME CardInv, [Next]_vars
  PROVE  CardInv'
<1>1. TypeInv'
  BY TypeNext DEF CardInv
<1>2. CASE User
  BY <1>1, <1>2, UserCard DEF CardInv
<1>3. ASSUME NEW s \in Sends, Proceed(s) \/ Event(s) \/ Receive(s) \/ Serve(s)
      PROVE  CardInv'
  BY <1>1, <1>3, PostCard, WayCard, SettleCard, OtherCard DEF CardInv, Proceed
<1>4. CASE UNCHANGED vars
  BY <1>1, <1>4
  DEF vars, pane, sends, history,
      CardInv, OverlapsDoubled, OwnsCard, CardOwned, Busy, OnItsWay
<1>. QED
  BY <1>2, <1>3, <1>4 DEF Next

LEMMA InitCard == Init => CardInv
BY InitType DEF Init, CardInv, OverlapsDoubled, OwnsCard, CardOwned, Busy, OnItsWay

LEMMA CardAlways == Spec => []CardInv
BY InitCard, CardNext, PTL DEF Spec

\* The state keeps its shape: in particular a card always has a thread, the one
\* that its message was sent on.
THEOREM TypeCorrect == Spec => []TypeOK
<1>1. CardInv => TypeOK
  BY DEF CardInv, TypeInv
<1>. QED
  BY <1>1, CardAlways, PTL

\* However the user switches threads, leaves the page or tries again, an answer
\* is displayed on another thread only if its message, sent while a thread was
\* being created, overlapped with another.
THEOREM AnswersInTheirThreads == Spec => []AnswerInItsThread
<1>1. CardInv => AnswerInItsThread
  BY DEF CardInv, OwnsCard, CardOwned, AnswerInItsThread, Shows
<1>. QED
  BY <1>1, CardAlways, PTL

\* The composer lets no two other messages of a pane be on their way.
THEOREM OneSendAtATime == Spec => []OneAtATime
<1>1. CardInv => OneAtATime
  BY DEF CardInv, OwnsCard, OneAtATime
<1>. QED
  BY <1>1, CardAlways, PTL

----------------------------------------------------------------------------
(* Texts *)

\* What is put into the draft is there, and what was there is dropped.
LEMMA DraftKeeps ==
  ASSUME NEW d \in Sends \cup {NoSend}, Draft(d)
  PROVE  \A r \in Sends :
           (draft = r \/ r \in dropped) \/ r = d => (draft' = r \/ r \in dropped')
BY SendAssumption DEF Draft

LEMMA UserText ==
  ASSUME TypeOK, TextInv, User
  PROVE  TextInv'
<1>1. ASSUME NEW s \in Sends, Type(s)
      PROVE  TextInv'
  BY <1>1, DraftKeeps DEF Type, sends, TextInv
<1>2. ASSUME NEW s \in Sends, SubmitHere(s) \/ SubmitNew(s)
      PROVE  TextInv'
  <2>1. /\ draft = s /\ dropped' = dropped
        /\ pc'[s] \notin {"refetch", "over"}
        /\ \A r \in Sends : r # s => pc'[r] = pc[r] /\ srv'[r] = srv[r]
    BY <1>2 DEF SubmitHere, SubmitNew, Goto, TypeOK
  <2>. QED
    BY <2>1 DEF TextInv
<1>3. ASSUME NEW t \in Threads \cup {NoThread}, Activate(t)
      PROVE  TextInv'
  BY <1>3 DEF Activate, pane, sends, history, TextInv
<1>4. CASE NewChat
  BY <1>4, DraftKeeps DEF NewChat, sends, TextInv
<1>5. CASE Leave
  BY <1>5 DEF Leave, sends, history, TextInv
<1>. QED
  BY <1>1, <1>2, <1>3, <1>4, <1>5 DEF User

LEMMA SendText ==
  ASSUME TypeOK, TextInv,
         NEW s \in Sends,
         Proceed(s) \/ Event(s) \/ Receive(s) \/ Serve(s)
  PROVE  TextInv'
<1>1. CASE CreateFails(s) \/ Drop(s)
  <2>1. /\ Draft(s) /\ srv' = srv
        /\ \A r \in Sends : r # s => pc'[r] = pc[r]
    BY <1>1 DEF CreateFails, Drop, Goto, TypeOK
  <2>. QED
    BY <2>1, DraftKeeps DEF TextInv
<1>2. CASE Receive(s) \/ Serve(s)
  <2>1. /\ pc' = pc /\ draft' = draft /\ dropped' = dropped
        /\ \A r \in Sends : srv[r] = "stored" => srv'[r] = "stored"
    BY <1>2 DEF Receive, Serve, pane, sends, history, TypeOK
  <2>. QED
    BY <2>1 DEF TextInv
<1>3. CASE Created(s) \/ Post(s) \/ Open(s) \/ Event(s) \/ Done(s) \/ Settle(s)
  <2>1. /\ srv' = srv /\ draft' = draft /\ dropped' = dropped
        /\ \A r \in Sends : pc'[r] \in {"refetch", "over"} =>
             pc[r] \in {"refetch", "over"} \/ srv[r] = "stored"
    BY <1>3 DEF Created, Post, Open, Event, Done, Settle, Goto, pane, sends, history, TypeOK
  <2>. QED
    BY <2>1 DEF TextInv
<1>. QED
  BY <1>1, <1>2, <1>3 DEF Proceed

LEMMA TextNext ==
  ASSUME TypeOK, TextInv, [Next]_vars
  PROVE  TextInv'
<1>1. ASSUME NEW s \in Sends, Proceed(s) \/ Event(s) \/ Receive(s) \/ Serve(s)
      PROVE  TextInv'
  BY <1>1, SendText
<1>2. CASE UNCHANGED vars
  BY <1>2 DEF vars, pane, sends, history, TextInv
<1>. QED
  BY <1>1, <1>2, UserText DEF Next

\* Whatever fails, and in whatever order, the text of a message that is not on
\* the server is in the draft until something else is put there.
THEOREM TextsKept == Spec => []TextKept
<1>1. Init => TextInv
  BY DEF Init, TextInv
<1>2. TextInv => TextKept
  BY DEF TextInv, TextKept
<1>. QED
  BY <1>1, <1>2, TypeCorrect, TextNext, PTL DEF Spec
=============================================================================
