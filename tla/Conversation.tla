---------------------------- MODULE Conversation ----------------------------
(***************************************************************************)
(* The conversation pane (conversation/ConversationPane.tsx): messages are *)
(* sent one at a time, or so the composer means, each on a thread that may *)
(* first have to be created, and the events of the answer go into a card   *)
(* below the thread's turns.  Meanwhile the user may select another        *)
(* thread, start a new one, or leave the page and come back.               *)
(*                                                                         *)
(* The state of the pane is React state: card stands for streaming,        *)
(* pendingUser and streamingThreadId, which are set together.  A request   *)
(* whose pane is gone still runs, but what it sets of that state has no    *)
(* effect.  The draft and the active thread are global stores.             *)
(*                                                                         *)
(* The server is ChatThread seen from outside: a turn is stored as a       *)
(* whole, before "done" is sent, or lost.  Left out are the notice of a    *)
(* failed send and the query client with the turns it has cached: an await *)
(* of an invalidation ends sooner or later.                                *)
(***************************************************************************)

CONSTANTS
  Sends,      \* messages, each typed once and sent until the server has it
  Threads,    \* ids of threads
  OldThreads, \* those that are there at the start
  NoSend,
  NoThread,
  NoCard

Cards == [thread : Threads, user : Sends, from : SUBSET Sends]

ASSUME ThreadAssumption == OldThreads \subseteq Threads /\ NoThread \notin Threads
ASSUME SendAssumption == NoSend \notin Sends /\ NoCard \notin Cards

VARIABLES
  active,   \* useThreads.activeThreadId
  draft,    \* useComposer.draft
  card,     \* the message and the answer below the turns, and their thread
  attached, \* sends of the pane that is mounted
  pc,       \* where each sendMessage stands
  thread,   \* its threadId
  threads,  \* threads that have been created
  srv,      \* what the server has made of each turn
  doubled,  \* history: sends submitted while another's thread was being created,
            \* that other, and those submitted while such a one is on its way
  dropped   \* history: texts in the draft that something else has replaced

pane == <<draft, card, attached>>
sends == <<pc, thread>>
history == <<doubled, dropped>>
vars == <<active, pane, sends, threads, srv, history>>

----------------------------------------------------------------------------
(* The composer *)

Goto(s, to) == pc' = [pc EXCEPT ![s] = to]

\* Bound: a text is not sent again while a send of it is on its way, nor when the
\* server has it or is at work on it.
Unsent(s) == pc[s] \in {"idle", "over"} /\ srv[s] \in {"none", "lost"}

\* setDraft
Draft(d) ==
  /\ draft' = d
  /\ dropped' = (IF draft = NoSend THEN dropped ELSE dropped \cup {draft}) \ {d}

\* The user types, or takes a suggestion of the briefing card, which is there
\* even while the composer is disabled.
Type(s) ==
  /\ Unsent(s)
  /\ draft # s
  /\ Draft(s)
  /\ UNCHANGED <<active, card, attached, sends, threads, srv, doubled>>

\* Sends of the pane that wait for the thread they create, or for the list.
Creating == {s \in attached : pc[s] \in {"creating", "listing"}}

InFlight == {"posting", "streaming", "refetch"}
OnItsWay(s) == s \in attached /\ pc[s] \in InFlight

\* onSubmit, up to its first await, and clear.
Attach(s) ==
  /\ attached' = attached \cup {s}
  /\ draft' = NoSend
  /\ doubled' = IF Creating # {} THEN doubled \cup {s} \cup Creating
                ELSE IF \E r \in doubled : OnItsWay(r) THEN doubled \cup {s}
                ELSE doubled

\* setStreamingThreadId, setPendingUser, setStreaming.
ShowCard(s, t) ==
  card' = IF s \in attached' THEN [thread |-> t, user |-> s, from |-> {}] ELSE card

SubmitHereMutant(s) ==
  /\ draft = s /\ Unsent(s)
  /\ active # NoThread
  /\ Attach(s)
  /\ Goto(s, "posting")
  /\ thread' = [thread EXCEPT ![s] = active]
  /\ srv' = [srv EXCEPT ![s] = "none"]
  /\ ShowCard(s, active)
  /\ UNCHANGED <<active, threads, dropped>>

\* The composer is disabled while there is a card.
SubmitHere(s) ==
  /\ draft = s /\ Unsent(s)
  /\ card = NoCard
  /\ active # NoThread
  /\ Attach(s)
  /\ Goto(s, "posting")
  /\ thread' = [thread EXCEPT ![s] = active]
  /\ srv' = [srv EXCEPT ![s] = "none"]
  /\ ShowCard(s, active)
  /\ UNCHANGED <<active, threads, dropped>>

SubmitNew(s) ==
  /\ draft = s /\ Unsent(s)
  /\ card = NoCard
  /\ active = NoThread
  /\ Attach(s)
  /\ Goto(s, "creating")
  /\ thread' = [thread EXCEPT ![s] = NoThread]
  /\ srv' = [srv EXCEPT ![s] = "none"]
  /\ UNCHANGED <<active, card, threads, dropped>>

\* "/new", typed over whatever the draft was.
NewChat ==
  /\ card = NoCard
  /\ active' = NoThread
  /\ Draft(NoSend)
  /\ UNCHANGED <<card, attached, sends, threads, srv, doubled>>

\* A row of the thread list; another company, or the archiving of the active
\* thread, for none.
Activate(t) ==
  /\ t \in threads \cup {NoThread}
  /\ t # active
  /\ active' = t
  /\ UNCHANGED <<pane, sends, threads, srv, history>>

\* To the settings and back: a pane with a state of its own is mounted.
Leave ==
  /\ card' = NoCard
  /\ attached' = {}
  /\ UNCHANGED <<active, draft, sends, threads, srv, history>>

----------------------------------------------------------------------------
(* sendMessage *)

Created(s) ==
  /\ pc[s] = "creating"
  /\ Goto(s, "listing")
  /\ \E t \in Threads \ threads :
       /\ threads' = threads \cup {t}
       /\ thread' = [thread EXCEPT ![s] = t]
       /\ active' = t
  /\ UNCHANGED <<pane, srv, history>>

CreateFails(s) ==
  /\ pc[s] = "creating"
  /\ Goto(s, "over")
  /\ Draft(s)
  /\ UNCHANGED <<active, card, attached, thread, threads, srv, doubled>>

PostMutant(s) ==
  /\ pc[s] = "listing"
  /\ Goto(s, "posting")
  /\ attached' = attached
  /\ ShowCard(s, active)
  /\ UNCHANGED <<active, draft, thread, threads, srv, history>>

\* The thread list has been refetched.
Post(s) ==
  /\ pc[s] = "listing"
  /\ Goto(s, "posting")
  /\ attached' = attached
  /\ ShowCard(s, thread[s])
  /\ UNCHANGED <<active, draft, thread, threads, srv, history>>

Open(s) ==
  /\ pc[s] = "posting"
  /\ srv[s] # "none"
  /\ Goto(s, "streaming")
  /\ UNCHANGED <<active, pane, thread, threads, srv, history>>

\* text_delta, tool_call, tool_result or warning: each setStreaming changes the
\* card that is there, if any.
Event(s) ==
  /\ pc[s] = "streaming"
  /\ card # NoCard /\ s \in attached
  /\ card' = [card EXCEPT !.from = @ \cup {s}]
  /\ UNCHANGED <<active, draft, attached, sends, threads, srv, history>>

\* The done event, and the end of the stream: into finally.
Done(s) ==
  /\ pc[s] = "streaming"
  /\ srv[s] = "stored"
  /\ Goto(s, "refetch")
  /\ card' = IF card # NoCard /\ s \in attached
               THEN [card EXCEPT !.from = @ \cup {s}]
               ELSE card
  /\ UNCHANGED <<active, draft, attached, thread, threads, srv, history>>

DropMutant(s) ==
  /\ pc[s] \in {"posting", "streaming"}
  /\ Goto(s, "refetch")
  /\ UNCHANGED <<active, pane, thread, threads, srv, history>>

\* The request or its stream fails: the text goes back into the draft.
Drop(s) ==
  /\ pc[s] \in {"posting", "streaming"}
  /\ Goto(s, "refetch")
  /\ Draft(s)
  /\ UNCHANGED <<active, card, attached, thread, threads, srv, doubled>>

SettleMutant(s) ==
  /\ pc[s] = "refetch"
  /\ Goto(s, "over")
  /\ card' = IF s \in attached /\ thread[s] = active THEN NoCard ELSE card
  /\ UNCHANGED <<active, draft, attached, thread, threads, srv, history>>

\* The thread and the list have been refetched: the card goes, whose ever it is.
Settle(s) ==
  /\ pc[s] = "refetch"
  /\ Goto(s, "over")
  /\ card' = IF s \in attached THEN NoCard ELSE card
  /\ UNCHANGED <<active, draft, attached, thread, threads, srv, history>>

----------------------------------------------------------------------------
(* The server *)

Receive(s) ==
  /\ pc[s] = "posting"
  /\ srv[s] = "none"
  /\ srv' = [srv EXCEPT ![s] = "running"]
  /\ UNCHANGED <<active, pane, sends, threads, history>>

\* The turn is committed, or gives up and breaks the connection.
Serve(s) ==
  /\ srv[s] = "running"
  /\ \E to \in {"stored", "lost"} : srv' = [srv EXCEPT ![s] = to]
  /\ UNCHANGED <<active, pane, sends, threads, history>>

----------------------------------------------------------------------------

Init ==
  /\ active = NoThread
  /\ draft = NoSend
  /\ card = NoCard
  /\ attached = {}
  /\ pc = [s \in Sends |-> "idle"]
  /\ thread = [s \in Sends |-> NoThread]
  /\ threads = OldThreads
  /\ srv = [s \in Sends |-> "none"]
  /\ doubled = {}
  /\ dropped = {}

User ==
  \/ \E s \in Sends : Type(s) \/ SubmitHere(s) \/ SubmitNew(s)
  \/ \E t \in Threads \cup {NoThread} : Activate(t)
  \/ NewChat
  \/ Leave

\* What ends one await of sendMessage after the other.
Proceed(s) ==
  \/ Created(s) \/ CreateFails(s) \/ Post(s)
  \/ Open(s) \/ Done(s) \/ Drop(s)
  \/ Settle(s)

Next ==
  \/ User
  \/ \E s \in Sends : Proceed(s) \/ Event(s) \/ Receive(s) \/ Serve(s)

\* Requests are answered or fail; nothing makes the user do anything.
Fairness == \A s \in Sends : WF_vars(Proceed(s))

Spec == Init /\ [][Next]_vars
FairSpec == Spec /\ Fairness

----------------------------------------------------------------------------
(* Properties *)

\* The shape of the state: a card has a thread.
TypeOK ==
  /\ active \in threads \cup {NoThread}
  /\ draft \in Sends \cup {NoSend}
  /\ card = NoCard \/ card \in Cards
  /\ attached \subseteq Sends
  /\ pc \in [Sends -> {"idle", "creating", "listing", "posting", "streaming",
                "refetch", "over"}]
  /\ thread \in [Sends -> threads \cup {NoThread}]
  /\ OldThreads \subseteq threads /\ threads \subseteq Threads
  /\ srv \in [Sends -> {"none", "running", "stored", "lost"}]
  /\ doubled \subseteq Sends
  /\ dropped \subseteq Sends

Shows(s) == card # NoCard /\ card.thread = active /\ s \in card.from

\* ConversationPane.tsx: when the user switches threads mid-stream "we hide its
\* UI from other threads".  An answer is displayed on no thread but its own.
AnswerHiddenElsewhere == \A s \in Sends : Shows(s) => thread[s] = active

\* It is displayed on another thread only after a message was submitted while
\* the thread of one before was being created; switching threads, leaving the
\* page and failed sends do not mix answers up.
AnswerInItsThread ==
  \A s \in Sends \ doubled : Shows(s) => thread[s] = active

\* Nor does the pane have two messages on their way for another reason, although
\* the end of any one enables the composer.
OneAtATime ==
  \A r, s \in Sends \ doubled : OnItsWay(r) /\ OnItsWay(s) => r = s

\* The text of a send that is over is on the server or back in the draft, unless
\* the user, or another send that failed, has put something else there.
TextKept ==
  \A s \in Sends :
    pc[s] = "over" => srv[s] = "stored" \/ draft = s \/ s \in dropped

\* The composer is not disabled for ever.
ComposerComesBack == (card # NoCard) ~> (card = NoCard)
=============================================================================
