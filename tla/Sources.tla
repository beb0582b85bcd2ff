------------------------------- MODULE Sources --------------------------------
\* The artifact pane of the frontend (state/artifacts.ts): the engine calls behind
\* the numbers of an answer, opened from its chips or all at once, fetched from
\* GET /engine_calls/{id}, and answered in any order, after the pane has shown
\* something else, been closed or opened the same call again.
\*
\* Entries are a set: there is at most one of an id, and nothing depends on their
\* order.  An envelope is named by the call it is the envelope of.
EXTENDS Naturals, FiniteSets

CONSTANTS
  Calls,        \* ids of engine calls
  NoCall,       \* no envelope (null)
  Flagged,      \* the entry of a number without a source
  MaxRequests   \* bound on the unanswered requests for one call

ASSUME SourcesAssumption ==
  NoCall \notin Calls /\ Flagged \notin Calls /\ MaxRequests \in Nat \ {0}

VARIABLES
  entries,        \* what the pane shows
  viewMode,       \* one entry, or a list of rows to expand
  paneOpenMobile, \* the pane of small screens is open
  requests,       \* unanswered requests for each call
  offered,        \* the chips on the page: calls, and whether a number is flagged
  readable,       \* calls that the user reaches by a briefing card or a chat turn
  chosen          \* history: what the user has asked the pane for last

sourceVars == <<entries, viewMode, paneOpenMobile, requests, offered, readable, chosen>>

Entries == [id : Calls \cup {Flagged}, data : Calls \cup {NoCall},
            error : BOOLEAN, expanded : BOOLEAN]

SourcesTypeOK ==
  /\ entries \subseteq Entries
  /\ viewMode \in {"single", "list"}
  /\ paneOpenMobile \in BOOLEAN
  /\ requests \in [Calls -> 0..MaxRequests]
  /\ offered \in [calls : SUBSET Calls, flag : BOOLEAN]
  /\ readable \subseteq Calls
  /\ chosen \subseteq Calls \cup {Flagged}

SourcesInit ==
  /\ entries = {} /\ viewMode = "single" /\ paneOpenMobile = FALSE
  /\ requests = [id \in Calls |-> 0]
  /\ offered = [calls |-> {}, flag |-> FALSE]
  /\ readable = {} /\ chosen = {}

-------------------------------------------------------------------------------
(* The page                                                                    *)

\* An answer is on the page: its chips, and the calls that were stored with it.
Offer(calls, flag, stored) ==
  /\ offered' = [calls |-> offered.calls \cup calls, flag |-> offered.flag \/ flag]
  /\ readable' = readable \cup stored
  /\ UNCHANGED <<entries, viewMode, paneOpenMobile, requests, chosen>>

-------------------------------------------------------------------------------
(* The store                                                                   *)

\* Mutant: an entry begins without knowing whether it failed.
EntryMutant(id, expanded) ==
  [id |-> id, data |-> NoCall, error |-> NoCall, expanded |-> expanded]

Entry(id, expanded) == [id |-> id, data |-> NoCall, error |-> FALSE, expanded |-> expanded]

Fetch(ids) ==
  /\ \A id \in ids : requests[id] < MaxRequests
  /\ requests' = [id \in Calls |-> IF id \in ids THEN requests[id] + 1 ELSE requests[id]]

\* The pane shows this call already, with its envelope.
ShowsAlone(id) == viewMode = "single" /\ \E e \in entries : e.id = id /\ e.data # NoCall

OpenSingle(id) ==
  /\ id \in offered.calls
  /\ paneOpenMobile' = TRUE
  /\ chosen' = {id}
  /\ \/ /\ ShowsAlone(id)
        /\ UNCHANGED <<entries, viewMode, requests>>
     \/ /\ ~ShowsAlone(id)
        /\ entries' = {Entry(id, TRUE)} /\ viewMode' = "single"
        /\ Fetch({id})
  /\ UNCHANGED <<offered, readable>>

OpenUncited ==
  /\ offered.flag
  /\ paneOpenMobile' = TRUE
  /\ entries' = {Entry(Flagged, TRUE)} /\ viewMode' = "single"
  /\ chosen' = {Flagged}
  /\ UNCHANGED <<requests, offered, readable>>

\* The Sources button: the calls of a response's chips, or all those of a briefing.
OpenList(ids) ==
  /\ ids # {} /\ ids \subseteq readable \cup offered.calls /\ offered.calls \subseteq ids
  /\ paneOpenMobile' = TRUE
  /\ entries' = {Entry(id, FALSE) : id \in ids} /\ viewMode' = "list"
  /\ Fetch(ids)
  /\ chosen' = ids
  /\ UNCHANGED <<offered, readable>>

ToggleExpanded(id) ==
  /\ viewMode = "list" /\ \E e \in entries : e.id = id
  /\ entries' = {IF e.id = id THEN [e EXCEPT !.expanded = ~e.expanded] ELSE e : e \in entries}
  /\ UNCHANGED <<viewMode, paneOpenMobile, requests, offered, readable, chosen>>

Clear ==
  /\ entries # {}
  /\ entries' = {} /\ viewMode' = "single" /\ paneOpenMobile' = FALSE
  /\ chosen' = {}
  /\ UNCHANGED <<requests, offered, readable>>

OpenPaneMobile ==
  /\ ~paneOpenMobile /\ paneOpenMobile' = TRUE
  /\ UNCHANGED <<entries, viewMode, requests, offered, readable, chosen>>

ClosePaneMobile ==
  /\ paneOpenMobile /\ paneOpenMobile' = FALSE
  /\ UNCHANGED <<entries, viewMode, requests, offered, readable, chosen>>

-------------------------------------------------------------------------------
(* Answers, to whichever request for the call                                  *)

Answered(id) ==
  /\ requests[id] > 0
  /\ requests' = [requests EXCEPT ![id] = requests[id] - 1]
  /\ UNCHANGED <<viewMode, paneOpenMobile, offered, readable, chosen>>

\* Mutant: an answer goes to whatever the pane shows alone.
LoadMutant(id) ==
  /\ Answered(id) /\ id \in readable
  /\ entries' = {IF e.id = id \/ viewMode = "single"
                 THEN [e EXCEPT !.data = id, !.error = FALSE] ELSE e : e \in entries}

\* 200 only for a call that the user reaches.
Load(id) ==
  /\ Answered(id) /\ id \in readable
  /\ entries' = {IF e.id = id THEN [e EXCEPT !.data = id, !.error = FALSE] ELSE e : e \in entries}

\* Mutant: a failure is swallowed.
FailMutant(id) == Answered(id) /\ UNCHANGED entries

\* 404, another status, or no response.
Fail(id) ==
  /\ Answered(id)
  /\ entries' = {IF e.id = id THEN [e EXCEPT !.error = TRUE] ELSE e : e \in entries}

-------------------------------------------------------------------------------
PaneNext ==
  \/ \E id \in Calls : OpenSingle(id) \/ ToggleExpanded(id) \/ Load(id) \/ Fail(id)
  \/ \E ids \in SUBSET Calls : OpenList(ids)
  \/ OpenUncited \/ Clear \/ OpenPaneMobile \/ ClosePaneMobile

SourcesNext ==
  \/ PaneNext
  \/ \E calls, stored \in SUBSET Calls, flag \in BOOLEAN : Offer(calls, flag, stored)

\* Every request is answered: by the server, or by the browser with a failure.
SourcesFairness == \A id \in Calls : WF_sourceVars(Load(id) \/ Fail(id))

SourcesSpec == SourcesInit /\ [][SourcesNext]_sourceVars /\ SourcesFairness

-------------------------------------------------------------------------------
\* Whatever answers arrive late, the pane shows what the user has asked for last, alone
\* if it is one, and an entry holds no envelope but its own call's.
PaneShowsChoice ==
  /\ {e.id : e \in entries} = chosen
  /\ viewMode = "single" => Cardinality(entries) <= 1
  /\ \A e, f \in entries : e.id = f.id => e = f
  /\ \A e \in entries : e.data \in {NoCall, e.id}

\* An entry that has neither its envelope nor an error.
Unsettled(id) == \E e \in entries : e.id = id /\ e.data = NoCall /\ ~e.error

\* A source that was opened does not load forever, also when it is opened, closed and
\* opened again while earlier requests are on their way.
SourceSettles == \A id \in Calls : Unsettled(id) ~> ~Unsettled(id)
===============================================================================
