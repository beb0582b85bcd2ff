------------------------------ MODULE SmokeTest -------------------------------
\* The smoke test that ends a release (docs/playbooks/deploy-and-rollback.md): the
\* release comes to rest with the last version live, a text that the model may write
\* is parsed, grounded, stored and shown, and the sources behind its numbers are
\* opened.  "Verify a citation resolves."
EXTENDS Release, Citations, Sources

CONSTANTS
  Vocabulary,   \* the tokens of a text
  MaxTokens     \* bound on its length

ASSUME SameCalls == Calls = Ids \cup {Unknown}
ASSUME BoundedTexts == MaxTokens \in Nat

VARIABLES
  phase,   \* the release, the answer, the sources
  text     \* what the model has written

vars == <<releaseVars, sourceVars, phase, text>>

TypeOK ==
  /\ ReleaseTypeOK /\ SourcesTypeOK
  /\ phase \in {"release", "answer", "sources"}
  /\ text \in BoundedSeq(Vocabulary, MaxTokens)

Init == ReleaseInit /\ SourcesInit /\ phase = "release" /\ text = <<>>

\* The release is at rest: nothing is migrated or deployed and the last version
\* serves alone.  (The bound of the composition: it is the first that was deployed, in a
\* cluster with the role, and nothing is released from here on.)
Released ==
  /\ revision = LastRevision /\ live = {LastRevision} /\ deployed = live
  /\ deploy.state = "none" /\ deploy.before = {} /\ \A j \in Jobs : job[j].state = "idle"
  /\ Lasting \subseteq schema

ReleaseStep == phase = "release" /\ ReleaseNext /\ UNCHANGED <<sourceVars, phase, text>>

Ask ==
  /\ phase = "release" /\ Released
  /\ \E t \in BoundedSeq(Vocabulary, MaxTokens) : text' = t
  /\ phase' = "answer"
  /\ UNCHANGED <<releaseVars, sourceVars>>

\* The answer is stored with the calls of its turn and shown with its chips.
Show ==
  /\ phase = "answer"
  /\ LET answer == Answer(text)
     IN  Offer({s.id : s \in ToSet(answer.spans)},
               Uncited(answer.text, answer.spans) # {}, Ids)
  /\ phase' = "sources" /\ text' = <<>>
  /\ UNCHANGED releaseVars

SourcesStep == phase = "sources" /\ PaneNext /\ UNCHANGED <<releaseVars, phase, text>>

Next == ReleaseStep \/ Ask \/ Show \/ SourcesStep

Spec == Init /\ [][Next]_vars /\ ReleaseFairness /\ SourcesFairness

-------------------------------------------------------------------------------
\* What the reader sees is the text, each token once, with the one chip that belongs
\* behind each number, in a response and in a briefing that is split after its first
\* sentence alike: whatever markers are repeated, unknown, stacked or left out, and
\* however the offsets shift as markers are removed and inserted.  The texts of which
\* this is not true are exactly those that are Contended.
RenderedAsMarked ==
  LET answer == Answer(text)
      right  == AsMarked(text)
  IN  /\ Contended(text) <=> RenderResponse(answer) # right
      /\ ~Contended(text) => RenderBriefing(answer) = right

\* No number that just one call has returned is left without a chip that covers it, so
\* neither the warning nor the strict retry is due to it, in whatever form it is written
\* but for those that are missing in the index: chat/citations.py:254, which is to "emit
\* every string form `_FINANCIAL_NUMBER_RE` might capture", leaves out Unindexed ones.
GroundedAreCited ==
  LET answer == Answer(text)
  IN  \A k \in DOMAIN answer.text :
        /\ answer.text[k].kind = "number"
        /\ ~Unindexed(answer.text[k].form)
        /\ Cardinality(CallsOf(answer.text[k].form)) = 1
        => \E s \in ToSet(answer.spans) : s.start = HeadAt(k) /\ s.end = EndAt(k)

\* A citation resolves: what can be opened can be read, also if the model made up an id.
CitationsResolve == offered.calls \cup {e.id : e \in entries} \subseteq readable \cup {Flagged}
===============================================================================
