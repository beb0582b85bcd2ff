--------------------------- MODULE SmokeTestProofs ----------------------------
(***************************************************************************)
(* Theorems about Release, about Sources, and about the SmokeTest that is  *)
(* composed of them and of Citations.                                      *)
(*                                                                         *)
(* Of what the migration scripts do, only that each leads from its         *)
(* revision to the next and back (Reversible) and that the models declare  *)
(* what the migrations make (MappedIsMade) is used; TLC evaluates both.    *)
(* At most one run holds locks, and it believes the database to be where   *)
(* it is: all the rest follows from that.                                  *)
(*                                                                         *)
(* Answers to the pane carry no order: what makes them harmless is that an *)
(* answer changes only the entry of its own call, and that an entry        *)
(* without envelope and error always has a request on its way.             *)
(*                                                                         *)
(* The composition implements both, so it inherits what they are proved to *)
(* promise; what is between them, that every chip resolves, rests on what  *)
(* CitationsProofs shows of the spans of any text.                         *)
(***************************************************************************)
EXTENDS SmokeTest, CitationsProofs, FiniteSetTheorems, TLAPS

-------------------------------------------------------------------------------
(* Release                                                                     *)

Runs == [state : JobStates, from : Revisions, at : Revisions,
         to : Revisions, work : SUBSET AllObjects]
Deploys == [state : DeployStates, code : Codes \cup {0},
            before : SUBSET Codes, raced : BOOLEAN]

\* What a run that holds locks has done, it has done to the committed schema.
HolderInStep(j) ==
  Holds(j) => job[j].from = revision /\ job[j].work \in SchemasOf(job[j].at)

RunInv ==
  /\ revision \in Revisions
  /\ schema \in SchemasOf(revision)
  /\ job \in [Jobs -> Runs]
  /\ \A j \in Jobs : HolderInStep(j) /\ job[j].state # "broke"
  /\ \A j, k \in Jobs : Holds(j) /\ Holds(k) => j = k

\* The database is at, and goes to, no revision below that of version c.
Kept(c) ==
  /\ c <= revision
  /\ job["operator"].state = "open" => c <= job["operator"].to

\* The deployment's job upgrades; unless a downgrade overlaps it, the database stays
\* where the job has found it or put it.
DeployInv ==
  /\ Deploying => deploy.code \in Codes /\ deploy.before \subseteq live
  /\ deploy.state = "rolling" => deploy.code \in live
  /\ deploy.state = "migrating" <=> job["deploy"].state = "open"
  /\ deploy.state = "migrating" => job["deploy"].from <= job["deploy"].to
  /\ Deploying /\ ~deploy.raced =>
       /\ job["operator"].state # "open"
       /\ deploy.state = "migrating" =>
            job["deploy"].to = deploy.code /\ job["deploy"].from = revision
       /\ deploy.state # "migrating" => deploy.code <= revision

LiveInv ==
  /\ deploy \in Deploys
  /\ live \subseteq Codes /\ deployed \subseteq Codes /\ raced \subseteq live
  /\ rolledBack \in BOOLEAN
  /\ DeployInv
  /\ \A c \in live \ raced : Kept(c)

-------------------------------------------------------------------------------
(* Revisions and schemas                                                       *)

\* There are five revisions.
LEMMA RevisionCount == LastRevision = 5
BY DEF LastRevision, Upgrades

\* A schema of a revision has no object beyond those of the last.
LEMMA SchemaBounds ==
  ASSUME NEW r \in Revisions, NEW s \in SchemasOf(r)
  PROVE  s \subseteq AllObjects
<1>1. PICK lasting \in SUBSET Lasting : s = SchemaOf(r, lasting)
  BY DEF SchemasOf
<1>2. Made(r) \subseteq Made(LastRevision)
  <2>1. 1..r \subseteq 1..LastRevision
    BY RevisionCount DEF Revisions
  <2>. QED
    BY <2>1 DEF Made
<1>3. Grants(r, lasting) \subseteq Grants(LastRevision, Lasting)
  BY RevisionCount DEF Grants, Lasting
<1>. QED
  BY <1>1, <1>2, <1>3 DEF SchemaOf, AllObjects

\* Code finds what it relies on in the schema of its revision and of any later one.
LEMMA SchemaServes ==
  ASSUME NEW c \in 1..LastRevision, NEW r \in Revisions, c <= r,
         NEW s \in SchemasOf(r)
  PROVE  ReliesOn(c) \subseteq s
<1>1. ReliesOn(c) \subseteq Made(c)
  BY MappedIsMade DEF ReliesOn
<1>2. Made(c) \subseteq Made(r)
  <2>1. 1..c \subseteq 1..r
    BY RevisionCount DEF Revisions
  <2>. QED
    BY <2>1 DEF Made
<1>3. Made(r) \subseteq s
  BY DEF SchemasOf, SchemaOf
<1>. QED
  BY <1>1, <1>2, <1>3

\* The schema of a revision is determined by what of it lasts.
LEMMA SchemaDetermined ==
  ASSUME NEW r \in Revisions, NEW s \in SchemasOf(r)
  PROVE  s = SchemaOf(r, s \cap Lasting)
<1>1. PICK lasting \in SUBSET Lasting : s = SchemaOf(r, lasting)
  BY DEF SchemasOf
<1>2. Made(r) \cap Lasting = {}
  BY DEF Made
<1>3. \A o \in Lasting : o.kind = "cluster"
  BY DEF Lasting, Extensions, CreateRole, EngineReadonly, Outside, Part
<1>4. \A o \in ReadGrants : o.kind = "grant"
  BY DEF ReadGrants, Part
<1>5. ReadGrants \cap Lasting = {}
  BY <1>3, <1>4
<1>6. Grants(r, lasting) \cap Lasting = {}
  BY <1>5 DEF Grants
<1>7. s \cap Lasting = lasting
  BY <1>1, <1>2, <1>6 DEF SchemaOf
<1>. QED
  BY <1>1, <1>7

\* The next script of a run that is in step executes and leads to the schema of the
\* next revision.
LEMMA ScriptLeads ==
  ASSUME RunInv, NEW j \in Jobs, MayExecute(j), VersionMatches(j)
  PROVE  /\ NextRevision(j) \in Revisions
         /\ Run(Script(j), Sees(j)).ok
         /\ Run(Script(j), Sees(j)).schema \in SchemasOf(NextRevision(j))
<1>1. job[j] \in Runs /\ job[j].state = "open" /\ job[j].at # job[j].to
  BY DEF RunInv, MayExecute
<1>2. Sees(j) \in SchemasOf(job[j].at)
  <2>1. CASE Holds(j)
    BY <2>1 DEF RunInv, HolderInStep, Sees
  <2>2. CASE ~Holds(j)
    BY <1>1, <2>2 DEF RunInv, Holds, Sees, VersionMatches
  <2>. QED
    BY <2>1, <2>2
<1>. DEFINE at == job[j].at
<1>3. CASE at < job[j].to
  <2>1. at + 1 \in 1..LastRevision /\ (at + 1) - 1 = at
    BY <1>1, <1>3, RevisionCount DEF Runs, Revisions
  <2>2. Run(Upgrades[at + 1], Sees(j)).ok
        /\ Run(Upgrades[at + 1], Sees(j)).schema \in SchemasOf(at + 1)
    BY <1>2, <2>1, Reversible
  <2>3. Script(j) = Upgrades[at + 1] /\ NextRevision(j) = at + 1
    BY <1>3 DEF Script, NextRevision
  <2>. QED
    BY <2>1, <2>2, <2>3, RevisionCount DEF Revisions
<1>4. CASE ~(at < job[j].to)
  <2>1. at \in 1..LastRevision
    BY <1>1, <1>4, RevisionCount DEF Runs, Revisions
  <2>2. Run(Downgrades[at], Sees(j)).ok
        /\ Run(Downgrades[at], Sees(j)).schema \in SchemasOf(at - 1)
    BY <1>2, <2>1, Reversible
  <2>3. Script(j) = Downgrades[at] /\ NextRevision(j) = at - 1
    BY <1>4 DEF Script, NextRevision
  <2>. QED
    BY <2>1, <2>2, <2>3, RevisionCount DEF Revisions
<1>. QED
  BY <1>3, <1>4

-------------------------------------------------------------------------------
(* The runs                                                                    *)

\* The empty database satisfies the invariant of the runs.
LEMMA RunInvInit == ReleaseInit => RunInv
<1>. SUFFICES ASSUME ReleaseInit PROVE RunInv
  OBVIOUS
<1>. USE DEF ReleaseInit
<1>1. 0 \in Revisions
  BY RevisionCount DEF Revisions
<1>2. schema \in SchemasOf(0)
  <2>1. schema \in SUBSET Lasting
    BY DEF Lasting
  <2>2. Made(0) = {}
    BY DEF Made
  <2>3. SchemaOf(0, schema) = schema
    BY <2>2 DEF SchemaOf, Grants
  <2>. QED
    BY <2>1, <2>3 DEF SchemasOf
<1>3. Closed("idle") \in Runs
  BY <1>1 DEF Closed, Runs, JobStates
<1>4. \A j \in Jobs : job[j].state = "idle"
  BY DEF Closed
<1>. QED
  BY <1>1, <1>2, <1>3, <1>4 DEF RunInv, HolderInStep, Holds

\* A run that was closed or has only been opened holds nothing.
LEMMA ClosedRuns ==
  /\ \A state \in JobStates : Closed(state) \in Runs /\ Closed(state).state = state
  /\ RunInv => \A to \in Revisions : Open(to) \in Runs
BY RevisionCount DEF Closed, Open, Runs, JobStates, Revisions, RunInv

\* Closing or opening a run, while the database stays, keeps the invariant.
LEMMA RunReplaced ==
  ASSUME RunInv, NEW j \in Jobs, NEW run \in Runs,
         run.state # "broke", ~(run.state = "open" /\ run.at # run.from),
         job' = [job EXCEPT ![j] = run], UNCHANGED <<revision, schema>>
  PROVE  RunInv'
<1>1. job' \in [Jobs -> Runs] /\ job'[j] = run
  BY DEF RunInv
<1>2. \A k \in Jobs \ {j} : job'[k] = job[k]
  BY DEF RunInv
<1>3. ~Holds(j)'
  BY <1>1 DEF Holds
<1>4. \A k \in Jobs \ {j} : Holds(k)' = Holds(k) /\ HolderInStep(k)' = HolderInStep(k)
  BY <1>2 DEF Holds, HolderInStep
<1>. QED
  BY <1>1, <1>2, <1>3, <1>4 DEF RunInv, HolderInStep

\* A script keeps the invariant: nobody else holds locks.
LEMMA MigrateKeepsRunInv ==
  ASSUME RunInv, NEW j \in Jobs, Migrate(j)
  PROVE  RunInv'
<1>1. MayExecute(j) /\ VersionMatches(j)
  BY DEF Migrate
<1>2. /\ NextRevision(j) \in Revisions
      /\ Run(Script(j), Sees(j)).schema \in SchemasOf(NextRevision(j))
  BY <1>1, ScriptLeads
<1>3. Run(Script(j), Sees(j)).schema \in SUBSET AllObjects
  BY <1>2, SchemaBounds
<1>4. job[j] \in Runs /\ job[j].state = "open" /\ \A k \in Jobs \ {j} : ~Holds(k)
  BY <1>1 DEF RunInv, MayExecute
<1>5. job' = [job EXCEPT ![j] = [job[j] EXCEPT !.at = NextRevision(j),
                                               !.work = Run(Script(j), Sees(j)).schema]]
  BY DEF Migrate, RunInv
<1>6. job' \in [Jobs -> Runs]
  BY <1>2, <1>3, <1>4, <1>5 DEF RunInv, Runs
<1>7. /\ job'[j].state = "open" /\ job'[j].from = job[j].from
      /\ job'[j].at = NextRevision(j)
      /\ job'[j].work = Run(Script(j), Sees(j)).schema
  BY <1>4, <1>5 DEF RunInv, Runs
<1>8. \A k \in Jobs \ {j} : job'[k] = job[k]
  BY <1>5 DEF RunInv
<1>9. UNCHANGED <<revision, schema>>
  BY DEF Migrate
<1>10. HolderInStep(j)' /\ job'[j].state # "broke"
  BY <1>1, <1>2, <1>7, <1>9 DEF HolderInStep, VersionMatches
<1>11. \A k \in Jobs \ {j} : ~Holds(k)' /\ HolderInStep(k)' /\ job'[k].state # "broke"
  BY <1>4, <1>8 DEF Holds, HolderInStep, RunInv
<1>. QED
  BY <1>6, <1>9, <1>10, <1>11 DEF RunInv

\* No run breaks: one whose script cannot execute has been outrun.
LEMMA RefuseKeepsRunInv ==
  ASSUME RunInv, NEW j \in Jobs, Refuse(j)
  PROVE  RunInv' /\ job' = [job EXCEPT ![j] = Closed("failed")]
<1>1. ~VersionMatches(j)
  BY ScriptLeads DEF Refuse
<1>2. job' = [job EXCEPT ![j] = Closed("failed")]
  BY <1>1 DEF Refuse
<1>3. "failed" \in JobStates
  BY DEF JobStates
<1>. QED
  BY <1>2, <1>3, ClosedRuns, RunReplaced DEF Refuse

\* A commit publishes the schema of the revision it records; no other run holds locks.
LEMMA CommitKeepsRunInv ==
  ASSUME RunInv, NEW j \in Jobs, Commit(j)
  PROVE  RunInv'
<1>1. job[j] \in Runs /\ job[j].state = "open" /\ job[j].at = job[j].to
  BY DEF Commit, RunInv
<1>2. revision' \in Revisions /\ schema' \in SchemasOf(revision')
  <2>1. CASE Holds(j)
    BY <1>1, <2>1 DEF Commit, RunInv, HolderInStep, Sees, Runs
  <2>2. CASE ~Holds(j)
    BY <2>2 DEF Commit, RunInv, Sees
  <2>. QED
    BY <2>1, <2>2
<1>3. job' = [job EXCEPT ![j] = Closed("idle")] /\ Closed("idle") \in Runs
  BY ClosedRuns DEF Commit, JobStates
<1>4. job' \in [Jobs -> Runs] /\ job'[j] = Closed("idle")
  BY <1>3 DEF RunInv
<1>5. ~Holds(j)' /\ job'[j].state # "broke"
  BY <1>4 DEF Closed, Holds
<1>6. \A k \in Jobs \ {j} : job'[k] = job[k] /\ Holds(k)' = Holds(k)
  BY <1>3 DEF RunInv, Holds
<1>7. \A k \in Jobs \ {j} : HolderInStep(k)'
  <2>. SUFFICES ASSUME NEW k \in Jobs \ {j}, Holds(k)
                PROVE  HolderInStep(k)'
    BY <1>6 DEF HolderInStep
  <2>1. ~Holds(j)
    BY DEF RunInv
  <2>2. revision' = revision
    BY <2>1 DEF Commit
  <2>. QED
    BY <1>6, <2>2 DEF RunInv, HolderInStep
<1>8. \A k, l \in Jobs : Holds(k)' /\ Holds(l)' => k = l
  BY <1>5, <1>6 DEF RunInv
<1>9. \A k \in Jobs : HolderInStep(k)' /\ job'[k].state # "broke"
  BY <1>5, <1>6, <1>7 DEF RunInv, HolderInStep
<1>. QED
  BY <1>2, <1>4, <1>8, <1>9 DEF RunInv

\* The other actions close or open a run, or leave the runs alone.
LEMMA RunInvNext == RunInv /\ [ReleaseNext]_releaseVars => RunInv'
<1>. SUFFICES ASSUME RunInv, [ReleaseNext]_releaseVars PROVE RunInv'
  OBVIOUS
<1>0. CodesAssumption => Codes \subseteq Revisions
  BY RevisionCount DEF CodesAssumption, Revisions
<1>1. CASE UNCHANGED <<revision, schema, job>>
  BY <1>1 DEF RunInv, HolderInStep, Holds
<1>2. ASSUME NEW j \in Jobs, Migrate(j) \/ Refuse(j) \/ Commit(j) PROVE RunInv'
  BY <1>2, MigrateKeepsRunInv, RefuseKeepsRunInv, CommitKeepsRunInv
<1>3. ASSUME NEW j \in Jobs, Crash(j) PROVE RunInv'
  <2>1. "failed" \in JobStates
    BY DEF JobStates
  <2>. QED
    BY <1>3, <2>1, ClosedRuns, RunReplaced DEF Crash
<1>4. ASSUME NEW c \in Codes, StartDeploy(c) PROVE RunInv'
  <2>1. "failed" \in JobStates /\ "deploy" \in Jobs /\ c \in Revisions
    BY <1>0, CodesAssumption DEF JobStates, Jobs
  <2>2. CASE revision <= c
    <3>1. Open(c) \in Runs /\ Open(c).state # "broke" /\ Open(c).at = Open(c).from
      BY <2>1, ClosedRuns DEF Open
    <3>. QED
      BY <1>4, <2>1, <2>2, <3>1, RunReplaced DEF StartDeploy
  <2>3. CASE ~(revision <= c)
    BY <1>4, <2>1, <2>3, ClosedRuns, RunReplaced DEF StartDeploy
  <2>. QED
    BY <2>2, <2>3
<1>5. ASSUME NEW u \in Codes, Downgrade(u) PROVE RunInv'
  <2>1. "operator" \in Jobs /\ u \in Revisions
    BY <1>0, CodesAssumption DEF Jobs
  <2>2. Open(u) \in Runs /\ Open(u).state # "broke" /\ Open(u).at = Open(u).from
    BY <2>1, ClosedRuns DEF Open
  <2>. QED
    BY <1>5, <2>1, <2>2, RunReplaced DEF Downgrade
<1>. QED
  BY <1>1, <1>2, <1>3, <1>4, <1>5
     DEF ReleaseNext, releaseVars, Roll, Retire, GiveUp, Rollback

\* The invariant of the runs holds throughout.
LEMMA RunInvAlways == ReleaseSpec => []RunInv
BY RunInvInit, RunInvNext, PTL DEF ReleaseSpec

\* What is committed is at every moment the schema of the recorded revision.
THEOREM SchemaAlwaysIsRevision == ReleaseSpec => []SchemaIsRevision
<1>1. RunInv => SchemaIsRevision
  BY SchemaDetermined DEF RunInv, SchemaIsRevision
<1>. QED
  BY <1>1, RunInvAlways, PTL

\* No script ever fails on the schema it finds.
THEOREM ScriptsAlwaysExecute == ReleaseSpec => []ScriptsExecute
<1>1. RunInv => ScriptsExecute
  BY DEF RunInv, ScriptsExecute
<1>. QED
  BY <1>1, RunInvAlways, PTL

-------------------------------------------------------------------------------
(* The versions that serve                                                     *)

\* Nothing is deployed in the beginning.
LEMMA LiveInvInit == ReleaseInit => LiveInv
<1>. SUFFICES ASSUME ReleaseInit PROVE LiveInv
  OBVIOUS
<1>1. /\ deploy = [state |-> "none", code |-> 0, before |-> {}, raced |-> FALSE]
      /\ live = {} /\ deployed = {} /\ raced = {} /\ rolledBack = FALSE
      /\ job["deploy"].state = "idle"
  BY DEF ReleaseInit, Closed, Jobs
<1>2. deploy \in Deploys
  BY <1>1 DEF Deploys, DeployStates
<1>3. DeployInv
  BY <1>1 DEF DeployInv, Deploying
<1>. QED
  BY <1>1, <1>2, <1>3 DEF LiveInv

\* Revisions and versions are numbers.
LEMMA Numbers == RunInv => /\ revision \in Nat
                           /\ \A c \in Codes : c \in Revisions /\ c \in Nat
                           /\ \A j \in Jobs : /\ job[j] \in Runs
                                              /\ job[j].from \in Nat /\ job[j].at \in Nat
                                              /\ job[j].to \in Nat
BY RevisionCount, CodesAssumption DEF RunInv, Runs, Revisions

\* A run that goes on, or ends without a commit, takes nothing from live versions.
LEMMA RunKeepsLiveInv ==
  ASSUME RunInv, LiveInv, NEW j \in Jobs, Migrate(j) \/ Refuse(j) \/ Crash(j)
  PROVE  LiveInv'
<1>1. UNCHANGED <<revision, live, deployed, rolledBack, raced>>
  BY DEF Migrate, Refuse, Crash
<1>2. job \in [Jobs -> Runs] /\ "deploy" \in Jobs /\ "operator" \in Jobs
  BY DEF RunInv, Jobs
<1>3. deploy \in Deploys /\ DeployInv
  BY DEF LiveInv
<1>4. CASE Migrate(j)
  <2>1. /\ deploy' = deploy
        /\ \A k \in Jobs : /\ job'[k].state = job[k].state
                           /\ job'[k].from = job[k].from /\ job'[k].to = job[k].to
    BY <1>2, <1>4 DEF Migrate, Runs
  <2>2. DeployInv'
    BY <1>1, <1>2, <1>3, <2>1 DEF DeployInv, Deploying
  <2>3. \A c \in live \ raced : Kept(c)'
    BY <1>1, <1>2, <2>1 DEF LiveInv, Kept
  <2>. QED
    BY <1>1, <2>1, <2>2, <2>3 DEF LiveInv
<1>5. CASE Refuse(j) \/ Crash(j)
  <2>1. /\ job'[j].state = "failed" /\ EndDeploy(j) /\ job[j].state = "open"
        /\ \A k \in Jobs \ {j} : job'[k] = job[k]
    BY <1>2, <1>5, RefuseKeepsRunInv DEF Refuse, Crash, MayExecute, Closed
  <2>2. deploy' \in Deploys
    BY <1>3, <2>1 DEF EndDeploy, Deploys, DeployStates
  <2>3. DeployInv'
    <3>1. CASE j = "deploy"
      <4>1. deploy'.state = "failed"
        BY <1>3, <2>1, <3>1 DEF EndDeploy, Deploys
      <4>. QED
        BY <2>1, <3>1, <4>1 DEF DeployInv, Deploying
    <3>2. CASE j = "operator"
      <4>1. deploy' = deploy /\ job'["deploy"] = job["deploy"]
        BY <1>2, <2>1, <3>2 DEF EndDeploy
      <4>. QED
        BY <1>1, <1>3, <2>1, <3>2, <4>1 DEF DeployInv, Deploying
    <3>. QED
      BY <3>1, <3>2 DEF Jobs
  <2>4. \A c \in live \ raced : Kept(c)'
    BY <1>1, <1>2, <2>1 DEF LiveInv, Kept
  <2>. QED
    BY <1>1, <2>2, <2>3, <2>4 DEF LiveInv
<1>. QED
  BY <1>4, <1>5

\* The deployment's commit raises the revision; the operator's goes no lower than
\* the versions that serve allow.
LEMMA CommitKeepsLiveInv ==
  ASSUME RunInv, LiveInv, NEW j \in Jobs, Commit(j)
  PROVE  LiveInv'
<1>1. UNCHANGED <<live, deployed, rolledBack, raced>>
  BY DEF Commit
<1>2. job \in [Jobs -> Runs] /\ "deploy" \in Jobs /\ "operator" \in Jobs
  BY DEF RunInv, Jobs
<1>3. deploy \in Deploys /\ DeployInv
  BY DEF LiveInv
<1>4. /\ job'[j].state = "idle" /\ job[j].state = "open" /\ job[j].at = job[j].to
      /\ \A k \in Jobs \ {j} : job'[k] = job[k]
      /\ revision' = IF Holds(j) THEN job[j].to ELSE revision
  BY <1>2 DEF Commit, Closed
<1>5. Holds(j) => job[j].from = revision
  BY DEF RunInv, HolderInStep
<1>6. CASE j = "deploy"
  <2>1. deploy.state = "migrating" /\ job[j].from <= job[j].to
    BY <1>3, <1>4, <1>6 DEF DeployInv
  <2>2. deploy' \in Deploys /\ deploy'.state = "ready" /\ deploy'.code = deploy.code
        /\ deploy'.before = deploy.before /\ deploy'.raced = deploy.raced
    BY <1>3, <1>6 DEF Commit, Deploys, DeployStates
  <2>3. revision <= revision'
    BY <1>4, <1>5, <2>1, Numbers
  <2>4. ~deploy.raced => revision' = deploy.code /\ job["operator"].state # "open"
    BY <1>3, <1>4, <1>6, <2>1 DEF DeployInv, Deploying, Holds
  <2>5. DeployInv'
    <3>1. deploy.code \in Codes /\ deploy.before \subseteq live
      BY <1>3, <2>1 DEF DeployInv, Deploying
    <3>2. ~deploy.raced => deploy.code <= revision'
      BY <2>4, <3>1, Numbers
    <3>. QED
      BY <1>1, <1>4, <1>6, <2>2, <2>4, <3>1, <3>2 DEF DeployInv, Deploying, Jobs
  <2>6. \A c \in live \ raced : Kept(c)'
    <3>. SUFFICES ASSUME NEW c \in live \ raced PROVE Kept(c)'
      OBVIOUS
    <3>1. c \in Codes /\ Kept(c)
      BY DEF LiveInv
    <3>2. c <= revision'
      <4>1. revision' \in Nat
        BY <1>2, <1>4, Numbers
      <4>. QED
        BY <2>3, <3>1, <4>1, Numbers DEF Kept
    <3>. QED
      BY <1>4, <1>6, <3>1, <3>2 DEF Kept, Jobs
  <2>. QED
    BY <1>1, <2>2, <2>5, <2>6 DEF LiveInv
<1>7. CASE j = "operator"
  <2>1. deploy' = deploy /\ job'["deploy"] = job["deploy"]
    BY <1>4, <1>7 DEF Commit, Jobs
  <2>2. DeployInv'
    BY <1>1, <1>3, <1>4, <1>7, <2>1 DEF DeployInv, Deploying
  <2>3. \A c \in live \ raced : Kept(c)'
    BY <1>4, <1>7 DEF LiveInv, Kept
  <2>. QED
    BY <1>1, <2>1, <2>2, <2>3 DEF LiveInv
<1>. QED
  BY <1>6, <1>7 DEF Jobs

\* A deployment that starts knows what serves; one that a downgrade does not overlap
\* finds the database at its revision or below.
LEMMA StartKeepsLiveInv ==
  ASSUME RunInv, LiveInv, NEW c \in Codes, StartDeploy(c)
  PROVE  LiveInv'
<1>1. UNCHANGED <<revision, live, deployed, rolledBack, raced>>
  BY DEF StartDeploy
<1>2. job \in [Jobs -> Runs] /\ "deploy" \in Jobs /\ "operator" \in Jobs
  BY DEF RunInv, Jobs
<1>3. /\ deploy'.state = (IF revision <= c THEN "migrating" ELSE "failed")
      /\ deploy'.code = c /\ deploy'.before = live
      /\ deploy'.raced = (job["operator"].state = "open")
  BY DEF StartDeploy
<1>4. deploy' \in Deploys
  BY DEF StartDeploy, Deploys, DeployStates, LiveInv
<1>5. /\ job'["deploy"] = (IF revision <= c THEN Open(c) ELSE Closed("failed"))
      /\ job'["operator"] = job["operator"]
  BY <1>2 DEF StartDeploy
<1>6. revision <= c => /\ job'["deploy"].state = "open"
                       /\ job'["deploy"].from = revision /\ job'["deploy"].to = c
  BY <1>5 DEF Open
<1>7. ~(revision <= c) => job'["deploy"].state = "failed"
  BY <1>5 DEF Closed
<1>8. DeployInv'
  BY <1>1, <1>3, <1>5, <1>6, <1>7 DEF DeployInv, Deploying
<1>9. \A d \in live \ raced : Kept(d)'
  BY <1>1, <1>5 DEF LiveInv, Kept
<1>. QED
  BY <1>1, <1>4, <1>8, <1>9 DEF LiveInv

\* The new version starts on the schema its job has found or made.
LEMMA RollKeepsLiveInv ==
  ASSUME RunInv, LiveInv, Roll \/ Retire \/ GiveUp
  PROVE  LiveInv'
<1>1. UNCHANGED <<revision, job>>
  BY DEF Roll, Retire, GiveUp
<1>2. deploy \in Deploys /\ DeployInv /\ Deploying
  BY DEF LiveInv, Roll, Retire, GiveUp, Deploying
<1>3. deploy.code \in Codes /\ deploy.before \subseteq live /\ job["deploy"].state # "open"
  BY <1>2 DEF DeployInv, Roll, Retire, GiveUp
<1>4. /\ deploy' \in Deploys
      /\ deploy'.code = deploy.code /\ deploy'.before = deploy.before
      /\ deploy'.raced = deploy.raced
      /\ deploy'.state = IF Roll THEN "rolling" ELSE IF Retire THEN "none" ELSE "failed"
  BY <1>2 DEF Deploys, DeployStates, Roll, Retire, GiveUp
<1>5. CASE Roll
  <2>1. deploy.code \in live' /\ live \subseteq live' /\ deploy.state = "ready"
    BY <1>5 DEF Roll
  <2>2. DeployInv'
    BY <1>1, <1>2, <1>3, <1>4, <1>5, <2>1 DEF DeployInv, Deploying
  <2>3. live' \subseteq Codes /\ raced' \subseteq live' /\ UNCHANGED <<deployed, rolledBack>>
    BY <1>3, <1>5 DEF LiveInv, Roll
  <2>4. \A c \in live' \ raced' : Kept(c)'
    <3>. SUFFICES ASSUME NEW c \in live' \ raced' PROVE Kept(c)'
      OBVIOUS
    <3>1. CASE c \in live \ raced
      BY <1>1, <3>1 DEF LiveInv, Kept
    <3>2. CASE c \notin live \ raced
      <4>1. c = deploy.code /\ ~deploy.raced
        BY <1>5, <3>2 DEF Roll
      <4>. QED
        BY <1>1, <1>2, <2>1, <4>1 DEF DeployInv, Kept
    <3>. QED
      BY <3>1, <3>2
  <2>. QED
    BY <1>4, <2>2, <2>3, <2>4 DEF LiveInv
<1>6. CASE Retire \/ GiveUp
  <2>1. live' \subseteq live /\ live' \subseteq Codes /\ raced' = raced \cap live'
    BY <1>2, <1>3, <1>6 DEF LiveInv, Retire, GiveUp, DeployInv
  <2>2. deployed' \subseteq Codes /\ rolledBack' \in BOOLEAN
    BY <1>3, <1>6 DEF LiveInv, Retire, GiveUp
  <2>3. ~Deploying'
    BY <1>6 DEF Retire, GiveUp, Deploying, LiveInv, Deploys
  <2>4. DeployInv'
    BY <1>1, <1>3, <2>3 DEF DeployInv, Deploying
  <2>5. \A c \in live' \ raced' : Kept(c)'
    BY <1>1, <2>1 DEF LiveInv, Kept
  <2>. QED
    BY <1>4, <2>1, <2>2, <2>4, <2>5 DEF LiveInv
<1>. QED
  BY <1>5, <1>6

\* A rollback goes to a version at or below the revision, or is counted as raced.
LEMMA RollbackKeepsLiveInv ==
  ASSUME RunInv, LiveInv, NEW u \in Codes, Rollback(u)
  PROVE  LiveInv'
<1>1. UNCHANGED <<revision, job, deploy, deployed>> /\ ~Deploying
  BY DEF Rollback
<1>2. live' = {u} /\ raced' \subseteq {u} /\ rolledBack' \in BOOLEAN
  BY DEF Rollback
<1>3. deploy' \in Deploys /\ DeployInv'
  BY <1>1 DEF LiveInv, DeployInv, Deploying
<1>4. \A c \in live' \ raced' : Kept(c)'
  <2>. SUFFICES ASSUME NEW c \in live' \ raced' PROVE Kept(c)'
    OBVIOUS
  <2>1. c = u /\ ~(revision < u \/ (job["operator"].state = "open" /\ job["operator"].to < u))
    BY <1>2 DEF Rollback
  <2>2. revision \in Nat /\ u \in Nat /\ job["operator"].to \in Nat
    BY Numbers DEF Jobs
  <2>. QED
    BY <1>1, <2>1, <2>2 DEF Kept
<1>. QED
  BY <1>1, <1>2, <1>3, <1>4 DEF LiveInv

\* A downgrade goes to the version that serves, and marks a deployment it overlaps.
LEMMA DowngradeKeepsLiveInv ==
  ASSUME RunInv, LiveInv, NEW u \in Codes, Downgrade(u)
  PROVE  LiveInv'
<1>1. UNCHANGED <<revision, live, deployed, rolledBack, raced>> /\ live = {u} /\ u < revision
  BY DEF Downgrade
<1>2. job \in [Jobs -> Runs] /\ "deploy" \in Jobs /\ "operator" \in Jobs
  BY DEF RunInv, Jobs
<1>3. job'["operator"] = Open(u) /\ job'["deploy"] = job["deploy"]
  BY <1>2 DEF Downgrade, Jobs
<1>4. deploy \in Deploys /\ DeployInv
  BY DEF LiveInv
<1>5. /\ deploy' = [deploy EXCEPT !.raced = deploy.raced \/ Deploying]
      /\ (deploy.raced \/ Deploying) \in BOOLEAN
  BY <1>4 DEF Downgrade, Deploying, Deploys
<1>6. /\ deploy' \in Deploys
      /\ deploy'.state = deploy.state /\ deploy'.code = deploy.code
      /\ deploy'.before = deploy.before
      /\ Deploying => deploy'.raced
  BY <1>4, <1>5, Zenon DEF Deploys
<1>7. DeployInv'
  BY <1>1, <1>3, <1>4, <1>6 DEF DeployInv, Deploying
<1>8. \A c \in live \ raced : Kept(c)'
  <2>1. revision \in Nat /\ u \in Nat
    BY Numbers
  <2>. QED
    BY <1>1, <1>3, <2>1 DEF Kept, Open
<1>. QED
  BY <1>1, <1>6, <1>7, <1>8 DEF LiveInv

\* Every step keeps what the versions that serve need.
LEMMA LiveInvNext == RunInv /\ LiveInv /\ [ReleaseNext]_releaseVars => LiveInv'
<1>1. ASSUME UNCHANGED releaseVars, LiveInv PROVE LiveInv'
  BY <1>1 DEF releaseVars, LiveInv, DeployInv, Deploying, Kept
<1>. QED
  BY <1>1, RunKeepsLiveInv, CommitKeepsLiveInv, StartKeepsLiveInv, RollKeepsLiveInv,
     RollbackKeepsLiveInv, DowngradeKeepsLiveInv DEF ReleaseNext

\* Both invariants hold throughout.
LEMMA InvAlways == ReleaseSpec => [](RunInv /\ LiveInv)
<1>1. RunInv /\ LiveInv /\ [ReleaseNext]_releaseVars => (RunInv /\ LiveInv)'
  BY RunInvNext, LiveInvNext
<1>. QED
  BY <1>1, RunInvInit, LiveInvInit, PTL DEF ReleaseSpec

\* Code that serves finds what it relies on, unless a downgrade overlapped its start.
THEOREM CodeAlwaysFindsItsSchema == ReleaseSpec => []CodeFindsItsSchema
<1>1. RunInv /\ LiveInv => CodeFindsItsSchema
  <2>. SUFFICES ASSUME RunInv, LiveInv, NEW c \in live \ raced
                PROVE  ReliesOn(c) \subseteq schema
    BY DEF CodeFindsItsSchema
  <2>1. c \in 1..LastRevision /\ c <= revision
    BY CodesAssumption DEF LiveInv, Kept
  <2>. QED
    BY <2>1, SchemaServes DEF RunInv
<1>. QED
  BY <1>1, InvAlways, PTL

\* The variables have their types; the schemas stay among the objects known.
THEOREM ReleaseTypesHold == ReleaseSpec => []ReleaseTypeOK
<1>1. RunInv /\ LiveInv => ReleaseTypeOK
  BY SchemaBounds DEF RunInv, LiveInv, ReleaseTypeOK, Runs, Deploys
<1>. QED
  BY <1>1, InvAlways, PTL

-------------------------------------------------------------------------------
(* Sources                                                                     *)

\* A list has one entry of each call; what is opened alone is alone.
OneOfEach ==
  /\ \A e, f \in entries : e.id = f.id => e = f
  /\ viewMode = "single" => \A e, f \in entries : e = f

Awaited == \A id \in Calls : Unsettled(id) => requests[id] > 0

SourcesInv ==
  /\ SourcesTypeOK
  /\ {e.id : e \in entries} = chosen
  /\ OneOfEach
  /\ \A e \in entries : e.data \in {NoCall, e.id}
  /\ Awaited

-------------------------------------------------------------------------------
\* An entry that is opened has the type of an entry, and nothing in it.
LEMMA EntryType ==
  ASSUME NEW id \in Calls \cup {Flagged}, NEW expanded \in BOOLEAN
  PROVE  /\ Entry(id, expanded) \in Entries
         /\ Entry(id, expanded).id = id /\ Entry(id, expanded).data = NoCall
         /\ Entry(id, expanded).error = FALSE
BY DEF Entry, Entries

\* An answer or a toggle maps the entries one to one, keeping their ids.
LEMMA EntriesMapped ==
  ASSUME SourcesInv, NEW change \in [entries -> Entries],
         \A e \in entries : change[e].id = e.id /\ change[e].data \in {NoCall, e.id},
         entries' = {change[e] : e \in entries}, UNCHANGED <<viewMode, chosen>>
  PROVE  /\ entries' \subseteq Entries
         /\ {e.id : e \in entries'} = chosen'
         /\ OneOfEach'
         /\ \A e \in entries' : e.data \in {NoCall, e.id}
BY DEF SourcesInv, OneOfEach

\* Nothing is shown in the beginning.
LEMMA SourcesInvInit == SourcesInit => SourcesInv
<1>. SUFFICES ASSUME SourcesInit PROVE SourcesInv
  OBVIOUS
<1>1. requests \in [Calls -> 0..MaxRequests]
  BY SourcesAssumption DEF SourcesInit
<1>2. offered \in [calls : SUBSET Calls, flag : BOOLEAN]
  BY DEF SourcesInit
<1>3. SourcesTypeOK
  BY <1>1, <1>2 DEF SourcesInit, SourcesTypeOK
<1>. QED
  BY <1>3 DEF SourcesInit, SourcesInv, OneOfEach, Awaited, Unsettled

\* An opening, of one call or of several, shows entries that await an answer.
LEMMA OpeningKeepsInv ==
  ASSUME SourcesInv, NEW ids \in SUBSET Calls, NEW expanded \in BOOLEAN,
         entries' = {Entry(id, expanded) : id \in ids}, chosen' = ids,
         viewMode' \in {"single", "list"},
         viewMode' = "single" => \A i, k \in ids : i = k,
         Fetch(ids), paneOpenMobile' \in BOOLEAN, UNCHANGED <<offered, readable>>
  PROVE  SourcesInv'
<1>1. \A id \in ids : /\ Entry(id, expanded) \in Entries
                      /\ Entry(id, expanded).id = id /\ Entry(id, expanded).data = NoCall
  BY EntryType
<1>2. requests' \in [Calls -> 0..MaxRequests] /\ \A id \in ids : requests'[id] > 0
  <2>1. \A id \in Calls : requests[id] \in 0..MaxRequests
    BY DEF SourcesInv, SourcesTypeOK
  <2>. QED
    BY <2>1, SourcesAssumption DEF Fetch
<1>3. SourcesTypeOK'
  BY <1>1, <1>2 DEF SourcesInv, SourcesTypeOK
<1>4. OneOfEach' /\ {e.id : e \in entries'} = chosen'
  BY <1>1 DEF OneOfEach
<1>5. Awaited'
  BY <1>1, <1>2 DEF Awaited, Unsettled
<1>. QED
  BY <1>1, <1>3, <1>4, <1>5 DEF SourcesInv

\* The mark of a number without a source shows an entry that awaits nothing.
LEMMA FlagKeepsInv == SourcesInv /\ OpenUncited => SourcesInv'
<1>. SUFFICES ASSUME SourcesInv, OpenUncited PROVE SourcesInv'
  OBVIOUS
<1>1. /\ Entry(Flagged, TRUE) \in Entries
      /\ Entry(Flagged, TRUE).id = Flagged /\ Entry(Flagged, TRUE).data = NoCall
  BY EntryType
<1>2. SourcesTypeOK'
  BY <1>1 DEF SourcesInv, SourcesTypeOK, OpenUncited
<1>3. Awaited'
  BY <1>1, SourcesAssumption DEF OpenUncited, Awaited, Unsettled
<1>. QED
  BY <1>1, <1>2, <1>3 DEF SourcesInv, OpenUncited, OneOfEach

\* An answer settles the entry of its call and leaves the others as they are.
LEMMA AnswerKeepsInv ==
  ASSUME SourcesInv, NEW id \in Calls, Load(id) \/ Fail(id)
  PROVE  SourcesInv'
<1>1. /\ requests[id] > 0 /\ requests' = [requests EXCEPT ![id] = requests[id] - 1]
      /\ UNCHANGED <<viewMode, paneOpenMobile, offered, readable, chosen>>
  BY DEF Load, Fail, Answered
<1>2. requests' \in [Calls -> 0..MaxRequests] /\ \A k \in Calls \ {id} : requests'[k] = requests[k]
  <2>1. requests \in [Calls -> 0..MaxRequests] /\ MaxRequests \in Nat
    BY SourcesAssumption DEF SourcesInv, SourcesTypeOK
  <2>. QED
    BY <1>1, <2>1
<1>3. entries \subseteq Entries /\ \A e \in entries : e.data \in {NoCall, e.id}
  BY DEF SourcesInv, SourcesTypeOK
<1>4. PICK change \in [entries -> Entries] :
        /\ entries' = {change[e] : e \in entries}
        /\ \A e \in entries : /\ change[e].id = e.id /\ change[e].data \in {NoCall, e.id}
                              /\ e.id # id => change[e] = e
                              /\ e.id = id => change[e].data = id \/ change[e].error
  <2>1. CASE Load(id)
    <3>. DEFINE change == [e \in entries |->
           IF e.id = id THEN [e EXCEPT !.data = id, !.error = FALSE] ELSE e]
    <3>1. \A e \in entries : [e EXCEPT !.data = id, !.error = FALSE] \in Entries
      BY <1>3 DEF Entries
    <3>2. \A e \in entries : /\ [e EXCEPT !.data = id, !.error = FALSE].id = e.id
                             /\ [e EXCEPT !.data = id, !.error = FALSE].data = id
      BY <1>3 DEF Entries
    <3>3. change \in [entries -> Entries]
      BY <1>3, <3>1
    <3>4. entries' = {change[e] : e \in entries}
      BY <2>1 DEF Load
    <3>. QED
      BY <1>3, <3>2, <3>3, <3>4
  <2>2. CASE Fail(id)
    <3>. DEFINE change == [e \in entries |->
           IF e.id = id THEN [e EXCEPT !.error = TRUE] ELSE e]
    <3>1. \A e \in entries : [e EXCEPT !.error = TRUE] \in Entries
      BY <1>3 DEF Entries
    <3>2. \A e \in entries : /\ [e EXCEPT !.error = TRUE].id = e.id
                             /\ [e EXCEPT !.error = TRUE].data = e.data
                             /\ [e EXCEPT !.error = TRUE].error
      BY <1>3 DEF Entries
    <3>3. change \in [entries -> Entries]
      BY <1>3, <3>1
    <3>4. entries' = {change[e] : e \in entries}
      BY <2>2 DEF Fail
    <3>. QED
      BY <1>3, <3>2, <3>3, <3>4
  <2>. QED
    BY <2>1, <2>2
<1>5. /\ entries' \subseteq Entries /\ {e.id : e \in entries'} = chosen' /\ OneOfEach'
      /\ \A e \in entries' : e.data \in {NoCall, e.id}
  BY <1>1, <1>4, EntriesMapped
<1>6. SourcesTypeOK'
  BY <1>1, <1>2, <1>5 DEF SourcesInv, SourcesTypeOK
<1>7. Awaited'
  <2>. SUFFICES ASSUME NEW k \in Calls, Unsettled(k)' PROVE requests'[k] > 0
    BY DEF Awaited
  <2>1. PICK e \in entries : change[e].id = k /\ change[e].data = NoCall /\ ~change[e].error
    BY <1>4 DEF Unsettled
  <2>2. k # id
    BY <1>4, <2>1, SourcesAssumption
  <2>3. Unsettled(k)
    BY <1>4, <2>1, <2>2 DEF Unsettled
  <2>. QED
    BY <1>2, <2>2, <2>3 DEF SourcesInv, Awaited
<1>. QED
  BY <1>5, <1>6, <1>7 DEF SourcesInv

\* A toggle changes neither ids nor envelopes nor errors.
LEMMA ToggleKeepsInv ==
  ASSUME SourcesInv, NEW id \in Calls, ToggleExpanded(id)
  PROVE  SourcesInv'
<1>1. entries \subseteq Entries /\ \A e \in entries : e.data \in {NoCall, e.id}
  BY DEF SourcesInv, SourcesTypeOK
<1>. DEFINE change == [e \in entries |->
       IF e.id = id THEN [e EXCEPT !.expanded = ~e.expanded] ELSE e]
<1>2. \A e \in entries : [e EXCEPT !.expanded = ~e.expanded] \in Entries
  BY <1>1, Zenon DEF Entries
<1>3. \A e \in entries : /\ [e EXCEPT !.expanded = ~e.expanded].id = e.id
                         /\ [e EXCEPT !.expanded = ~e.expanded].data = e.data
                         /\ [e EXCEPT !.expanded = ~e.expanded].error = e.error
  BY <1>1 DEF Entries
<1>4. change \in [entries -> Entries]
  BY <1>1, <1>2
<1>5. entries' = {change[e] : e \in entries}
  BY DEF ToggleExpanded
<1>6. UNCHANGED <<viewMode, paneOpenMobile, requests, offered, readable, chosen>>
  BY DEF ToggleExpanded
<1>7. /\ entries' \subseteq Entries /\ {e.id : e \in entries'} = chosen' /\ OneOfEach'
      /\ \A e \in entries' : e.data \in {NoCall, e.id}
  <2>1. \A e \in entries : change[e].id = e.id /\ change[e].data \in {NoCall, e.id}
    BY <1>1, <1>3
  <2>. HIDE DEF change
  <2>. QED
    BY <1>4, <1>5, <1>6, <2>1, EntriesMapped
<1>8. Awaited'
  <2>1. \A e \in entries : /\ change[e].id = e.id /\ change[e].data = e.data
                           /\ change[e].error = e.error
    BY <1>3
  <2>. HIDE DEF change
  <2>2. \A k \in Calls : Unsettled(k)' => Unsettled(k)
    BY <1>5, <2>1 DEF Unsettled
  <2>. QED
    BY <1>6, <2>2 DEF SourcesInv, Awaited
<1>. QED
  BY <1>6, <1>7, <1>8 DEF SourcesInv, SourcesTypeOK

\* Every step keeps the invariant.
LEMMA SourcesInvNext == SourcesInv /\ [SourcesNext]_sourceVars => SourcesInv'
<1>. SUFFICES ASSUME SourcesInv, [SourcesNext]_sourceVars PROVE SourcesInv'
  OBVIOUS
<1>1. ASSUME UNCHANGED <<entries, viewMode, requests, chosen>>,
             SourcesTypeOK'
      PROVE  SourcesInv'
  BY <1>1 DEF SourcesInv, OneOfEach, Awaited, Unsettled
<1>2. ASSUME NEW id \in Calls, OpenSingle(id) PROVE SourcesInv'
  <2>1. CASE ShowsAlone(id)
    <3>1. UNCHANGED <<entries, viewMode, requests, offered, readable>>
          /\ chosen' = {id} /\ paneOpenMobile' = TRUE
      BY <1>2, <2>1 DEF OpenSingle
    <3>2. {e.id : e \in entries} = {id}
      BY <2>1 DEF SourcesInv, OneOfEach, ShowsAlone
    <3>. QED
      BY <3>1, <3>2 DEF SourcesInv, SourcesTypeOK, OneOfEach, Awaited, Unsettled
  <2>2. CASE ~ShowsAlone(id)
    <3>1. /\ entries' = {Entry(i, TRUE) : i \in {id}} /\ chosen' = {id}
          /\ viewMode' = "single" /\ Fetch({id}) /\ paneOpenMobile' = TRUE
          /\ UNCHANGED <<offered, readable>>
      BY <1>2, <2>2 DEF OpenSingle
    <3>. QED
      BY <3>1, OpeningKeepsInv
  <2>. QED
    BY <2>1, <2>2
<1>3. ASSUME NEW ids \in SUBSET Calls, OpenList(ids) PROVE SourcesInv'
  BY <1>3, OpeningKeepsInv DEF OpenList
<1>4. CASE Clear
  BY <1>4 DEF Clear, SourcesInv, SourcesTypeOK, OneOfEach, Awaited, Unsettled
<1>5. CASE OpenPaneMobile \/ ClosePaneMobile
  BY <1>1, <1>5 DEF OpenPaneMobile, ClosePaneMobile, SourcesInv, SourcesTypeOK
<1>6. ASSUME NEW calls \in SUBSET Calls, NEW stored \in SUBSET Calls, NEW flag \in BOOLEAN,
             Offer(calls, flag, stored)
      PROVE  SourcesInv'
  <2>1. offered' \in [calls : SUBSET Calls, flag : BOOLEAN]
    <3>1. offered.calls \cup calls \in SUBSET Calls
      BY DEF SourcesInv, SourcesTypeOK
    <3>2. (offered.flag \/ flag) \in BOOLEAN
      OBVIOUS
    <3>. QED
      BY <1>6, <3>1, <3>2, Zenon DEF Offer
  <2>. QED
    BY <1>1, <1>6, <2>1 DEF Offer, SourcesInv, SourcesTypeOK
<1>7. CASE UNCHANGED sourceVars
  BY <1>1, <1>7 DEF sourceVars, SourcesInv, SourcesTypeOK
<1>. QED
  BY <1>2, <1>3, <1>4, <1>5, <1>6, <1>7, FlagKeepsInv, AnswerKeepsInv, ToggleKeepsInv
     DEF SourcesNext, PaneNext

\* The invariant holds throughout.
LEMMA SourcesInvAlways == SourcesSpec => []SourcesInv
BY SourcesInvInit, SourcesInvNext, PTL DEF SourcesSpec

\* Whatever answers arrive late, the pane shows what was asked for last.
THEOREM PaneAlwaysShowsChoice == SourcesSpec => []PaneShowsChoice
<1>1. SourcesInv => PaneShowsChoice
  <2>. SUFFICES ASSUME SourcesInv PROVE PaneShowsChoice
    OBVIOUS
  <2>1. ASSUME viewMode = "single" PROVE Cardinality(entries) <= 1
    <3>1. CASE entries = {}
      BY <3>1, FS_EmptySet
    <3>2. CASE entries # {}
      <4>1. PICK e : entries = {e}
        BY <2>1, <3>2 DEF SourcesInv, OneOfEach
      <4>. QED
        BY <4>1, FS_Singleton
    <3>. QED
      BY <3>1, <3>2
  <2>. QED
    BY <2>1 DEF SourcesInv, OneOfEach, PaneShowsChoice
<1>. QED
  BY <1>1, SourcesInvAlways, PTL

\* The variables have their types; no request is counted below none or above the bound.
THEOREM SourcesTypesHold == SourcesSpec => []SourcesTypeOK
BY SourcesInvAlways, PTL DEF SourcesInv

\* An entry without envelope and error has a request on its way: what SourceSettles
\* needs besides the answers.
THEOREM UnsettledIsAwaited == SourcesSpec => []Awaited
BY SourcesInvAlways, PTL DEF SourcesInv

-------------------------------------------------------------------------------
(* The smoke test                                                              *)

\* What is offered and what was chosen can be read, or is the flag.
Resolves ==
  /\ offered.calls \subseteq readable
  /\ chosen \subseteq readable \cup {Flagged}

Inv ==
  /\ RunInv /\ LiveInv /\ SourcesInv /\ Resolves
  /\ phase \in {"release", "answer", "sources"}
  /\ text \in BoundedSeq(Vocabulary, MaxTokens)

\* A text that is written is a sequence of tokens.
LEMMA Texts ==
  /\ <<>> \in BoundedSeq(Vocabulary, MaxTokens)
  /\ BoundedSeq(Vocabulary, MaxTokens) \subseteq Seq(Vocabulary)
<1>1. <<>> \in [1..0 -> Vocabulary] /\ 0 \in 0..MaxTokens
  BY BoundedTexts
<1>. QED
  BY <1>1, BoundedTexts DEF BoundedSeq, SeqOf

\* The chips of an answer are of calls of its turn.
LEMMA ShowOffers ==
  ASSUME text \in BoundedSeq(Vocabulary, MaxTokens), Show
  PROVE  \E calls \in SUBSET Ids, flag \in BOOLEAN : Offer(calls, flag, Ids)
<1>. DEFINE calls == {s.id : s \in ToSet(Answer(text).spans)}
            flag == Uncited(Answer(text).text, Answer(text).spans) # {}
<1>1. text \in Seq(Vocabulary)
  BY Texts
<1>2. AreSpans(Answer(text).spans)
  BY <1>1, StoredAnswer
<1>3. calls \in SUBSET Ids
  BY <1>2 DEF AreSpans, IsSpan, ToSet
<1>4. flag \in BOOLEAN
  OBVIOUS
<1>5. Offer(calls, flag, Ids)
  BY DEF Show
<1>. HIDE DEF calls, flag
<1>. QED
  BY <1>3, <1>4, <1>5

\* A step of the composition is a step of each part, or leaves it as it is.
LEMMA StepsOfParts ==
  ASSUME text \in BoundedSeq(Vocabulary, MaxTokens), [Next]_vars
  PROVE  [ReleaseNext]_releaseVars /\ [SourcesNext]_sourceVars
<1>1. CASE Show
  <2>1. PICK calls \in SUBSET Ids, flag \in BOOLEAN : Offer(calls, flag, Ids)
    BY <1>1, ShowOffers
  <2>2. calls \in SUBSET Calls /\ Ids \in SUBSET Calls
    BY SameCalls
  <2>3. SourcesNext
    BY <2>1, <2>2 DEF SourcesNext
  <2>. QED
    BY <1>1, <2>3 DEF Show
<1>2. CASE ReleaseStep
  BY <1>2 DEF ReleaseStep
<1>3. CASE SourcesStep
  BY <1>3 DEF SourcesStep, SourcesNext
<1>4. CASE Ask
  BY <1>4 DEF Ask
<1>5. CASE UNCHANGED vars
  BY <1>5 DEF vars
<1>. QED
  BY <1>1, <1>2, <1>3, <1>4, <1>5 DEF Next

\* The invariants of the parts hold in the beginning.
LEMMA SmokeInvInit == Init => Inv
<1>. SUFFICES ASSUME Init PROVE Inv
  OBVIOUS
<1>1. RunInv /\ LiveInv /\ SourcesInv
  BY RunInvInit, LiveInvInit, SourcesInvInit DEF Init
<1>2. Resolves
  BY DEF Init, SourcesInit, Resolves
<1>. QED
  BY <1>1, <1>2, Texts DEF Init, Inv

\* Nothing is chosen in the pane but what is offered or can be read already.
LEMMA PaneResolves ==
  ASSUME SourcesInv, Resolves, PaneNext
  PROVE  Resolves'
<1>1. UNCHANGED <<offered, readable>>
  BY DEF PaneNext, OpenSingle, OpenUncited, OpenList, ToggleExpanded, Clear, OpenPaneMobile,
         ClosePaneMobile, Load, Fail, Answered
<1>2. chosen' \subseteq readable \cup {Flagged}
  <2>1. ASSUME NEW id \in Calls, OpenSingle(id) PROVE chosen' \subseteq readable \cup {Flagged}
    BY <2>1 DEF OpenSingle, Resolves
  <2>2. ASSUME NEW ids \in SUBSET Calls, OpenList(ids) PROVE chosen' \subseteq readable \cup {Flagged}
    BY <2>2 DEF OpenList, Resolves
  <2>3. CASE OpenUncited
    BY <2>3 DEF OpenUncited
  <2>4. CASE Clear
    BY <2>4 DEF Clear, Resolves
  <2>5. CASE UNCHANGED chosen
    BY <2>5 DEF Resolves
  <2>. QED
    BY <2>1, <2>2, <2>3, <2>4, <2>5
       DEF PaneNext, ToggleExpanded, Load, Fail, Answered, OpenPaneMobile, ClosePaneMobile
<1>. QED
  BY <1>1, <1>2 DEF Resolves

\* Every step of the composition keeps the invariants of all parts.
LEMMA SmokeInvNext == Inv /\ [Next]_vars => Inv'
<1>. SUFFICES ASSUME Inv, [Next]_vars PROVE Inv'
  OBVIOUS
<1>1. [ReleaseNext]_releaseVars /\ [SourcesNext]_sourceVars
  BY StepsOfParts DEF Inv
<1>2. RunInv' /\ LiveInv' /\ SourcesInv'
  BY <1>1, RunInvNext, LiveInvNext, SourcesInvNext DEF Inv
<1>3. Resolves'
  <2>1. CASE Show
    BY <2>1, ShowOffers DEF Offer, Inv, Resolves, SourcesInv, SourcesTypeOK
  <2>2. CASE SourcesStep
    BY <2>2, PaneResolves DEF SourcesStep, Inv
  <2>3. CASE UNCHANGED sourceVars
    BY <2>3 DEF sourceVars, Inv, Resolves
  <2>. QED
    BY <2>1, <2>2, <2>3 DEF Next, ReleaseStep, Ask, vars
<1>4. phase' \in {"release", "answer", "sources"} /\ text' \in BoundedSeq(Vocabulary, MaxTokens)
  BY Texts DEF Inv, Next, ReleaseStep, Ask, Show, SourcesStep, vars
<1>. QED
  BY <1>2, <1>3, <1>4 DEF Inv

\* So they hold throughout.
LEMMA SmokeInvAlways == Spec => []Inv
BY SmokeInvInit, SmokeInvNext, PTL DEF Spec

\* The releases of a smoke test are those of Release: serving answers and sources
\* beside them changes nothing of them.
THEOREM ImplementsRelease == Spec => ReleaseSpec
<1>1. Init => ReleaseInit
  BY DEF Init
<1>2. Inv /\ [Next]_vars => [ReleaseNext]_releaseVars
  BY StepsOfParts DEF Inv
<1>. QED
  BY <1>1, <1>2, SmokeInvAlways, PTL DEF Spec, ReleaseSpec

\* The pane of a smoke test is that of Sources: an answer offers it calls that the
\* ledger has, whatever the model wrote (chat/citations.py drops the ids it made up).
THEOREM ImplementsSources == Spec => SourcesSpec
<1>1. Init => SourcesInit
  BY DEF Init
<1>2. Inv /\ [Next]_vars => [SourcesNext]_sourceVars
  BY StepsOfParts DEF Inv
<1>. QED
  BY <1>1, <1>2, SmokeInvAlways, PTL DEF Spec, SourcesSpec

\* So what Release and Sources promise is true of the composition, whose run checks it.
THEOREM PartsKeepPromises ==
  Spec => [](SchemaIsRevision /\ ScriptsExecute /\ CodeFindsItsSchema /\ PaneShowsChoice)
BY ImplementsRelease, ImplementsSources, SchemaAlwaysIsRevision, ScriptsAlwaysExecute,
   CodeAlwaysFindsItsSchema, PaneAlwaysShowsChoice, PTL

\* All variables have their types, in any deployment and for any vocabulary.
THEOREM TypesHold == Spec => []TypeOK
<1>1. Inv => phase \in {"release", "answer", "sources"} /\ text \in BoundedSeq(Vocabulary, MaxTokens)
  BY DEF Inv
<1>2. [](ReleaseTypeOK /\ SourcesTypeOK
         /\ phase \in {"release", "answer", "sources"}
         /\ text \in BoundedSeq(Vocabulary, MaxTokens)) => []TypeOK
  BY PTL DEF TypeOK
<1>. QED
  BY <1>1, <1>2, SmokeInvAlways, ImplementsRelease, ImplementsSources, ReleaseTypesHold,
     SourcesTypesHold, PTL

\* A citation resolves: whatever markers the model writes, chips and entries of the pane
\* are of calls that GET /engine_calls/{id} serves to the user, or flag a number.
THEOREM CitationsAlwaysResolve == Spec => []CitationsResolve
<1>1. Inv => CitationsResolve
  BY DEF Inv, Resolves, SourcesInv, CitationsResolve
<1>. QED
  BY <1>1, SmokeInvAlways, PTL

\* No number that just one call has returned is left without its chip, in any form that
\* the pattern finds but the Unindexed ones, in any text over any vocabulary and for any
\* values the calls have returned.
THEOREM GroundedAreAlwaysCited == Spec => []GroundedAreCited
<1>1. Inv => GroundedAreCited
  <2>. SUFFICES ASSUME text \in BoundedSeq(Vocabulary, MaxTokens) PROVE GroundedAreCited
    BY DEF Inv
  <2>1. text \in Seq(Vocabulary)
    BY Texts
  <2>. QED
    BY <2>1, StoredAnswer DEF GroundedAreCited, Spanned
<1>. QED
  BY <1>1, SmokeInvAlways, PTL

\* What the reader sees is what the model meant, in an answer and in a briefing, for any
\* text over any vocabulary: of the texts the two renderers are given, just those that are
\* contended are shown otherwise.
THEOREM RenderedAlwaysAsMarked == Spec => []RenderedAsMarked
<1>1. Inv => RenderedAsMarked
  <2>. SUFFICES ASSUME text \in BoundedSeq(Vocabulary, MaxTokens) PROVE RenderedAsMarked
    BY DEF Inv
  <2>1. text \in Seq(Vocabulary)
    BY Texts
  <2>. QED
    BY <2>1, AnswerDrawn DEF RenderedAsMarked
<1>. QED
  BY <1>1, SmokeInvAlways, PTL
===============================================================================
