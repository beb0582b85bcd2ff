------------------------------- MODULE Release --------------------------------
\* Deploying, rolling back and migrating: the PRE_DEPLOY job of app.yaml that runs
\* "alembic upgrade head" before new code serves, App Platform's deployments and
\* rollbacks, and the operator's "alembic downgrade" of the playbook.
\*
\* A version of the code is named by the last revision among its migration files.
\* Alembic and PostgreSQL are used by env.py as follows: a run connects, reads
\* alembic_version, and executes the scripts up to its target in ONE transaction,
\* which updates alembic_version after each script from the revision that the run
\* believes the database to be at.  Statements of two runs wait for each other's
\* transaction, and an update that finds another revision fails.
EXTENDS Migrations

CONSTANT Codes   \* the versions of the code that are deployed

ASSUME CodesAssumption == Codes \subseteq 1..LastRevision

VARIABLES
  revision,   \* the committed alembic_version, 0 in an empty database
  schema,     \* the committed schema
  job,        \* the Alembic runs: the deployment's and the operator's
  deploy,     \* the deployment in progress or last ended
  live,       \* the versions that serve requests
  deployed,   \* the versions that App Platform can roll back to
  rolledBack, \* the live version was reached by a rollback
  raced       \* live versions that started while, or after, a downgrade below them was open

releaseVars == <<revision, schema, job, deploy, live, deployed, rolledBack, raced>>

Jobs == {"deploy", "operator"}
Revisions == 0..LastRevision
AllObjects == SchemaOf(LastRevision, Lasting)

\* A run: the revision it read, the one its transaction has reached and the schema
\* the transaction sees, the revision it is to reach.
Closed(state) == [state |-> state, from |-> 0, at |-> 0, to |-> 0, work |-> {}]
JobStates == {"idle", "open", "failed", "broke"}

\* The run has executed a script and holds the locks of its statements.
Holds(j) == job[j].state = "open" /\ job[j].at # job[j].from

\* The deployment is somewhere between its start and its end.
Deploying == deploy.state \in {"migrating", "ready", "rolling"}
DeployStates == {"none", "migrating", "ready", "rolling", "failed"}

ReleaseTypeOK ==
  /\ revision \in Revisions
  /\ schema \subseteq AllObjects
  /\ job \in [Jobs -> [state : JobStates, from : Revisions, at : Revisions,
                       to : Revisions, work : SUBSET AllObjects]]
  /\ deploy \in [state : DeployStates, code : Codes \cup {0},
                 before : SUBSET Codes, raced : BOOLEAN]
  /\ live \subseteq Codes /\ deployed \subseteq Codes /\ raced \subseteq live
  /\ rolledBack \in BOOLEAN

\* An empty database, in a cluster that may know the role already and a user that
\* may be allowed to create it.
ReleaseInit ==
  /\ revision = 0
  /\ schema \in SUBSET {CreateRole, EngineReadonly}
  /\ job = [j \in Jobs |-> Closed("idle")]
  /\ deploy = [state |-> "none", code |-> 0, before |-> {}, raced |-> FALSE]
  /\ live = {} /\ deployed = {} /\ raced = {}
  /\ rolledBack = FALSE

-------------------------------------------------------------------------------
(* Alembic runs                                                                *)

\* A run connects and reads alembic_version.
Open(to) == [state |-> "open", from |-> revision, at |-> revision, to |-> to, work |-> {}]

\* Locks make a script wait while the other run's transaction has executed one.
MayExecute(j) ==
  /\ job[j].state = "open" /\ job[j].at # job[j].to
  /\ \A k \in Jobs \ {j} : ~Holds(k)

\* The transaction sees what is committed, and then its own work.
Sees(j) == IF Holds(j) THEN job[j].work ELSE schema

\* The next script of the chain, and the revision it leads to.
Script(j) == IF job[j].at < job[j].to THEN Upgrades[job[j].at + 1] ELSE Downgrades[job[j].at]
NextRevision(j) == IF job[j].at < job[j].to THEN job[j].at + 1 ELSE job[j].at - 1

\* Mutant: the row of alembic_version is updated whatever it holds.
VersionMatchesMutant(j) == TRUE

\* alembic_version still holds the revision the run read.
VersionMatches(j) == job[j].from = revision

\* Mutant: the failure of the job is not noticed.
EndDeployMutant(j) == deploy' = deploy

\* The deployment whose job fails ends there; the live version goes on serving.
EndDeploy(j) == deploy' = IF j = "deploy" THEN [deploy EXCEPT !.state = "failed"] ELSE deploy

Migrate(j) ==
  /\ MayExecute(j)
  /\ VersionMatches(j)
  /\ LET outcome == Run(Script(j), Sees(j))
     IN  /\ outcome.ok
         /\ job' = [job EXCEPT ![j].at = NextRevision(j), ![j].work = outcome.schema]
  /\ UNCHANGED <<revision, schema, deploy, live, deployed, rolledBack, raced>>

\* Another run has committed since this one read alembic_version, or a statement
\* fails: the transaction is rolled back.
Refuse(j) ==
  /\ MayExecute(j)
  /\ ~(VersionMatches(j) /\ Run(Script(j), Sees(j)).ok)
  /\ job' = [job EXCEPT ![j] = Closed(IF VersionMatches(j) THEN "broke" ELSE "failed")]
  /\ EndDeploy(j)
  /\ UNCHANGED <<revision, schema, live, deployed, rolledBack, raced>>

\* The one transaction of the run commits; a run without a script to execute
\* leaves the database as it is.
Commit(j) ==
  /\ job[j].state = "open" /\ job[j].at = job[j].to
  /\ revision' = IF Holds(j) THEN job[j].to ELSE revision
  /\ schema' = Sees(j)
  /\ job' = [job EXCEPT ![j] = Closed("idle")]
  /\ deploy' = IF j = "deploy" THEN [deploy EXCEPT !.state = "ready"] ELSE deploy
  /\ UNCHANGED <<live, deployed, rolledBack, raced>>

\* Mutant: every statement commits by itself.
CrashMutant(j) ==
  /\ job[j].state = "open"
  /\ schema' = Sees(j)
  /\ job' = [job EXCEPT ![j] = Closed("failed")]
  /\ EndDeploy(j)
  /\ UNCHANGED <<revision, live, deployed, rolledBack, raced>>

\* The process or its connection dies before the commit.
Crash(j) ==
  /\ job[j].state = "open"
  /\ job' = [job EXCEPT ![j] = Closed("failed")]
  /\ EndDeploy(j)
  /\ UNCHANGED <<revision, schema, live, deployed, rolledBack, raced>>

-------------------------------------------------------------------------------
(* Deployments and rollbacks                                                   *)

\* A push or a tag is deployed.  Code without the file of the revision the database
\* is at "Can't locate revision", and its deployment fails.
StartDeploy(c) ==
  /\ ~Deploying
  /\ deploy' = [state  |-> IF revision <= c THEN "migrating" ELSE "failed",
                code   |-> c,
                before |-> live,
                raced  |-> job["operator"].state = "open"]
  /\ job' = [job EXCEPT !["deploy"] = IF revision <= c THEN Open(c) ELSE Closed("failed")]
  /\ UNCHANGED <<revision, schema, live, deployed, rolledBack, raced>>

\* Mutant: the job is started with the new version, not before it.
RollMutant ==
  /\ deploy.state \in {"migrating", "ready"}
  /\ deploy' = [deploy EXCEPT !.state = "rolling"]
  /\ live' = live \cup {deploy.code}
  /\ raced' = IF deploy.raced THEN raced \cup {deploy.code} ELSE raced \ {deploy.code}
  /\ UNCHANGED <<revision, schema, job, deployed, rolledBack>>

\* The job has succeeded: the new version starts beside those that serve.
Roll ==
  /\ deploy.state = "ready"
  /\ deploy' = [deploy EXCEPT !.state = "rolling"]
  /\ live' = live \cup {deploy.code}
  /\ raced' = IF deploy.raced THEN raced \cup {deploy.code} ELSE raced \ {deploy.code}
  /\ UNCHANGED <<revision, schema, job, deployed, rolledBack>>

\* /api/health is green and the old version is stopped.
Retire ==
  /\ deploy.state = "rolling"
  /\ deploy' = [deploy EXCEPT !.state = "none"]
  /\ live' = {deploy.code}
  /\ raced' = raced \cap {deploy.code}
  /\ deployed' = deployed \cup {deploy.code}
  /\ rolledBack' = FALSE
  /\ UNCHANGED <<revision, schema, job>>

\* The new version does not become healthy and is stopped.
GiveUp ==
  /\ deploy.state = "rolling"
  /\ deploy' = [deploy EXCEPT !.state = "failed"]
  /\ live' = deploy.before
  /\ raced' = raced \cap deploy.before
  /\ UNCHANGED <<revision, schema, job, deployed, rolledBack>>

\* An instant rollback to a prior deployment; no job is run.
Rollback(u) ==
  /\ ~Deploying
  /\ u \in deployed /\ \A c \in live : u < c
  /\ live' = {u}
  /\ raced' = IF revision < u \/ (job["operator"].state = "open" /\ job["operator"].to < u)
              THEN {u} ELSE {}
  /\ rolledBack' = TRUE
  /\ UNCHANGED <<revision, schema, job, deploy, deployed>>

\* After a rollback the operator restores the schema of the version that is live.
Downgrade(u) ==
  /\ rolledBack /\ live = {u} /\ u < revision
  /\ job["operator"].state # "open"
  /\ job' = [job EXCEPT !["operator"] = Open(u)]
  /\ deploy' = [deploy EXCEPT !.raced = deploy.raced \/ Deploying]
  /\ UNCHANGED <<revision, schema, live, deployed, rolledBack, raced>>

-------------------------------------------------------------------------------
ReleaseNext ==
  \/ \E j \in Jobs : Migrate(j) \/ Refuse(j) \/ Commit(j) \/ Crash(j)
  \/ \E c \in Codes : StartDeploy(c) \/ Rollback(c) \/ Downgrade(c)
  \/ Roll \/ Retire \/ GiveUp

\* A run goes on: PostgreSQL queues those that wait for a lock, so one that is released
\* again and again is granted (strong fairness).  App Platform finishes what its job
\* has prepared.
ReleaseFairness ==
  /\ \A j \in Jobs : SF_releaseVars(Migrate(j) \/ Refuse(j) \/ Commit(j))
  /\ WF_releaseVars(Roll) /\ WF_releaseVars(Retire \/ GiveUp)

ReleaseSpec == ReleaseInit /\ [][ReleaseNext]_releaseVars /\ ReleaseFairness

-------------------------------------------------------------------------------
\* What is committed is at every moment the schema that the recorded revision
\* stands for, whoever migrates, crashes or is refused meanwhile (one transaction
\* for all scripts, env.py:54-61).
SchemaIsRevision == schema = SchemaOf(revision, schema \cap Lasting)

\* No script ever fails on the schema it finds: each can be executed, up and down
\* again, wherever a crash, a rollback or another run left the database.
ScriptsExecute == \A j \in Jobs : job[j].state # "broke"

\* DEPLOYMENT.md:27, "Schema is up-to-date before any new code starts serving
\* traffic", and it stays so: code that serves finds the tables, keys and columns it
\* relies on, while it is rolled out, after a rollback and after the downgrade.  The
\* exception is code that was deployed, or rolled back to, while a downgrade below
\* its revision was open, or rolled back to after that: the deployment's job reads
\* the revision before the downgrade commits, finds nothing to do, and nothing makes
\* it wait.
CodeFindsItsSchema == \A c \in live \ raced : ReliesOn(c) \subseteq schema

\* A deployment comes to an end, also when an operator migrates at the same time.
DeployEnds == Deploying ~> ~Deploying
===============================================================================
