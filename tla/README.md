# Velvic Monitor: formal models

TLA+ models of the Velvic Monitor, an investor relations workspace: a FastAPI
backend with a chat orchestrator and a deterministic numbers engine over
PostgreSQL, a Celery pipeline that crawls, curates and narrates, and a React
frontend.  The models are read against the code: every definition names the
lines it stands for in `PROJECT.json` ("map").

The system's promise (docs/ARCHITECTURE.md:30-33) is that every number a reader
sees is the result of an engine call, persisted under an id that the text
cites.  Most of the properties here are about what becomes of that promise when
turns, tasks and ingestions run side by side and fail half way.

Run anything from this directory:

    tlasany EngineLedger.tla
    tlc -workers 2 -config MCEngineLedger.cfg MCEngineLedger.tla
    tlapm EngineLedgerProofs.tla

## The system

| Component | State it keeps | Operations | Talks to |
|---|---|---|---|
| Engine ledger and tool wrapper (`engine/registry.py`, `ledger.py`, `envelope.py`) | `engine_call` rows, keyed by a hash of tool and parameters | `wrapper` (look up, compute, persist, persist_error) | called by the chat tools, the briefing tasks and the routers, on their session |
| Engine tools (`engine/drivers/`, `engine/adhoc_query.py`) | none; `daily_attribution` by upsert | nine typed queries and an ad-hoc query | read Tier 2 and Tier 3 |
| Chat orchestrator (`chat/orchestrator.py` and its helpers) | `chat_thread`, `chat_turn`, `chat_engine_call`, `llm_call_log` | `process_turn`: gate, history, tool rounds, strict retry, store, title, commit | the language model, the tools, the client by server-sent events |
| Tool dispatch, hooks (`chat/tools.py`, `sdk_mcp.py`, `sdk_hooks.py`) | ids of the calls of a turn | dispatch, collect ids | wrapper |
| Citations (`chat/citations.py`, `frontend/src/conversation/citationRenderer.tsx`) | none | parse markers, find bare numerals, auto-ground; render text and chips | used by chat and briefings, and by their cards |
| Briefing composer (`engine/drivers/briefing.py`, `attribution.py`) | `briefing_card`, `daily_attribution` | `compute_attribution`, `build_fact_pack`, `generate_briefing` | wrapper, language model |
| Pipeline (`pipeline/`) | messages in Redis | crawl, ingest and briefing tasks, beat schedule | crawlers, ingestion, composer |
| Crawlers, Tier 1 (`crawlers/`) | one raw table per source, `crawl_run` | `crawl`: fetch, parse, `upsert_raw` | upstream sources |
| Ingestion, Tier 2 (`ingestion/`) | `price_bar`, `macro_observation`, `news_item` | promote recent raw rows | reads Tier 1 |
| HTTP routers, authentication, tenancy (`api/`, `auth/`, `tenancy/`) | users, organisations, sessions | one-transaction reads and writes; `post_turn` opens a stream | orchestrator |
| Conversation pane (`frontend/src/conversation/`, `state/threads.ts`) | messages, the stream, the active thread | send, create thread, event loop, switch | chat router |
| Artifact pane (`frontend/src/state/artifacts.ts`) | cards and their envelopes | open, list, expand, clear | engine call router |
| Migrations and deployment (`backend/alembic/`, `app.yaml`, the deploy playbook) | the schema and its revision, the versions that serve | upgrade before a deployment, roll out, roll back, downgrade | everything that has a table |
| Administration, core services, design system, evals | - | one-shot commands, settings, presentation | - |

Interactions go through two things only: rows of PostgreSQL at READ COMMITTED,
and messages (HTTP, server-sent events, Celery).  There is no lock in the code;
what serialises two actors is a unique key or a row lock, held until the
transaction of the one that wrote first ends.  A chat turn holds its
transaction across all calls of the language model, and a failed flush makes an
`AsyncSession` unusable until it is rolled back.  These two facts are behind
most of the hard behaviour:

- the wrapper looks into the ledger, computes, looks again and inserts, in
  separate steps, next to other sessions that do the same with the same id;
- two turns on one thread number their rows from the same count;
- an exception that is caught and logged does not bring the transaction back;
- the ledger is consulted before anything is computed, so data is as old as the
  first time anyone asked, while ingestion goes on;
- Celery delivers late-acknowledged messages again, next to chat turns and to
  each other;
- clients go away between any two events;
- Alembic takes no lock of its own, and a deployment and an operator may both run
  it, while code of two versions serves.

`PROJECT.json` lists each of these under "hazards" with its line and the
properties that cover it.

## The modules

| Module | What it is |
|---|---|
| `LedgerStore` | what the ledger promises a reader: a store written once per id |
| `EngineLedger` | wrapper and ledger, step by step, by concurrent sessions |
| `EngineLedgerProofs` | theorems about `EngineLedger`, among them that it implements `LedgerStore` |
| `ThreadLog` | what a thread promises a reader: whole, numbered exchanges |
| `ChatThread` | the turns of one thread, `_drive_turn` statement by statement |
| `ChatThreadProofs` | theorems about `ChatThread`, among them that it implements `ThreadLog` |
| `Briefings` | the briefing tasks and the chat turns of one company and date |
| `BriefingsProofs` | theorems about `Briefings`, among them that it implements `LedgerStore` too |
| `Tiers` | one series from the upstream through Tier 1 to Tier 2 |
| `TiersProofs` | theorems about `Tiers` |
| `NewsDedup` | press releases of several sources on their way to one news item |
| `NewsDedupProofs` | theorems about `NewsDedup` |
| `Conversation` | the messages a user sends from the conversation pane, and the card their answers go to |
| `ConversationProofs` | theorems about `Conversation` |
| `Migrations` | the five revisions as scripts of statements on a schema, and the schema the ORM models rely on |
| `Release` | Alembic runs, deployments, rollbacks and downgrades |
| `Citations` | markers, numbers, the grounder and the renderer, as operators on texts |
| `CitationsProofs` | what these operators compute, for every text: what is stored of it, and what is drawn |
| `Sources` | the artifact pane and its requests |
| `SmokeTest` | composes `Release`, `Citations` and `Sources`, as the playbook's smoke test does |
| `SmokeTestProofs` | theorems about `Release` and `Sources`, and about their composition, which implements both |
| `MC*` | constants for TLC, with one `.cfg` per question |

### EngineLedger

A session is a transaction (`txn`), the rows it has inserted (`pending`) and
its frame in `registry.wrapper` (`pc`, `call`, `value`), in a process of a
release (`CodeOf`).  `InvokeHit` and `InvokeMiss` are lines 89-118, `ComputeOk` and `ComputeRaises` the tool's
function, `PersistFindsRow` and `PersistFindsNone` the lookup of
`ledger.persist`, `Insert` its flush.  `RecordError` is `persist_error`, which
the wrapper calls on the same session, so after a failed flush it cannot
succeed (`InsertConflict`, `ComputeFails`, `RecordConflict`).  An insert waits
for another transaction's row of the same id; `DeadlockVictim` is PostgreSQL's
detector.  `Cancel` is the client that goes away.  What a tool computes is the
version of the curated tables (`source`): two values are equal exactly when
nothing was ingested in between, which is all the properties tell apart.

A hit is a conversion.  The ids in `Typed` are of tools with a `returns_model`.  It
reads the stored result back (`HitTyped`) if the session's release can read what the
row's release wrote (`shape`, `Converts`); otherwise `model_validate` raises, outside
the `try`, so that nothing is recorded and the transaction goes on (`HitRefused`).  A
tool without one (`ad_hoc_query`) has its dict put into a bare `BaseModel`, and the
caller is told nothing (`HitUntyped`, `Blank`).  `Reads` says which release reads
which: each is assumed to read its own rows, which is the round trip of its own models
through JSON.  Ids name the tool and its parameters but not the release
(`envelope.hash_call_id`), so rows of an earlier release are met after every
deployment, and by both releases while one is rolled out; the releases of the repository
so far have one set of models, so that `HitRefused` is about a next one.

### ChatThread

Each turn has its transaction's rows (`pending`), the index it read (`idx`),
its history (`context`), the ids its hook collected (`ids`) and a position in
`_drive_turn` (`pc`).  `valid` are the ids a draft is checked against (`valid_ids`,
fixed when the first draft is there), `retryIds` the separate collection of the strict
retry; `Linked` makes the links of a stored answer from `ids`, at the very end.  The language model may produce any draft: `cites` are
the calls its numbers are grounded on, `bare` says that a number has no ground.
Refusals, the strict retry, the warning, the title and the log rows of every
call of the model are there.  `dead` records why a session became unusable: a
failed log row (`RecordCall`, which swallows the exception) or a failed
statement of a tool; the turn finds out at its next statement (`FindDead`).

The strict retry is run with an empty `allowed_tools`, but with the engine's server
attached and `permission_mode="bypassPermissions"` (orchestrator.py:398-427), so
whether the SDK lets a call through is not for this code to say.  `RetryRound` is such
a call: it uses, and may break, the turn's session, and its id goes to `retryIds` only.
`Lose` is the end of a turn's session without a commit; that the session of a streaming
response is closed, and when, is the web framework's doing.

The history limit counts the turn's own row, as the code does: of
`HISTORY_LIMIT` rows, one fewer is from the past.

### Briefings

The rows that matter for one company and date are the attribution, the card and
the two ledger rows the card cites.  A task is `compute_attribution` (`Price`,
`SelectDaily`, `Attribute`), `build_fact_pack` (`Pack`) and the upsert of the
card (`SelectCard`, `File`), all in one transaction.  A tool call is two steps,
`Invoke` (nothing found, compute) and the step that uses its result (`Return`:
persist, or keep the row that came first); `EngineLedger` has the finer steps.
The other five tools of the pack behave like `get_price_move` does there and are
left out.  `Fail` is any exception; the message is then acknowledged, since no
task calls `retry()`.  `Crash` puts the message back, before or after the
commit.

`outrun` is a history variable: the tools of which some call returned other data
than the row kept under its id, because that row was committed between its
lookup and its `persist` (engine/ledger.py:25-27).  `curated` remembers which
running tasks were delivered when the date's bar was there.

### Tiers

A value is the version the upstream publishes, and is always there: observations that
the source publishes without a value (FRED's `.`) are stored in Tier 1 and skipped by
the ingestion (macro.py:96,122), so a value that is revised to none stays in Tier 2 as
it was, and nothing is claimed of it.  `keeps` chooses between the two
kinds of `upsert_raw`: Yahoo's inserts or skips, those of FRED, SCB and the
Riksbank rewrite the value in place and leave `fetched_at` alone.  Ingestion
reads rows by `fetched_at` and upserts, with its lookup and its commit apart.
`steady`, `owed` and `missed` are history: which changes an ingestion should
have carried over.  Not modelled: bars without a close (skipped by the
ingestion), the mapping of series to codes, several raw rows for one curated
row (SCB's dimensions).

### NewsDedup

Raw rows have a source and a group (company, calendar day, hash of the
normalised title).  `Gather` is `_gather_candidates`, `Select` groups and sorts
the candidates and looks up the item of each canonical row, `Store` is the flush
and the commit.  Rows of one source are in no defined order, so any of the best
may be canonical.  The hash and the day's key are constants (`GroupOf`): two
rows of one release that are published on both sides of midnight are two groups,
as in the code.

### Conversation

One `sendMessage` per message: `SubmitHere` and `SubmitNew` are the composer's
`submit` up to the first await, on the active thread or to create one; `Created`
and `CreateFails` are the answer to the creation, `Post` the end of the refetch
of the thread list that follows it, `Open`, `Event`, `Done` and `Drop` the
request and its loop over the events, `Settle` the end of `finally`.  `card`
stands for `streaming`, `pendingUser` and `streamingThreadId`, and for nothing
when `streaming` is null, which is when the composer is enabled; `card.from` are
the sends whose events it holds.  Around them the user types, activates a thread
or none (`Activate`), says `/new` (`NewChat`), or leaves for the settings and
comes back (`Leave`).  The draft and the active thread are global stores and
survive that; the card is state of the component and does not, and a request of
a pane that is gone (not in `attached`) changes neither the old card nor the new
one, but still restores the draft and sets the active thread.

The server is `ChatThread` from outside: a turn is stored before its `done`, or
is lost and breaks the connection (`Serve`).  The response may also break when
the turn is stored all the same.  `doubled` and `dropped` are history: the sends
that were submitted while a thread was being created for another, with that
other, and those that joined them while they were on their way; and the texts
that something else replaced in the draft.  Left out are the
notice of a failed send, the help dialog, and the query client with the turns it
has cached: an await of an invalidation ends sooner or later, and what it
brings is not followed.

### Migrations and Release

A schema is a set of objects: tables, keys, indexes, views, row policies, row
security, grants, and the column that 0004 adds.  An object knows the table or
view it disappears with and the tables its definition mentions.  A revision is two
sequences of statements, one per `op.` call, in the order of the file;
`Executes` is when PostgreSQL accepts a statement (names are new or known, nothing
that stays mentions what is dropped) and `Run` the whole script.  The two `DO`
blocks of 0002 run by whether the role exists and may be created, so what the
cluster held before is part of the initial state.  Two assumptions are evaluated by
TLC over all revisions and all clusters: `Reversible`
(docs/ENGINEERING_STANDARDS.md:58), and `MappedIsMade`, that every table, foreign
key and unique key which the ORM models declare is made by the migrations.

`Release` names a version of the code by its last revision.  `alembic upgrade`
and `downgrade` are one transaction for all their scripts (env.py:55; Alembic's
`transaction_per_migration` is not set): `Open` reads
`alembic_version`, `Migrate` executes one script, `Commit`, `Crash` and `Refuse`
end it.  A script of one run waits for the locks of the other (`MayExecute`), and
after them finds a revision that is not the one it has read (`VersionMatches`).
`StartDeploy` with code older than the database is the "Can't locate revision" of
env.py:84-109.  `Roll` starts the new version beside the old one, `Retire` or
`GiveUp` stops one of them; `Rollback` is instant and runs no job; `Downgrade` is
what the playbook asks for after it.  `raced` is history: the versions that were
deployed, or rolled back to, while a downgrade below them was open or already
done.

### Citations

A text is a sequence of tokens, each of three offsets: a space, a head and a tail.
This is the least that shows what the offsets are for: a window can end inside
a number, a marker is consumed with its space, and a number that follows a letter
is found by its tail only.  A window of 7 offsets stands for the 60 characters, so
that a marker two tokens on sees a number whole and the next one only its tail.
A number is written in a form: its decimals, its digits and its style (plain, percent,
separated thousands, both).  `CanonicalForms` are those the values index has of a value,
as the code builds them; a `FinancialForm`, one that its pattern finds, may be more: the
`Unindexed` ones are in no index, whatever the calls have returned.
`Parse`, `Uncited`, `AutoGround` and `Answer` are the backend's functions, `Render`
and `RenderBriefing` the frontend's, whose result is a sequence of characters (by
offset) and chips.  `Draw` is the renderer's loop: its cursor is where the chip before
ends, so what is drawn is flattened chip by chip.  The reference is `AsMarked`: each token once, with the chip that
`ChipFor` says belongs behind it, whatever offsets the backend and the renderer compute.  Positions
are counted in characters on both sides; Python counts code points and JavaScript
UTF-16 units, which differ only outside the basic plane.  `Sorted` puts each span behind
those with a smaller start and before later ones with the same, as Python's stable
sort does.

### Sources

The store's actions, and `Load` and `Fail`, which answer any request for a call at
any time: requests are not cancelled, and an answer is applied to every entry of
its id, whichever request made it.  `readable` are the calls that
`get_engine_call` lets the user reach.  `chosen` is history.

### SmokeTest

The playbook ends a release with "load a briefing; ask one chat question; verify a
citation resolves".  The composition does it in three phases: the release until
it is at rest, one text that the model may write, and the pane, which is offered
the chips of that very answer.  The release stays as it is from the second phase
on; that is a bound of the model, as is that only the first deployment of the last
version goes on to the second phase (`Released`).

## What is checked

| Run | Result | Size | What it shows |
|---|---|---|---|
| `engine_ledger` | holds | 2 sessions, the release of one cannot read the other's rows, 2 ids (one typed), 2 calls each, 1 ingestion | ids are exclusive and written once; every call of a live turn has a row; a settled id never answers with another number, and answers with its row's exactly when the tool has a model that reads the row; calls return, out of deadlocks too |
| `engine_ledger_cited` | violated | as `engine_ledger` | what a committed turn was told under an id need not be what the ledger holds under it |
| `chat_thread` | holds | 2 turns, 1 id, history of 2, 2 tool rounds | the thread grows by whole exchanges; answers were given in their own context; warned exactly if uncited; spans backed; title from the first exchange; turns end |
| `chat_thread_logging` | violated | same | a failed log row loses the turn |
| `briefings` | holds | 2 messages (one redelivered), 1 chat turn of 2 calls, 2 versions of the bars | card, attribution and ledger agree but for outrun calls; reruns keep the numbers; queued tasks end |
| `briefings_curated` | violated | 1 version of the bars, earlier bars exist | a briefing after curation stores the attribution of the bar before |
| `tiers` | holds | 2 crawls, 2 ingestions, 2 dates, 3 days, 2 versions, windows of 1 day | a change reaches Tier 2 if an ingestion runs the same day; kept prices never change |
| `news_dedup` | holds | 4 rows of one release, 2 ingestions, 3 ticks, a window of 1 | a promoted row is always reported; a second item only for a better late row, or after the window |
| `news_dedup_one` | violated | 2 rows, 1 ingestion | a release can have two items |
| `conversation` | holds | 2 messages, 1 old and 2 new threads | but for overlapping sends, answers are displayed on their own thread and sends come one at a time; texts are not lost; the composer comes back |
| `conversation_hidden` | violated | same | an answer can be displayed on another thread |
| `smoke_test` | holds | versions 3 to 5, all clusters; texts of 4 tokens of 11 kinds, 2 calls and a made-up one; 2 requests per call | schema and revision agree whatever crashes or races; code that serves has its tables; deployments end; texts are rendered as marked, numbers of one source have a chip, but for the `Unindexed` forms, chips can be opened; the pane shows what was chosen and does not load for ever |

Why the bounds are enough.  The interesting cases need two actors on one key and
a third event between their steps: two sessions that insert the same two ids in
opposite orders with one ingestion between them; two turns that read one index,
with a history short enough that a third and fourth row cut it; a task, its
redelivery or another task, and a chat turn that asked first, with versions of
the bars before and after; a date that leaves the window while a revision
waits; rows of every authority, two of one source, before and after the window; two
messages whose threads are created at the same time, with an old thread to
switch to; three versions, so that there is one to deploy while another is rolled
back to and a third downgraded below; a number, two markers and another number, which
already stack, repeat, cut and shift each other; two requests for one call, so that
the older can be answered last.  Two releases, one of which refuses the other's
rows, and one typed and one untyped id give every pair of reader and writer.  A third session would only queue behind the first two: unique keys
serialise, and a wait is for one holder.  `MaxCalls`, `MaxVersion`, `MaxRounds`,
`MaxBars`, `MaxAsks`, `MaxDeliveries`, `MaxDay`, `MaxTime`, `MaxTokens` and `MaxRequests` bound what is unbounded in
the code, except `MaxRounds`, which is its `MAX_TOOL_CALLS`.  In `conversation` a message
is typed again only while the server neither has it nor works on it.  In `tiers` and
`news_dedup` the tasks of a kind, and the rows of one source, are
interchangeable, and symmetry is used; neither has a liveness property.

The exceptions named in the properties are all needed: without `outrun`, TLC
finds a call that lost the race in three of the properties of `Briefings`;
without `doubled` two answers mix in one card; without `missed` or the part of
`owed` that an overlapping ingestion adds, `UpToDate` fails; without `torn`, or
for a row that has left the window, the two properties of `NewsDedup` fail;
without `raced` a deployment that overlaps a downgrade serves without its
tables; and `Contended` is exact: the texts it names, and no others, are
rendered differently from `AsMarked`. `UpToDate` also fails when the crawl's
window is the longer one, as SCB's is (60 days against 14; the crawl is switched
off in the schedule). With equal windows, as for FRED (14) and Yahoo (7), it
holds, but only for an ingestion on the day of the change: a day without one can
lose a revision for good.

Deadlock checking is off where the system may rightly stop: all turns or
messages are done, or the days are over.  `EngineLedger` is checked for it.

### Fairness

Liveness is stated under weak fairness of what a coroutine or a worker does by
itself: the database, the model and the sources answer or raise, a worker takes
the messages of its queue, and PostgreSQL's deadlock detector runs.  Nothing
makes a client send, ask or go away, or anything fail.  `EngineLedger` asks for
strong fairness of the flush, since PostgreSQL queues those who wait for a key
and a session whose turn comes repeatedly gets it.  `TasksEnd` rests on the bound
of the redeliveries: a worker that died for ever on one message would never end
it.  `ComposerComesBack` asks only that requests are answered or fail; the user
need not do anything.  `DeployEnds` takes strong fairness of each Alembic run,
since PostgreSQL queues the runs that wait for a lock, and weak fairness of the
platform, which finishes what its job has prepared; no operator, push or crash is
asked for.  `SourceSettles` asks that the browser settles each request.

### Where the code and its documents differ

- `engine_ledger_cited`: `ledger.persist` keeps any row it finds, an error row
  included, and the wrapper returns what it has just computed.
- `chat_thread_logging`: `record_call` promises that a failed insert never
  aborts the turn; its flush shares the turn's transaction.
- `briefings_curated`: Tier 3 is "recomputable from curated inputs"
  (docs/DATA_MODEL.md:13-14), but is computed from a ledger row that never
  expires.
- `news_dedup_one`: only the item of the best row of the moment is looked up, so
  a better row that comes late makes a second item.
- `conversation_hidden`: the comment at ConversationPane.tsx:47-49 says that the
  pane hides a stream from other threads.  Nothing disables the composer while a
  thread is being created, so a second message can be sent, from another thread;
  both loops write to the card, and it is displayed where the last one put it.

Two more are not runs of their own, because a property that holds says exactly how far
the code goes:

- `SettledIdsAgree`: a hit is to "return cached envelope if present"
  (registry.py:6).  For a tool without `returns_model`, as `ad_hoc_query` is
  (adhoc_query.py:124-134), the stored dict does not survive the envelope, and the model
  is told `{}` (chat/tools.py:81).  A `returns_model` that refuses a row raises outside
  the `try`.  The property says when a hit tells its row's number: if the tool has a
  model, and the model reads the row.
- `GroundedAreCited`: `_canonical_forms` is to emit "every string form
  `_FINANCIAL_NUMBER_RE` might capture" (citations.py:254, and 178-180).  It has no
  separated thousands with decimals or a percent sign, and no whole percentage, so
  `2,512.34`, `2,500%` and `25%` are never grounded, although one call has returned
  them; the strict retry and the warning follow.  The property excepts these forms
  (`Unindexed`), and `IndexedForms` proves that they, and only they, are in no index.

Smaller observations, read from the code and not stated as properties: an error
row makes every later failure of the same id fatal to its turn, because
`persist_error` inserts without looking; a second turn on a thread waits for the
whole of the first one, its language model included, and then fails; an archived
thread still accepts turns; a crawl that fails leaves no `crawl_run` row; the notice of a
failed send is hidden at once, since `streamingThreadId` is null by then; the
skeleton of a single artifact never shows that its fetch failed
(ArtifactStack.tsx:25), and in a list the late failure of an older request marks an
entry that is loaded as failed; text is displayed twice where two ids are on one
number, where a marker sees only a number's tail, and where a number glued to a
letter has a source; the combined spans of `auto_ground` may repeat a span; the retry is described
as one with "no tools" (orchestrator.py:19), but only its list of allowed tools is empty; the
playbook says that prior code works against the newer schema, which is true of
these five revisions and is part of `CodeFindsItsSchema`.

## What is proved

For every number of sessions, turns, jobs, ids and every bound, from the assumptions
that stand beside the CONSTANTS: `NoCallAssumption`, `NoRowAssumption`,
`BoundAssumption`, `TypedAssumption`, `ReadsAssumption`, `LimitAssumption`, `JobAssumption`, `HistoryAssumption`,
`ThreadAssumption`, `SendAssumption`, `CodesAssumption`, `Reversible`, `MappedIsMade`,
`SourcesAssumption`, `CitationsAssumption`, `SameCalls`, `BoundedTexts`,
`DateAssumption`, `TaskAssumption`, `RowAssumption`.  They name values that must
differ, bounds that are numbers and facts about the five scripts.  Three say more: `ReadsAssumption` has each release read
what it has written itself, and nothing of any other two;
`SameCalls` lets the pane be asked for the calls of the turn and one unknown id, and
`CitationsAssumption` has finitely many of these calls, none of them the made-up id, the
flag of a number without source or plain text, and a window of at least two
characters, where the code's has 60.

`EngineLedgerProofs`.  `TypeCorrect` needs one fact beyond the types: outside
the idle state a frame has a call (`CallBound`).  The other theorems rest on
`IInv`: the type invariant, `RowsExclusive`, `EveryCallHasRow`,
`SettledIdsAgree`, and two links that make them inductive.  `PendingBound` says
that only an active transaction holds rows; without it a commit or a rollback
of one session could disturb another's.  `SettledBound` says that a settled id
has a committed ok row, so its frame never reaches the steps that insert, and
whatever it is told of the id it is told by a hit (`HitTells`).  The
steps fall into a few shapes (drop the rows, change only the frame, write one
row, commit, begin), each a lemma; `InvStep` sends every action to one of them.
`ImplementsStore` is then step simulation: only a commit changes `ledger`, and
by `RowsExclusive` it touches no id that has a row.

`ChatThreadProofs`.  `Inv` joins the type invariant with `Committed` (the
thread is numbered `1..Len`, every stored answer is in its context, warned,
backed, and the title is right), `OneWriter` (at most one turn has uncommitted
rows) and `Local(t)`, what a turn knows at each point of `_drive_turn`: once it
has inserted its row, its index is `Len + 1` and nobody else can commit, so what
it read as history is still what precedes it.  This is the argument why the
unique key, and not any check in the code, keeps answers in their context.
`Citing`, a part of `Local`, is the way to `SpansBacked`: what a draft cites is among the
ids collected by the first run, from the check of the first draft, through whatever the
retry calls, to the links that are made after the answer is flushed.
`PrivateStep` handles the actions that touch one turn's own state;
`InsertUserStep`, `StoreAnswerStep` and `CommitStep` the others.
`ImplementsLog` uses `CommitAppends`: a commit adds a question and its answer
behind the last row.

`ConversationProofs`.  `TypeCorrect` needs one fact beyond the types: a send that
is past the creation has a thread (`Placed`).  The two properties of the card rest on
`CardInv`, which says what a send outside `doubled` can rely on: two sends of the
pane that are both before their end are both in `doubled` (`OverlapsDoubled`);
a send on its way that is not there is the one the card is for (`OwnsCard`); and
a card is for a send that is still on its way and on the card's thread, and its
events are of that send or of `doubled` ones (`CardOwned`).  So the composer is
disabled exactly as long as it must be for these sends.  `TextInv` follows one
text from the end of its request on.

`BriefingsProofs`.  `Inv` joins the types with two facts about who writes
(`Exclusive`: at most one open transaction has written a row of a key;
`WrittenOnce`: a transaction has a ledger row only where none is committed; so a
ledger row that a job has seen stays what it was) and with `Consistent`, the relation
between attribution, card and the two ledger rows that the properties are read off.
`Consistent` holds of the committed rows (`Committed`) and, which makes it inductive,
of what every job sees, its own writes over the committed rows (`View`).  `Local(j)`
is what a job has in hand between two statements: an attribution it has computed and
a pack it has drawn agree with the ledger rows it sees, unless a call was outrun.
A commit is the hard step: it changes what everybody else sees, and `Exclusive` and
`WrittenOnce` say that it changes no ledger row they could have used.
`ImplementsStore` is step simulation as in `EngineLedger`, with the ledger rows of
the company and date as the store.

`CitationsProofs`, for every text.  The library's induction theorems take an
operator, so the induction along the tokens of a text is stated for the set of the
positions that have a property (`UpTo`).  `ParsedText` says how `Parse` maps a text to
one without markers (`Keeps`: which token stays and where it ends), `MarkedText` how
the grounder inserts markers (`Marks`), `ParsedAgain` and `GroundedText` that parsing
removes what grounding inserted, and that the number before each inserted marker ends
where its span ends.  `StoredAnswer` joins them: the stored text is the parsed one, its
spans are over tokens and of calls of the turn, and each number that just one call has
returned has one, unless its form is `Unindexed`.  `IndexedForms` is what this rests on:
the index has of a form exactly the calls that have returned a value of it, or, if the
form is `Unindexed`, none.  The sort is stated by the place of each span (`Place`, injective),
because a sort that is only specified by its order says nothing of equal starts.

`AnswerDrawn` is about the other half, from the stored spans to what the reader sees:
a text is drawn as `AsMarked`, as a response and as a briefing, unless it is
`Contended`, and a contended text is never so drawn as a response.  The renderer walks
chips by their offsets and the reference walks tokens, so they are not compared step
by step.  A drawing has an order that is strict: by offset, a chip before the
character at its offset (`Rises`).  There is one way to draw a set of nodes in that
order (`RisesUniquely`), so it is enough that both rise and draw the same nodes.
`SpansBehind` says which spans end behind a token: those that its markers ask for and
the one of its source, from `CitedSpans` (a marker's offset less its `Shift` is the
place of its numeral in the text without markers) and `AnswerSpans`.  In a text that is
not contended this makes one chip behind each token that needs one, the very one of
`ChipFor` (`OneChip`); the chips are then disjoint, and the renderer's cursor never
passes a chip's start (`Drawn`).  `PieceDrawn` is this for any piece of a text that
begins with a token; `PiecesJoined` puts the lede and the rest of a briefing together,
of which each span is handed to exactly one.  For the converse, a contended text has
two chips that end at the same offset (`TwoChips`): the renderer draws the text before
that offset twice (`DrawnTwice`), while `AsMarked` repeats no node (`MarkedDrawn`).

`SmokeTestProofs`, on `Release`, for any set of versions.  `RunInv` says that the schema is one of
the recorded revision's, that a run which has executed a script still agrees with the
committed revision and holds a schema of the revision it has reached, and that at
most one run does.  `ScriptLeads` takes the step from `Reversible`: a script that
may execute does, and leads to the next revision.  `SchemaIsRevision` and
`ScriptsExecute` follow.  For `CodeFindsItsSchema`, `LiveInv` adds that no version
outside `raced` is above the revision or the target of an open downgrade (`Kept`),
and what a deployment that overlaps no downgrade may rely on (`DeployInv`);
`SchemaServes` turns this into objects by `MappedIsMade`.  Both assumptions are
closed statements about the five scripts, which TLC evaluates in full.

On `Sources`, for any calls: `PaneShowsChoice` is inductive with the types.
`UnsettledIsAwaited` is the safety half of `SourceSettles`: an entry without
envelope or error has a request on its way.

On the composition: `ImplementsRelease` and `ImplementsSources` are refinements of
the parts' own specifications.  Every step of the smoke test is a step of one part
and leaves the variables of the other alone, so it keeps what is proved of each
(`PartsKeepPromises`).  `CitationsAlwaysResolve` and `GroundedAreAlwaysCited` are about
what crosses: by `StoredAnswer` every span of the stored answer is of a call of its
turn, so what the pane is offered, and what is chosen of it, can be read (`Resolves`).
`RenderedAlwaysAsMarked` is `AnswerDrawn` for the text of the second phase.

`TiersProofs`, for any dates, windows and tasks.  `Inv` says that the `fetched_at`
of a row never changes once it is there (`CrawlInv`: what a crawl is about to commit
keeps it), that no two crawls write a date's row at once (`PutAlone`, the row lock
of the upsert), and that what an ingestion has read of a date is still recent and
still has the row's `fetched_at` (`IngestInv`).  Where rows are kept, what was read
is still the row itself, which with `KeptInv` gives `PricesStay`.  `UpToDate` needs
`OwedInv` besides: every change still owed lies in the ingestion's window.  This is
where the theorem's hypothesis `CrawlDays <= IngestDays` is used.  Yahoo's and
FRED's windows satisfy it.  SCB's (60 days against the 14 of `ingestion/macro.py:41`)
do not: its late revisions may never be promoted, and nothing is claimed of them.

`NewsDedupProofs`, for any raw rows, sources and groups.  An ingestion that is still
alone when it stores has gathered every recent row that has an item (`Complete`),
so what it plans for an item contains what is there (`Adds`); every candidate is
planned or named (`Covered`), under a best one of its group (`Canonical`).  One that
is not alone marks its groups as `torn`, and `Canonical` keeps it out of all others.

Only model-checked: everything temporal under fairness (`CallsEnd`, `TurnsEnd`,
`TasksEnd`, `ComposerComesBack`, `DeployEnds`, `SourceSettles`), which is out of the
prover's reach, and the violations.  Every safety property of a passing run is a
theorem.

## Not modelled

- What a query computes, prompts, streaming text, token counts, parsing of
  upstream formats: data the properties do not tell apart.
- Authentication, tenancy, administration, settings, presentation:
  single-row transactions or no state (see the notes in `PROJECT.json`).
- Columns, types and check constraints of the schema, the data that a downgrade
  loses, and `alembic --sql` (offline mode).
- The branch for an `error` event of the stream (ConversationPane.tsx:176-187), which
  the backend never sends.
- A window of 60 characters that begins inside the digits of an earlier marker's id and
  shows a numeral there (citations.py:132): `InReach` sees tokens, not characters.
- `Briefings.Upsert` compares with the row that is visible when it writes, the code with
  the one it selected before (attribution.py:65-79, briefing.py:304-323); under the
  unique key this decides nothing that the properties see.  Its calls are of typed tools
  and one release, so that a hit is its row.
- Whether the database driver accepts a zoned date in an unzoned column
  (ingestion/models.py:58): below the level of the models.

## Plan

`CrawlRun`: the life cycle of `BaseCrawler.crawl` with HTTP retries, batches
and the `crawl_run` row; a crawl's batches are all or nothing, and
docs/DATA_SOURCES.md:24 ("Every crawl creates one `crawl_run` row") as a
violation.

`Briefings` composes with `EngineLedger` by abstraction: its `Return` is a
returning call of the wrapper.  Both are proved to implement `LedgerStore`, which is
what each needs of the other.
