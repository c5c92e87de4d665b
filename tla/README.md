# founder-intelligence: specifications, model checking and proofs

founder-intelligence is a local tool of one user. It collects feeds, scores
what they bring against the user's profile and publishes one artifact,
`data/signals/latest.json`, that a web page shows. The logic is in
`src/src/agentic-core`: a FastAPI server (`web_workbench`), a pipeline
(`agentic_core/pipeline`) and the L4 layer (`agentic_core/l4`), which keeps its
history in one SQLite file. This directory holds TLA+ modules of that logic,
TLC configurations and TLAPS proofs. Paths below are relative to
`src/src/agentic-core`; `l4/` stands for `agentic_core/l4/`.

## 1. Inventory

| Component | State it keeps | Operations | Talks to |
|---|---|---|---|
| Refresh lock (`pipeline/runner.py:240-262`, `l4/workflow.py:284-302`) | `refresh.lock`, `refresh-status.json`, the attributes of the process' one `PipelineRunner` | `acquire_lock`, its stale path, `release_lock`, `write_status` | web threads and CLI processes, through files |
| L4 workflow (`l4/workflow.py`) | `workflow_runs`, `workflow_step_traces`, `ranked_signals`; canonical, temp and latest files | `refresh`: eleven fixed steps through `_step` | every store; the agents |
| Profile events, store, compiler (`l4/agents/profile_compiler.py`, `l4/repositories.py:40-230`) | `context_events`, `profile_snapshots`, `active_profiles`, `last_audit` | append, `compile_current`, `save_and_activate`, rollback | web threads, refresh, inspector |
| Source catalog (`l4/source_catalog.py`, `l4/repositories.py:230-560`) | targets, bindings, imports, templates, snapshots, the active pointer | YAML import, toggle, snapshot, activate, rollback | event loop, inbox, discovery, refresh |
| YAML migration (`l4/migration.py`) | an anchor snapshot, report files | `migrate_l4`, rollback | refresh, command line |
| Source discovery and lifecycle (`l4/discovery.py`) | discovery runs, candidates, decisions | due decision, run, probe, lifecycle decision | search, agent, catalog |
| Scoring and ranking (`pipeline/build_signals.py`, `l4/ranking.py`) | rows of `ranked_signals` | baseline scores, pool, assess, compose, deduplicate, order | agent, workflow |
| Collect, ingest and store (`pipeline/fetch_rss.py`, `ingest_adapter_output.py`, `store_canonical_jsonl.py`) | `adapter-output`, `canonical-items/latest.json`, per-day item and run files | parse, normalise, deduplicate, merge the inbox, append | both runners, dashboard |
| Connectors and inbox (`l4/connectors`) | inbox items; rows of the catalog | `submit`, fetch | HTTP, catalog |
| Database (`l4/database.py`) | one SQLite connection, a re-entrant lock, `schema_migrations` | open, migrate, `transaction`, `execute` | all repositories |
| Settings (`config.py`, the settings endpoints of `web_workbench/app.py`) | `.env`, `os.environ`, `config/agentic-core.local.yml` | save a provider or a token, load | chats, compiler, RSSHub |
| Inspector (`l4/inspector.py`) | none | views, replay, rollbacks | repositories |
| Web workbench (`web_workbench/app.py`) | `app.state` services | HTTP endpoints | all of the above |
| Runtime adapter, tools, feature flags, static client | see section 7 | | |

What is hard, and what makes each component correct:

- **Refresh lock.** Everything a refresh shares is protected by one file that
  is tested, written and unlinked in separate steps, by threads of one process
  and by other processes, and that a crash leaves behind. Correct means: one
  refresh at a time, `already_running` only when that is so, and no output of
  one call published by another.
- **Workflow.** Each of eleven steps may fail before, within or after its work;
  three of them may fail and the run goes on; the history in SQLite, the
  artifact and the status file are written at different moments. Correct means:
  the history tells what happened, a success is one, what is published was
  validated, and a replay gives what was published.
- **Profile.** Compilations take seconds and overlap with posts, refreshes,
  rollbacks and each other; the last one to end wins. Correct means: no torn
  snapshot, an answer that is true, no context lost, convergence.
- **Sources.** Five writers in transactions of their own, a reader that reads
  twice and keeps only part of what it has read, and a pointer that may be pinned.
  Correct means: the user's last word on a source decides what is fetched, a source
  becomes active by that word or by what was observed of it, no change of the
  profile goes without a search.
- **Ranking.** An agent's numbers are mixed with the baseline's, a suspicious
  batch is thrown away, several tellings of a story are merged in an order that
  other sorts decide. Correct means: each story once, the baseline when the
  agent does not count, and no more influence than its weight.
- **Ingest and store.** Items come from feeds and from the inbox under several
  ids, midnight passes between two steps, and an append may be cut off at any
  byte, between two files or within a line; a file is written line by line and read
  with another notion of a line. Correct means: no id twice in a
  day's file, records that count what is there, what is published is stored,
  and damage that stays in its day.
- **Database.** Threads share one connection and processes one file; openers
  migrate it together. Correct means: a migration once, an answered write whole
  in the file and a refused one not at all, and nobody waits for ever.
- **Settings.** A save spans two files and the environment, each read, cut and
  written again, and what a chat gets depends on the shell, `.env` and two YAML
  files. Correct means: the last save is what a chat gets, and a save loses
  nothing of another.

`PROJECT.json` lists 40 hazards at their lines, each with the properties that
watch it or the reason why none does yet.

## 2. Modules and the code

| Module | Code | A step is |
|---|---|---|
| `RefreshLock` | the lock protocol and the body of `refresh()` as far as it touches shared files and attributes | one file operation or one read or write of the shared runner |
| `L4Workflow` | `L4WorkflowRunner.refresh` and its callbacks, `persist_final_ordering`, replay | one callback, one database write, one file write |
| `ProfileLoop` | events, compiler, `save_and_activate`, `_compile_resolve_profile`, rollback | one read, one model call, one transaction |
| `Sources` | import, toggle, `inbox.submit`, discovery, observations, migration, snapshot resolution, collection | one SQLite transaction or one read outside one |
| `Ranking` | `build_signals.py` and `ranking.py`, as operators | |
| `Pipeline` | the refresh of either runner, from the feeds to `latest.json`, with the files each step reads and leaves | one step of the pipeline, or the part of it that a crash leaves |
| `Database` | `Database`, the lazy opening in `app.py`, repository calls as programs of contexts and rows | one SQL statement or one lock operation |
| `Settings` | the settings endpoints, `config.py` | one read, cut or write of a file, one change of the environment |
| `Server` | the process: `Database` and `Settings` served by the threads of `WebThreads` | a step of either |
| `RefreshLifecycle` | nothing: what a refresh promises, implemented by `L4Workflow` | a start, a publication, an end, a return |
| `ProfileHistory` | nothing: what the profile store promises, implemented by `ProfileLoop` | an event is added, a profile is stored and made current, an old one returned to |
| `DailyJournal` | nothing: what the daily files and `latest.json` promise, implemented by `Pipeline` | a refresh adds its lines, or shows its list |
| `AtomicStore` | nothing: what the repositories promise of `l4.db`, implemented by `Database` | a version, a call that is stored, an answer |
| `MC...` | values of the constants for the runs | |
| `..._proofs` | theorems | |

**RefreshLock.** A member of `Refreshes` is one call of `refresh()` and the
request id it draws. Threads of one process share a runner, `runner[p]`;
processes share only files. `acquire_lock` is `CheckExists`, `ReadOwner` (parse
and `os.kill(pid, 0)`), `ReportStale`, `UnlinkStale`, `CreateFile`,
`FillFile`: `write_text` opens and then writes, and what it writes goes to the
file it opened, even if that was unlinked meanwhile (`handle`). The body is
`Begin` (runner attributes and status), `Ingest`, `NoteRunId`, `Score`,
`Compose`, `Publish`, `WriteOutcome`, `Release`; each step first reports itself in
the status file under the request id the runner carries (`ReportStep`). `Fail` is
an exception inside the try, that of the trace of `publish` and of the last step
included, `Escape` one outside of it, after which the lock file stays. `Crash`
ends all calls of a process, `ReusePid` gives its pid to another one.

**L4Workflow.** Runs follow one another; `pc` says where `refresh()` is, `step`
the sequence number. `CreateRun` and `Announce` are the row of the run and its
first status, which may fail one without the other. `RunStep` is `_step` up to the end of the callback,
`RecordSuccess` its trace, `Degrade` and `RecordFailure` the two outcomes of
its except branch. An ordering of signals is its kind (baseline or hybrid) and
its length, which is all that `persist_final_ordering`, publish and replay tell
apart. `Faults` says which faults the environment injects.

**ProfileLoop.** A snapshot is the set of events it is based on and whether the
audit stored with it is its own. An output `verify_profile_output` refuses is a
`CompileFails`, and so is one whose handler cannot read the active profile either,
after which nothing is known of it. The refresh lists the active events when it is constructed,
compares them with the active snapshot later, and reads them again when it
compiles: three steps, each of which the database may refuse (`RefreshReadRaises`).
`History` maps the store to `ProfileHistory`: a snapshot
is what it is based on, the pointer a set of at most one of them.

**Sources.** A row of `acquisition_bindings` is a source and a binding config
(the code's unique key). `at` says where the event loop, the refresh and each
creator's request thread are. `Imports` is one transaction over all sources of
a text; a toggle is one transaction for the target and one for each binding;
`inbox.submit` is three or four, the last of which stores the item (`shared`), and a
candidate of discovery two (`AddTarget`, `AddBinding`) that a filter let through
(`Accepts`); `create_snapshot` reads targets, then bindings, then stores. What a
refresh makes of a snapshot is two steps more: `Collects` keeps what
`snapshot_to_sources_config` does not drop, the rows `Fetched` by a collector, so
not those of an inbox, and `Merges` adds the pages users shared, whatever the
switch of their creator says. A source `HasFeed` when it has a row to fetch.
`observe_and_transition` is an actor of its own, `Observer`: an observation is
stored (`Observes`), the last six decide (`Decided`), and the status decided is
written over whatever it is by then (`Transitions`). There is one observer, and
observations arrive in the order of their times, by which the code sorts them. `word`, `asked`
and `searched` are history variables: they record what the user was told and
what a search was made for, and no action reads them except to write them.

**Ranking and Pipeline.** `Ranking` has no variables. Scores are integers
(hundredths, a final score ten thousandths), rounded as the code rounds; a text
is the set of terms it says, a sort is the order `Ahead` and a cut of it
`First`. `Pipeline` EXTENDS it and has one action for each step of a refresh:
`Collect`, `Ingest`, `MergeInbox`, `OpenStore`, `AppendItems`, `AppendRecord`,
`Score`, `Assess`, `Publish`. `mode` is the runner: `legacy`, or the workflow
without (`baseline`) or with (`agent`) the agent's ranking. A day's items file
is the set of its lines and its `tail`: `bare` is a last line without its
newline, which the next append continues, `broken` a line that is no JSON, at
which the next store raises. `CutItems` and `CutRecord` are a crash, or a write
that raises, at any byte of an append. `Splits` are the items whose text holds a
U+0085, U+2028 or U+2029: `json.dumps` with `ensure_ascii=False` writes it as it
is, and `splitlines()` takes it for the end of a line, so a file with such an item
is `broken` though every byte of it was written (`TailAfter`). `AssessDegrades` is
a ranking that raises, after which the workflow goes on with the baseline. The code reads the clock four times;
`Midnight` may come between any two of them. `End` clears what no later refresh
reads before writing it. `LatestRun` is what the dashboard shows of the
last run. `storedOn`, `asked`, `hurt` and `refused` are history variables.
`Journal` maps the lines and the published list to `DailyJournal`: both
`AppendItems` and the cut of one are its step `Add`, everything else between an
append and `Publish` is no step of it.

**Server.** `ConnectionOf` says which threads share a `Database` object and
`ProcessOf` where it lives: the web server's threads share one, a command has
its own. A request is the program of one repository call; `ImportAll` enters
the context of a transaction within a transaction, as `import_yaml` does
through its repositories. `file` is what is committed, `draft` what the one
writer has made of it, `saved` the drafts at its savepoints. SQLite is external:
`writer` is its lock on the file, a transaction of a dead process is gone, and
a `COMMIT` that fails has rolled back (section 7). `Store` maps the committed
file and the answers to `AtomicStore`: the `COMMIT` of the outermost transaction
is its step `Store`, a migration its `Migrate`, and all savepoints, drafts, locks
and deaths between them are no steps. `OpenRaises` is any failure of opening: a pragma, the check, a
migration. In `Settings` the two files are
tables, of which `.env` begins as any member of `EnvAtFirst`; `Reads` says what
dotenv makes of what is written behind a key (it strips quotes and ends at ` #`; a
blank stays a blank, which is a value); `CutEnv` and `CutLocal` are the moment between opening for writing and
writing. `wanted` and `tangled` are history variables: what the users were
told, and whether a save overlapped another or died. `Server` conjoins the two:
a thread serves one request at a time, of either kind, and the process dies as a
whole.

The mutants (operators no specification refers to, each beside the one it varies) are wrong variants of one
operation, of the kind a mistake in the code would be; each property is shown
to fail under one of them.

## 3. Runs

| Run | Instance | What it shows |
|---|---|---|
| `RefreshLockSerial` | two threads of the server, one CLI call, requests reach `acquire_lock` one at a time, every fault | `LockNamesHolder`, of which `MutualExclusion` is a consequence, `PublishedIsOwn`, `StatusShowsHolder` |
| `RefreshLockRaces` | a thread and a CLI call, any interleaving, crashes; fair threads | `BusyMeansRunning`, and `LockIsGivenBack`: a name in the lock file goes unless its process dies, and that of a dead process goes with the next call |
| `RefreshLockRaceFound` | three calls, any interleaving | a violation: see section 5 |
| `L4WorkflowFaults` | one run, up to three signals, every fault at every point | `TracesTellThePath`, `SuccessIsEarned`, `LatestIsValidated`, `ReplayMatchesArtifact` |
| `L4WorkflowRuns` | two runs, failing callbacks, crashes | `StatusTellsTheTruth`, `ImplementsLifecycle` (refinement) |
| `L4WorkflowTraceFault` | one run whose traces may fail to be written | a violation |
| `ProfileLoop` | two threads, a refresh, a statement and its correction in either order | `ImplementsHistory` (refinement), `AnswerCoversPost`, `ContextIsNotLost`, `ProfileConverges` |
| `ProfileAuditRace` | the same | a violation |
| `Sources` | one YAML source with two enabling texts, of different bindings, and a disabling one, a source to discover, a creator, a profile, three kinds of observation; three inputs | `LastWordHolds`, `CollectedAgrees`, `PromotionIsEarned`, `ProfileChangesAreSearched` |
| `SourcesReimport` | the YAML source with the configs a, b, a; three inputs | a violation |
| `Pipeline` | two refreshes of any kind over two days, two feeds, a page shared once on each day, once with a line separator in its note, cuts anywhere | the store: `ImplementsJournal` (refinement), `HandoffHasNoTwins`, `RecordsAccount`, `DamageStaysInItsDay`, `PublishedIsStored`, `SharesAreStored`, `LatestRunIsTrue`; the ranking: `OneStoryOnce`, `FallbackIsBaseline`, `LeadIsKept` |
| `Server` | two web threads and a command, two migrations; three requests about data, or three saves, or one of each; a `.env` with a blank line for the key the shell exports; crashes | `ImplementsAtomicStore` (refinement), `SchemaIsWhole`, `NobodyIsStuck`, `RequestsEnd`, `LastSaveHolds` |

Each passing run also checks its module's `TypeOK`, except `RefreshLockRaces` and
`L4WorkflowRuns`, whose module has another run that does.

**Bounds, and why they suffice.** Two threads and another process are the
smallest setting in which threads share a runner and a third party shares only
files; each call is made once, and "a later call" is another member of
`Refreshes`. Orderings of three signals have a proper prefix of two kinds (one
row, two rows), so a partial persist is neither empty nor complete. Two runs
are what "the previous artifact" needs, and the refinement steps from one run to
the next once. Two events, one of which supersedes the other, give each cut of
a log that supersession can make. `MaxInputs = 3` lets the catalog see any
three requests, refreshes and events in any overlap: a refresh, which imports the
file itself, with a toggle and an import between its reads; a refresh, a change of
the profile and a refresh. Every internal step, failure and crash is free and not
counted. An observation is an input as well: three are what promotes a source after its
discovery or makes one unhealthy; the status `rejected` needs a fourth, so the run
does not reach it, and `PromotionIsEarned` and the others rest on the proofs there. In `Pipeline`
two refreshes are a cut and what finds it, on the same day or the next; the two
feeds bring an entry without a title, one guid for two entries, one link twice
with different tags, and links that the user's two submissions of one page
share, so ingest, merge, pool and ranking all have duplicates to decide;
assessments are the two extremes or a failure, for which the agent's share of a
score is largest. In `Server` the two threads on one connection contend for its
lock, and the command for the file and the migrations; with three requests a
thread waits for the lock of one that waits for the file, which a third is
writing, the longest chain there is; three saves are a new profile, a change of it and a switch. Requests and saves have no variable in common
but the threads and the process, which `MaxMixed = 2` lets them meet in. Beyond the instances stand the proofs, which bound none of these
numbers. `CHECK_DEADLOCK FALSE` is set where the bounded inputs run out;
`ProfileLoop` has no such bound and is checked for deadlock.

**Fairness.** `RefreshLock` has weak fairness on the steps of each call: a
thread that is running a Python function goes on with it, since none of its
statements waits for another call, while nothing obliges a call to be made, or a
process to crash. `Server` has weak fairness on the steps of each thread inside
the database: a Python lock and SQLite's busy handler wake one that waits, and
the busy timeout raises in one that waited too long, while nobody has to send a
request or to let a process live. It is enough that a step which stays possible is
taken; `RequestsEnd` needs no thread to win a lock that others keep taking,
since requests are finite. The other modules assume no fairness. `ProfileConverges`
carries its premises inside: *if* refreshes keep reaching and finishing the
step that compiles, and rollbacks stop, *then* the active profile ends up
based on the active events. Nothing in the code schedules refreshes, so
fairness would assert what only the user can bring about.

## 4. Proofs

All theorems hold for any values of the constants that satisfy the assumptions
named in the modules (`ConstantsAssumption`, `WorkflowAssumption`,
`LoopAssumption`, `SourcesAssumption`, `RankingAssumption`,
`PipelineAssumption`, `DatabaseAssumption`, `SettingsAssumption`,
`WebThreadsAssumption`): well-typed tables, finitely many items, distinct model
values, nothing about sizes. One is an assumption about the world: titles differ
(`RankingAssumption`). The code breaks ties by the title and, where titles are
equal, by the order of its input, which `Ahead` does not have.

**RefreshLock_proofs.** `TypeCorrect`. `BusyIsTruthful`: under any interleaving,
as long as nothing escapes the try and no pid is reused, a live pid in the lock
file is that of a running call; by a direct induction on what each file
operation may do to the name. `SerialLockNamesHolder` and
`SerialMutualExclusion` assume `SerialAcquire`; `LockNamesHolder` is not
inductive, since it says nothing of a call that is about to write or unlink.
`LockInv` adds that calls in progress live (`LiveCalls`), that one is in
`acquire_lock` (`OneAcquirer`), and what that one has learnt about the file is
still true (`AcquirerView`). `SerialDataIsOwn` builds on it: `DataInv` says, for
every stage of the holder, what the runner, the canonical file and the temp
file contain. `SerialStatusShowsHolder` is its part about the status file.

**L4Workflow_proofs.** `Inv` is the conjunction of the stated properties with
what they rest on: rows of runs to come are untouched (`FutureInv`), the row of
the run in progress (`RowInv`), the traces it has so far and that a degraded
one is remembered (`PathInv`), from when it owns `latest.json` (`OwnerInv`),
and how rows and outputs relate around the ranking and the validation
(`RankedInv`, `ReplayInv`). One lemma per conjunct shows that `Next` preserves it. `TracesAreFaithful`,
`SuccessIsAlwaysEarned`, `LatestIsAlwaysValidated` and `PublishedIsReplayable`
follow. `WorkflowRefinesLifecycle` shows that each step is a step of
`RefreshLifecycle` or a stutter, under the mapping at the end of `L4Workflow`.
`StatusAlwaysTellsTheTruth` needs, beyond `Inv`, what the end of a run will
write: from the publication on, row, artifact and the list in memory are of one
kind (`StatusInv`).

**ProfileLoop_proofs.** `SnapshotsAreWhole`: what every compilation in progress
has read is a cut of the log (`ReadsAreCuts`), and cuts stay cuts when the log
grows (`CutsStay`).
`AnswersAreEarned`: a posted event is in the log (`PostsAreLogged`) and what its
thread has read covers it (`ReadsCoverPosts`). `ContextIsKept`: the pointer
never goes back to nothing (`PointerStays`). `LoopIsAHistory` is the refinement
of `ProfileHistory`: an append, an activation and a rollback are each one step of
it, which `ReadsAreCuts` makes a legal one, and nothing else touches the store.
`CurrentStays` is the action property inside `ProfileConverges`: once the profile is
current and no compilation of older events is under way (`Settled`), only a new
event or a rollback changes that.

**Sources_proofs.** `LastWordStands`: `WordHolds` ties a word to the status of
its source, and `ToggleHolds` covers the toggle in progress, which is several
transactions: until it answers, its source's word is open.
`CollectionAgrees`: `LookHolds` says what the refresh has listed and drawn must
agree with what it asked about, between its two reads, and what is left of that
once the conversion has dropped the rows of inboxes and the merge has added shares.
An observed transition takes back the word on its source, also in a toggle or a
refresh in progress.

`PromotionIsEverEarned` follows from a fact about each source (`Promoted`) that
no transaction of another writer disturbs: observations are only added, so a
decision taken from them stays earned until it is written; `ProfileChangesAreEverSearched` from
what a refresh remembers of the profile while it searches (`SearchInv`).

**Ranking_proofs.** What the operators promise, for any weights, items and
opinions; no state is involved. The lemma all rest on is `AheadIsOrder`: the
order of a list is strict and total, so `First` is a prefix (`FirstIsClosed`)
of at most its length (`FirstIsBounded`). `OneTellingIsKept` and
`EveryStoryIsKept` say that the merge keeps exactly one telling of each story;
`LeadSurvives` bounds what an agent can move, from the bounds of the composed
score (`ComposedIsBounded`); `FallbackKeepsBaseline` says what is left of the
baseline when no assessment counts; `PoolIsSound` that the pool is of the batch,
keeps the budget and tells no story twice.

**Pipeline_proofs.** All ten invariants of the run and its refinement, for any feeds, pages,
days and refreshes, cut anywhere. `StepIs` sorts the steps of `Next` by what
they touch; each theorem then has a small invariant of its own. `HandoffInv`:
from the merge on the batch has different ids. `StoreInv` strengthens
`OncePerDay` by what `pending` is until it is appended (exactly what the file
lacks) and by lines being of refreshes that began; `RecordInv` strengthens
`RecordsAccount` by what a record in progress is about to count. `SharesInv` and
`StoreInv` give `SharesAreStored`; `PublishInv` with `TailInv` gives
`PublishedIsStored`; `TailInv` knows two reasons why a file cannot be read, a cut
and a stored line that reads as two, and `DamageIsContained` says of both that they
are of the day. `RankedInv` says that the lists are what the operators of
`Ranking` make of the batch at `asOf`, whether the agent's or the one a ranking that raises falls back to, so that `OneStoryOnce`,
`FallbackIsBaseline` and `LeadIsKept` follow from the theorems above.
`LatestRunIsTrue` is about the last file only; `LatestInv` says of every pair of
files that a refresh stored later is in no earlier file, which needs that a
partition chosen at `OpenStore` is not before any file there is, although
midnight may pass before its record is written. `PipelineIsAJournal` is the
refinement of `DailyJournal`: `StoreInv` and `HandoffInv` make an append, whole or
cut off, a legal `Add`, `PublishInv` a publication a legal `Show`, and
`CalendarInv` says that no file is of a later day than the partition in use, so
that both concern the last day there is. `IdsAreStoredOnce` (`OncePerDay`) is
what a reader of one file needs of it.

**Database_proofs.** `DatabaseInv` has two parts. `Placed` says who is where: the
opener of a connection is the thread that migrates it (`ThreadOK`), the writer
is a connection one of whose threads is inside a transaction (`WriterOK`), the
frames of that thread are the savepoints there are (`FramesOK`) and as many as
its program has entered (`DepthOK`); `SchemaIsWhole` is not inductive without
it, since what the opener read must still be true when it migrates. `SchemaInv`
says that what a connection knows is recorded and what is recorded is built, in
the file and in every draft. `AnswersInv` adds what each draft and each savepoint holds of the request
in progress, and that requests have different numbers; from it follow
`AnsweredIsAlwaysStored` and `DatabaseIsAtomic`, the refinement of `AtomicStore`:
the file changes only at the `COMMIT` of an outermost transaction
(`CommitIsStore`), at the full schema and by all rows of one request, or by the
next version (`MigrationAddsOne`), and an answer says what is there (`EndIsAnswer`).
`NobodyIsEverStuck` is the safety core of `RequestsEnd`, without the time-outs
that `RequestsEnd` counts on: a request that cannot go on waits for a
thread that can, or for one that waits for the writer, which can. It needs that
whoever opens a connection or holds its lock is at a place of its program where
it must (`HeldInv`), so that no lock is left behind by a request that ended or a
process that died.

**Settings_proofs.** `LastSaveHolds` says nothing while a save is going on.
`SettingsInv` does: as long as nothing is tangled there is one save at most
(`OneSaver`), at rest the files are what was promised (`Settled`), and at every
step of a save they are that, or cut with what was there in the hands of the
thread, or already what will be promised (`StageOK`). Nothing is assumed of what
`.env` holds at first: `wanted` begins with it, and a key has the value in force
(`InForce`), the shell's until the first save of a key, the file's line from then on. That a profile which was
promised stays one a later form can refer to is `Promised`. `TypeCorrect` is the
type invariant of all of `Server`; it needs that a task has the target its step
uses (`TaskOK`).

**Only model-checked.** `LockIsGivenBack`, `ProfileConverges` and `RequestsEnd`
are liveness, which is beyond the prover. What they rest on and is safety is proved:
`BusyIsTruthful`, `CurrentStays` and `NobodyIsEverStuck`.

## 5. Where the code and its documents disagree

Each is a violation run whose counterexample is short enough to read.

1. `RefreshLockRaceFound`, `MutualExclusion`: the existence check and the write
   of `acquire_lock` are separate (`runner.py:241`, `:250`), so two calls may
   both run.
2. `L4WorkflowTraceFault`, `FailedRunKeepsLatest`: the trace of a finished step
   is appended in the try of the step (`workflow.py:430`); when that raises for
   publish, a FAILED run has replaced `latest.json`.
3. `ProfileAuditRace`, `AuditIsOwn`: `last_audit` is shared by the threads that
   share the compiler (`profile_compiler.py:289`).
4. `SourcesReimport`, `ImportReplacesBinding`: a binding config that comes back is found as the
   inactive row it was and stays inactive (`repositories.py:370`).

The same modules show under which conditions the documented behaviour does
hold: 1 while requests reach `acquire_lock` one at a time; 2 for every failure
up to `validate_compose` (`LatestIsValidated`, proved for every set of faults):
only a run that fails after the file was replaced, in recording `publish` or in
the step `trace`, is FAILED and shown by `latest.json`.

Met while modelling, with no run of their own (the documents are in
`src/codex-workspace/docs/superpowers/specs`):

- Rows appended before the ranking raised conflict with the baseline it falls
  back to (`ranking.py:421`), so that run fails instead
  (`2026-07-12-l4-m8-workflow-dashboard-decision.md:61`); `L4Workflow` has the behaviour.
- The settings page always sends a name with a configuration, and the server
  takes such a form for a new configuration when its template is the custom one:
  a second save of a custom configuration under its name is refused, while
  `2026-07-08-agentic-core-design.md:306` says that a named configuration is
  created or updated.
- Ingest merges no inbox page with the feed entry of the same link
  (`2026-07-12-l4-m8-workflow-dashboard-decision.md:30`); `HandoffHasNoTwins` says which twins
  remain, `OneStoryOnce` that the ranking merges them.
- The store deduplicates within a day only.
- The agent's weights add up to one with the penalty among them, so its component
  ends at 4.5 of 5; `source_diverse` 0 still takes one item; an item whose story
  is represented by another in the pool is ranked by its baseline.
- After a save the whole of `.env` overrides what the shell exports, not only
  the key that was saved (`app.py:1010`, `:1137`). In the documented setup, a copy
  of `.env.example` (`README.md:35-36` of the repository), that blanks a key which
  the shell exports and nobody has touched, with the first save of any other;
  after a restart the shell's value is back. `LastSaveHolds` says which value is in
  force when (`InForce`), and the run begins with such a file.
- A text with U+0085, U+2028 or U+2029, which a feed or a pasted note may hold,
  makes the items file of its day unreadable (`store_canonical_jsonl.py:21`, `:43`):
  every later refresh of that day fails. The inbox is merged into every refresh, so
  with a pasted note it is the same every day: the first refresh stores it, the
  others fail. `DamageStaysInItsDay` and `PublishedIsStored`
  name this case beside the cuts.
- A share of a creator whose probe failed leaves an inbox binding only. Switched on
  it counts as runnable, and the conversion for the collector drops it
  (`source_catalog.py:141`); switched off, its pages are still merged
  (`workflow.py:719`).
- A feed whose dates have no zone (`ingest_adapter_output.py:37-50` keeps them so)
  makes `now - time` raise in the scoring (`build_signals.py:132`), a mandatory step.
  The model's dates have one.

## 6. Plan

Done, most important first: the lock, the workflow and its lifecycle, the
profile loop, the sources, the files and the ranking of a refresh, the database
and the settings under one server. What is left, in order:

1. The candidate filters of `discovery.py` against a table of what they promise;
   several observers, once something under `src/` calls `observe_and_transition`
   (only tests do today).
2. Inbox items: their texts in SQLite, retries of a submission and what the
   answer says.
3. The profile service that `app.py` keeps, as a reader of `Settings`, once a
   document says when a save must reach it; the same holds for saves that
   overlap.

## 7. Not modelled

- The static web client and the read views of the server keep no state the
  program relies on.
- RSS parsing, URL normalisation, HTTP, search and feed discovery are input and
  output; the modules use whether they succeed, and of an entry what its keys and
  scores depend on.
- The runtime adapter and the tools wrap an external model library; the modules
  use only whether a call returns.
- Of the configuration: files without `provider_profiles` (`_write_local_model`,
  `_map_legacy_provider_overrides`), `config_name` alone on such files, the
  runtime controls and the start of RSSHub, for which `PUT /api/settings/env`
  keeps the event loop up to a minute. The feature flags are read once; the one
  that changes the control flow of a refresh (`agent_ranking`) is a
  nondeterministic choice.
- Of the database: reads outside a transaction, which take no lock and see a
  draft of the same connection; a `COMMIT` that raises and leaves the transaction
  open, which SQLite does only when it could not write its journal at all; the
  tables themselves, which the modules of their components model.
- Of `.env`: references from one variable to another, a line dotenv cannot parse,
  and a server whose `load_dotenv()` finds another file than the one it writes.
- Saves of settings that overlap or are cut off are steps of `Settings`, but
  nothing is claimed of what they leave.
- Of the catalog: the history tables, the templates of a text and two entries of
  a text that share a feed url. Of the migration: report files, backup copy and
  command line. Of discovery: the filters, whose verdict is a nondeterministic choice.
- Of the refresh: `cleanup_temp_dirs`, the text of signals and reports, the
  prompt of the assessment.

## 8. Running

`tlc -workers 2 -config Sources.cfg MCSources.tla` checks a run; each takes from
a few seconds to about two minutes. `tlapm Sources_proofs.tla` checks a proof module,
in up to ten minutes.
