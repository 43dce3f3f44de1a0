# Slate agent kit: a TLA+ verification project

This directory holds TLA+ models of the parts of the repository whose
correctness depends on order, concurrency and failure, TLC configurations that
check them on small instances, and theorems that TLAPS checks for every value
of the constants. Paths below are relative to the repository's root.

## 1. The system and its components

The kit installs working rules into agent harnesses and gives them two MCP
servers. `dispatch` runs other agents' command lines as background processes
and keeps their records. `palette` edits a project's engineering documents. An
installer puts the files in place.

| Component | State | Operations | Interacts with |
|---|---|---|---|
| dispatch run store (`shared/mcp-servers/dispatch/src/store.rs`) | one SQLite file: a row per run, an id counter | guarded insert, mark running, finish, mark interrupted, reads | every server and every `wait` process opens the same file |
| dispatch executor (`executor.rs`) | a registry of cancellation tokens; per run a detached task, a channel of events, a deadline of the association watchdog | spawn, cancel, drive, watch, restart, finish | calls the store, drives an agent-exec chain |
| dispatch server (`main.rs`) | one process: booting, serving, shutting down | submit, consult, cancel, steer, status, reconcile, graceful shutdown | clients over stdio; the executor; other servers through the store |
| liveness (`liveness.rs`), `wait` (`wait.rs`) | none | is the owner of a row still the process that wrote it | the clock, the process table, the store |
| agent-exec attempt (`shared/crates/agent-exec/src/run.rs`, `guard.rs`, `guard/winjob.rs`, `bin/agent-guard/`) | a child process group or a Job Object, a guard process, a read loop | spawn, drain, kill, the guard's registration and watch | the executor's tokens and channel; the kernel |
| agent-exec output (`capture.rs`, `agy.rs`, `failure.rs`, `errkind.rs`) | bounded buffers of what a process prints | capture, verdict, classification, the chain of models | the terminal row |
| agent-exec command lines (`argv.rs`, `spec.rs`, `reentry.rs`) with dispatch's `backend.rs`, `consult.rs` | none; a marker in the environment | build the command line and environment of a backend | the dispatch server that backend boots |
| dispatch opencode runner (`opencode.rs`) | a server process, a log, a task that copies events | launch, send, answer, cancel, close | HTTP server, the row |
| dispatch logs (`rollout.rs`), harness-log (`shared/crates/harness-log/src/`), transcripts (`transcript/`) | the logs harnesses write | find a session's log, page it, count its tokens, forward a conversation | the row's session; four log formats |
| palette writes (`shared/mcp-servers/palette/src/vfs.rs`, `ops/mod.rs`) | the project's files, a lock file, an overlay per call | lock, load, change, regenerate, lint, commit, roll back | other palette processes, people with editors |
| palette records and changesets (`ops/records.rs`, `changeset.rs`, `lint/`) | RFCs and ADRs, pending edits of documents | create, update, refresh, edit a changeset, promote | runs inside a palette write |
| palette backlog and state (`ops/backlog.rs`, `ops/state.rs`) | items, phases, deliverables; decisions, questions, discrepancies | add, move, open and close phases, record, answer, graduate | runs inside a palette write |
| palette layout (`layout.rs`, `docs.rs`, `generated.rs`, `ops/init.rs`) | where thirteen families of documents are; mirrors | read a path, place, move a family with its links, infer in a checkout | links, changesets, mirrors |
| palette text (`rst.rs`, `reflow.rs`, `edit.rs`, `text.rs`, `util.rs`) | lines of a document | read lines, rewrap, edit a title, field or section | every write call |
| setup (`shared/setup/src/apply.rs`, `manifest.rs`, `config/`, `harness/`, `mcp.rs`, `retire.rs`, `serve.rs`, `uninstall.rs`) | harness configurations, a manifest per owner, registrations, binaries | install, mcp, retire, uninstall | files the user edits as well, servers that run |
| setup files (`plan.rs`, `prefs/`, `rules.rs`, `kit.rs`, `created.rs`) | the files of a home | plan, confirm, execute, migrate preferences | the person's own files |
| setup binaries (`binaries.rs`) | the binary folder, temporary files | choose a release, verify, download, replace | a release site, running servers |
| handshake, parameters, rendering, wizard, descriptors | none | parsing, text, tables | |

What is hard, per component, and what makes it correct:

* **Store.** Several processes write one table. Correct: of the executions
  active in one directory only those that asked for it share it
  (`allow_concurrent`), ids are dense, a row that ended never changes.
* **Executor.** A cancel, the watchdog, a natural exit, a signal and an event
  still in the channel meet in one task, and the row is written without a
  condition on its status. Correct: a row is active exactly while its task is
  on its way to the terminal write; a run is restarted at most once; a run ends
  cancelled or interrupted only for a cause; what was cancelled does end.
* **Server.** Boot and status reads judge the rows of other processes from
  their pid, their start time and the clock; steer acts on a row it read
  before; the shutdown has one snapshot of the registry and a deadline.
  Correct: rows of the dead are settled, rows of the living are left alone, and
  a backend session is resumed only when the process that held it is gone.
* **agent-exec attempt.** A process, its helper and its group outlive the answer
  about them, and the guard learns of deaths from events that may come late.
  Correct: a cancelled attempt leaves nothing of its tree and kills nobody else;
  a guarded backend dies with its server.
* **agent-exec output.** A failure is classified from text that was cut, and a
  chain gives up a model on that judgement. Correct: what a row shows is what
  was printed, or says it was cut, and no run stops at a transient failure while
  a model is left.
* **Command lines.** A backend may boot a dispatch server of its own, which
  would start backends. Correct: an execution is never under another run, and
  none writes that was asked to read only.
* **Associations.** Events of several attempts, a watcher of log folders and
  readers of the row all name the session. Correct: a row names a session of
  its own, and of its last attempt once it ended.
* **opencode.** The run, the reader of events and the cancellation meet at a
  server that may not answer. Correct: the completion is the last line of a
  turn; a cancelled run ends.
* **Logs and transcripts.** A log grows while it is paged; several turns share
  a log; a headless run leaves sessions beside the caller's. Correct: pages add
  up, tokens add up, the caller's conversation is the one forwarded.
* **Palette writes.** Several processes and people change the same files; a
  commit has many steps that fail or are cut short. Correct: one call at a time
  between load and last rename; all of a call's files or none; an index that
  says what its records say; a hand edit a call has not seen is kept.
* **Palette documents.** Each call is a function; what goes wrong takes a long
  sequence of legal calls. Correct: no edit is lost or landed twice, statuses
  follow from relations, items and phases agree, no matter is dropped, two
  targets never share a mirror, links survive moves, a rewrap settles, an edit
  of one section leaves the others alone.
* **Setup.** Files are shared with the person, binaries with the other homes; a
  run dies or fails between any two phases. Correct: after uninstall a
  configuration holds what the person had or wrote, everything registered is on
  record, a registered server has its binary, a binary stands whole, and the
  binaries of one download are of one release.

`PROJECT.json` lists every component with its status, and every hazard with the
line where it bites.

## 2. Modules

```
RunBoard            the store's promise
   ^ refined by
Dispatch            servers, tasks, store, registry  DispatchProofs (both)
   MCDispatch       symmetry and a constraint for TLC

PaletteProject      the write tools' promise
   ^ refined by
PaletteCommit       lock, overlay, commit, rollback  PaletteCommitProofs (both)
Changesets  Backlog                                  DocumentsProofs (both)
Layout  Prose                                        what whole calls do to the documents
   MCPalette        the five as parts of one instance

Attempt             the processes of one attempt
Opencode            the runner over HTTP
Outcomes            what a row says of its run
Delegation          who may start whom               AgentsProofs (these four)
Association         the session a row names
Timeline            who reads a log                  AssociationProofs (these two)
Transcript          what a consultation forwards
   MCAgents         the seven as parts of one instance

ConfigKeys          one key of a configuration
   ^ extended by
Setup               runs over several homes          SetupProofs
KitFiles            the files of one home
Binaries            the binary folder                FilesProofs (these two)
   MCSetup          the three as parts of one instance

Lists               a list without some entries      ListProofs
```

`MCPalette`, `MCAgents` and `MCSetup` start in one of their modules (`part`) and
take its steps while the variables of the others rest: parts with disjoint state
are checked beside each other in one run, never mixed. Modules of one group
abstract each other: a call of `Changesets` is atomic because `PaletteCommit`
shows that calls are, `Setup` fetches binaries in one step that `Binaries` opens,
and an attempt that `Association` and `Outcomes` have as one step is the subject
of `Attempt`.

### RunBoard

Rows have a `status` and a `claim` (kind, directory, `allow_concurrent`).
`Queue` admits a row when no execution is active in its directory or it asked
for company; `Run` and `End` change an active row. It says nothing about who
acts. `BoardSpec` is what clients of the store see.

### Dispatch

A step is one critical section of the code: a statement or transaction on the
store, one access to a registry, or one turn of the drive loop. Between two
steps anything may happen. `Servers` are process lifetimes: a restarted server
is another member, because the code tells processes apart by pid and start
time.

| TLA+ | Code |
|---|---|
| `status`, `claim`, `origin` | the columns of a row: status; kind, directory, `allow_concurrent`; owner, how it was made, `parent_id` / `restart_of` |
| `srv`, `Boot`, `BootJudge`, `Serve` | `run_server`, `reconcile_with`: one read of the active rows, then one judgement and one guarded update per row, then the tools are served |
| `registry`, `Spawn`, `RequestCancel`, `Deregister` | `Executor::spawn` and `request_cancel`: the token map |
| `Submit`, `Consult`, `Cancel`, `SteerCancel`, `SteerEnded`, `SteerPoll`, `SteerInsert`, `SteerGivesUp` | the tools; steer in the steps between its awaits and locks |
| `ReadReconcile` | `live_reconcile` of `dispatch_status` and of `wait` |
| `pc`: `starting`, `spawning`, `live`, `over` | `fallback_chain` and `run_inner`: before the cancellation test, past it, with a process, with an outcome |
| `event` | the `Started` event of the attempt, in the channel or consumed |
| `verdict`, `WatchdogFires`, `RestartApplies`, `RestartMark`, `RestartInsert`, `RestartGivesUp` | `Consumer::watch`, the test in `drive`, `Consumer::restart` in its separate locks |
| `Signal`, `ShutdownDrained`, `ServerGone` | `graceful_shutdown`: the snapshot, the empty registry, the end after two seconds; `ServerGone` is also the end of stdin and a crash |
| `StoreFails`: `StartUnrecorded`, `EndUnrecorded`, `SteerPollFails` | a failed `mark_running`, `finish` or `mark_interrupted` is a warning; a failed read of steer counts as ended |
| `ReadsGone` with `ClockMoves` | `alive_since` compares a start time with the row's creation time; a clock that is corrected makes a live owner look reused |
| `GuardKills` | external: the guard process or the Job Object |

Choices made where the code has more detail:

* `dispatch_cancel` reads the row, then fires the token. The two are one step:
  membership in the registry implies the row was active at some moment the read
  may have seen, so the read does not bound the fire.
* A steer fires the token of a parent it read as active; the read may be stale,
  so `SteerCancel` has no condition on the present status. Whether the parent's
  session is known is left open, and so is whether a backend is codex (the only
  one the watchdog restarts).
* The events of successive attempts of one chain are one pending `Started`:
  consuming it twice writes the same value.
* What a lost server had in memory is gone; a row it had inserted without
  spawning keeps `inserted`, so that the properties can tell it.
* Handlers in flight go on during the shutdown, which only waits.
* Rows written by versions without an owner column, descendants that closed
  their stdio, and the opencode runner's own protocol are left out.

### PaletteProject and PaletteCommit

`PaletteProject` is a function from files to contents that changes by whole
calls: some records are rewritten or deleted and the index, which is a function
of the records, is generated. `PaletteCommit` is the code: a step is one
operation on the file system.

| TLA+ | Code |
|---|---|
| `lock`, `Acquire`, `GiveUp`, `Return` | `ProjectLock`: an advisory lock tried every 25 ms for 10 s, dropped at the return or with the process |
| `baseline`, `changes`, `Old`, `View`, `Effective` | `Overlay`: what was first read of each file, what is to be written, what a read gives, `effective_changes` |
| `Read`, `Operate`, `Generated`, `Finish`, `FinishUnchanged`, `Refuse` | `run_transaction`: load, the operation, `regenerate` with its second load, lint, nothing to do, any error before the commit |
| `Check`, `Conflict` | the comparison of every changed file with its baseline |
| `Stage`, `ReadPrevious`, `Rename`, `Delete`, `NextPhase`, `Committed` | the loops of `commit`, in path order |
| `StepFails`, `Undo`, `RolledBack` | the rollback: temporary files first, then the undo list backwards, its own failures collected |
| `Killed`, `Edit` | a process dies (external cause); a person writes or removes a record (external) |

File 0 is a generated index, files 1 to `MaxRecords` are source documents, in
the order of the loops. A record's content is the name of the call that wrote
it, or one of two texts: contents matter only for who wrote them. Listing a
folder and reading one of its files are one step. Which records an operation
writes, and whether it is refused, is left open. Folders that are created and
removed are not modelled, and neither are the transactions without a lock
(`palette_init`; `generate` in a checkout without `_palette/`).

`Seen` is the refinement mapping: while a call is between its conflict check
and its return, the project is what that call read; otherwise it is the disk.
So a call takes effect in the one step in which it returns.

### Changesets, Backlog

An action is a whole write call, with the lint errors in the files it touches
that refuse it.

| TLA+ | Code |
|---|---|
| `recs`, `RecordCreate`, `RecordUpdate`, `RecordRefresh`, `Marked`, `Fresh` | the header fields of RFCs and ADRs; `ops/records.rs`; who is marked Superseded, who may be |
| `sets`, `ChangesetEdit`, `Place`, `SameEdit` | the edits of a changeset; add, replace, remove |
| `ApplyEdit`, `Staged`, `Resolves`, `DependencyOrder` | `changeset.rs`: an edit at a heading of a document, staging built from the changesets in the order of dependencies |
| `ChangesetPromote`, `Selections`, `Waits`, `Remaining` | the promotion of all or of named edits, which waits for dependencies |
| `items`, `phases`, `BacklogAdd`, `MoveItem`, `RelateItem`, `PhaseOpen`, `PhaseClose`, `Deliverable...` | `ops/backlog.rs` |
| `decisions`, `questions`, `discrepancies`, `Record`, `Decide`, `Graduate`, `Answer`, `Withdraw`, `Fix`, `DropPointers` | `ops/state.rs`; an entry is a pointer when its text reads as one (`is_pointer`), which the caller of `Record` or `Answer` may bring about (`reads`) |

A document is its headings; a text is the number of the edit or matter that
brought it. So a property says where each text is, after any sequence of calls. History:
`resolved` has the matters a call graduated, withdrew or fixed, `worded` those of
decisions that were written in the words of a pointer.

### Layout

| TLA+ | Code |
|---|---|
| `lines`, `ParseLayout`, `RoleOf`, `Discovery` | `layout.rst`, its errors, and which family claims a path |
| `ResolveTarget`, `SnapTarget`, `MirrorFile` | a spelling of a changeset, the document it means, its staging mirror |
| `InferLayout`, `Implied`, `Classified` | what a checkout without `_palette/` infers from the files |
| `LayoutSet`, `MovedFiles`, `RewrittenInPlace`, `MovedLinks`, `Regenerate` | `palette_layout_set`: one family's move, both ends of every link, mirrors, the link check |
| `PaletteInit`, `GenerateCall`, `AddEdit`, `EditLayout`, `Checkout` | the other calls that read the layout, an edit by hand, a clone |

### Prose

`Parsed` reads lines as `rst.rs` does (headings, lists, tables, literals,
fields); `Reflow` is `reflow.rs` with its rule that a document whose structure
would change is left alone; `SetHeaderField`, `Retitle`, `AppendToSection` and
`ReplaceSection` are the splices of `edit.rs`, with the line endings of `text.rs`.
A word is its length; words that mean something to the scanner are markers.

### Attempt

A state has the server, the guard, the program, a helper the program started,
and the events the kernel has for the guard. `RunStep` is `run` in agent-exec:
`SpawnContained`, `Exited`, `Cancelled`, `KillTree`, `Drained`, `CancelDrain`.
`GuardStep` is the guard's main: `Arm`, `CheckParent`, `Fork`, `Register`, `Wake`,
`Recheck`, `KillGroup`, `Mirror`. `WorldStep` and `ServerGone` are external:
processes exit, a helper leaves its group or holds the output, an id is reused,
the server is killed or ends. The three platforms and the three guard modes are
chosen at the start.

### Opencode

`step` is where `run_inner` is, between launch, health, session, log, message,
answer and close; `stream` is the task that reads events; `World` may cancel,
answer, stop the server, or hold its stderr. A line of the log is its kind.

### Association

A session is named by the attempt that opened it. `Prepare` and `Retry` build
attempts, `OnStarted` and `OnFinished` consume their events, `Watch` is the
search for a codex rollout by marker, session or directory, `LogsResolve` and
`SteerResolve` are the reads that write a session back, `Restart` and
`SteerInsert` make rows that resume. Logs appear on disk when an attempt writes.

### Outcomes

From what processes print to the terminal columns: `PushLine` is a capture under
its cap, `AgySends` and `Judge` agy's stream and verdict, `Classify` and
`FailureText` the class of a failure, `Judge` and `StartProcess` the chain of
models, `Terminal` the row. A line is one unit of a cap and is told apart by what
the classifier finds in it.

### Timeline, Transcript

`Timeline` is one session's log, in the format of each harness, while rows run
in it: `Curate` is `rollout.rs`, event by event (`AddEvent`) and line by line
(`Curated`), `Page` a call of `dispatch_logs` with its byte cap, tail and start line, `CodexRollout` the accounting in `usage.rs` from
cumulative and per-turn counts. `Transcript` is many sessions on one machine:
`Located` is the search of each harness, `Forwarded` what a consultation sends.

### Delegation

Runs and the dispatch servers their backends boot form a tree. `Command` is the
command line per backend, purpose and sandbox; `NextDepth` the re-entry marker;
`RefusedAt` what a nested server refuses; `SteerTo` and `RestartAs` make runs
from runs. `Boots`, `Callable` and `MayWrite` say what a backend does with its
command line and are external.

### ConfigKeys, Setup

`ConfigKeys` edits one key, records the edit, and restores it: a value comes back
only while it is still the installer's; of a list only added entries go. `Setup`
has homes of four harnesses, a manifest per owner (a kit, or the mcp servers in
one home), and shared binaries. A step is one phase of a run: `Fetch`,
`RetireServers`, `RetireBinaries`, `Serve`, `Save`, `Unregister`, `RestoreKeys`,
`Delete`; `StepFails`, the `...Stops` forms and `Dies` end a phase in the middle;
`EditOwnModel`, `AddOwnEntry`, `RemoveEntry` are the person's. `handed` has the
servers a report asked the person to remove by hand (a manual step, or a refusal
a retirement met), and `kept`, which is history, those whose removal was refused
at an uninstall: `unserve` reads no refusals, so that nobody is told of them.

### KitFiles

A path holds a file: who owns it by its signature, and its text by sections.
`PlanInstall` and `PlanUninstall` read the home and the choices into changes,
`PlanRun` shows them and waits, `InstallRun` and `UninstallRun` carry them out
as far as no change fails, `Touch` is a person's edit at any time. `Migrate` and
`PlanPrefsOf` bring preferences from earlier names and layouts. A skill is a
folder: its path stands for its `SKILL.md` and what else the kit put there, and a
longer path for a file of a person's in it (`Inside`). The signature of `SKILL.md`
decides about the folder (`DecideSkill`), which is replaced, dropped and deleted
with everything inside.

### Binaries

`ResolveSums`, `ResolveProbe`, `ResolveLatest` pin the release, `DownloadOne`
verifies against `checksums.txt`, `WriteTemporary` to `CleanUp` are the file
operations of one replacement with the fallbacks for a binary in use. `Publish`
(external) makes a newer release the latest between two downloads; `Killed` and
the mishaps may come at any step.

## 3. Runs

Every run has `CHECK_DEADLOCK FALSE`: all servers may be gone, all rows used,
all calls ended, all bounds reached.

| Run | Instance | Question | Result |
|---|---|---|---|
| Races | `MCDispatch`: 2 servers, 3 rows, submit, cancel, restarts | `OneWriterPerDir`, `ActiveRowHasTask` with peers reconciling each other | hold |
| Implements | 1 server, 2 rows, all calls, fallback chains, failing statements | `ImplementsBoard` | holds |
| RunLive | 1 server, 2 rows, submit, cancel, steer | `SessionHandedOver`; `CancelledRunEnds` under fairness | hold |
| BootLive | 2 servers, 1 row, a corrected clock | `BootSettles` under fairness | holds |
| Commit | `MCPalette`, the files: 3 calls, 2 records, failing steps | `ImplementsProject`; `CallsEnd` under fairness | hold |
| Palette | `MCPalette`: 2 calls with hand edits, kills, failing steps and rollbacks; records; backlog; layout; prose | 13 properties, below | hold |
| Setup | `MCSetup`: homes, files, binaries | 8 properties, below | hold |
| Agents | `MCAgents`: seven parts | 11 properties, below; `GuardedTreeDies`, `CancelledAttemptEnds` under fairness | hold |
| CancelRace | 1 server, 2 rows | `CancelWins` | violated |
| PromoteTwice | `Changesets`, calls that name an edit twice | `EditsAccountedFor` | violated |
| Outlives | `Attempt`, a server that ends by itself | `GuardedTreeDies` | violated |
| StagingOverNotes | `Layout`, a move of the staging family | `DocumentsSurvive` | violated |

What Palette, Setup and Agents ask:

| Property | Says |
|---|---|
| `RefusedLeavesNothing`, `UnseenEditKept`, `RepairsIndex` | a refused call leaves nothing of its own; an edit a call has not read is kept; a call repairs the index an earlier one broke |
| `SupersededIsNamed` | a record is Superseded exactly when an entry names it whole, in every order of creating, superseding and rejecting |
| `EditsAccountedFor`, `PromoteKeepsStaging` | an edit is pending, landed or dropped and never two of these; what a promotion landed does not change the staging documents of related records |
| `ItemsInActivePhases`, `MattersKept` | an item in a phase is in an active one; a matter is in one entry until settled, which takes a resolution or a decision in the words of a pointer, and no two entries of a section share a number |
| `MirrorsApart`, `CheckoutAgrees`, `LinksFollow` | no two targets share a mirror; a checkout reads files as the layout did; a move leaves every link leading where it led |
| `ReflowSettles`, `WritesOneSection` | a rewrap keeps words, headings, literal text and paragraphs and is a fixed point; an edit of one section changes that one |
| `SettingsComeBack`, `RegistrationsOnRecord`, `RegisteredServerHasBinary` | when nothing is installed, a home's settings are the person's; what is registered is on record, or was given up; what is registered can be started |
| `NothingLeftBehind`, `Repeatable`, `TheirWorkKept` | no file of the kit outlives it; a complete run repeated changes nothing; the person's text is in the file or in a backup, unless it was in a skill's folder |
| `BinariesStand`, `OneRelease` | no partial binary under a binary's name, and none missing after a failure; binaries verified by one list are of one release |
| `CancelledTreeIsGone`, `GuardedTreeDies` | a cancelled attempt leaves nothing and hits nobody; a guarded tree dies with its server |
| `SessionIsOwn`, `EndedRowNamesLast` | the session a row names, and a steer resumes, is the row's own, and its last attempt's |
| `TurnIsClosed`, `CancelledAttemptEnds` | the completion is the last line of an opencode turn; a cancelled one ends |
| `RowTellsTheRun` | the terminal row shows what was printed or says it was cut, and gives up no model for what was not there |
| `PagesAddUp`, `UsageAddsUp` | pages of a growing timeline fit together; a turn's tokens are those of its requests |
| `ForwardsTheCaller` | a consultation forwards its caller's conversation |
| `NestsNoDeeper` | an execution is under no run and a consultation only under executions; a process that may write is an execution's, and was not asked to read only |

Why the bounds are enough:

* **Dispatch.** Two rows make every pairwise relation (two backends in a
  directory, a run and its restart, a parent and its resume); the third row of
  Races makes a restart that is itself killed, and a run that takes the directory
  in the gap between mark and insert. `FewRows` keeps the third row to histories
  of one server. One directory is where runs collide; a second one only separates
  them. Two server lifetimes are a server and its peer, or a server and its
  successor. What small instances leave apart (a steer from one server against a
  restart of another) the theorems cover.
* **Files.** `MaxRecords = 2` and the index give a commit with a first, a middle
  and a last file, writes before deletions, and a record the call reads and does
  not change. Two calls overlap, or the second works on what the first left
  broken; a third (Commit) makes a queue for the lock. `MaxEdits = 2`: an edit
  the call has read and one it has not.
* **Documents.** `MCProjects`: two records from nothing with four updates (create,
  supersede, reject, clarify); three records with a dependency across kinds, so
  that a chain and a cycle can form; two records with an edit each, on which a
  promotion waits; three edits of one record over two nested headings, so that
  one edit changes what the next one names. `MCPlans`: two items and two phases,
  or three matters and a phase. `MCSites`: a project with every kind of link, and
  one with documents whose mirrors could meet; `MaxSteps = 3` is an edit, a move
  and a checkout, or two moves. Papers: all documents of up to four lines over the
  `LongSets`, three over the `ShortSets`, and titled documents with two headings;
  `Wrap = 6` breaks two words of three characters; `MaxTouches = 1`: the properties
  relate a document to its successor, and ask that a second rewrap is none.
* **Setup.** `MCScopes`: an install, a second release over it and an uninstall,
  with an edit; two runs with an edit and a fault; two homes that share binaries,
  of each pair of harnesses that differ. `MCStarts` and `MCTouches` cover each
  kind of file a run finds, a person's notes in the folder of a skill among them,
  and edits before and after its plan. Binaries has
  `MaxInstalls = 2` (the second finds what the first left), `MaxFaults = 3` (a
  rename, its retry and the way back), and sites that are whole, without
  checksums, with a hollow archive, and with a wrong sum.
* **Agents.** `MaxRows = 2` with one submission: a row and its restart or resume;
  `Chain = 2` and `MaxModels = 2`: an attempt and a retry. `MaxEvents = 2`, `MaxLog
  = 3`, `MaxTurns = 2`: a turn before the row's, one of its own, an event that
  spans the page's end. The caps (`ByteCap`, `TailLines`, `ScanCap`, `MaxBytes`,
  `StdoutCap` at 2; `FailureCap`, `StderrCap`, `TextTail` at 1) are below
  `MaxLines = 3` and `MaxSaid = 3`, so that each cuts and also does not.
  `MaxSessions = 2`: the caller's and another. `MaxServers = 2`, `MaxDelegated =
  3`: a tree of one nested server with a run resumed or restarted under it.
  `PastAll = 9` is the depth of a malformed marker, beyond any reached.

Symmetry: server lifetimes (Races) and write calls (Palette) are interchangeable
names; no run that checks liveness uses it.

What the violations show, each a disagreement of the code with what a comment
or a document says of it (quoted in `PROJECT.json`):

1. **CancelRace.** The task tests its token, then marks the row, then inserts
   the successor. A cancel between the test and the insert is acknowledged and
   the run is restarted all the same.
2. **PromoteTwice.** A promotion that names one edit twice counts two: the other
   edit of the changeset is deleted with its file and the implementation called
   complete.
3. **Outlives.** When a client closes the connection the runtime drops the calls
   in flight, which kills the guard and not the backend behind it.
4. **StagingOverNotes.** Placing the staging family at a folder of documents is
   accepted, since only the new paths of moved files are looked at; the documents
   are then read as mirrors, and the same call deletes them.

More weaknesses show as preconditions of what holds. `SessionHandedOver` needs a
store that answers, because a failed read of the parent's row ends steer's wait.
Everything about rows that ended needs a clock that is not corrected under a
running server: a reader would take the server for another process and mark its
rows interrupted, and the task's own unconditional write would change them
again. A run between insert and registration has no token, so a shutdown then
leaves its row queued for a later reconciliation. `UnseenEditKept` needs an edit
before the conflict check (`LateEdits = FALSE`): one after it is overwritten.
`RepairsIndex` excepts records edited during the call, because only files that
change are compared with what was read. `RegistrationsOnRecord` and
`SettingsComeBack` except homes where a run ended without saving its manifest
(`torn`), and `NothingLeftBehind` a run that lapsed so. `TheirWorkKept` excepts
files changed while the plan waited for its confirmation, which are not read
again; copies of the person's rules, which follow their folder; and signed files
in an uninstall that was told to remove them, in no other. `RefusedLeavesNothing`
excepts a rollback that failed itself.

Three exceptions are there because the code does not do what a document says;
without them TLC finds the property violated.

* `MattersKept` lets a decision leave that is `worded` like a pointer. Whether an
  entry is a pointer is read from its text (`is_pointer`): one that says
  "Graduated to" or "Written:" anywhere is recorded as it is, cannot be graduated,
  and goes when a phase closes, which the specification has remove the pointers of
  graduated decisions (`docs/spec/palette-server.rst:434`).
* `RegistrationsOnRecord` lets a server go off record that is `kept`. A retirement
  reports the removals a harness refused (`retire.rs:488`); an uninstall does not
  (`serve.rs:415`) and deletes the manifest: the server stays registered, and
  neither the report nor a record says so, against `docs/spec/installer.rst:463`.
* `TheirWorkKept` lets a file go with the folder of a skill (`GoesWithSkill`). The
  folder is judged by its `SKILL.md` and replaced or removed as a whole, as
  `docs/spec/installer.rst:246` has it, with the files in it that a person signed as
  their own, which `docs/design/architecture.rst:119` has every run keep.

## 4. Fairness

`LiveSpec` of Dispatch has weak fairness for what the server's own code does
without waiting for anybody: `ServerProceeds` of each server and `TaskProceeds`
of each run. The tokio runtime schedules ready tasks; the store's statements
and the kill of a process group return. Nothing is assumed of clients, of
backends (an attempt may run for ever), of a server's end, or of the guard.
Steer's poll has a limit, so `SteerPoll` may go on while the parent is active.

`FilesSpec` (Commit) has weak fairness for `CallProceeds` of each call: a
synchronous program goes on. Nobody has to start a call, be killed or time out,
so `CallsEnd` shows that a wait ends because the call inside does. An advisory
lock is not fair, but there are finitely many calls.

`AttemptFairness` is weak fairness of `GuardProceeds`: the guard is a program
that handles the events it has and goes on between its system calls. The server,
the backend and its helpers owe nothing. `OpencodeFairness` is weak fairness of
`OpencodeStep` (the run goes on when it does not wait for an answer or a token)
and of `StreamProceeds` (so does the reader). The HTTP server owes nothing: it may
never answer, which `CancelledAttemptEnds` allows for by the code's own timeouts
and names the two waits that have none.

## 5. Proofs

| Module | Theorems |
|---|---|
| `DispatchProofs` | `BoardInvariant`, `BoardDirGuard`, `BoardTerminalRowsStay`; `TypeCorrect`, `DispatchImplementsBoard`, `DispatchDirGuard`, `DispatchTerminalRowsStay`, `DispatchOneWriterPerDir`, `DispatchRestartSingleShot`, `DispatchEndsForAReason`, `DispatchActiveRowHasTask`, `DispatchSessionHandedOver`, `DispatchCancelReaches`, `DispatchDrainedRunsEnded` |
| `PaletteCommitProofs` | `PaletteTypeCorrect`, `PaletteOneCallInside`, `PaletteRefusedLeavesNothing`; `PaletteImplementsProject`, `PaletteRepairsIndex`, `PaletteUnseenEditKept` |
| `DocumentsProofs` | `BacklogItemsInActivePhases`, `BacklogMattersKept`, `ChangesetsSupersededIsNamed`, `ChangesetsEditsAccountedFor` |
| `AgentsProofs` | `OpencodeTurnIsClosed`, `AttemptCancelledTreeIsGone`, `DelegationNestsNoDeeper`, `OutcomesRowTellsTheRun` |
| `AssociationProofs` | `AssociationSessionIsOwn`, `AssociationEndedRowNamesLast`; `TimelinePages`, `TimelineUsage` |
| `FilesProofs` | `BinariesOneRelease`, `BinariesBinariesStand`; `KitFilesNothingLeft`, `KitFilesTheirWork` |
| `SetupProofs` | `SetupInvariant`, `SetupTypes`, `SettingsReversed`, `RegistrationsRecorded`, `RegisteredServersHaveBinaries` |
| `ListProofs` | lemmas about lists and finite sets that the others cite |

They hold for any number of rows, directories, servers, records, documents,
calls, events, lines, requests, pages, models, homes, owners, installations, edits, faults,
files, headings, answers and binaries, any release site, all limits of a capture,
and all platforms and guard modes. Assumptions on the constants are the named
`ASSUME`s of the modules, which TLC evaluates in the runs. Most say that a bound is a number, a switch is a Boolean or two names
differ. The others describe the inputs:

* `RequestsAssumption`, `SitesAssumption`: a request names each binary once; no
  release is called like the mark of a file written in part.
* `ProjectsAssumption`: a project starts as one lint has nothing to say of.
* `InputsAssumption`: a caller does not give an edit its number.
* `EventsAssumption`, `CountsAssumption`: the blocks of an event are a list, and a
  request says of each of its four counts a number or nothing.
* `MarkersAssumption`: a marker that is a number is one of a `u32`.
* `AsksAssumption`: agy is never asked to consult (main.rs refuses it).
* `AgyResultsAssumption`: what a result event of agy is made of.
* `SetupAssumption`, `NoneAssumption`: a harness home that has a kit is a home,
  releases ship servers, a person writes no model that stands for none.
* `StartsAssumption`: a home starts with finitely many files and with its
  manifest, which lists the files with the kit's signature; a home without a
  manifest has none.
* `KitAssumption`: a release ships finitely many rules and skills, none of them
  under the name of a preferences file, no preferences under an earlier name, and
  templates whose headings are the settings and the sections a migration keeps
  (prefs/schema.rs, prefs/migrate.rs and the files of the kit).
* `TouchesAssumption`: a person does not write the kit's signature.

Lists that lose entries are written `KeptAt(s, places)` (Lists) and a function
with one more argument `Holding(f, x, v)` (Changesets) or `Having(f, x, v)`
(KitFiles), since the prover knows neither `SelectSeq` nor `@@`. What holds of
the first of a list and passes from one to the next holds of all (`SetInduction`
in ListProofs, from the well-ordering of the numbers): lists of changes are
followed with it, and lists of lists flattened (`FlattenFacts`).

**Dispatch.** None of the safety properties is inductive alone. `ImplementsBoard`
needs that a task's unconditional write finds its row active, which needs to
know where every task is when its row is active, and that nobody but the task
ends the row of a live server. That last fact fails if the clock is corrected,
so these theorems assume `~ClockMoves` (`TypeCorrect` does not). `IInv` is the
conjunction of

* `TypeOK` and `BoardInv` (ids are dense, the directory guard),
* `Core`: pc, row, process, event, token and registry of a run agree,
* `Held`: a process that is alive belongs to a row that still holds its
  directory, or to a server that is gone,
* `EndCaused`: a row that ended cancelled or interrupted has its cause,
* `Restarted`: what a successor says of its predecessor.

`Tended`, which needs `~StoreFails` as well, adds that an active row of a live
server has a task, that a drained server left only what it never registered,
and what steer may rely on while it waits and after. Each is shown to hold
initially and to be preserved action by action, and each property follows from
it. `DispatchImplementsBoard` maps every action to a step of `RunBoard` or to a
stutter; `DispatchDirGuard` and `DispatchTerminalRowsStay` then follow from the
theorems about `RunBoard`.

**PaletteCommit.** `IInv` is `TypeOK`, `OneCallInside` and `RenameFits`: a file
about to be renamed has new content, and what the rollback would put back is
something that file may hold. That a refused call leaves nothing is not
inductive: a call that is still open has files of its own on the disk. `RInv`
adds

* `IndexStays`: the index is never removed, so a rollback of it writes something,
* `Once`: a file is replaced once, and only removed files are deleted,
* `PutsBack`: a call has something to put back only between its first rename and
  its end, and a rollback that meets no problem knows all of it,
* `Known`: a file on disk that bears the mark of an open call is in that call's
  undo list,
* `Unremembered`: no baseline, undo entry or previous bytes of anybody bear the
  mark of an open call, so nobody can put its content back later.

The last is what needs the lock: another call reads the mark only after this one
returned.

What a commit does to the project needs `LInv` as well: a call outside has
nothing (`Clean`), and of the call inside (`Held`),

* `Owned`: it writes its own text, and only where it has read,
* `Remembers`: it remembers of a file what the disk has, until it replaced it,
* `Planned`: it is going to leave an index of its records,
* `Listed`: what a phase still has to do and what was replaced are the changes,
* `Checked`: what it checked and did not replace is as it read it,
* `Undoes`: the rollback would put back what it read.

The last two speak of `Steady` files: all of them, or the index alone if people
edit during a commit. Steps that change files are one lemma each. The theorems
have the conditions of the runs. `PaletteUnseenEditKept` assumes `~LateEdits`: an
edit between the check of a file and its rename is overwritten, since the code
does not look again. `PaletteRepairsIndex` assumes
nothing. `PaletteImplementsProject` assumes that nobody edits by hand, no call is
killed and a rollback can write (`MaxEdits = 0`, `~Kill`, `"undo" \notin Faults`);
steps of a commit may fail. Its map shows, during a commit, the project the call
found: the step that ends a commit is the step of `PaletteProject`, a rollback and
everything else stutter.

**Backlog.** `ItemsInActivePhases` is inductive with the types (`ItemsInv`).
`MattersKept` counts: the matters raised are those held and those settled, so
`MInv` says that the entries of a section have numbers and matters of their own
(`OfItsOwn`) and that a matter is held by one section or settled (`OneHolder`).
An entry that is a pointer became one by a graduation or was written so, hence
what a closing phase settles is in `resolved` or in `worded`.

**Changesets.** `SupersededIsNamed` is inductive with the types of the records
(`RecordsInv`), given a first project that has it. `EditsAccountedFor` needs that
an edit is in one place of one changeset (`OnePlaceEach`). It is proved for
callers that name an edit once (`~Repeats`); one that is promoted twice is what
the run `PromoteTwice` finds.

**Association.** `AssociationInv` says where each nonce comes from: a job's is of
its row, a restart's extends the one of a row that ended, a retry's ends in its
number. Two attempts with one nonce are therefore one attempt (`NoncesApart`), and
a log with the marker of an attempt is the log of its session. For the session
of a row that ended it ties the count of the consumer, which handles events
after the chain went on, to the attempts: those it counted and the one still in
the queue are those that ended (`QueueRight`); what a watcher or a reader holds
is of one of the row's attempts (`ReaderRight`).

**Timeline.** `PagesAddUp` rests on what a log can become (`Continues`): it gets
longer, and its last line may be replaced where that line made nothing, being
half an event. Two such logs are curated to the same lines up to there, and what
is curated after that appends a line or puts a later state of a part in its place
(`AddEventExtends`, `CurateGrows`). `LogOfEvents` adds that the lines from a row's
start on are of no earlier turn, or make nothing. For `UsageAddsUp`, `TokenLog`
says that what the session had cost at each line is known from the lines: an
event that is not a repetition has the counts of its request, the totals so far,
or both, and a repetition is the event before it. `TokenStep` then follows the
count line by line: the reader's totals are those of the session, it skips
exactly the repetitions, and what moved its totals is the request, or unknown if
one of them is.

**Attempt.** `AInv` says where the processes may be for each place of the call:
who is wrapped by a guard, who has a job, that a reused id means the program was
reaped before, that an outcome is given once and, if the token had fired, only
when the tree was killed; and that no stranger was hit.

**Opencode.** `OInv` is the types, that nothing ended before the answer and the
reader of events starts with the message (`OneTurn`), that an event is appended
only by a reader that still runs (`ReaderAlive`), and that a run with an answer
closes its turn only when that reader is gone (`Answered`). So the completion is
last because it is appended after the join.

**Delegation.** `TreeInv`: a server inside a backend is at the ceiling
(`BelowIsRefused`), so an execution is of a server at the top (`FromTheTop`), and
the flags and the marker of a live process are those its run was given
(`Commanded`); lemmas compute the command line of each backend. `NestsNoDeeper`
itself speaks of recursive functions over the runs. They are proved by solving
them: in such a tree a solution can be written down (`OverRuns`, `AskedOnce`), and
the least run at which another would differ does not exist.

**Outcomes.** `OutcomeInv`: a reader holds the first lines of what was printed, or
the last ones, and at least its limit of them unless it holds all
(`CapturedRight`); each attempt that was given up failed and printed what it was
given up for (`GivenUp`). Lemmas carry this through the end of a process: a clip
of a head is a head (`PartsOfParts`), a text is marked exactly when lines are
missing (`Part`), and what the classifier reads was printed (`FailureFacts`).

**Binaries.** `BInv` ties the installation to its release: what was downloaded so
far, each name once, is of the release of the list that names it (`Ordered`,
`OfItsRelease`), and what was placed so far is that (`Placed`), while `Publish`
may move the latest release in between. `SInv` is about the folder: files and
parked files are whole (`Whole`), a job that still fetches has not touched it, and
one that places has every binary of before in place but for the one at hand
while that is parked (`Standing`); what was asked for was fetched or skipped
(`Fetched`).

**Setup.** An owner is the kit of a home or the mcp servers of one. While a run
applies, what is on record of an owner is the manifest the run holds and has not
saved yet; otherwise it is the file. `Cur` is that record, and all of `IInv`
speaks of it, so a save changes nothing and a crash loses it (`torn`). Undoing
what `Cur` has of a home gives what the person wrote (`SettingsOK`, for the model
and for the entries of the approvals); every registration that nobody was told of
and no uninstall was refused is in a `Cur` of its home (`RegsOK`); what is recorded and registered has its binary
(`BinsOK`). None of the three is inductive alone:

* `RunOK`, `KindOK`: a run holds one owner of a home at most, only a kit edits the
  model, and only Kimi has a plugin, whose registration stands for what its
  configuration lists; so two owners of a home never undo the same key.
* `PlanOK`: a retirement is planned for all homes before the first change. Of two
  homes that share a binary each plan must know of the other (`Together`), none
  may remove what a home outside of the run lists (`NotOthers`), and until its
  servers are retired a plan is what the record says (`IsPlanned`), whatever the
  other homes of the run had done to them in between; afterwards what is gone is
  not registered (`IsGone`), which is when a binary may go.
* `ApplyOK`: an mcp run differs from the files only in the owner it is saving, and
  the binaries of its release stay until it ends.
* `RemoveOK`, `RestoredOK`: what an uninstall read is still on record; it restores
  only when none of its servers is registered any more, and a removal that goes on
  to delete the manifest has nothing left to undo.

Lemmas about the keys say what a record promises: an edit undone is as before
(`EditModelFacts`, `EditAllowFacts`), a second edit of the same key keeps that, and
restoring takes away what was added and nothing else (`RestoreAllowFacts`).

**KitFiles.** `KInv`: the manifest lists every file with the kit's signature,
unless a run ended without saving it, and an uninstall that waits deletes all of
them. A change writes no such file without recording it (`PerformFacts`), which
`CarryKeeps` takes through a run that may stop anywhere.

`TheirWorkKept` relates a plan to the home it is carried out in, which may have
changed. `TheirsInv` says that while a plan waits there is a watch over every
heading of every file that the run may not replace (`Spared`): where
the file is, where the plan leaves it, and whether what is written there keeps
the text or comes right after a backup. Every change of the plan is `Tame` to it.
Plans are built file by file: `TextHarmless` (what is not the kit's is backed up
before kit text replaces it, a rule or a skill of the person's is refused),
`CopyHarmless`, `DropHarmless`, `SkillHarmless` (what is in a folder that goes is
not watched, since it `GoesWithSkill`), and `PrefsHarmless`, which knows that a migration
keeps what no layout has (`MigrateFacts`) and that only a migration writes over
what one does, after a backup. `PlanHarmless` puts them together. `CarryWatched`
then follows the file through a run that may stop anywhere: it is at its place or
its new one, and has the text, or there is a backup.

Only model-checked:

* Out of the prover's reach, liveness: `CancelledRunEnds`, `BootSettles`,
  `CallsEnd`, `GuardedTreeDies`, `CancelledAttemptEnds`.
* What folds or recursive functions over data compute for every input:
  `ReflowSettles` and its companions in Prose, `ForwardsTheCaller`,
  `PromoteKeepsStaging`. The dependency order in which
  `Changesets` promotes is checked by TLC too; the theorems hold whatever it is.
* Out of reach in this form: `Repeatable` compares two whole plans; `MirrorsApart`,
  `CheckoutAgrees` and `LinksFollow` are about the projects `Sites` lists. They are
  not claimed for every placement: no site places a single document (principles,
  say) inside the folder of the design documents, nor a staging folder inside a
  staging folder.

`TypeOK`, `CancelReaches`, `EndsForAReason`, `RestartSingleShot`,
`DrainedRunsEnded`, `DirGuard`, `TerminalRowsStay` and `OneCallInside` have
theorems for all constants and so no run of their own.

## 6. Not modelled

* **Dispatch.** The schema migration and listing queries of the store; parameter
  checks, the containment of working directories, rendering and the handshake;
  progress notifications; the deadline and the line of `wait`. Rows written by
  versions without an owner column.
* **Attempt.** One helper stands for all that a program starts.
* **Association.** An agy conversation is reported by a task of its own and may
  come late (`EndedRowNamesLast` excepts it). `codex_rollout` has no caller
  outside harness-log.
* **Opencode.** The newline of a line is not written apart.
* **Timeline, Transcript.** Raw paging of a log and the wording of lines. The
  byte cap counts short lines, not bytes. `claude_json_result` and
  `opencode_message` are one record each. A claude or agy session entered under
  another path may be hidden by an older one under the canonical path; the
  property excepts it (`Hidden`).
* **Outcomes.** The JSON output modes no caller in dispatch uses, cuts inside a
  multi-byte character, opencode's own records, more than one result in agy's
  stream, the wording of notes.
* **Delegation.** A run has one process, since every attempt starts with the
  same specification. The search of PATH.
* **PaletteCommit.** Folders that are created and removed; the transactions
  without a lock (`palette_init`, and `generate` without `_palette/`), which run
  beside each other.
* **Changesets, Backlog.** Partial supersessions, amendments, the Changes
  section and verification lines.
* **Layout.** Links in files that no family claims, and links to folders, are not
  rewritten by the code and not asserted about. Where the code takes the first
  match of a directory walk, the model takes any one.
* **Prose.** Cells of list tables, the extents of directives, links split over
  lines, tabs, an underline that grows with its title. A document whose rewrap
  would change its structure is left alone by design.
* **Setup, KitFiles.** Empty folders after an uninstall, two headings of one name
  in a preferences file, the wizard's pages (their answers are the inputs of a
  run), the parsing of options, manifests of the legacy installer. Replacing the
  folder of a skill is one change: a failure between its removal and the rename
  of the new one is not told apart. `Repeatable`
  excepts a declined migration and a rule that was refused for a file the same
  run removed.
* **Pure text.** reStructuredText beyond what `Prose` reads, generated tables,
  lint rules that refuse a call by its text alone; rules and adapters, which are
  prose.

What would come next: the unlocked transactions, with a run for two of them side
by side; the deadline of `wait`; and a proof of `Repeatable`.
