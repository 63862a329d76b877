# TLA+ models of e2e4-soft

Formal models of a Windows program that measures the network, watches for games,
changes a user's computer and promises to put it back. TLC checks small
instances; TLAPS proves the theorems for all instances. Paths below are relative
to `src/src/` unless they start with `src/`.

    tlc -workers 2 -config FixTransaction_faults.cfg MCFixTransaction.tla
    tlc -workers 2 -config Changing.cfg MCChanging.tla
    tlapm FixTransactionProofs.tla

- [1 Inventory](#1-inventory)
- [2 Modules](#2-modules)
- [3 Runs and bounds](#3-runs-and-bounds)
- [4 Fairness](#4-fairness)
- [5 Proofs](#5-proofs)
- [6 What the models say against the documentation](#6-what-the-models-say-against-the-documentation)
- [7 What is not modelled](#7-what-is-not-modelled)
- [8 Plan](#8-plan)

`PROJECT.json` lists, by machine, the components, the runs, the lines each
definition stands for, the hazards of the code and the theorems.

## 1 Inventory

The program is a Windows desktop application (Qt) with a console front end over
the same libraries. What it keeps on disk is JSON under one application
directory (a journal of transactions, the marker of the active boost, histories,
profiles, a tweak snapshot) and the settings of Qt.

### The remediation engine (`remediation/`)

| component | state | operations | correct when |
|---|---|---|---|
| Fix transaction, `fix_transaction.cpp` | one `TransactionRecord` in memory, its copy in the journal | `prepare`, `execute`, `rollback`, a save after every step | the values from before are on disk before the first write; the journal tells the truth; nobody else's value is overwritten; what can be reverted is offered |
| Fix actions, `windows_fix_action.cpp`, `windows_state_api.cpp` | none (Windows' registry, power plan, DNS, priorities) | `observe`, `apply`, `rollback` of ten settings, each checked after the write; `runCommand` | a rollback is exact and complete; a hanging command holds nobody up |
| Backup store, `backup_store.cpp` | `<id>.json`, `<id>.json.tmp` per transaction | `save`, `load`, `list` | a record is whole or absent, is read back as it was written, a success reported is a record stored |
| Remediation service, `remediation_service.cpp` | two mutexes of the process, only ever tried | `applyIds`, `rollback`, `observeAll` | one operation at a time in a process |
| Boost gate, `boost_gate.cpp` | `boost_transaction.txt` (the marker) | `applyBoost`, `applyIds`, `revertBoost`, `revertTransaction` | the marker names a boost in force, the revert button works, every item has its answer |
| Legacy bridge, `legacy_bridge.cpp` | none | `applySafeFix`, `applySafeDns`, `rollbackLast` | the same as the service |
| Target discovery, `target_discovery.cpp` | none | one pass over processes and adapters | |
| System audit and launch checks, `core/system_audit.cpp`, `core/launch_diagnostics.cpp`, `optimization/fps_optimizer.cpp` | none | questions whether a fix is in force | they agree with the engine |

The tray, the optimizer page, the change center, the diagnostics page and the
autopilot each start a detached thread, which calls `BoostGate`,
`RemediationService` or the bridge; these build a `FixTransaction`, which drives
the actions and saves the record after each of them. Everything is synchronous
inside a thread; what is shared between threads is Windows itself, the journal,
the marker file and the two mutexes. A rollback starts from the journal, perhaps
days later and in another process.

Hard: failures in the middle (a write refused, half done or unconfirmed; a save
that fails, whose result is mostly ignored), a process that dies between a write
and its save, other programs and the user changing the same settings at any
time, several transactions over the same settings reverted in any order, and
targets (the adapter, the game's process) that come and go between two looks.

### What works by itself (`monitoring/`, `core/multipath_engine.cpp`)

| component | state | operations | correct when |
|---|---|---|---|
| Ping monitor, game watcher | state, worker handle, cancellation, condition variable | `start`, `stop`, also from the callback | one worker, always joinable by somebody; calls return |
| Monitoring service with the session history | the current game and session, sums, one open record, the history file, the day of the last evening measurement | queued `onGameStarted` / `onGameEnded`, `onTick`, `checkSchedule`, the autopilot's thread | every session is recorded once, with its own samples |
| Statistics | the collector's session, the jitter window, the loss monitor's thread | add, reset, average | a number is of the window it is named after |
| Multipath engine | paths and metrics, the active path, the thread | routes, `start`, `stop`, probe, switch | metrics are of the path's own gateway; a switch is worth it |
| Graders and scores | none | grades, health, confidence, order of servers, hops, channel advice | worse is not graded better |

Workers call back; `MonitoringService` receives events as queued calls on the
main thread and starts the autopilot on a detached one. Hard: stop from a
callback, a signal that is missed, a second game or a scheduled measurement
while a session is open, a crash in the middle of the history's file, a path
that is removed while it is probed.

### What changes the machine or the user's data (`core/`)

| component | state | operations | correct when |
|---|---|---|---|
| Tweak service and presets | one snapshot file; the game's configuration and its `.bak` | apply a category, roll back; patch | the snapshot holds what is overwritten; a patch changes its own lines |
| Game profiles, game detector | a copy of the list per user, one file; flags per game | load, edit, import, save; refresh | nobody's change is lost by a reader |
| Updater | a stack of nested requests, the downloaded file | check, download, verify, install | only newer and whole files are offered |
| JSON parser, SHA-256 | none; the hasher's buffer | parse; update, final | only JSON passes; the digest is of the whole file |
| Tools for the machine | a table of autostart values, services, processes | toggle, release, kill, clean | only what was clicked is touched, nothing is lost |
| Persistence, `core/json_persistence.cpp` | a counter of temporary names per process | `atomicWriteText` | a file is replaced in one step by one of its writers |

### Front ends (`ui/`, `main_gui.cpp`, `main_console.cpp`)

| component | correct when |
|---|---|
| Setup page and change center, one journal, threads and readiness queries | buttons tell what can be done; every tick has its row |
| Diagnosis and launch checks, two detached threads | reports belong to their page and run; buttons come back |
| Window, tray, overlay, measurement, alert | four displays of one switch agree; a measurement measures what it says |
| Network tools and map, threads and caches | results belong to their row and their time |
| Frame, knowledge page, views of the monitoring, settings dialog | the shown is the asked; what is chosen stays |
| Console | options are heard, mistakes change nothing, exit codes tell the outcome |

## 2 Modules

Specifications, each with a state of its own:

| module | models |
|---|---|
| `FixTransaction` | one transaction, from its creation to its last rollback, with its actions, the journal file and `RemediationService::rollback` |
| `BoostGate` | all front ends of one process over shared settings, journal, marker and mutexes |
| `StoredFile` | abstract: a file replaced in one step by writers that overlap, fail or die |
| `AtomicWriteText` | `atomicWriteText`, both platforms; implements `StoredFile` with `MayLose = FALSE` |
| `BackupStore` | `JsonBackupStore::save` step by step, with readers and a scanner; implements `StoredFile` with `MayLose = TRUE` |
| `WindowsActions` | the ten settings on machines that have, lack or mistype them; `runCommand` |
| `Audit` (extends `WindowsActions`) | who looks whether a fix is in force, over the same machine |
| `RecordText` | the text of a record, written, cut, and read by the parser of the journal |
| `SetupPage` | from a tick to a row: three looks for the target, four lists of answers |
| `ChangePages` | the two pages over one journal and one marker, with threads, queries and outsiders |
| `SingleFixes` | fixes made one at a time by cards and autopilot, and their taking back |
| `WorkerLifecycle` | start and stop of `PingMonitor` and `GameWatcher` |
| `Monitoring` | watcher, queue, service, history and its file, evening measurement, pilots, restarts and crashes |
| `Multipath` | the multipath engine and what route discovery reports to it |
| `Statistics` | the collector, the jitter window, the loss monitor |
| `Grades` | what is made of a measurement |
| `Tuning` | the snapshot of the tweaks under two threads and crashes; the patching of configurations |
| `Profiles` | the copies of the profiles over their file; the detector and the page of games |
| `Updates` | versions, assets, nested event loops, downloads over one file |
| `JsonText` | the parser of the server's answers against the grammar |
| `Digest` | what SHA-256 is computed over |
| `SystemTools` | timer, memory, services, autostart, processes |
| `Diagnosis` | the examination of the route and the launch checks, with their page |
| `Switches` | the switch of the optimization and its displays, the measurement, overlay and alert |
| `NetTools` | speed test, benchmark, map, cache of addresses |
| `Shell` | the frame, its pages and tabs, the knowledge page |
| `Views` | the pages that show the monitoring |
| `Preferences` | the settings dialog, over restarts |
| `Console` | a command line, from its words to its exit code |
| `Sublists` | the loop that keeps some entries of a list, in their order, by a set of places |
| `Changing` | what changes the machine beside the transaction, put side by side: `WindowsActions` with its readers, tuning, profiles, updates, digest, tools and single fixes |

Proofs: `FixTransactionProofs`, `BoostGateProofs`, `AtomicWriteTextProofs`,
`BackupStoreProofs`, `MonitoringProofs`, `WatchingProofs` (lifecycle, multipath,
statistics, grades, and their union), `ChangingProofs` (the parts of `Changing`,
and their union), `PagesProofs` (the parts of `MCPages`, and their union).
Instances for TLC: `MC*`, of which `MCPages` also says what the pages, the gate and the
console do side by side; the constants of `BoostGate` are small enough to stand in the
configurations, also in that of `MCThreads`, where `AtomicWriteText` is beside it.

Definitions with a comment that starts with "Mutant" or "(a fault)" are not part of the
specification: each is a form of the next definition with a plausible bug, kept
so that every property is known to be one that a bug can break.

### How components are composed

Components that share state are composed in one specification, as the code
composes them: `BoostGate` has the front ends, the gate, the service, the
journal and the marker; `FixTransaction` the transaction, the service's rollback
and the file; `Monitoring` the watcher, the queue, the service, the history's
file and the pilots; `ChangePages` two pages, their workers, the gate and the marker;
`Audit` the readers over the settings that the actions write; `SingleFixes` the
bridge, the cards and the autopilot.

Components that share nothing are put side by side in `MCThreads`, `MCWatching`,
`MCChanging` and `MCPages`: a variable (`under`, in `MCThreads` `about`) says which one a behaviour is
about, and the others stay in one initial state. TLC then explores the sum of
their state spaces, not the product, and nothing is lost, since there is nothing
between them to interleave. A property of such a run is the conjunction of the
named properties of its parts (`HistoryIsOfTheGames == RecordedOnce /\
OwnSamples /\ OneEveningADay /\ AnnouncedOnce`, for example), and `WaitsEnd`,
`PendingEnds` and `WorkEnds` are the leads-to properties of the parts in one
formula: `awaited` picks the caller, or the wait, that is followed (`FollowedSpec`
in `Changing` is the specification with this choice that the proof is about).

### FixTransaction

One transaction of `N` actions. State and its counterpart:

| variable | in the code |
|---|---|
| `sys`, `gone` | what Windows holds for each setting; targets that no longer exist (the game's process) |
| `wanted` | the proposed state of each action of this transaction |
| `mem` | `FixTransaction::record_` |
| `disk` | the journal file |
| `pc`, `cur`, `last`, `failing`, `reply` | where the running call stands, its loop index, the answer of the last call of an action, `any_failure`, the result |
| `original`, `foreign`, `raced` | history: the values at the start, settings others have changed, settings changed between a look and the write after it |

`prepare` is one step (it looks at all settings, and saves before anything is
written). `execute` is: the freshness check with the save of Applying; then per
action the look (`ApplyChecked` or `ApplyStale`), the write (`ApplyWrites`, with
the read-back) and the recording with its save (`RecordApplied` /
`RecordFailed`); then the last save, whose result is dropped. `rollback` is the
same in reverse order over `applied_action_order`, starting with a load from
`disk` and a freshness check against stock actions: `RemediationService::rollback`
rebuilds the actions, so the check compares with `EngineValue`, not with
`wanted`. Between any two steps, `World` may change a setting, remove a target
or kill the process.

What is abstracted: a setting is one value of a small set, plus `Torn` for an
action of several registry values of which only some were written; which ten
settings there are is `WindowsActions`, the JSON of a record `RecordText`. A
save that fails keeps the old file or (`BackupStore`) loses it. `save` is one
step here; `BackupStore` says what it really does.

### BoostGate

Any number of front ends, settings and transactions inside one process. `journal` is
a sequence of records in the order of their creation, `list()` its reversal.
`guard` is `operationMutex` (taken by `OperationGuard`), `lock` is
`mutationMutex`; both are only tried, so a call that finds them taken refuses
and nobody ever waits. The steps of a thread are: snapshot (`Prepare`), freshness check and lock
(`ExecuteBegins`), one setting at a time (`Apply`), the release of everything
(`FinishExecute`), and, for a boost, the listing of the journal and the writing
of the marker after that; a revert reads the marker, lists the journal, checks,
undoes one setting at a time, releases, then compares and removes the marker.
The bridge takes `mutationMutex` only. Transactions are those of
`FixTransaction` with saves that succeed; a write and the save of its outcome
are one step, because the other threads of the process cannot write between
them. Two transactions never have the same `created_at` (its resolution is a
second).

### AtomicWriteText and BackupStore

Every call of the file system that another thread, process or crash can come
before is a step: creating the temporary exclusively (with the attempts), writing it,
moving it, on POSIX syncing the directory, deleting it. `NotComeRound` names the
one bound on the counter: it does not pass through all of its 2^32 values while
a call is between its move and its sync on POSIX, where the call's own
temporary name is free again.

`BackupStore` has the fixed temporary `<id>.json.tmp`, the first rename, the
removal of the target when that fails, the second rename, the cleaning up; on
Windows an open file can be neither replaced nor removed, so `open` (the
readers that have it open) decides which calls fail. One thread at a time saves a
record, which is what `mutationMutex` sees to.

`StoredFile` is what callers may rely on. Its refinement mapping takes
`saving[w]` to the content of a call that has not answered and `replaced[w]` to
whether it has passed its move; a crash of a process maps to `Die`.

### WindowsActions, Audit and RecordText

`WindowsActions` has a machine: the registry values (present, absent, of another
type), the power plan, DNS, MTU, the process with its priority, the game's line.
`StateOf` is `observe`, `ProposedValue` the engine's value, `Put*` the setters
with their order of writes and their read-back, `Apply` and `Rollback` the
`transition` of `windows_fix_action.cpp`; between a refused attempt and the next
one, another program or process may step in. A setter made of several writes or
commands (`PutRegistry`, `PutServers`, `PutRecorder`, `PutMouse`) may do any part of
them: the key created and the value refused, the first of the two `netsh` commands
without the second or the second without the first. The line of CS2 is the number of
quotes it begins with and its number: the setter replaces it from the name on, behind a
quote, by a text that brings a quote of its own, so that the reader, which counts quotes,
finds a number only in a line that the engine has appended or nobody has touched. `Audit` adds nobody who writes: it asks, in
every state of that machine, whether `SystemAudit`, `LaunchDiagnostics` and
`FPSOptimizer` agree with what the engine would say. The other part of the
module is `runCommand`: the command, its children that hold the pipe, the reader
thread, the time limit, the job.

`RecordText` takes a record as a tree, writes it with `serializeRecord`'s order
and escapes, and reads every prefix of the text with the recursive parser of
`backup_store.cpp`, in the present format and in that of older versions.

### The parts of the watching run

`WorkerLifecycle` has the state under `lifecycle_mutex_`, the handle, a token
per run and the worker's loop. A section of the mutex is one step; `stop`
cancels, notifies and joins outside it. `use` says who calls `start` and whether
the callback stops its own monitor: the two uses of the program are the ping
monitor (two starters) and the game watcher (stops itself).

`Monitoring`: one round of the watcher posts starts, then ends; the service takes
the calls in order; `SaveDone` ends the rewriting of the history, which a crash
before it cuts anywhere. A program may quit, crash and start again; the file and
the settings stay. Sums of a session are kept as the set of sessions whose
samples are in them.

`Multipath`: the prober takes a snapshot under the lock, probes outside it, writes
back under it, evaluates, compares and switches, each a step; the page and the
console start it with what the adapters report, a library user adds and removes
routes. `Statistics` is three counters, `Grades` five pure gradings whose
readings change one step at a time, so that "worse is not graded better" is a
property of a step.

### The parts of the changing run

`Tuning`: the applier's thread captures, writes one key at a time and posts; the
restorer's thread parses the snapshot character by character, since its bug is
there; a crash stops both. `Profiles`: every copy loads, edits and saves by
itself, a destructor saves what is dirty. `Updates`: a click starts a request
whose event loop runs clicks again, so requests are a stack of `frames` and only
the top one can return; all of them write one file in `Chunks`. `JsonText` gives
the parser every answer of a set with one symbol lost, added, changed, or cut,
and compares with a grammar that says how a text can be taken apart. `Digest`
keeps the blocks that are hashed instead of hashing them. `SystemTools` has the
tables a page has read and a machine that goes on; `SingleFixes` two threads that
meet at the mutex and at the settings.

`Move` in `SystemTools` has what the calls do whose answers `setStartupEnabled` does not
look at: the copy may be refused and the value deleted all the same, or the copy written and
the value stay. The copy is a plain string whatever the value was (a text with variables is
read but not shown, and is not the kind of value it was), and a list of a key ends at the
first command that does not fit the buffer (`fps_boost.cpp:217`). `uncopied`
remembers the values of which Windows has refused the copy, `unsure` in `SingleFixes` the
settings of which a write or a save has failed: `FixIsMade` and `FixIsHalfMade` are the ways
a fix ends, the failed saves of `execute()` among them. An import into `Profiles` may bring
profiles of the old form or with every flag, the fine ones without the coarse one too.

### The parts of the pages run

`ChangePages` follows a thread through `BoostGate`: what it picks (`PickTransaction`), the
mutex, the end of the transaction with what the journal says of it and what is answered
(`AppliedEnds`, `RevertedEnds`: they differ when the last save failed), and, after the mutex is free
again, the listing and the marker (`FindApplied`, `MarkBoost`) or its comparison and removal
(`CompareBoostMarker`, `RemoveBoostMarker`). The revert button asks `hasRevertableChanges`:
the marker, whatever it names, or a record. So the interleaving of run `marker` happens here
too, by the two pages alone: the center reverts a boost before the setup page's thread has
written its marker, the marker is left over, and the button is enabled for a revert that the engine
turns back. `MarkerIsLeft` says when a marker is left over, and `SetupButtonIsRight` that this is
the only thing that can be wrong with the button.

The others are each a page with its workers as two or three steps (begin, work, post to the
window) and the outside that moves in between. `SetupPage` has the machine's
adapters and game, which the gate, the service and the audit each look for.
`Console` reads one word per step as `main` does, carries out the first command
of its own order, and has the window as another process on the same journal.


## 3 Runs and bounds

The runs that must pass:

| run | asks | bounds | states |
|---|---|---|---|
| `faults` | backup before write, truth of the journal, acceptance of what is offered, values of others, the end of every operation, under every fault at once | 2 actions (one of a single value, one of several), 3 values, every write fault, saves that fail, crash anywhere, both settings also changed by others, one target that vanishes | 141,678 |
| `threads` | threads and what they share: three front ends of the engine in every interleaving, refused writes, crashes (353,515); the refinement of `StoredFile` by `atomicWriteText` (709,320) | 2 settings, asked for alone or together, 2 transactions; 2 threads, 1 other process, 2 contents, counter modulo 2, leftovers, crashes | 1,062,835 |
| `watching` | what works by itself | below | 1,125,844 |
| `changing` | what changes the machine or the user's data | below | 469,720 |
| `pages` | the front ends | below | 400,920 |

`threads`, `watching`, `changing` and `pages` are sums of parts (section 2). The parts
of the last three,
with what bounds them:

| run | part | bounds |
|---|---|---|
| `watching` | threads | both uses of the protocol, 3 runs of a worker, 2 callers |
| | service | 2 processes, 2 games of which one has a profile, 2 records, 1 evening, 2 runs of the program |
| | paths | 2 gateways, one of which has an adapter, 2 identifiers, 2 starts, 4 paths |
| | numbers | values 0 and 2, windows of 2 and 3, 2 calls |
| | grades | readings on both sides of every limit of the code, a clock that goes on and is set back |
| | journal | 2 versions of a record, 2 readers, scanner, failures, crashes |
| `changing` | transaction (135,801) | 3 actions without faults and crashes; others change two of them, one target vanishes |
| | windows (4,040) | each of the ten settings, missing, present, of another type, already as the engine wants it |
| | records (6,344) | every kind of value and target once, every prefix of the text, two formats |
| | tuning (11,004) | 2 tweaks, 2 categories, 3 clicks; files of up to 5 lines, a key that is the end of another |
| | profiles (49,454) | 2 games, editor, reader and console, imports of old profiles and of one with a fine flag alone, 2 saves, 3 changes of what runs |
| | updates (15,960) | 4 releases, 2 chunks, 2 nested requests |
| | answers (12,917) | answers of depth 2, every single lost, added or changed symbol of 20, every prefix |
| | digests (1,376) | lengths on both sides of every border of a block and of the padding, pieces of 1, 9, 64 and 100 bytes |
| | tools (50,048) | 2 autostart entries in 2 places, a command with variables and one that is too long, 3 processes, 1 change from outside |
| | fixes (182,776) | a profile with 2 fixes, 2 cards, 1 turn of adapter or game, failing writes and saves |
| `pages` | gate (90,728) | the tray alone, 2 settings, 3 boosts |
| | changes (152,400) | setup page and change center with the marker, no outsider, 2 transactions, every save may fail |
| | setup (53,421) | 4 options, a tunnel before an adapter, 3 typed sizes, 3 events outside |
| | diagnosis (27,320) | 3 probes, 2 runs of the route, 1 of the launch checks |
| | switches (2,338) | measurements of 2 samples, 2 thresholds |
| | network (30,533) | 2 servers, 2 latencies, 2 benchmarks, 3 probings, a life time of 2 |
| | frame (14,256) | 4 places, 2 of them with tabs, 3 articles, 4 reports |
| | views (27,787) | a history of up to 3, a log of 2, 4 events |
| | console (213) | 25 command lines: every option, its value missing, wrong or an option itself |
| | preferences (1,924) | every box, reset, 1 restart |

Why they are enough. The loops of `execute` and `rollback` treat an action by
the outcome of that action and of those before it, so two actions give every
combination (first fails, second succeeds and the reverse, crash between them)
and three one in the middle. Three values are the user's, the engine's and a
third. Two transactions of two front ends, over overlapping sets, are where one
records the other's values as original; the third of the tray alone gives a
marker that names neither the newest nor the oldest. A counter modulo 2 with two
names per process makes it wrap and meet leftovers in every way. Of a queue, a
window or a list the bound is one more than its limit in the instance, so that
the oldest is dropped; of a repeated operation it is the number after which a
remembered value of the first can meet the third. The readings of `Grades`, the
lengths of `Digest` and the answers of `JsonText` lie on both sides of every
limit that the code compares with. Where a property could depend on more, a
theorem covers all sizes (section 5). A third front end beside the two pages of
`changes` would take the run past its time: `SetupButtonIsRight` speaks of journals that only
the pages have changed, and `ChangesShown` is proved for any set of others.

`faults` and `threads` keep the deadlock check: an idle front end can
always ask for a revert that is refused, a writer call again, and other programs can always change a
setting. `watching`, `changing`, `pages`, `newkey` and `maxping` do without it, because many
of their parts really end: a text has been written, a command line carried out,
the number of clicks used up. What must not stop there is stated as `WaitsEnd`,
`PendingEnds` and `WorkEnds`.

### What the properties say

The transaction, the gate and the files:

- `BackupIsPristine`: whenever something the engine changed is still changed, the
  journal file holds the values from before the first write.
- `OfferedJournalIsTrue`: a record offered for rollback says Applied of what is in
  force and Reverted of what is back, in spite of saves whose failure is ignored.
- `CleanRollbackRestores`: a rollback that reports completion, with no failed
  action in the record, has restored everything nobody else has touched.
- `OfferedRollbackAccepted`: what is offered is not refused if nobody interfered.
- `ForeignValueSurvives`: the engine overwrites only what was there before it, or
  what it put there, except in the window between a look and its write.
- `OffersAreComplete`, without faults: what is not offered has left nothing
  (`RefusedMeansNothingLeft`), what was reported applied is offered (`AppliedMeansOffered`).
- `OperationsEnd`: every operation ends, for every answer of the disk and of Windows.
- `OriginalRecoverable`: while a setting is not the user's, some record that holds
  the user's value has applied it and not reverted it.
- `ChecksHold`: what a freshness check established holds until the writes it
  protects are done.
- `GuardedSnapshotIsSettled`: an operation that takes the guard takes no snapshot in the
  middle of another such operation's writes.
- `ButtonWorks`: an enabled button is not refused; as it takes the marker's transaction
  first, the marker names one that can be reverted (`MarkerTellsTruth`).
- `OwnTemporaries`, `KeepsPromise`: no shared temporary; atomic replacement and
  truthful answers.
- `KeepsOrLoses`, `SavedStaysSaved`: a journal record is whole or absent; only a
  scanner or a crash can lose it between operations.

Type invariants stand once for each module; that of `BoostGate` is part of the one of run
`pages`, that of `BackupStore` of the one of run `watching`.

What works by itself:

- `ThreadsAreOwned`: one worker, whose handle somebody holds and nobody assigns
  over while it can be joined.
- `HistoryIsOfTheGames`: a session is recorded once, of its own samples; one
  measurement an evening, also over restarts; an announcement tells what was done.
- `NumbersAreOfTheirWindow`: a session ends once; jitter and loss are of their
  window.
- `PathsAreJudged`: a path has the metrics of its own gateway; a switch beats the
  threshold.
- `GradesKeepTheOrder`: of two lines, or two states of the machine, the worse is not
  graded better, a lost answer makes no server surer, a silent hop is seen, the
  advised channel is a quiet one if there is one.
- `WaitsEnd`: every `start` and `stop` returns.

What changes the machine or the user's data:

- `TextIsReadBack`: a record is read as it was saved, or refused when it is cut;
  JSON and nothing else passes for an answer; a digest is of the whole file.
- `UserValuesAreKept`: a batch of tweaks has its snapshot before it writes; a
  preset changes its own lines and takes effect.
- `RollbackIsExact`: for each of the ten settings, what was there, also when it was
  absent, and no other process's priority; a rollback that nobody disturbs succeeds. Excepted
  by name (`Restorable`, `ReadExactly`): a key that the fix has created (run `newkey`), the
  third DNS server, a value the reading does not show, and of the line of CS2 its form
  and a limit other than 60 (run `maxping`): such a rollback reports a failure, and
  the line never gets back the form it had.
- `UpdatesAreVerified`: only a newer release is offered, and announced only when it
  is whole.
- `ProfilesAreTheUsers`: nothing is written that no user changed; a card is at most
  one refresh late.
- `WhatIsSaidIsDone`: tools touch what was clicked, and a disabled command lies where it
  came from as long as Windows has written its copy; the journal, but for settings of which a
  write or a save has failed, the pilot's announcement, the read-back and the launch checks
  agree with the machine.
- `PendingEnds`: a hanging command lets its caller go, both buttons of the tuning
  page come back, a nested event loop returns.

The front ends:

- `ChangesAreShown`: buttons tell what can be done, but for a marker that is left over; every tick has its row, what was
  applied is not blamed; every option is heard, a mistyped command line changes
  nothing, the exit code tells the outcome; the settings stay what was chosen.
- `MeasuredIsShown`: a report belongs to its page, a good network is not blamed, a
  measurement puts back what it switched, rows belong to their preset, an address
  is not older than its life time, the log is the latest.
- `WorkEnds`: whatever a click starts gives its buttons back.

Every property of a passing run is broken by the mutant that `PROJECT.json`
names for it. The parts of a composed property are broken by further mutants
that stand in the modules beside the definition they change:
`SnapshotForever`, `NewIdReused` (paths), `RecordEndAnyway`,
`RememberedEveningInMemory`, `AnnounceApplied` (history), `LossWriteEarly`,
`CollectorStopAgain` (numbers), `LossPercentWhole`, `DisturbanceNarrow`,
`StepOpenEnded`, `PointsUnclamped`, `AnsweredOfAny` (grades), `EscapeQuoteOnly`,
`UnicodeAnyHalf`, `ParseItemsGenerous`, `FeedInBlocks`, `ZerosNeededNone`,
`ZerosNeededLate` (texts and digests), `SaveSnapshotUnchecked` (tuning),
`FinishExecuteUnset` (transaction), `FinishRollbackKeepsMarker`, `FinishExecuteCancelled` (gate),
`WriteShort` (journal), `LevelWithoutHigh`, `SameNumber` (settings), `NewerSomewhere` (updates),
`DetectedEver` (profiles), `OnOffSwapped`, `ClickedByIndex`, `SortedUpwards`,
`TakeBackOldest` (tools, readers and fixes), `OutcomeRowsTwice`,
`ReadBackOfTheFirst`, `FreedAnyway`, `BoostCodeless`, `TakesTwo`, `ResetQuietly` (changes),
`ClassifyGateway`, `OptimizedLeftOn`, `RunDNSBenchmarkUnmarked`, `KeepFromNow`,
`FollowQuietly`, `AddLogEntryToFull`, `GameEndsHastily` (measurements),
`EndProbingPosted` (work that ends).

## 4 Fairness

Only the liveness properties need any, and only what the scheduler or a time
limit of the code drives is weakly fair:

| specification | fair | because |
|---|---|---|
| `FairSpec` (`faults`) | `WF_vars(Engine)` | `execute` and `rollback` are straight loops on one thread that wait for nothing: mutexes are only tried, and the calls of Windows return |
| `WatchingSpec` | each caller in a call, each worker, the prober, the joining `stop` | threads that run; a wait on the condition variable has a time limit, so a missed signal costs an interval and not the return |
| `ChangingSpec` | `runCommand`, each of the two threads of the tuning page, the time limits and replies of a request | a command that hangs is killed after its limit with all processes of its job; requests have a transfer limit |
| `WindowSpec` | the workers of the pages and their posts to the window, the console in a command | detached threads that end by themselves; the event loop runs |

Users, other programs, games, the network and crashes owe nothing. Other
programs may go on changing settings for ever; the operation still ends.

`WaitsEnd`, `PendingEnds` and `WorkEnds` put the leads-to properties of the parts
of a run into one formula, since a behaviour is about one part only.

Fairness obliges nobody who cannot move: where an answer of the environment has no branch
in the code, the leads-to property fails on the instance. The proofs cannot follow that step,
since no installed prover knows rules for `ENABLED`: `EveryAnswerIsHandled`, `NobodyIsStuck`,
`WaitsGoOn` and `WorkGoesOn` say `ENABLED` of exactly the actions whose fairness is assumed,
and stand as hypotheses in the theorems of section 5. They are no properties of a run, where they would
say what the leads-to properties say already.

## 5 Proofs

The theorems hold for every value of the constants: any number of actions, values,
front ends, settings, transactions, writers, processes, readers, callers, runs,
gateways and paths, files of any length in any pieces. They assume the named
ASSUMEs of the modules, which say what kind of thing a constant is, and, where
noted, one about the code's use of a module.

**FixTransactionProofs.** None of the properties is inductive: they speak of the
record on disk or of an idle engine, and a step in the middle of a loop needs to
know what has been tried. `IInv` adds `Control` (which statuses and indices each
point of the loops has), `NotYetTried` (`execute` has not come to the actions
from `cur` on), `AlreadyUndone` (`rollback` has dealt with what is above `cur`),
`LookedAt` (between a look and its write the setting is as it was seen, unless
somebody was faster), `BeforeIsOriginal` and `AppliedIsListed` for both records,
and its heart, `MemDescribes` and `DiskDescribes`: the record in memory
describes the live settings except the one in flight, and the one on disk does so when
it is offered. The step from one to the other is `InterruptedIsNotOffered`: what
a crash leaves behind has a status that is refused, hence need not describe
anything. From `IInv`: `CleanRollback`, `OfferedJournal`, `ForeignValues`.
`StockRollbackAccepted` assumes `Requests = {EngineValue}`, as
`RemediationService` creates its transactions; `BackupBeforeWrite` assumes that
a save that fails keeps the old file (`"lost" \notin SaveFaults`). The second
assumption is what `BackupStoreProofs!RecordStays` gives as long as neither
scanner nor crash interferes, and what `JournalKeepsOrLoses` does not give in
general. No run has saves that lose the file; `OfferedJournal` covers them.

The second half of the module is about what holds without some of the
faults. `AppliedOffered` assumes that saves succeed: it adds `Tried` (what
`execute` has been through has an outcome) and `AnswerStands` (between the last
save and the answer the file says what the answer will say). `RefusedLeavesNothing`
assumes `Quiet` (no failing writes or saves, no crashes, stock values). Its
invariant `QInv` has `OneRecord` (file and memory agree wherever both are
settled), `FailedIsExcused` (an action fails only because somebody else changed its
setting or took its target), `ComparesAlike` (stored and computed status agree),
`WriteTold` and `IdleTold` (a setting is the engine's only if the record says so,
but for the one that is being written). `OffersComplete` puts both together. Both statements are false in
general, and runs `retry` and `crash` show two of the ways.

**BoostGateProofs.** `IInv`: who works on a transaction names one that exists
(`OnRecord`, `MarkerOnRecord`), who writes holds `mutationMutex` (`LockHeld`),
who is not a bridge holds the guard from snapshot to end (`GuardHeld`). `ChecksAlwaysHold` follows from mutual exclusion by `lock`:
whoever holds it is the only one to change `sys`, and its own step takes its
setting out of the check. `OriginalAlwaysRecoverable` needs `ChecksHold` as well as `IInv`:
a setting leaves "original" only from a transaction whose snapshot is still
true, and returns only by one whose `before` is what it writes.
`SnapshotsSettled` follows from `GuardHeld`; it speaks of the operations with a
guard only, and run `bridge` shows why it must.

`MarkerIsRight` and `ButtonIsRight` are about one front end that boosts and
reverts, without crashes (`Alone`), which is what run `pages` has for
`ButtonWorks`, here for any number of settings and
transactions and whatever Windows refuses. Their invariant says that the
transactions lie on each other like a stack: what stands of one of them is in
force and every later one has found it so (`StandsInForce`); a record under which
something stands can be reverted (`StandsOffered`); a boost works on the newest
record, a revert on the top (`WorksOnTop`); and the marker names the top
(`MarkerOnTop`). With a second front end the stack is what is lost, and run
`marker` shows how.

**AtomicWriteTextProofs.** `Busy`, `Exists`, `Complete`, `Moved`: a call between
creation and move has an existing temporary of its own that, once written, holds
the whole content; after a move its name is free until the call has answered.
`TypeCorrect`, `TemporariesOwned` and the refinement `PromiseKept`, step by step.

**BackupStoreProofs.** `Saving` and `Written`: a save in progress has a record,
and when it comes to its renames the temporary is that record. From it the refinement
`JournalKeepsOrLoses`, and `RecordStays`, whose
argument is that a reader that makes the first rename fail makes the removal
fail too, and a file that could be removed can be replaced at once.

**MonitoringProofs.** `HistoryIsOfTheGames` speaks of the records that are filed;
to keep it, one has to know where each of them came from. `ProcessesEndOnce` and
`StartsAreDistinct` say that the watcher posts a start and an end of a process at most
once and in that order, through the queue and whatever the poll misses;
`OpenIsTheSession` and `SumsAreOfTheSession` that the open record and the sums are
of the newest session and all filed ones older; `ListsAreListed` that the file holds
nothing that the list does not, across restarts and crashes; `EveningsAreDated`
that a day that has not come has had no measurement. `SessionsFit` bounds the number
of sessions by the processes that may still start: the counter is bounded by the
world and not by a guard.

**WatchingProofs**, lifecycle. A worker that lives is the newest one (`NewestIsAlive`);
if it is not the one in the handle, a caller has taken it to join it (`NoOrphan`,
`NothingForgotten`); a caller between the two sections of `start` knows that the
worker it joins has ended (`StartersStart`, `JoinsAnEndedWorker`), so that the
handle it assigns to is empty (`HandleIsTaken`). `LifecycleOwned` needs
`LifecycleAssumption`: a monitor that is stopped from its own callback has one
starter only. That is how the program uses the two classes; with two starters
the worker can be replaced between the two sections, and the assignment to a
joinable thread ends the process (section 6).

Multipath. `IdsAreOld` (an identifier that is not in the list is never
given again), `ThreadIsOfThisRun`, `SnapshotHolds` (what the prober has in its
hand is an identifier with the gateway it had) and `ComparedIsAnother`. From it
`PathsJudged`: what comes back from a probe outside the lock lands on a path
with the same gateway or on none.

Statistics. `NumbersAreOfTheirWindow` compares running numbers with what is in the
windows. The jitter has two windows that are cut separately: `WindowsAgree` says
that the last differences stand at the end of `jitter_samples_`, which has as many
as there are latencies or one less, so that its sum is of the window
(`JitterIsOfItsWindow`). `HistoryOfTheRounds` says that the loss monitor's history
is the end of the rounds.

Grades. `OrderIsKept` is `GradesKeepTheOrder` for all readings, samples, estimates and
networks, and has six parts. `GradesFall`: the steps of a score are a table and "the
first limit that is not exceeded" is its least element (`FirstLimit`); that a score
falls is said once for any such table (`StepFalls`). `HealthFalls`: points, the
weighted mean of the network, the share of the checks and the total fall with what
they are made of (`PointsFall`, `NetworkFalls`, `ReadyFalls`, `TotalFalls`), a part
that was measured does not drop out, so that the weights stay the same, and the
measurement only gets shorter or older (`HealthChangesKeep`); rounding down keeps the
order by `DivRises`. `FailureHelpsNothing`: one lost answer more leaves the set of
answered positions as it is and has one more fresh sample in the denominator
(`LostAnswer`, `DivFalls`). `BetterIsAnOrder`: better is transitive.
`SilenceShows`: one lost probe of two is a half. `AdviceIsGood`: the weight of a
channel is the size of a finite set, which is empty exactly when no network is near
(`QuietHasNoWeight`), and the least of three weights is 0 if one is. The invariant
`GradesIInv` adds the types of the samples, of the inputs of the score
(`HealthSound`) and that the networks are finitely many.

`WatchingTypeCorrect` and `WatchingKeepsItsPromises` put the parts together: each part
behaves as its own specification says while the others rest (`PartsBehave`).

**ChangingProofs**, part by part.

- Windows fixes (`RollbackExact`). A transition compares what it reads with what
  `prepare` has read, and a reading does not show everything. `PreparedIsFound`
  ties the record to the machine as it was found; `AloneNothingIsHidden` says that
  without interference a machine on which nothing was hidden (`Exact`) hides
  nothing later and reads after the rollback as before. From this a reported
  rollback has put back exactly what was found, for every machine of which the reading
  hides nothing (`ReadExactly`), and a rollback that nobody disturbs is reported done on every
  machine the engine can put back (`Restorable`). The two name what the code cannot: the
  missing key of run `newkey`, the limit of run `maxping`, a third server, a value of
  another type. Every setter may do a part of its writes (`PutRight` is shown of each); a
  `netsh` that fails counts as an attempt that Windows refused. `ReadersAreRight` compares, over all
  machines, the readers of `Audit` with the engine's own look.
- Digest. Content is blocks, then buffer (`CountIsRead`, `NothingIsLost`);
  `Blocks` and `ToppingUp` say that filling the buffer first, then whole blocks,
  then the rest keeps the order of bytes; `Padding` that 0x80, the zeros and the
  length make it end with a block. The compression function is an uninterpreted
  operator.
- Profiles (`ProfilesOfTheirUsers`). `FilesNest` (a file never has a coarse flag
  against its fine ones), `FlagsAreOfARefresh` (the list of the cards is one refresh
  older than the detector's flags).
- Updates (`UpdatesVerified`). The nested event loops are a stack of frames.
  `AllFit` says of every frame, not only of the top, that it stands for a published
  release and, from the offer on, for one that is newer; it survives an
  installation in an inner loop because `HadAreOlder` keeps the versions in a strict
  order, and `Newer` is shown to be one.
- Tuning (`UserValuesKept`). `BatchIsCaptured`: whatever a batch has overwritten is in
  the snapshot. `PatchOnce` with `AddedInForce`: after a patch each key of the preset
  is in force once, no other line has moved, and the marker is not written twice.
- Single fixes (`FixesTold`). The bridge looks before it writes, and what it has
  found may be another fix's doing. `HadIsOlder` says that an entry that
  stands has found the engine's value exactly where an older entry of its target
  stands; `SetIsStanding` that a setting is the engine's exactly as long as an entry of
  it stands. Both are about the settings that are not `unsure`: after a save that failed the
  machine may have the engine's value without an entry, and the autopilot then announces a fix
  it cannot take back. A process number is used once (`NumbersAreFresh`), otherwise the priority
  of a new game would be taken for the old one's. `PlanIsParted` parts the autopilot's plan
  into what it has noted, what it is about, and what is left.
- Tools (`ToolsSay`). A click takes out what its row shows, of whatever the
  registry has in its four keys, and what lies beside a key is what was last taken out of it,
  but for the copies Windows has refused. That nothing is lost is not stated, since
  it is not so. `ListRight`: the largest processes are listed;
  sorting is "a permutation in order", so this holds for every sort.

`PartsTyped` and `PartsDoWhatTheySay` are the properties of run `changing`, for the
specification that says what its parts do side by side (`PartsSpec`).

**PagesProofs**, part by part, each with an invariant of its own.

- Pages of changes (`PagesShown`). `ButtonIsCurrent` says that as long as only the pages
  change the journal the button is what `hasRevertableChanges` would answer now, or some page
  still has to ask it; at rest none has. `MarkerIsNamed` says what a marker may name: a
  record that can be reverted, one whose rollback the journal could not end, or one that is
  being taken off the marker now, unless it was overtaken; `GateIsKept` that whoever is
  inside works on a transaction of its own. It holds with any number of others.
- Setup page (`SetupShown`). An item goes through the gate, the service and four
  lists. `ThreadIInv` says where each item of the selection is at every stage of the
  thread's work (wanted or skipped, then selected for one target, then done or
  failed), `ShownIInv` that the rows, sorted by three passes, are the items, each once.
  The page finds the adapter in its own way; it is the one of the engine as long as
  the machine rests (`~worker.moved`).
- Settings dialog (`PreferencesStay`). Every box stores all boxes, so the invariant is
  about all of them: what is open stands as it is stored, and the look follows the
  store. Opening sets box after box, each with its signal that stores them all; the
  proof follows the six of them and finds at the end what was stored before.
- Console (`ConsoleShown`). Whether a word is a value depends on the word before it,
  back to the first: the function `IsValue` exists by a least counterexample
  (`MarksExist`) and is what the reader has found when it is at a word.
- Diagnosis (`DiagnosisShown`). `RoutesIInv` says of every run that its verdict is of its own
  samples (`Honest`), that only the newest may still be at work, and that a report that can
  be exported is of the newest and on the page; `ChecksIInv` that there is a card for
  every declared check, and that the cards are in the order of their severity.
- Switches (`SwitchesShown`). Which switch holds the optimization in each phase of the
  comparison, and what must have come back between two alerts.
- Network tools (`NetToolsShown`). The label of the speed test is of a complete table
  (`SpeedIInv`); unless benchmarks have overlapped, only the newest is at work, the
  manager stands, and the table is the rows of its preset so far (`DnsAlone`); the life of
  an address ends early enough after its answer (`CacheIInv`).
- Frame and knowledge page (`ShellShown`). `PutInItsPlace`: taking a widget out of the
  stack and putting one in at its place moves nothing else. `RankedByScore`: to count
  what comes before an entry is to sort, for every strict total order
  (`RankOfOrder`), hence the articles cut off at the end have no more in common with
  the diagnosis than those that are shown.
- Views (`ViewsShown`). The log is the last of what was said (`KeptOnes`), the list of
  sessions and the advice are of the history that has the ended session.

`WindowTyped`, `ChangesShown` and `MeasuredShown` are the properties of run `pages`, for
the specification that says what its parts do side by side (`WindowPagesSpec`).
`SelectSeq` takes an operator, of which the provers know nothing: what is kept of a list
is its `Sublist` at a set of places.

Least elements (of a set of positions, of a sum, of a length) stand where one would do
an induction: a claim about all sizes is shown by a smallest counterexample, which
needs the well-founded order of the natural numbers only and no operator as a parameter.

Two things the attempts have shown of the model. Five CASE expressions had
guards that overlap (`Audit!RowStatus`, `SetupPage!Primary`, `SetupPage!StatusOf`,
`RecordText!FieldsFrom`, `Console!Choose`): TLC takes the first arm, the language leaves
it open which, and the code has a chain of `if`; they are IF expressions now. And
some assumptions on constants that the instances meet were not stated, for
example that a table of versions is not empty (`UpdatesAssumption`) and that the keys
of a preset are not those of other lines (`TuningAssumption`).

**What ends.** The four liveness properties are theorems: `OperationsAlwaysEnd`,
`WaitsAlwaysEnd`, `PendingAlwaysEnds` and `WorkAlwaysEnds`, the third from one theorem for each
of its waits (`CommandsReturn`, `ButtonsAlwaysComeBack`, `WindowAlwaysComesBack`). The argument is
the same throughout. A predicate "at most `n` steps are left" (`Within`, `LoopsWithin`,
`ApplierWithin`, ...) is shown to hold for some `n` in every state of the
inductive invariant; no step of anybody raises it, and every step of those who are fair
lowers it. By fairness it is then lowered, and a set of natural numbers that does not
contain 0 and with `n + 1` contains `n` is empty (`NoSmallest`). What is particular:

- Transaction. Two loops over the actions, each action with a look, a write and a save;
  a crash ends the operation too, and a refusal comes before the loop. Other programs
  change settings between the steps, which decides the branch and not the count.
- Lifecycle. Nobody joins a thread that goes on (`JoinsAreShort`): `stop` cancels
  the run it joins first, `start` joins what has ended. `HandleIsOfTheRun` says
  that the handle is that of the newest run, so that no cancelled worker is taken
  for another. A worker that was told to end does so by at most a loop's length of
  steps, whether it was woken or its interval ran out.
- Multipath. The prober's loop always comes to the evaluation, where a best path
  is there to be found whenever one is healthy (`BestIsFound`, a least element of a finite
  order); `stop` has told it before it joins (`StopIsSerious`).
- A command. Killing the job ends the grandchild that holds the pipe, and with it the
  reader that `runCommand` joins.
- Tuning. What is left of a batch is the tweaks not yet captured, and those captured not
  yet written. A thread may fail at any of them, and the other one may work at the
  same time; neither adds to what is left.
- Updates. Inside of a nested loop the user may open another check, so that the number
  of frames rises and the outer frame rests for as long as the inner ones take. What falls is the
  number of all steps left in all frames (`LoopPairs`: a finite set of pairs of a frame and
  a step of it) plus eight for each check that may still be begun.
- Pages. Each part has a measure of its own: the stages of a thread (`DeskWithin`,
  `ThreadWithin`), the probes a run has still to send (`RouteWithin`), the cards that are not
  there yet (`ChecksWithin`), the steps of all probings of the map (`MapWithin`), the words
  not yet read and the command (`CallWithin`). A post to the window is a step of the part
  that made it.

Three kinds of hypotheses are stated in these theorems. The first is the specification
with its fairness (`WaitsAlwaysEnd` also says that it is the same fairness later on, which
the prover does not see through a quantifier). The second is that
those who are fair can go on (section 4). The third stands for an induction: `BoundsFormASet`,
`ThreadsFormASet`, `NestsFormSets` and `BoundsFormSets` say that the numbers `n` from
which the work ends form a set. In ZFC that is true of any formula, by comprehension, but TLA+ does
not let one write `{n \in Nat : F(n)}` with a temporal `F`, nor can the provers instantiate
an induction rule whose parameter is an operator. The hypothesis excludes no
behaviour, and it names no state: it is a tautology that the language cannot derive.

The proofs have changed the model in one place. The three leads-to properties of
the changing run needed one condition of fairness for each thread of the tuning page
(there was one for both together, which would let one thread starve the other), and the
catalogue of tweaks has to be finite for a batch to end
(`TuningAssumption`). `CommandReturns` follows the caller from the join, too.

Not proved: the four hypotheses about `ENABLED`. Only model-checked: `TextIsReadBack`,
since `RecordText` and `JsonText` are recursive parsers: what they compute for every text
needs induction over data, and RECURSIVE operators. Two modules are written so that they can be proved about: `Digest` has its loops as folds
over blocks that are stated by their result, and `Grades` its sums part by part, the
answers among the samples as a function on the answered positions, and the weight of
a channel as the size of a set.

## 6 What the models say against the documentation

Each of these is a run that TLC ends with a counterexample, and a "finding" in
`PROJECT.json` with the line quoted.

| run | what happens |
|---|---|
| `retry` | One write of a rollback is refused. The repeated rollback skips the failed action, counts no failure of its own, sets Reverted and reports completion; the setting is still changed and the record is refused from now on. |
| `crash` | A process that dies inside `execute` leaves Applying (or Prepared, or RollingBack), which no rollback accepts, with writes in force and a complete backup. |
| `dns` | A transaction with a DNS server of the user's choice is never accepted for rollback: the rebuilt stock action computes another status for the stored value. |
| `marker` | A boost is reverted from the history before `applyBoost` has written its marker; the tray then shows a boost that is gone. |
| `bridge` | `applySafeFix` takes its snapshot without the guard, in the middle of another transaction. |
| `newkey` | On a machine without the compatibility key the rollback of the fullscreen fix removes the value and leaves the key that the fix has created; the comparison looks at `key_existed` too, and the rollback reports a mismatch. |
| `maxping` | `setCs2MaxPing` replaces the line of the configuration behind its first quote by a text with a quote of its own; the reader then finds no number and answers 60. The rollback of the matchmaking fix to any other limit reports a mismatch, though nobody interfered; `problem_db.cpp:43` promises it. |

The following are stated as properties in the modules, beside the ones that hold,
and have no run of their own. Given to TLC as INVARIANT or PROPERTY in the
configuration of their part, each of them fails:

| property | what the text says, and what the code does |
|---|---|
| `Tuning!RollbackRestores` | `core/tweak_service.h:47` rolls back the last batch; `tweak_service.cpp:124` skips the first character of an identifier and `:134` compares the text of the key with "true", so nothing is restored |
| `SingleFixes!ButtonIsNotStuck` | `legacy_bridge.cpp:87` names a button that takes the fix back; a fix of a process that has ended stays the newest and is refused for ever |
| `SingleFixes!EveryOfferedFixIsKnown` | `core/problem_db.h:16` calls `fix_action` a fix the program can run; the cards name pairs of fixes that nothing takes apart |
| `Audit!RecorderIsSeen` | "recording is off" is read from one of the two values that the fix writes |
| `SetupPage!NothingIsPassedOver` | the gate shows skipped items with a reason; one whose target goes away between the gate's look and the service's is in no list |
| `SetupPage!HintIsTrue` | the hint under the field says 1500 is applied whatever is typed (`ui/optimizer.cpp:779`); sizes from 576 to 1499 are passed on and skipped (`boost_gate.cpp:77`) |
| `Updates!NothingHalfWrittenIsLeft` | `update_checker.cpp:96` leaves the removal of a half written file to its caller, which returns without it (`updater.cpp:252`) |
| `Updates!AnnouncedStaysVerified` | a download that was already running under the box overwrites the file that the box announces as verified (`update_checker.cpp:310`) |
| `Diagnosis!CancelIsHeard` | `diagnostics_widget.cpp:423` says the service looks at the token between the stages; after its last look it still reports |
| `ChangePages!CenterButtonIsRight` | `main_window.cpp:187` wants the other tab's button true after every apply or revert; one that fails tells nobody, though it has changed the journal |
| `ChangePages!ClearedMeansReverted` | the revert of another page's boost clears the list of what this page has applied |
| `Switches!BaselineIsWithoutBoost` | the measurement switches off only the optimization that the dashboard's own indicator shows |
| `NetTools!FlagCoversWriters` | `network_tools.cpp:48` keeps the manager while a benchmark is in flight; of two, the first that ends clears the flag |
| `Console!WatchAppliesProfiles` | the help of `--watch`: a profile is announced as applied, nobody applies it |
| `Console!GameProfileIsApplied` | the help of `--game`: with `--boost` only the boost is carried out |
| `SystemTools!TimerIsUndone` | `core/fps_boost.h:19` has a call to undo; the status 0 of success is taken for a refusal (`fps_boost.cpp:42`), so the page never offers it |
| `Shell!SearchFindsWhatThereIs` | the search box without a game finds nothing: the articles are looked for under the game "" (`problem_db.cpp:255`) |
| `Views!HistoryIsFresh` | `session_history_widget.cpp:37` follows every recorded session; the evening measurement records one and does not announce it |
| `Views!DiagnosisIsInTheLine` | `monitoring_service.cpp:188` puts the diagnosis first so that it is seen in the line; the next ping overwrites the line |
| `Preferences!ThemeIsKept` | `settings_page.cpp:161` against `:381` and `:401`: the two themes are the other way round when stored |
| `Preferences!AutostartIsTrue` | `settings_page.cpp:139`: the box is loaded from the settings, not from the entry it stands for |
| `Preferences!CornerIsShown` | a corner chosen while the overlay is off is stored and not shown |
| `Profiles!CardsTellTheTruth` | `game_detector.cpp:74` wants the card to follow every refresh; the list the cards use is copied before the flags are renewed, so it is one refresh late |
| `Statistics!AveragesAreOfTheirChannel` | `tests/unit_tests.cpp:2688`: the sum of a channel is divided by the samples of all three |
| `Multipath!InterfacesArePaths` | `multipath_engine.cpp:44` makes every interface with a gateway a candidate; `route_analyzer.cpp:87` never fills the gateway in, so there is none |

The runs above are about the engine that promises to put things back; these are
about what is around it, and are left to a configuration of their own.

The models show more that a reader of the code may not expect:

- The result of the last save of `execute` is dropped
  (`fix_transaction.cpp:270`): when it fails, success is reported and the file
  says Applying, which is not offered.
- An action that failed half way, or whose read-back failed, is recorded Failed
  and left as it is; it is not in the applied order, so no rollback restores it.
- A boost, then a fix over the same settings: the button reverts the boost
  first, the fix left over is stale and refused, the button stays enabled. This
  is why the gate part of `pages` has boosts only. A second boost over the first: its
  revert gives back the first one's values and removes the marker, with the first
  still in force.
- A reader makes the first rename of `save` fail; when it is done reading, the
  record is removed before the second rename, and is missing in between
  (`StoredFile!Lose`; `backup_store.h:20` calls it an atomic replace).
- The parser of the journal casts numbers to enumerations without a look at
  their range, takes an unknown `$type` for none, and has no bound on its depth.
- A stale marker needs no third front end: with the setup page and the change center alone,
  its revert button is enabled for a revert that the engine refuses (`MarkerIsLeft` in
  `ChangePages`). So does a rollback whose last save failed: the record stays RollingBack,
  which nothing reverts.
- A command that is taken out of the autostart is gone when Windows refuses to write its
  copy: the answers of the two calls are not looked at, and the value is deleted all
  the same (`fps_boost.cpp:269`).
- A single fix whose last save fails is announced as applied and cannot be taken back;
  one whose save after the write fails is announced as refused and is in force.
- `WindowsActions`: with more than two DNS servers the third is lost
  (`windows_state_api.cpp:258`); priorities below normal come back as normal; the
  value of a key of another type is deleted by the rollback.
- Two starters and a callback that stops its own monitor can end in an
  assignment to a joinable thread. The program does not use the class so
  (`LifecycleAssumption`), nothing in the class forbids it. A second speed test
  does end so (`speed_test.cpp:61`).
- A game that follows another within one poll is posted as started before the
  first is posted as ended (`core/game_watcher.cpp:166`); the evening measurement ends the open
  record of a running game; the autopilot's thread is detached and may outlive
  the service.
- The jitter is not reset between games, and the history's file is rewritten in place.
- A copy of the profiles that was edited is saved again at its end (`dirty_` is never
  cleared), over what others have written since; the window's copy overwrites what
  the console imported.
- A second category of tweaks saves the values of the first as the user's own
  (`tweak_service.cpp:78`); `UserValuesAreKept` is about one batch against its own snapshot and does
  not say otherwise.
- `ProPresets` overwrites its `.bak` with the file it has changed before, and with what
  a crash has left of it.
- A check for updates runs an event loop inside an event loop; the time limit of
  a request is for the whole download; a tag that begins with letters and a year
  is a newer version.
- A launch check of the MTU advises 1400 for the value that the engine writes, and
  rows of the setup page say "failed" of what nobody has tried.
- On the console a DNS that was not applied ends with 0, a `--ping` that is not a
  number ends the program, and no arguments run the tests and say they passed.
- A service that is disabled and enabled again starts automatically though it was
  started by hand before; `process_monitor_widget.cpp:133` ends the process that
  has the number of the one in the list, up to three seconds later.
- The exported loss is a share and not per cent; a lost ping is drawn as 0 ms.

## 7 What is not modelled

- Calls of Windows, of Qt and of the network. The modules have what they may answer, with the
  assumption that a call answers truthfully when it reports success, unless the code
  itself reads back.
- Layout, wording, styles, translation, logging (the file of the day is chosen at
  the start only), sounds, drawing, and the text of reports.
- The target discovery's enumeration through Windows, route tracing (which sets
  no time to live), port scans, Wi-Fi, VPN, the FACEIT and capability tables: each reads and answers.
- The theme editor, the SQLite store of the history and `system_manager.cpp`,
  which nothing in the program opens or calls; the multipath page, which shows
  what `Multipath` models; `docs/reference`, an older engine that is not built.
- A second process on the journal and the marker in `BoostGate`, and records with
  the same `created_at`; the console and the window share a journal in `Console`,
  one operation at a time.
- `MoveFileEx` on a file that somebody has open, in `AtomicWriteText`, is only a
  move that fails, which the code answers by failing.
- Parts that share nothing are never interleaved with each other (section 2).
  One thing they do share is left out with that: the mutex of the engine, which a
  fix of the autopilot or of a card may hold while the setup page wants it.
  `BoostGate` and `SingleFixes` have this contention among their own threads.

## 8 Plan

What is left, in order:

1. `BoostGate` with the console as second process (its own `operationMutex`, the
   same journal and marker) and with records of the same second, and the proof that
   `OriginalRecoverable` needs the lock across processes.
2. An abstract log of sessions, and `Monitoring` as an implementation of it for
   the fault-free part; the history's file by `StoredFile` with `MayLose = TRUE`.
3. The multipath page and the tables of rules.
