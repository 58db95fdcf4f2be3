# TLA+ verification of ZCR521 AI MCP

ZCR521 AI MCP is an MCP server for rooted Android devices: a Magisk/KernelSU
module whose daemon `zcr521d` runs as three processes, and a stdio bridge for
the PC.  This directory holds its TLA+ specifications, the configurations that
TLC checks, and the proofs that TLAPS checks.  Paths below are relative to the
root of the repository.

- [The system](#the-system)
- [Modules](#modules)
- [Runs](#runs)
- [Fairness](#fairness)
- [Proofs](#proofs)
- [Disagreements between code and documentation](#disagreements-between-code-and-documentation)
- [What is not modelled](#what-is-not-modelled)
- [Plan](#plan)

## The system

    service.sh ──starts──▶ supervisor (root) ──forks──▶ broker   (root, Unix socket)
                                    └───────forks──▶ frontend (uid 2000, HTTP/MCP)
    MCP client ──HTTP──▶ frontend ──one connection per request──▶ broker
    PC client ──stdio──▶ zcr521-bridge ──HTTP/SSE──▶ frontend

| Component | State it keeps | Operations | Talks to | What is hard | What makes it correct |
|---|---|---|---|---|---|
| task manager (`internal/tasks/manager.go`) | task records in memory, a snapshot file per task, two semaphores, cancel functions, channels of waiting callers | Submit, Cancel, Update, Wait, run, load, ResumeInterrupted, Close | broker's `service.Service` calls it; its runner calls `ops` | a goroutine per task; cancel against start; crash between any two critical sections; failing writes; slots leaked on some path | a result is final over restarts; an accepted task is never lost and ends; slots are exact; cancellations arrive; nobody sleeps on a task that ended |
| supervisor (`internal/supervisor`) with `module/customize.sh`, `common.sh`, `service.sh`, `post-fs-data.sh` | the pair of processes, recent failures, back-off; on disk the binary, its predecessor, `state.json`, `crash-loop.blocked`, the socket | start a pair, wait for the socket, watch, stop, back off, mark stable, roll back, re-execute; install, boot | forks broker and frontend; shares files with the installer, without a lock | upgrades while a pair runs, kills, reboots, partial roll-backs | pairs never overlap; a roll-back restores what was replaced, once; a broken candidate does not stay |
| upload store (`internal/frontend/transfer.go`) | `.part`, `.json`, artifact file and its `.json`; reference-counted locks | create, status, write chunk, complete, cancel, expiry sweep, publish, download | HTTP handlers and the MCP tool `zcr521_transfer_upload`; artifacts are read by `ops` | locks that come and go, a sweep without locks, retries, a crash between two file operations | bytes below the offset are the answered ones; an artifact is what was sent; every request returns |
| scheduler (`internal/ops/schedule.go`) | schedules in memory and on disk, a loop, event listeners | create, update, delete, enable, disable, run_now, due and event triggers | runs `ops.Execute` | files written outside the lock, overlapping runs, loading on first use only | a once schedule fires once; a file follows the map; the loop sleeps through no change and no due time |
| service and configuration (`internal/service`, `internal/config`, `internal/atomicfile`) | configuration in memory and on disk | dispatch, get, validate, update, reset, export | task manager, `ops`, config | disk and memory are updated under different locks | both keep the same winner |
| broker server and client (`internal/broker`) | connections, a semaphore, the socket file | accept, authorize the peer, serve one request, shut down | frontend on one side, service on the other | the limit is non-blocking; the peer's PID is written after it has started; the socket goes before the process | the limit holds; every call gets an answer |
| MCP tasks extension (`internal/mcpapi`) | none of its own; polls tasks | get, cancel, update, call as a task, stream | broker client | state changes, restarts and errors between polls | a conclusion told is the conclusion; every stream ends |
| HTTP frontend (`internal/frontend`) | sessions, rate limits | route, authenticate, encode | broker client, upload store | concurrent limits | limits hold |
| stdio bridge (`cmd/zcr521-bridge`) | session, last event ID | post, server stream, reconnect | frontend | concurrent posts, streams that end early | each request gets one answer |
| `ops` transfers (`internal/ops/transfer.go`) | `.part` and `.uploading` files | download with resume and retries, chunked upload, export | called by service | retries over a file an earlier attempt left, no lock | a resumed file is the file; an upload is what was sent |
| files and archives (`internal/ops/files.go`, `archive.go`, `backup.go`) | files on the device | write, copy, move, link, remove, pack, extract, back up | the file system | a crash or a failure between two operations; look and then make | nothing is lost by a move; nothing is overwritten unasked |
| Android operations (`internal/ops/android_*.go`, `package_session.go`) | the device, which they share with everybody | settings, packages, permissions, services, Systemless overlays | Android's commands, which may fail or lie | commands in a row without a transaction; variants tried one after the other; readbacks | "verified" is true; nothing else changed; no session is left open |
| `ops` task registry (`internal/ops/tasks.go`) | tasks in memory with snapshots | start, cancel, list, clear | reached by a schedule whose arguments say `background` | persistence outside the lock | the limit holds |
| commands (`internal/ops/command.go`), schemas, models, other scripts | none | run a process, static tables | | | no state to check |

The hazards of each part, with the line where they bite and the property that
is about them, are in `PROJECT.json`.

## Modules

| Module | What it models |
|---|---|
| `TaskManager.tla` | `internal/tasks/manager.go` and the exit of `runBroker` |
| `TaskLifecycle.tla` | the abstract specification of a task: what a client may rely on |
| `Supervisor.tla` | the supervisor, the installer and the boot scripts |
| `UploadStore.tla` | the uploads of `internal/frontend/transfer.go` |
| `Scheduler.tla` | the schedules of `internal/ops/schedule.go` and their event listeners |
| `TaskCalls.tla` | requests of the tasks extension over the broker: `mcpapi/tasks_http.go`, `internal/broker`, the parts of `service.go` they reach, and the life of both processes |
| `FileOperations.tla` | files, archives, backups and transfers of `internal/ops` |
| `DeviceOperations.tla` | the tools of `internal/ops` that change the Android device |
| `MC*.tla` | instances of these for TLC: model values and symmetry |
| `TaskManager_proofs.tla`, `TaskManagerLifecycle_proofs.tla`, `Supervisor_proofs.tla`, `UploadStore_proofs.tla`, `Scheduler_proofs.tla`, `TaskCalls_proofs.tla`, `FileOperations_proofs.tla`, `DeviceOperations_proofs.tla` | theorems about them |

The components meet at a few points.  `TaskCalls` composes four of them, each
reduced to what the others see: the frontend's handlers, the broker's
connections, the task manager's statuses, and the supervisor that starts and
ends both processes.  The others are modelled apart: the supervisor
sees a broker only as a process and a socket (`BrokerListens`,
`BrokerExits`); what it does to the task manager (end it at any point, start
it again) is `Crash`, `Close` and `Boot` there, and what it does to the
frontend is `Crash` in `UploadStore`; the scheduler lives in the broker and its
`Crash` and `Start` are the same events.  `Supervisor!PairGone` is what allows
the others to assume one process at a time on their files.

### TaskManager

A task's record is its status and its result.  `mem` is `Manager.tasks`,
`disk` the snapshot files, `pc` where the goroutine of `Manager.run` is,
`totalUsed` and `heavyUsed` the two semaphores, `ctxDone` the context of the
runner, `waiter` the callers of `Wait`.

Every critical section of `Manager.mu`, with the write of the snapshot in it,
is one action: `Submit`, `Cancel`, `Update`, `WaitCheck` and `WaitRegister`
(the two looks at the status in `Wait`), `StartRunner` and `StartCancelled`
(one section of `run`, two outcomes), `RecordResult`, `StopWaiting`.  What
happens outside the lock is an action of its own: acquiring and releasing a
slot (`AcquireTotal`, `AcquireHeavy`, `ReleaseHeavy`, `ReleaseTotal`), the call
of the cancel function after `Cancel` unlocked (`DeliverCancel`), the return of
the runner (`RunnerReturns`), `Close` in two steps.  `Persist` may fail while
the budget of failing writes lasts; callers then do what the code does, which
is mostly to ignore it.  `Boot`, `LoadSnapshot`, `LoadDamaged`, `LoadFails` and
`ResumeInterrupted` are `New` and what `runBroker` does before it listens, one
file at a time.

Left out: arguments, progress and messages (data that no property tells
apart), `List` and `Get` (they change nothing), and tools (a runner returns
success, failure or a timeout, or never returns).

`TaskLifecycle` has four stages and five moves.  `TaskManager` implements it
under the mapping `StageOf` (property `ImplementsLifecycle`) when no write
fails and no file is damaged.

### Supervisor

The program counter `phase` runs through `Run`: `top`, `waitSocket`, `pair`,
`ended`, `marking`, then the judgement of a pair that ended (`judging`,
`restoring`, `restored`, `saved`, `counted`), `backoff`.  Reading `state.json`,
restoring the binary, saving the verdict and re-executing are steps of their
own, because a kill or an installer may come in between.  The installer has
three steps (`InstallSave`, `InstallDeploy`, `InstallCommit`) and may abort or
be interrupted after each.  `InstallSave` may find no `cmp` on the device, or one
that cannot read, and then saves the installed binary even if it is the very
one it brings (`customize.sh:87`).  `Kill` is a SIGKILL of the supervisor, whose
children live on; `Reboot` ends everything and removes what
`post-fs-data.sh` removes.

Of `state.json` the model keeps what a decision reads: the candidate, whether
a previous binary is recorded and whether the version is good.  The names of
the active and previous versions and the times are only written for a reader
of the file, and are left out.

Time is abstract: of the age of a pair the model keeps whether it reached
`StableAfter` and `FailureWindow`; the sliding window is a count that may
lose entries at any time once a pair was long-lived.

### UploadStore

`meta`, `part`, `final` and `artifact` are the four files of an upload; a file
is a function from block numbers to blocks.  `lockOf`, `refs` and `holder` are
`TransferManager.locks`; a lock is an object apart from its map entry, so that
two handlers with two locks for one upload is a state the model could reach.
A handler's program counter is `at`; each file operation (a block, `Sync` and
the save of the record, a rename, a removal) is a step, so that the sweep, an
expiry or the end of the process may come between any two.  A checksum is the
content it stands for.  `accepted` is a history variable: the blocks of the
writes that were answered with success.

Left out: names, identifiers and limits of size (validated before any state
changes), `PublishFile`, downloads and the Range logic of HTTP.  Removing a
stale artifact's file and its record is one step (nobody writes either in
between).

### Scheduler

`mem` is `Manager.schedules` (kind, enabled, instant, next time), `disk` the
files.  Whoever changed a schedule in a critical section goes on to write it
outside the lock: `writer` holds where each request, each run that ended and
the loop is, and with which text.  `mixed` are the schedules whose writers
overlapped, whose last write failed, or whose file could not be read at the
start (it stays, and the map does not know it): the former share one temporary name and read
the schedule without the lock, so `PersistMixed` may leave any of their texts,
a mixture, or the old file, with or without an error.  For the others `Persist`
is the atomic rename.  A history variable, `fired`, counts the starts of a once
schedule for its instant, and `unnoticed` the changes whose request failed and
therefore did not signal.

The loop's steps are `LoopReconcile` (what is in use, under `schedulesMu`),
`LoopListen` (the listeners, under `scheduleEventMu`, with the marking of the
schedules whose listener fails), `LoopArm`, then one of `LoopChanged`,
`LoopEvent`, `LoopTimer`, and `LoopLaunch` after the writes of the due
schedules.  Requests may change the map between any two of them.  `Load` is the
first request after a start, which alone reads the files and starts the loop; it
passes over what it cannot read, all of them if it cannot read the directory.

A request parses before it locks, so `Save` computes the next time for any
earlier `parsed`.  The kinds `daily`, `weekly` and `cron` are `interval` here
(the next time lies strictly after the given one; which one, is calendar data);
`boot` is like `once` with the next time in place of an instant.  Left out:
targets, results, run counts, retries (a run lasts as long as it lasts), and
the 30 seconds between two runs for an event (`LoopEvent` starts any subset).

### TaskCalls

A handler of the frontend holds one `request`; `at` says where it is (`dial`
and `wait` inside `Client.request`, `react` with its `answer`, `poll` between
two calls of a stream).  `Ask` is `dispatch` up to the call, `Fail`, `Finish`,
`ReadBack`, `Reply` and `Stream` are what `dispatch`, `callToolAsTask` and
`streamTask` do with the answer.  On the other side `Accept` is the loop of
`ListenAndServe`: a slot of `sem`, or BUSY.  The BUSY answer, and that of a
peer that is turned down, have no identifier, so `Client.request` takes them for
answers of another request: both are `unavailable` here.  `Serve` is `serveConn`
with the method (`CallTask`, `GetTask`, `UpdateTask`, `CancelTask`, ...), and
`Release` gives the slot back after the answer was sent.

The broker loads its tasks (`Load`), resumes them (`Resume`) and listens
(`Listen`); only then is the frontend started and its PID written.  `Terminate`
closes the listener, which unlinks the socket while calls go on, `Exit` follows
when they are through; `Kill` leaves a stale socket file.  `EndFrontend` is the
supervisor's, once the broker has ended.

Left out: identifiers, progress, results and times (a state is its status;
`timed_out` is `failed`), batches, headers, tasks that are not durable (the
service submits none), failing snapshots (`TaskManager` has them).

### FileOperations and DeviceOperations

Both model many handlers of the same shape, so a handler is data: a plan, the
list of its steps in the order of the code, each with where it goes on when it
succeeds and when it fails.  The plans carry the handlers' names and are built
from the same helpers as the code (`copyPath`, `movePath`, `createTAR`,
`settingsPutVerified`, `Accessibility`, ...); the actions are the kinds of steps.

In `FileOperations` a step is one operation on the file system: look, open with
its flags, put one block, cut, hash, remove, rename, link, one attempt of a
download.  A path names an inode and an open file keeps its own, so a file that
is renamed or removed while it is written behaves as on Linux.  Any operation
may fail (`Fails`), the process may end (`Crash`), the remote file may change
(`RemoteChanges`), and two handlers interleave without a lock.  A file is a
sequence of blocks that know the content they belong to, so a mixture of two
contents is a state.  Left out: directories as such, attributes, symbolic
links' targets, `maxBytes`, formats of archives, and tools that only read.

In `DeviceOperations` the device is a set of tokens per cell (a setting, a
list of packages, of sessions, of role holders, a file).  A command has effects
on cells; running it may report success or failure, each with or without the
effect, and then the next variant is run (`RunVariant`), as in `runAndroid`.
`Readback` compares a cell with what was asked, exactly or as text that
contains it; `ReadList` reads the list that will be written back.  `Cancel` is
the request's context: later commands fail at once, except those that the code
runs in the background (`abandonPackageSession`); a call without such a step is
not cancelled, since each of its steps may fail on its own as well.  Parsing an
argument that may be refused is a step (`Argument`) where the code does it late.
The plan of a request is kept in the record of who executes it, here and in
`FileOperations`.  Left out: tools that only read, and parameters that change
only the text of a command.

## Runs

| Run | Instance | What it shows |
|---|---|---|
| `tasks_safety` | two heavy tasks, one durable; limits 2 and 1; one caller of `Wait`; one stop, one failing write, one damaged file | `SlotsExact`, `NoLostWakeup`, `CancelReachesRunner`, `AcceptedOnDisk`, `FinalStays`, `CancelSticks` |
| `tasks_liveness` | two heavy tasks, one durable; limits 2 and 1; two stops | `EventuallyFinal`, `CancelEndsRunner`, `ImplementsLifecycle` |
| `tasks_cancel_durable` | one durable task, one stop | violated: see below |
| `supervisor` | two versions, one broken; 3 failures, cap 2, no bound on installs, kills, reboots | `PairGone`, `BackoffCoversFailures`, `RestoresReplaced`, `VerdictStays`, `PairRestarted`, `BrokenCandidateReplaced` |
| `supervisor_candidate` | two versions, 1 failure | violated: see below |
| `scheduler` | one schedule (once, interval or network), one request and one run at a time, two changes, a failing write, read or listener, a restart, times 0 and 1 | `OnceFiresOnce`, `FilesFollow`, `LoopFollows`, `DueIsStarted` |
| `upload` | one upload of two blocks, two handlers; an expiry, a failing save, a crash | `LockExclusive`, `OffsetBacked`, `ArtifactFaithful`, `AnsweredStays`, `EveryRequestEnds` |
| `task_calls` | two handlers, one slot, one task, one end of the broker | `ConclusionStands`, `EveryRequestAnswered` |
| `task_unknown` | one handler, one slot, one task, one end of the broker | violated: see below |
| `file_operations` | two handlers, two entries; 2 requests on trees or downloads, 3 on an upload; one failure, one crash, one change of the remote file, one retry | `NothingLost`, `KeepsExisting`, `TransferFaithful` |
| `download_resume` | one handler, two downloads, one failure | violated: see below |
| `device_operations` | two callers with one request each, out of all requests | `VerifiedHeld`, `OnlyWhatWasAsked`, `SessionSettled`, `RefusedChangedNothing` |

Each passing run also checks its module's `TypeOK` where it checks invariants.
Every property has a mutant in `PROJECT.json`: a definition of the same module
changed as a plausible bug would change it, under which TLC finds the property
violated.

Why the bounds are enough.  *Tasks*: a conflict is about one task (cancel
against start, write against crash) or about two that want the same slot; two
heavy tasks with one heavy slot are enough for every combination of holding,
waiting and stopping, and the proofs cover any number.  One stop is enough to
have two lives of the process, and a second one adds nothing to the state that
the files carry over (`tasks_liveness` has it nevertheless).  *Supervisor*:
installs, kills, reboots and failures are unbounded; two versions tell the
replaced one from the new one, and what needs a third (an upgrade over an
upgrade) is proved for any number (`RestoresReplacedCorrect`).  *Uploads*: uploads share nothing but the map of locks (a
lock of one is never another's, which the proofs show for any number), so one
upload with two handlers has every conflict; two blocks make a progress that is
neither zero nor complete, and a block that was never written is told from one
that was by `Hole`; two requests that send different blocks are covered by the
proofs, which hold for any contents.  *Scheduler*: schedules share no file and meet only in
the loop's minimum, so one schedule with its three kinds of writers (a request,
a run, the loop) has every overlap; two changes are enough to create it and
then to change, delete or enable it at any moment; an instant, the time before
it and a restart after it are enough for every way to compute a next time.
*Task calls*: handlers meet only in the slots and in the task, so two with one
slot have BUSY, a full broker and a cancellation under a stream; one end of the
broker gives it two lives, and the proofs hold for any number of all of them.
*Files*: a conflict is about one path, so two handlers have it; two entries tell
a tree that was worked on in part from one that was finished, two blocks a file
that was; the requests of one behaviour are of one kind, because those of
different kinds share no path.  Two downloads at once are of the same request.
*Device*: plans share nothing but cells, so two callers, over every pair of
requests, have every interference of two; more callers only add interference
that a readback meets in the same way.

`CHECK_DEADLOCK FALSE` is set everywhere but for the supervisor: with every task
ended or every request answered, and the bounds used up, nothing remains to be
done.

## Fairness

*Task manager.*  The Go scheduler runs every goroutine that is not blocked
(weak fairness of each step of `run`).  Senders that block on a full channel
are queued first come, first served, so acquiring a slot is strongly fair.
A runner returns once its context is cancelled (`ops` kills the process group)
and is not assumed to return otherwise: `EventuallyFinal` says so in its
hypothesis, `CancelEndsRunner` does without it.  The supervisor starts the
broker again (`Boot`).  Requests, crashes and failures are never fair.

*Supervisor.*  Every wait of `Run` has a timer, so its next step is weakly
fair.  Reading the state file and restoring the binary do not fail every time
they are tried (strong fairness).  A broken binary ends.  An install comes to
its end, one way or another.  Nothing is assumed of kills and reboots.

*Upload store.*  Handlers are goroutines; Go's mutex hands itself to the one
that waits longest (starvation mode), so `Acquire` is strongly fair.  The
copying of a body is not fair: the server sets no read timeout
(`cmd/zcr521d/main.go:293`), and `EveryRequestEnds` is conditional on bodies
that end.

*Scheduler*.  The loop and the writers of files are goroutines that are not
blocked, so their next step is weakly fair.  Nothing is assumed of requests,
runs, the clock, listeners and restarts.

*Task calls.*  The goroutines of the frontend and of the broker go on, a ticker
ticks, and the supervisor ends a frontend whose broker has ended.  Tools and
tasks end: that is `EventuallyFinal` of `TaskManager` with its hypothesis, and
without it a call without a deadline would wait with its tool.  Nothing is
assumed of clients, of the broker's start and of its end.  A client that leaves
is not needed for `EveryRequestAnswered`: every stream ends by itself.

The runs of `FileOperations` and `DeviceOperations` are about safety only: each
plan is finite.

## Proofs

`tlapm` checks every proof without assumptions beyond the named ones of the
modules: the limits are positive and `HeavyLimit <= TotalLimit`
(`LimitsAssumption`, what `New` enforces); the sets of tasks, handlers and
versions are arbitrary (finite where something is counted); the special values
are not among the ordinary ones; the bounds on faults are natural numbers of
any size.

*Task manager* (`TaskManager_proofs`).  `TypeOK` and `SlotsExact` are not
inductive: that a release leaves a counter non-negative needs to know which
goroutine may hold a slot.  `IInv` adds `Shape` (a goroutine exists only for a
task in the memory of a process that serves, and before it has recorded a
result its task has not ended; a process that is down or loading has neither
goroutines nor unfinished tasks in memory; a caller that waits, waits for a
task) and `Known` (only accepted tasks have a record or a snapshot).
`CancelReachesRunner` is inductive relative to it.  `FinalStays` needs
`WriteThrough`: memory and file differ only where the latest write failed.

Its last part proves what callers rely on, each inductive relative
to `IInv`: `NoLostWakeup` (with `WaitersServed`: nobody waits before the process
serves), `AcceptedOnDisk` and `CancelSticks`.

`TaskManagerLifecycle_proofs` proves `Spec => ImplementsLifecycle` when
`MaxWriteFailures = 0` and `MaxDamages = 0`, for any tasks, limits and number of
stops.  Its invariant `LInv` adds `WriteThrough`, `NoFaults` (no unsaved record,
no damaged file) and `Executing` (a runner executes only a task that was
begun).  Under it the stages are those of the snapshots (`BarOfDisk`), so a
critical section that writes one snapshot moves one task (`OneWritten`), and
everything else, a crash included, stutters.  The two hypotheses are needed:
with a failed write the stage a client saw can be taken back by a crash.

*Supervisor* (`Supervisor_proofs`).  `IInv` adds to `TypeOK` and `PairGone`:
`FailuresBelow` (fewer failures than the limit outside the judgement of a
pair),
`NobodyBeforeBoot`, `Settled` (what the steps of a roll-back in progress have
read and written) and `PreviousInv` (at each step of an install, what the saved
predecessor holds).  From the last follows `RestoresReplaced`: a roll-back that
no install overlaps restores exactly the replaced binary, unless `spoiled` says
that the last install that saved one saved what it brought itself, or that it,
or a later one, broke off.  `VerdictStays` follows
from `Settled`.  `BackoffCoversFailures` rests on two facts about the powers of two
(`DoubledDef`, `DoubledGrows`), by induction over sets of numbers (`Induction`,
from the well-founded order of the numbers): a failure doubles the delay and the
bound alike, and what resets the failures resets the delay.

*Uploads* (`UploadStore_proofs`).  `LockInv`: a handler that is not idle refers
to the lock that is mapped for its upload, the reference count is the number of
such handlers, and whoever is inside holds the mutex; `LockExclusive` follows.
`HandlerInv` says what a handler in the middle of a write, after the hash or
after the rename may rely on; `UploadInv` what holds of the files at rest
(`Created`, `Progress`, `Published`).  The frame lemma `FileFrame` (a handler that
is inside touches only its own upload, and nobody else is inside that one)
carries each handler's part over the steps of the others.  `OffsetBacked`,
`ArtifactFaithful` and `AnsweredStays` are consequences.

*Scheduler* (`Scheduler_proofs`).  `OnceFiresOnce` follows from two facts that
are inductive together with `TypeOK`: what was started lies in the past
(`FiredPast`), and a once schedule with a next time waits for an instant it was
not started for (`Waits`).  Every way to give a schedule its next time goes
through `ScheduledNext`: the instant is later than the time it is computed for.
Nothing is needed of the files: a schedule read back late has no next time.

A second part proves what follows the map.  `FilesFollow` is a part
of `FInv`: a schedule whose writers do not overlap has at most one writer, which
carries what the map says (`Kept`), the loop writes a schedule under its own
name (`OwnFiles`), and nothing runs before the files are read (`Quiet`).  Each
way to set a writer has a lemma (`EntersKeeps`, `LoopWritesKeeps`,
`WrittenKeeps`).  `LoopFollows` is the last line of `LInv`, which says for each
place of the loop what it has brought in line with the map as long as no change
is on its way (`Calm`): a request that changed the map is not told yet, and when
it is, there is the token.

*Task calls* (`TaskCalls_proofs`).  `IInv` adds to `TypeOK`: `Slots` (the slots
taken are the connections served and those that have just been, which bounds
`sem` from both sides), `Reach` (in which states of the broker there may be a
connection, a socket to connect to, or an interrupted task), `Turns` (a handler
has an answer only when it is to react) and, for each handler, `Shown`: an
answer that shows the end of a task shows the end the task still has.  That is
needed because the answer travels: between the broker's look at the task and
the client's seeing it the broker may be ended and started again.  `Shown` is
kept because no step ends a task twice or forgets one (`KeepsStep`), and no
interrupted task is ever served (`Reach`, from the order of `New`,
`ResumeInterrupted` and `ListenAndServe`).  `ConclusionStands` follows.

*Files* (`FileOperations_proofs`), for any directory (`EntriesAssumption`: names
in an order, none twice), any handlers and any bounds (`BoundsAssumption`).  The
plan of every request of every tool is shown to be sound (`PlansSound`: its jumps
lead to steps it has or to its end, a step that goes back goes back to one), so
`TypeOK` holds of any run of it; that a file can always be created needs a free
inode (`FreshFree`), a counting argument over paths and open files.
`NothingLost` is about the requests that make files with `O_EXCL`; `CalmPlans`
says which shapes their plans have: `Copies`, `Moves` (a copy with the attempt to
rename before it and the removal of the sources after it), `Creates`, `Glances`
(which change nothing).  The invariant `Calmly` says: an entry is at its source in
full, or at its destination in full (`Kept`); what a handler writes is no source
and is open in no other (`Apart`); what nobody refers to is empty (`Blank`); a
handler that copies has put so many blocks of the entry it is at (`Works`); and one
that moves is past entries that are at the destination in full, so that it
reaches the removal only when all are (`Secures`).  `Frame` carries what is said
of one handler over the steps of the others: no step takes a source away whose
entry is not at the destination, takes anything from there, or writes into what
another handler has open.
`KeepsExisting` is about the requests that make files with `O_EXCL` and those that
look first; `KeepingPlans` says which shapes their plans have.  A plan that is
`Careful` writes only right after it opened a file, and truncates only right after
it found the entry vacant; one that `Transfers` looks once and renames to the
destination in its last step.  The invariant `Keeping` says that two requests that
run know of each other (`Solo`), that a transfer's only entry is the first
(`Sorted`, `OnlyFirst`) and, of each handler to which the property applies (`Held`),
that what it writes is a file it made (`Ready`), or that after its look there is
nothing at the destination (`Bare`).  The restore of a 7z archive does neither and
is not among the shapes.  A handler that makes its files with `O_EXCL`
relies on its own record alone (`HeldApart`), so that the others may do anything;
one that looks relies on the paths, and is alone.

*Device* (`DeviceOperations_proofs`), for any callers.  The first part goes through
the tables of the tools and shows of each plan that it is a `GoodPlan`: its
steps and effects are as the actions expect (`SoundPlan`); only a first step
without effects refuses arguments (`Prompt`), but for `Late`; a plan whose answer
claims a verification has, for each of its goals, a readback that proves it and
that no jump skips (`Guarded`), but for `Misread`; an install creates, uses and
abandons its session in the order of `SessionSteps`.  The second part is about any
plan that is good.  `RefusedChangedNothing` follows from `Untouched` (a call at the
check of its arguments has changed nothing).  `SessionSettled` from `Settled`: the
caller's session is open only between the step that creates it and the deferred
one, and nobody else touches it.  `VerifiedHeld` from `Assured`, a goal whose
readback the call has passed was seen, with `Valued`: some cells always hold one
value, which is why the readbacks that only search the printed text prove that
value.  The accessibility services need an argument of their own, since the flag
is compared with the list the call remembers and its goal is that the flag agrees
with the list on the device, which others may change between the two readbacks:
`Followed` says that from the first readback on they have agreed already or
disagree in just the way (`Against`) that the second readback excludes, because no
step of anybody writes both (`OneOfTwo`).

Only model-checked: the liveness properties (they rest on fairness), and the
action properties `TransferFaithful` of `FileOperations` and `OnlyWhatWasAsked` of
`DeviceOperations`.

## Disagreements between code and documentation

Four runs check a property that the documentation, a message or a test states
and the code does not have; TLC's counterexample is the evidence.

- `CancelSurvivesRestart`.  A cancellation is documented as durable
  (`README.md:8`, `docs/ACCEPTANCE.md:34`) and its snapshot is written before
  the answer.  But `load` makes `interrupted` of `cancelling`
  (`manager.go:419-421`) and `ResumeInterrupted` runs every durable interrupted
  task again.
- `CandidateProven`.  `docs/INSTALL.md:73-76`: a version becomes usable by
  running stably for five minutes.  `markStable` looks at the version state
  when the pair is five minutes old; if an upgrade was installed meanwhile, the
  new version, which never ran, is marked.
- `KeptPartResumes`.  A failed download is answered with "the temporary file is
  kept for resuming" (`transfer.go:159`).  When that file is already whole (the
  connection broke after the last byte, the process ended before the rename,
  the digest did not match), the next attempt asks for the range that begins at
  its end; the server's 416 is a failure, and remains one at every retry.
- `UnknownMeansUnknown`.  `-32602` is documented for an unknown task
  (`docs/MCP.md:49`) and a test expects `-32603` for a backend that fails.  A
  broker that stops has already unlinked its socket; the frontend's connect
  fails with "no such file", and `dispatch` takes it for a missing task.

Of `TaskCalls` also: a task that was accepted but cannot be read back is answered
with an error, without its identifier (`tasks_http.go:409`); a call whose client
has left keeps its slot until its tool ends (`Client.request` sets no deadline).
Of uploads: a frontend that ends between the rename in `CompleteUpload` and the
removal of the record leaves a status that reports all bytes, with nothing left
to complete or to resume.

In `DeviceOperations` the sets `Misread` and `Sideways` list the requests whose
readback does not read what was asked (a package's name found within another,
the role of the current user read for another user's, a permission whose failed
read counts as revoked) or that touch something else on the way; `Late` those
that refuse an argument after the first command; `blind` is a list that could
not be read and is then written as if it were empty (`android_system.go:1051`).
The same list is written back without a lock, so two requests at once may lose
each other's services; `OnlyWhatWasAsked` leaves both cases out (`alone`,
`blind`).
In `FileOperations`, requests that look for the destination and then truncate or
rename (`extractTAR`, downloads, the end of an upload) may replace a file
that another request made meanwhile: hence `Looks` with `with = {}` in
`KeepsExisting`; a 7z archive is extracted by `7z x -y`, which replaces what is
there although `overwrite` is false (`archive.go:233`, `archive.go:881`; also by
the restore of a backup, `backup.go:165`) and although the parameter is described
as whether to cover an existing destination (`schema/registry.go:426`), hence
neither `extract_7z` nor `restore_7z` is in `Looks`; a `.part` may be resumed over another version of the remote
file unless a digest is given: hence `steady` in `TransferFaithful`.

Seen while modelling and stated as the condition of a property, because the
code plainly does not provide more: a roll-back that overlaps an install may
restore or record anything (the scripts share `state.json` and the previous
binary without a lock), hence the `install.step = "idle"` condition
of `RestoresReplaced`; an install that breaks off, or that reinstalls the same
binary where `cmp` is missing or cannot read (`customize.sh:87`), leaves a
previous binary that is not the one replaced, hence `spoiled`; a `Cancel` whose snapshot cannot be written
leaves the task `cancelling` without telling the runner, hence `cancelDropped`;
a final record whose write failed (`manager.go:371`, ignored) can be undone by
a restart, hence `unsaved` in `FinalStays`;
writers of one schedule that overlap leave any of their texts, and a schedule
deleted while a run of it ends may have a file again after the restart, hence
`mixed` in `FilesFollow`; a change whose file cannot be written is in the map but
not announced to the loop, hence `unnoticed` in `LoopFollows` and
`DueIsStarted`; a schedule whose file cannot be read at the start is gone until
the next one (`schedule.go:281`), hence `mixed` again.  Also seen: schedules are read, and the loop is started, by the
first request for `zcr521_schedule` after a start of the broker and not before;
a `boot` schedule is disabled, and saved so, the first time it runs.

## What is not modelled

- Tool schemas, argument parsing, the web UI, tools that only read, the formats
  of archives, the limits on sizes: tables, encodings and I/O without state.
- `runCommand` and its process group: what it promises (a cancelled command
  ends) is the fairness of runners in `TaskManager`.
- The background registry of `internal/ops/tasks.go`: the service takes
  `background` out of a call's arguments before they reach it, so only a
  schedule's arguments do.
- The start lock and PID files of `common.sh`: only the boot script starts a
  supervisor, once per boot.
- Contents of messages, progress, logs, event files.
- Cryptographic checksums as such, and real time.
- `third_party/` and `vendor/`.

The components in the plan below are not modelled yet.

## Plan

In this order, each with its proofs in a module of its own where the runs agree:

1. `Scheduler`, continued: retries and recorded results (`RunCount` agrees with
   the runs).
2. `ConfigStore`: concurrent updates of `service.configCall`; abstract
   specification: one atomic register.
3. `Bridge`: posts, session, server stream; each request answered once.
4. `OpsTasks`: the second registry.
5. Algorithms: cron fields and the next time of a schedule, against a
   reference definition on bounded inputs.
6. Proofs: `OnlyWhatWasAsked` and `TransferFaithful`, by an invariant over the
   steps of the plans concerned, like `Assured` and `Keeping`.
