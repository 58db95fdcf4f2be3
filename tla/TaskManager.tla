---------------------------- MODULE TaskManager ----------------------------
(***************************************************************************)
(* internal/tasks/manager.go: the broker's durable background tasks.       *)
(*                                                                         *)
(* A task is submitted once, written through to its own snapshot file and  *)
(* executed by a goroutine (Manager.run) that first takes a slot of        *)
(* totalSem and, for a heavy tool, one of heavySem.  Every change of a     *)
(* task's record happens under Manager.mu together with the write of its   *)
(* snapshot, so each critical section is one action.  (Where run leaves    *)
(* the lock and takes it again in finishCancelled, or decides in a select  *)
(* to call it, nothing another goroutine does in between changes the       *)
(* outcome: the decision and the critical section are one action.)  A      *)
(* process may crash or be stopped between any two actions; the next one   *)
(* loads the snapshots and resumes the durable tasks that had not ended.   *)
(***************************************************************************)
EXTENDS Naturals, FiniteSets

CONSTANTS
    Tasks,             \* identifiers, one for each accepted Submit
    HeavyTasks,        \* the tasks submitted with heavy = true
    DurableTasks,      \* the tasks submitted with durable = true
    TotalLimit,        \* capacity of totalSem
    HeavyLimit,        \* capacity of heavySem
    Waiters,           \* concurrent callers of Manager.Wait
    MaxStops,          \* bound: crashes and graceful stops of the process
    MaxWriteFailures,  \* bound: snapshot writes that fail
    MaxDamages         \* bound: snapshot files damaged while nobody runs

\* New refuses any other pair of limits.
ASSUME LimitsAssumption ==
    /\ TotalLimit \in Nat /\ HeavyLimit \in Nat
    /\ 1 <= HeavyLimit /\ HeavyLimit <= TotalLimit

ASSUME TasksAssumption ==
    /\ IsFiniteSet(Tasks)
    /\ HeavyTasks \subseteq Tasks /\ DurableTasks \subseteq Tasks

ASSUME BoundsAssumption ==
    MaxStops \in Nat /\ MaxWriteFailures \in Nat /\ MaxDamages \in Nat

VARIABLES
    proc,           \* life of the process: down, loading, up, closing, closed
    mem,            \* Manager.tasks: the record of each task, or NoTask
    disk,           \* its snapshot file, or NoTask, or Damaged
    pc,             \* where the task's run goroutine is
    ctxDone,        \* the context given to the task's runner is cancelled
    outcome,        \* what the runner returned, and whether ctx was cancelled
    totalUsed,      \* slots of totalSem in use
    heavyUsed,      \* slots of heavySem in use
    delivering,     \* tasks whose Cancel is between mu.Unlock and cancel()
    waiter,         \* Manager.Wait: its task and how far each caller is
    accepted,       \* history: tasks whose Submit returned without error
    unsaved,        \* history: tasks whose latest snapshot write, in this life
                    \* of the process, failed
    cancelDropped,  \* history: tasks whose latest Cancel, in this life of the
                    \* process, returned an error
    quarantined,    \* history: tasks whose damaged snapshot was set aside
    stops, writeFailures, damages

volatile == <<mem, pc, ctxDone, outcome, totalUsed, heavyUsed, delivering, waiter>>
history  == <<accepted, unsaved, cancelDropped, quarantined>>
faults   == <<stops, writeFailures, damages>>
slots    == <<totalUsed, heavyUsed>>
vars     == <<proc, disk, volatile, history, faults>>

TerminalStatus == {"succeeded", "failed", "timed_out", "cancelled"}
Pending        == {"queued", "running", "cancelling"}
Status         == Pending \cup {"interrupted"} \cup TerminalStatus
RunnerResult   == {"ok", "timeout", "error"}

\* The part of a Task the properties tell apart: its status, and its Result.
Record  == [status : Status,
            result : RunnerResult \cup {"none", "cancelled", "restarted"}]
NoTask  == [status |-> "none", result |-> "none"]
Damaged == [status |-> "damaged", result |-> "none"]

Asleep    == [task |-> "none", at |-> "idle"]
NoOutcome == [kind |-> "none", cancelled |-> FALSE]

Rec(s, r)   == [status |-> s, result |-> r]
Terminal(r) == r.status \in TerminalStatus
WithStatus(t, s) == [mem[t] EXCEPT !.status = s]

Serving    == proc \in {"up", "closing", "closed"}
Closed     == proc \in {"closing", "closed"}    \* <-m.closed does not block
\* m.cancel[id] is set in the critical section that starts the runner and
\* deleted in the one that records its result.
Registered(t) == pc[t] \in {"running", "finishing"}

\* persistLocked: the snapshot replaces the file atomically, or the file is as
\* it was.
Persist(t, r, ok) ==
    /\ ok \/ writeFailures < MaxWriteFailures
    /\ disk' = IF ok THEN [disk EXCEPT ![t] = r] ELSE disk
    /\ writeFailures' = IF ok THEN writeFailures ELSE writeFailures + 1
    /\ unsaved' = IF ok THEN unsaved \ {t} ELSE unsaved \cup {t}

\* notifyLocked: every channel registered for the task is closed.
Notify(t) ==
    waiter' = [w \in Waiters |->
        IF waiter[w].task = t /\ waiter[w].at = "parked"
        THEN [waiter[w] EXCEPT !.at = "woken"] ELSE waiter[w]]

\* What the end of the process takes with it.
ForgetMemory ==
    /\ mem'       = [t \in Tasks |-> NoTask]
    /\ pc'        = [t \in Tasks |-> "idle"]
    /\ ctxDone'   = [t \in Tasks |-> FALSE]
    /\ outcome'   = [t \in Tasks |-> NoOutcome]
    /\ totalUsed' = 0
    /\ heavyUsed' = 0
    /\ delivering' = {}
    /\ waiter'    = [w \in Waiters |-> Asleep]
    /\ unsaved'   = {}
    /\ cancelDropped' = {}

Init ==
    /\ proc = "down"
    /\ mem = [t \in Tasks |-> NoTask]
    /\ disk = [t \in Tasks |-> NoTask]
    /\ pc = [t \in Tasks |-> "idle"]
    /\ ctxDone = [t \in Tasks |-> FALSE]
    /\ outcome = [t \in Tasks |-> NoOutcome]
    /\ totalUsed = 0 /\ heavyUsed = 0
    /\ delivering = {}
    /\ waiter = [w \in Waiters |-> Asleep]
    /\ accepted = {} /\ unsaved = {} /\ cancelDropped = {} /\ quarantined = {}
    /\ stops = 0 /\ writeFailures = 0 /\ damages = 0

----------------------------------------------------------------------------
(* Start of the process: New, load and ResumeInterrupted, all before the   *)
(* broker accepts its first request.                                       *)

Boot ==
    /\ proc = "down"
    /\ proc' = "loading"
    /\ UNCHANGED <<disk, volatile, history, faults>>

\* A file that does not parse is renamed out of the way.
LoadDamaged(t) ==
    /\ proc = "loading" /\ disk[t] = Damaged
    /\ disk' = [disk EXCEPT ![t] = NoTask]
    /\ quarantined' = quarantined \cup {t}
    /\ UNCHANGED <<proc, volatile, accepted, unsaved, cancelDropped, faults>>

\* Mutant of LoadedAs: every unfinished task is left interrupted, durable or
\* not.
LoadedAlwaysInterrupted(t) ==
    IF disk[t].status \notin Pending THEN disk[t]
    ELSE [disk[t] EXCEPT !.status = "interrupted"]

LoadedAs(t) ==
    IF disk[t].status \notin Pending THEN disk[t]
    ELSE IF t \in DurableTasks THEN [disk[t] EXCEPT !.status = "interrupted"]
    ELSE Rec("failed", "restarted")

\* One snapshot; only a record the load changed is written again.
LoadSnapshot(t) ==
    /\ proc = "loading"
    /\ disk[t] \notin {NoTask, Damaged} /\ mem[t] = NoTask
    /\ mem'  = [mem EXCEPT ![t] = LoadedAs(t)]
    /\ disk' = [disk EXCEPT ![t] = LoadedAs(t)]
    /\ UNCHANGED <<proc, pc, ctxDone, outcome, slots, delivering, waiter,
                   history, faults>>

\* When the changed record cannot be written, New fails and the process ends.
LoadFails(t) ==
    /\ proc = "loading" /\ disk[t].status \in Pending /\ mem[t] = NoTask
    /\ writeFailures < MaxWriteFailures
    /\ writeFailures' = writeFailures + 1
    /\ proc' = "down"
    /\ ForgetMemory
    /\ UNCHANGED <<disk, accepted, quarantined, stops, damages>>

\* New returned: ResumeInterrupted queues the interrupted durable tasks in one
\* critical section, ignoring failed writes (of Failing), and starts a
\* goroutine for each; then the broker serves.
Resumable == {t \in DurableTasks : mem[t].status = "interrupted"}

ResumeInterrupted ==
    /\ proc = "loading"
    /\ \A t \in Tasks : disk[t] = mem[t]
    /\ \E Failing \in SUBSET Resumable :
          /\ writeFailures + Cardinality(Failing) <= MaxWriteFailures
          /\ writeFailures' = writeFailures + Cardinality(Failing)
          /\ mem' = [t \in Tasks |->
                IF t \in Resumable THEN WithStatus(t, "queued") ELSE mem[t]]
          /\ disk' = [t \in Tasks |-> IF t \in Failing THEN disk[t] ELSE mem'[t]]
          /\ unsaved' = (unsaved \ Resumable) \cup Failing
    /\ pc' = [t \in Tasks |-> IF t \in Resumable THEN "wantTotal" ELSE "idle"]
    /\ proc' = "up"
    /\ UNCHANGED <<ctxDone, outcome, slots, delivering, waiter, accepted,
                   cancelDropped, quarantined, stops, damages>>

----------------------------------------------------------------------------
(* Requests of the broker's clients.                                       *)

\* Mutant of Submit: the error of the first write is ignored.
SubmitUnsaved(t) ==
    /\ proc = "up" /\ t \notin accepted
    /\ \E ok \in BOOLEAN : Persist(t, Rec("queued", "none"), ok)
    /\ mem' = [mem EXCEPT ![t] = Rec("queued", "none")]
    /\ pc' = [pc EXCEPT ![t] = "wantTotal"]
    /\ accepted' = accepted \cup {t}
    /\ UNCHANGED <<proc, ctxDone, outcome, slots, delivering, waiter,
                   cancelDropped, quarantined, stops, damages>>

\* The record is inserted and written before the goroutine exists; when the
\* write fails it is deleted again and the caller gets the error.
Submit(t) ==
    /\ proc = "up" /\ t \notin accepted
    /\ \/ /\ Persist(t, Rec("queued", "none"), TRUE)
          /\ mem' = [mem EXCEPT ![t] = Rec("queued", "none")]
          /\ pc' = [pc EXCEPT ![t] = "wantTotal"]
          /\ accepted' = accepted \cup {t}
       \/ /\ writeFailures < MaxWriteFailures
          /\ writeFailures' = writeFailures + 1
          /\ UNCHANGED <<disk, unsaved, mem, pc, accepted>>
    /\ UNCHANGED <<proc, ctxDone, outcome, slots, delivering, waiter,
                   cancelDropped, quarantined, stops, damages>>

\* Mutant of Cancel: cancel() is called only for a task found running, so a
\* second Cancel after a failed write reaches nobody.
CancelOnlyRunning(t) ==
    /\ Serving /\ mem[t] # NoTask /\ ~Terminal(mem[t])
    /\ mem' = [mem EXCEPT ![t] = WithStatus(t, "cancelling")]
    /\ \/ /\ Persist(t, mem'[t], TRUE)
          /\ delivering' = IF mem[t].status = "running" /\ Registered(t)
                           THEN delivering \cup {t} ELSE delivering
          /\ cancelDropped' = cancelDropped \ {t}
       \/ /\ Persist(t, mem'[t], FALSE)
          /\ cancelDropped' = cancelDropped \cup {t}
          /\ UNCHANGED delivering
    /\ UNCHANGED <<proc, pc, ctxDone, outcome, slots, waiter,
                   accepted, quarantined, stops, damages>>

\* Mutant of Cancel: a task that already ended is cancelled all the same.
CancelEnded(t) ==
    /\ Serving /\ mem[t] # NoTask
    /\ mem' = [mem EXCEPT ![t] = WithStatus(t, "cancelling")]
    /\ Persist(t, mem'[t], TRUE)
    /\ delivering' = IF Registered(t) THEN delivering \cup {t} ELSE delivering
    /\ UNCHANGED <<proc, pc, ctxDone, outcome, slots, waiter, cancelDropped,
                   accepted, quarantined, stops, damages>>

\* Mutant of Cancel: the status is left for the runner to look at.
CancelQuiet(t) ==
    /\ Serving /\ mem[t] # NoTask /\ ~Terminal(mem[t])
    /\ mem' = [mem EXCEPT ![t] = WithStatus(t, "cancelling")]
    /\ Persist(t, mem'[t], TRUE)
    /\ UNCHANGED <<proc, pc, ctxDone, outcome, slots, waiter, delivering, cancelDropped,
                   accepted, quarantined, stops, damages>>

\* A failed write returns before cancel() is called, with the status changed.
Cancel(t) ==
    /\ Serving /\ mem[t] # NoTask /\ ~Terminal(mem[t])
    /\ mem' = [mem EXCEPT ![t] = WithStatus(t, "cancelling")]
    /\ \/ /\ Persist(t, mem'[t], TRUE)
          /\ delivering' = IF Registered(t) THEN delivering \cup {t} ELSE delivering
          /\ cancelDropped' = cancelDropped \ {t}
       \/ /\ Persist(t, mem'[t], FALSE)
          /\ cancelDropped' = cancelDropped \cup {t}
          /\ UNCHANGED delivering
    /\ UNCHANGED <<proc, pc, ctxDone, outcome, slots, waiter,
                   accepted, quarantined, stops, damages>>

\* The call of cancel() after the unlock; the run may have ended meanwhile.
DeliverCancel(t) ==
    /\ t \in delivering
    /\ delivering' = delivering \ {t}
    /\ ctxDone' = [ctxDone EXCEPT ![t] = TRUE]
    /\ UNCHANGED <<proc, disk, mem, pc, outcome, slots, waiter, history, faults>>

\* A client's Update, or the runner's own progress report: the record is
\* written again, with whatever status it has.
Update(t) ==
    /\ Serving /\ mem[t] # NoTask /\ ~Terminal(mem[t])
    /\ \E ok \in BOOLEAN : Persist(t, mem[t], ok)
    /\ UNCHANGED <<proc, volatile, accepted, cancelDropped, quarantined, stops, damages>>

\* Wait: a first look without the lock held across it ...
WaitCheck(w, t) ==
    /\ Serving /\ waiter[w].at = "idle"
    /\ mem[t] # NoTask /\ ~Terminal(mem[t])
    /\ waiter' = [waiter EXCEPT ![w] = [task |-> t, at |-> "checked"]]
    /\ UNCHANGED <<proc, disk, mem, pc, ctxDone, outcome, slots, delivering, history, faults>>

\* Mutant of WaitRegister: the status is not looked at again under the lock.
WaitRegisterBlind(w) ==
    /\ waiter[w].at = "checked"
    /\ waiter' = [waiter EXCEPT ![w].at = "parked"]
    /\ UNCHANGED <<proc, disk, mem, pc, ctxDone, outcome, slots, delivering, history, faults>>

\* ... then a second one under the lock that also registers the channel.
WaitRegister(w) ==
    /\ waiter[w].at = "checked"
    /\ waiter' = [waiter EXCEPT ![w] =
          IF Terminal(mem[waiter[w].task]) THEN Asleep
                                           ELSE [waiter[w] EXCEPT !.at = "parked"]]
    /\ UNCHANGED <<proc, disk, mem, pc, ctxDone, outcome, slots, delivering, history, faults>>

\* Woken by the closed channel, or by the caller's own context.
WaitReturn(w) ==
    /\ waiter[w].at \in {"woken", "parked"}
    /\ waiter' = [waiter EXCEPT ![w] = Asleep]
    /\ UNCHANGED <<proc, disk, mem, pc, ctxDone, outcome, slots, delivering, history, faults>>

----------------------------------------------------------------------------
(* Manager.run, the goroutine of one task.                                 *)

TotalHeld(t) == pc[t] \in {"wantHeavy", "starting", "running", "finishing",
                           "releaseHeavy", "releaseTotal"}
HeavyHeld(t) == t \in HeavyTasks
                /\ pc[t] \in {"starting", "running", "finishing", "releaseHeavy"}

\* The select on totalSem, which may pick a free slot although m.closed is
\* closed too.
AcquireTotal(t) ==
    /\ pc[t] = "wantTotal" /\ totalUsed < TotalLimit
    /\ totalUsed' = totalUsed + 1
    /\ pc' = [pc EXCEPT ![t] = IF t \in HeavyTasks THEN "wantHeavy" ELSE "starting"]
    /\ UNCHANGED <<proc, disk, mem, ctxDone, outcome, heavyUsed, delivering,
                   waiter, history, faults>>

\* The select on heavySem: the slot of totalSem is kept while it blocks.
AcquireHeavy(t) ==
    /\ pc[t] = "wantHeavy" /\ heavyUsed < HeavyLimit
    /\ heavyUsed' = heavyUsed + 1
    /\ pc' = [pc EXCEPT ![t] = "starting"]
    /\ UNCHANGED <<proc, disk, mem, ctxDone, outcome, totalUsed, delivering,
                   waiter, history, faults>>

\* finishCancelled: nothing for a task that already ended; a failed write is
\* ignored.
FinishCancelled(t) ==
    IF Terminal(mem[t])
    THEN UNCHANGED <<mem, disk, unsaved, writeFailures, waiter>>
    ELSE /\ mem' = [mem EXCEPT ![t] = Rec("cancelled", "cancelled")]
         /\ \E ok \in BOOLEAN : Persist(t, mem'[t], ok)
         /\ Notify(t)

AfterRun(t) == IF t \in HeavyTasks THEN "releaseHeavy" ELSE "releaseTotal"

\* Mutant of StopWaiting: the release is deferred before the select, so a
\* goroutine that took no slot gives one back.
StopWaitingReleases(t) ==
    /\ Closed /\ pc[t] \in {"wantTotal", "wantHeavy"}
    /\ FinishCancelled(t)
    /\ pc' = [pc EXCEPT ![t] = "releaseTotal"]
    /\ UNCHANGED <<proc, ctxDone, outcome, slots, delivering, accepted,
                   cancelDropped, quarantined, stops, damages>>

\* Mutant of StopWaiting: the slot of totalSem is given back only by a task
\* that ran.
StopWaitingLeak(t) ==
    /\ Closed /\ pc[t] \in {"wantTotal", "wantHeavy"}
    /\ FinishCancelled(t)
    /\ pc' = [pc EXCEPT ![t] = "done"]
    /\ UNCHANGED <<proc, ctxDone, outcome, slots, delivering, accepted,
                   cancelDropped, quarantined, stops, damages>>

\* m.closed ends a goroutine that waits for a slot.
StopWaiting(t) ==
    /\ Closed /\ pc[t] \in {"wantTotal", "wantHeavy"}
    /\ FinishCancelled(t)
    /\ pc' = [pc EXCEPT ![t] = IF pc[t] = "wantHeavy" THEN "releaseTotal" ELSE "done"]
    /\ UNCHANGED <<proc, ctxDone, outcome, slots, delivering, accepted,
                   cancelDropped, quarantined, stops, damages>>

\* Mutant of StartCancelled: the goroutine just returns.
StartCancelledSilent(t) ==
    /\ pc[t] = "starting" /\ mem[t].status = "cancelling"
    /\ pc' = [pc EXCEPT ![t] = AfterRun(t)]
    /\ UNCHANGED <<proc, disk, mem, ctxDone, outcome, slots, delivering, waiter,
                   history, faults>>

\* A task cancelled while it was queued never reaches its runner.
StartCancelled(t) ==
    /\ pc[t] = "starting" /\ mem[t].status = "cancelling"
    /\ FinishCancelled(t)
    /\ pc' = [pc EXCEPT ![t] = AfterRun(t)]
    /\ UNCHANGED <<proc, ctxDone, outcome, slots, delivering, accepted,
                   cancelDropped, quarantined, stops, damages>>

StartRunner(t) ==
    /\ pc[t] = "starting" /\ mem[t].status # "cancelling"
    /\ mem' = [mem EXCEPT ![t] = WithStatus(t, "running")]
    /\ \E ok \in BOOLEAN : Persist(t, mem'[t], ok)
    /\ pc' = [pc EXCEPT ![t] = "running"]
    /\ UNCHANGED <<proc, ctxDone, outcome, slots, delivering, waiter, accepted,
                   cancelDropped, quarantined, stops, damages>>

\* The runner returns, whether or not its context is cancelled, with any
\* result; wasCancelled is read right after.
RunnerReturns(t) ==
    /\ pc[t] = "running"
    /\ \E kind \in RunnerResult :
          outcome' = [outcome EXCEPT ![t] = [kind |-> kind, cancelled |-> ctxDone[t]]]
    /\ pc' = [pc EXCEPT ![t] = "finishing"]
    /\ UNCHANGED <<proc, disk, mem, ctxDone, slots, delivering, waiter, history, faults>>

\* Mutant of FinalStatus: only the context is asked, not the status.
FinalStatusOfContext(t) ==
    CASE outcome[t].cancelled -> "cancelled"
      [] ~outcome[t].cancelled ->
           CASE outcome[t].kind = "ok"      -> "succeeded"
             [] outcome[t].kind = "timeout" -> "timed_out"
             [] outcome[t].kind = "error"   -> "failed"

\* A cancellation wins over whatever the runner returned.
FinalStatus(t) ==
    CASE mem[t].status = "cancelling" \/ outcome[t].cancelled -> "cancelled"
      [] mem[t].status # "cancelling" /\ ~outcome[t].cancelled ->
           CASE outcome[t].kind = "ok"      -> "succeeded"
             [] outcome[t].kind = "timeout" -> "timed_out"
             [] outcome[t].kind = "error"   -> "failed"

RecordResult(t) ==
    /\ pc[t] = "finishing"
    /\ mem' = [mem EXCEPT ![t] = Rec(FinalStatus(t), outcome[t].kind)]
    /\ \E ok \in BOOLEAN : Persist(t, mem'[t], ok)
    /\ Notify(t)
    /\ pc' = [pc EXCEPT ![t] = AfterRun(t)]
    /\ UNCHANGED <<proc, ctxDone, outcome, slots, delivering, accepted,
                   cancelDropped, quarantined, stops, damages>>

\* The deferred receives, last deferred first.
ReleaseHeavy(t) ==
    /\ pc[t] = "releaseHeavy"
    /\ heavyUsed' = heavyUsed - 1
    /\ pc' = [pc EXCEPT ![t] = "releaseTotal"]
    /\ UNCHANGED <<proc, disk, mem, ctxDone, outcome, totalUsed, delivering,
                   waiter, history, faults>>

ReleaseTotal(t) ==
    /\ pc[t] = "releaseTotal"
    /\ totalUsed' = totalUsed - 1
    /\ pc' = [pc EXCEPT ![t] = "done"]
    /\ UNCHANGED <<proc, disk, mem, ctxDone, outcome, heavyUsed, delivering,
                   waiter, history, faults>>

----------------------------------------------------------------------------
(* End of the process.                                                     *)

\* Close: close(m.closed), then every registered cancel under the lock.
Close ==
    /\ proc = "up" /\ stops < MaxStops
    /\ proc' = "closing" /\ stops' = stops + 1
    /\ UNCHANGED <<disk, volatile, history, writeFailures, damages>>

CloseCancels ==
    /\ proc = "closing"
    /\ proc' = "closed"
    /\ ctxDone' = [t \in Tasks |-> ctxDone[t] \/ Registered(t)]
    /\ UNCHANGED <<disk, mem, pc, outcome, slots, delivering, waiter, history, faults>>

\* The broker returns after Close without waiting for the goroutines.
Exit ==
    /\ proc = "closed"
    /\ proc' = "down" /\ ForgetMemory
    /\ UNCHANGED <<disk, accepted, quarantined, faults>>

Crash ==
    /\ proc # "down" /\ stops < MaxStops
    /\ proc' = "down" /\ stops' = stops + 1
    /\ ForgetMemory
    /\ UNCHANGED <<disk, accepted, quarantined, writeFailures, damages>>

\* Storage damages a snapshot that nobody has open.
Damage(t) ==
    /\ proc = "down" /\ damages < MaxDamages
    /\ disk[t] \notin {NoTask, Damaged}
    /\ disk' = [disk EXCEPT ![t] = Damaged]
    /\ damages' = damages + 1
    /\ UNCHANGED <<proc, volatile, history, stops, writeFailures>>

----------------------------------------------------------------------------
Start(t) == LoadDamaged(t) \/ LoadSnapshot(t) \/ LoadFails(t)
Request(t) == Submit(t) \/ Cancel(t) \/ DeliverCancel(t) \/ Update(t)
Run(t) == \/ AcquireTotal(t) \/ AcquireHeavy(t) \/ StopWaiting(t)
          \/ StartCancelled(t) \/ StartRunner(t) \/ RunnerReturns(t)
          \/ RecordResult(t) \/ ReleaseHeavy(t) \/ ReleaseTotal(t)
Wait(w) == (\E t \in Tasks : WaitCheck(w, t)) \/ WaitRegister(w) \/ WaitReturn(w)
Process == Boot \/ ResumeInterrupted \/ Close \/ CloseCancels \/ Exit \/ Crash

Next ==
    \/ \E t \in Tasks : Start(t) \/ Request(t) \/ Run(t) \/ Damage(t)
    \/ \E w \in Waiters : Wait(w)
    \/ Process

Spec == Init /\ [][Next]_vars

----------------------------------------------------------------------------
(* Safety.                                                                 *)

\* Every variable keeps its type.
PCs == {"idle", "wantTotal", "wantHeavy", "starting", "running", "finishing",
        "releaseHeavy", "releaseTotal", "done"}

TypeOK ==
    /\ proc \in {"down", "loading", "up", "closing", "closed"}
    /\ mem  \in [Tasks -> Record \cup {NoTask}]
    /\ disk \in [Tasks -> Record \cup {NoTask, Damaged}]
    /\ pc \in [Tasks -> PCs]
    /\ ctxDone \in [Tasks -> BOOLEAN]
    /\ outcome \in [Tasks -> [kind : RunnerResult \cup {"none"}, cancelled : BOOLEAN]]
    /\ totalUsed \in Nat /\ heavyUsed \in Nat
    /\ delivering \subseteq Tasks
    /\ waiter \in [Waiters -> [task : Tasks \cup {"none"},
                               at : {"idle", "checked", "parked", "woken"}]]
    /\ accepted \subseteq Tasks /\ unsaved \subseteq Tasks
    /\ cancelDropped \subseteq Tasks /\ quarantined \subseteq Tasks
    /\ stops \in 0..MaxStops /\ writeFailures \in 0..MaxWriteFailures
    /\ damages \in 0..MaxDamages

\* The semaphores hold exactly the goroutines that are between their acquire
\* and their deferred release, on every path out of Manager.run (cancelled
\* before the start, stopped while waiting, ended), and never more than the
\* configured limits.
SlotsExact ==
    /\ totalUsed = Cardinality({t \in Tasks : TotalHeld(t)})
    /\ heavyUsed = Cardinality({t \in Tasks : HeavyHeld(t)})
    /\ totalUsed <= TotalLimit
    /\ heavyUsed <= HeavyLimit

\* Wait looks at the status twice and registers its channel under the lock:
\* no caller sleeps on a task that already ended, and none is woken early.
NoLostWakeup ==
    \A w \in Waiters :
        /\ waiter[w].at = "parked" => ~Terminal(mem[waiter[w].task])
        /\ waiter[w].at = "woken"  => Terminal(mem[waiter[w].task])

\* A cancellation that was answered without an error, of a task whose runner
\* is executing, has cancelled the runner's context or is about to: the
\* goroutine that starts the runner and the request that cancels it cannot
\* miss each other.
CancelReachesRunner ==
    \A t \in Tasks :
        mem[t].status = "cancelling" /\ pc[t] = "running" /\ t \notin cancelDropped
            => ctxDone[t] \/ t \in delivering

\* A task whose Submit returned an identifier has a snapshot, whatever
\* happened since, unless its file was found damaged and set aside.
AcceptedOnDisk ==
    \A t \in accepted \ quarantined : disk[t] # NoTask

\* What a client can learn of a task: the record in memory, or, until it is
\* loaded, the one on disk.
View(t) == IF mem[t] # NoTask THEN mem[t] ELSE disk[t]

\* A final status and its result are final, over crashes, stops and restarts:
\* no later Cancel, Update, finishCancelled, load or resume changes them (but
\* for a final record whose write failed, and a file damaged from outside).
FinalStays ==
    [][\A t \in Tasks :
         Terminal(View(t)) /\ t \notin unsaved
            => View(t)' = View(t) \/ disk'[t] = Damaged]_vars

\* Within one life of the process a task that is being cancelled can only
\* become cancelled, whatever its runner returns and however it races with
\* its start.
CancelSticks ==
    [][\A t \in Tasks :
         mem[t].status = "cancelling"
            => mem'[t].status \in {"cancelling", "cancelled"} \/ proc' = "down"]_vars

----------------------------------------------------------------------------
(* Liveness.                                                               *)

\* The Go scheduler runs every goroutine that is not blocked; a sender that
\* blocks on a full semaphore is queued first come, first served, hence the
\* strong fairness; a runner is bound to return once its context is
\* cancelled, and not otherwise; the supervisor starts the process again.
Fairness ==
    /\ WF_vars(Boot) /\ WF_vars(ResumeInterrupted)
    /\ WF_vars(CloseCancels) /\ WF_vars(Exit)
    /\ \A t \in Tasks :
          /\ WF_vars(Start(t))
          /\ WF_vars(DeliverCancel(t))
          /\ SF_vars(AcquireTotal(t)) /\ SF_vars(AcquireHeavy(t))
          /\ WF_vars(StartCancelled(t) \/ StartRunner(t) \/ RecordResult(t))
          /\ WF_vars(ReleaseHeavy(t) \/ ReleaseTotal(t))
          /\ WF_vars(ctxDone[t] /\ RunnerReturns(t))

FairSpec == Spec /\ Fairness

\* If no operation runs for ever, every accepted task ends, through any
\* number of cancellations, stops and restarts (or its file was damaged).
RunnersReturn == \A t \in Tasks : []<>(pc[t] # "running")
EventuallyFinal ==
    RunnersReturn =>
        \A t \in Tasks : t \in accepted ~> (Terminal(View(t)) \/ t \in quarantined)

\* Even an operation that would run for ever ends after a cancellation that
\* was answered without an error (or the process does).
CancelEndsRunner ==
    \A t \in Tasks :
        (mem[t].status = "cancelling" /\ pc[t] = "running" /\ t \notin cancelDropped)
            ~> (Terminal(mem[t]) \/ proc = "down")

\* README.md:8 and docs/ACCEPTANCE.md:34 count cancellation among what is
\* durable (manager.go persists it, too, before Cancel returns): a task whose
\* cancellation is on disk when the process ends is not executed again by a
\* later process.
CancelSurvivesRestart ==
    \A t \in Tasks :
        [](proc = "down" /\ disk[t].status = "cancelling" => [](pc[t] # "running"))

----------------------------------------------------------------------------
(* Refinement.                                                             *)

\* The stage of a task, as its status tells it (a damaged file tells none).
StageOf(t) ==
    CASE View(t).status = "none"                      -> "absent"
      [] View(t).status \in {"queued", "interrupted"} -> "waiting"
      [] View(t).status \in {"running", "cancelling"} -> "working"
      [] Terminal(View(t))                            -> View(t).status

Lifecycle == INSTANCE TaskLifecycle WITH stage <- [t \in Tasks |-> StageOf(t)]

\* Without failed writes and damaged files every behaviour is one of
\* TaskLifecycle: accepted tasks are never forgotten, end once, and only the
\* durable ones are begun again.
ImplementsLifecycle == Lifecycle!Spec
=============================================================================
