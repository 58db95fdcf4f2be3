----------------------------- MODULE Scheduler -----------------------------
(***************************************************************************)
(* internal/ops/schedule.go: the schedules of zcr521_schedule.             *)
(*                                                                         *)
(* Schedules live in a map under schedulesMu, and each has a file.  A file *)
(* is written outside the lock, through one temporary name per schedule,   *)
(* by whoever changed the schedule: a request, a run that ended, or the    *)
(* loop.  The loop (schedulerLoop) keeps the event listeners and a timer   *)
(* in step with the map; a request tells it of a change through a channel  *)
(* that holds one token.  The files are read once, by the first request    *)
(* after the start of the process.                                         *)
(*                                                                         *)
(* The clock is monotone.  Arguments, results, retries and the 30 seconds  *)
(* between two runs for an event are data: a run lasts as long as it       *)
(* lasts, and an event may start any of the runs it is meant for.          *)
(***************************************************************************)
EXTENDS Integers, FiniteSets, Functions

CONSTANTS
    Ids,               \* identifiers of schedules
    Requests,          \* handlers of the tool's requests
    Runners,           \* goroutines of executeSchedule that have started
    Kinds,             \* types of schedules in use
    EventKinds,        \* those started by an event: network, charging
    EventCapacity,     \* capacity of the channel scheduleEvents
    MaxTime,           \* bound: the clock
    MaxLaunched,       \* bound: goroutines that wait to start, by request or event
    MaxWriteFailures,  \* bound: writes, removals, reads and listeners that fail
    MaxCrashes,        \* bound: ends of the process
    MaxChanges         \* bound: requests that change a schedule

ASSUME KindsAssumption ==
    /\ EventKinds \subseteq {"network", "charging"}
    /\ Kinds \subseteq {"once", "interval", "boot"} \cup EventKinds

\* The loop writes one schedule after the other; each of these writes is a
\* writer named by its schedule, since they touch different files.
ASSUME WritersAssumption ==
    /\ Ids \cap Requests = {} /\ Ids \cap Runners = {} /\ Requests \cap Runners = {}

ASSUME SchedulerBounds ==
    /\ EventCapacity \in Nat /\ MaxTime \in Nat /\ MaxLaunched \in Nat
    /\ MaxWriteFailures \in Nat /\ MaxCrashes \in Nat /\ MaxChanges \in Nat

VARIABLES
    proc,        \* down, started, or serving once the files were read
    now,         \* the clock
    mem,         \* m.schedules
    disk,        \* the file of each schedule
    writer,      \* who is doing what to a schedule
    loop,        \* where schedulerLoop is
    needed,      \* the kinds that reconcile found in use
    due,         \* the schedules the loop will launch
    armed,       \* when the timer rings, or Never
    signal,      \* scheduleChanges holds its token
    events,      \* what scheduleEvents holds
    listening,   \* kinds with a listener
    refused,     \* kinds whose listener could not start
    launched,    \* goroutines of executeSchedule that have not started
    fired,       \* history: how often the timer started a once schedule for its
                 \* instant, since it was last saved with it
    unnoticed,   \* history: changed by a request that failed before its signal
    mixed,       \* schedules whose file more than one writer was at, the last
                 \* one failed to write, or the process could not read
    writeFailures, crashes, changes

sched  == <<mem, launched>>
files  == <<disk, mixed>>
looper == <<loop, needed, due, armed>>
wakes  == <<signal, events, listening, refused>>
ghosts == <<fired, unnoticed>>
bounds == <<writeFailures, crashes, changes>>
vars   == <<proc, now, sched, files, writer, looper, wakes, ghosts, bounds>>

Never == 0
Times == 1..MaxTime

Schedule   == [kind : Kinds, enabled : BOOLEAN, at : 0..MaxTime, next : 0..MaxTime + 1]
NoSchedule == [kind |-> "none", enabled |-> FALSE, at |-> Never, next |-> Never]

\* What load reads of a file: the next time is computed anew.
Content(s) == [kind |-> s.kind, enabled |-> s.enabled, at |-> s.at]
Contents   == [kind : Kinds, enabled : BOOLEAN, at : 0..MaxTime]
NoFile == [kind |-> "none", enabled |-> FALSE, at |-> Never]
Torn   == [kind |-> "torn", enabled |-> FALSE, at |-> Never]

Writers == Requests \cup Runners \cup Ids

\* A writer of a file holds the text it will write, or goes to remove it.
Resting == [at |-> "idle", id |-> "none", text |-> NoFile]
At(stage, id, text) == [at |-> stage, id |-> id, text |-> text]

Writing(w, id) == writer[w].id = id /\ writer[w].at \in {"write", "remove"}

Init ==
    /\ proc = "down" /\ now = 0
    /\ mem = [id \in Ids |-> NoSchedule]
    /\ launched = [id \in Ids |-> 0]
    /\ disk = [id \in Ids |-> NoFile]
    /\ writer = [w \in Writers |-> Resting]
    /\ loop = "off" /\ needed = {} /\ due = {} /\ armed = Never
    /\ signal = FALSE /\ events = [k \in EventKinds |-> 0]
    /\ listening = {} /\ refused = {}
    /\ fired = [id \in Ids |-> [t \in Times |-> 0]] /\ unnoticed = {} /\ mixed = {}
    /\ writeFailures = 0 /\ crashes = 0 /\ changes = 0

\* Mutant of ScheduleNext: a once schedule keeps the time it was given.
ScheduleNextPast(s, after) ==
    CASE s.kind = "once"                 -> s.at
      [] s.kind \in {"interval", "boot"} -> after + 1
      [] s.kind \in EventKinds           -> Never

\* The next time after the given one; none for a once schedule that is past.
ScheduleNext(s, after) ==
    CASE s.kind = "once"                 -> IF s.at > after THEN s.at ELSE Never
      [] s.kind \in {"interval", "boot"} -> after + 1
      [] s.kind \in EventKinds           -> Never

Scheduled(s, after) ==
    [s EXCEPT !.next = IF s.enabled THEN ScheduleNext(s, after) ELSE Never]

----------------------------------------------------------------------------
(* The process and the first request.                                      *)

Start ==
    /\ proc = "down" /\ proc' = "started"
    /\ UNCHANGED <<now, sched, files, writer, looper, wakes, ghosts, bounds>>

\* ensureSchedulesLoaded: a file that does not parse is passed over, and so is
\* one that could not be read; all of them, where the directory could not be.
Load ==
    /\ proc = "started" /\ proc' = "serving"
    /\ \E unread \in SUBSET {id \in Ids : disk[id] \notin {NoFile, Torn}} :
          /\ mem' = [id \in Ids |->
                IF id \in unread \/ disk[id] \in {NoFile, Torn} THEN NoSchedule
                ELSE Scheduled([kind |-> disk[id].kind, enabled |-> disk[id].enabled,
                                at |-> disk[id].at, next |-> Never], now)]
          /\ mixed' = unread \cup {id \in Ids : disk[id] = Torn}
          /\ \/ unread = {} /\ UNCHANGED writeFailures
             \/ /\ unread # {} /\ writeFailures < MaxWriteFailures
                /\ writeFailures' = writeFailures + 1
    /\ loop' = "reconcile"
    /\ UNCHANGED <<now, launched, disk, writer, needed, due, armed, wakes,
                   fired, unnoticed, crashes, changes>>

Crash ==
    /\ proc # "down" /\ crashes < MaxCrashes
    /\ proc' = "down" /\ crashes' = crashes + 1
    /\ mem' = [id \in Ids |-> NoSchedule] /\ launched' = [id \in Ids |-> 0]
    /\ writer' = [w \in Writers |-> Resting]
    /\ loop' = "off" /\ needed' = {} /\ due' = {} /\ armed' = Never
    /\ signal' = FALSE /\ events' = [k \in EventKinds |-> 0]
    /\ listening' = {} /\ refused' = {} /\ unnoticed' = {}
    /\ UNCHANGED <<now, files, fired, writeFailures, changes>>

Tick ==
    /\ now < MaxTime /\ now' = now + 1
    /\ UNCHANGED <<proc, sched, files, writer, looper, wakes, ghosts, bounds>>

----------------------------------------------------------------------------
(* Requests: a critical section, the file, the signal.                     *)

Request(r) ==
    /\ proc = "serving" /\ writer[r].at = "idle"
    /\ changes < MaxChanges /\ changes' = changes + 1

\* A writer leaves a critical section on its way to the file.
Enters(w, id, stage, text) ==
    /\ writer' = [writer EXCEPT ![w] = At(stage, id, text)]
    /\ mixed' = IF \E v \in Writers \ {w} : Writing(v, id)
                THEN mixed \cup {id} ELSE mixed \ {id}

\* create of a new identifier, and update, which creates what it does not find.
\* The schedule was parsed, and its next time computed, before the lock.
Save(r, id) ==
    /\ Request(r)
    /\ \E parsed \in 0..now, kind \in Kinds, enabled \in BOOLEAN :
       \E at \in IF kind = "once" THEN {t \in Times : t > parsed} ELSE {Never} :
          mem' = [mem EXCEPT ![id] = Scheduled([kind |-> kind, enabled |-> enabled,
                                                at |-> at, next |-> Never], parsed)]
    /\ fired' = [fired EXCEPT ![id] = [t \in Times |-> IF mem'[id].at = t THEN 0 ELSE @[t]]]
    /\ Enters(r, id, "write", Content(mem'[id]))
    /\ UNCHANGED <<proc, now, launched, disk, looper, wakes, unnoticed,
                   writeFailures, crashes>>

Delete(r, id) ==
    /\ Request(r) /\ mem[id] # NoSchedule
    /\ mem' = [mem EXCEPT ![id] = NoSchedule]
    /\ Enters(r, id, "remove", NoFile)
    /\ UNCHANGED <<proc, now, launched, disk, looper, wakes, fired, unnoticed,
                   writeFailures, crashes>>

\* Mutant of Switch: the change is announced and never written.
SwitchUnsaved(r, id) ==
    /\ Request(r) /\ mem[id] # NoSchedule
    /\ \E enabled \in BOOLEAN :
          mem' = [mem EXCEPT ![id] = Scheduled([mem[id] EXCEPT !.enabled = enabled], now)]
    /\ signal' = TRUE
    /\ UNCHANGED <<proc, now, launched, files, writer, looper, events, listening,
                   refused, fired, unnoticed, writeFailures, crashes>>

\* enable and disable change the schedule where it is.
Switch(r, id) ==
    /\ Request(r) /\ mem[id] # NoSchedule
    /\ \E enabled \in BOOLEAN :
          mem' = [mem EXCEPT ![id] = Scheduled([mem[id] EXCEPT !.enabled = enabled], now)]
    /\ Enters(r, id, "write", Content(mem'[id]))
    /\ UNCHANGED <<proc, now, launched, disk, looper, wakes, fired, unnoticed,
                   writeFailures, crashes>>

RunNow(id) ==
    /\ proc = "serving" /\ mem[id] # NoSchedule /\ launched[id] < MaxLaunched
    /\ launched' = [launched EXCEPT ![id] = @ + 1]
    /\ UNCHANGED <<proc, now, mem, files, writer, looper, wakes, ghosts, bounds>>

\* Mutant of Signal: the channel has no room for a token.
SignalUnbuffered(w) == signal' = (signal \/ (w \in Requests /\ loop = "select"))

\* signalScheduler, by a request whose file is written: a token, unless there
\* is one.
Signal(w) == signal' = (signal \/ w \in Requests)

----------------------------------------------------------------------------
(* The file of a schedule.                                                 *)

\* A request whose write fails answers with the error and does not signal; the
\* others ignore the error.
Written(w) ==
    /\ writer' = [writer EXCEPT ![w] = Resting]
    /\ Signal(w) /\ UNCHANGED unnoticed

GivesUp(w) ==
    /\ writer' = [writer EXCEPT ![w] = Resting]
    /\ UNCHANGED signal
    /\ unnoticed' = IF w \in Requests THEN unnoticed \cup {writer[w].id} ELSE unnoticed

\* persistSchedule: a temporary file gets the final name.
Persist(w) ==
    LET id == writer[w].id IN
    /\ writer[w].at = "write" /\ id \notin mixed
    /\ disk' = [disk EXCEPT ![id] = writer[w].text]
    /\ Written(w)
    /\ UNCHANGED <<proc, now, sched, mixed, looper, events, listening, refused,
                   fired, bounds>>

\* All writers of a schedule share the name of the temporary file, and each
\* reads the schedule without the lock.  When they overlap, the file may become
\* what any of them wrote or the schedule has become, or a mixture, or stay as
\* it is; and the rename of a file another one renamed already is an error.
PersistMixed(w) ==
    LET id == writer[w].id
        texts == ({writer[v].text : v \in {u \in Writers : Writing(u, id)}}
                  \cup {Content(mem[id])}) \ {NoFile}
    IN
    /\ writer[w].at = "write" /\ id \in mixed
    /\ \E text \in texts \cup {disk[id], Torn} :
          /\ disk' = [disk EXCEPT ![id] = text]
          /\ (Written(w) /\ text \in texts \cup {Torn}) \/ GivesUp(w)
    /\ UNCHANGED <<proc, now, sched, mixed, looper, events, listening, refused,
                   fired, bounds>>

Remove(w) ==
    /\ writer[w].at = "remove"
    /\ disk' = [disk EXCEPT ![writer[w].id] = NoFile]
    /\ Written(w)
    /\ UNCHANGED <<proc, now, sched, mixed, looper, events, listening, refused,
                   fired, bounds>>

\* The disk is full, or the file system is gone.
WriteFails(w) ==
    /\ writer[w].at \in {"write", "remove"} /\ writeFailures < MaxWriteFailures
    /\ writeFailures' = writeFailures + 1
    /\ mixed' = mixed \cup {writer[w].id}
    /\ GivesUp(w)
    /\ UNCHANGED <<proc, now, sched, disk, looper, events, listening, refused,
                   fired, changes, crashes>>

----------------------------------------------------------------------------
(* executeSchedule.                                                        *)

StartRun(x, id) ==
    /\ writer[x].at = "idle" /\ launched[id] > 0
    /\ launched' = [launched EXCEPT ![id] = @ - 1]
    /\ writer' = IF mem[id] = NoSchedule THEN writer
                 ELSE [writer EXCEPT ![x] = At("running", id, NoFile)]
    /\ UNCHANGED <<proc, now, mem, files, looper, wakes, ghosts, bounds>>

\* Mutant of FinishRun: the schedule is not looked up again.
FinishRunBlind(x) ==
    /\ writer[x].at = "running"
    /\ Enters(x, writer[x].id, "write", Content(mem[writer[x].id]))
    /\ UNCHANGED <<proc, now, sched, disk, looper, wakes, ghosts, bounds>>

\* The result is recorded and written only if the schedule is still there.
FinishRun(x) ==
    /\ writer[x].at = "running"
    /\ \/ /\ mem[writer[x].id] # NoSchedule
          /\ Enters(x, writer[x].id, "write", Content(mem[writer[x].id]))
       \/ /\ mem[writer[x].id] = NoSchedule
          /\ writer' = [writer EXCEPT ![x] = Resting] /\ UNCHANGED mixed
    /\ UNCHANGED <<proc, now, sched, disk, looper, wakes, ghosts, bounds>>

----------------------------------------------------------------------------
(* schedulerLoop.                                                          *)

Enabled(id) == mem[id].enabled
InUse == {k \in EventKinds : \E id \in Ids : Enabled(id) /\ mem[id].kind = k}

LoopGoes(from, to) == loop = from /\ loop' = to

\* reconcileScheduleEventListeners, under schedulesMu ...
LoopReconcile ==
    /\ LoopGoes("reconcile", "listen")
    /\ needed' = InUse
    /\ unnoticed' = {}
    /\ UNCHANGED <<proc, now, sched, files, writer, due, armed, wakes, fired, bounds>>

\* The loop begins to write the schedules of Saved.
LoopWrites(Saved) ==
    /\ writer' = [v \in Writers |-> IF v \in Saved THEN At("write", v, Content(mem'[v]))
                                                 ELSE writer[v]]
    /\ mixed' = (mixed \ Saved)
                \cup {id \in Saved : \E v \in Writers : Writing(v, id)}

\* ... and under scheduleEventMu.  The schedules of a kind whose listener does
\* not start are marked and written.
LoopListen ==
    /\ LoopGoes("listen", "marking") /\ UNCHANGED sched
    /\ \E Failing \in SUBSET (needed \ (listening \cup refused)) :
          /\ writeFailures + Cardinality(Failing) <= MaxWriteFailures
          /\ writeFailures' = writeFailures + Cardinality(Failing)
          /\ listening' = needed \ ((refused \ listening) \cup Failing)
          /\ refused' = (refused \cap needed) \cup Failing
          /\ LoopWrites({id \in Ids : Enabled(id) /\ mem[id].kind \in Failing})
    /\ UNCHANGED <<proc, now, sched, disk, needed, due, armed, signal, events,
                   fired, unnoticed, crashes, changes>>

LoopWritten == \A id \in Ids : writer[id].at = "idle"

NextTimes == {mem[id].next : id \in {i \in Ids : Enabled(i)}} \ {Never}
Nearest(times) == \/ times = {} /\ armed' = Never
                  \/ armed' \in times /\ \A t \in times : armed' <= t

\* Mutant of LoopArm: only a time still to come is armed.
LoopArmLater ==
    /\ LoopGoes("marking", "select") /\ LoopWritten
    /\ Nearest({t \in NextTimes : t > now})
    /\ UNCHANGED <<proc, now, sched, files, writer, needed, due, wakes, ghosts, bounds>>

\* nearestScheduleTime, and the timer set to it, even if it has passed.
LoopArm ==
    /\ LoopGoes("marking", "select") /\ LoopWritten
    /\ Nearest(NextTimes)
    /\ UNCHANGED <<proc, now, sched, files, writer, needed, due, wakes, ghosts, bounds>>

LoopChanged ==
    /\ LoopGoes("select", "reconcile") /\ signal
    /\ signal' = FALSE
    /\ UNCHANGED <<proc, now, sched, files, writer, needed, due, armed, events,
                   listening, refused, ghosts, bounds>>

\* triggerScheduleEvent; which of its schedules ran in the last 30 seconds is
\* not modelled.
LoopEvent(k) ==
    /\ LoopGoes("select", "reconcile") /\ events[k] > 0
    /\ events' = [events EXCEPT ![k] = @ - 1]
    /\ \E T \in SUBSET {id \in Ids : Enabled(id) /\ mem[id].kind = k
                                     /\ launched[id] < MaxLaunched} :
          launched' = [id \in Ids |-> launched[id] + IF id \in T THEN 1 ELSE 0]
    /\ UNCHANGED <<proc, now, mem, files, writer, needed, due, armed, signal,
                   listening, refused, ghosts, bounds>>

Due(id) == Enabled(id) /\ mem[id].next # Never /\ mem[id].next <= now

\* A schedule that ran for the last time is disabled.
Triggered(s) ==
    IF s.kind \in {"once", "boot"}
    THEN [s EXCEPT !.enabled = FALSE, !.next = Never] ELSE Scheduled(s, now)

\* triggerDueSchedules.
LoopTimer ==
    /\ LoopGoes("select", "saving") /\ armed # Never /\ armed <= now
    /\ due' = {id \in Ids : Due(id)}
    /\ mem' = [id \in Ids |-> IF Due(id) THEN Triggered(mem[id]) ELSE mem[id]]
    /\ fired' = [id \in Ids |-> [t \in Times |->
          fired[id][t] + IF Due(id) /\ mem[id].kind = "once" /\ mem[id].at = t THEN 1 ELSE 0]]
    /\ LoopWrites({id \in Ids : Due(id)})
    /\ UNCHANGED <<proc, now, launched, disk, needed, armed, wakes, unnoticed, bounds>>

LoopLaunch ==
    /\ LoopGoes("saving", "reconcile") /\ LoopWritten
    /\ launched' = [id \in Ids |-> launched[id] + IF id \in due THEN 1 ELSE 0]
    /\ due' = {}
    /\ UNCHANGED <<proc, now, mem, files, writer, needed, armed, wakes, ghosts, bounds>>

\* A listener sends what it hears unless the channel is full.
Hear(k) ==
    /\ k \in listening /\ FoldFunction(+, 0, events) < EventCapacity
    /\ events' = [events EXCEPT ![k] = @ + 1]
    /\ UNCHANGED <<proc, now, sched, files, writer, looper, signal, listening,
                   refused, ghosts, bounds>>

----------------------------------------------------------------------------
File(w) == Persist(w) \/ PersistMixed(w) \/ Remove(w) \/ WriteFails(w)
Change(r) == \E id \in Ids : Save(r, id) \/ Delete(r, id) \/ Switch(r, id)
Run(x) == (\E id \in Ids : StartRun(x, id)) \/ FinishRun(x)
Loop == \/ LoopReconcile \/ LoopListen \/ LoopArm \/ LoopChanged
        \/ LoopTimer \/ LoopLaunch \/ \E k \in EventKinds : LoopEvent(k)

Next ==
    \/ Start \/ Load \/ Crash \/ Tick
    \/ \E r \in Requests : Change(r)
    \/ \E id \in Ids : RunNow(id)
    \/ \E w \in Writers : File(w)
    \/ \E x \in Runners : Run(x)
    \/ \E k \in EventKinds : Hear(k)
    \/ Loop

Spec == Init /\ [][Next]_vars

----------------------------------------------------------------------------
TypeOK ==
    /\ proc \in {"down", "started", "serving"} /\ now \in 0..MaxTime
    /\ mem \in [Ids -> Schedule \cup {NoSchedule}]
    /\ launched \in [Ids -> Nat]
    /\ disk \in [Ids -> Contents \cup {NoFile, Torn}]
    /\ writer \in [Writers ->
          {Resting} \cup [at : {"running", "remove"}, id : Ids, text : {NoFile}]
                    \cup [at : {"write"}, id : Ids, text : Contents]]
    /\ loop \in {"off", "reconcile", "listen", "marking", "select", "saving"}
    /\ needed \subseteq EventKinds /\ due \subseteq Ids /\ armed \in 0..MaxTime + 1
    /\ signal \in BOOLEAN /\ events \in [EventKinds -> Nat]
    /\ listening \subseteq EventKinds /\ refused \subseteq EventKinds
    /\ fired \in [Ids -> [Times -> Nat]]
    /\ unnoticed \subseteq Ids /\ mixed \subseteq Ids
    /\ writeFailures \in 0..MaxWriteFailures /\ crashes \in 0..MaxCrashes
    /\ changes \in 0..MaxChanges

\* A once schedule is started by the timer at most once for its instant, until
\* it is saved with that instant again: not when it is enabled again, nor when
\* it is read back from a file that still says enabled because the process
\* ended before the write.
OnceFiresOnce == \A id \in Ids, t \in Times : fired[id][t] <= 1

\* Files are written outside the lock.  Still, whenever nobody is writing a
\* schedule, its file says what the map says (a deleted schedule has none), as
\* long as its writers did not overlap and the last write did not fail.
FilesFollow ==
    proc = "serving" =>
        \A id \in Ids \ mixed :
            (\A w \in Writers : ~Writing(w, id)) =>
                disk[id] = IF mem[id] = NoSchedule THEN NoFile ELSE Content(mem[id])

\* When the loop waits and no change is on its way to it, it has a listener
\* for exactly the kinds in use (but for those that could not be started), and
\* its timer is set to the nearest time.
Told == \A r \in Requests : writer[r].at = "idle"

LoopFollows ==
    loop = "select" /\ ~signal /\ Told /\ unnoticed = {} =>
        /\ listening \cup refused = InUse
        /\ \A id \in Ids : Enabled(id) /\ mem[id].next # Never
              => armed # Never /\ armed <= mem[id].next

----------------------------------------------------------------------------
\* Goroutines that are not blocked run; nothing is assumed of clients, the
\* clock, runs and failures.
FairSpec == /\ Spec /\ WF_vars(Loop)
            /\ \A w \in Requests \cup Ids : WF_vars(File(w))

\* A schedule whose time has come is started (or changed), unless a request
\* that changed it failed and the loop has not been woken since.
DueIsStarted ==
    \A id \in Ids : Due(id) ~> (~Due(id) \/ id \in unnoticed)
=============================================================================
