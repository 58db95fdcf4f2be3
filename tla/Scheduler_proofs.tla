-------------------------- MODULE Scheduler_proofs --------------------------
(***************************************************************************)
(* What TLAPS proves of Scheduler for any schedules, writers and bounds:   *)
(* the types, that a once schedule is started by the timer at most once    *)
(* for its instant, and that the files and the loop follow the map.        *)
(***************************************************************************)
EXTENDS Scheduler, FiniteSetTheorems, TLAPS

USE DEF Never, Times

\* What the timer started lies in the past, ...
FiredPast ==
    \A id \in Ids, t \in Times :
        fired[id][t] <= 1 /\ (fired[id][t] > 0 => t <= now)

\* ... and a once schedule that has a next time waits for an instant it was not
\* started for.
Waits(id) ==
    mem[id].kind = "once" /\ mem[id].next # Never =>
        /\ mem[id].next = mem[id].at
        /\ mem[id].at \in Times
        /\ fired[id][mem[id].at] = 0

IInv == TypeOK /\ FiredPast /\ \A id \in Ids : Waits(id)

----------------------------------------------------------------------------
(* The next time of a schedule.                                            *)

\* Scheduled changes the next time alone, and gives a once schedule its
\* instant if that is still to come.
LEMMA ScheduledNext ==
    ASSUME NEW s \in Schedule, NEW after \in 0..MaxTime
    PROVE  LET n == Scheduled(s, after) IN
           /\ n \in Schedule
           /\ n.kind = s.kind /\ n.enabled = s.enabled /\ n.at = s.at
           /\ n.kind = "once" /\ n.next # Never => n.next = n.at /\ n.at > after
<1>1. s.kind \in {"once", "interval", "boot"} \cup EventKinds /\ s.at \in 0..MaxTime
  BY KindsAssumption DEF Schedule
<1>2. EventKinds \subseteq {"network", "charging"}
  BY KindsAssumption
<1>3. ScheduleNext(s, after) \in 0..MaxTime + 1
  <2>1. CASE s.kind = "once"
    BY <1>1, <1>2, <2>1, SchedulerBounds DEF ScheduleNext
  <2>2. CASE s.kind \in {"interval", "boot"}
    BY <1>1, <1>2, <2>2, SchedulerBounds DEF ScheduleNext
  <2>3. CASE s.kind \in EventKinds
    BY <1>1, <1>2, <2>3, SchedulerBounds DEF ScheduleNext
  <2> QED BY <1>1, <2>1, <2>2, <2>3
<1>4. s.kind = "once" => ScheduleNext(s, after) = IF s.at > after THEN s.at ELSE 0
  BY <1>2 DEF ScheduleNext
<1> QED
  BY <1>1, <1>3, <1>4, SchedulerBounds DEF Scheduled, Schedule

\* What is written of a schedule can be read back.
LEMMA ContentType ==
    ASSUME NEW s \in Schedule
    PROVE  Content(s) \in Contents
BY DEF Schedule, Contents, Content

LEMMA NoScheduleApart == NoSchedule \notin Schedule /\ NoFile \notin Contents
BY KindsAssumption DEF Schedule, NoSchedule, Contents, NoFile

----------------------------------------------------------------------------
(* The parts of TypeOK that an action changes.                             *)

MemType == mem \in [Ids -> Schedule \cup {NoSchedule}]
DiskType == disk \in [Ids -> Contents \cup {NoFile, Torn}]
WriterType ==
    writer \in [Writers ->
          {Resting} \cup [at : {"running", "remove"}, id : Ids, text : {NoFile}]
                    \cup [at : {"write"}, id : Ids, text : Contents]]
LoopType ==
    /\ loop \in {"off", "reconcile", "listen", "marking", "select", "saving"}
    /\ needed \subseteq EventKinds /\ due \subseteq Ids /\ armed \in 0..MaxTime + 1
WakeType ==
    /\ signal \in BOOLEAN /\ events \in [EventKinds -> Nat]
    /\ listening \subseteq EventKinds /\ refused \subseteq EventKinds
GhostType ==
    /\ fired \in [Ids -> [Times -> Nat]]
    /\ unnoticed \subseteq Ids /\ mixed \subseteq Ids
BoundType ==
    /\ writeFailures \in 0..MaxWriteFailures /\ crashes \in 0..MaxCrashes
    /\ changes \in 0..MaxChanges
ProcType ==
    /\ proc \in {"down", "started", "serving"} /\ now \in 0..MaxTime
    /\ launched \in [Ids -> Nat]

LEMMA TypeParts ==
    /\ TypeOK <=> /\ ProcType /\ MemType /\ DiskType /\ WriterType
                  /\ LoopType /\ WakeType /\ GhostType /\ BoundType
    /\ TypeOK' <=> /\ ProcType' /\ MemType' /\ DiskType' /\ WriterType'
                   /\ LoopType' /\ WakeType' /\ GhostType' /\ BoundType'
BY DEF TypeOK, ProcType, MemType, DiskType, WriterType, LoopType, WakeType,
       GhostType, BoundType

\* The fields of a writer, by what it does.
LEMMA WriterFields ==
    ASSUME WriterType, NEW w \in Writers
    PROVE  /\ writer[w].at \in {"idle", "running", "write", "remove"}
           /\ writer[w].at # "idle" => writer[w].id \in Ids
           /\ writer[w].at = "write" => writer[w].text \in Contents
           /\ writer[w].text \in Contents \cup {NoFile}
<1>1. writer[w] \in {Resting} \cup [at : {"running", "remove"}, id : Ids, text : {NoFile}]
                    \cup [at : {"write"}, id : Ids, text : Contents]
  BY DEF WriterType
<1>2. CASE writer[w] = Resting
  BY <1>2 DEF Resting
<1>3. CASE writer[w] \in [at : {"running", "remove"}, id : Ids, text : {NoFile}]
  BY <1>3
<1>4. CASE writer[w] \in [at : {"write"}, id : Ids, text : Contents]
  BY <1>4
<1> QED BY <1>1, <1>2, <1>3, <1>4

\* The ways an action sets a writer.
LEMMA Rests ==
    ASSUME WriterType, NEW w \in Writers, writer' = [writer EXCEPT ![w] = Resting]
    PROVE  WriterType'
BY DEF WriterType

LEMMA EntersType ==
    ASSUME WriterType, NEW w \in Writers, NEW id \in Ids, NEW stage, NEW text,
           \/ stage = "write" /\ text \in Contents
           \/ stage \in {"running", "remove"} /\ text = NoFile,
           writer' = [writer EXCEPT ![w] = At(stage, id, text)]
    PROVE  WriterType'
<1>1. At(stage, id, text) \in [at : {"running", "remove"}, id : Ids, text : {NoFile}]
                               \cup [at : {"write"}, id : Ids, text : Contents]
  BY DEF At
<1> QED BY <1>1 DEF WriterType

LEMMA LoopWritesType ==
    ASSUME WriterType, GhostType, NEW Saved \in SUBSET Ids,
           \A id \in Saved : mem'[id] \in Schedule,
           LoopWrites(Saved)
    PROVE  WriterType' /\ mixed' \subseteq Ids
<1>1. \A id \in Saved : At("write", id, Content(mem'[id]))
                         \in [at : {"write"}, id : Ids, text : Contents]
  BY ContentType DEF At
<1>2. WriterType'
  BY <1>1 DEF LoopWrites, WriterType
<1> QED BY <1>2 DEF LoopWrites, GhostType

\* A schedule that is enabled is there.
LEMMA EnabledThere ==
    ASSUME MemType, NEW id \in Ids, Enabled(id)
    PROVE  mem[id] \in Schedule
BY DEF MemType, Enabled, NoSchedule

----------------------------------------------------------------------------
(* One lemma for each action that changes a schedule or the clock.         *)

\* A next time computed now is that of an instant nothing was started for.
LEMMA ScheduledWaits ==
    ASSUME IInv, NEW id \in Ids, NEW s \in Schedule, mem'[id] = Scheduled(s, now),
           fired' = fired
    PROVE  mem'[id] \in Schedule /\ Waits(id)'
<1>1. now \in 0..MaxTime /\ fired \in [Ids -> [Times -> Nat]]
  BY DEF IInv, TypeOK
<1>2. /\ mem'[id] \in Schedule
      /\ mem'[id].kind = "once" /\ mem'[id].next # Never
            => mem'[id].next = mem'[id].at /\ mem'[id].at > now
  BY <1>1, ScheduledNext
<1>3. ASSUME mem'[id].kind = "once", mem'[id].next # Never
      PROVE  mem'[id].at \in Times /\ fired[id][mem'[id].at] = 0
  <2>1. mem'[id].at \in Times
    BY <1>1, <1>2, <1>3, SchedulerBounds DEF Schedule
  <2> QED BY <1>1, <1>2, <1>3, <2>1, SchedulerBounds DEF IInv, FiredPast
<1> QED BY <1>2, <1>3 DEF Waits

LEMMA LoadInv ==
    ASSUME IInv, Load PROVE IInv'
<1>1. ProcType /\ MemType /\ DiskType /\ WriterType /\ LoopType /\ WakeType
      /\ GhostType /\ BoundType /\ FiredPast
  BY TypeParts DEF IInv
<1>2. ASSUME NEW id \in Ids
      PROVE  mem'[id] \in Schedule \cup {NoSchedule} /\ Waits(id)'
  <2>1. CASE mem'[id] = NoSchedule
    BY <2>1 DEF Waits, NoSchedule
  <2>2. CASE mem'[id] # NoSchedule
    <3>3. disk[id] \notin {NoFile, Torn}
      BY <2>2 DEF Load
    <3> DEFINE s == [kind |-> disk[id].kind, enabled |-> disk[id].enabled,
                     at |-> disk[id].at, next |-> Never]
    <3>1. s \in Schedule
      BY <1>1, <3>3, SchedulerBounds DEF DiskType, Contents, Schedule
    <3>2. mem'[id] = Scheduled(s, now) /\ fired' = fired
      BY <2>2 DEF Load
    <3> QED BY <3>1, <3>2, ScheduledWaits
  <2> QED BY <2>1, <2>2
<1>3. MemType'
  BY <1>2 DEF Load, MemType
<1>4. mixed' \subseteq Ids /\ writeFailures' \in 0..MaxWriteFailures
  BY <1>1, SchedulerBounds DEF Load, BoundType
<1>5. ProcType' /\ DiskType' /\ WriterType' /\ LoopType' /\ WakeType'
      /\ GhostType' /\ BoundType' /\ FiredPast'
  BY <1>1, <1>4 DEF Load, ProcType, DiskType, WriterType, LoopType, WakeType, GhostType,
                    BoundType, FiredPast, wakes
<1> QED BY <1>2, <1>3, <1>5, TypeParts DEF IInv

LEMMA SaveInv ==
    ASSUME IInv, NEW r \in Requests, NEW id \in Ids, Save(r, id) PROVE IInv'
<1>1. ProcType /\ MemType /\ DiskType /\ WriterType /\ LoopType /\ WakeType
      /\ GhostType /\ BoundType /\ FiredPast /\ \A i \in Ids : Waits(i)
  BY TypeParts DEF IInv
<1>2. PICK parsed \in 0..now, kind \in Kinds, enabled \in BOOLEAN,
           t \in 0..MaxTime :
        mem' = [mem EXCEPT ![id] = Scheduled([kind |-> kind, enabled |-> enabled,
                                              at |-> t, next |-> Never], parsed)]
  <2>1. PICK parsed \in 0..now, kind \in Kinds, enabled \in BOOLEAN :
          \E t \in IF kind = "once" THEN {t \in Times : t > parsed} ELSE {Never} :
             mem' = [mem EXCEPT ![id] = Scheduled([kind |-> kind, enabled |-> enabled,
                                                   at |-> t, next |-> Never], parsed)]
    BY DEF Save
  <2>2. (IF kind = "once" THEN {t \in Times : t > parsed} ELSE {Never}) \subseteq 0..MaxTime
    BY SchedulerBounds
  <2> QED BY <2>1, <2>2
<1> DEFINE s == [kind |-> kind, enabled |-> enabled, at |-> t, next |-> Never]
<1>3. s \in Schedule /\ parsed \in 0..MaxTime
  BY <1>1, SchedulerBounds DEF Schedule, ProcType
<1>4. /\ mem' = [mem EXCEPT ![id] = mem'[id]] /\ mem'[id] = Scheduled(s, parsed)
  BY <1>1, <1>2 DEF MemType
<1>5. /\ mem'[id] \in Schedule
      /\ mem'[id].kind = "once" /\ mem'[id].next # Never
            => mem'[id].next = mem'[id].at /\ mem'[id].at > parsed
  BY <1>3, <1>4, ScheduledNext
<1>6. MemType'
  BY <1>1, <1>4, <1>5 DEF MemType
<1>7. fired' = [fired EXCEPT ![id] = [u \in Times |->
                    IF mem'[id].at = u THEN 0 ELSE fired[id][u]]]
  BY <1>1 DEF Save, GhostType
<1>8. fired' \in [Ids -> [Times -> Nat]] /\ FiredPast'
  <2>1. fired' \in [Ids -> [Times -> Nat]] /\ now' = now
    <3> DEFINE row == [u \in Times |-> IF mem'[id].at = u THEN 0 ELSE fired[id][u]]
    <3>1. row \in [Times -> Nat]
      BY <1>1 DEF GhostType
    <3> HIDE DEF row
    <3>2. [fired EXCEPT ![id] = row] \in [Ids -> [Times -> Nat]]
      BY <1>1, <3>1 DEF GhostType
    <3> QED BY <1>7, <3>2 DEF Save, row
  <2>2. ASSUME NEW i \in Ids, NEW u \in Times
        PROVE  fired'[i][u] \in {0, fired[i][u]}
    BY <1>1, <1>7 DEF GhostType
  <2> QED BY <1>1, <2>1, <2>2 DEF GhostType, FiredPast
<1>9. ASSUME NEW i \in Ids PROVE Waits(i)'
  <2>1. CASE i = id
    BY <1>1, <1>3, <1>5, <1>7, <2>1, SchedulerBounds DEF Waits, Schedule, GhostType
  <2>2. CASE i # id
    BY <1>1, <1>4, <1>7, <2>2 DEF Waits, MemType, GhostType
  <2> QED BY <2>1, <2>2
<1>10. WriterType'
  BY <1>1, <1>5, ContentType, EntersType DEF Save, Enters, Writers
<1>11. ProcType' /\ DiskType' /\ LoopType' /\ WakeType' /\ BoundType'
  BY <1>1, SchedulerBounds DEF Save, Request, ProcType, DiskType, LoopType, WakeType, BoundType,
              wakes, looper
<1>12. GhostType'
  BY <1>1, <1>8 DEF Save, Enters, GhostType
<1> QED BY <1>6, <1>8, <1>9, <1>10, <1>11, <1>12, TypeParts DEF IInv

LEMMA SwitchInv ==
    ASSUME IInv, NEW r \in Requests, NEW id \in Ids, Switch(r, id) PROVE IInv'
<1>1. ProcType /\ MemType /\ DiskType /\ WriterType /\ LoopType /\ WakeType
      /\ GhostType /\ BoundType /\ FiredPast /\ \A i \in Ids : Waits(i)
  BY TypeParts DEF IInv
<1>2. PICK enabled \in BOOLEAN :
        mem' = [mem EXCEPT ![id] = Scheduled([mem[id] EXCEPT !.enabled = enabled], now)]
  BY DEF Switch
<1>3. mem[id] \in Schedule
  BY <1>1 DEF MemType, Switch
<1>4. [mem[id] EXCEPT !.enabled = enabled] \in Schedule
  BY <1>3 DEF Schedule
<1>5. fired' = fired /\ now' = now
  BY DEF Switch
<1>6. mem'[id] = Scheduled([mem[id] EXCEPT !.enabled = enabled], now)
  BY <1>1, <1>2 DEF MemType
<1>7. mem'[id] \in Schedule /\ Waits(id)'
  BY <1>4, <1>5, <1>6, ScheduledWaits
<1>8. MemType' /\ \A i \in Ids : Waits(i)'
  <2>1. MemType'
    BY <1>1, <1>2, <1>6, <1>7 DEF MemType
  <2>2. ASSUME NEW i \in Ids, i # id PROVE Waits(i)'
    BY <1>1, <1>2, <1>5, <2>2 DEF Waits, MemType
  <2> QED BY <1>7, <2>1, <2>2
<1>9. WriterType'
  BY <1>1, <1>7, ContentType, EntersType DEF Switch, Enters, Writers
<1>10. ProcType' /\ DiskType' /\ LoopType' /\ WakeType' /\ BoundType' /\ GhostType'
       /\ FiredPast'
  BY <1>1, SchedulerBounds DEF Switch, Request, Enters, ProcType, DiskType, LoopType,
              WakeType, BoundType, GhostType, FiredPast, wakes, looper
<1> QED BY <1>8, <1>9, <1>10, TypeParts DEF IInv

LEMMA DeleteInv ==
    ASSUME IInv, NEW r \in Requests, NEW id \in Ids, Delete(r, id) PROVE IInv'
<1>1. ProcType /\ MemType /\ DiskType /\ WriterType /\ LoopType /\ WakeType
      /\ GhostType /\ BoundType /\ FiredPast /\ \A i \in Ids : Waits(i)
  BY TypeParts DEF IInv
<1>2. MemType' /\ \A i \in Ids : Waits(i)'
  <2>1. MemType'
    BY <1>1 DEF Delete, MemType
  <2>2. ASSUME NEW i \in Ids PROVE Waits(i)'
    BY <1>1 DEF Delete, Waits, MemType, NoSchedule
  <2> QED BY <2>1, <2>2
<1>3. WriterType'
  BY <1>1, EntersType DEF Delete, Enters, Writers
<1>4. ProcType' /\ DiskType' /\ LoopType' /\ WakeType' /\ BoundType' /\ GhostType'
      /\ FiredPast'
  BY <1>1, SchedulerBounds DEF Delete, Request, Enters, ProcType, DiskType, LoopType,
              WakeType, BoundType, GhostType, FiredPast, wakes, looper
<1> QED BY <1>2, <1>3, <1>4, TypeParts DEF IInv

\* The timer finds a once schedule due at its instant, so not later than now,
\* and takes its next time away.
LEMMA LoopTimerInv ==
    ASSUME IInv, LoopTimer PROVE IInv'
<1>1. ProcType /\ MemType /\ DiskType /\ WriterType /\ LoopType /\ WakeType
      /\ GhostType /\ BoundType /\ FiredPast /\ \A i \in Ids : Waits(i)
  BY TypeParts DEF IInv
<1> DEFINE starts(i, t) == Due(i) /\ mem[i].kind = "once" /\ mem[i].at = t
<1>2. fired' = [i \in Ids |-> [t \in Times |->
                    fired[i][t] + IF starts(i, t) THEN 1 ELSE 0]]
  BY DEF LoopTimer
<1>3. ASSUME NEW i \in Ids, NEW t \in Times
      PROVE  /\ fired'[i][t] = fired[i][t] + IF starts(i, t) THEN 1 ELSE 0
             /\ fired[i][t] \in Nat
  BY <1>1, <1>2 DEF GhostType
<1>4. ASSUME NEW i \in Ids, NEW t \in Times, starts(i, t)
      PROVE  t <= now /\ fired[i][t] = 0
  BY <1>1, <1>4 DEF Waits, Due
<1>5. fired' \in [Ids -> [Times -> Nat]]
  <2> HIDE DEF starts
  <2>1. ASSUME NEW i \in Ids
        PROVE  [t \in Times |-> fired[i][t] + IF starts(i, t) THEN 1 ELSE 0] \in [Times -> Nat]
    BY <1>3
  <2> QED BY <1>2, <2>1
<1>6. now' = now
  BY DEF LoopTimer
<1>7. FiredPast'
  <2> HIDE DEF starts
  <2> QED BY <1>1, <1>3, <1>4, <1>6 DEF FiredPast
<1>8. ASSUME NEW i \in Ids
      PROVE  /\ mem'[i] \in Schedule \cup {NoSchedule} /\ Waits(i)'
             /\ Due(i) => mem'[i] \in Schedule
  <2>1. mem'[i] = IF Due(i) THEN Triggered(mem[i]) ELSE mem[i]
    BY DEF LoopTimer
  <2>2. CASE ~Due(i)
    <3>1. mem'[i] = mem[i]
      BY <2>1, <2>2
    <3>2. \A t \in Times : fired'[i][t] = fired[i][t]
      BY <1>3, <2>2
    <3> QED BY <1>1, <2>2, <3>1, <3>2 DEF Waits, MemType
  <2>3. CASE Due(i) /\ mem[i].kind \in {"once", "boot"}
    <3>1. mem'[i] = [mem[i] EXCEPT !.enabled = FALSE, !.next = Never]
      BY <2>1, <2>3 DEF Triggered
    <3>2. mem[i] \in Schedule
      BY <1>1, <2>3, EnabledThere DEF Due
    <3>3. mem'[i] \in Schedule
      <4>1. mem'[i] = [kind |-> mem[i].kind, enabled |-> FALSE, at |-> mem[i].at,
                       next |-> Never]
        BY <3>1, <3>2 DEF Schedule
      <4> QED BY <3>2, <4>1, SchedulerBounds DEF Schedule
    <3>4. mem'[i].next = Never
      BY <3>1, <3>2 DEF Schedule
    <3> QED BY <3>3, <3>4 DEF Waits
  <2>4. CASE Due(i) /\ mem[i].kind \notin {"once", "boot"}
    <3>1. mem'[i] = Scheduled(mem[i], now)
      BY <2>1, <2>4 DEF Triggered
    <3>2. mem[i] \in Schedule
      BY <1>1, <2>4, EnabledThere DEF Due
    <3>3. mem'[i] \in Schedule /\ mem'[i].kind = mem[i].kind
      BY <1>1, <3>1, <3>2, ScheduledNext DEF ProcType
    <3> QED BY <2>4, <3>3 DEF Waits
  <2> QED BY <2>2, <2>3, <2>4
<1>9. MemType'
  BY <1>8 DEF LoopTimer, MemType
<1>10. WriterType' /\ mixed' \subseteq Ids
  <2> DEFINE D == {i \in Ids : Due(i)}
  <2>1. D \in SUBSET Ids /\ \A i \in D : mem'[i] \in Schedule
    BY <1>8
  <2>2. LoopWrites(D)
    BY DEF LoopTimer
  <2> HIDE DEF D
  <2> QED BY <1>1, <2>1, <2>2, LoopWritesType
<1>11. ProcType' /\ DiskType' /\ LoopType' /\ WakeType' /\ BoundType' /\ GhostType'
  BY <1>1, <1>5, <1>10 DEF LoopTimer, LoopGoes, ProcType, DiskType, LoopType,
              WakeType, BoundType, GhostType, wakes, bounds
<1> QED BY <1>7, <1>8, <1>9, <1>10, <1>11, TypeParts DEF IInv

LEMMA TickInv ==
    ASSUME IInv, Tick PROVE IInv'
<1>1. ProcType /\ MemType /\ DiskType /\ WriterType /\ LoopType /\ WakeType
      /\ GhostType /\ BoundType /\ FiredPast /\ \A i \in Ids : Waits(i)
  BY TypeParts DEF IInv
<1>2. ProcType' /\ MemType' /\ DiskType' /\ WriterType' /\ LoopType' /\ WakeType'
      /\ GhostType' /\ BoundType' /\ \A i \in Ids : Waits(i)'
  BY <1>1, SchedulerBounds DEF Tick, sched, files, looper, wakes, ghosts, bounds,
              ProcType, MemType, DiskType, WriterType, LoopType, WakeType, GhostType,
              BoundType, Waits
<1>3. FiredPast'
  BY <1>1, SchedulerBounds DEF Tick, ghosts, FiredPast, ProcType, GhostType
<1> QED BY <1>2, <1>3, TypeParts DEF IInv

LEMMA CrashInv ==
    ASSUME IInv, Crash PROVE IInv'
<1>1. ProcType /\ DiskType /\ GhostType /\ BoundType /\ FiredPast
  BY TypeParts DEF IInv
<1>2. ProcType' /\ DiskType' /\ GhostType' /\ BoundType' /\ FiredPast'
  BY <1>1, SchedulerBounds DEF Crash, files, ProcType, DiskType, GhostType, BoundType,
              FiredPast
<1>3. MemType' /\ \A i \in Ids : Waits(i)'
  BY DEF Crash, MemType, Waits, NoSchedule
<1>4. WriterType' /\ LoopType' /\ WakeType'
  <2>1. WriterType'
    BY DEF Crash, WriterType
  <2>2. LoopType'
    BY SchedulerBounds DEF Crash, LoopType
  <2>3. WakeType'
    BY DEF Crash, WakeType
  <2> QED BY <2>1, <2>2, <2>3
<1> QED BY <1>2, <1>3, <1>4, TypeParts DEF IInv

----------------------------------------------------------------------------
(* The other actions leave schedules, clock and history of starts alone.   *)

\* What the once schedules wait for does not change with them.
LEMMA Untouched ==
    ASSUME IInv, mem' = mem, fired' = fired, now' = now
    PROVE  MemType' /\ FiredPast' /\ \A i \in Ids : Waits(i)'
BY TypeParts DEF IInv, MemType, FiredPast, Waits

LEMMA FileInv ==
    ASSUME IInv, NEW w \in Writers, File(w) PROVE IInv'
<1>1. ProcType /\ MemType /\ DiskType /\ WriterType /\ LoopType /\ WakeType
      /\ GhostType /\ BoundType
  BY TypeParts DEF IInv
<1>2. MemType' /\ FiredPast' /\ \A i \in Ids : Waits(i)'
  BY Untouched DEF File, Persist, PersistMixed, Remove, WriteFails, sched, ghosts
<1>3. writer' = [writer EXCEPT ![w] = Resting] /\ signal' \in BOOLEAN
  BY <1>1 DEF File, Persist, PersistMixed, Remove, WriteFails, Written, GivesUp, Signal, WakeType
<1>4. writer[w].id \in Ids
  BY <1>1, WriterFields DEF File, Persist, PersistMixed, Remove, WriteFails
<1>5. WriterType'
  BY <1>1, <1>3, Rests
<1>6. unnoticed' \subseteq Ids /\ mixed' \subseteq Ids /\ fired' = fired
  BY <1>1, <1>4 DEF File, Persist, PersistMixed, Remove, WriteFails, Written, GivesUp,
              GhostType, ghosts
<1>7. DiskType'
  <2> DEFINE T == Contents \cup {NoFile, Torn}
  <2>1. CASE Persist(w)
    <3>1. writer[w].text \in T
      BY <1>1, WriterFields
    <3> QED BY <1>1, <2>1, <3>1 DEF Persist, DiskType
  <2>2. CASE PersistMixed(w)
    <3>1. \A v \in Writers : writer[v].text \in T
      BY <1>1, WriterFields
    <3>2. Content(mem[writer[w].id]) \in T
      <4>1. Content(NoSchedule) = NoFile
        BY DEF Content, NoSchedule, NoFile
      <4>2. mem[writer[w].id] \in Schedule \cup {NoSchedule}
        BY <1>1, <1>4 DEF MemType
      <4> QED BY <4>1, <4>2, ContentType
    <3>3. disk[writer[w].id] \in T /\ Torn \in T
      BY <1>1, <1>4 DEF DiskType
    <3>4. \E text \in T : disk' = [disk EXCEPT ![writer[w].id] = text]
      <4> DEFINE texts == ({writer[v].text : v \in {u \in Writers : Writing(u, writer[w].id)}}
                           \cup {Content(mem[writer[w].id])}) \ {NoFile}
      <4>1. \E text \in texts \cup {disk[writer[w].id], Torn} :
               disk' = [disk EXCEPT ![writer[w].id] = text]
        BY <2>2 DEF PersistMixed
      <4>2. texts \subseteq T
        <5> HIDE DEF T
        <5> QED BY <3>1, <3>2
      <4> HIDE DEF T, texts
      <4> QED BY <3>3, <4>1, <4>2
    <3> QED BY <1>1, <3>4 DEF DiskType
  <2>3. CASE Remove(w)
    BY <1>1, <2>3 DEF Remove, DiskType
  <2>4. CASE WriteFails(w)
    BY <1>1, <2>4 DEF WriteFails, DiskType
  <2> QED BY <2>1, <2>2, <2>3, <2>4 DEF File
<1>8. ProcType' /\ LoopType' /\ WakeType' /\ GhostType'
  BY <1>1, <1>3, <1>6 DEF File, Persist, PersistMixed, Remove, WriteFails, sched, looper,
              ProcType, LoopType, WakeType, GhostType
<1>9. BoundType'
  BY <1>1, SchedulerBounds DEF File, Persist, PersistMixed, Remove, WriteFails, bounds, BoundType
<1> QED BY <1>2, <1>5, <1>7, <1>8, <1>9, TypeParts DEF IInv

LEMMA RunInv ==
    ASSUME IInv, NEW x \in Runners, Run(x) PROVE IInv'
<1>1. ProcType /\ MemType /\ DiskType /\ WriterType /\ LoopType /\ WakeType
      /\ GhostType /\ BoundType /\ x \in Writers
  BY TypeParts DEF IInv, Writers
<1>2. MemType' /\ FiredPast' /\ \A i \in Ids : Waits(i)'
  BY Untouched DEF Run, StartRun, FinishRun, sched, ghosts
<1>3. DiskType' /\ LoopType' /\ WakeType' /\ BoundType'
  BY <1>1 DEF Run, StartRun, FinishRun, files, looper, wakes, bounds,
              DiskType, LoopType, WakeType, BoundType
<1>4. CASE \E id \in Ids : StartRun(x, id)
  <2>1. PICK id \in Ids : StartRun(x, id)
    BY <1>4
  <2>2. WriterType'
    <3>1. CASE mem[id] = NoSchedule
      BY <1>1, <2>1, <3>1 DEF StartRun, WriterType
    <3>2. CASE mem[id] # NoSchedule
      BY <1>1, <2>1, <3>2, EntersType DEF StartRun
    <3> QED BY <3>1, <3>2
  <2>3. ProcType' /\ GhostType'
    BY <1>1, <2>1 DEF StartRun, ProcType, GhostType, files, ghosts
  <2> QED BY <1>2, <1>3, <2>2, <2>3, TypeParts DEF IInv
<1>5. CASE FinishRun(x)
  <2>1. writer[x].id \in Ids
    BY <1>1, <1>5, WriterFields DEF FinishRun
  <2>2. WriterType'
    <3>1. CASE mem[writer[x].id] = NoSchedule
      BY <1>1, <1>5, <3>1, Rests DEF FinishRun
    <3>2. CASE mem[writer[x].id] # NoSchedule
      <4>1. Content(mem[writer[x].id]) \in Contents
        BY <1>1, <2>1, <3>2, ContentType DEF MemType
      <4> QED BY <1>1, <1>5, <2>1, <3>2, <4>1, EntersType DEF FinishRun, Enters
    <3> QED BY <3>1, <3>2
  <2>3. ProcType' /\ GhostType'
    BY <1>1, <1>5, <2>1 DEF FinishRun, Enters, ProcType, GhostType, sched, ghosts
  <2> QED BY <1>2, <1>3, <2>2, <2>3, TypeParts DEF IInv
<1> QED BY <1>4, <1>5 DEF Run

LEMMA LoopListenInv ==
    ASSUME IInv, LoopListen PROVE IInv'
<1>1. ProcType /\ MemType /\ DiskType /\ WriterType /\ LoopType /\ WakeType
      /\ GhostType /\ BoundType
  BY TypeParts DEF IInv
<1>2. MemType' /\ FiredPast' /\ \A i \in Ids : Waits(i)'
  BY Untouched DEF LoopListen, sched
<1>3. PICK Failing \in SUBSET (needed \ (listening \cup refused)) :
          /\ writeFailures + Cardinality(Failing) <= MaxWriteFailures
          /\ writeFailures' = writeFailures + Cardinality(Failing)
          /\ listening' = needed \ ((refused \ listening) \cup Failing)
          /\ refused' = (refused \cap needed) \cup Failing
          /\ LoopWrites({id \in Ids : Enabled(id) /\ mem[id].kind \in Failing})
  BY DEF LoopListen
<1>4. Cardinality(Failing) \in Nat
  <2>1. IsFiniteSet({"network", "charging"})
    <3>1. IsFiniteSet({"network"})
      BY FS_Singleton
    <3>2. {"network", "charging"} = {"network"} \cup {"charging"}
      OBVIOUS
    <3> QED BY <3>1, <3>2, FS_AddElement
  <2>2. Failing \subseteq {"network", "charging"}
    BY <1>1, KindsAssumption DEF LoopType
  <2> QED BY <2>1, <2>2, FS_Subset, FS_CardinalityType
<1>5. WriterType' /\ mixed' \subseteq Ids
  <2> DEFINE F == {id \in Ids : Enabled(id) /\ mem[id].kind \in Failing}
  <2>1. F \in SUBSET Ids /\ \A id \in F : mem[id] \in Schedule
    BY <1>1, EnabledThere
  <2>2. LoopWrites(F) /\ mem' = mem
    BY <1>3 DEF LoopListen, sched
  <2> HIDE DEF F
  <2> QED BY <1>1, <2>1, <2>2, LoopWritesType
<1>6. WakeType' /\ LoopType'
  BY <1>1, <1>3 DEF LoopListen, LoopGoes, WakeType, LoopType
<1>7. ProcType' /\ DiskType' /\ GhostType' /\ BoundType'
  BY <1>1, <1>3, <1>4, <1>5, SchedulerBounds
     DEF LoopListen, sched, ProcType, DiskType, GhostType, BoundType
<1> QED BY <1>2, <1>5, <1>6, <1>7, TypeParts DEF IInv

\* The steps that only move the loop or its wake-ups.
LEMMA WakeInv ==
    ASSUME IInv,
           \/ Start \/ LoopReconcile \/ LoopArm \/ LoopChanged \/ LoopLaunch
           \/ (\E k \in EventKinds : LoopEvent(k) \/ Hear(k))
           \/ \E id \in Ids : RunNow(id)
    PROVE  IInv'
<1>1. ProcType /\ MemType /\ DiskType /\ WriterType /\ LoopType /\ WakeType
      /\ GhostType /\ BoundType
  BY TypeParts DEF IInv
<1>2. MemType' /\ FiredPast' /\ \A i \in Ids : Waits(i)'
  BY Untouched DEF Start, LoopReconcile, LoopArm, LoopChanged, LoopLaunch, LoopEvent,
                   Hear, RunNow, sched, ghosts
<1>3. DiskType' /\ WriterType' /\ GhostType' /\ BoundType'
  BY <1>1 DEF Start, LoopReconcile, LoopArm, LoopChanged, LoopLaunch, LoopEvent, Hear,
              RunNow, files, ghosts, bounds, DiskType, WriterType, GhostType, BoundType
<1>4. CASE Start
  BY <1>1, <1>2, <1>3, <1>4, TypeParts
     DEF IInv, Start, sched, looper, wakes, ProcType, LoopType, WakeType
<1>5. CASE LoopReconcile
  BY <1>1, <1>2, <1>3, <1>5, TypeParts
     DEF IInv, LoopReconcile, LoopGoes, InUse, sched, wakes, ProcType, LoopType, WakeType
<1>6. CASE LoopArm
  <2>1. NextTimes \subseteq 0..MaxTime + 1
    BY <1>1, EnabledThere DEF NextTimes, Schedule
  <2>2. armed' \in 0..MaxTime + 1
    <3>1. armed' = 0 \/ armed' \in NextTimes
      BY <1>6 DEF LoopArm, Nearest
    <3>2. 0 \in 0..MaxTime + 1
      BY SchedulerBounds
    <3>3. CASE armed' \in NextTimes
      BY <2>1, <3>3, Zenon
    <3> QED BY <3>1, <3>2, <3>3
  <2> QED BY <1>1, <1>2, <1>3, <1>6, <2>2, TypeParts
             DEF IInv, LoopArm, LoopGoes, sched, wakes, ProcType, LoopType, WakeType
<1>7. CASE LoopChanged
  BY <1>1, <1>2, <1>3, <1>7, TypeParts
     DEF IInv, LoopChanged, LoopGoes, sched, ProcType, LoopType, WakeType
<1>8. CASE LoopLaunch
  BY <1>1, <1>2, <1>3, <1>8, TypeParts
     DEF IInv, LoopLaunch, LoopGoes, wakes, ProcType, LoopType, WakeType
<1>9. CASE \E k \in EventKinds : LoopEvent(k)
  BY <1>1, <1>2, <1>3, <1>9, TypeParts
     DEF IInv, LoopEvent, LoopGoes, ProcType, LoopType, WakeType
<1>10. CASE \E k \in EventKinds : Hear(k)
  <2>1. PICK k \in EventKinds : Hear(k)
    BY <1>10
  <2>2. /\ events' = [events EXCEPT ![k] = @ + 1]
        /\ UNCHANGED <<proc, now, launched, loop, needed, due, armed, signal,
                       listening, refused>>
    BY <2>1 DEF Hear, sched, looper
  <2>3. ProcType' /\ LoopType' /\ WakeType'
    BY <1>1, <2>2 DEF ProcType, LoopType, WakeType
  <2> QED BY <1>2, <1>3, <2>3, TypeParts DEF IInv
<1>11. CASE \E id \in Ids : RunNow(id)
  BY <1>1, <1>2, <1>3, <1>11, TypeParts
     DEF IInv, RunNow, looper, wakes, ProcType, LoopType, WakeType
<1> QED BY <1>4, <1>5, <1>6, <1>7, <1>8, <1>9, <1>10, <1>11

----------------------------------------------------------------------------
LEMMA InitInv == Init => IInv
<1> SUFFICES ASSUME Init PROVE IInv
  OBVIOUS
<1>1. MemType /\ \A i \in Ids : Waits(i)
  BY DEF Init, MemType, Waits, NoSchedule
<1>2. DiskType /\ WriterType /\ ProcType /\ BoundType
  BY SchedulerBounds DEF Init, DiskType, WriterType, ProcType, BoundType
<1>3. LoopType
  BY SchedulerBounds DEF Init, LoopType
<1>4. WakeType
  BY DEF Init, WakeType
<1>5. GhostType /\ FiredPast
  BY DEF Init, GhostType, FiredPast
<1> QED BY <1>1, <1>2, <1>3, <1>4, <1>5, TypeParts DEF IInv

LEMMA NextInv == IInv /\ [Next]_vars => IInv'
<1> SUFFICES ASSUME IInv, [Next]_vars PROVE IInv'
  OBVIOUS
<1>1. CASE Load
  BY <1>1, LoadInv
<1>2. CASE Crash
  BY <1>2, CrashInv
<1>3. CASE Tick
  BY <1>3, TickInv
<1>4. CASE \E r \in Requests : Change(r)
  BY <1>4, SaveInv, DeleteInv, SwitchInv DEF Change
<1>5. CASE \E w \in Writers : File(w)
  BY <1>5, FileInv
<1>6. CASE \E x \in Runners : Run(x)
  BY <1>6, RunInv
<1>7. CASE LoopListen
  BY <1>7, LoopListenInv
<1>8. CASE LoopTimer
  BY <1>8, LoopTimerInv
<1>9. CASE \/ Start \/ LoopReconcile \/ LoopArm \/ LoopChanged \/ LoopLaunch
           \/ (\E k \in EventKinds : LoopEvent(k) \/ Hear(k))
           \/ \E id \in Ids : RunNow(id)
  BY <1>9, WakeInv
<1>10. CASE UNCHANGED vars
  <2>1. ProcType /\ MemType /\ DiskType /\ WriterType /\ LoopType /\ WakeType
        /\ GhostType /\ BoundType
    BY TypeParts DEF IInv
  <2>2. MemType' /\ FiredPast' /\ \A i \in Ids : Waits(i)'
    BY <1>10, Untouched DEF vars, sched, ghosts
  <2> QED BY <1>10, <2>1, <2>2, TypeParts
             DEF IInv, vars, sched, files, looper, wakes, ghosts, bounds, ProcType, DiskType,
                 WriterType, LoopType, WakeType, GhostType, BoundType
<1> QED BY <1>1, <1>2, <1>3, <1>4, <1>5, <1>6, <1>7, <1>8, <1>9, <1>10 DEF Next, Loop

\* The invariant holds in every state: a once schedule with a next time waits
\* for an instant that has not been started, over restarts and any requests.
THEOREM IInvCorrect == Spec => []IInv
<1> QED BY InitInv, NextInv, PTL DEF Spec

\* Every variable of schedule.go's scheduler keeps its type; what is on its way
\* to a file is always a schedule.
THEOREM TypeCorrect == Spec => []TypeOK
<1>1. IInv => TypeOK
  BY DEF IInv
<1> QED BY <1>1, IInvCorrect, PTL

\* triggerDueSchedules starts a once schedule at most once for its instant,
\* although enable, update, load and the timer all compute its next time.
THEOREM OnceFiresOnceCorrect == Spec => []OnceFiresOnce
<1>1. IInv => OnceFiresOnce
  BY DEF IInv, FiredPast, OnceFiresOnce
<1> QED BY <1>1, IInvCorrect, PTL

----------------------------------------------------------------------------
(* What follows the map of schedules: a file that nobody is writing says   *)
(* what the map says, although it is written after the critical section    *)
(* that changed the map; and a loop that waits has the listeners and the   *)
(* timer that the map asks for.                                            *)


\* What the file of a schedule should say.
Says(id) == IF mem[id] = NoSchedule THEN NoFile ELSE Content(mem[id])

\* Until the files are read nothing runs that could write one.
Quiet ==
    proc # "serving" =>
        /\ loop = "off"
        /\ \A id \in Ids : launched[id] = 0
        /\ \A w \in Writers : writer[w] = Resting

\* A write of the loop is to the schedule it is named by.
OwnFiles == \A v \in Ids, id \in Ids : Writing(v, id) => v = id

\* A schedule whose writers do not overlap has at most one, which writes what
\* the map says; without one, the file says it already.
Kept(id) ==
    id \notin mixed =>
        /\ (\A w \in Writers : ~Writing(w, id)) => disk[id] = Says(id)
        /\ \A w \in Writers : Writing(w, id) => writer[w].text = Says(id)
        /\ \A v, w \in Writers : Writing(v, id) /\ Writing(w, id) => v = w

FInv ==
    /\ Quiet
    /\ OwnFiles
    /\ proc = "serving" => \A id \in Ids : Kept(id)

----------------------------------------------------------------------------
(* What the ways to set a writer do to the files of all schedules.         *)

LEMMA RestingWritesNothing ==
    \A w, id : writer[w] = Resting => ~Writing(w, id)
BY DEF Writing, Resting

\* A writer leaves a critical section with what the map says.
LEMMA EntersKeeps ==
    ASSUME WriterType, FInv, proc = "serving",
           NEW w \in Writers, writer[w].at \in {"idle", "running"},
           NEW id \in Ids, w \notin Ids,
           NEW stage, stage \in {"write", "remove"},
           NEW text, text = Says(id)',
           Enters(w, id, stage, text),
           disk' = disk, \A i \in Ids \ {id} : mem'[i] = mem[i]
    PROVE  OwnFiles' /\ \A i \in Ids : Kept(i)'
<1>1. writer'[w] = At(stage, id, text) /\ \A v \in Writers \ {w} : writer'[v] = writer[v]
  BY DEF Enters, WriterType
<1>2. /\ \A i : Writing(w, i)' <=> i = id
      /\ \A v \in Writers \ {w} : \A i : Writing(v, i)' <=> Writing(v, i)
      /\ \A i : ~Writing(w, i)
  BY <1>1 DEF Writing, At
<1>3. OwnFiles'
  BY <1>2 DEF FInv, OwnFiles, Writers
<1>4. Kept(id)'
  <2>1. CASE \E v \in Writers \ {w} : Writing(v, id)
    BY <2>1 DEF Enters, Kept
  <2>2. CASE ~\E v \in Writers \ {w} : Writing(v, id)
    <3>1. \A v \in Writers : Writing(v, id)' <=> v = w
      BY <1>2, <2>2
    <3>2. writer'[w].text = Says(id)'
      BY <1>1 DEF At
    <3> QED BY <3>1, <3>2 DEF Kept
  <2> QED BY <2>1, <2>2
<1>5. ASSUME NEW i \in Ids, i # id
      PROVE  Kept(i)'
  <2>1. Says(i)' = Says(i) /\ (i \in mixed' <=> i \in mixed) /\ Kept(i)
    BY <1>5 DEF Says, Enters, FInv
  <2>2. \A v \in Writers : /\ Writing(v, i)' <=> Writing(v, i)
                           /\ Writing(v, i) => writer'[v].text = writer[v].text
    BY <1>1, <1>2, <1>5
  <2> QED BY <2>1, <2>2 DEF Kept
<1> QED BY <1>3, <1>4, <1>5

\* The loop begins to write what it has changed.
LEMMA LoopWritesKeeps ==
    ASSUME WriterType, FInv, proc = "serving",
           NEW Saved \in SUBSET Ids, LoopWrites(Saved),
           \A id \in Saved : mem'[id] \in Schedule,
           disk' = disk, \A i \in Ids \ Saved : mem'[i] = mem[i]
    PROVE  OwnFiles' /\ \A i \in Ids : Kept(i)'
<1>1. /\ \A v \in Saved : writer'[v] = At("write", v, Content(mem'[v]))
      /\ \A v \in Writers \ Saved : writer'[v] = writer[v]
      /\ Saved \subseteq Writers
  BY DEF LoopWrites, Writers
<1>2. /\ \A v \in Saved : \A i : Writing(v, i)' <=> v = i
      /\ \A v \in Writers \ Saved : \A i : Writing(v, i)' <=> Writing(v, i)
  <2>1. ASSUME NEW v \in Saved
        PROVE  writer'[v].at = "write" /\ writer'[v].id = v
    <3>1. writer'[v] = At("write", v, Content(mem'[v]))
      BY <1>1
    <3> QED BY <3>1 DEF At
  <2> QED BY <1>1, <2>1 DEF Writing
<1>3. \A v \in Saved, i \in Ids : Writing(v, i) => v = i
  BY DEF FInv, OwnFiles
<1>4. OwnFiles'
  BY <1>2 DEF FInv, OwnFiles, Writers
<1>5. ASSUME NEW i \in Saved
      PROVE  Kept(i)'
  <2>1. CASE \E v \in Writers : Writing(v, i)
    BY <2>1 DEF LoopWrites, Kept
  <2>2. CASE ~\E v \in Writers : Writing(v, i)
    <3>1. \A v \in Writers : Writing(v, i)' <=> v = i
      BY <1>1, <1>2, <2>2
    <3>2. writer'[i].text = Content(mem'[i])
      <4>1. writer'[i] = At("write", i, Content(mem'[i]))
        BY <1>1
      <4> QED BY <4>1 DEF At
    <3>3. mem'[i] # NoSchedule
      BY NoScheduleApart
    <3>4. writer'[i].text = Says(i)' /\ i \in Writers
      BY <3>2, <3>3, <1>1 DEF Says
    <3> QED BY <3>1, <3>4 DEF Kept
  <2> QED BY <2>1, <2>2
<1>6. ASSUME NEW i \in Ids \ Saved
      PROVE  Kept(i)'
  <2>1. Says(i)' = Says(i) /\ (i \in mixed' <=> i \in mixed) /\ Kept(i)
    BY <1>6 DEF Says, LoopWrites, FInv
  <2>2. \A v \in Writers : /\ Writing(v, i)' <=> Writing(v, i)
                           /\ Writing(v, i) => writer'[v].text = writer[v].text
    BY <1>1, <1>2, <1>3
  <2> QED BY <2>1, <2>2 DEF Kept
<1> QED BY <1>4, <1>5, <1>6

\* A writer that rests again wrote its text, or its schedule is mixed.
LEMMA WrittenKeeps ==
    ASSUME WriterType, DiskType, FInv, proc = "serving",
           NEW w \in Writers, writer' = [writer EXCEPT ![w] = Resting],
           NEW id \in Ids, Writing(w, id),
           mem' = mem, mixed \subseteq mixed', mixed' \subseteq mixed \cup {id},
           \A i \in Ids \ {id} : disk'[i] = disk[i],
           id \in mixed' \/ disk'[id] = writer[w].text
    PROVE  OwnFiles' /\ \A i \in Ids : Kept(i)'
<1>1. writer'[w] = Resting /\ \A v \in Writers \ {w} : writer'[v] = writer[v]
  BY DEF WriterType
<1>2. /\ \A i : ~Writing(w, i)'
      /\ \A v \in Writers \ {w} : \A i : Writing(v, i)' <=> Writing(v, i)
      /\ \A i : Writing(w, i) => i = id
  BY <1>1 DEF Writing, Resting
<1>3. OwnFiles'
  BY <1>2 DEF FInv, OwnFiles, Writers
<1>4. Kept(id)'
  <2>1. CASE id \in mixed'
    BY <2>1 DEF Kept
  <2>2. CASE id \notin mixed'
    <3>1. id \notin mixed /\ Kept(id) /\ disk'[id] = writer[w].text
      BY <2>2 DEF FInv
    <3>2. writer[w].text = Says(id) /\ \A v \in Writers : ~Writing(v, id)'
      BY <1>2, <3>1 DEF Kept
    <3>3. Says(id)' = Says(id)
      BY DEF Says
    <3> QED BY <3>1, <3>2, <3>3 DEF Kept
  <2> QED BY <2>1, <2>2
<1>5. ASSUME NEW i \in Ids, i # id
      PROVE  Kept(i)'
  <2>1. Says(i)' = Says(i) /\ (i \in mixed' <=> i \in mixed) /\ Kept(i) /\ disk'[i] = disk[i]
    BY <1>5 DEF Says, FInv
  <2>2. \A v \in Writers : /\ Writing(v, i)' <=> Writing(v, i)
                           /\ Writing(v, i) => writer'[v].text = writer[v].text
    BY <1>1, <1>2, <1>5
  <2> QED BY <2>1, <2>2 DEF Kept
<1> QED BY <1>3, <1>4, <1>5

\* Nothing that the files depend on changes.
LEMMA FilesFrame ==
    ASSUME FInv, proc' = proc, mem' = mem, disk' = disk, mixed' = mixed,
           \A w \in Writers, id \in Ids : /\ Writing(w, id)' <=> Writing(w, id)
                                          /\ Writing(w, id) => writer'[w].text = writer[w].text
    PROVE  OwnFiles' /\ (proc' = "serving" => \A id \in Ids : Kept(id)')
<1>1. OwnFiles'
  BY DEF FInv, OwnFiles, Writers
<1>2. ASSUME proc = "serving", NEW id \in Ids
      PROVE  Kept(id)'
  <2>1. Says(id)' = Says(id) /\ Kept(id)
    BY <1>2 DEF Says, FInv
  <2> QED BY <2>1 DEF Kept
<1> QED BY <1>1, <1>2

----------------------------------------------------------------------------
(* One lemma for each kind of step.                                        *)

\* A request writes what it made of the map.
LEMMA ChangeKeeps ==
    ASSUME IInv, FInv, NEW r \in Requests, Change(r) PROVE FInv'
<1>1. MemType /\ WriterType /\ MemType'
  BY SaveInv, DeleteInv, SwitchInv, TypeParts DEF IInv, Change
<1>2. PICK id \in Ids : Save(r, id) \/ Delete(r, id) \/ Switch(r, id)
  BY DEF Change
<1>3. proc = "serving" /\ writer[r].at = "idle" /\ disk' = disk /\ proc' = proc
  BY <1>2 DEF Save, Delete, Switch, Request
<1>4. r \in Writers /\ r \notin Ids
  BY WritersAssumption DEF Writers
<1>5. /\ DOMAIN mem = Ids
      /\ \A i \in Ids \ {id} : mem'[i] = mem[i]
  BY <1>1, <1>2 DEF Save, Delete, Switch, MemType
<1>6. CASE Delete(r, id)
  <2>1. NoFile = Says(id)' /\ Enters(r, id, "remove", NoFile)
    BY <1>1, <1>6 DEF Delete, Says, MemType
  <2> QED BY <1>1, <1>3, <1>4, <1>5, <2>1, EntersKeeps DEF FInv, Quiet
<1>7. CASE Save(r, id) \/ Switch(r, id)
  <2>1. mem'[id].kind \in Kinds
    <3>1. CASE Save(r, id)
      BY <1>1, <3>1 DEF Save, Scheduled, MemType
    <3>2. CASE Switch(r, id)
      BY <1>1, <3>2 DEF Switch, Scheduled, MemType, Schedule
    <3> QED BY <1>7, <3>1, <3>2
  <2>2. mem'[id] # NoSchedule
    BY <2>1, KindsAssumption DEF NoSchedule
  <2>3. Content(mem'[id]) = Says(id)' /\ Enters(r, id, "write", Content(mem'[id]))
    BY <1>7, <2>2 DEF Save, Switch, Says
  <2> QED BY <1>1, <1>3, <1>4, <1>5, <2>3, EntersKeeps DEF FInv, Quiet
<1> QED BY <1>2, <1>6, <1>7

\* A run that ends writes the schedule it finds.
LEMMA RunKeeps ==
    ASSUME IInv, FInv, NEW x \in Runners, Run(x) PROVE FInv'
<1>1. MemType /\ WriterType /\ x \in Writers /\ x \notin Ids
  BY TypeParts, WritersAssumption DEF IInv, Writers
<1>2. proc' = proc /\ mem' = mem /\ disk' = disk /\ loop' = loop
  BY DEF Run, StartRun, FinishRun, sched, files, looper
<1>3. proc = "serving"
  BY <1>1 DEF Run, StartRun, FinishRun, FInv, Quiet, Resting
<1>4. CASE \E id \in Ids : StartRun(x, id)
  <2>1. PICK id \in Ids : StartRun(x, id)
    BY <1>4
  <2>2. mixed' = mixed /\ \A v \in Writers \ {x} : writer'[v] = writer[v]
    BY <1>1, <2>1 DEF StartRun, files, WriterType
  <2>3. writer[x].at = "idle" /\ writer'[x].at \in {"idle", "running"}
    BY <1>1, <2>1 DEF StartRun, At, WriterType
  <2>4. \A w \in Writers, i \in Ids : /\ Writing(w, i)' <=> Writing(w, i)
                                      /\ Writing(w, i) => writer'[w].text = writer[w].text
    BY <2>2, <2>3 DEF Writing
  <2> QED BY <1>2, <1>3, <2>2, <2>4, FilesFrame DEF FInv, Quiet
<1>5. CASE FinishRun(x) /\ mem[writer[x].id] # NoSchedule
  <2>1. writer[x].at = "running" /\ writer[x].id \in Ids
    BY <1>1, <1>5, WriterFields DEF FinishRun
  <2>2. PICK id \in Ids : id = writer[x].id
    BY <2>1
  <2>3. Content(mem[id]) = Says(id)'
    BY <1>2, <1>5, <2>2 DEF Says
  <2>4. Enters(x, id, "write", Content(mem[id]))
    BY <1>5, <2>2 DEF FinishRun
  <2> QED BY <1>1, <1>2, <1>3, <2>1, <2>3, <2>4, EntersKeeps DEF FInv, Quiet
<1>6. CASE FinishRun(x) /\ mem[writer[x].id] = NoSchedule
  <2>1. mixed' = mixed /\ writer' = [writer EXCEPT ![x] = Resting] /\ writer[x].at = "running"
    BY <1>6 DEF FinishRun
  <2>2. \A w \in Writers, i \in Ids : /\ Writing(w, i)' <=> Writing(w, i)
                                      /\ Writing(w, i) => writer'[w].text = writer[w].text
    BY <1>1, <2>1 DEF Writing, WriterType, Resting
  <2> QED BY <1>2, <1>3, <2>1, <2>2, FilesFrame DEF FInv, Quiet
<1> QED BY <1>4, <1>5, <1>6 DEF Run

\* A write or a removal that comes to its end.
LEMMA FileKeeps ==
    ASSUME IInv, FInv, NEW w \in Writers, File(w) PROVE FInv'
<1>1. WriterType /\ DiskType
  BY TypeParts DEF IInv
<1>2. proc' = proc /\ mem' = mem /\ loop' = loop
  BY DEF File, Persist, PersistMixed, Remove, WriteFails, sched, looper
<1>3. proc = "serving"
  BY DEF File, Persist, PersistMixed, Remove, WriteFails, FInv, Quiet, Resting
<1>4. writer' = [writer EXCEPT ![w] = Resting]
  BY DEF File, Persist, PersistMixed, Remove, WriteFails, Written, GivesUp
<1> DEFINE id == writer[w].id
<1>5. id \in Ids /\ Writing(w, id)
  BY <1>1, WriterFields DEF File, Persist, PersistMixed, Remove, WriteFails, Writing
<1>6. mixed \subseteq mixed' /\ mixed' \subseteq mixed \cup {id}
  BY DEF File, Persist, PersistMixed, Remove, WriteFails
<1>7. /\ \A i \in Ids \ {id} : disk'[i] = disk[i]
      /\ id \in mixed' \/ disk'[id] = writer[w].text
  <2>1. CASE Persist(w)
    BY <1>1, <1>5, <2>1 DEF Persist, DiskType
  <2>2. CASE PersistMixed(w)
    BY <1>1, <1>5, <2>2 DEF PersistMixed, DiskType
  <2>3. CASE Remove(w)
    <3>1. writer[w].text = NoFile
      <4>1. writer[w] \in {Resting} \cup [at : {"running", "remove"}, id : Ids, text : {NoFile}]
                           \cup [at : {"write"}, id : Ids, text : Contents]
        BY <1>1 DEF WriterType
      <4>2. writer[w].at = "remove"
        BY <2>3 DEF Remove
      <4> QED BY <4>1, <4>2 DEF Resting
    <3> QED BY <1>1, <1>5, <2>3, <3>1 DEF Remove, DiskType
  <2>4. CASE WriteFails(w)
    BY <1>1, <1>5, <2>4 DEF WriteFails
  <2> QED BY <2>1, <2>2, <2>3, <2>4 DEF File
<1>8. OwnFiles' /\ \A i \in Ids : Kept(i)'
  <2> HIDE DEF id
  <2> QED BY <1>1, <1>2, <1>3, <1>4, <1>5, <1>6, <1>7, WrittenKeeps
<1> QED BY <1>2, <1>3, <1>8 DEF FInv, Quiet

\* The loop writes the schedules it triggers or marks.
LEMMA LoopKeeps ==
    ASSUME IInv, FInv, LoopTimer \/ LoopListen PROVE FInv'
<1>1. MemType /\ WriterType /\ MemType'
  BY LoopTimerInv, LoopListenInv, TypeParts DEF IInv
<1>2. proc' = proc /\ disk' = disk /\ loop # "off"
  BY DEF LoopTimer, LoopListen, LoopGoes
<1>3. proc = "serving"
  BY <1>2 DEF FInv, Quiet
<1>4. CASE LoopTimer
  <2> DEFINE Saved == {id \in Ids : Due(id)}
  <2>1. LoopWrites(Saved) /\ Saved \in SUBSET Ids
    BY <1>4 DEF LoopTimer
  <2>2. mem' = [id \in Ids |-> IF Due(id) THEN Triggered(mem[id]) ELSE mem[id]]
    BY <1>4 DEF LoopTimer
  <2>3. ASSUME NEW id \in Saved
        PROVE  mem'[id] \in Schedule
    <3>1. mem[id] \in Schedule
      BY <1>1, EnabledThere DEF Due
    <3>2. mem'[id].kind = mem[id].kind
      BY <2>2, <3>1 DEF Triggered, Scheduled, Schedule
    <3>3. mem'[id] # NoSchedule
      BY <3>1, <3>2, KindsAssumption DEF NoSchedule, Schedule
    <3> QED BY <1>1, <3>3 DEF MemType
  <2>4. \A i \in Ids \ Saved : mem'[i] = mem[i]
    BY <2>2
  <2> HIDE DEF Saved
  <2> QED BY <1>1, <1>2, <1>3, <2>1, <2>3, <2>4, LoopWritesKeeps DEF FInv, Quiet
<1>5. CASE LoopListen
  <2>1. PICK Failing \in SUBSET needed :
          LoopWrites({id \in Ids : Enabled(id) /\ mem[id].kind \in Failing})
    BY <1>5 DEF LoopListen
  <2> DEFINE Saved == {id \in Ids : Enabled(id) /\ mem[id].kind \in Failing}
  <2>2. LoopWrites(Saved) /\ Saved \in SUBSET Ids /\ mem' = mem
    BY <1>5, <2>1 DEF LoopListen, sched
  <2>3. \A id \in Saved : mem'[id] \in Schedule
    BY <1>1, <2>2, EnabledThere
  <2> HIDE DEF Saved
  <2> QED BY <1>1, <1>2, <1>3, <2>2, <2>3, LoopWritesKeeps DEF FInv, Quiet
<1> QED BY <1>4, <1>5

\* The map is what the files say, but for those that cannot be read.
LEMMA LoadKeeps ==
    ASSUME IInv, FInv, Load PROVE FInv'
<1>1. DiskType
  BY TypeParts DEF IInv
<1>2. proc' = "serving" /\ disk' = disk /\ writer' = writer
  BY DEF Load
<1>3. \A w, id : ~Writing(w, id)' \/ w \notin Writers
  BY <1>2 DEF Load, FInv, Quiet, Writing, Resting
<1>4. ASSUME NEW id \in Ids, id \notin mixed'
      PROVE  disk'[id] = Says(id)'
  <2>1. disk[id] \in Contents \cup {NoFile}
    BY <1>1, <1>4 DEF Load, DiskType
  <2>2. CASE disk[id] = NoFile
    BY <1>2, <2>2 DEF Load, Says
  <2>3. CASE disk[id] \in Contents
    <3>1. disk[id] # NoFile /\ disk[id] # Torn
      BY <2>3, KindsAssumption DEF Contents, NoFile, Torn
    <3> DEFINE s == [kind |-> disk[id].kind, enabled |-> disk[id].enabled,
                     at |-> disk[id].at, next |-> Never]
    <3>2. mem'[id] = Scheduled(s, now)
      <4>1. PICK unread \in SUBSET Ids :
              /\ mem' = [i \in Ids |->
                    IF i \in unread \/ disk[i] \in {NoFile, Torn} THEN NoSchedule
                    ELSE Scheduled([kind |-> disk[i].kind, enabled |-> disk[i].enabled,
                                    at |-> disk[i].at, next |-> Never], now)]
              /\ mixed' = unread \cup {i \in Ids : disk[i] = Torn}
        BY DEF Load
      <4>2. id \notin unread
        BY <1>4, <4>1
      <4> QED BY <3>1, <4>1, <4>2
    <3>3. mem'[id].kind = disk[id].kind /\ Content(mem'[id]) = disk[id]
      BY <2>3, <3>2 DEF Scheduled, Content, Contents
    <3>4. mem'[id] # NoSchedule
      BY <2>3, <3>3, KindsAssumption DEF NoSchedule, Contents
    <3> QED BY <1>2, <3>3, <3>4 DEF Says
  <2> QED BY <2>1, <2>2, <2>3
<1> QED BY <1>2, <1>3, <1>4 DEF FInv, Quiet, OwnFiles, Kept, Writers

\* The end of the process ends every writer.
LEMMA CrashKeeps ==
    ASSUME Crash PROVE FInv'
<1>1. proc' = "down" /\ loop' = "off"
  BY DEF Crash
<1>2. \A w \in Writers : writer'[w] = Resting
  BY DEF Crash
<1>3. \A id \in Ids : launched'[id] = 0
  BY DEF Crash
<1>4. \A v \in Ids, id \in Ids : ~Writing(v, id)'
  BY <1>2 DEF Writing, Resting, Writers
<1> QED BY <1>1, <1>2, <1>3, <1>4 DEF FInv, Quiet, OwnFiles

\* The steps that touch neither the map nor a file.
LEMMA OthersKeep ==
    ASSUME FInv, UNCHANGED <<mem, files, writer>>,
           \/ Start \/ Tick \/ UNCHANGED vars
           \/ LoopReconcile \/ LoopArm \/ LoopChanged \/ LoopLaunch
           \/ (\E k \in EventKinds : LoopEvent(k) \/ Hear(k))
           \/ \E id \in Ids : RunNow(id)
    PROVE  FInv'
<1>1. Quiet'
  BY DEF FInv, Quiet, Start, Tick, LoopReconcile, LoopArm, LoopChanged, LoopLaunch, LoopEvent, Hear,
         RunNow, LoopGoes, vars, sched, looper
<1>2. OwnFiles' /\ \A id \in Ids : Kept(id)' <=> Kept(id)
  BY DEF FInv, OwnFiles, Writing, Kept, Says, files
<1>3. proc' = "serving" => proc = "serving"
  BY DEF Start, Tick, LoopReconcile, LoopArm, LoopChanged, LoopLaunch, LoopEvent, Hear, RunNow, vars
<1> QED BY <1>1, <1>2, <1>3 DEF FInv

LEMMA FilesInit == Init => FInv
BY DEF Init, FInv, Quiet, OwnFiles, Writing, Resting, Writers

LEMMA FilesNext == IInv /\ FInv /\ [Next]_vars => FInv'
<1> SUFFICES ASSUME IInv, FInv, [Next]_vars PROVE FInv'
  OBVIOUS
<1>1. CASE Load
  BY <1>1, LoadKeeps
<1>2. CASE Crash
  BY <1>2, CrashKeeps
<1>3. CASE \E r \in Requests : Change(r)
  BY <1>3, ChangeKeeps
<1>4. CASE \E w \in Writers : File(w)
  BY <1>4, FileKeeps
<1>5. CASE \E x \in Runners : Run(x)
  BY <1>5, RunKeeps
<1>6. CASE LoopTimer \/ LoopListen
  BY <1>6, LoopKeeps
<1>7. CASE \/ Start \/ Tick \/ UNCHANGED vars
           \/ LoopReconcile \/ LoopArm \/ LoopChanged \/ LoopLaunch
           \/ (\E k \in EventKinds : LoopEvent(k) \/ Hear(k))
           \/ \E id \in Ids : RunNow(id)
  <2>1. UNCHANGED <<mem, files, writer>>
    BY <1>7 DEF Start, Tick, LoopReconcile, LoopArm, LoopChanged, LoopLaunch, LoopEvent, Hear,
                RunNow, vars, sched
  <2> QED BY <1>7, <2>1, OthersKeep
<1> QED BY <1>1, <1>2, <1>3, <1>4, <1>5, <1>6, <1>7 DEF Next, Loop

\* persistSchedule writes outside schedulesMu; still, whenever nobody is
\* writing a schedule, its file says what the map says, over requests, runs,
\* the loop's own writes, crashes and reloads, as long as its writers did not
\* overlap and the last write did not fail.
THEOREM FilesFollowCorrect == Spec => []FilesFollow
<1>1. FInv => FilesFollow
  BY DEF FInv, FilesFollow, Kept, Says
<1>2. Spec => []FInv
  BY FilesInit, FilesNext, IInvCorrect, PTL DEF Spec
<1> QED BY <1>1, <1>2, PTL

----------------------------------------------------------------------------
(* The loop.                                                               *)

\* No change of a request is on its way to the loop.
Calm == ~signal /\ Told /\ unnoticed = {}

TimerSet ==
    \A id \in Ids : Enabled(id) /\ mem[id].next # Never => armed # Never /\ armed <= mem[id].next

\* What each step of the loop has brought in line with the map.
LInv ==
    Calm =>
        /\ loop = "listen" => needed = InUse
        /\ loop \in {"marking", "select"} => listening \cup refused = InUse
        /\ loop = "select" => TimerSet

\* Where neither the map nor the loop moves, it stays in line.
LEMMA LoopFrame ==
    ASSUME LInv, UNCHANGED <<mem, looper, listening, refused>>, Calm' => Calm
    PROVE  LInv'
<1>1. InUse' = InUse /\ TimerSet' = TimerSet
  BY DEF InUse, TimerSet, Enabled, looper
<1> QED BY <1>1 DEF LInv, looper

\* A request that changed the map is not told yet; one that ends leaves the
\* token, or the schedule among those that were not noticed.
LEMMA ChangeLoops ==
    ASSUME IInv, NEW r \in Requests, Change(r) PROVE LInv'
<1>1. WriterType /\ r \in Writers
  BY TypeParts DEF IInv, Writers
<1>2. PICK id \in Ids : Save(r, id) \/ Delete(r, id) \/ Switch(r, id)
  BY DEF Change
<1>3. writer'[r].at \in {"write", "remove"}
  BY <1>1, <1>2 DEF Save, Delete, Switch, Enters, At, WriterType
<1> QED BY <1>3 DEF LInv, Calm, Told

LEMMA FileLoops ==
    ASSUME IInv, LInv, NEW w \in Writers, File(w) PROVE LInv'
<1>1. WriterType
  BY TypeParts DEF IInv
<1>2. UNCHANGED <<mem, looper, listening, refused>>
  BY DEF File, Persist, PersistMixed, Remove, WriteFails, sched
<1>3. writer' = [writer EXCEPT ![w] = Resting] /\ (Written(w) \/ GivesUp(w))
  BY DEF File, Persist, PersistMixed, Remove, WriteFails, Written, GivesUp
<1>4. CASE w \in Requests
  BY <1>3, <1>4 DEF LInv, Calm, Written, GivesUp, Signal
<1>5. CASE w \notin Requests
  <2>1. \A r \in Requests : writer'[r] = writer[r]
    BY <1>1, <1>3, <1>5 DEF WriterType, Writers
  <2>2. Calm' => Calm
    BY <1>3, <1>5, <2>1 DEF Calm, Told, Written, GivesUp, Signal
  <2> QED BY <1>2, <2>2, LoopFrame
<1> QED BY <1>4, <1>5

LEMMA RunLoops ==
    ASSUME IInv, LInv, NEW x \in Runners, Run(x) PROVE LInv'
<1>1. WriterType
  BY TypeParts DEF IInv
<1>2. \A r \in Requests : writer'[r] = writer[r]
  BY <1>1, WritersAssumption DEF Run, StartRun, FinishRun, Enters, WriterType, Writers
<1>3. UNCHANGED <<mem, looper, listening, refused, signal, unnoticed>>
  BY DEF Run, StartRun, FinishRun, sched, wakes, ghosts
<1>4. Calm' => Calm
  BY <1>2, <1>3 DEF Calm, Told
<1> QED BY <1>3, <1>4, LoopFrame

\* reconcileScheduleEventListeners: first what is in use, then the listeners.
LEMMA ReconcileLoops ==
    ASSUME LoopReconcile PROVE LInv'
<1>1. loop' = "listen" /\ needed' = InUse /\ InUse' = InUse
  BY DEF LoopReconcile, LoopGoes, InUse, Enabled, sched
<1> QED BY <1>1 DEF LInv

LEMMA ListenLoops ==
    ASSUME IInv, LInv, LoopListen PROVE LInv'
<1>1. WriterType
  BY TypeParts DEF IInv
<1>2. PICK Failing \in SUBSET (needed \ (listening \cup refused)) :
          /\ listening' = needed \ ((refused \ listening) \cup Failing)
          /\ refused' = (refused \cap needed) \cup Failing
          /\ LoopWrites({id \in Ids : Enabled(id) /\ mem[id].kind \in Failing})
  BY DEF LoopListen
<1>3. listening' \cup refused' = needed
  BY <1>2
<1>4. \A r \in Requests : writer'[r] = writer[r]
  BY <1>1, <1>2, WritersAssumption DEF LoopWrites, Writers
<1>5. Calm' => Calm
  BY <1>4 DEF Calm, Told, LoopListen
<1>6. loop = "listen" /\ loop' = "marking" /\ InUse' = InUse
  BY DEF LoopListen, LoopGoes, InUse, Enabled, sched
<1> QED BY <1>3, <1>5, <1>6 DEF LInv

\* The timer is set to the nearest time, even if it has passed.
LEMMA ArmLoops ==
    ASSUME LInv, LoopArm PROVE LInv'
<1>1. /\ loop = "marking" /\ loop' = "select" /\ InUse' = InUse /\ Calm' = Calm
      /\ UNCHANGED <<mem, listening, refused>>
  BY DEF LoopArm, LoopGoes, InUse, Enabled, Calm, Told, sched, wakes, ghosts
<1>2. TimerSet'
  <2>1. ASSUME NEW id \in Ids, Enabled(id), mem[id].next # Never
        PROVE  mem[id].next \in NextTimes
    BY <2>1 DEF NextTimes
  <2>2. \A t \in NextTimes : armed' \in NextTimes /\ armed' <= t
    BY DEF LoopArm, Nearest
  <2>3. Never \notin NextTimes
    BY DEF NextTimes
  <2> QED BY <1>1, <2>1, <2>2, <2>3 DEF TimerSet, Enabled
<1> QED BY <1>1, <1>2 DEF LInv

\* The steps after which the loop has to look at the map again, or is not there.
LEMMA RestartLoops ==
    ASSUME \/ Load \/ Crash \/ LoopChanged \/ LoopLaunch \/ LoopTimer
           \/ \E k \in EventKinds : LoopEvent(k)
    PROVE  LInv'
<1>1. loop' \in {"off", "reconcile", "saving"}
  BY DEF Load, Crash, LoopChanged, LoopLaunch, LoopTimer, LoopEvent, LoopGoes
<1> QED BY <1>1 DEF LInv

LEMMA OthersLoop ==
    ASSUME LInv,
           \/ Start \/ Tick \/ UNCHANGED vars \/ (\E k \in EventKinds : Hear(k))
           \/ \E id \in Ids : RunNow(id)
    PROVE  LInv'
<1>1. UNCHANGED <<mem, looper, listening, refused, signal, writer, unnoticed>>
  BY DEF Start, Tick, Hear, RunNow, vars, sched, wakes, ghosts
<1>2. Calm' => Calm
  BY <1>1 DEF Calm, Told
<1> QED BY <1>1, <1>2, LoopFrame

LEMMA LoopNext == IInv /\ LInv /\ [Next]_vars => LInv'
<1> SUFFICES ASSUME IInv, LInv, [Next]_vars PROVE LInv'
  OBVIOUS
<1>1. CASE \E r \in Requests : Change(r)
  BY <1>1, ChangeLoops
<1>2. CASE \E w \in Writers : File(w)
  BY <1>2, FileLoops
<1>3. CASE \E x \in Runners : Run(x)
  BY <1>3, RunLoops
<1>4. CASE LoopReconcile
  BY <1>4, ReconcileLoops
<1>5. CASE LoopListen
  BY <1>5, ListenLoops
<1>6. CASE LoopArm
  BY <1>6, ArmLoops
<1>7. CASE \/ Load \/ Crash \/ LoopChanged \/ LoopLaunch \/ LoopTimer
           \/ \E k \in EventKinds : LoopEvent(k)
  BY <1>7, RestartLoops
<1>8. CASE \/ Start \/ Tick \/ UNCHANGED vars \/ (\E k \in EventKinds : Hear(k))
           \/ \E id \in Ids : RunNow(id)
  BY <1>8, OthersLoop
<1> QED BY <1>1, <1>2, <1>3, <1>4, <1>5, <1>6, <1>7, <1>8 DEF Next, Loop

\* schedulerLoop: when it waits and no change is on its way to it, it has a
\* listener for exactly the kinds in use and its timer is set to the nearest
\* time: one token in scheduleChanges is enough for any number of changes.
THEOREM LoopFollowsCorrect == Spec => []LoopFollows
<1>1. Init => LInv
  BY DEF Init, LInv
<1>2. LInv => LoopFollows
  BY DEF LInv, Calm, TimerSet, LoopFollows
<1>3. Spec => []LInv
  BY <1>1, LoopNext, IInvCorrect, PTL DEF Spec
<1> QED BY <1>2, <1>3, PTL
=============================================================================
