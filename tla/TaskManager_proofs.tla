------------------------- MODULE TaskManager_proofs -------------------------
(***************************************************************************)
(* What TLAPS proves of TaskManager for every set of tasks and waiters and *)
(* every pair of limits: the type invariant, the exactness of the two      *)
(* semaphores, the safety properties that rest on them, and what the       *)
(* clients' requests are promised.                                         *)
(***************************************************************************)
EXTENDS TaskManager, FiniteSetTheorems, TLAPS

(* The strengthening that makes the type invariant inductive: which parts  *)
(* of a task's state exist together.                                       *)

\* A goroutine exists only for a task in memory of a process that serves, and
\* one that has not recorded a result yet runs for a task that has not ended.
Goroutines ==
    \A t \in Tasks :
        /\ pc[t] # "idle" => mem[t] # NoTask /\ Serving
        /\ pc[t] \in {"wantTotal", "wantHeavy", "starting", "running", "finishing"}
              => ~Terminal(mem[t])
        /\ pc[t] \in {"wantHeavy", "releaseHeavy"} => t \in HeavyTasks
        /\ pc[t] = "finishing" => outcome[t].kind \in RunnerResult

\* A process that is down holds nothing, one that loads has no goroutine.
NoProcess ==
    /\ proc = "down" => \A t \in Tasks : mem[t] = NoTask
    /\ proc \in {"down", "loading"} =>
          /\ \A t \in Tasks : pc[t] = "idle" /\ mem[t].status \notin Pending

\* Nobody waits in a process that does not serve.
WaitersServed ==
    proc \in {"down", "loading"} => \A w \in Waiters : waiter[w].at = "idle"

\* Only an accepted task has a record or a snapshot.
Known == \A t \in Tasks : mem[t] # NoTask \/ disk[t] # NoTask => t \in accepted

\* A caller of Wait that is not idle waits for some task.
WaitersOfTasks ==
    \A w \in Waiters : waiter[w].at # "idle" => waiter[w].task \in Tasks

Shape == TypeOK /\ Goroutines /\ NoProcess /\ WaitersOfTasks

----------------------------------------------------------------------------
(* Facts about the records. *)

LEMMA RecordFacts ==
    /\ NoTask \notin Record /\ Damaged \notin Record /\ NoTask # Damaged
    /\ ~Terminal(NoTask) /\ ~Terminal(Damaged)
    /\ NoTask.status \notin Status /\ Damaged.status \notin Status
    /\ \A s \in Status, r \in RunnerResult \cup {"none", "cancelled", "restarted"} :
          /\ Rec(s, r) \in Record
          /\ Rec(s, r).status = s
          /\ Rec(s, r).result = r
    /\ \A x \in Record, s \in Status :
          /\ [x EXCEPT !.status = s] \in Record
          /\ [x EXCEPT !.status = s].status = s
    /\ \A x \in Record : x # NoTask /\ x # Damaged /\ x.status \in Status
  BY DEF NoTask, Damaged, Record, Rec, Terminal, Status, Pending, TerminalStatus,
         RunnerResult

LEMMA StatusFacts ==
    /\ Pending \subseteq Status /\ TerminalStatus \subseteq Status
    /\ "interrupted" \in Status
    /\ "queued" \in Pending /\ "running" \in Pending /\ "cancelling" \in Pending
    /\ "interrupted" \notin Pending /\ "interrupted" \notin TerminalStatus
    /\ Pending \cap TerminalStatus = {}
    /\ Status = Pending \cup {"interrupted"} \cup TerminalStatus
    /\ "cancelled" \in TerminalStatus /\ "failed" \in TerminalStatus
    /\ "succeeded" \in TerminalStatus /\ "timed_out" \in TerminalStatus
  BY DEF Status, Pending, TerminalStatus

LEMMA FinalStatusFacts ==
  ASSUME NEW t \in Tasks, outcome[t].kind \in RunnerResult,
         outcome[t].cancelled \in BOOLEAN
  PROVE  FinalStatus(t) \in TerminalStatus
  BY DEF FinalStatus, RunnerResult, TerminalStatus

LEMMA ShapeInit == Init => Shape
  BY BoundsAssumption, RecordFacts
     DEF Init, Shape, TypeOK, Goroutines, NoProcess, WaitersOfTasks, Asleep, NoOutcome,
         PCs, Pending, NoTask

\* The counted holders of the semaphores.
TotalHolders == {t \in Tasks : TotalHeld(t)}
HeavyHolders == {t \in Tasks : HeavyHeld(t)}

LEMMA HoldersFinite ==
    /\ IsFiniteSet(TotalHolders) /\ IsFiniteSet(HeavyHolders)
    /\ Cardinality(TotalHolders) \in Nat /\ Cardinality(HeavyHolders) \in Nat
  BY TasksAssumption, FS_Subset, FS_CardinalityType DEF TotalHolders, HeavyHolders

\* A goroutine about to release a slot is counted.
LEMMA ReleasePositive ==
  ASSUME Shape, SlotsExact, NEW t \in Tasks
  PROVE  /\ pc[t] = "releaseTotal" => totalUsed >= 1
         /\ pc[t] = "releaseHeavy" => heavyUsed >= 1
<1>1. ASSUME pc[t] = "releaseTotal" PROVE totalUsed >= 1
  <2>1. t \in TotalHolders
    BY <1>1 DEF TotalHolders, TotalHeld
  <2>2. Cardinality(TotalHolders) # 0
    BY <2>1, HoldersFinite, FS_EmptySet
  <2>. QED
    BY <2>2, HoldersFinite DEF SlotsExact, TotalHolders
<1>2. ASSUME pc[t] = "releaseHeavy" PROVE heavyUsed >= 1
  <2>1. t \in HeavyHolders
    BY <1>2 DEF HeavyHolders, HeavyHeld, Shape, Goroutines
  <2>2. Cardinality(HeavyHolders) # 0
    BY <2>1, HoldersFinite, FS_EmptySet
  <2>. QED
    BY <2>2, HoldersFinite DEF SlotsExact, HeavyHolders
<1>. QED
  BY <1>1, <1>2

\* What an ended process leaves in memory.
LEMMA ForgetShape ==
  ASSUME Shape, ForgetMemory
  PROVE  /\ mem' \in [Tasks -> {NoTask}] /\ pc' \in [Tasks -> {"idle"}]
         /\ ctxDone' \in [Tasks -> BOOLEAN]
         /\ outcome' \in [Tasks -> [kind : RunnerResult \cup {"none"}, cancelled : BOOLEAN]]
         /\ totalUsed' = 0 /\ heavyUsed' = 0 /\ delivering' = {}
         /\ waiter' \in [Waiters -> {Asleep}]
         /\ unsaved' = {} /\ cancelDropped' = {}
  BY DEF ForgetMemory, NoOutcome, RunnerResult

\* A snapshot write keeps the types, whether or not it fails.
LEMMA PersistType ==
  ASSUME Shape, NEW t \in Tasks, NEW r \in Record, NEW ok \in BOOLEAN, Persist(t, r, ok)
  PROVE  /\ disk' \in [Tasks -> Record \cup {NoTask, Damaged}]
         /\ writeFailures' \in 0..MaxWriteFailures
         /\ unsaved' \subseteq Tasks
  BY BoundsAssumption DEF Shape, TypeOK, Persist

\* Waking the callers of Wait keeps their types and their tasks.
LEMMA NotifyType ==
  ASSUME Shape, NEW t \in Tasks, Notify(t)
  PROVE  /\ waiter' \in [Waiters -> [task : Tasks \cup {"none"},
                                   at : {"idle", "checked", "parked", "woken"}]]
         /\ WaitersOfTasks'
  BY DEF Shape, TypeOK, WaitersOfTasks, Notify

\* finishCancelled, of a task in memory.
LEMMA FinishCancelledType ==
  ASSUME Shape, NEW t \in Tasks, mem[t] # NoTask, FinishCancelled(t)
  PROVE  /\ mem' \in [Tasks -> Record \cup {NoTask}]
         /\ \A u \in Tasks \ {t} : mem'[u] = mem[u]
         /\ mem'[t] # NoTask
         /\ disk' \in [Tasks -> Record \cup {NoTask, Damaged}]
         /\ writeFailures' \in 0..MaxWriteFailures
         /\ unsaved' \subseteq Tasks
         /\ waiter' \in [Waiters -> [task : Tasks \cup {"none"},
                                   at : {"idle", "checked", "parked", "woken"}]]
         /\ WaitersOfTasks'
<1>1. CASE Terminal(mem[t])
  BY <1>1 DEF FinishCancelled, Shape, TypeOK, WaitersOfTasks
<1>2. CASE ~Terminal(mem[t])
  <2>1. Rec("cancelled", "cancelled") \in Record
    BY RecordFacts, StatusFacts
  <2>2. /\ mem' = [mem EXCEPT ![t] = Rec("cancelled", "cancelled")]
        /\ \E ok \in BOOLEAN : Persist(t, Rec("cancelled", "cancelled"), ok)
        /\ Notify(t)
    BY <1>2 DEF FinishCancelled, Shape, TypeOK
  <2>3. /\ mem' \in [Tasks -> Record \cup {NoTask}]
        /\ \A u \in Tasks \ {t} : mem'[u] = mem[u]
        /\ mem'[t] # NoTask
    BY <2>1, <2>2, RecordFacts DEF Shape, TypeOK
  <2>. QED
    BY <2>1, <2>2, <2>3, PersistType, NotifyType
<1>. QED
  BY <1>1, <1>2

LEMMA ShapeStep ==
  ASSUME Shape, SlotsExact, [Next]_vars
  PROVE  Shape'
<1> USE RecordFacts, StatusFacts, BoundsAssumption
    DEF Shape, TypeOK, Goroutines, NoProcess, WaitersOfTasks, PCs, Serving, Closed,
        history, faults, slots, volatile, vars
<1>1. CASE Boot
  BY <1>1 DEF Boot
<1>2. CASE Close
  BY <1>2 DEF Close
<1>3. CASE CloseCancels
  BY <1>3 DEF CloseCancels
<1>4. CASE Exit
  BY <1>4, ForgetShape DEF Exit, Asleep
<1>5. CASE Crash
  BY <1>5, ForgetShape DEF Crash, Asleep
<1>6. CASE ResumeInterrupted
  <2>1. \A t \in Tasks :
            /\ mem'[t] = IF t \in Resumable THEN WithStatus(t, "queued") ELSE mem[t]
            /\ pc'[t] = IF t \in Resumable THEN "wantTotal" ELSE "idle"
    BY <1>6 DEF ResumeInterrupted
  <2>2. \A t \in Resumable : /\ t \in Tasks /\ mem[t] \in Record
                             /\ WithStatus(t, "queued") \in Record
                             /\ WithStatus(t, "queued").status = "queued"
    BY TasksAssumption DEF Resumable, WithStatus
  <2>3. /\ mem' \in [Tasks -> Record \cup {NoTask}]
        /\ pc' \in [Tasks -> PCs]
    BY <1>6, <2>1, <2>2 DEF ResumeInterrupted
  <2>4. PICK Failing \in SUBSET Resumable :
            /\ writeFailures + Cardinality(Failing) <= MaxWriteFailures
            /\ writeFailures' = writeFailures + Cardinality(Failing)
            /\ disk' = [t \in Tasks |-> IF t \in Failing THEN disk[t] ELSE mem'[t]]
            /\ unsaved' = (unsaved \ Resumable) \cup Failing
    BY <1>6 DEF ResumeInterrupted
  <2>5. Cardinality(Failing) \in Nat
    BY <2>2, <2>4, TasksAssumption, FS_Subset, FS_CardinalityType
  <2>6. /\ disk' \in [Tasks -> Record \cup {NoTask, Damaged}]
        /\ writeFailures' \in 0..MaxWriteFailures
        /\ unsaved' \subseteq Tasks
    BY <2>2, <2>3, <2>4, <2>5
  <2>7. Goroutines' /\ NoProcess'
    BY <1>6, <2>1, <2>2 DEF ResumeInterrupted, Terminal
  <2>. QED
    BY <1>6, <2>3, <2>6, <2>7 DEF ResumeInterrupted
<1>7. ASSUME NEW t \in Tasks, LoadDamaged(t) PROVE Shape'
  BY <1>7 DEF LoadDamaged
<1>8. ASSUME NEW t \in Tasks, LoadSnapshot(t) PROVE Shape'
  BY <1>8 DEF LoadSnapshot, LoadedAs, Terminal
<1>9. ASSUME NEW t \in Tasks, Submit(t) PROVE Shape'
  <2>. DEFINE r == Rec("queued", "none")
  <2>1. r \in Record /\ r.status = "queued" /\ ~Terminal(r)
    BY DEF Terminal
  <2>2. CASE /\ mem' = [mem EXCEPT ![t] = r]
             /\ pc' = [pc EXCEPT ![t] = "wantTotal"]
             /\ Persist(t, r, TRUE)
             /\ accepted' = accepted \cup {t}
    <3>1. /\ disk' \in [Tasks -> Record \cup {NoTask, Damaged}]
          /\ writeFailures' \in 0..MaxWriteFailures
          /\ unsaved' \subseteq Tasks
      BY <2>1, <2>2, PersistType
    <3>. HIDE DEF r
    <3>2. /\ proc = "up" /\ t \notin accepted
          /\ UNCHANGED <<proc, ctxDone, outcome, slots, delivering, waiter,
                         cancelDropped, quarantined, stops, damages>>
      BY <1>9 DEF Submit
    <3>3. \A u \in Tasks : /\ mem'[u] = IF u = t THEN r ELSE mem[u]
                           /\ pc'[u] = IF u = t THEN "wantTotal" ELSE pc[u]
      BY <2>2
    <3>4. TypeOK'
      <4>1. mem' \in [Tasks -> Record \cup {NoTask}]
        BY <2>1, <2>2
      <4>2. pc' \in [Tasks -> PCs]
        BY <2>2
      <4>3. accepted' \subseteq Tasks
        BY <2>2
      <4>. QED
        BY <4>1, <4>2, <4>3, <3>1, <3>2
    <3>5. r # NoTask
      BY <2>1
    <3>. QED
      BY <2>1, <3>2, <3>3, <3>4, <3>5
  <2>3. CASE UNCHANGED <<disk, unsaved, mem, pc, accepted>>
    BY <1>9, <2>3 DEF Submit, Persist, Terminal
  <2>. QED
    BY <1>9, <2>2, <2>3 DEF Submit
<1>10. ASSUME NEW t \in Tasks, Cancel(t) PROVE Shape'
  BY <1>10 DEF Cancel, Persist, WithStatus, Terminal
<1>11. ASSUME NEW t \in Tasks, DeliverCancel(t) PROVE Shape'
  BY <1>11 DEF DeliverCancel
<1>12. ASSUME NEW t \in Tasks, Update(t) PROVE Shape'
  BY <1>12 DEF Update, Persist
<1>13. ASSUME NEW t \in Tasks, AcquireTotal(t) PROVE Shape'
  BY <1>13 DEF AcquireTotal
<1>14. ASSUME NEW t \in Tasks, AcquireHeavy(t) PROVE Shape'
  BY <1>14 DEF AcquireHeavy
<1>15. ASSUME NEW t \in Tasks, StopWaiting(t) PROVE Shape'
  BY <1>15, FinishCancelledType DEF StopWaiting
<1>16. ASSUME NEW t \in Tasks, StartCancelled(t) PROVE Shape'
  BY <1>16, FinishCancelledType DEF StartCancelled, AfterRun
<1>17. ASSUME NEW t \in Tasks, StartRunner(t) PROVE Shape'
  BY <1>17 DEF StartRunner, Persist, WithStatus, Terminal
<1>18. ASSUME NEW t \in Tasks, RunnerReturns(t) PROVE Shape'
  BY <1>18 DEF RunnerReturns
<1>19. ASSUME NEW t \in Tasks, RecordResult(t) PROVE Shape'
  <2>. DEFINE r == Rec(FinalStatus(t), outcome[t].kind)
  <2>1. r \in Record
    BY <1>19, FinalStatusFacts DEF RecordResult
  <2>2. /\ mem' = [mem EXCEPT ![t] = r]
        /\ \E ok \in BOOLEAN : Persist(t, r, ok)
        /\ Notify(t)
    BY <1>19 DEF RecordResult
  <2>3. /\ mem' \in [Tasks -> Record \cup {NoTask}]
        /\ \A u \in Tasks \ {t} : mem'[u] = mem[u]
        /\ mem'[t] # NoTask
    BY <2>1, <2>2
  <2>4. /\ disk' \in [Tasks -> Record \cup {NoTask, Damaged}]
        /\ writeFailures' \in 0..MaxWriteFailures
        /\ unsaved' \subseteq Tasks
    BY <2>1, <2>2, PersistType
  <2>. HIDE DEF r
  <2>. QED
    BY <1>19, <2>2, <2>3, <2>4, NotifyType DEF RecordResult, AfterRun
<1>20. ASSUME NEW t \in Tasks, ReleaseHeavy(t) PROVE Shape'
  BY <1>20, ReleasePositive DEF ReleaseHeavy
<1>21. ASSUME NEW t \in Tasks, ReleaseTotal(t) PROVE Shape'
  BY <1>21, ReleasePositive DEF ReleaseTotal
<1>22. ASSUME NEW t \in Tasks, Damage(t) PROVE Shape'
  BY <1>22 DEF Damage
<1>23. ASSUME NEW t \in Tasks, LoadFails(t) PROVE Shape'
  BY <1>23, ForgetShape DEF LoadFails, Asleep
<1>24. ASSUME NEW w \in Waiters, WaitRegister(w) PROVE Shape'
  BY <1>24 DEF WaitRegister, Asleep
<1>25. ASSUME NEW w \in Waiters, WaitReturn(w) PROVE Shape'
  BY <1>25 DEF WaitReturn, Asleep
<1>26. ASSUME NEW w \in Waiters, NEW t \in Tasks, WaitCheck(w, t) PROVE Shape'
  BY <1>26 DEF WaitCheck
<1>27. CASE UNCHANGED vars
  BY <1>27 DEF vars
<1>. QED
  BY <1>1, <1>2, <1>3, <1>4, <1>5, <1>6, <1>7, <1>8, <1>9, <1>10, <1>11, <1>12, <1>13, <1>14, <1>15, <1>16, <1>17, <1>18, <1>19, <1>20, <1>21, <1>22, <1>23, <1>24, <1>25, <1>26, <1>27
  DEF Next, Start, Request, Run, Wait, Process

\* Known is inductive.
LEMMA KnownStep ==
  ASSUME Shape, Known, [Next]_vars
  PROVE  Known'
<1>. USE TasksAssumption
     DEF Known, Shape, TypeOK, history, faults, slots, volatile, vars
<1>1. ASSUME UNCHANGED <<mem, disk, accepted>> PROVE Known'
  BY <1>1
<1>2. ASSUME ForgetMemory, UNCHANGED <<disk, accepted>> PROVE Known'
  BY <1>2 DEF ForgetMemory
<1>3. ASSUME NEW t \in Tasks, t \in accepted', accepted \subseteq accepted',
             \A u \in Tasks \ {t} : mem'[u] = mem[u] /\ disk'[u] = disk[u]
      PROVE  Known'
  BY <1>3
<1>4. CASE ResumeInterrupted
  <2>1. \A t \in Tasks : disk[t] = mem[t]
    BY <1>4 DEF ResumeInterrupted
  <2>2. \A t \in Tasks : mem[t] = NoTask => mem'[t] = NoTask /\ disk'[t] = NoTask
    BY <1>4, <2>1 DEF ResumeInterrupted, Resumable, NoTask
  <2>. QED
    BY <1>4, <2>1, <2>2 DEF ResumeInterrupted
<1>5. CASE Boot \/ Close \/ CloseCancels
  BY <1>1, <1>5 DEF Boot, Close, CloseCancels
<1>6. CASE Exit \/ Crash
  BY <1>2, <1>6 DEF Exit, Crash
<1>7. ASSUME NEW w \in Waiters, Wait(w) PROVE Known'
  BY <1>1, <1>7 DEF Wait, WaitCheck, WaitRegister, WaitReturn
<1>8. ASSUME NEW t \in Tasks, LoadDamaged(t) \/ LoadSnapshot(t) \/ Damage(t)
      PROVE  Known'
  <2>1. t \in accepted
    BY <1>8, RecordFacts DEF LoadDamaged, LoadSnapshot, Damage
  <2>. QED
    BY <1>3, <1>8, <2>1 DEF LoadDamaged, LoadSnapshot, Damage
<1>9. ASSUME NEW t \in Tasks, LoadFails(t) PROVE Known'
  BY <1>2, <1>9 DEF LoadFails
<1>10. ASSUME NEW t \in Tasks, Submit(t) PROVE Known'
  BY <1>1, <1>3, <1>10 DEF Submit, Persist
<1>11. ASSUME NEW t \in Tasks, Cancel(t) \/ Update(t) PROVE Known'
  BY <1>3, <1>11 DEF Cancel, Update, Persist
<1>12. ASSUME NEW t \in Tasks, DeliverCancel(t) \/ AcquireTotal(t) \/ AcquireHeavy(t)
                 \/ RunnerReturns(t) \/ ReleaseHeavy(t) \/ ReleaseTotal(t)
       PROVE  Known'
  BY <1>1, <1>12 DEF DeliverCancel, AcquireTotal, AcquireHeavy, RunnerReturns,
                     ReleaseHeavy, ReleaseTotal
<1>13. ASSUME NEW t \in Tasks, StopWaiting(t) \/ StartCancelled(t) \/ StartRunner(t)
                 \/ RecordResult(t)
       PROVE  Known'
  <2>1. pc[t] # "idle"
    BY <1>13 DEF StopWaiting, StartCancelled, StartRunner, RecordResult
  <2>2. t \in accepted
    BY <2>1 DEF Goroutines
  <2>. QED
    BY <1>3, <1>13, <2>2
       DEF StopWaiting, StartCancelled, StartRunner, RecordResult, FinishCancelled, Persist
<1>14. CASE UNCHANGED vars
  BY <1>1, <1>14
<1>. QED
  BY <1>4, <1>5, <1>6, <1>7, <1>8, <1>9, <1>10, <1>11, <1>12, <1>13, <1>14
  DEF Next, Start, Request, Run, Process

----------------------------------------------------------------------------
(* The semaphores. *)

\* A step that moves no goroutine across an acquire or a release.
LEMMA SameHolders ==
  ASSUME SlotsExact, TotalHolders' = TotalHolders, HeavyHolders' = HeavyHolders,
         UNCHANGED slots
  PROVE  SlotsExact'
  BY DEF SlotsExact, TotalHolders, HeavyHolders, slots

\* Without goroutines and with fresh channels nothing is counted.
LEMMA NoHolders ==
  ASSUME totalUsed' = 0, heavyUsed' = 0, \A t \in Tasks : pc'[t] \in {"idle", "wantTotal"}
  PROVE  SlotsExact'
<1>1. {t \in Tasks : TotalHeld(t)'} = {} /\ {t \in Tasks : HeavyHeld(t)'} = {}
  BY DEF TotalHeld, HeavyHeld
<1>. QED
  BY <1>1, FS_EmptySet, LimitsAssumption DEF SlotsExact

\* With an empty set of holders the counters are zero.
LEMMA EmptyHolders ==
  ASSUME SlotsExact, \A t \in Tasks : pc[t] = "idle"
  PROVE  totalUsed = 0 /\ heavyUsed = 0
<1>1. {t \in Tasks : TotalHeld(t)} = {} /\ {t \in Tasks : HeavyHeld(t)} = {}
  BY DEF TotalHeld, HeavyHeld
<1>. QED
  BY <1>1, FS_EmptySet DEF SlotsExact

LEMMA SlotsInit == Init => SlotsExact
<1>. SUFFICES ASSUME Init PROVE SlotsExact
  OBVIOUS
<1>1. {t \in Tasks : TotalHeld(t)} = {} /\ {t \in Tasks : HeavyHeld(t)} = {}
  BY DEF Init, TotalHeld, HeavyHeld
<1>. QED
  BY <1>1, FS_EmptySet, LimitsAssumption DEF Init, SlotsExact

LEMMA SlotsStep ==
  ASSUME Shape, Known, SlotsExact, [Next]_vars
  PROVE  SlotsExact'
<1>. USE DEF volatile, slots, vars
<1>1. ASSUME UNCHANGED <<pc, totalUsed, heavyUsed>> PROVE SlotsExact'
  BY <1>1 DEF SlotsExact, TotalHeld, HeavyHeld
<1>2. ASSUME ForgetMemory PROVE SlotsExact'
  BY <1>2, NoHolders DEF ForgetMemory
<1>3. CASE ResumeInterrupted
  <2>1. totalUsed = 0 /\ heavyUsed = 0
    BY <1>3, EmptyHolders DEF ResumeInterrupted, Shape, NoProcess
  <2>. QED
    BY <1>3, <2>1, NoHolders DEF ResumeInterrupted
<1>4. ASSUME NEW t \in Tasks, Submit(t) PROVE SlotsExact'
  <2>1. CASE UNCHANGED pc
    BY <1>1, <1>4, <2>1 DEF Submit
  <2>2. CASE pc' = [pc EXCEPT ![t] = "wantTotal"]
    <3>1. pc[t] = "idle"
      BY <1>4 DEF Submit, Shape, Goroutines, Known
    <3>2. TotalHolders' = TotalHolders /\ HeavyHolders' = HeavyHolders
      BY <2>2, <3>1 DEF TotalHolders, HeavyHolders, TotalHeld, HeavyHeld, Shape, TypeOK
    <3>. QED
      BY <1>4, <3>2, SameHolders DEF Submit
  <2>. QED
    BY <1>4, <2>1, <2>2 DEF Submit
<1>5. ASSUME NEW t \in Tasks, AcquireTotal(t) PROVE SlotsExact'
  <2>1. TotalHolders' = TotalHolders \cup {t} /\ t \notin TotalHolders
    BY <1>5 DEF AcquireTotal, TotalHolders, TotalHeld, Shape, TypeOK
  <2>2. HeavyHolders' = HeavyHolders
    BY <1>5 DEF AcquireTotal, HeavyHolders, HeavyHeld, Shape, TypeOK
  <2>3. Cardinality(TotalHolders') = Cardinality(TotalHolders) + 1
    BY <2>1, HoldersFinite, FS_AddElement
  <2>. QED
    BY <1>5, <2>2, <2>3, HoldersFinite, LimitsAssumption
       DEF AcquireTotal, SlotsExact, TotalHolders, HeavyHolders
<1>6. ASSUME NEW t \in Tasks, AcquireHeavy(t) PROVE SlotsExact'
  <2>1. HeavyHolders' = HeavyHolders \cup {t} /\ t \notin HeavyHolders
    BY <1>6 DEF AcquireHeavy, HeavyHolders, HeavyHeld, Shape, TypeOK, Goroutines
  <2>2. TotalHolders' = TotalHolders
    BY <1>6 DEF AcquireHeavy, TotalHolders, TotalHeld, Shape, TypeOK
  <2>3. Cardinality(HeavyHolders') = Cardinality(HeavyHolders) + 1
    BY <2>1, HoldersFinite, FS_AddElement
  <2>. QED
    BY <1>6, <2>2, <2>3, HoldersFinite, LimitsAssumption
       DEF AcquireHeavy, SlotsExact, TotalHolders, HeavyHolders
<1>7. ASSUME NEW t \in Tasks, StopWaiting(t) PROVE SlotsExact'
  <2>1. TotalHolders' = TotalHolders /\ HeavyHolders' = HeavyHolders
    BY <1>7 DEF StopWaiting, TotalHolders, HeavyHolders, TotalHeld, HeavyHeld, Shape, TypeOK
  <2>. QED
    BY <1>7, <2>1, SameHolders DEF StopWaiting
<1>8. ASSUME NEW t \in Tasks, StartCancelled(t) PROVE SlotsExact'
  <2>1. TotalHolders' = TotalHolders /\ HeavyHolders' = HeavyHolders
    BY <1>8 DEF StartCancelled, AfterRun, TotalHolders, HeavyHolders, TotalHeld, HeavyHeld,
                Shape, TypeOK
  <2>. QED
    BY <1>8, <2>1, SameHolders DEF StartCancelled
<1>9. ASSUME NEW t \in Tasks, StartRunner(t) \/ RunnerReturns(t) \/ RecordResult(t)
      PROVE  SlotsExact'
  <2>1. TotalHolders' = TotalHolders /\ HeavyHolders' = HeavyHolders
    BY <1>9 DEF StartRunner, RunnerReturns, RecordResult, AfterRun, TotalHolders,
                HeavyHolders, TotalHeld, HeavyHeld, Shape, TypeOK
  <2>. QED
    BY <1>9, <2>1, SameHolders DEF StartRunner, RunnerReturns, RecordResult
<1>10. ASSUME NEW t \in Tasks, ReleaseHeavy(t) PROVE SlotsExact'
  <2>1. HeavyHolders' = HeavyHolders \ {t} /\ t \in HeavyHolders
    BY <1>10 DEF ReleaseHeavy, HeavyHolders, HeavyHeld, Shape, TypeOK, Goroutines
  <2>2. TotalHolders' = TotalHolders
    BY <1>10 DEF ReleaseHeavy, TotalHolders, TotalHeld, Shape, TypeOK
  <2>3. Cardinality(HeavyHolders') = Cardinality(HeavyHolders) - 1
    BY <2>1, HoldersFinite, FS_RemoveElement
  <2>. QED
    BY <1>10, <2>2, <2>3, HoldersFinite, LimitsAssumption
       DEF ReleaseHeavy, SlotsExact, TotalHolders, HeavyHolders
<1>11. ASSUME NEW t \in Tasks, ReleaseTotal(t) PROVE SlotsExact'
  <2>1. TotalHolders' = TotalHolders \ {t} /\ t \in TotalHolders
    BY <1>11 DEF ReleaseTotal, TotalHolders, TotalHeld, Shape, TypeOK
  <2>2. HeavyHolders' = HeavyHolders
    BY <1>11 DEF ReleaseTotal, HeavyHolders, HeavyHeld, Shape, TypeOK
  <2>3. Cardinality(TotalHolders') = Cardinality(TotalHolders) - 1
    BY <2>1, HoldersFinite, FS_RemoveElement
  <2>. QED
    BY <1>11, <2>2, <2>3, HoldersFinite, LimitsAssumption
       DEF ReleaseTotal, SlotsExact, TotalHolders, HeavyHolders
<1>12. CASE Exit \/ Crash
  BY <1>2, <1>12 DEF Exit, Crash
<1>13. ASSUME NEW t \in Tasks, LoadFails(t) PROVE SlotsExact'
  BY <1>2, <1>13 DEF LoadFails
<1>14. CASE Boot \/ Close \/ CloseCancels
  BY <1>1, <1>14 DEF Boot, Close, CloseCancels
<1>15. ASSUME NEW t \in Tasks,
              \/ LoadDamaged(t) \/ LoadSnapshot(t) \/ Cancel(t) \/ DeliverCancel(t)
              \/ Update(t) \/ Damage(t)
       PROVE  SlotsExact'
  BY <1>1, <1>15 DEF LoadDamaged, LoadSnapshot, Cancel, DeliverCancel, Update, Damage
<1>16. ASSUME NEW w \in Waiters, Wait(w) PROVE SlotsExact'
  BY <1>1, <1>16 DEF Wait, WaitCheck, WaitRegister, WaitReturn
<1>17. CASE UNCHANGED vars
  BY <1>1, <1>17
<1>. QED
  BY <1>3, <1>4, <1>5, <1>6, <1>7, <1>8, <1>9, <1>10, <1>11, <1>12, <1>13, <1>14, <1>15,
     <1>16, <1>17
  DEF Next, Start, Request, Run, Process

\* The inductive invariant behind every theorem below.
IInv == Shape /\ Known /\ SlotsExact

THEOREM IInvCorrect == Spec => []IInv
<1>1. Init => IInv
  BY ShapeInit, SlotsInit DEF Init, IInv, Known
<1>2. IInv /\ [Next]_vars => IInv'
  BY ShapeStep, KnownStep, SlotsStep DEF IInv
<1>. QED
  BY <1>1, <1>2, PTL DEF Spec

\* The type invariant of TaskManager.
THEOREM TypeCorrect == Spec => []TypeOK
<1>1. IInv => TypeOK
  BY DEF IInv, Shape
<1>. QED
  BY <1>1, IInvCorrect, PTL

\* manager.go's two semaphores: on every path each slot that is taken is given
\* back once, and never more tasks run than TotalTasks and HeavyTasks allow.
THEOREM SlotsCorrect == Spec => []SlotsExact
<1>1. IInv => SlotsExact
  BY DEF IInv
<1>. QED
  BY <1>1, IInvCorrect, PTL

----------------------------------------------------------------------------
(* Cancellation. *)

LEMMA CancelStep ==
  ASSUME IInv, CancelReachesRunner, [Next]_vars
  PROVE  CancelReachesRunner'
<1>. USE TasksAssumption, RecordFacts, StatusFacts
     DEF IInv, CancelReachesRunner, Shape, TypeOK, history, faults, slots, volatile, vars
<1>1. ASSUME UNCHANGED <<mem, pc, ctxDone, delivering, cancelDropped>>
      PROVE  CancelReachesRunner'
  BY <1>1
<1>2. ASSUME \A t \in Tasks : pc'[t] # "running" PROVE CancelReachesRunner'
  BY <1>2
<1>3. ASSUME NEW t \in Tasks, UNCHANGED <<ctxDone, delivering, cancelDropped>>,
             pc'[t] # "running" \/ mem'[t].status # "cancelling",
             \A u \in Tasks \ {t} : mem'[u] = mem[u] /\ pc'[u] = pc[u]
      PROVE  CancelReachesRunner'
  BY <1>3
<1>4. CASE ResumeInterrupted
  BY <1>2, <1>4 DEF ResumeInterrupted
<1>5. CASE Exit \/ Crash
  BY <1>2, <1>5 DEF Exit, Crash, ForgetMemory
<1>6. CASE Boot \/ Close
  BY <1>1, <1>6 DEF Boot, Close
<1>7. CASE CloseCancels
  BY <1>7 DEF CloseCancels
<1>8. ASSUME NEW w \in Waiters, Wait(w) PROVE CancelReachesRunner'
  BY <1>1, <1>8 DEF Wait, WaitCheck, WaitRegister, WaitReturn
<1>9. ASSUME NEW t \in Tasks, LoadFails(t) PROVE CancelReachesRunner'
  BY <1>2, <1>9 DEF LoadFails, ForgetMemory
<1>10. ASSUME NEW t \in Tasks, LoadDamaged(t) \/ Damage(t) \/ Update(t)
       PROVE  CancelReachesRunner'
  BY <1>1, <1>10 DEF LoadDamaged, Damage, Update
<1>11. ASSUME NEW t \in Tasks, LoadSnapshot(t) PROVE CancelReachesRunner'
  BY <1>2, <1>11 DEF LoadSnapshot, NoProcess
<1>12. ASSUME NEW t \in Tasks, Submit(t) PROVE CancelReachesRunner'
  <2>1. CASE UNCHANGED <<mem, pc>>
    BY <1>1, <1>12, <2>1 DEF Submit
  <2>2. CASE /\ mem' = [mem EXCEPT ![t] = Rec("queued", "none")]
             /\ pc' = [pc EXCEPT ![t] = "wantTotal"]
    BY <1>3, <1>12, <2>2 DEF Submit
  <2>. QED
    BY <1>12, <2>1, <2>2 DEF Submit
<1>13. ASSUME NEW t \in Tasks, Cancel(t) PROVE CancelReachesRunner'
  <2>1. \A u \in Tasks \ {t} : mem'[u] = mem[u]
    BY <1>13 DEF Cancel
  <2>2. UNCHANGED <<pc, ctxDone>>
    BY <1>13 DEF Cancel
  <2>3. CASE /\ delivering' = IF Registered(t) THEN delivering \cup {t} ELSE delivering
             /\ cancelDropped' = cancelDropped \ {t}
    <3>1. pc[t] = "running" => t \in delivering'
      BY <2>3 DEF Registered
    <3>2. delivering \subseteq delivering'
      BY <2>3
    <3>. QED
      BY <2>1, <2>2, <2>3, <3>1, <3>2
  <2>4. CASE cancelDropped' = cancelDropped \cup {t} /\ UNCHANGED delivering
    BY <2>1, <2>2, <2>4
  <2>. QED
    BY <1>13, <2>3, <2>4 DEF Cancel
<1>14. ASSUME NEW t \in Tasks, DeliverCancel(t) PROVE CancelReachesRunner'
  BY <1>14 DEF DeliverCancel
<1>15. ASSUME NEW t \in Tasks, AcquireTotal(t) \/ AcquireHeavy(t) \/ RunnerReturns(t)
                 \/ ReleaseHeavy(t) \/ ReleaseTotal(t)
       PROVE  CancelReachesRunner'
  BY <1>3, <1>15 DEF AcquireTotal, AcquireHeavy, RunnerReturns, ReleaseHeavy, ReleaseTotal
<1>16. ASSUME NEW t \in Tasks, StopWaiting(t) \/ StartCancelled(t)
       PROVE  CancelReachesRunner'
  BY <1>3, <1>16, FinishCancelledType
     DEF StopWaiting, StartCancelled, AfterRun, Goroutines
<1>17. ASSUME NEW t \in Tasks, StartRunner(t) PROVE CancelReachesRunner'
  <2>1. mem'[t].status = "running"
    BY <1>17 DEF StartRunner, WithStatus, Goroutines
  <2>. QED
    BY <1>3, <1>17, <2>1 DEF StartRunner
<1>18. ASSUME NEW t \in Tasks, RecordResult(t) PROVE CancelReachesRunner'
  BY <1>3, <1>18 DEF RecordResult, AfterRun
<1>19. CASE UNCHANGED vars
  BY <1>1, <1>19
<1>. QED
  BY <1>4, <1>5, <1>6, <1>7, <1>8, <1>9, <1>10, <1>11, <1>12, <1>13, <1>14, <1>15, <1>16,
     <1>17, <1>18, <1>19
  DEF Next, Start, Request, Run, Process

\* A Cancel that was answered without an error reaches the runner of the task,
\* however it interleaves with the goroutine that starts it.
THEOREM CancelReachesRunnerCorrect == Spec => []CancelReachesRunner
<1>1. Init => CancelReachesRunner
  BY DEF Init, CancelReachesRunner
<1>2. IInv /\ CancelReachesRunner /\ [Next]_vars => CancelReachesRunner'
  BY CancelStep
<1>. QED
  BY <1>1, <1>2, IInvCorrect, PTL DEF Spec

----------------------------------------------------------------------------
(* Records and snapshots. *)

\* Memory is written through: only a failed write leaves a snapshot behind.
WriteThrough ==
    \A t \in Tasks : mem[t] # NoTask /\ t \notin unsaved => disk[t] = mem[t]

\* What FinalStays says of one step.
FinalStep ==
    \A t \in Tasks : Terminal(View(t)) /\ t \notin unsaved
        => View(t)' = View(t) \/ disk'[t] = Damaged

\* A critical section that changes and writes the record of a task that has
\* not ended.
LEMMA WriteRecord ==
  ASSUME IInv, WriteThrough, NEW t \in Tasks, NEW r \in Record, ~Terminal(View(t)),
         mem' = [mem EXCEPT ![t] = r], \E ok \in BOOLEAN : Persist(t, r, ok)
  PROVE  WriteThrough' /\ FinalStep
<1>1. \A u \in Tasks \ {t} : /\ mem'[u] = mem[u] /\ disk'[u] = disk[u]
                             /\ (u \in unsaved') <=> (u \in unsaved)
  BY DEF Persist, IInv, Shape, TypeOK
<1>2. mem'[t] = r /\ (disk'[t] = r \/ t \in unsaved')
  BY DEF Persist, IInv, Shape, TypeOK
<1>3. WriteThrough'
  BY <1>1, <1>2 DEF WriteThrough
<1>4. \A u \in Tasks \ {t} : View(u)' = View(u)
  BY <1>1 DEF View
<1>. QED
  BY <1>3, <1>4 DEF FinalStep

\* The end of a process: what was written is what there is.
LEMMA ForgetRecords ==
  ASSUME WriteThrough, ForgetMemory, UNCHANGED disk
  PROVE  WriteThrough' /\ FinalStep
  BY DEF WriteThrough, FinalStep, View, ForgetMemory

LEMMA FinishCancelledWrites ==
  ASSUME IInv, WriteThrough, NEW t \in Tasks, FinishCancelled(t), mem[t] # NoTask,
         ~Terminal(mem[t])
  PROVE  WriteThrough' /\ FinalStep
<1>. DEFINE r == Rec("cancelled", "cancelled")
<1>1. r \in Record
  BY RecordFacts, StatusFacts
<1>2. mem' = [mem EXCEPT ![t] = r] /\ \E ok \in BOOLEAN : Persist(t, r, ok)
  BY DEF FinishCancelled, IInv, Shape, TypeOK
<1>3. ~Terminal(View(t))
  BY DEF View
<1>. HIDE DEF r
<1>. QED
  BY <1>1, <1>2, <1>3, WriteRecord

LEMMA RecordStep ==
  ASSUME IInv, WriteThrough, [Next]_vars
  PROVE  WriteThrough' /\ FinalStep
<1>. USE DEF history, faults, slots, volatile, vars
<1>1. ASSUME UNCHANGED <<mem, disk, unsaved>> PROVE WriteThrough' /\ FinalStep
  BY <1>1 DEF WriteThrough, FinalStep, View
<1>2. CASE Boot \/ Close \/ CloseCancels
  BY <1>1, <1>2 DEF Boot, Close, CloseCancels
<1>3. CASE Exit \/ Crash
  BY <1>3, ForgetRecords DEF Exit, Crash
<1>4. CASE ResumeInterrupted
  <2>1. PICK Failing \in SUBSET Resumable :
            /\ disk' = [t \in Tasks |-> IF t \in Failing THEN disk[t] ELSE mem'[t]]
            /\ unsaved' = (unsaved \ Resumable) \cup Failing
    BY <1>4 DEF ResumeInterrupted
  <2>2. \A t \in Tasks \ Resumable : mem'[t] = mem[t] /\ disk[t] = mem[t]
    BY <1>4 DEF ResumeInterrupted
  <2>3. \A t \in Resumable : ~Terminal(View(t))
    BY StatusFacts DEF Resumable, View, Terminal, NoTask
  <2>4. WriteThrough'
    BY <2>1 DEF WriteThrough
  <2>5. \A t \in Tasks \ Resumable : View(t)' = View(t)
    BY <2>1, <2>2 DEF View
  <2>. QED
    BY <2>3, <2>4, <2>5 DEF FinalStep
<1>5. ASSUME NEW w \in Waiters, Wait(w) PROVE WriteThrough' /\ FinalStep
  BY <1>1, <1>5 DEF Wait, WaitCheck, WaitRegister, WaitReturn
<1>6. ASSUME NEW t \in Tasks, LoadDamaged(t) \/ Damage(t)
      PROVE  WriteThrough' /\ FinalStep
  BY <1>6, RecordFacts DEF LoadDamaged, Damage, WriteThrough, FinalStep, View, IInv, Shape, TypeOK, NoProcess
<1>7. ASSUME NEW t \in Tasks, LoadSnapshot(t) PROVE WriteThrough' /\ FinalStep
  <2>1. Terminal(disk[t]) => LoadedAs(t) = disk[t]
    BY StatusFacts DEF LoadedAs, Terminal
  <2>2. /\ mem[t] = NoTask
        /\ mem' = [mem EXCEPT ![t] = LoadedAs(t)]
        /\ disk' = [disk EXCEPT ![t] = LoadedAs(t)]
        /\ UNCHANGED unsaved
    BY <1>7 DEF LoadSnapshot
  <2>3. mem'[t] = LoadedAs(t) /\ disk'[t] = LoadedAs(t)
    BY <2>2 DEF IInv, Shape, TypeOK
  <2>4. \A u \in Tasks \ {t} : mem'[u] = mem[u] /\ disk'[u] = disk[u]
    BY <2>2 DEF IInv, Shape, TypeOK
  <2>. QED
    BY <2>1, <2>2, <2>3, <2>4 DEF WriteThrough, FinalStep, View
<1>8. ASSUME NEW t \in Tasks, LoadFails(t) PROVE WriteThrough' /\ FinalStep
  BY <1>8, ForgetRecords DEF LoadFails
<1>9. ASSUME NEW t \in Tasks, Submit(t) PROVE WriteThrough' /\ FinalStep
  <2>1. CASE UNCHANGED <<mem, disk, unsaved>>
    BY <1>1, <2>1
  <2>2. CASE /\ mem' = [mem EXCEPT ![t] = Rec("queued", "none")]
             /\ \E ok \in BOOLEAN : Persist(t, Rec("queued", "none"), ok)
    <3>1. ~Terminal(View(t)) /\ Rec("queued", "none") \in Record
      BY <1>9, RecordFacts, StatusFacts DEF Submit, IInv, Known, View
    <3>. QED
      BY <2>2, <3>1, WriteRecord
  <2>. QED
    BY <1>9, <2>1, <2>2 DEF Submit
<1>10. ASSUME NEW t \in Tasks, Cancel(t) PROVE WriteThrough' /\ FinalStep
  <2>. DEFINE r == WithStatus(t, "cancelling")
  <2>1. mem[t] \in Record /\ ~Terminal(View(t))
    BY <1>10 DEF Cancel, View, IInv, Shape, TypeOK
  <2>2. r \in Record
    BY <2>1, RecordFacts, StatusFacts DEF WithStatus
  <2>3. mem' = [mem EXCEPT ![t] = r]
    BY <1>10 DEF Cancel
  <2>4. mem'[t] = r
    BY <2>3 DEF IInv, Shape, TypeOK
  <2>5. \E ok \in BOOLEAN : Persist(t, r, ok)
    BY <1>10, <2>4 DEF Cancel
  <2>. HIDE DEF r
  <2>. QED
    BY <2>1, <2>2, <2>3, <2>5, WriteRecord
<1>11. ASSUME NEW t \in Tasks, Update(t) PROVE WriteThrough' /\ FinalStep
  <2>1. mem[t] \in Record /\ ~Terminal(View(t))
    BY <1>11 DEF Update, View, IInv, Shape, TypeOK
  <2>2. mem' = [mem EXCEPT ![t] = mem[t]]
    BY <1>11 DEF Update, IInv, Shape, TypeOK
  <2>3. \E ok \in BOOLEAN : Persist(t, mem[t], ok)
    BY <1>11 DEF Update
  <2>. QED
    BY <2>1, <2>2, <2>3, WriteRecord
<1>12. ASSUME NEW t \in Tasks, DeliverCancel(t) \/ AcquireTotal(t) \/ AcquireHeavy(t)
                 \/ RunnerReturns(t) \/ ReleaseHeavy(t) \/ ReleaseTotal(t)
       PROVE  WriteThrough' /\ FinalStep
  BY <1>1, <1>12 DEF DeliverCancel, AcquireTotal, AcquireHeavy, RunnerReturns,
                     ReleaseHeavy, ReleaseTotal
<1>13. ASSUME NEW t \in Tasks, StopWaiting(t) \/ StartCancelled(t)
       PROVE  WriteThrough' /\ FinalStep
  <2>1. mem[t] # NoTask /\ ~Terminal(mem[t])
    BY <1>13 DEF StopWaiting, StartCancelled, IInv, Shape, Goroutines
  <2>. QED
    BY <1>13, <2>1, FinishCancelledWrites DEF StopWaiting, StartCancelled
<1>14. ASSUME NEW t \in Tasks, StartRunner(t) PROVE WriteThrough' /\ FinalStep
  <2>. DEFINE r == WithStatus(t, "running")
  <2>1. mem[t] \in Record /\ ~Terminal(View(t))
    BY <1>14, RecordFacts DEF StartRunner, View, IInv, Shape, TypeOK, Goroutines
  <2>2. r \in Record
    BY <2>1, RecordFacts, StatusFacts DEF WithStatus
  <2>3. mem' = [mem EXCEPT ![t] = r]
    BY <1>14 DEF StartRunner
  <2>4. mem'[t] = r
    BY <2>3 DEF IInv, Shape, TypeOK
  <2>5. \E ok \in BOOLEAN : Persist(t, r, ok)
    BY <1>14, <2>4 DEF StartRunner
  <2>. HIDE DEF r
  <2>. QED
    BY <2>1, <2>2, <2>3, <2>5, WriteRecord
<1>15. ASSUME NEW t \in Tasks, RecordResult(t) PROVE WriteThrough' /\ FinalStep
  <2>. DEFINE r == Rec(FinalStatus(t), outcome[t].kind)
  <2>1. ~Terminal(View(t))
    BY <1>15 DEF RecordResult, View, IInv, Shape, Goroutines
  <2>2. r \in Record
    BY <1>15, FinalStatusFacts, RecordFacts, StatusFacts DEF RecordResult, IInv, Shape, TypeOK, Goroutines
  <2>3. mem' = [mem EXCEPT ![t] = r]
    BY <1>15 DEF RecordResult
  <2>4. mem'[t] = r
    BY <2>3 DEF IInv, Shape, TypeOK
  <2>5. \E ok \in BOOLEAN : Persist(t, r, ok)
    BY <1>15, <2>4 DEF RecordResult
  <2>. HIDE DEF r
  <2>. QED
    BY <2>1, <2>2, <2>3, <2>5, WriteRecord
<1>16. CASE UNCHANGED vars
  BY <1>1, <1>16
<1>. QED
  BY <1>2, <1>3, <1>4, <1>5, <1>6, <1>7, <1>8, <1>9, <1>10, <1>11, <1>12, <1>13, <1>14,
     <1>15, <1>16
  DEF Next, Start, Request, Run, Process

\* A final status that was written stays, over every crash, stop and restart.
THEOREM FinalStaysCorrect == Spec => FinalStays
<1>1. Init => WriteThrough
  BY DEF Init, WriteThrough
<1>2. IInv /\ WriteThrough /\ [Next]_vars => WriteThrough'
  BY RecordStep
<1>3. IInv /\ WriteThrough /\ [Next]_vars => [FinalStep]_vars
  BY RecordStep
<1>4. [FinalStep]_vars <=> [\A t \in Tasks :
         Terminal(View(t)) /\ t \notin unsaved
            => View(t)' = View(t) \/ disk'[t] = Damaged]_vars
  BY DEF FinalStep
<1>. QED
  BY <1>1, <1>2, <1>3, <1>4, IInvCorrect, PTL DEF Spec, FinalStays

----------------------------------------------------------------------------
(* The requests of the clients: no caller of Wait sleeps on a task that    *)
(* has ended, an accepted task keeps its snapshot, and a task that is      *)
(* being cancelled ends cancelled.                                         *)


(* Callers of Wait.                                                        *)

\* The end of a process ends its callers, too.
LEMMA ForgetWaiters ==
  ASSUME ForgetMemory
  PROVE  WaitersServed' /\ NoLostWakeup'
  BY DEF ForgetMemory, WaitersServed, NoLostWakeup, Asleep

\* A task that ends, under the lock, takes its callers' channels with it.
LEMMA NotifyWakes ==
  ASSUME IInv, WaitersServed, NoLostWakeup, NEW t \in Tasks, NEW r \in Record,
         Terminal(r), mem' = [mem EXCEPT ![t] = r], Notify(t), Serving, proc' = proc
  PROVE  WaitersServed' /\ NoLostWakeup'
<1>1. mem'[t] = r /\ \A u \in Tasks \ {t} : mem'[u] = mem[u]
  BY DEF IInv, Shape, TypeOK
<1>2. \A w \in Waiters : waiter[w].at # "idle" => waiter[w].task \in Tasks
  BY DEF IInv, Shape, WaitersOfTasks
<1>3. ASSUME NEW w \in Waiters
      PROVE  /\ waiter'[w].at = "parked" => ~Terminal(mem'[waiter'[w].task])
             /\ waiter'[w].at = "woken"  => Terminal(mem'[waiter'[w].task])
  <2>1. waiter[w] \in [task : Tasks \cup {"none"}, at : {"idle", "checked", "parked", "woken"}]
    BY DEF IInv, Shape, TypeOK
  <2>2. CASE waiter[w].task = t /\ waiter[w].at = "parked"
    <3>1. waiter'[w].at = "woken" /\ waiter'[w].task = t
      BY <2>1, <2>2 DEF Notify
    <3>. QED
      BY <1>1, <3>1
  <2>3. CASE ~(waiter[w].task = t /\ waiter[w].at = "parked")
    <3>1. waiter'[w] = waiter[w]
      BY <2>3 DEF Notify
    <3>. QED
      BY <1>1, <1>2, <2>3, <3>1 DEF NoLostWakeup
  <2>. QED
    BY <2>2, <2>3
<1>4. WaitersServed'
  BY DEF WaitersServed, Serving
<1>. QED
  BY <1>3, <1>4 DEF NoLostWakeup

\* A task that does not end and one that had ended wake nobody.
LEMMA NobodyWoken ==
  ASSUME IInv, WaitersServed, NoLostWakeup, NEW t \in Tasks,
         \A u \in Tasks \ {t} : mem'[u] = mem[u],
         Terminal(mem[t]) <=> Terminal(mem'[t]), UNCHANGED waiter, Serving \/ proc' = proc
  PROVE  NoLostWakeup' /\ (proc' = proc => WaitersServed')
  BY DEF NoLostWakeup, WaitersServed, IInv, Shape, WaitersOfTasks

\* Every step keeps the callers of Wait served.
LEMMA WaitStep ==
  ASSUME IInv, WaitersServed, NoLostWakeup, [Next]_vars
  PROVE  WaitersServed' /\ NoLostWakeup'
<1>. USE DEF history, faults, slots, volatile, vars
<1>1. ASSUME UNCHANGED <<mem, waiter>>, proc' = proc \/ proc' \notin {"down", "loading"} \/ proc = "down"
      PROVE  WaitersServed' /\ NoLostWakeup'
  BY <1>1 DEF WaitersServed, NoLostWakeup
<1>2. CASE Boot \/ Close \/ CloseCancels
  BY <1>1, <1>2 DEF Boot, Close, CloseCancels
<1>3. CASE Exit \/ Crash
  BY <1>3, ForgetWaiters DEF Exit, Crash
<1>4. CASE ResumeInterrupted
  <2>1. \A w \in Waiters : waiter[w].at = "idle"
    BY <1>4 DEF ResumeInterrupted, WaitersServed
  <2>. QED
    BY <1>4, <2>1 DEF ResumeInterrupted, WaitersServed, NoLostWakeup
<1>5. ASSUME NEW w \in Waiters, Wait(w) PROVE WaitersServed' /\ NoLostWakeup'
  <2>1. \A v \in Waiters : waiter[v] \in [task : Tasks \cup {"none"}, at : {"idle", "checked", "parked", "woken"}]
    BY DEF IInv, Shape, TypeOK
  <2>2. UNCHANGED <<mem, proc>> /\ \A v \in Waiters \ {w} : waiter'[v] = waiter[v]
    BY <1>5 DEF Wait, WaitCheck, WaitRegister, WaitReturn, IInv, Shape, TypeOK
  <2>3. /\ waiter'[w].at # "woken"
        /\ waiter'[w].at = "parked" => ~Terminal(mem[waiter'[w].task])
    BY <1>5, <2>1 DEF Wait, WaitCheck, WaitRegister, WaitReturn, Asleep, IInv, Shape, TypeOK
  <2>4. proc \in {"down", "loading"} => waiter'[w].at = "idle"
    BY <1>5, <2>1 DEF Wait, WaitCheck, WaitRegister, WaitReturn, Asleep, WaitersServed, Serving, IInv, Shape, TypeOK
  <2>. QED
    BY <2>2, <2>3, <2>4 DEF WaitersServed, NoLostWakeup
<1>6. ASSUME NEW t \in Tasks, LoadDamaged(t) \/ Damage(t) \/ Update(t) \/ DeliverCancel(t)
                 \/ AcquireTotal(t) \/ AcquireHeavy(t) \/ RunnerReturns(t) \/ ReleaseHeavy(t)
                 \/ ReleaseTotal(t)
      PROVE  WaitersServed' /\ NoLostWakeup'
  BY <1>1, <1>6 DEF LoadDamaged, Damage, Update, DeliverCancel, AcquireTotal, AcquireHeavy,
                    RunnerReturns, ReleaseHeavy, ReleaseTotal
<1>7. ASSUME NEW t \in Tasks, LoadSnapshot(t) PROVE WaitersServed' /\ NoLostWakeup'
  <2>1. \A w \in Waiters : waiter[w].at = "idle"
    BY <1>7 DEF LoadSnapshot, WaitersServed
  <2>. QED
    BY <1>7, <2>1 DEF LoadSnapshot, WaitersServed, NoLostWakeup
<1>8. ASSUME NEW t \in Tasks, LoadFails(t) PROVE WaitersServed' /\ NoLostWakeup'
  BY <1>8, ForgetWaiters DEF LoadFails
<1>9. ASSUME NEW t \in Tasks, Submit(t) PROVE WaitersServed' /\ NoLostWakeup'
  <2>1. CASE UNCHANGED mem
    BY <1>1, <1>9, <2>1 DEF Submit
  <2>2. CASE mem' = [mem EXCEPT ![t] = Rec("queued", "none")]
    <3>1. ~Terminal(mem[t])
      BY <1>9, RecordFacts DEF Submit, IInv, Known
    <3>2. ~Terminal(mem'[t]) /\ \A u \in Tasks \ {t} : mem'[u] = mem[u]
      BY <2>2, StatusFacts, RecordFacts DEF IInv, Shape, TypeOK, Terminal
    <3>. QED
      BY <1>9, <3>1, <3>2, NobodyWoken DEF Submit
  <2>. QED
    BY <1>9, <2>1, <2>2 DEF Submit
<1>10. ASSUME NEW t \in Tasks, Cancel(t) \/ StartRunner(t)
       PROVE  WaitersServed' /\ NoLostWakeup'
  <2>1. ~Terminal(mem[t]) /\ UNCHANGED <<proc, waiter>> /\ Serving
    BY <1>10 DEF Cancel, StartRunner, IInv, Shape, Goroutines
  <2>2. mem' = [mem EXCEPT ![t] = WithStatus(t, "cancelling")]
            \/ mem' = [mem EXCEPT ![t] = WithStatus(t, "running")]
    BY <1>10 DEF Cancel, StartRunner
  <2>3. mem[t] \in Record
    <3>1. mem[t] # NoTask /\ mem \in [Tasks -> Record \cup {NoTask}]
      BY <1>10 DEF Cancel, StartRunner, IInv, Shape, TypeOK, Goroutines
    <3>. QED
      BY <3>1
  <2>4. ~Terminal(mem'[t]) /\ \A u \in Tasks \ {t} : mem'[u] = mem[u]
    BY <2>2, <2>3, StatusFacts, RecordFacts DEF IInv, Shape, TypeOK, Terminal, WithStatus, Record
  <2>. QED
    BY <2>1, <2>4, NobodyWoken
<1>11. ASSUME NEW t \in Tasks, StopWaiting(t) \/ StartCancelled(t)
       PROVE  WaitersServed' /\ NoLostWakeup'
  <2>1. ~Terminal(mem[t]) /\ Serving /\ proc' = proc /\ FinishCancelled(t)
    BY <1>11 DEF StopWaiting, StartCancelled, IInv, Shape, Goroutines
  <2>2. Rec("cancelled", "cancelled") \in Record /\ Terminal(Rec("cancelled", "cancelled"))
    BY RecordFacts, StatusFacts DEF Rec, Terminal, TerminalStatus
  <2>. QED
    BY <2>1, <2>2, NotifyWakes DEF FinishCancelled
<1>12. ASSUME NEW t \in Tasks, RecordResult(t) PROVE WaitersServed' /\ NoLostWakeup'
  <2>. DEFINE r == Rec(FinalStatus(t), outcome[t].kind)
  <2>1. r \in Record /\ Terminal(r)
    BY <1>12, FinalStatusFacts, RecordFacts, StatusFacts
       DEF RecordResult, IInv, Shape, TypeOK, Goroutines, Terminal
  <2>2. mem' = [mem EXCEPT ![t] = r] /\ Notify(t) /\ proc' = proc /\ Serving
    BY <1>12 DEF RecordResult, IInv, Shape, Goroutines
  <2>. HIDE DEF r
  <2>. QED
    BY <2>1, <2>2, NotifyWakes
<1>13. CASE UNCHANGED vars
  BY <1>1, <1>13
<1>. QED
  BY <1>2, <1>3, <1>4, <1>5, <1>6, <1>7, <1>8, <1>9, <1>10, <1>11, <1>12, <1>13
  DEF Next, Start, Request, Run, Process

\* Manager.Wait: nobody sleeps on a task that has ended, or is woken by one
\* that has not.
THEOREM NoLostWakeupCorrect == Spec => []NoLostWakeup
<1>1. Init => WaitersServed /\ NoLostWakeup
  BY DEF Init, WaitersServed, NoLostWakeup, Asleep
<1>2. IInv /\ WaitersServed /\ NoLostWakeup /\ [Next]_vars => WaitersServed' /\ NoLostWakeup'
  BY WaitStep
<1>. QED
  BY <1>1, <1>2, IInvCorrect, PTL DEF Spec

----------------------------------------------------------------------------
(* Snapshots and cancellations.                                            *)

\* What a critical section writes is a snapshot, and what it does not write
\* is left alone.
LEMMA PersistKeeps ==
  ASSUME IInv, NEW t \in Tasks, NEW r \in Record, \E ok \in BOOLEAN : Persist(t, r, ok)
  PROVE  \A u \in Tasks : disk[u] # NoTask => disk'[u] # NoTask
  BY RecordFacts DEF Persist, IInv, Shape, TypeOK

\* Every step keeps the snapshots of the accepted tasks.
LEMMA DiskStep ==
  ASSUME IInv, AcceptedOnDisk, [Next]_vars
  PROVE  AcceptedOnDisk'
<1>. USE DEF history, faults, slots, volatile, vars, AcceptedOnDisk
<1>1. ASSUME \A u \in Tasks : disk[u] # NoTask => disk'[u] # NoTask,
             UNCHANGED <<accepted, quarantined>>
      PROVE  AcceptedOnDisk'
  BY <1>1 DEF IInv, Shape, TypeOK
<1>2. CASE Boot \/ Close \/ CloseCancels \/ Exit \/ Crash
  BY <1>2, <1>1 DEF Boot, Close, CloseCancels, Exit, Crash
<1>3. CASE ResumeInterrupted
  <2>1. ASSUME NEW t \in Tasks, disk[t] # NoTask
        PROVE  disk'[t] # NoTask
    <3>1. disk[t] = mem[t] /\ mem[t] \in Record
      BY <1>3, <2>1 DEF ResumeInterrupted, IInv, Shape, TypeOK
    <3>2. WithStatus(t, "queued") # NoTask
      BY <3>1, RecordFacts, StatusFacts DEF WithStatus
    <3>. QED
      BY <1>3, <2>1, <3>1, <3>2 DEF ResumeInterrupted
  <2>. QED
    BY <1>1, <1>3, <2>1 DEF ResumeInterrupted
<1>4. ASSUME NEW w \in Waiters, Wait(w) PROVE AcceptedOnDisk'
  BY <1>1, <1>4 DEF Wait, WaitCheck, WaitRegister, WaitReturn
<1>5. ASSUME NEW t \in Tasks, LoadDamaged(t) PROVE AcceptedOnDisk'
  BY <1>5 DEF LoadDamaged, IInv, Shape, TypeOK
<1>6. ASSUME NEW t \in Tasks, LoadSnapshot(t) PROVE AcceptedOnDisk'
  <2>1. disk[t] \in Record
    BY <1>6 DEF LoadSnapshot, IInv, Shape, TypeOK
  <2>2. LoadedAs(t) # NoTask
    BY <2>1, RecordFacts, StatusFacts DEF LoadedAs, RunnerResult
  <2>. QED
    BY <1>1, <1>6, <2>2 DEF LoadSnapshot, IInv, Shape, TypeOK
<1>7. ASSUME NEW t \in Tasks, LoadFails(t) \/ DeliverCancel(t) \/ AcquireTotal(t)
                 \/ AcquireHeavy(t) \/ RunnerReturns(t) \/ ReleaseHeavy(t) \/ ReleaseTotal(t)
      PROVE  AcceptedOnDisk'
  BY <1>1, <1>7 DEF LoadFails, DeliverCancel, AcquireTotal, AcquireHeavy, RunnerReturns,
                    ReleaseHeavy, ReleaseTotal
<1>8. ASSUME NEW t \in Tasks, Damage(t) PROVE AcceptedOnDisk'
  BY <1>1, <1>8, RecordFacts DEF Damage, IInv, Shape, TypeOK
<1>9. ASSUME NEW t \in Tasks, Submit(t) PROVE AcceptedOnDisk'
  <2>1. CASE UNCHANGED <<disk, accepted>>
    BY <1>1, <1>9, <2>1 DEF Submit
  <2>2. CASE Persist(t, Rec("queued", "none"), TRUE) /\ accepted' = accepted \cup {t}
    BY <1>9, <2>2, RecordFacts, StatusFacts DEF Submit, Persist, IInv, Shape, TypeOK
  <2>. QED
    BY <1>9, <2>1, <2>2 DEF Submit
<1>10. ASSUME NEW t \in Tasks, Cancel(t) \/ StartRunner(t) PROVE AcceptedOnDisk'
  <2>1. mem[t] \in Record
    <3>1. mem[t] # NoTask /\ mem \in [Tasks -> Record \cup {NoTask}]
      BY <1>10 DEF Cancel, StartRunner, IInv, Shape, TypeOK, Goroutines
    <3>. QED
      BY <3>1
  <2>2. PICK s \in Pending : mem' = [mem EXCEPT ![t] = WithStatus(t, s)]
    BY <1>10, StatusFacts DEF Cancel, StartRunner
  <2>3. mem'[t] = WithStatus(t, s) /\ WithStatus(t, s) \in Record
    BY <2>1, <2>2, RecordFacts, StatusFacts DEF WithStatus, IInv, Shape, TypeOK
  <2>4. \E ok \in BOOLEAN : Persist(t, mem'[t], ok)
    BY <1>10 DEF Cancel, StartRunner
  <2>. QED
    BY <1>1, <1>10, <2>3, <2>4, PersistKeeps DEF Cancel, StartRunner
<1>11. ASSUME NEW t \in Tasks, Update(t) PROVE AcceptedOnDisk'
  <2>1. mem[t] \in Record
    BY <1>11 DEF Update, IInv, Shape, TypeOK
  <2>. QED
    BY <1>1, <1>11, <2>1, PersistKeeps DEF Update
<1>12. ASSUME NEW t \in Tasks, StopWaiting(t) \/ StartCancelled(t) PROVE AcceptedOnDisk'
  <2>. DEFINE r == Rec("cancelled", "cancelled")
  <2>1. r \in Record
    BY RecordFacts, StatusFacts
  <2>2. ~Terminal(mem[t]) /\ FinishCancelled(t)
    BY <1>12 DEF StopWaiting, StartCancelled, IInv, Shape, Goroutines
  <2>3. \E ok \in BOOLEAN : Persist(t, r, ok)
    BY <2>2 DEF FinishCancelled, IInv, Shape, TypeOK
  <2>. HIDE DEF r
  <2>. QED
    BY <1>1, <1>12, <2>1, <2>3, PersistKeeps DEF StopWaiting, StartCancelled
<1>13. ASSUME NEW t \in Tasks, RecordResult(t) PROVE AcceptedOnDisk'
  <2>. DEFINE r == Rec(FinalStatus(t), outcome[t].kind)
  <2>1. r \in Record
    BY <1>13, FinalStatusFacts, RecordFacts, StatusFacts
       DEF RecordResult, IInv, Shape, TypeOK, Goroutines
  <2>2. \E ok \in BOOLEAN : Persist(t, r, ok)
    BY <1>13 DEF RecordResult, IInv, Shape, TypeOK
  <2>. HIDE DEF r
  <2>. QED
    BY <1>1, <1>13, <2>1, <2>2, PersistKeeps DEF RecordResult
<1>14. CASE UNCHANGED vars
  BY <1>1, <1>14
<1>. QED
  BY <1>2, <1>3, <1>4, <1>5, <1>6, <1>7, <1>8, <1>9, <1>10, <1>11, <1>12, <1>13, <1>14
  DEF Next, Start, Request, Run, Process

\* Manager.Submit: a task whose identifier was returned has a snapshot for
\* ever, unless its file is found damaged.
THEOREM AcceptedOnDiskCorrect == Spec => []AcceptedOnDisk
<1>1. Init => AcceptedOnDisk
  BY DEF Init, AcceptedOnDisk
<1>2. IInv /\ AcceptedOnDisk /\ [Next]_vars => AcceptedOnDisk'
  BY DiskStep
<1>. QED
  BY <1>1, <1>2, IInvCorrect, PTL DEF Spec

\* What CancelSticks says of one step.
SticksStep ==
    \A t \in Tasks : mem[t].status = "cancelling"
        => mem'[t].status \in {"cancelling", "cancelled"} \/ proc' = "down"

\* No step makes a task that is being cancelled anything but cancelled.
LEMMA CancellingStep ==
  ASSUME IInv, [Next]_vars
  PROVE  SticksStep
<1>. USE DEF history, faults, slots, volatile, vars, SticksStep
<1>1. ASSUME UNCHANGED mem \/ proc' = "down" PROVE SticksStep
  BY <1>1
<1>2. ASSUME NEW t \in Tasks, \A u \in Tasks \ {t} : mem'[u] = mem[u],
             mem[t].status = "cancelling" => mem'[t].status \in {"cancelling", "cancelled"}
      PROVE  SticksStep
  BY <1>2
<1>3. CASE Boot \/ Close \/ CloseCancels \/ Exit \/ Crash
  BY <1>3, <1>1 DEF Boot, Close, CloseCancels, Exit, Crash
<1>4. CASE ResumeInterrupted
  BY <1>4, StatusFacts DEF ResumeInterrupted, IInv, Shape, NoProcess
<1>5. ASSUME NEW w \in Waiters, Wait(w) PROVE SticksStep
  BY <1>1, <1>5 DEF Wait, WaitCheck, WaitRegister, WaitReturn
<1>6. ASSUME NEW t \in Tasks, LoadDamaged(t) \/ LoadFails(t) \/ Damage(t) \/ Update(t)
                 \/ DeliverCancel(t) \/ AcquireTotal(t) \/ AcquireHeavy(t)
                 \/ RunnerReturns(t) \/ ReleaseHeavy(t) \/ ReleaseTotal(t)
      PROVE  SticksStep
  BY <1>1, <1>6 DEF LoadDamaged, LoadFails, Damage, Update, DeliverCancel, AcquireTotal,
                    AcquireHeavy, RunnerReturns, ReleaseHeavy, ReleaseTotal
<1>7. ASSUME NEW t \in Tasks, LoadSnapshot(t) \/ Submit(t) PROVE SticksStep
  <2>1. mem[t] = NoTask /\ \A u \in Tasks \ {t} : mem'[u] = mem[u]
    BY <1>7 DEF LoadSnapshot, Submit, IInv, Known, Shape, TypeOK
  <2>. QED
    BY <1>2, <2>1, RecordFacts, StatusFacts
<1>8. ASSUME NEW t \in Tasks, Cancel(t) PROVE SticksStep
  <2>1. mem[t] \in Record /\ mem' = [mem EXCEPT ![t] = WithStatus(t, "cancelling")]
    BY <1>8 DEF Cancel, IInv, Shape, TypeOK
  <2>2. mem'[t].status = "cancelling" /\ \A u \in Tasks \ {t} : mem'[u] = mem[u]
    BY <2>1, RecordFacts, StatusFacts DEF WithStatus, IInv, Shape, TypeOK
  <2>. QED
    BY <1>2, <2>2
<1>9. ASSUME NEW t \in Tasks, StopWaiting(t) \/ StartCancelled(t) PROVE SticksStep
  <2>1. mem' = [mem EXCEPT ![t] = Rec("cancelled", "cancelled")]
    BY <1>9 DEF StopWaiting, StartCancelled, FinishCancelled, IInv, Shape, Goroutines
  <2>2. mem'[t].status = "cancelled" /\ \A u \in Tasks \ {t} : mem'[u] = mem[u]
    BY <2>1 DEF Rec, IInv, Shape, TypeOK
  <2>. QED
    BY <1>2, <2>2
<1>10. ASSUME NEW t \in Tasks, StartRunner(t) PROVE SticksStep
  BY <1>2, <1>10 DEF StartRunner, IInv, Shape, TypeOK
<1>11. ASSUME NEW t \in Tasks, RecordResult(t) PROVE SticksStep
  <2>1. mem' = [mem EXCEPT ![t] = Rec(FinalStatus(t), outcome[t].kind)]
    BY <1>11 DEF RecordResult
  <2>2. mem'[t].status = FinalStatus(t) /\ \A u \in Tasks \ {t} : mem'[u] = mem[u]
    BY <2>1 DEF Rec, IInv, Shape, TypeOK
  <2>3. mem[t].status = "cancelling" => FinalStatus(t) = "cancelled"
    BY DEF FinalStatus
  <2>. QED
    BY <1>2, <2>2, <2>3
<1>12. CASE UNCHANGED vars
  BY <1>1, <1>12
<1>. QED
  BY <1>3, <1>4, <1>5, <1>6, <1>7, <1>8, <1>9, <1>10, <1>11, <1>12
  DEF Next, Start, Request, Run, Process

\* Manager.run: while the process lives, a task that is being cancelled can
\* only become cancelled.
THEOREM CancelSticksCorrect == Spec => CancelSticks
<1>1. IInv /\ [Next]_vars =>
        [\A t \in Tasks : mem[t].status = "cancelling"
            => mem'[t].status \in {"cancelling", "cancelled"} \/ proc' = "down"]_vars
  BY CancellingStep DEF SticksStep
<1>. QED
  BY <1>1, IInvCorrect, PTL DEF Spec, CancelSticks
=============================================================================
