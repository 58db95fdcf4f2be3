-------------------- MODULE TaskManagerLifecycle_proofs --------------------
(***************************************************************************)
(* TaskManager implements TaskLifecycle when no snapshot write fails and   *)
(* no file is damaged: what a client can learn of a task is then what its  *)
(* snapshot says, and each critical section moves one snapshot along one   *)
(* step of the life cycle.                                                 *)
(***************************************************************************)
EXTENDS TaskManager_proofs

\* The stage a status stands for, and the stages of all the tasks.
StageAt(s) ==
    CASE s = "none"                      -> "absent"
      [] s \in {"queued", "interrupted"} -> "waiting"
      [] s \in {"running", "cancelling"} -> "working"
      [] s \in TerminalStatus            -> s

Bar == [t \in Tasks |-> StageOf(t)]

\* A runner executes only a task that was begun.
Executing ==
    \A t \in Tasks : pc[t] \in {"running", "finishing"}
        => mem[t].status \in {"running", "cancelling"}

\* No fault has happened.
NoFaults == unsaved = {} /\ \A t \in Tasks : disk[t] # Damaged

LInv == IInv /\ WriteThrough /\ Executing /\ NoFaults

LEMMA StageFacts ==
    /\ StageAt("none") = "absent"
    /\ StageAt("queued") = "waiting" /\ StageAt("interrupted") = "waiting"
    /\ StageAt("running") = "working" /\ StageAt("cancelling") = "working"
    /\ \A s \in TerminalStatus : StageAt(s) = s
    /\ \A s \in Pending \cup {"interrupted"} : StageAt(s) \in {"waiting", "working"}
  BY DEF StageAt, TerminalStatus, Pending

\* Without faults the snapshots tell the stages.
LEMMA BarOfDisk ==
  LInv => Bar = [t \in Tasks |-> StageAt(disk[t].status)]
<1>. SUFFICES ASSUME LInv PROVE Bar = [t \in Tasks |-> StageAt(disk[t].status)]
  OBVIOUS
<1>1. ASSUME NEW t \in Tasks PROVE View(t) = disk[t]
  BY DEF LInv, WriteThrough, NoFaults, View
<1>2. ASSUME NEW t \in Tasks PROVE StageOf(t) = StageAt(disk[t].status)
  BY <1>1 DEF StageOf, StageAt, Terminal
<1>. QED
  BY <1>2 DEF Bar

LEMMA BarAfterwards ==
  LInv' => Bar' = [t \in Tasks |-> StageAt(disk'[t].status)]
<1>. SUFFICES ASSUME LInv' PROVE Bar' = [t \in Tasks |-> StageAt(disk'[t].status)]
  OBVIOUS
<1>1. ASSUME NEW t \in Tasks PROVE View(t)' = disk'[t]
  BY DEF LInv, WriteThrough, NoFaults, View
<1>2. ASSUME NEW t \in Tasks PROVE StageOf(t)' = StageAt(disk'[t].status)
  BY <1>1 DEF StageOf, StageAt, Terminal
<1>. QED
  BY <1>2 DEF Bar

\* One snapshot is written: one task changes its stage.
LEMMA BarWritten ==
  ASSUME LInv, LInv', NEW t \in Tasks, NEW r, disk' = [disk EXCEPT ![t] = r]
  PROVE  /\ Bar' = [Bar EXCEPT ![t] = StageAt(r.status)]
         /\ Bar[t] = StageAt(disk[t].status)
<1>1. Bar = [u \in Tasks |-> StageAt(disk[u].status)]
  BY BarOfDisk
<1>2. Bar' = [u \in Tasks |-> StageAt(disk'[u].status)]
  BY BarAfterwards
<1>3. disk \in [Tasks -> Record \cup {NoTask, Damaged}]
  BY DEF LInv, IInv, Shape, TypeOK
<1>4. \A u \in Tasks : disk'[u] = IF u = t THEN r ELSE disk[u]
  BY <1>3
<1>. QED
  BY <1>1, <1>2, <1>4

----------------------------------------------------------------------------
(* Steps of the life cycle.                                                *)

\* What one step of TaskLifecycle may do.
LifecycleStep == [Lifecycle!Next]_([t \in Tasks |-> StageOf(t)])

LEMMA OneMoves ==
  ASSUME NEW t \in Tasks, NEW to, Bar' = [Bar EXCEPT ![t] = to],
         \/ Bar[t] = "absent"  /\ to = "waiting"
         \/ Bar[t] = "waiting" /\ to \in {"working", "cancelled", "failed"}
         \/ Bar[t] = "working" /\ to \in TerminalStatus
         \/ Bar[t] = "working" /\ to = "waiting" /\ t \in DurableTasks
         \/ Bar[t] = to
  PROVE  LifecycleStep
<1>1. CASE Bar[t] = "absent" /\ to = "waiting"
  <2>1. Lifecycle!Accept(t)
    BY <1>1 DEF Lifecycle!Accept, Lifecycle!Move, Bar
  <2>. QED
    BY <2>1 DEF LifecycleStep, Lifecycle!Next
<1>2. CASE Bar[t] = "waiting" /\ to = "working"
  <2>1. Lifecycle!Begin(t)
    BY <1>2 DEF Lifecycle!Begin, Lifecycle!Move, Bar
  <2>. QED
    BY <2>1 DEF LifecycleStep, Lifecycle!Next
<1>3. CASE Bar[t] = "waiting" /\ to \in {"cancelled", "failed"}
  <2>1. Lifecycle!Drop(t)
    BY <1>3 DEF Lifecycle!Drop, Lifecycle!Move, Bar
  <2>. QED
    BY <2>1 DEF LifecycleStep, Lifecycle!Next
<1>4. CASE Bar[t] = "working" /\ to \in TerminalStatus
  <2>1. Lifecycle!End(t)
    BY <1>4 DEF Lifecycle!End, Lifecycle!Move, Lifecycle!Ended, TerminalStatus, Bar
  <2>. QED
    BY <2>1 DEF LifecycleStep, Lifecycle!Next
<1>5. CASE Bar[t] = "working" /\ to = "waiting" /\ t \in DurableTasks
  <2>1. {t} \in SUBSET {u \in DurableTasks : Bar[u] = "working"}
    BY <1>5
  <2>2. Bar' = [u \in Tasks |-> IF u \in {t} THEN "waiting" ELSE Bar[u]]
    BY <1>5 DEF Bar
  <2>3. Lifecycle!Retry
    BY <2>1, <2>2 DEF Lifecycle!Retry, Bar
  <2>. QED
    BY <2>3 DEF LifecycleStep, Lifecycle!Next
<1>6. CASE Bar[t] = to
  <2>1. Bar' = Bar
    BY <1>6 DEF Bar
  <2>. QED
    BY <2>1 DEF LifecycleStep, Bar
<1>. QED
  BY <1>1, <1>2, <1>3, <1>4, <1>5, <1>6

----------------------------------------------------------------------------
(* The invariant behind the implementation.                                *)

\* Where no write may fail, none does.
LEMMA WritesSucceed ==
  ASSUME MaxWriteFailures = 0, LInv, NEW t \in Tasks, NEW r, NEW ok \in BOOLEAN,
         Persist(t, r, ok)
  PROVE  disk' = [disk EXCEPT ![t] = r] /\ unsaved' = {}
<1>1. writeFailures = 0
  BY DEF LInv, IInv, Shape, TypeOK
<1>2. ok
  BY <1>1 DEF Persist
<1>. QED
  BY <1>2 DEF Persist, LInv, NoFaults

\* Every step keeps the snapshots written and undamaged.
LEMMA NoFaultsStep ==
  ASSUME MaxWriteFailures = 0, MaxDamages = 0, LInv, [Next]_vars
  PROVE  NoFaults'
<1>. USE DEF history, faults, slots, volatile, vars, NoFaults
<1>1. writeFailures = 0 /\ damages = 0 /\ NoFaults
  BY DEF LInv, IInv, Shape, TypeOK
<1>2. disk \in [Tasks -> Record \cup {NoTask, Damaged}]
  BY DEF LInv, IInv, Shape, TypeOK
<1>3. ASSUME UNCHANGED disk, unsaved' \in {{}, unsaved} PROVE NoFaults'
  BY <1>1, <1>3
<1>4. ASSUME NEW t \in Tasks, NEW r, r # Damaged, \E ok \in BOOLEAN : Persist(t, r, ok)
      PROVE  NoFaults'
  BY <1>1, <1>2, <1>4, WritesSucceed
<1>5. CASE Boot \/ Close \/ CloseCancels \/ Exit \/ Crash
  BY <1>3, <1>5 DEF Boot, Close, CloseCancels, Exit, Crash, ForgetMemory
<1>6. CASE ResumeInterrupted
  <2>1. PICK Failing \in SUBSET Resumable :
          /\ writeFailures + Cardinality(Failing) <= MaxWriteFailures
          /\ unsaved' = (unsaved \ Resumable) \cup Failing
          /\ disk' = [t \in Tasks |-> IF t \in Failing THEN disk[t] ELSE mem'[t]]
    BY <1>6 DEF ResumeInterrupted
  <2>2. IsFiniteSet(Failing) /\ Cardinality(Failing) = 0
    <3>1. IsFiniteSet(Failing)
      BY TasksAssumption, FS_Subset DEF Resumable
    <3>2. Cardinality(Failing) \in Nat
      BY <3>1, FS_CardinalityType
    <3>. QED
      BY <1>1, <2>1, <3>1, <3>2
  <2>3. Failing = {}
    BY <2>2, FS_EmptySet
  <2>4. ASSUME NEW t \in Tasks PROVE disk'[t] # Damaged
    <3>1. disk'[t] = mem'[t]
      BY <2>1, <2>3
    <3>2. mem[t] \in Record \cup {NoTask}
      BY DEF LInv, IInv, Shape, TypeOK
    <3>3. mem'[t] = IF t \in Resumable THEN WithStatus(t, "queued") ELSE mem[t]
      BY <1>6 DEF ResumeInterrupted
    <3>4. CASE t \in Resumable
      <4>1. mem[t] \in Record
        BY <3>2, <3>4, RecordFacts, StatusFacts DEF Resumable
      <4>2. WithStatus(t, "queued") \in Record
        BY <4>1, RecordFacts, StatusFacts DEF WithStatus
      <4>. QED
        BY <3>1, <3>3, <3>4, <4>2, RecordFacts
    <3>. QED
      BY <3>1, <3>2, <3>3, <3>4, RecordFacts
  <2>. QED
    BY <1>1, <2>1, <2>3, <2>4
<1>7. ASSUME NEW w \in Waiters, Wait(w) PROVE NoFaults'
  BY <1>3, <1>7 DEF Wait, WaitCheck, WaitRegister, WaitReturn
<1>8. ASSUME NEW t \in Tasks, LoadDamaged(t) \/ LoadFails(t) \/ Damage(t) PROVE NoFaults'
  BY <1>1, <1>8 DEF LoadDamaged, LoadFails, Damage
<1>9. ASSUME NEW t \in Tasks, LoadSnapshot(t) PROVE NoFaults'
  <2>1. disk[t] \in Record
    BY <1>2, <1>9 DEF LoadSnapshot
  <2>2. LoadedAs(t) \in Record
    BY <2>1, RecordFacts, StatusFacts DEF LoadedAs
  <2>. QED
    BY <1>1, <1>2, <1>9, <2>2, RecordFacts DEF LoadSnapshot
<1>10. ASSUME NEW t \in Tasks, DeliverCancel(t) \/ AcquireTotal(t) \/ AcquireHeavy(t)
                  \/ RunnerReturns(t) \/ ReleaseHeavy(t) \/ ReleaseTotal(t)
       PROVE  NoFaults'
  BY <1>3, <1>10 DEF DeliverCancel, AcquireTotal, AcquireHeavy, RunnerReturns,
                     ReleaseHeavy, ReleaseTotal
<1>11. ASSUME NEW t \in Tasks, Submit(t) PROVE NoFaults'
  <2>1. Persist(t, Rec("queued", "none"), TRUE)
    <3>1. ~(writeFailures < MaxWriteFailures)
      BY <1>1
    <3>. QED
      BY <1>11, <3>1, Zenon DEF Submit
  <2>2. Rec("queued", "none") # Damaged
    BY DEF Rec, Damaged
  <2>. QED
    BY <1>4, <2>1, <2>2
<1>12. ASSUME NEW t \in Tasks, Cancel(t) \/ StartRunner(t) \/ Update(t) PROVE NoFaults'
  <2>1. mem[t] \in Record
    BY <1>12 DEF Cancel, StartRunner, Update, LInv, IInv, Shape, TypeOK, Goroutines
  <2>2. PICK s \in Status : \E ok \in BOOLEAN : Persist(t, [mem[t] EXCEPT !.status = s], ok)
    <3>1. CASE Cancel(t) \/ StartRunner(t)
      <4>1. PICK s \in Status : mem' = [mem EXCEPT ![t] = WithStatus(t, s)]
        BY <3>1, StatusFacts DEF Cancel, StartRunner
      <4>2. mem'[t] = WithStatus(t, s)
        BY <4>1 DEF LInv, IInv, Shape, TypeOK
      <4>3. \E ok \in BOOLEAN : Persist(t, mem'[t], ok)
        BY <3>1 DEF Cancel, StartRunner
      <4>. QED
        BY <4>2, <4>3 DEF WithStatus
    <3>2. CASE Update(t)
      <4>1. [mem[t] EXCEPT !.status = mem[t].status] = mem[t] /\ mem[t].status \in Status
        BY <2>1 DEF Record
      <4>. QED
        BY <3>2, <4>1 DEF Update
    <3>. QED
      BY <1>12, <3>1, <3>2
  <2>3. [mem[t] EXCEPT !.status = s] # Damaged
    BY <2>1, RecordFacts DEF Record
  <2>. QED
    BY <1>4, <2>2, <2>3
<1>13. ASSUME NEW t \in Tasks, StopWaiting(t) \/ StartCancelled(t) PROVE NoFaults'
  <2>1. ~Terminal(mem[t]) /\ FinishCancelled(t)
    BY <1>13 DEF StopWaiting, StartCancelled, LInv, IInv, Shape, Goroutines
  <2>2. \E ok \in BOOLEAN : Persist(t, Rec("cancelled", "cancelled"), ok)
    BY <2>1 DEF FinishCancelled, LInv, IInv, Shape, TypeOK
  <2>3. Rec("cancelled", "cancelled") # Damaged
    BY DEF Rec, Damaged
  <2>. QED
    BY <1>4, <2>2, <2>3
<1>14. ASSUME NEW t \in Tasks, RecordResult(t) PROVE NoFaults'
  <2>. DEFINE r == Rec(FinalStatus(t), outcome[t].kind)
  <2>1. r # Damaged
    BY <1>14, FinalStatusFacts, RecordFacts, StatusFacts
       DEF RecordResult, LInv, IInv, Shape, TypeOK, Goroutines
  <2>2. \E ok \in BOOLEAN : Persist(t, r, ok)
    BY <1>14 DEF RecordResult, LInv, IInv, Shape, TypeOK
  <2>. HIDE DEF r
  <2>. QED
    BY <1>4, <2>1, <2>2
<1>15. CASE UNCHANGED vars
  BY <1>3, <1>15
<1>. QED
  BY <1>5, <1>6, <1>7, <1>8, <1>9, <1>10, <1>11, <1>12, <1>13, <1>14, <1>15
  DEF Next, Start, Request, Run, Process

\* Every step keeps the runners inside begun tasks.
LEMMA ExecutingStep ==
  ASSUME LInv, [Next]_vars
  PROVE  Executing'
<1>. USE StatusFacts DEF history, faults, slots, volatile, vars, Executing, LInv, IInv, Shape, TypeOK
<1>1. ASSUME UNCHANGED <<mem, pc>> \/ \A t \in Tasks : pc'[t] \notin {"running", "finishing"}
      PROVE  Executing'
  BY <1>1
<1>2. ASSUME NEW t \in Tasks, \A u \in Tasks \ {t} : mem'[u] = mem[u] /\ pc'[u] = pc[u],
             pc'[t] \notin {"running", "finishing"}
      PROVE  Executing'
  BY <1>2
<1>3. CASE Boot \/ Close \/ CloseCancels \/ Exit \/ Crash \/ ResumeInterrupted
  BY <1>3, <1>1 DEF Boot, Close, CloseCancels, Exit, Crash, ForgetMemory, ResumeInterrupted
<1>4. ASSUME NEW w \in Waiters, Wait(w) PROVE Executing'
  BY <1>1, <1>4 DEF Wait, WaitCheck, WaitRegister, WaitReturn
<1>5. ASSUME NEW t \in Tasks, LoadDamaged(t) \/ LoadFails(t) \/ Damage(t) \/ Update(t)
                 \/ DeliverCancel(t)
      PROVE  Executing'
  BY <1>1, <1>5 DEF LoadDamaged, LoadFails, ForgetMemory, Damage, Update, DeliverCancel
<1>6. ASSUME NEW t \in Tasks, AcquireTotal(t) \/ AcquireHeavy(t) \/ ReleaseHeavy(t)
                 \/ ReleaseTotal(t)
      PROVE  Executing'
  BY <1>2, <1>6 DEF AcquireTotal, AcquireHeavy, ReleaseHeavy, ReleaseTotal
<1>7. ASSUME NEW t \in Tasks, LoadSnapshot(t) PROVE Executing'
  BY <1>1, <1>7 DEF LoadSnapshot, NoProcess
<1>8. ASSUME NEW t \in Tasks, Submit(t) PROVE Executing'
  <2>1. CASE UNCHANGED <<mem, pc>>
    BY <1>1, <2>1
  <2>2. CASE mem' = [mem EXCEPT ![t] = Rec("queued", "none")] /\ pc' = [pc EXCEPT ![t] = "wantTotal"]
    BY <1>2, <2>2
  <2>. QED
    BY <1>8, <2>1, <2>2 DEF Submit
<1>9. ASSUME NEW t \in Tasks, Cancel(t) PROVE Executing'
  <2>1. mem[t] \in Record
    BY <1>9 DEF Cancel
  <2>2. mem'[t].status = "cancelling" /\ \A u \in Tasks \ {t} : mem'[u] = mem[u]
    BY <1>9, <2>1 DEF Cancel, WithStatus, Record
  <2>. QED
    BY <1>9, <2>2 DEF Cancel
<1>10. ASSUME NEW t \in Tasks, StopWaiting(t) \/ StartCancelled(t) \/ RecordResult(t)
       PROVE  Executing'
  BY <1>2, <1>10 DEF StopWaiting, StartCancelled, RecordResult, FinishCancelled, AfterRun
<1>11. ASSUME NEW t \in Tasks, StartRunner(t) PROVE Executing'
  <2>1. mem[t] \in Record
    BY <1>11 DEF StartRunner, Goroutines
  <2>2. mem'[t].status = "running" /\ \A u \in Tasks \ {t} : mem'[u] = mem[u] /\ pc'[u] = pc[u]
    BY <1>11, <2>1 DEF StartRunner, WithStatus, Record
  <2>. QED
    BY <2>2
<1>12. ASSUME NEW t \in Tasks, RunnerReturns(t) PROVE Executing'
  BY <1>12 DEF RunnerReturns
<1>13. CASE UNCHANGED vars
  BY <1>1, <1>13
<1>. QED
  BY <1>3, <1>4, <1>5, <1>6, <1>7, <1>8, <1>9, <1>10, <1>11, <1>12, <1>13
  DEF Next, Start, Request, Run, Process

LEMMA LInvStep ==
  ASSUME MaxWriteFailures = 0, MaxDamages = 0, LInv, [Next]_vars
  PROVE  LInv'
<1>1. IInv'
  BY ShapeStep, KnownStep, SlotsStep DEF LInv, IInv
<1>2. WriteThrough'
  BY RecordStep DEF LInv
<1>. QED
  BY <1>1, <1>2, NoFaultsStep, ExecutingStep DEF LInv

----------------------------------------------------------------------------
(* Every step is one of the life cycle's, or none.                         *)

LEMMA OneWritten ==
  ASSUME LInv, LInv', NEW t \in Tasks, NEW r \in Record,
         disk' = [disk EXCEPT ![t] = r],
         \/ disk[t] = NoTask /\ r.status = "queued"
         \/ r.status = disk[t].status
         \/ disk[t].status \in Pending \cup {"interrupted"} /\ r.status \in {"running", "cancelling"}
         \/ disk[t].status \in Pending \cup {"interrupted"} /\ r.status \in {"cancelled", "failed"}
         \/ disk[t].status \in {"running", "cancelling"} /\ r.status \in TerminalStatus
         \/ disk[t].status \in Pending /\ r.status = "interrupted" /\ t \in DurableTasks
  PROVE  LifecycleStep
<1>. DEFINE to == StageAt(r.status)
<1>1. Bar' = [Bar EXCEPT ![t] = to] /\ Bar[t] = StageAt(disk[t].status)
  BY BarWritten
<1>2. NoTask.status = "none"
  BY DEF NoTask
<1>3. \/ Bar[t] = "absent"  /\ to = "waiting"
      \/ Bar[t] = "waiting" /\ to \in {"working", "cancelled", "failed"}
      \/ Bar[t] = "working" /\ to \in TerminalStatus
      \/ Bar[t] = "working" /\ to = "waiting" /\ t \in DurableTasks
      \/ Bar[t] = to
  <2>1. CASE disk[t] = NoTask /\ r.status = "queued"
    BY <1>1, <1>2, <2>1, StageFacts
  <2>2. CASE r.status = disk[t].status
    BY <1>1, <2>2
  <2>3. CASE disk[t].status \in Pending \cup {"interrupted"} /\ r.status \in {"running", "cancelling"}
    BY <1>1, <2>3, StageFacts
  <2>4. CASE disk[t].status \in Pending \cup {"interrupted"} /\ r.status \in {"cancelled", "failed"}
    BY <1>1, <2>4, StageFacts DEF TerminalStatus
  <2>5. CASE disk[t].status \in {"running", "cancelling"} /\ r.status \in TerminalStatus
    BY <1>1, <2>5, StageFacts
  <2>6. CASE disk[t].status \in Pending /\ r.status = "interrupted" /\ t \in DurableTasks
    BY <1>1, <2>6, StageFacts
  <2>. QED
    BY <2>1, <2>2, <2>3, <2>4, <2>5, <2>6
<1>. HIDE DEF to
<1>. QED
  BY <1>1, <1>3, OneMoves

LEMMA LifecycleOfStep ==
  ASSUME MaxWriteFailures = 0, MaxDamages = 0, LInv, [Next]_vars
  PROVE  LifecycleStep
<1>0. LInv'
  BY LInvStep
<1>. USE DEF history, faults, slots, volatile, vars
<1>1. ASSUME UNCHANGED disk PROVE LifecycleStep
  <2>1. Bar' = Bar
    BY <1>0, <1>1, BarOfDisk, BarAfterwards
  <2>. QED
    BY <2>1 DEF Bar, LifecycleStep
<1>2. writeFailures = 0 /\ damages = 0 /\ NoFaults
  BY DEF LInv, IInv, Shape, TypeOK
<1>3. ASSUME NEW t \in Tasks, pc[t] # "idle" \/ mem[t] # NoTask
      PROVE  mem[t] \in Record /\ disk[t] = mem[t]
  <2>1. mem[t] # NoTask /\ mem \in [Tasks -> Record \cup {NoTask}]
    BY <1>3 DEF LInv, IInv, Shape, TypeOK, Goroutines
  <2>. QED
    BY <1>2, <2>1 DEF LInv, WriteThrough, NoFaults
<1>4. CASE Boot \/ Close \/ CloseCancels \/ Exit \/ Crash
  BY <1>1, <1>4 DEF Boot, Close, CloseCancels, Exit, Crash
<1>5. CASE ResumeInterrupted
  <2>1. ASSUME NEW t \in Tasks PROVE StageAt(disk'[t].status) = StageAt(disk[t].status)
    <3>1. mem' = [u \in Tasks |-> IF u \in Resumable THEN WithStatus(u, "queued") ELSE mem[u]]
      BY <1>5 DEF ResumeInterrupted
    <3>2. disk[t] = mem[t] /\ disk'[t] \in {disk[t], mem'[t]}
      BY <1>5 DEF ResumeInterrupted
    <3>3. CASE t \in Resumable
      <4>1. mem[t].status = "interrupted"
        BY <3>3 DEF Resumable
      <4>2. mem[t] \in Record
        BY <4>1 DEF NoTask, LInv, IInv, Shape, TypeOK
      <4>3. mem'[t].status = "queued"
        BY <3>1, <3>3, <4>2 DEF WithStatus, Record
      <4>. QED
        BY <3>2, <4>1, <4>3, StageFacts
    <3>. QED
      BY <3>1, <3>2, <3>3
  <2>2. Bar' = Bar
    BY <1>0, <2>1, BarOfDisk, BarAfterwards
  <2>. QED
    BY <2>2 DEF Bar, LifecycleStep
<1>6. ASSUME NEW w \in Waiters, Wait(w) PROVE LifecycleStep
  BY <1>1, <1>6 DEF Wait, WaitCheck, WaitRegister, WaitReturn
<1>7. ASSUME NEW t \in Tasks, LoadDamaged(t) \/ LoadFails(t) \/ Damage(t) PROVE LifecycleStep
  BY <1>2, <1>7 DEF LoadDamaged, LoadFails, Damage, NoFaults
<1>8. ASSUME NEW t \in Tasks, LoadSnapshot(t) PROVE LifecycleStep
  <2>1. disk[t] \in Record
    BY <1>8 DEF LoadSnapshot, LInv, IInv, Shape, TypeOK
  <2>2. CASE disk[t].status \notin Pending
    BY <1>1, <1>8, <2>2 DEF LoadSnapshot, LoadedAs, LInv, IInv, Shape, TypeOK
  <2>3. CASE disk[t].status \in Pending /\ t \in DurableTasks
    <3>. DEFINE r == [disk[t] EXCEPT !.status = "interrupted"]
    <3>1. r \in Record /\ r.status = "interrupted"
      BY <2>1, StatusFacts DEF Record
    <3>2. disk' = [disk EXCEPT ![t] = r]
      BY <1>8, <2>3 DEF LoadSnapshot, LoadedAs
    <3>. HIDE DEF r
    <3>. QED
      BY <1>0, <2>3, <3>1, <3>2, OneWritten
  <2>4. CASE disk[t].status \in Pending /\ t \notin DurableTasks
    <3>. DEFINE r == Rec("failed", "restarted")
    <3>1. r \in Record /\ r.status = "failed"
      BY RecordFacts, StatusFacts DEF TerminalStatus
    <3>2. disk' = [disk EXCEPT ![t] = r]
      BY <1>8, <2>4 DEF LoadSnapshot, LoadedAs
    <3>. HIDE DEF r
    <3>. QED
      BY <1>0, <2>4, <3>1, <3>2, OneWritten
  <2>. QED
    BY <2>2, <2>3, <2>4
<1>9. ASSUME NEW t \in Tasks, DeliverCancel(t) \/ AcquireTotal(t) \/ AcquireHeavy(t)
                 \/ RunnerReturns(t) \/ ReleaseHeavy(t) \/ ReleaseTotal(t)
      PROVE  LifecycleStep
  BY <1>1, <1>9 DEF DeliverCancel, AcquireTotal, AcquireHeavy, RunnerReturns,
                    ReleaseHeavy, ReleaseTotal
<1>10. ASSUME NEW t \in Tasks, Submit(t) PROVE LifecycleStep
  <2>. DEFINE r == Rec("queued", "none")
  <2>1. r \in Record /\ r.status = "queued"
    BY RecordFacts, StatusFacts
  <2>2. Persist(t, r, TRUE) /\ t \notin accepted
    <3>1. ~(writeFailures < MaxWriteFailures)
      BY <1>2
    <3>. QED
      BY <1>10, <3>1, Zenon DEF Submit
  <2>3. disk[t] = NoTask
    BY <2>2 DEF LInv, IInv, Known
  <2>. HIDE DEF r
  <2>4. disk' = [disk EXCEPT ![t] = r]
    BY <2>2 DEF Persist
  <2>. QED
    BY <1>0, <2>1, <2>3, <2>4, OneWritten
<1>11. ASSUME NEW t \in Tasks, Cancel(t) \/ StartRunner(t) PROVE LifecycleStep
  <2>1. mem[t] \in Record /\ disk[t] = mem[t] /\ ~Terminal(mem[t])
    BY <1>3, <1>11 DEF Cancel, StartRunner, LInv, IInv, Shape, Goroutines
  <2>2. disk[t].status \in Pending \cup {"interrupted"}
    BY <2>1, StatusFacts DEF Terminal, Record
  <2>3. PICK s \in {"running", "cancelling"} : mem' = [mem EXCEPT ![t] = WithStatus(t, s)]
    BY <1>11 DEF Cancel, StartRunner
  <2>4. mem'[t] \in Record /\ mem'[t].status = s
    BY <2>1, <2>3, StatusFacts DEF WithStatus, Record, LInv, IInv, Shape, TypeOK
  <2>5. \E ok \in BOOLEAN : Persist(t, mem'[t], ok)
    BY <1>11 DEF Cancel, StartRunner
  <2>6. disk' = [disk EXCEPT ![t] = mem'[t]]
    BY <2>5, WritesSucceed
  <2>. QED
    BY <1>0, <2>2, <2>4, <2>6, OneWritten
<1>12. ASSUME NEW t \in Tasks, Update(t) PROVE LifecycleStep
  <2>1. disk[t] = mem[t]
    BY <1>3, <1>12 DEF Update
  <2>2. disk' = [disk EXCEPT ![t] = mem[t]]
    BY <1>12, WritesSucceed DEF Update
  <2>. QED
    BY <1>1, <2>1, <2>2 DEF LInv, IInv, Shape, TypeOK
<1>13. ASSUME NEW t \in Tasks, StopWaiting(t) \/ StartCancelled(t) PROVE LifecycleStep
  <2>. DEFINE r == Rec("cancelled", "cancelled")
  <2>1. r \in Record /\ r.status = "cancelled"
    BY RecordFacts, StatusFacts DEF TerminalStatus
  <2>2. mem[t] \in Record /\ disk[t] = mem[t] /\ ~Terminal(mem[t]) /\ FinishCancelled(t)
    BY <1>3, <1>13 DEF StopWaiting, StartCancelled, LInv, IInv, Shape, Goroutines
  <2>3. disk[t].status \in Pending \cup {"interrupted"}
    BY <2>2, StatusFacts DEF Terminal, Record
  <2>4. \E ok \in BOOLEAN : Persist(t, r, ok)
    BY <2>2 DEF FinishCancelled, LInv, IInv, Shape, TypeOK
  <2>. HIDE DEF r
  <2>5. disk' = [disk EXCEPT ![t] = r]
    BY <2>4, WritesSucceed
  <2>. QED
    BY <1>0, <2>1, <2>3, <2>5, OneWritten
<1>14. ASSUME NEW t \in Tasks, RecordResult(t) PROVE LifecycleStep
  <2>. DEFINE r == Rec(FinalStatus(t), outcome[t].kind)
  <2>1. r \in Record /\ r.status \in TerminalStatus
    BY <1>14, FinalStatusFacts, RecordFacts, StatusFacts
       DEF RecordResult, LInv, IInv, Shape, TypeOK, Goroutines
  <2>2. disk[t].status \in {"running", "cancelling"}
    BY <1>3, <1>14 DEF RecordResult, LInv, Executing
  <2>3. \E ok \in BOOLEAN : Persist(t, r, ok)
    BY <1>14 DEF RecordResult, LInv, IInv, Shape, TypeOK
  <2>. HIDE DEF r
  <2>4. disk' = [disk EXCEPT ![t] = r]
    BY <2>3, WritesSucceed
  <2>. QED
    BY <1>0, <2>1, <2>2, <2>4, OneWritten
<1>15. CASE UNCHANGED vars
  BY <1>1, <1>15
<1>. QED
  BY <1>4, <1>5, <1>6, <1>7, <1>8, <1>9, <1>10, <1>11, <1>12, <1>13, <1>14, <1>15
  DEF Next, Start, Request, Run, Process

\* manager.go keeps the promise of TaskLifecycle while its snapshots can be
\* written and stay intact, over any number of crashes, stops and restarts.
THEOREM LifecycleImplemented ==
  ASSUME MaxWriteFailures = 0, MaxDamages = 0
  PROVE  Spec => ImplementsLifecycle
<1>1. Init => LInv
  <2>1. Init => IInv
    BY ShapeInit, SlotsInit DEF IInv, Init, Known
  <2>. QED
    BY <2>1, RecordFacts DEF LInv, WriteThrough, Executing, NoFaults, Init
<1>2. Init => Lifecycle!Init
  <2>1. Init => Bar = [t \in Tasks |-> StageAt(disk[t].status)] /\ \A t \in Tasks : disk[t].status = "none"
    BY <1>1, BarOfDisk DEF Init, NoTask
  <2>2. Init => Bar = [t \in Tasks |-> "absent"]
    BY <2>1, StageFacts
  <2>. QED
    BY <2>2 DEF Lifecycle!Init, Bar
<1>3. LInv /\ [Next]_vars => LInv'
  BY LInvStep
<1>4. LInv /\ [Next]_vars => [Lifecycle!Next]_([t \in Tasks |-> StageOf(t)])
  BY LifecycleOfStep DEF LifecycleStep
<1>. QED
  BY <1>1, <1>2, <1>3, <1>4, PTL DEF Spec, ImplementsLifecycle, Lifecycle!Spec
=============================================================================
