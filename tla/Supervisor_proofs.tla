-------------------------- MODULE Supervisor_proofs --------------------------
(***************************************************************************)
(* Proofs about Supervisor, for any set of versions and any limits.        *)
(***************************************************************************)
EXTENDS Supervisor, WellFoundedInduction, TLAPS

\* While a pair may still be started, the failures have not reached the limit.
FailuresBelow ==
    phase \in Phases \ {"judging", "restoring", "restored", "saved", "counted"}
        => failures < MaxFailures

\* A process of the pair exists only while the supervisor is inside runPair or
\* has been killed; before the boot script has run there is neither.
NobodyBeforeBoot ==
    ~booted => phase = "off" /\ broker = "none" /\ frontend = "none"

\* A saved verdict leaves nothing pending, and a roll-back that has begun is
\* itself what will settle the matter.
Settled ==
    settled => versions.good /\ phase \notin {"restoring", "restored"}

\* What the previous binary is, at each step of an install: the one that is
\* about to be replaced, or the one that was.
SavedPrevious ==
    ~spoiled =>
        IF install.step = "saved" /\ installed # install.target
        THEN previous = installed
        ELSE previous = replaced

\* The installed binary never disappears: there is nothing to put back only
\* while there is nothing to replace.
PreviousInv ==
    /\ installed = NoBinary => previous = NoBinary
    /\ phase = "restoring" => previous # NoBinary
    /\ install.step # "idle" => install.target \in Binaries
    /\ SavedPrevious

IInv == TypeOK /\ FailuresBelow /\ PairGone /\ NobodyBeforeBoot /\ Settled /\ PreviousInv

----------------------------------------------------------------------------
\* The tuples of variables and the sets of phases stand for what they list.
USE DEF files, process, run, scripts, history, Phases, Verdict

\* The capped delay stays within the cap.
LEMMA LowerBound ==
    ASSUME NEW a \in Nat \ {0}, NEW b \in Nat \ {0}
    PROVE  Lower(a, b) \in 1..b
  BY DEF Lower

\* What the types of the initial and the forgotten values rest on.
LEMMA Values ==
    /\ NoBinary \in Version /\ Binaries \subseteq Version
    /\ Blank \in VersionState
    /\ Idle \in [step : {"idle", "saved", "deployed"}, target : Version]
    /\ 0 \in 0..MaxFailures /\ 0 < MaxFailures /\ 1 \in 1..MaxDelay /\ MaxFailures \in Nat
  BY BinariesAssumption, LimitsAssumption DEF Version, VersionState, Blank, Idle

\* Before the first start there is nothing to protect.
LEMMA InitInv == Init => IInv
<1> SUFFICES ASSUME Init PROVE IInv
  OBVIOUS
<1>1. TypeOK
  BY Values DEF Init, TypeOK
<1>2. FailuresBelow /\ PairGone /\ NobodyBeforeBoot /\ Settled
  BY Values DEF Init, FailuresBelow, PairGone, NobodyBeforeBoot, Settled
<1>3. PreviousInv
  BY DEF Init, PreviousInv, SavedPrevious, Idle
<1>4. QED  BY <1>1, <1>2, <1>3 DEF IInv

\* Every action keeps the types and the bound on the failures.
LEMMA TypeStep ==
    ASSUME TypeOK, FailuresBelow, NobodyBeforeBoot, [Next]_vars
    PROVE  TypeOK' /\ FailuresBelow'
<1> USE Values DEF TypeOK, FailuresBelow, ForgetProcess, StopPair
<1>1. CASE Installer
  <2>1. ASSUME NEW b \in Binaries, InstallSave(b)
        PROVE  TypeOK' /\ FailuresBelow'
    <3>1. installed \in Version /\ b \in Version
      OBVIOUS
    <3>2. install' \in [step : {"idle", "saved", "deployed"}, target : Version]
      BY <2>1, <3>1 DEF InstallSave, KeepPrevious
    <3>3. previous' \in Version /\ spoiled' \in BOOLEAN
      BY <2>1, <3>1 DEF InstallSave, KeepPrevious
    <3>4. UNCHANGED <<installed, versions, blocked, socket, process, run, booted,
                      replaced, settled>>
      BY <2>1 DEF InstallSave
    <3>5. QED  BY <3>2, <3>3, <3>4
  <2>2. CASE InstallDeploy
    BY <2>2 DEF InstallDeploy
  <2>3. CASE InstallCommit
    <3>1. versions' \in VersionState
      BY <2>3 DEF InstallCommit, VersionState
    <3>2. settled' \in BOOLEAN
      BY <2>3 DEF InstallCommit
    <3>3. QED  BY <2>3, <3>1, <3>2 DEF InstallCommit
  <2>4. CASE InstallAbort
    BY <2>4 DEF InstallAbort
  <2>5. QED  BY <1>1, <2>1, <2>2, <2>3, <2>4 DEF Installer
<1>2. CASE Device
  <2>1. CASE ServiceStart
    <3>1. booted' \in BOOLEAN
      BY <2>1 DEF ServiceStart
    <3>2. phase' \in {phase, "top"}
      BY <2>1 DEF ServiceStart
    <3>3. FailuresBelow'
      <4>1. phase = "off" \/ phase' = phase
        BY <2>1 DEF ServiceStart, NobodyBeforeBoot
      <4>2. failures' = failures
        BY <2>1 DEF ServiceStart
      <4>3. QED  BY <4>1, <4>2, <3>2
    <3>4. QED  BY <2>1, <3>1, <3>2, <3>3 DEF ServiceStart
  <2>2. CASE Reboot
    BY <2>2 DEF Reboot
  <2>3. CASE Kill
    BY <2>3, ZenonT(30) DEF Kill
  <2>4. CASE Stop
    BY <2>4 DEF Stop
  <2>5. QED  BY <1>2, <2>1, <2>2, <2>3, <2>4 DEF Device
<1>3. CASE Pair
  <2>1. CASE StartBroker
    <3>1. pair' \in Version /\ marked' \in BOOLEAN
      BY <2>1 DEF StartBroker
    <3>2. QED  BY <2>1, <3>1 DEF StartBroker
  <2>6. CASE StartFails
    <3>1. marked' \in BOOLEAN
      BY <2>6 DEF StartFails
    <3>2. QED  BY <2>6, <3>1 DEF StartFails
  <2>7. CASE StartFrontend
    BY <2>7 DEF StartFrontend
  <2>2. CASE BrokerListens \/ BrokerExits \/ FrontendExits
    <3>1. socket' \in BOOLEAN
      BY <2>2 DEF BrokerListens, BrokerExits, FrontendExits
    <3>2. /\ broker' \in {"none", "starting", "listening", "dead"}
          /\ frontend' \in {"none", "alive", "dead"}
      BY <2>2 DEF BrokerListens, BrokerExits, FrontendExits
    <3>3. UNCHANGED <<installed, previous, versions, blocked, process, pair, uptime,
                      marked, scripts, history>>
      BY <2>2 DEF BrokerListens, BrokerExits, FrontendExits
    <3>4. QED  BY <3>1, <3>2, <3>3
  <2>3. CASE PairFails \/ PairEnds
    BY <2>3, ZenonT(30) DEF PairFails, PairEnds
  <2>4. CASE Age \/ MarkRead
    BY <2>4 DEF Age, MarkRead
  <2>5. CASE MarkWrite
    <3>1. versions' \in VersionState
      <4>1. [held EXCEPT !.candidate = NoBinary, !.good = TRUE] \in VersionState
        BY DEF VersionState
      <4>2. QED  BY <2>5, <4>1 DEF MarkWrite
    <3>2. marked' \in BOOLEAN /\ settled' \in BOOLEAN
      BY <2>5 DEF MarkWrite
    <3>3. QED  BY <2>5, <3>1, <3>2 DEF MarkWrite
  <2>8. QED  BY <1>3, <2>1, <2>2, <2>3, <2>4, <2>5, <2>6, <2>7 DEF Pair
<1>4. CASE Judgement
  <2>1. CASE CountFailure
    BY <2>1 DEF CountFailure
  <2>2. CASE NothingPending
    BY <2>2 DEF NothingPending
  <2>3. CASE RollbackRead \/ RollbackRestore \/ RollbackFails
    BY <2>3 DEF RollbackRead, RollbackRestore, RollbackFails
  <2>4. CASE RollbackSave
    <3>1. versions' \in VersionState
      BY <2>4 DEF RollbackSave, RolledBack, VersionState
    <3>2. QED  BY <2>4, <3>1 DEF RollbackSave
  <2>5. CASE Reexec \/ Again
    BY <2>5 DEF Reexec, Again
  <2>6. CASE GiveUp
    BY <2>6, ZenonT(30) DEF GiveUp
  <2>7. CASE Backoff
    <3>1. Lower(2 * delay, MaxDelay) \in 1..MaxDelay
      BY LowerBound, LimitsAssumption
    <3>2. QED  BY <2>7, <3>1 DEF Backoff
  <2>8. QED  BY <1>4, <2>1, <2>2, <2>3, <2>4, <2>5, <2>6, <2>7 DEF Judgement
<1>5. CASE UNCHANGED vars
  BY <1>5 DEF vars
<1>6. QED  BY <1>1, <1>2, <1>3, <1>4, <1>5 DEF Next

\* The pair is gone whenever the supervisor is past it, and at boot.
LEMMA PairStep ==
    ASSUME TypeOK, PairGone, NobodyBeforeBoot, [Next]_vars
    PROVE  PairGone' /\ NobodyBeforeBoot'
<1> USE DEF PairGone, NobodyBeforeBoot, ForgetProcess, StopPair
<1>1. CASE Installer
  BY <1>1 DEF Installer, InstallSave, KeepPrevious, InstallDeploy, InstallCommit, InstallAbort
<1>2. CASE Device
  BY <1>2 DEF Device, ServiceStart, Reboot, Kill, Stop
<1>3. CASE Pair
  BY <1>3 DEF Pair, StartBroker, StartFails, BrokerListens, BrokerExits, FrontendExits,
              StartFrontend, PairFails, PairEnds, Age, MarkRead, MarkWrite
<1>4. CASE Judgement
  BY <1>4 DEF Judgement, CountFailure, NothingPending, RollbackRead, RollbackRestore,
              RollbackSave, Reexec, RollbackFails, GiveUp, Backoff, Again
<1>5. CASE UNCHANGED vars
  BY <1>5 DEF vars
<1>6. QED  BY <1>1, <1>2, <1>3, <1>4, <1>5 DEF Next

\* Only the supervisor settles, and it clears what is pending as it does.
LEMMA SettledStep ==
    ASSUME TypeOK, Settled, [Next]_vars
    PROVE  Settled'
<1> USE DEF Settled, ForgetProcess, StopPair
<1>1. CASE Installer
  BY <1>1 DEF Installer, InstallSave, KeepPrevious, InstallDeploy, InstallCommit, InstallAbort
<1>2. CASE Device
  BY <1>2 DEF Device, ServiceStart, Reboot, Kill, Stop
<1>3. CASE Pair
  BY <1>3 DEF Pair, StartBroker, StartFails, BrokerListens, BrokerExits, FrontendExits,
              StartFrontend, PairFails, PairEnds, Age, MarkRead, MarkWrite, TypeOK, VersionState
<1>4. CASE Judgement
  <2>1. CASE RollbackRead
    BY <2>1 DEF RollbackRead, PendingCandidate
  <2>2. CASE RollbackSave
    BY <2>2 DEF RollbackSave, RolledBack, TypeOK, VersionState
  <2>3. CASE CountFailure \/ NothingPending \/ RollbackRestore \/ Reexec
             \/ RollbackFails \/ GiveUp \/ Backoff \/ Again
    BY <2>3 DEF CountFailure, NothingPending, RollbackRestore, Reexec,
                RollbackFails, GiveUp, Backoff, Again
  <2>4. QED  BY <1>4, <2>1, <2>2, <2>3 DEF Judgement
<1>5. CASE UNCHANGED vars
  BY <1>5 DEF vars
<1>6. QED  BY <1>1, <1>2, <1>3, <1>4, <1>5 DEF Next

\* Whatever overlaps an install, the previous binary stays the right one.
LEMMA PreviousStep ==
    ASSUME TypeOK, PreviousInv, [Next]_vars
    PROVE  PreviousInv'
<1> USE BinariesAssumption DEF PreviousInv, SavedPrevious, ForgetProcess, StopPair, Idle
<1>1. CASE Installer
  <2>1. ASSUME NEW b \in Binaries, InstallSave(b)
        PROVE  PreviousInv'
    <3>1. b # NoBinary /\ install.step = "idle"
      BY <2>1 DEF InstallSave
    <3>2. install'.step = "saved" /\ install'.target = b /\ previous' \in {previous, installed}
      BY <2>1 DEF InstallSave, KeepPrevious
    <3>3. UNCHANGED <<installed, phase, replaced>>
      BY <2>1 DEF InstallSave
    <3>4. previous' = NoBinary => previous = NoBinary
      BY <2>1 DEF InstallSave, KeepPrevious
    <3>5. SavedPrevious'
      <4>1. CASE installed \notin {NoBinary, b}
        BY <2>1, <3>2, <3>3, <4>1 DEF InstallSave, KeepPrevious
      <4>2. CASE installed = b
        <5>1. ~spoiled' => ~spoiled /\ previous' = previous
          BY <2>1, <3>1, <4>2 DEF InstallSave, KeepPrevious, TypeOK
        <5>2. QED  BY <3>1, <3>2, <3>3, <4>2, <5>1
      <4>3. CASE installed = NoBinary
        <5>1. ~spoiled' => ~spoiled /\ previous' = previous
          BY <2>1, <3>1, <4>3 DEF InstallSave, KeepPrevious, TypeOK
        <5>2. QED  BY <3>1, <3>2, <3>3, <4>3, <5>1
      <4>4. QED  BY <4>1, <4>2, <4>3
    <3>6. QED  BY <3>1, <3>2, <3>3, <3>4, <3>5
  <2>2. CASE InstallDeploy
    BY <2>2 DEF InstallDeploy, TypeOK
  <2>3. CASE InstallCommit \/ InstallAbort
    BY <2>3 DEF InstallCommit, InstallAbort, TypeOK
  <2>4. QED  BY <1>1, <2>1, <2>2, <2>3 DEF Installer
<1>2. CASE Device
  <2>1. CASE Reboot
    <3>1. install'.step = "idle"
      BY <2>1 DEF Reboot
    <3>2. CASE ~spoiled'
      <4>1. install.step = "idle" /\ ~spoiled
        BY <2>1, <3>2 DEF Reboot
      <4>2. QED  BY <2>1, <3>1, <4>1 DEF Reboot
    <3>3. QED  BY <2>1, <3>1, <3>2 DEF Reboot
  <2>2. CASE ServiceStart \/ Kill \/ Stop
    BY <2>2 DEF ServiceStart, Kill, Stop
  <2>3. QED  BY <1>2, <2>1, <2>2 DEF Device
<1>3. CASE Pair
  BY <1>3 DEF Pair, StartBroker, StartFails, BrokerListens, BrokerExits, FrontendExits,
              StartFrontend, PairFails, PairEnds, Age, MarkRead, MarkWrite
<1>4. CASE Judgement
  <2>1. CASE RollbackRestore
    BY <2>1 DEF RollbackRestore
  <2>2. CASE RollbackRead
    BY <2>2 DEF RollbackRead
  <2>3. CASE CountFailure \/ NothingPending \/ RollbackSave \/ Reexec
             \/ RollbackFails \/ GiveUp \/ Backoff \/ Again
    BY <2>3 DEF CountFailure, NothingPending, RollbackSave, Reexec,
                RollbackFails, GiveUp, Backoff, Again
  <2>4. QED  BY <1>4, <2>1, <2>2, <2>3 DEF Judgement
<1>5. CASE UNCHANGED vars
  BY <1>5 DEF vars
<1>6. QED  BY <1>1, <1>2, <1>3, <1>4, <1>5 DEF Next

----------------------------------------------------------------------------
\* The inductive invariant: each of its parts is about a part of the state
\* that different processes write (the supervisor, the installer, the boot
\* script), and none is inductive without the types.
THEOREM IInvCorrect == Spec => []IInv
<1>1. IInv /\ [Next]_vars => IInv'
  BY TypeStep, PairStep, SettledStep, PreviousStep DEF IInv
<1>2. QED  BY <1>1, InitInv, PTL DEF Spec

\* Every variable keeps its type; the failures never pass the limit.
THEOREM TypeCorrect == Spec => []TypeOK
<1>1. IInv => TypeOK  BY DEF IInv
<1>2. QED  BY <1>1, IInvCorrect, PTL

\* No process of an old pair is left when a new one is started, however the
\* supervisor was killed, stopped or restarted before.
THEOREM PairGoneCorrect == Spec => []PairGone
<1>1. IInv => PairGone  BY DEF IInv
<1>2. QED  BY <1>1, IInvCorrect, PTL

\* Nothing is rolled back after a verdict was saved, until the next install.
THEOREM VerdictStaysCorrect == Spec => VerdictStays
<1>1. IInv /\ [Next]_vars => [settled => ~(phase = "restoring" /\ phase' = "restored")]_vars
  BY DEF IInv, Settled
<1>2. QED  BY <1>1, IInvCorrect, PTL DEF Spec, VerdictStays

\* A roll-back that no install overlaps or has spoiled puts back what the upgrade
\* replaced.
THEOREM RestoresReplacedCorrect == Spec => RestoresReplaced
<1>1. ASSUME IInv, [Next]_vars, phase = "restoring", phase' = "restored",
             install.step = "idle", ~spoiled
      PROVE  installed' = replaced
  <2>1. previous = replaced
    BY <1>1 DEF IInv, PreviousInv, SavedPrevious
  <2>2. RollbackRestore
    BY <1>1 DEF Next, Installer, Device, Pair, Judgement, vars, ForgetProcess,
       InstallSave, KeepPrevious, InstallDeploy, InstallCommit, InstallAbort,
       ServiceStart, Reboot, Kill, Stop,
       StartBroker, StartFails, BrokerListens, BrokerExits, FrontendExits,
       StartFrontend, PairFails, PairEnds, Age, MarkRead, MarkWrite,
       CountFailure, NothingPending, RollbackRead, RollbackSave, Reexec,
       RollbackFails, GiveUp, Backoff, Again
  <2>3. QED  BY <2>1, <2>2 DEF RollbackRestore
<1>2. IInv /\ [Next]_vars
        => [phase = "restoring" /\ phase' = "restored"
              /\ install.step = "idle" /\ ~spoiled => installed' = replaced]_vars
  BY <1>1
<1>3. QED  BY <1>2, IInvCorrect, PTL DEF Spec, RestoresReplaced

----------------------------------------------------------------------------
(* The back-off.  Doubled is a recursive function on the numbers, so what  *)
(* it computes is shown by the least counterexample to a set that has 0    *)
(* and the successors of its elements.                                     *)

\* A set of numbers that has 0 and with each number the next has them all.
LEMMA Induction ==
    ASSUME NEW S, 0 \in S, \A n \in Nat : n \in S => n + 1 \in S
    PROVE  Nat \subseteq S
<1> DEFINE T == Nat \ S
<1> SUFFICES ASSUME T # {} PROVE FALSE
  OBVIOUS
<1>1. PICK x \in T : \A y \in T : ~(<<y, x>> \in OpToRel(<, Nat))
  <2>1. T \subseteq Nat
    OBVIOUS
  <2> HIDE DEF T
  <2> QED  BY <2>1, WFMin, NatLessThanWellFounded
<1>2. x \in Nat /\ x # 0
  OBVIOUS
<1>3. x - 1 \in T
  BY <1>2
<1>4. <<x - 1, x>> \in OpToRel(<, Nat)
  BY <1>2, <1>3 DEF OpToRel
<1> QED  BY <1>1, <1>3, <1>4

\* A function with the equations of Doubled, up to n.
Doubles(f, n) ==
    /\ f \in [0..n -> Nat \ {0}]
    /\ \A i \in 0..n : f[i] = IF i = 0 THEN 1 ELSE 2 * f[i - 1]

LEMMA DoublesExists == \A n \in Nat : \E f : Doubles(f, n)
<1> DEFINE S == {n \in Nat : \E f : Doubles(f, n)}
<1>1. 0 \in S
  <2>1. Doubles([i \in 0..0 |-> 1], 0)
    BY DEF Doubles
  <2> QED BY <2>1
<1>2. ASSUME NEW n \in Nat, n \in S
      PROVE  n + 1 \in S
  <2>1. PICK f : Doubles(f, n)
    BY <1>2
  <2> DEFINE g == [i \in 0..(n + 1) |-> IF i = n + 1 THEN 2 * f[n] ELSE f[i]]
  <2>2. Doubles(g, n + 1)
    BY <2>1 DEF Doubles
  <2> QED  BY <2>2
<1> HIDE DEF S
<1>3. Nat \subseteq S
  BY <1>1, <1>2, Induction
<1> QED  BY <1>3 DEF S

\* It is the only one.
LEMMA DoublesUnique ==
    ASSUME NEW m \in Nat, NEW n \in Nat, NEW f, NEW g, Doubles(f, m), Doubles(g, n)
    PROVE  \A i \in Nat : i <= m /\ i <= n => f[i] = g[i]
<1> DEFINE S == {i \in Nat : i <= m /\ i <= n => f[i] = g[i]}
<1>1. 0 \in S
  BY DEF Doubles
<1>2. ASSUME NEW i \in Nat, i \in S
      PROVE  i + 1 \in S
  <2>1. ASSUME i + 1 <= m, i + 1 <= n
        PROVE  f[i + 1] = g[i + 1]
    <3>1. i + 1 \in 0..m /\ i + 1 \in 0..n /\ i + 1 # 0 /\ i + 1 - 1 = i
      BY <2>1
    <3>2. f[i + 1] = 2 * f[i] /\ g[i + 1] = 2 * g[i]
      BY <3>1 DEF Doubles
    <3>3. f[i] = g[i]
      BY <1>2, <2>1
    <3> QED  BY <3>2, <3>3
  <2> QED  BY <2>1
<1> HIDE DEF S
<1>3. Nat \subseteq S
  BY <1>1, <1>2, Induction
<1> QED  BY <1>3 DEF S

LEMMA DoubledDef ==
    /\ Doubled \in [Nat -> Nat \ {0}]
    /\ \A n \in Nat : Doubled[n] = IF n = 0 THEN 1 ELSE 2 * Doubled[n - 1]
<1> DEFINE c(n) == CHOOSE f : Doubles(f, n)
           d == [n \in Nat |-> c(n)[n]]
<1>1. ASSUME NEW n \in Nat PROVE Doubles(c(n), n)
  BY DoublesExists
<1> HIDE DEF c
<1>2. d \in [Nat -> Nat \ {0}]
  <2>1. ASSUME NEW n \in Nat PROVE c(n)[n] \in Nat \ {0}
    BY <1>1 DEF Doubles
  <2> QED BY <2>1
<1>3. ASSUME NEW n \in Nat PROVE d[n] = IF n = 0 THEN 1 ELSE 2 * d[n - 1]
  <2>1. CASE n = 0
    BY <2>1, <1>1 DEF Doubles
  <2>2. CASE n # 0
    <3> DEFINE f == c(n)
               g == c(n - 1)
    <3>1. n - 1 \in Nat
      BY <2>2
    <3>2. Doubles(f, n) /\ Doubles(g, n - 1)
      BY <1>1, <3>1
    <3>3. d[n] = f[n] /\ d[n - 1] = g[n - 1]
      BY <3>1
    <3> HIDE DEF f, g, d
    <3>4. f[n] = 2 * f[n - 1]
      BY <3>1, <3>2, <2>2 DEF Doubles
    <3>5. f[n - 1] = g[n - 1]
      BY <3>1, <3>2, DoublesUnique
    <3> QED  BY <3>3, <3>4, <3>5, <2>2
  <2> QED BY <2>1, <2>2
<1>4. d = [n \in Nat |-> IF n = 0 THEN 1 ELSE 2 * d[n - 1]]
  <2> DEFINE e == [n \in Nat |-> IF n = 0 THEN 1 ELSE 2 * d[n - 1]]
  <2>1. \A n \in Nat : d[n] = e[n]
    BY <1>3
  <2>2. DOMAIN d = Nat /\ DOMAIN e = Nat /\ d = [n \in Nat |-> d[n]] /\ e = [n \in Nat |-> e[n]]
    OBVIOUS
  <2> HIDE DEF d, e
  <2>3. d = e
    BY <2>1, <2>2
  <2> QED BY <2>3 DEF e
<1>5. Doubled = [n \in Nat |-> IF n = 0 THEN 1 ELSE 2 * Doubled[n - 1]]
  <2> HIDE DEF d
  <2> QED BY <1>4, Zenon DEF Doubled
<1> DEFINE D == Doubled
<1>6. \A n \in Nat : D[n] = IF n = 0 THEN 1 ELSE 2 * D[n - 1]
  <2>1. D = [n \in Nat |-> IF n = 0 THEN 1 ELSE 2 * D[n - 1]]
    BY <1>5
  <2> HIDE DEF D
  <2> QED BY <2>1
<1>7. \A n \in Nat : D[n] \in Nat \ {0}
  <2> DEFINE S == {n \in Nat : D[n] \in Nat \ {0}}
  <2> HIDE DEF D
  <2>1. 0 \in S
    BY <1>6
  <2>2. ASSUME NEW n \in Nat, n \in S
        PROVE  n + 1 \in S
    BY <2>2, <1>6
  <2> HIDE DEF S
  <2>3. Nat \subseteq S
    BY <2>1, <2>2, Induction
  <2> QED  BY <2>3 DEF S
<1>8. D = [n \in Nat |-> D[n]]
  <2>1. D = [n \in Nat |-> IF n = 0 THEN 1 ELSE 2 * D[n - 1]]
    BY <1>5
  <2> HIDE DEF D
  <2> QED BY <2>1
<1> HIDE DEF D
<1>9. D \in [Nat -> Nat \ {0}]
  BY <1>7, <1>8
<1> QED BY <1>6, <1>9 DEF D

\* More failures ask for a longer delay.
LEMMA DoubledGrows ==
    ASSUME NEW m \in Nat, NEW n \in Nat, m <= n
    PROVE  Doubled[m] <= Doubled[n]
<1> DEFINE S == {i \in Nat : m <= i => Doubled[m] <= Doubled[i]}
<1>1. 0 \in S
  BY DoubledDef
<1>2. ASSUME NEW i \in Nat, i \in S
      PROVE  i + 1 \in S
  BY <1>2, DoubledDef
<1> HIDE DEF S
<1>3. Nat \subseteq S
  BY <1>1, <1>2, Induction
<1> QED  BY <1>3 DEF S

\* The delay covers the failures counted, while they are judged all but the
\* last; a supervisor that is not running starts with none.
BackoffInv ==
    /\ phase = "off" => failures = 0 /\ delay = 1
    /\ phase \notin {"judging", "restoring", "restored", "saved", "counted"}
          => delay >= Lower(Doubled[failures], MaxDelay)
    /\ phase \in {"judging", "restoring", "restored", "saved", "counted"}
          => failures > 0 /\ delay >= Lower(Doubled[failures - 1], MaxDelay)

LEMMA BackoffStep ==
    ASSUME TypeOK, NobodyBeforeBoot, BackoffInv, [Next]_vars
    PROVE  BackoffInv'
<1>1. delay \in Nat /\ failures \in Nat /\ MaxDelay \in Nat /\ MaxDelay >= 1
  BY Values, LimitsAssumption DEF TypeOK
<1>2. Doubled[0] = 1 /\ \A n \in Nat : Doubled[n] \in Nat /\ Doubled[n + 1] = 2 * Doubled[n]
  BY DoubledDef
<1>3. Lower(Doubled[0], MaxDelay) = 1
  BY <1>1, <1>2 DEF Lower
<1>4. CASE phase' = phase /\ failures' = failures /\ delay' = delay
  BY <1>4 DEF BackoffInv
<1>5. CASE failures' = 0 /\ delay' = 1 /\ phase' \in {"off", "top", "backoff"}
  BY <1>3, <1>5 DEF BackoffInv
<1>6. CASE Installer
  BY <1>4, <1>6 DEF Installer, InstallSave, KeepPrevious, InstallDeploy, InstallCommit, InstallAbort
<1>7. CASE Device
  <2>1. CASE ServiceStart
    BY <1>3, <2>1 DEF ServiceStart, NobodyBeforeBoot, BackoffInv
  <2>2. CASE Reboot \/ Kill \/ Stop
    BY <1>5, <2>2 DEF Reboot, Kill, Stop, ForgetProcess
  <2> QED  BY <1>7, <2>1, <2>2 DEF Device
<1>8. CASE Pair
  BY <1>8 DEF Pair, StartBroker, StartFails, BrokerListens, BrokerExits, FrontendExits,
              StartFrontend, PairFails, PairEnds, Age, MarkRead, MarkWrite, BackoffInv
<1>9. CASE Judgement
  <2>1. CASE CountFailure
    <3>1. PICK recent \in 0..failures : failures' = recent + 1
      BY <2>1, <1>1 DEF CountFailure
    <3>2. delay >= Lower(Doubled[failures], MaxDelay) /\ delay' = delay /\ phase' = "judging"
      BY <2>1 DEF CountFailure, BackoffInv
    <3>3. recent \in Nat /\ Doubled[recent] <= Doubled[failures] /\ failures' - 1 = recent
      BY <1>1, <3>1, DoubledGrows
    <3>4. delay >= Lower(Doubled[recent], MaxDelay)
      BY <1>1, <1>2, <3>2, <3>3 DEF Lower
    <3> QED  BY <3>1, <3>2, <3>3, <3>4 DEF BackoffInv
  <2>2. CASE NothingPending \/ RollbackRead \/ RollbackRestore \/ RollbackSave \/ RollbackFails
    BY <2>2 DEF NothingPending, RollbackRead, RollbackRestore, RollbackSave, RollbackFails, BackoffInv
  <2>3. CASE Reexec \/ GiveUp
    BY <1>5, <2>3 DEF Reexec, GiveUp, ForgetProcess
  <2>4. CASE Backoff
    <3>1. CASE uptime # "short"
      BY <1>5, <2>4, <3>1 DEF Backoff
    <3>2. CASE uptime = "short"
      <4>1. /\ phase = "counted" /\ phase' = "backoff"
            /\ failures' = failures /\ delay' = Lower(2 * delay, MaxDelay)
        BY <2>4, <3>2 DEF Backoff
      <4>2. failures > 0 /\ delay >= Lower(Doubled[failures - 1], MaxDelay)
        BY <4>1 DEF BackoffInv
      <4>3. failures - 1 \in Nat /\ failures - 1 + 1 = failures
        BY <1>1, <4>2
      <4>4. Doubled[failures] = 2 * Doubled[failures - 1] /\ Doubled[failures - 1] \in Nat
        BY <1>2, <4>3
      <4>5. delay' >= Lower(Doubled[failures], MaxDelay)
        BY <1>1, <4>1, <4>2, <4>4 DEF Lower
      <4> QED  BY <4>1, <4>5 DEF BackoffInv
    <3> QED  BY <3>1, <3>2
  <2>5. CASE Again
    BY <2>5 DEF Again, BackoffInv
  <2> QED  BY <1>9, <2>1, <2>2, <2>3, <2>4, <2>5 DEF Judgement
<1>10. CASE UNCHANGED vars
  BY <1>4, <1>10 DEF vars
<1> QED  BY <1>6, <1>7, <1>8, <1>9, <1>10 DEF Next

\* The back-off is as long as the failures in the window ask for, for every
\* limit and every cap.
THEOREM BackoffCoversFailuresCorrect == Spec => []BackoffCoversFailures
<1>1. Init => BackoffInv
  BY DoubledDef, LimitsAssumption DEF Init, BackoffInv, Lower
<1>2. IInv /\ BackoffInv /\ [Next]_vars => BackoffInv'
  BY BackoffStep DEF IInv
<1>3. BackoffInv => BackoffCoversFailures
  BY DEF BackoffInv, BackoffCoversFailures
<1> QED  BY <1>1, <1>2, <1>3, IInvCorrect, PTL DEF Spec
=============================================================================
