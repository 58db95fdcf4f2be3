----------------------------- MODULE Supervisor -----------------------------
(***************************************************************************)
(* internal/supervisor/supervisor.go with the scripts around it: the       *)
(* installer (module/customize.sh) replaces the daemon's binary in place   *)
(* while an older daemon may be running, the boot script (service.sh,      *)
(* common.sh) starts one supervisor per boot, and the supervisor keeps a   *)
(* broker and a frontend alive as a pair, puts the previous binary back    *)
(* when a version that has not proved itself fails, and gives up after     *)
(* MaxFailures failures within the window.  Any of them may be interrupted *)
(* at any point by a kill or a reboot.                                     *)
(*                                                                         *)
(* Time is abstract: what is kept of the age of a pair is whether it lived *)
(* for StableAfter (5 minutes) and for FailureWindow (10 minutes).         *)
(***************************************************************************)
EXTENDS Naturals

CONSTANTS
    Binaries,      \* the versions of zcr521d that are ever installed
    NoBinary,      \* no file, or the empty string in a version field
    Broken,        \* the binaries that never live for StableAfter
    MaxFailures,   \* Options.MaxFailures
    MaxDelay       \* Options.MaxDelay, in units of InitialDelay

ASSUME BinariesAssumption == NoBinary \notin Binaries /\ Broken \subseteq Binaries

ASSUME LimitsAssumption ==
    MaxFailures \in Nat \ {0} /\ MaxDelay \in Nat \ {0}

VARIABLES
    \* files
    installed,     \* the daemon's binary, Options.Executable
    previous,      \* versions/previous/zcr521d
    versions,      \* versions/state.json; Blank stands for no file too, and
                   \* what only informs a reader (versions, times) is left out
    blocked,       \* crash-loop.blocked exists
    socket,        \* a socket file exists at the broker's path
    \* the supervisor process
    phase,         \* off, or the point it has reached in Run
    failures,      \* length of the list of recent failures
    delay,         \* the next back-off
    held,          \* the version state it read and is about to write back
    \* the pair of the current, or last, runPair
    pair,          \* the binary both processes were started from
    broker,        \* none, starting, listening or dead (not yet waited for)
    frontend,      \* none, alive or dead
    uptime,        \* short, stable (StableAfter passed) or long (the window too)
    marked,        \* stableMarked
    \* the scripts
    booted,        \* service.sh has run since the boot
    install,       \* customize.sh: its step and the binary it brings
    \* history
    replaced,      \* the binary that the last change of version replaced
    spoiled,       \* the last install that saved a previous binary, or a later
                   \* one, did not reach its end, or saved the version it brings
    settled        \* the supervisor saved a verdict since the last install

files   == <<installed, previous, versions, blocked, socket>>
process == <<phase, failures, delay, held>>
run     == <<pair, broker, frontend, uptime, marked>>
scripts == <<booted, install>>
history == <<replaced, spoiled, settled>>
vars    == <<files, process, run, scripts, history>>

Version      == Binaries \cup {NoBinary}
VersionState == [candidate   : Version,
                 previous    : BOOLEAN,      \* previousBinary is not empty
                 good        : BOOLEAN]      \* goodSince is not zero

Blank == [candidate |-> NoBinary, previous |-> FALSE, good |-> FALSE]
Idle  == [step |-> "idle", target |-> NoBinary]

\* The candidate that rollbackPendingCandidate looks for.
PendingCandidate(v) == v.candidate # NoBinary /\ v.previous /\ ~v.good

Lower(a, b) == IF a < b THEN a ELSE b

Init ==
    /\ installed = NoBinary /\ previous = NoBinary /\ versions = Blank
    /\ blocked = FALSE /\ socket = FALSE
    /\ phase = "off" /\ failures = 0 /\ delay = 1 /\ held = Blank
    /\ pair = NoBinary /\ broker = "none" /\ frontend = "none"
    /\ uptime = "short" /\ marked = FALSE
    /\ booted = TRUE /\ install = Idle
    /\ replaced = NoBinary /\ spoiled = FALSE /\ settled = FALSE

----------------------------------------------------------------------------
(* customize.sh, which runs in a booted device: whatever else does.        *)

\* The installed binary, if there is one and it counts as different from the
\* one the install brings, is kept as the previous one.
KeepPrevious(b, differs) ==
    /\ previous' = IF installed # NoBinary /\ differs THEN installed ELSE previous
    /\ install' = [step |-> "saved", target |-> b]

\* Mutant of InstallSave: what cmp says is not looked at.
InstallSaveSame(b) ==
    /\ install.step = "idle"
    /\ KeepPrevious(b, TRUE)
    /\ spoiled' = (spoiled /\ installed \in {NoBinary, b})
    /\ UNCHANGED <<installed, versions, blocked, socket, process, run, booted,
                   replaced, settled>>

\* Before the upgrade the installed binary is saved, unless cmp finds that it is
\* the same; where there is no cmp, or it cannot read, they count as different.
InstallSave(b) ==
    /\ install.step = "idle"
    /\ \E compared \in BOOLEAN :
          /\ KeepPrevious(b, ~compared \/ installed # b)
          /\ spoiled' = IF installed \notin {NoBinary, b} THEN FALSE
                         ELSE spoiled \/ (installed = b /\ ~compared)
    /\ UNCHANGED <<installed, versions, blocked, socket, process, run, booted,
                   replaced, settled>>

InstallDeploy ==
    /\ install.step = "saved"
    /\ installed' = install.target
    /\ replaced' = IF installed = install.target THEN replaced ELSE installed
    /\ install' = [install EXCEPT !.step = "deployed"]
    /\ UNCHANGED <<previous, versions, blocked, socket, process, run, booted,
                   spoiled, settled>>

InstallCommit ==
    /\ install.step = "deployed"
    /\ versions' = [candidate |-> install.target, previous |-> previous # NoBinary,
                    good |-> FALSE]
    /\ install' = Idle
    /\ settled' = FALSE
    /\ UNCHANGED <<installed, previous, blocked, socket, process, run, booted,
                   replaced, spoiled>>

\* zcr_abort, or the script is killed.
InstallAbort ==
    /\ install.step # "idle"
    /\ install' = Idle /\ spoiled' = TRUE
    /\ UNCHANGED <<files, process, run, booted, replaced, settled>>

----------------------------------------------------------------------------
(* Life of the supervisor process.                                         *)

\* What the end of the supervisor leaves of its own variables.
ForgetProcess ==
    /\ phase' = "off" /\ failures' = 0 /\ delay' = 1
    /\ held' = Blank /\ uptime' = "short" /\ marked' = FALSE

\* zcr_start_supervisor auto, once per boot.
ServiceStart ==
    /\ ~booted
    /\ booted' = TRUE
    /\ IF blocked \/ installed = NoBinary
       THEN UNCHANGED phase
       ELSE phase' = "top"
    /\ UNCHANGED <<files, failures, delay, held, run, install, history>>

\* The boot scripts remove sockets of other names, not the broker's.
Reboot ==
    /\ ForgetProcess
    /\ pair' = NoBinary /\ broker' = "none" /\ frontend' = "none"
    /\ booted' = FALSE /\ install' = Idle
    /\ spoiled' = (spoiled \/ install.step # "idle")
    /\ UNCHANGED <<files, replaced, settled>>

\* Only the supervisor dies: its children, in sessions of their own, go on.
Kill ==
    /\ phase # "off"
    /\ ForgetProcess
    /\ UNCHANGED <<files, pair, broker, frontend, scripts, history>>

\* stopProcess and Wait for both children: a broker that ends on SIGTERM
\* removes its socket (and one that starts has removed the stale one), a
\* broker that is dead or must be killed does not.
StopPair ==
    /\ pair' = NoBinary /\ broker' = "none" /\ frontend' = "none"
    /\ socket' \in (IF broker \in {"starting", "listening"} THEN {socket, FALSE} ELSE {socket})

\* SIGTERM: the context of Run ends (it is looked at in these places only).
Stop ==
    /\ phase \in {"top", "waitSocket", "pair", "ended", "backoff"}
    /\ StopPair
    /\ ForgetProcess
    /\ UNCHANGED <<installed, previous, versions, blocked, scripts, history>>

----------------------------------------------------------------------------
(* runPair.                                                                *)

StartBroker ==
    /\ phase = "top"
    /\ phase' = "waitSocket"
    /\ pair' = installed /\ broker' = "starting"
    /\ uptime' = "short" /\ marked' = FALSE
    /\ UNCHANGED <<files, failures, delay, held, frontend, scripts, history>>

\* A log file cannot be opened or the binary not be executed.
StartFails ==
    /\ phase = "top"
    /\ phase' = "ended" /\ uptime' = "short" /\ marked' = FALSE
    /\ UNCHANGED <<files, failures, delay, held, pair, broker, frontend,
                   scripts, history>>

\* The broker replaces the socket file and listens.
BrokerListens ==
    /\ broker = "starting"
    /\ broker' = "listening" /\ socket' = TRUE
    /\ UNCHANGED <<installed, previous, versions, blocked, process, pair, frontend,
                   uptime, marked, scripts, history>>

BrokerExits ==
    /\ broker \in {"starting", "listening"}
    /\ broker' = "dead"
    /\ socket' \in {socket, FALSE}
    /\ UNCHANGED <<installed, previous, versions, blocked, process, pair, frontend,
                   uptime, marked, scripts, history>>

FrontendExits ==
    /\ frontend = "alive"
    /\ frontend' = "dead"
    /\ UNCHANGED <<files, process, pair, broker, uptime, marked, scripts, history>>

\* waitForSocket is content with a file; the frontend is started and its pid
\* file written.
StartFrontend ==
    /\ phase = "waitSocket" /\ socket
    /\ phase' = "pair" /\ frontend' = "alive"
    /\ UNCHANGED <<files, failures, delay, held, pair, broker, uptime, marked,
                   scripts, history>>

\* The socket does not appear in time, or something between the socket and
\* the pid file fails: each such path stops what was started.
PairFails ==
    /\ phase = "waitSocket"
    /\ StopPair
    /\ phase' = "ended"
    /\ UNCHANGED <<installed, previous, versions, blocked, failures, delay, held,
                   uptime, marked, scripts, history>>

\* Mutant of PairEnds: the survivor is left running.
PairEndsAlone ==
    /\ phase = "pair" /\ (broker = "dead" \/ frontend = "dead")
    /\ broker' = IF broker = "dead" THEN "none" ELSE broker
    /\ frontend' = IF frontend = "dead" THEN "none" ELSE frontend
    /\ phase' = "ended"
    /\ UNCHANGED <<files, failures, delay, held, pair, uptime, marked, scripts, history>>

\* Mutant of PairEnds: only the broker's exit is waited for.
PairEndsBroker ==
    /\ phase = "pair" /\ broker = "dead"
    /\ StopPair
    /\ phase' = "ended"
    /\ UNCHANGED <<installed, previous, versions, blocked, failures, delay, held,
                   uptime, marked, scripts, history>>

\* The first exit of either process stops the other.
PairEnds ==
    /\ phase = "pair" /\ (broker = "dead" \/ frontend = "dead")
    /\ StopPair
    /\ phase' = "ended"
    /\ UNCHANGED <<installed, previous, versions, blocked, failures, delay, held,
                   uptime, marked, scripts, history>>

\* Time passes.
Age ==
    /\ phase = "pair" /\ broker # "dead" /\ frontend = "alive"
    /\ pair \notin Broken /\ uptime # "long"
    /\ uptime' = IF uptime = "short" THEN "stable" ELSE "long"
    /\ UNCHANGED <<files, process, pair, broker, frontend, marked, scripts, history>>

\* markStable, on the stable timer: what it reads is whatever is there ...
MarkRead ==
    /\ phase = "pair" /\ uptime # "short" /\ ~marked
    /\ phase' = "marking" /\ held' = versions
    /\ UNCHANGED <<files, failures, delay, run, scripts, history>>

\* ... and it is not tried again, even if the write fails.
MarkWrite ==
    /\ phase = "marking"
    /\ phase' = "pair" /\ marked' = TRUE /\ held' = Blank
    /\ \/ /\ versions' = [held EXCEPT !.candidate = NoBinary, !.good = TRUE]
          /\ settled' = TRUE
       \/ UNCHANGED <<versions, settled>>
    /\ UNCHANGED <<installed, previous, blocked, socket, failures, delay, pair,
                   broker, frontend, uptime, scripts, replaced, spoiled>>

----------------------------------------------------------------------------
(* Run: what follows the end of a pair.                                    *)

\* The failure is counted, together with those still inside the window.
CountFailure ==
    /\ phase = "ended"
    /\ phase' = "judging"
    /\ \E recent \in (IF uptime = "long" THEN {0} ELSE 0..failures) :
          failures' = recent + 1
    /\ UNCHANGED <<files, delay, held, run, scripts, history>>

NothingPending ==
    /\ phase = "judging" /\ ~PendingCandidate(versions)
    /\ phase' = "counted"
    /\ UNCHANGED <<files, failures, delay, held, run, scripts, history>>

\* Mutant of RollbackRead: the roll-back is left until the limit is reached.
RollbackReadLate ==
    /\ phase = "judging" /\ PendingCandidate(versions) /\ previous # NoBinary
    /\ failures >= MaxFailures
    /\ phase' = "restoring" /\ held' = versions
    /\ UNCHANGED <<files, failures, delay, run, scripts, history>>

\* rollback reads the version state and checks the previous binary ...
RollbackRead ==
    /\ phase = "judging" /\ PendingCandidate(versions) /\ previous # NoBinary
    /\ phase' = "restoring" /\ held' = versions
    /\ UNCHANGED <<files, failures, delay, run, scripts, history>>

\* ... copies it over the installed one ...
RollbackRestore ==
    /\ phase = "restoring"
    /\ phase' = "restored" /\ installed' = previous
    /\ UNCHANGED <<previous, versions, blocked, socket, failures, delay, held,
                   run, scripts, history>>

\* Mutant of RolledBack: only the time and the reason are recorded.
RolledBackPending(v) == v

RolledBack(v) == [v EXCEPT !.candidate = NoBinary, !.good = TRUE]

\* ... writes back what it read, changed ...
RollbackSave ==
    /\ phase = "restored"
    /\ phase' = "saved" /\ versions' = RolledBack(held) /\ held' = Blank
    /\ settled' = TRUE
    /\ UNCHANGED <<installed, previous, blocked, socket, failures, delay, run,
                   scripts, replaced, spoiled>>

\* ... and replaces the process by the binary it put back: Run starts afresh.
Reexec ==
    /\ phase = "saved"
    /\ phase' = "top" /\ failures' = 0 /\ delay' = 1
    /\ UNCHANGED <<files, held, run, scripts, history>>

\* Any of these steps may fail; the loop goes on with what was done so far.
RollbackFails ==
    /\ \/ phase = "judging" /\ PendingCandidate(versions)
       \/ phase \in {"restoring", "restored", "saved"}
    /\ phase' = "counted" /\ held' = Blank
    /\ UNCHANGED <<files, failures, delay, run, scripts, history>>

\* writeStopReason ignores errors, so the marker may be missing.
GiveUp ==
    /\ phase = "counted" /\ failures >= MaxFailures
    /\ blocked' \in {blocked, TRUE}
    /\ ForgetProcess
    /\ UNCHANGED <<installed, previous, versions, socket, pair, broker, frontend,
                   scripts, history>>

\* Mutant of Backoff: every pair clears the delay, only a stable one the record.
BackoffReset ==
    /\ phase = "counted" /\ failures < MaxFailures
    /\ phase' = "backoff"
    /\ IF uptime # "short" THEN failures' = 0 ELSE UNCHANGED failures
    /\ delay' = 1
    /\ UNCHANGED <<files, held, run, scripts, history>>

\* Mutant of Backoff: the delay is doubled without the cap.
BackoffUncapped ==
    /\ phase = "counted" /\ failures < MaxFailures
    /\ phase' = "backoff"
    /\ IF uptime # "short" THEN failures' = 0 /\ delay' = 1
                           ELSE delay' = 2 * delay /\ UNCHANGED failures
    /\ UNCHANGED <<files, held, run, scripts, history>>

\* A pair that lived for StableAfter clears the record, any other doubles the
\* delay of the next one.
Backoff ==
    /\ phase = "counted" /\ failures < MaxFailures
    /\ phase' = "backoff"
    /\ IF uptime # "short" THEN failures' = 0 /\ delay' = 1
                           ELSE delay' = Lower(2 * delay, MaxDelay) /\ UNCHANGED failures
    /\ UNCHANGED <<files, held, run, scripts, history>>

Again ==
    /\ phase = "backoff"
    /\ phase' = "top"
    /\ UNCHANGED <<files, failures, delay, held, run, scripts, history>>

----------------------------------------------------------------------------
Installer == (\E b \in Binaries : InstallSave(b)) \/ InstallDeploy \/ InstallCommit
             \/ InstallAbort
Device    == ServiceStart \/ Reboot \/ Kill \/ Stop
Pair      == StartBroker \/ StartFails \/ BrokerListens \/ BrokerExits
             \/ FrontendExits \/ StartFrontend \/ PairFails \/ PairEnds
             \/ Age \/ MarkRead \/ MarkWrite
Judgement == CountFailure \/ NothingPending \/ RollbackRead \/ RollbackRestore
             \/ RollbackSave \/ Reexec \/ RollbackFails \/ GiveUp \/ Backoff \/ Again

Next == Installer \/ Device \/ Pair \/ Judgement

Spec == Init /\ [][Next]_vars

----------------------------------------------------------------------------
(* Safety.                                                                 *)

Verdict == {"ended", "judging", "restoring", "restored", "saved", "counted"}
Phases  == {"off", "top", "waitSocket", "pair", "marking", "backoff"} \cup Verdict

\* Every variable keeps its type; a supervisor that is still running has not
\* counted more failures than it takes to give up.
TypeOK ==
    /\ installed \in Version /\ previous \in Version /\ replaced \in Version
    /\ pair \in Version
    /\ versions \in VersionState /\ held \in VersionState
    /\ blocked \in BOOLEAN /\ socket \in BOOLEAN /\ marked \in BOOLEAN
    /\ booted \in BOOLEAN /\ spoiled \in BOOLEAN /\ settled \in BOOLEAN
    /\ phase \in Phases
    /\ failures \in 0..MaxFailures
    /\ delay \in 1..MaxDelay
    /\ broker \in {"none", "starting", "listening", "dead"}
    /\ frontend \in {"none", "alive", "dead"}
    /\ uptime \in {"short", "stable", "long"}
    /\ install \in [step : {"idle", "saved", "deployed"}, target : Version]

\* Whenever the supervisor counts, judges, rolls back, re-executes itself or
\* waits, no process of the last pair is left: the next pair can have the
\* socket, the transfer directory and the task snapshots to itself.
PairGone ==
    phase \in Verdict \cup {"top", "backoff"} => broker = "none" /\ frontend = "none"

\* 2 to the power of n.
Doubled[n \in Nat] == IF n = 0 THEN 1 ELSE 2 * Doubled[n - 1]

\* The back-off is never shorter than the failures in the window ask for
\* (1, 2, 4 ... up to the cap), however the window moves, across pairs and
\* across the reset by a stable pair.
BackoffCoversFailures ==
    phase \in Phases \ (Verdict \cup {"off"}) => delay >= Lower(Doubled[failures], MaxDelay)

\* A roll-back puts back exactly the binary that the upgrade replaced, whatever
\* was installed, reinstalled or rolled back before, unless it overlaps an
\* install, or follows one that did not reach its end, or one that brought the
\* installed version again where cmp could not tell (customize.sh:87).
RestoresReplaced ==
    [][phase = "restoring" /\ phase' = "restored"
         /\ install.step = "idle" /\ ~spoiled => installed' = replaced]_vars

\* After a verdict, stable or rolled back, was saved, nothing is rolled back
\* until another install: a crash loop of a proven version cannot downgrade
\* it, and a roll-back cannot repeat.
VerdictStays == [][settled => ~(phase = "restoring" /\ phase' = "restored")]_vars

\* docs/INSTALL.md:73-76: a new version is a candidate and becomes usable by
\* running for five minutes.  So the version whose candidacy markStable ends
\* is the one the pair has been executing.
CandidateProven ==
    [][phase = "marking" /\ settled' /\ held.candidate # NoBinary
         /\ install.step = "idle" /\ ~spoiled => pair = held.candidate]_vars

----------------------------------------------------------------------------
(* Liveness.                                                               *)

\* The supervisor has a timer on every wait, so it always takes the next step
\* of its loop; a roll-back does not fail every time it is tried; a broken
\* binary ends; an install comes to an end.
Onward == \/ StartBroker \/ StartFails \/ StartFrontend \/ PairFails \/ PairEnds
          \/ MarkWrite \/ CountFailure \/ NothingPending \/ RollbackSave \/ Reexec
          \/ RollbackFails \/ GiveUp \/ Backoff \/ Again
Fairness ==
    /\ WF_vars(Onward)
    /\ SF_vars(RollbackRead) /\ SF_vars(RollbackRestore)
    /\ WF_vars(pair \in Broken /\ phase = "pair" /\ (BrokerExits \/ FrontendExits))
    /\ WF_vars(InstallDeploy \/ InstallCommit \/ InstallAbort)

FairSpec == Spec /\ Fairness

\* The end of either process, whichever it is and however the judgement goes,
\* leads to the start of a new pair or to the end of the supervisor.
PairRestarted ==
    (phase = "pair" /\ (broker = "dead" \/ frontend = "dead")) ~> phase \in {"top", "off"}

\* A broken candidate that was started over a predecessor does not stay: it
\* is replaced, or the supervisor ends (or an install was interrupted,
\* or saved its own version, which may have overwritten the predecessor).
BrokenCandidateReplaced ==
    \A b \in Broken :
        (phase \in {"waitSocket", "pair"} /\ pair = b /\ installed = b
           /\ PendingCandidate(versions) /\ previous \notin {b, NoBinary})
        ~> (installed # b \/ phase = "off" \/ spoiled)
=============================================================================
