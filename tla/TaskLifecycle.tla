--------------------------- MODULE TaskLifecycle ---------------------------
(***************************************************************************)
(* What internal/tasks promises to the broker's clients, without locks,    *)
(* goroutines, slots or files: a task that was accepted stays known, ends  *)
(* at most once and never leaves its final status, and only a durable task *)
(* may be begun again (after a restart of the process).                    *)
(* TaskManager implements it as long as no snapshot write fails.           *)
(***************************************************************************)
CONSTANTS Tasks, DurableTasks

VARIABLE stage     \* what a client may conclude from the task's status

Stage == {"absent", "waiting", "working", "succeeded", "failed", "timed_out", "cancelled"}
Ended == {"succeeded", "failed", "timed_out", "cancelled"}

Init == stage = [t \in Tasks |-> "absent"]

Move(t, from, to) == stage[t] = from /\ stage' = [stage EXCEPT ![t] = to]

Accept(t) == Move(t, "absent", "waiting")
Begin(t)  == Move(t, "waiting", "working")
\* The runner's own verdicts need a runner that was begun.
End(t)    == \E s \in Ended : Move(t, "working", s)
\* Cancelled or lost to a restart before it was begun.
Drop(t)   == \E s \in {"cancelled", "failed"} : Move(t, "waiting", s)

\* A restart interrupts every task at once; the durable ones wait again.
Retry == \E T \in SUBSET {t \in DurableTasks : stage[t] = "working"} :
            stage' = [t \in Tasks |-> IF t \in T THEN "waiting" ELSE stage[t]]

Next == Retry \/ \E t \in Tasks : Accept(t) \/ Begin(t) \/ End(t) \/ Drop(t)

Spec == Init /\ [][Next]_stage
=============================================================================
