-------------------------- MODULE TaskCalls_proofs --------------------------
(***************************************************************************)
(* What TLAPS proves of TaskCalls for any tasks, any number of handlers    *)
(* and any limit: the slots of the broker are exact, and the end of a task *)
(* that a client was told is the end the task has, over any number of      *)
(* restarts.                                                               *)
(***************************************************************************)
EXTENDS TaskCalls, FiniteSetTheorems, TLAPS

----------------------------------------------------------------------------
(* The inductive invariant.                                                *)

Serving == {h \in Handlers : conn[h] = "serving"}

\* A slot is taken for each connection that is served or has just been.
Slots == sem = leaving + Cardinality(Serving)

\* Where the broker may be while there is a connection, a socket to connect to
\* or an interrupted task.
Reach ==
    /\ socket = "listening" => broker = "listening"
    /\ \A h \in Handlers :
         /\ conn[h] = "queued" => broker = "listening"
         /\ conn[h] = "serving" => broker \in {"listening", "stopping"}
    /\ \A t \in Tasks : status[t] = "interrupted" => broker \in {"down", "loading"}

\* A handler has a connection while it waits, and an answer until it reacts.
Turns ==
    \A h \in Handlers :
        /\ at[h] # "wait" => conn[h] = "none"
        /\ at[h] # "react" => answer[h] = Nothing

\* A request is about a task that was accepted; an answer that shows its end
\* shows the end it still has.
Shown(h) ==
    /\ request[h].task \in Tasks => status[request[h].task] # "absent"
    /\ answer[h].kind = "accepted" => status[answer[h].task] # "absent"
    /\ answer[h].kind = "task" =>
          /\ request[h].task \in Tasks
          /\ answer[h].status \in Active \cup Ended
          /\ answer[h].status \in Ended => status[request[h].task] = answer[h].status

Concluded(t) ==
    concluded[t] # "none" =>
        status[t] \in Ended /\ ExtensionStatus[status[t]] = concluded[t]

IInv ==
    /\ TypeOK /\ Slots /\ Reach /\ Turns
    /\ \A h \in Handlers : Shown(h)
    /\ \A t \in Tasks : Concluded(t)

\* What no step does to a task: end it again, or forget it.
Keeps ==
    \A t \in Tasks : /\ status[t] \in Ended => status'[t] = status[t]
                     /\ status[t] # "absent" => status'[t] # "absent"

----------------------------------------------------------------------------
(* Lemmas.                                                                 *)

\* The broker serves at most all handlers, and a slot more is one more of them.
LEMMA ServingFinite ==
    /\ IsFiniteSet(Serving) /\ Cardinality(Serving) \in Nat
    /\ Cardinality(Serving) = 0 => Serving = {}
<1>1. IsFiniteSet(Serving)
  BY HandlersAssumption, FS_Subset DEF Serving
<1>2. QED  BY <1>1, FS_CardinalityType, FS_EmptySet

\* What was shown stays right for a handler that keeps its request and answer.
LEMMA ShownStays ==
    ASSUME IInv, Keeps, NEW h \in Handlers,
           request'[h] = request[h], answer'[h] = answer[h]
    PROVE  Shown(h)'
<1>1. TypeOK /\ Shown(h)  BY DEF IInv
<1>2. answer[h] \in Answer /\ request[h] \in Request  BY <1>1 DEF TypeOK
<1>3. answer[h].kind = "accepted" => answer[h].task \in Tasks
  BY <1>2 DEF Answer, Failure
<1>4. QED  BY <1>1, <1>3 DEF Shown, Keeps

\* So does what was concluded.
LEMMA ConcludedStays ==
    ASSUME IInv, Keeps, concluded' = concluded
    PROVE  \A t \in Tasks : Concluded(t)'
BY DEF IInv, Keeps, Concluded

\* A step that leaves the tasks alone keeps them.
LEMMA SameStatus == ASSUME status' = status PROVE Keeps
BY DEF Keeps

\* An answer of the broker, as far as it does not depend on what it says.
LEMMA AnswerTypes ==
    ASSUME TypeOK, Turns, NEW h \in Handlers, NEW a \in Answer, Answered(h, a),
           at[h] = "wait"
    PROVE  /\ answer' \in [Handlers -> Answer]
           /\ at' \in [Handlers -> {"idle", "dial", "wait", "react", "poll"}]
           /\ conn' \in [Handlers -> {"none", "queued", "serving"}]
           /\ Turns'
BY DEF TypeOK, Answered, Turns

\* A connection that is answered leaves its slot to Release.
LEMMA AnswersSlots ==
    ASSUME IInv, NEW h \in Handlers, NEW a \in Answer, conn[h] = "serving", Answers(h, a)
    PROVE  /\ Slots' /\ leaving' \in 0..MaxConcurrent /\ sem' = sem
           /\ at[h] = "wait"
<1>1. Serving' = Serving \ {h} /\ h \in Serving
  BY DEF Serving, Answers, Answered, IInv, TypeOK
<1>2. Cardinality(Serving') = Cardinality(Serving) - 1 /\ Cardinality(Serving) >= 1
  BY <1>1, ServingFinite, FS_RemoveElement, FS_CardinalityType, FS_Subset
<1>3. sem = leaving + Cardinality(Serving) /\ sem \in 0..MaxConcurrent /\ leaving \in 0..MaxConcurrent
  BY DEF IInv, Slots, TypeOK
<1>4. leaving' = leaving + 1 /\ sem' = sem  BY DEF Answers
<1>5. at[h] = "wait"  BY DEF IInv, Turns
<1>6. QED  BY <1>2, <1>3, <1>4, <1>5, ServingFinite, LimitAssumption DEF Slots

----------------------------------------------------------------------------
(* Every step keeps the tasks.                                             *)

\* The actions that change a status: an ended task stays as it is and none is
\* forgotten, whoever asks, cancels, loads or resumes.
LEMMA KeepsStep ==
    ASSUME IInv, [Next]_vars
    PROVE  Keeps
<1>0. TypeOK /\ Reach  BY DEF IInv
<1>1. ASSUME NEW h \in Handlers, Serve(h) PROVE Keeps
  <2>1. CASE CallTask(h)
    BY <1>0, <2>1 DEF CallTask, Answers, Keeps, TypeOK, Status, Active, Ended
  <2>2. CASE CancelTask(h)
    BY <1>0, <2>2 DEF CancelTask, Answers, Keeps, TypeOK, Status, Active, Ended
  <2>3. CASE ~CallTask(h) /\ ~CancelTask(h)
    <3>1. status' = status
      BY <1>1, <2>3 DEF Serve, Unauthorized, CallTool, NoTask, GetTask, UpdateTask
    <3>2. QED  BY <3>1, SameStatus
  <2>4. QED  BY <2>1, <2>2, <2>3
<1>2. ASSUME NEW t \in Tasks, Begin(t) \/ End(t) PROVE Keeps
  BY <1>0, <1>2 DEF Begin, End, Keeps, TypeOK, Status, Active, Ended
<1>3. ASSUME Load \/ Resume \/ Exit PROVE Keeps
  BY <1>0, <1>3 DEF Load, Resume, Exit, Keeps, TypeOK, Status, Active, Ended
<1>4. ASSUME NEW h \in Handlers, Handle(h) \/ Accept(h) PROVE Keeps
  <2>1. status' = status
    BY <1>4 DEF Handle, Ask, Dial, React, Tick, Leave, Accept, brokerVars
  <2>2. QED  BY <2>1, SameStatus
<1>5. ASSUME Release \/ Listen \/ StartFrontend \/ WritePID \/ Terminate \/ Kill \/ EndFrontend
      PROVE  Keeps
  <2>1. status' = status
    BY <1>5 DEF Release, Listen, StartFrontend, WritePID, Terminate, Kill, EndFrontend, brokerVars
  <2>2. QED  BY <2>1, SameStatus
<1>6. CASE UNCHANGED vars
  <2>1. status' = status  BY <1>6 DEF vars, brokerVars
  <2>2. QED  BY <2>1, SameStatus
<1>7. QED  BY <1>1, <1>2, <1>3, <1>4, <1>5, <1>6 DEF Next, Processes

----------------------------------------------------------------------------
(* The initial states, and the steps by who takes them.                    *)

LEMMA InitIInv == Init => IInv
<1> SUFFICES ASSUME Init PROVE IInv  OBVIOUS
<1>1. TypeOK
  BY StrangerAssumption, LimitAssumption
  DEF Init, TypeOK, Status, Answer, Request, Nothing, NoRequest
<1>2. Slots
  <2>1. Serving = {}  BY DEF Init, Serving
  <2>2. QED  BY <2>1, FS_EmptySet DEF Slots, Init
<1>3. Reach /\ Turns  BY DEF Init, Reach, Turns, Nothing
<1>4. ASSUME NEW h \in Handlers PROVE Shown(h)
  BY StrangerAssumption DEF Init, Shown, Nothing, NoRequest
<1>5. ASSUME NEW t \in Tasks PROVE Concluded(t)
  BY DEF Init, Concluded
<1>6. QED  BY <1>1, <1>2, <1>3, <1>4, <1>5 DEF IInv

\* The tasks on their own, and the start and end of the processes that leave
\* every connection as it is.
LEMMA BackgroundStep ==
    ASSUME IInv, Keeps,
           \/ Release \/ Load \/ Resume \/ Listen \/ StartFrontend \/ WritePID \/ Exit
           \/ \E t \in Tasks : Begin(t) \/ End(t)
    PROVE  IInv'
<1>0. TypeOK /\ Slots /\ Reach /\ Turns  BY DEF IInv
<1>1. UNCHANGED handlerVars /\ UNCHANGED concluded
  BY DEF Release, Load, Resume, Listen, StartFrontend, WritePID, Exit, Begin, End, brokerVars
<1>2. Serving' = Serving  BY <1>1 DEF Serving, handlerVars
<1>3. Turns'  BY <1>0, <1>1 DEF Turns, handlerVars
<1>4. \A h \in Handlers : Shown(h)'
  BY <1>1, ShownStays DEF handlerVars
<1>5. \A t \in Tasks : Concluded(t)'  BY <1>1, ConcludedStays
<1>6. CASE Release
  <2>1. sem = leaving + Cardinality(Serving)  BY <1>0 DEF Slots
  <2>2. TypeOK' /\ Slots'
    BY <1>0, <1>1, <1>2, <1>6, <2>1, ServingFinite, LimitAssumption
    DEF Release, TypeOK, Slots, handlerVars
  <2>3. Reach'  BY <1>0, <1>6, <1>1 DEF Release, Reach, handlerVars
  <2>4. QED  BY <2>2, <2>3, <1>3, <1>4, <1>5 DEF IInv
<1>7. CASE ~Release
  <2>1. sem' = sem /\ leaving' = leaving
    BY <1>7 DEF Load, Resume, Listen, StartFrontend, WritePID, Exit, Begin, End, brokerVars
  <2>2. Slots'  BY <1>0, <1>2, <2>1 DEF Slots
  <2>3. TypeOK'
    BY <1>0, <1>1, <1>7
    DEF Load, Resume, Listen, StartFrontend, WritePID, Exit, Begin, End, TypeOK,
        handlerVars, brokerVars, Status, Active, Ended
  <2>4. Reach'
    <3>1. CASE Exit
      <4>1. Serving = {}
        BY <1>0, <3>1, ServingFinite DEF Exit, Slots, TypeOK
      <4>2. \A h \in Handlers : conn[h] # "serving"  BY <4>1 DEF Serving
      <4>3. QED  BY <1>0, <1>1, <3>1, <4>2 DEF Exit, Reach, handlerVars, TypeOK
    <3>2. CASE ~Exit
      BY <1>0, <1>1, <1>7, <3>2
      DEF Load, Resume, Listen, StartFrontend, WritePID, Begin, End, Reach, TypeOK,
          handlerVars, brokerVars, Status, Active, Ended, Up
    <3>3. QED  BY <3>1, <3>2
  <2>5. QED  BY <2>2, <2>3, <2>4, <1>3, <1>4, <1>5 DEF IInv
<1>8. QED  BY <1>6, <1>7

\* The ends of the broker and of the frontend reset connections; nobody is told
\* anything, and what is about to be told stays right.
LEMMA EndStep ==
    ASSUME IInv, Keeps, Terminate \/ Kill \/ EndFrontend
    PROVE  IInv'
<1>0. TypeOK /\ Slots /\ Reach /\ Turns /\ \A h \in Handlers : Shown(h)
  BY DEF IInv
<1>1. UNCHANGED <<concluded, status>>
  BY DEF Terminate, Kill, EndFrontend, brokerVars
<1>2. \A t \in Tasks : Concluded(t)'  BY <1>1, ConcludedStays
<1>3. ASSUME NEW C \in SUBSET Handlers, Reset(C),
             \A h \in Handlers : at[h] = "react" => h \notin C
      PROVE  /\ at' \in [Handlers -> {"idle", "dial", "wait", "react", "poll"}]
             /\ conn' \in [Handlers -> {"none", "queued", "serving"}]
             /\ answer' \in [Handlers -> Answer]
             /\ Turns'
             /\ \A h \in Handlers : Shown(h)'
  <2>1. /\ at' \in [Handlers -> {"idle", "dial", "wait", "react", "poll"}]
        /\ conn' \in [Handlers -> {"none", "queued", "serving"}]
        /\ answer' \in [Handlers -> Answer]
    BY <1>0, <1>3 DEF Reset, TypeOK, Answer, Failure
  <2>2. Turns'  BY <1>0, <1>3 DEF Reset, Turns
  <2>3. ASSUME NEW h \in Handlers PROVE Shown(h)'
    <3>1. CASE h \in C
      BY <1>0, <1>1, <1>3, <3>1 DEF Reset, Shown
    <3>2. CASE h \notin C
      BY <1>0, <1>1, <1>3, <3>2 DEF Reset, Shown
    <3>3. QED  BY <3>1, <3>2
  <2>4. QED  BY <2>1, <2>2, <2>3
<1>4. CASE Terminate
  <2> DEFINE C == {h \in Handlers : conn[h] = "queued"}
  <2>1. Reset(C) /\ \A h \in Handlers : at[h] = "react" => h \notin C
    BY <1>0, <1>4 DEF Terminate, Turns
  <2>2. /\ at' \in [Handlers -> {"idle", "dial", "wait", "react", "poll"}]
        /\ conn' \in [Handlers -> {"none", "queued", "serving"}]
        /\ answer' \in [Handlers -> Answer]
        /\ Turns' /\ \A h \in Handlers : Shown(h)'
    BY <1>3, <2>1
  <2>3. Serving' = Serving  BY <1>0, <2>1 DEF Reset, Serving, TypeOK
  <2>4. TypeOK' /\ Slots'
    BY <1>0, <1>1, <1>4, <2>1, <2>2, <2>3, LimitAssumption DEF Terminate, Reset, TypeOK, Slots
  <2>5. Reach'  BY <1>0, <1>1, <1>4, <2>1 DEF Terminate, Reset, Reach, TypeOK
  <2>6. QED  BY <1>2, <2>2, <2>4, <2>5 DEF IInv
<1>5. CASE Kill
  <2> DEFINE C == {h \in Handlers : conn[h] # "none"}
  <2>1. Reset(C) /\ \A h \in Handlers : at[h] = "react" => h \notin C
    BY <1>0, <1>5 DEF Kill, Turns
  <2>2. /\ at' \in [Handlers -> {"idle", "dial", "wait", "react", "poll"}]
        /\ conn' \in [Handlers -> {"none", "queued", "serving"}]
        /\ answer' \in [Handlers -> Answer]
        /\ Turns' /\ \A h \in Handlers : Shown(h)'
    BY <1>3, <2>1
  <2>3. \A h \in Handlers : conn'[h] = "none"  BY <2>1 DEF Reset
  <2>4. Serving' = {}  BY <2>3 DEF Serving
  <2>5. Slots'  BY <1>5, <2>4, FS_EmptySet DEF Kill, Slots
  <2>6. TypeOK'
    BY <1>0, <1>1, <1>5, <2>1, <2>2, LimitAssumption DEF Kill, Reset, TypeOK
  <2>7. Reach'  BY <1>0, <1>1, <1>5, <2>3 DEF Kill, Reach, TypeOK
  <2>8. QED  BY <1>2, <2>2, <2>5, <2>6, <2>7 DEF IInv
<1>6. CASE EndFrontend
  <2>1. \A h \in Handlers : conn[h] = "none"
    BY <1>0, <1>6 DEF EndFrontend, Reach, TypeOK
  <2>2. Serving' = Serving  BY <1>6 DEF EndFrontend, Serving
  <2>3. TypeOK'
    BY <1>0, <1>1, <1>6 DEF EndFrontend, TypeOK, brokerVars, Answer, Nothing, NoRequest, Request
  <2>4. Slots' /\ Reach' /\ Turns'
    BY <1>0, <1>6, <2>1, <2>2 DEF EndFrontend, Slots, Reach, Turns, brokerVars, Nothing
  <2>5. \A h \in Handlers : Shown(h)'
    BY <1>6, StrangerAssumption DEF EndFrontend, Shown, Nothing, NoRequest
  <2>6. QED  BY <1>2, <2>3, <2>4, <2>5 DEF IInv
<1>7. QED  BY <1>4, <1>5, <1>6

\* The broker accepts a connection: the only step that takes a slot.
LEMMA AcceptStep ==
    ASSUME IInv, Keeps, NEW h \in Handlers, Accept(h)
    PROVE  IInv'
<1>0. TypeOK /\ Slots /\ Reach /\ Turns /\ \A k \in Handlers : Shown(k)
  BY DEF IInv
<1>1. UNCHANGED <<broker, socket, status, leaving, ends, frontend, request, concluded>>
  BY DEF Accept
<1>2. \A t \in Tasks : Concluded(t)'  BY <1>1, ConcludedStays
<1>3. at[h] = "wait"  BY <1>0 DEF Accept, Turns
<1>4. CASE sem < MaxConcurrent /\ sem' = sem + 1
           /\ conn' = [conn EXCEPT ![h] = "serving"] /\ UNCHANGED <<at, answer>>
  <2>1. Serving' = Serving \cup {h} /\ h \notin Serving
    BY <1>0, <1>4 DEF Accept, Serving, TypeOK
  <2>2. Cardinality(Serving') = Cardinality(Serving) + 1
    BY <2>1, ServingFinite, FS_AddElement
  <2>3. TypeOK' /\ Slots'
    BY <1>0, <1>1, <1>4, <2>2, ServingFinite, LimitAssumption DEF TypeOK, Slots
  <2>4. Reach' /\ Turns'
    BY <1>0, <1>1, <1>3, <1>4 DEF Accept, Reach, Turns, TypeOK
  <2>5. \A k \in Handlers : Shown(k)'  BY <1>1, <1>4, ShownStays
  <2>6. QED  BY <1>2, <2>3, <2>4, <2>5 DEF IInv
<1>5. CASE Answered(h, [kind |-> "unavailable"]) /\ UNCHANGED sem
  <2>1. [kind |-> "unavailable"] \in Answer  BY DEF Answer, Failure
  <2>2. Turns' /\ TypeOK'
    BY <1>0, <1>1, <1>3, <1>5, <2>1, AnswerTypes DEF TypeOK
  <2>3. Serving' = Serving
    BY <1>0, <1>5 DEF Accept, Answered, Serving, TypeOK
  <2>4. Slots' /\ Reach'
    BY <1>0, <1>1, <1>5, <2>3 DEF Answered, Slots, Reach, TypeOK
  <2>5. ASSUME NEW k \in Handlers PROVE Shown(k)'
    <3>1. CASE k = h
      BY <1>0, <1>1, <1>5, <3>1 DEF Answered, Shown, TypeOK
    <3>2. CASE k # h
      BY <1>0, <1>1, <1>5, <3>2, ShownStays DEF Answered, TypeOK
    <3>3. QED  BY <3>1, <3>2
  <2>6. QED  BY <1>2, <2>2, <2>4, <2>5 DEF IInv
<1>6. QED  BY <1>4, <1>5 DEF Accept

\* The broker answers a connection: what it says of a task is so, and is no
\* interrupted task's.
LEMMA ServeStep ==
    ASSUME IInv, Keeps, NEW h \in Handlers, Serve(h)
    PROVE  IInv'
<1>0. TypeOK /\ Slots /\ Reach /\ Turns /\ \A k \in Handlers : Shown(k)
  BY DEF IInv
<1>1. conn[h] = "serving" /\ broker \in {"listening", "stopping"}
  BY <1>0 DEF Serve, Reach
<1>2. request[h] \in Request  BY <1>0 DEF TypeOK
<1>3. \A t \in Tasks : status[t] \in Status \ {"interrupted"}
  BY <1>0, <1>1 DEF TypeOK, Reach
<1>4. PICK a \in Answer :
         /\ Answers(h, a)
         /\ status' \in [Tasks -> Status \ {"interrupted"}]
         /\ a.kind = "accepted" => status'[a.task] # "absent"
         /\ a.kind = "task" =>
               /\ request[h].task \in Tasks
               /\ a.status \in Active \cup Ended
               /\ a.status \in Ended => status'[request[h].task] = a.status
  <2>1. status \in [Tasks -> Status \ {"interrupted"}]
    BY <1>0, <1>3 DEF TypeOK
  <2>2. CASE CallTask(h)
    <3>1. CASE \E t \in Tasks :
                  /\ status[t] = "absent"
                  /\ status' = [status EXCEPT ![t] = "queued"]
                  /\ Answers(h, [kind |-> "accepted", task |-> t])
      BY <2>1, <3>1 DEF Answer, Status, Active, Ended
    <3>2. CASE Answers(h, [kind |-> "result"]) /\ UNCHANGED status
      BY <2>1, <3>2 DEF Answer
    <3>3. QED  BY <2>2, <3>1, <3>2 DEF CallTask
  <2>3. CASE Unauthorized(h) \/ CallTool(h) \/ NoTask(h)
    BY <2>1, <2>3 DEF Unauthorized, CallTool, NoTask, Answer, Failure
  <2>4. CASE GetTask(h)
    <3> DEFINE a == [kind |-> "task", status |-> status[request[h].task]]
    <3>1. a \in Answer /\ Answers(h, a) /\ request[h].task \in Tasks /\ status' = status
      BY <1>0, <2>4 DEF GetTask, Answer, TypeOK
    <3>2. status[request[h].task] # "absent"  BY <1>0, <3>1 DEF Shown
    <3>3. QED  BY <1>3, <2>1, <3>1, <3>2 DEF Status
  <2>5. CASE UpdateTask(h)
    <3>1. CASE Answers(h, [kind |-> "refused"])
      BY <2>1, <2>5, <3>1 DEF UpdateTask, Answer, Failure
    <3>2. CASE ~Answers(h, [kind |-> "refused"])
      <4> DEFINE a == [kind |-> "task", status |-> status[request[h].task]]
      <4>1. a \in Answer /\ Answers(h, a) /\ request[h].task \in Tasks /\ status' = status
        BY <1>0, <2>5, <3>2 DEF UpdateTask, Answer, TypeOK
      <4>2. status[request[h].task] # "absent"  BY <1>0, <4>1 DEF Shown
      <4>3. QED  BY <1>3, <2>1, <4>1, <4>2 DEF Status
    <3>3. QED  BY <3>1, <3>2
  <2>6. CASE CancelTask(h)
    <3> DEFINE t == request[h].task
               s == IF status[t] \in Ended THEN status[t] ELSE "cancelling"
               a == [kind |-> "task", status |-> s]
    <3>1. t \in Tasks /\ Answers(h, a) /\ status' = [status EXCEPT ![t] = s]
      BY <2>6 DEF CancelTask
    <3>2. s \in Active \cup Ended /\ a \in Answer
      BY DEF Answer, Status, Active, Ended
    <3>3. status'[t] = s /\ status' \in [Tasks -> Status \ {"interrupted"}]
      BY <2>1, <3>1, <3>2 DEF Status, Active, Ended
    <3>4. QED  BY <3>1, <3>2, <3>3
  <2>7. QED  BY <2>2, <2>3, <2>4, <2>5, <2>6 DEF Serve
<1>5. /\ UNCHANGED <<broker, socket, sem, ends, frontend, request, concluded>>
      /\ Answered(h, a)
  BY <1>4 DEF Answers
<1>6. Slots' /\ leaving' \in 0..MaxConcurrent /\ at[h] = "wait"
  BY <1>1, <1>4, AnswersSlots
<1>7. Turns' /\ TypeOK'
  BY <1>0, <1>4, <1>5, <1>6, AnswerTypes DEF TypeOK
<1>8. Reach'
  BY <1>0, <1>4, <1>5 DEF Answered, Reach, TypeOK
<1>9. ASSUME NEW k \in Handlers PROVE Shown(k)'
  <2>1. CASE k = h
    BY <1>0, <1>4, <1>5, <2>1 DEF Answered, Shown, TypeOK, Keeps
  <2>2. CASE k # h
    BY <1>0, <1>5, <2>2, ShownStays DEF Answered, TypeOK
  <2>3. QED  BY <2>1, <2>2
<1>10. \A t \in Tasks : Concluded(t)'  BY <1>5, ConcludedStays
<1>11. QED  BY <1>6, <1>7, <1>8, <1>9, <1>10 DEF IInv

\* Telling a client: a conclusion told now is the task's, and one told before
\* is still it.
LEMMA TellStep ==
    ASSUME IInv, Keeps, NEW h \in Handlers, answer[h].kind = "task",
           status' = status, Tell(h)
    PROVE  /\ concluded' \in [Tasks -> Conclusion \cup {"none"}]
           /\ \A t \in Tasks : Concluded(t)'
<1> DEFINE t == request[h].task
           s == ExtensionStatus[answer[h].status]
<1>0. TypeOK /\ Shown(h) /\ \A u \in Tasks : Concluded(u)  BY DEF IInv
<1>1. /\ t \in Tasks /\ answer[h].status \in Active \cup Ended
      /\ answer[h].status \in Ended => status[t] = answer[h].status
  BY <1>0 DEF Shown
<1>2. CASE s \in Conclusion /\ concluded[t] = "none"
  <2>1. concluded' = [concluded EXCEPT ![t] = s]  BY <1>2 DEF Tell
  <2>2. answer[h].status \in Ended
    BY <1>1, <1>2 DEF ExtensionStatus, Conclusion, Status, Active, Ended
  <2>3. status[t] \in Ended /\ ExtensionStatus[status[t]] = s  BY <1>1, <2>2
  <2>4. QED  BY <1>0, <1>1, <1>2, <2>1, <2>3 DEF TypeOK, Concluded
<1>3. CASE ~(s \in Conclusion /\ concluded[t] = "none")
  <2>1. concluded' = concluded  BY <1>3 DEF Tell
  <2>2. QED  BY <1>0, <2>1, ConcludedStays DEF TypeOK
<1>4. QED  BY <1>2, <1>3

\* A handler of the frontend asks, connects, waits for its tick or gives up.
LEMMA AskStep ==
    ASSUME IInv, Keeps, NEW h \in Handlers, Ask(h) \/ Dial(h) \/ Tick(h) \/ Leave(h)
    PROVE  IInv'
<1>0. TypeOK /\ Slots /\ Reach /\ Turns /\ \A k \in Handlers : Shown(k)
  BY DEF IInv
<1>1. UNCHANGED <<brokerVars, frontend, concluded>>
  BY DEF Ask, Dial, Tick, Leave
<1>2. \A t \in Tasks : Concluded(t)'  BY <1>1, ConcludedStays
<1>3. at[h] \in {"idle", "dial", "poll"} /\ conn[h] = "none" /\ answer[h] = Nothing
  BY <1>0 DEF Ask, Dial, Tick, Leave, Turns
<1>4. /\ \A k \in Handlers \ {h} : at'[k] = at[k] /\ conn'[k] = conn[k]
                                  /\ request'[k] = request[k] /\ answer'[k] = answer[k]
      /\ conn'[h] \in {"none", "queued"}
  BY <1>0, <1>3 DEF Ask, Dial, Tick, Leave, Return, TypeOK
<1>5. Serving' = Serving
  BY <1>3, <1>4 DEF Serving
<1>6. Slots'  BY <1>0, <1>1, <1>5 DEF Slots, brokerVars
<1>7. CASE Ask(h)
  <2>1. TypeOK'
    BY <1>0, <1>1, <1>7 DEF Ask, TypeOK, brokerVars
  <2>2. Reach' /\ Turns'
    BY <1>0, <1>1, <1>3, <1>7 DEF Ask, Reach, Turns, TypeOK, brokerVars
  <2>3. Shown(h)'
    BY <1>0, <1>1, <1>3, <1>7, StrangerAssumption
    DEF Ask, Shown, Known, TypeOK, Nothing, brokerVars
  <2>4. \A k \in Handlers : Shown(k)'
    BY <1>4, <2>3, ShownStays
  <2>5. QED  BY <1>2, <1>6, <2>1, <2>2, <2>4 DEF IInv
<1>8. CASE Dial(h)
  <2>1. answer'[h] \in Answer /\ answer'[h].kind \notin {"task", "accepted"}
        /\ answer' \in [Handlers -> Answer]
    BY <1>0, <1>3, <1>8 DEF Dial, TypeOK, Answer, Failure, Nothing
  <2>2. TypeOK'
    BY <1>0, <1>1, <1>8, <2>1 DEF Dial, TypeOK, brokerVars
  <2>3. Reach' /\ Turns'
    BY <1>0, <1>1, <1>3, <1>8 DEF Dial, Reach, Turns, TypeOK, brokerVars
  <2>4. Shown(h)'
    BY <1>0, <1>1, <1>8, <2>1 DEF Dial, Shown, brokerVars
  <2>5. \A k \in Handlers : Shown(k)'
    BY <1>4, <2>4, ShownStays
  <2>6. QED  BY <1>2, <1>6, <2>2, <2>3, <2>5 DEF IInv
<1>9. CASE Tick(h) \/ Leave(h)
  <2>1. TypeOK'
    BY <1>0, <1>1, <1>9 DEF Tick, Leave, Return, TypeOK, brokerVars, NoRequest, Request
  <2>2. Reach' /\ Turns'
    BY <1>0, <1>1, <1>3, <1>9 DEF Tick, Leave, Return, Reach, Turns, TypeOK, brokerVars
  <2>3. Shown(h)'
    BY <1>0, <1>1, <1>3, <1>9, StrangerAssumption
    DEF Tick, Leave, Return, Shown, TypeOK, Nothing, NoRequest, brokerVars
  <2>4. \A k \in Handlers : Shown(k)'
    BY <1>4, <2>3, ShownStays
  <2>5. QED  BY <1>2, <1>6, <2>1, <2>2, <2>4 DEF IInv
<1>10. QED  BY <1>7, <1>8, <1>9

\* A handler reacts to what the broker answered.
LEMMA ReactStep ==
    ASSUME IInv, Keeps, NEW h \in Handlers, React(h)
    PROVE  IInv'
<1>0. TypeOK /\ Slots /\ Reach /\ Turns /\ \A k \in Handlers : Shown(k)
  BY DEF IInv
<1>1. /\ UNCHANGED <<brokerVars, frontend, conn>> /\ at[h] = "react"
      /\ answer' = [answer EXCEPT ![h] = Nothing]
  BY DEF React
<1>2. status' = status  BY <1>1 DEF brokerVars
<1>3. /\ at' \in [Handlers -> {"idle", "dial", "wait", "react", "poll"}]
      /\ at'[h] \in {"idle", "dial", "poll"}
      /\ \A k \in Handlers \ {h} : at'[k] = at[k] /\ request'[k] = request[k]
  BY <1>0 DEF React, Fail, Finish, ReadBack, Reply, Stream, Return, TypeOK
<1>4. /\ request'[h] \in Request /\ request' \in [Handlers -> Request]
      /\ request'[h].task \in Tasks => status[request'[h].task] # "absent"
  <2>1. CASE ReadBack(h)
    <3>1. answer[h].task \in Tasks
      BY <1>0, <2>1 DEF ReadBack, TypeOK, Answer, Failure
    <3>2. request' = [request EXCEPT ![h].task = answer[h].task]  BY <2>1 DEF ReadBack
    <3>3. QED
      BY <1>0, <2>1, <3>1, <3>2 DEF ReadBack, TypeOK, Request, Shown
  <2>2. CASE ~ReadBack(h)
    <3>1. UNCHANGED request \/ request' = [request EXCEPT ![h] = NoRequest]
      BY <2>2 DEF React, Fail, Finish, Reply, Stream, Return
    <3>2. QED
      BY <1>0, <3>1, StrangerAssumption DEF TypeOK, Request, NoRequest, Shown
  <2>3. QED  BY <2>1, <2>2
<1>5. /\ concluded' \in [Tasks -> Conclusion \cup {"none"}]
      /\ \A t \in Tasks : Concluded(t)'
  <2>1. CASE answer[h].kind = "task" /\ Tell(h)
    BY <1>2, <2>1, TellStep
  <2>2. CASE UNCHANGED concluded
    BY <1>0, <2>2, ConcludedStays DEF TypeOK
  <2>3. QED
    BY <2>1, <2>2 DEF React, Fail, Finish, ReadBack, Reply, Stream
<1>6. TypeOK'
  BY <1>0, <1>1, <1>3, <1>4, <1>5 DEF TypeOK, brokerVars, Answer, Nothing
<1>7. Serving' = Serving  BY <1>1 DEF Serving
<1>8. Slots' /\ Reach'
  BY <1>0, <1>1, <1>7 DEF Slots, Reach, brokerVars
<1>9. Turns'
  BY <1>0, <1>1, <1>3 DEF Turns, TypeOK
<1>10. Shown(h)'
  BY <1>0, <1>1, <1>2, <1>4 DEF Shown, TypeOK, Nothing
<1>11. \A k \in Handlers : Shown(k)'
  BY <1>0, <1>1, <1>3, <1>10, ShownStays DEF TypeOK
<1>12. QED  BY <1>5, <1>6, <1>8, <1>9, <1>11 DEF IInv

----------------------------------------------------------------------------
(* The theorems.                                                           *)

\* The invariant holds of every behaviour: slots are exact, connections exist
\* only where the broker is there for them, and what was told is so
\* (ListenAndServe, Client.request, dispatch and streamTask together).
THEOREM IInvCorrect == Spec => []IInv
<1>1. ASSUME IInv, [Next]_vars PROVE IInv'
  <2>1. Keeps  BY <1>1, KeepsStep
  <2>2. ASSUME NEW h \in Handlers, Handle(h) \/ Accept(h) \/ Serve(h) PROVE IInv'
    BY <1>1, <2>1, <2>2, AskStep, ReactStep, AcceptStep, ServeStep DEF Handle
  <2>3. CASE Release \/ Processes \/ \E t \in Tasks : Begin(t) \/ End(t)
    BY <1>1, <2>1, <2>3, BackgroundStep, EndStep DEF Processes
  <2>4. CASE UNCHANGED vars
    <3>1. Serving' = Serving  BY <2>4 DEF vars, handlerVars, Serving
    <3>2. TypeOK' /\ Slots'
      BY <1>1, <2>4, <3>1
      DEF IInv, TypeOK, Slots, vars, brokerVars, handlerVars
    <3>3. Reach' /\ Turns'
      BY <1>1, <2>4 DEF IInv, Reach, Turns, vars, brokerVars, handlerVars
    <3>4. \A h \in Handlers : Shown(h)'
      BY <1>1, <2>1, <2>4, ShownStays DEF vars, handlerVars
    <3>5. \A t \in Tasks : Concluded(t)'
      BY <1>1, <2>1, <2>4, ConcludedStays DEF vars
    <3>6. QED  BY <3>2, <3>3, <3>4, <3>5 DEF IInv
  <2>5. QED  BY <1>1, <2>2, <2>3, <2>4 DEF Next
<1>2. QED  BY <1>1, InitIInv, PTL DEF Spec

\* Every variable keeps its type: no more slots are taken than there are, and
\* none is given back twice (the semaphore of ListenAndServe).
THEOREM TypeCorrect == Spec => []TypeOK
<1>1. IInv => TypeOK  BY DEF IInv
<1>2. QED  BY <1>1, IInvCorrect, PTL

\* The conclusion a client was told of a task is what everybody is told from
\* then on, over any number of restarts (extensionTaskStatus, New,
\* ResumeInterrupted, ListenAndServe).
THEOREM ConclusionStandsCorrect == Spec => []ConclusionStands
<1>1. IInv => ConclusionStands  BY DEF IInv, Concluded, ConclusionStands
<1>2. QED  BY <1>1, IInvCorrect, PTL

=============================================================================
