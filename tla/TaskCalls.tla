----------------------------- MODULE TaskCalls -----------------------------
(***************************************************************************)
(* internal/mcpapi/tasks_http.go over internal/broker: how a client's      *)
(* request of the tasks extension becomes calls of the broker, and what    *)
(* the client is told in the end.                                          *)
(*                                                                         *)
(* A handler of the frontend makes one connection per call.  The broker    *)
(* accepts it, takes a slot or answers BUSY, checks the peer, runs the     *)
(* method and gives the slot back after the answer.  tasks/get may be      *)
(* streamed: the handler calls again at every tick and tells what changed. *)
(* The broker may be terminated, which unlinks its socket and drains its   *)
(* calls, or killed, which leaves a stale socket file; the supervisor then *)
(* ends the frontend and starts both again.                                *)
(*                                                                         *)
(* The task manager is reduced to the statuses it shows (TaskManager has   *)
(* its inside); every task the service submits is durable, and no snapshot *)
(* write fails here.  A state is its status: the queued and the running    *)
(* task differ as two updates of one do.  The identifiers of requests, the *)
(* texts of results and the intervals are left out.                        *)
(***************************************************************************)
EXTENDS Naturals, FiniteSets

CONSTANTS
    Tasks,          \* identifiers Submit may draw
    Stranger,       \* an identifier no task has
    Handlers,       \* requests the frontend handles at the same time
    MaxConcurrent,  \* ServerOptions.MaxConcurrent
    MaxEnds         \* bound: ends of the broker process

ASSUME StrangerAssumption == Stranger \notin Tasks
ASSUME HandlersAssumption == IsFiniteSet(Handlers)
ASSUME LimitAssumption ==
    MaxConcurrent \in Nat \ {0} /\ MaxEnds \in Nat

Active == {"queued", "running", "cancelling"}
Ended  == {"succeeded", "failed", "cancelled"}    \* failed is also timed_out
Status == Active \cup Ended \cup {"absent", "interrupted"}

Conclusion == {"completed", "failed", "cancelled"}

\* What the client asks of a task, or a tool to be called as a task or at once.
AboutTask == {"get", "stream", "update", "cancel"}
Request   == [op : AboutTask \cup {"call", "tool"}, task : Tasks \cup {Stranger}]

Failure == {"not_found", "no_socket", "unavailable", "refused"}
Answer  == [kind : {"task"}, status : Status]
           \cup [kind : {"accepted"}, task : Tasks]
           \cup [kind : {"none", "result"} \cup Failure]

VARIABLES
    \* broker
    broker,     \* down, loading, resumed, listening or stopping
    socket,     \* the socket file: none, stale or listening
    status,     \* the tasks, as the manager and its snapshots have them
    sem,        \* slots taken
    leaving,    \* connections that are answered and still have their slot
    \* frontend
    frontend,   \* none, started or known (its PID is in frontend.pid)
    at,         \* idle, dial, wait, react or poll
    request,
    conn,       \* none, queued (not accepted yet) or serving
    answer,     \* what Client.request returned
    \* history
    concluded,  \* the first conclusion any client was told of a task
    ends        \* ends of the broker process

brokerVars  == <<broker, socket, status, sem, leaving, ends>>
handlerVars == <<at, request, conn, answer>>
vars == <<brokerVars, frontend, handlerVars, concluded>>

TypeOK ==
    /\ broker \in {"down", "loading", "resumed", "listening", "stopping"}
    /\ socket \in {"none", "stale", "listening"}
    /\ status \in [Tasks -> Status]
    /\ sem \in 0..MaxConcurrent
    /\ leaving \in 0..MaxConcurrent
    /\ frontend \in {"none", "started", "known"}
    /\ at \in [Handlers -> {"idle", "dial", "wait", "react", "poll"}]
    /\ request \in [Handlers -> Request]
    /\ conn \in [Handlers -> {"none", "queued", "serving"}]
    /\ answer \in [Handlers -> Answer]
    /\ concluded \in [Tasks -> Conclusion \cup {"none"}]
    /\ ends \in 0..MaxEnds

Nothing   == [kind |-> "none"]
NoRequest == [op |-> "tool", task |-> Stranger]

Init ==
    /\ broker = "down" /\ socket = "none" /\ sem = 0 /\ leaving = 0 /\ ends = 0
    /\ status = [t \in Tasks |-> "absent"]
    /\ frontend = "none"
    /\ at = [h \in Handlers |-> "idle"]
    /\ request = [h \in Handlers |-> NoRequest]
    /\ conn = [h \in Handlers |-> "none"]
    /\ answer = [h \in Handlers |-> Nothing]
    /\ concluded = [t \in Tasks |-> "none"]

-----------------------------------------------------------------------------
(* The answers of the extension.                                           *)

\* extensionTaskStatus and taskResult: a task that ran and failed has a result
\* and is completed; an interrupted one has none.
ExtensionStatus ==
    [s \in Status |-> IF s \in Active THEN "working"
                      ELSE IF s = "cancelled" THEN "cancelled"
                      ELSE IF s = "interrupted" THEN "failed" ELSE "completed"]

\* taskTerminal.
Terminal(s) == s \in {"completed", "failed", "cancelled"}

\* What dispatch makes of the call's outcome: a socket file that is missing is
\* os.ErrNotExist like a missing task, and params of tools/call have no taskId.
Told(h) ==
    IF answer[h].kind \notin Failure THEN "result"
    ELSE IF answer[h].kind \in {"not_found", "no_socket"} \/ request[h].op = "call"
    THEN "invalid_params" ELSE "internal"

-----------------------------------------------------------------------------
(* The handlers of the frontend.                                           *)

\* The client knows the identifiers of accepted tasks, and may make one up.
Known == {t \in Tasks : status[t] # "absent"} \cup {Stranger}

\* A request that is no JSON-RPC, has another version or method, does not declare
\* the extension or has the wrong headers is answered at once and asks nothing.
Ask(h) ==
    /\ frontend # "none" /\ at[h] = "idle"
    /\ \E r \in Request :
        /\ IF r.op \in AboutTask THEN r.task \in Known ELSE r.task = Stranger
        /\ request' = [request EXCEPT ![h] = r]
    /\ at' = [at EXCEPT ![h] = "dial"]
    /\ UNCHANGED <<brokerVars, frontend, conn, answer, concluded>>

\* Client.request: connect to the socket file.
Dial(h) ==
    /\ at[h] = "dial"
    /\ \/ /\ socket = "listening"
          /\ at' = [at EXCEPT ![h] = "wait"]
          /\ conn' = [conn EXCEPT ![h] = "queued"]
          /\ UNCHANGED answer
       \/ /\ socket # "listening"
          /\ at' = [at EXCEPT ![h] = "react"]
          /\ answer' = [answer EXCEPT ![h].kind =
                          IF socket = "none" THEN "no_socket" ELSE "unavailable"]
          /\ UNCHANGED conn
    /\ UNCHANGED <<brokerVars, frontend, request, concluded>>

\* The client is told a state; a conclusion is remembered.
Tell(h) ==
    LET t == request[h].task
        s == ExtensionStatus[answer[h].status]
    IN concluded' = IF s \in Conclusion /\ concluded[t] = "none"
                    THEN [concluded EXCEPT ![t] = s] ELSE concluded

Return(h) ==
    /\ at' = [at EXCEPT ![h] = "idle"]
    /\ request' = [request EXCEPT ![h] = NoRequest]

\* Mutant of Fail: a stream polls on after an error.
FailPollsOn(h) ==
    /\ answer[h].kind \in Failure /\ request[h].op # "tool"
    /\ ~(request[h].op = "call" /\ request[h].task = Stranger)
    /\ UNCHANGED concluded
    /\ IF request[h].op = "stream"
       THEN at' = [at EXCEPT ![h] = "poll"] /\ UNCHANGED request
       ELSE Return(h)

\* The call failed: the error is the answer, of a stream the last event.
Fail(h) ==
    /\ answer[h].kind \in Failure /\ request[h].op # "tool"
    /\ ~(request[h].op = "call" /\ request[h].task = Stranger)
    /\ Return(h) /\ UNCHANGED concluded

\* A tool that was called at once, a task that was not accepted and a broker
\* that cannot be reached are all results of the tool.
Finish(h) ==
    /\ \/ request[h].op = "tool"
       \/ /\ request[h].op = "call" /\ request[h].task = Stranger
          /\ answer[h].kind # "accepted"
    /\ Return(h) /\ UNCHANGED concluded

\* callToolAsTask: the state of the accepted task is read by a second call.
ReadBack(h) ==
    /\ request[h].op = "call" /\ answer[h].kind = "accepted"
    /\ request' = [request EXCEPT ![h].task = answer[h].task]
    /\ at' = [at EXCEPT ![h] = "dial"]
    /\ UNCHANGED concluded

\* The state of a task ends every request but a stream.
Reply(h) ==
    /\ answer[h].kind = "task" /\ request[h].op # "stream"
    /\ IF request[h].op \in {"get", "call"} THEN Tell(h) ELSE UNCHANGED concluded
    /\ Return(h)

\* streamTask: the first state is the response, a changed one two notifications,
\* an equal one nothing; the stream ends with a terminal state.
Stream(h) ==
    /\ answer[h].kind = "task" /\ request[h].op = "stream"
    /\ Tell(h)
    /\ IF Terminal(ExtensionStatus[answer[h].status]) THEN Return(h)
       ELSE /\ at' = [at EXCEPT ![h] = "poll"]
            /\ UNCHANGED request

React(h) ==
    /\ at[h] = "react"
    /\ Fail(h) \/ Finish(h) \/ ReadBack(h) \/ Reply(h) \/ Stream(h)
    /\ answer' = [answer EXCEPT ![h] = Nothing]
    /\ UNCHANGED <<brokerVars, frontend, conn>>

\* Between two calls a stream waits for its tick or for its client to leave.
Tick(h) ==
    /\ at[h] = "poll"
    /\ at' = [at EXCEPT ![h] = "dial"]
    /\ UNCHANGED <<brokerVars, frontend, request, conn, answer, concluded>>

Leave(h) ==
    /\ at[h] = "poll"
    /\ Return(h)
    /\ UNCHANGED <<brokerVars, frontend, conn, answer, concluded>>

-----------------------------------------------------------------------------
(* The connections of the broker.                                          *)

Answered(h, a) ==
    /\ answer' = [answer EXCEPT ![h] = a]
    /\ at' = [at EXCEPT ![h] = "react"]
    /\ conn' = [conn EXCEPT ![h] = "none"]

\* Mutant of Accept: one connection too many.
AcceptOneMore(h) ==
    /\ broker = "listening" /\ conn[h] = "queued"
    /\ \/ /\ sem <= MaxConcurrent
          /\ sem' = sem + 1
          /\ conn' = [conn EXCEPT ![h] = "serving"]
          /\ UNCHANGED <<at, answer>>
       \/ /\ sem > MaxConcurrent
          /\ Answered(h, [kind |-> "unavailable"])
          /\ UNCHANGED sem
    /\ UNCHANGED <<broker, socket, status, leaving, ends, frontend,
                   request, concluded>>

\* ListenAndServe takes a slot or answers BUSY; that answer has no identifier,
\* so the client takes it for an answer of another request.
Accept(h) ==
    /\ broker = "listening" /\ conn[h] = "queued"
    /\ \/ /\ sem < MaxConcurrent
          /\ sem' = sem + 1
          /\ conn' = [conn EXCEPT ![h] = "serving"]
          /\ UNCHANGED <<at, answer>>
       \/ /\ sem = MaxConcurrent
          /\ Answered(h, [kind |-> "unavailable"])
          /\ UNCHANGED sem
    /\ UNCHANGED <<broker, socket, status, leaving, ends, frontend,
                   request, concluded>>

\* The method answers and its slot is given back a little later.
Answers(h, a) ==
    /\ Answered(h, a)
    /\ leaving' = leaving + 1
    /\ UNCHANGED <<broker, socket, sem, ends, frontend, request, concluded>>

\* authorizePeer refuses a frontend whose PID is not written yet, without an
\* identifier as well.
Unauthorized(h) ==
    /\ frontend # "known"
    /\ Answers(h, [kind |-> "unavailable"])
    /\ UNCHANGED status

\* Service.Call with background: the task is submitted, or turned down.
CallTask(h) ==
    /\ request[h].op = "call" /\ request[h].task = Stranger
    /\ \/ \E t \in Tasks :
            /\ status[t] = "absent"
            /\ status' = [status EXCEPT ![t] = "queued"]
            /\ Answers(h, [kind |-> "accepted", task |-> t])
       \/ Answers(h, [kind |-> "result"]) /\ UNCHANGED status

\* Service.Call of a tool that runs at once: it has its slot until it ends.
CallTool(h) ==
    /\ request[h].op = "tool"
    /\ Answers(h, [kind |-> "result"])
    /\ UNCHANGED status

NoTask(h) ==
    /\ request[h].op \in AboutTask /\ request[h].task = Stranger
    /\ Answers(h, [kind |-> "not_found"])
    /\ UNCHANGED status

\* tasks/update with inputResponses only looks whether the task is there.
GetTask(h) ==
    /\ request[h].op \in {"get", "stream", "update", "call"}
    /\ request[h].task \in Tasks
    /\ Answers(h, [kind |-> "task", status |-> status[request[h].task]])
    /\ UNCHANGED status

\* Manager.Update changes the progress and the message of a task that has not
\* ended; another task or a progress out of range is an error.
UpdateTask(h) ==
    LET t == request[h].task
    IN /\ request[h].op = "update" /\ t \in Tasks
       /\ \/ status[t] \notin Ended /\ Answers(h, [kind |-> "task", status |-> status[t]])
          \/ Answers(h, [kind |-> "refused"])
       /\ UNCHANGED status

\* Manager.Cancel.
CancelTask(h) ==
    LET t == request[h].task
        s == IF status[t] \in Ended THEN status[t] ELSE "cancelling"
    IN /\ request[h].op = "cancel" /\ t \in Tasks
       /\ status' = [status EXCEPT ![t] = s]
       /\ Answers(h, [kind |-> "task", status |-> s])

\* serveConn and dispatch.
Serve(h) ==
    /\ conn[h] = "serving"
    /\ \/ Unauthorized(h)
       \/ /\ frontend = "known"
          /\ \/ CallTask(h) \/ CallTool(h) \/ NoTask(h)
             \/ GetTask(h) \/ UpdateTask(h) \/ CancelTask(h)

Release ==
    /\ leaving > 0
    /\ leaving' = leaving - 1 /\ sem' = sem - 1
    /\ UNCHANGED <<broker, socket, status, ends, frontend, handlerVars, concluded>>

-----------------------------------------------------------------------------
(* The tasks, as far as a client sees them.                                *)

Up == broker \in {"resumed", "listening", "stopping"}

Begin(t) ==
    /\ Up /\ status[t] = "queued"
    /\ status' = [status EXCEPT ![t] = "running"]
    /\ UNCHANGED <<broker, socket, sem, leaving, ends, frontend, handlerVars, concluded>>

\* A task that is being cancelled ends cancelled, whatever its runner says.
End(t) ==
    /\ Up /\ status[t] \in {"running", "cancelling"}
    /\ \E s \in IF status[t] = "cancelling" THEN {"cancelled"} ELSE Ended \ {"cancelled"} :
        status' = [status EXCEPT ![t] = s]
    /\ UNCHANGED <<broker, socket, sem, leaving, ends, frontend, handlerVars, concluded>>

-----------------------------------------------------------------------------
(* The processes.                                                          *)

\* tasks.New: what had not ended is interrupted.
Load ==
    /\ broker = "down" /\ frontend = "none"
    /\ broker' = "loading"
    /\ status' = [t \in Tasks |-> IF status[t] \in Active THEN "interrupted" ELSE status[t]]
    /\ UNCHANGED <<socket, sem, leaving, ends, frontend, handlerVars, concluded>>

\* service.New: ResumeInterrupted queues it again.
Resume ==
    /\ broker = "loading"
    /\ broker' = "resumed"
    /\ status' = [t \in Tasks |-> IF status[t] = "interrupted" THEN "queued" ELSE status[t]]
    /\ UNCHANGED <<socket, sem, leaving, ends, frontend, handlerVars, concluded>>

\* Mutant of Listen: the broker serves before it has resumed its tasks, and
\* what is interrupted is resumed later.
ListenEarly ==
    /\ \/ broker = "loading" /\ UNCHANGED status
       \/ /\ broker = "listening" /\ \E t \in Tasks : status[t] = "interrupted"
          /\ status' = [t \in Tasks |-> IF status[t] = "interrupted" THEN "queued" ELSE status[t]]
    /\ broker' = "listening" /\ socket' = "listening"
    /\ UNCHANGED <<sem, leaving, ends, frontend, handlerVars, concluded>>

\* ListenAndServe removes a stale socket and listens.
Listen ==
    /\ broker = "resumed"
    /\ broker' = "listening" /\ socket' = "listening"
    /\ UNCHANGED <<status, sem, leaving, ends, frontend, handlerVars, concluded>>

\* runPair: the frontend is started on a socket file, its PID is written later.
StartFrontend ==
    /\ broker = "listening" /\ frontend = "none"
    /\ frontend' = "started"
    /\ UNCHANGED <<brokerVars, handlerVars, concluded>>

WritePID ==
    /\ frontend = "started"
    /\ frontend' = "known"
    /\ UNCHANGED <<brokerVars, handlerVars, concluded>>

\* The connections in C are reset.
Reset(C) ==
    /\ at' = [h \in Handlers |-> IF h \in C THEN "react" ELSE at[h]]
    /\ conn' = [h \in Handlers |-> IF h \in C THEN "none" ELSE conn[h]]
    /\ answer' = [h \in Handlers |-> IF h \in C THEN [kind |-> "unavailable"] ELSE answer[h]]
    /\ UNCHANGED request

\* SIGTERM closes the listener, which unlinks the socket; calls go on.
Terminate ==
    /\ broker = "listening" /\ ends < MaxEnds
    /\ broker' = "stopping" /\ socket' = "none" /\ ends' = ends + 1
    /\ Reset({h \in Handlers : conn[h] = "queued"})
    /\ UNCHANGED <<status, sem, leaving, frontend, concluded>>

\* When the calls are through, Close cancels what it still can.
Exit ==
    /\ broker = "stopping" /\ sem = 0
    /\ broker' = "down"
    /\ \E C \in SUBSET {t \in Tasks : status[t] \in Active} :
        status' = [t \in Tasks |-> IF t \in C THEN "cancelled" ELSE status[t]]
    /\ UNCHANGED <<socket, sem, leaving, ends, frontend, handlerVars, concluded>>

\* The broker is killed: its socket file stays.
Kill ==
    /\ broker # "down" /\ ends < MaxEnds
    /\ broker' = "down" /\ ends' = ends + 1
    /\ socket' = IF socket = "listening" THEN "stale" ELSE socket
    /\ sem' = 0 /\ leaving' = 0
    /\ Reset({h \in Handlers : conn[h] # "none"})
    /\ UNCHANGED <<status, frontend, concluded>>

\* runPair ends the frontend once the broker has ended.
EndFrontend ==
    /\ broker = "down" /\ frontend # "none"
    /\ frontend' = "none"
    /\ at' = [h \in Handlers |-> "idle"]
    /\ request' = [h \in Handlers |-> NoRequest]
    /\ answer' = [h \in Handlers |-> Nothing]
    /\ UNCHANGED <<brokerVars, conn, concluded>>

-----------------------------------------------------------------------------
Handle(h) == Ask(h) \/ Dial(h) \/ React(h) \/ Tick(h) \/ Leave(h)
Processes == Load \/ Resume \/ Listen \/ StartFrontend \/ WritePID
             \/ Terminate \/ Exit \/ Kill \/ EndFrontend

Next ==
    \/ \E h \in Handlers : Handle(h) \/ Accept(h) \/ Serve(h)
    \/ Release
    \/ \E t \in Tasks : Begin(t) \/ End(t)
    \/ Processes

Spec == Init /\ [][Next]_vars

\* Goroutines go on, tickers tick, tools and tasks end (EventuallyFinal of
\* TaskManager), and the supervisor ends a frontend without a broker.
Fairness ==
    /\ \A h \in Handlers : WF_vars(Dial(h) \/ React(h) \/ Tick(h)) /\ WF_vars(Accept(h))
                           /\ WF_vars(Serve(h))
    /\ \A t \in Tasks : WF_vars(Begin(t)) /\ WF_vars(End(t))
    /\ WF_vars(EndFrontend)

FairSpec == Spec /\ Fairness

-----------------------------------------------------------------------------
(* Properties.                                                             *)

\* A conclusion a client was told stays true: over restarts, cancellations and
\* updates the task never looks different to anybody who asks again.  It rests
\* on the order of New, ResumeInterrupted and ListenAndServe and on the mapping
\* of interrupted to failed (tasks_http.go:570).
ConclusionStands ==
    \A t \in Tasks : concluded[t] # "none" => ExtensionStatus[status[t]] = concluded[t]

\* Every request is answered and every stream ends, although a full broker, an
\* unknown frontend, a restart or a cancellation gets in between: streamTask
\* leaves its loop only on a terminal state, an error or its client's end.
EveryRequestAnswered ==
    \A h \in Handlers : at[h] # "idle" ~> at[h] = "idle"

\* Invalid params means that the task is unknown (docs/MCP.md:49), and a backend
\* that fails stays an internal error (TestTaskBackendErrorRemainsInternalError,
\* tasks_http_test.go:241).  While the broker is stopping its socket file is
\* missing, and the failed connect is an os.ErrNotExist too (tasks_http.go:235).
UnknownMeansUnknown ==
    \A h \in Handlers :
        /\ at[h] = "react" /\ request[h].op \in AboutTask
        /\ Told(h) = "invalid_params"
        => request[h].task = Stranger
=============================================================================
