----------------------------- MODULE TaskRuntime -----------------------------
(***************************************************************************)
(* One detection task and the AI service that runs its cameras             *)
(* (src/internal/server/tasks.go, llm_quota.go, the task half of           *)
(* zlm_webhook.go and events.go, and the camera table of ai-analysis).     *)
(* Requests, the automatic recovery, the token-limit stop and the AI       *)
(* service's late /stopped callbacks write the same rows, one statement at *)
(* a time and with calls to the AI service in between; nothing locks them  *)
(* against one another.                                                    *)
(*                                                                         *)
(* A row is read or written in one step; the AI service answers one call   *)
(* in one or two steps.  The rows survive a crash of this process, the     *)
(* cameras do too, requests and the pending marks do not.                  *)
(***************************************************************************)
EXTENDS Integers, FiniteSets

CONSTANTS
  Devices,      \* the task's devices
  Threads,      \* goroutines that serve requests, hooks, callbacks and recovery
  Limiter,      \* the goroutine with llmQuotaStopRunning (at most one runs)
  NoDevice,
  MaxRequests,  \* bound: requests and recoveries begun
  Unhurried,    \* bound: which of them, counted from 0, wait for the ones before
  MaxFaults,    \* bound: lost answers and callbacks, plans that cannot be built
  MaxFailures,  \* bound: cameras whose stream breaks
  MaxRestarts   \* bound: crashes of this process and of the AI service

ASSUME TaskAssumption ==
  /\ IsFiniteSet(Devices) /\ Devices # {} /\ NoDevice \notin Devices
  /\ Limiter \notin Threads
  /\ MaxRequests \in Nat /\ MaxFaults \in Nat /\ MaxFailures \in Nat /\ MaxRestarts \in Nat

VARIABLES
  \* rows: the task, its status, the devices with ai_status = running, the
  \* setting task_auto_resume:<id>, and whether the recorded usage is at the limit
  exists, taskStatus, aiRunning, autoResume, reached,
  \* startupTaskResumePending (this task) and startupResumePending (its devices)
  taskPending, pending,
  \* the AI service: _camera_tasks, /stopped callbacks on their way, and the
  \* start requests whose new camera it still observes
  camera, callbacks, probing,
  \* the goroutines: what they do, and their local variables
  pc, op, todo, dev, reply, started, snap, seen,
  \* the spent part of the bounds
  requests, faults, failures, restarts,
  \* history: auto resume was switched off while nobody was starting, and nobody
  \* has asked for a start since; and nothing has disturbed the rows since the
  \* first state or the latest undisturbed sync
  held, calm

rowVars   == <<exists, taskStatus, aiRunning, autoResume, reached>>
pendVars  == <<taskPending, pending>>
aiVars    == <<camera, callbacks, probing>>
localVars == <<op, todo, dev, reply, started, snap, seen>>
boundVars == <<requests, faults, failures, restarts>>
vars == <<rowVars, pendVars, aiVars, pc, localVars, boundVars, held, calm>>

Workers == Threads \cup {Limiter}
Ops     == {"none", "start", "stop", "sync", "quick", "recover", "device", "limit",
            "stopped", "delete", "edit"}
Steps   == {"idle", "check", "gate", "call", "wait", "row", "compute", "save", "grant",
            "disable", "stopcall", "stoprow", "finish", "fetch", "mark", "syncrow",
            "syncsave", "resume", "clear", "delete", "edit"}
Statuses == {"stopped", "running", "partial"}

TypeOK ==
  /\ exists \in BOOLEAN /\ taskStatus \in Statuses /\ aiRunning \subseteq Devices
  /\ autoResume \in BOOLEAN /\ reached \in BOOLEAN
  /\ taskPending \in BOOLEAN /\ pending \subseteq Devices
  /\ camera \in [Devices -> {"none", "running", "error"}]
  /\ callbacks \in [Devices -> Nat] /\ probing \subseteq Threads
  /\ pc \in [Workers -> Steps] /\ op \in [Workers -> Ops]
  /\ todo \in [Workers -> SUBSET Devices]
  /\ dev \in [Workers -> Devices \cup {NoDevice}]
  /\ reply \in [Workers -> BOOLEAN] /\ started \in [Workers -> BOOLEAN]
  /\ snap \in [Workers -> SUBSET Devices] /\ seen \in [Workers -> Statuses]
  /\ requests \in Nat /\ faults \in Nat /\ failures \in Nat /\ restarts \in Nat
  /\ held \in BOOLEAN /\ calm \in BOOLEAN

Init ==
  /\ exists = TRUE /\ taskStatus = "stopped" /\ aiRunning = {}
  /\ autoResume = TRUE /\ reached = FALSE
  /\ taskPending = FALSE /\ pending = {}
  /\ camera = [d \in Devices |-> "none"]
  /\ callbacks = [d \in Devices |-> 0] /\ probing = {}
  /\ pc = [t \in Workers |-> "idle"] /\ op = [t \in Workers |-> "none"]
  /\ todo = [t \in Workers |-> {}] /\ dev = [t \in Workers |-> NoDevice]
  /\ reply = [t \in Workers |-> FALSE] /\ started = [t \in Workers |-> FALSE]
  /\ snap = [t \in Workers |-> {}] /\ seen = [t \in Workers |-> "stopped"]
  /\ requests = 0 /\ faults = 0 /\ failures = 0 /\ restarts = 0
  /\ held = FALSE /\ calm = TRUE

-----------------------------------------------------------------------------
\* computeTaskRuntimeStatus, of the devices that count as running.
StatusOf(S) ==
  IF S = Devices THEN "running" ELSE IF S # {} THEN "partial" ELSE "stopped"

RunningCameras == {d \in Devices : camera[d] = "running"}
AllIdle  == \A t \in Workers : pc[t] = "idle"
Alone(t) == \A u \in Workers \ {t} : pc[u] = "idle"
NoCallbacks == \A d \in Devices : callbacks[d] = 0

\* A goroutine that may still start a camera, or switch auto resume on.
Starting(t) ==
  \/ op[t] \in {"start", "quick"} /\ pc[t] # "idle"
  \/ op[t] \in {"recover", "device"} /\ pc[t] \in {"gate", "call", "wait", "row"}

Goto(t, step) == pc' = [pc EXCEPT ![t] = step]

\* The goroutine is done; what its local variables held does not matter any more.
Return(t) ==
  /\ pc' = [pc EXCEPT ![t] = "idle"]
  /\ op' = [op EXCEPT ![t] = "none"]
  /\ todo' = [todo EXCEPT ![t] = {}]
  /\ dev' = [dev EXCEPT ![t] = NoDevice]
  /\ reply' = [reply EXCEPT ![t] = FALSE]
  /\ started' = [started EXCEPT ![t] = FALSE]
  /\ snap' = [snap EXCEPT ![t] = {}]
  /\ seen' = [seen EXCEPT ![t] = "stopped"]

\* The answer for one device has been dealt with.
Forget(t) ==
  /\ dev' = [dev EXCEPT ![t] = NoDevice]
  /\ reply' = [reply EXCEPT ![t] = FALSE]

\* A goroutine begins operation o at the given step, for the devices S.
Begin(t, o, step, S) ==
  /\ pc[t] = "idle"
  /\ pc' = [pc EXCEPT ![t] = step]
  /\ op' = [op EXCEPT ![t] = o]
  /\ todo' = [todo EXCEPT ![t] = S]
  /\ calm' = (calm /\ Alone(t) /\ NoCallbacks)

\* A request or a recovery.
Request(t, o, step, S) ==
  /\ t \in Threads /\ requests < MaxRequests
  /\ requests \in Unhurried => \A u \in Threads : pc[u] = "idle"
  /\ Begin(t, o, step, S)
  /\ requests' = requests + 1
  /\ UNCHANGED <<dev, reply, started, snap, faults, failures, restarts>>

\* A fault is spent, and the rows can no longer be expected to be right.
Fault ==
  /\ faults < MaxFaults
  /\ faults' = faults + 1
  /\ calm' = FALSE
  /\ UNCHANGED <<requests, failures, restarts>>

NoFault == UNCHANGED <<calm, boundVars>>

\* setTaskAutoResumeIntent(id, false), clearStartupResumePendingByTask and
\* clearStartupTaskResumePendingByTask.
SwitchOffAutoResume == autoResume' = FALSE /\ taskPending' = FALSE /\ pending' = {}

-----------------------------------------------------------------------------
(* Starting cameras.                                                       *)

\* startTask: a running task is left alone.
BeginStart(t) ==
  /\ exists /\ taskStatus # "running"
  /\ Request(t, "start", "check", Devices)
  /\ held' = FALSE
  /\ UNCHANGED <<rowVars, pendVars, aiVars, seen>>

\* quickUpdateTaskDeviceConfig has saved the configuration of device d and
\* reads whether it is running.
BeginQuick(t, d) ==
  /\ exists
  /\ Request(t, "quick", "check", {d})
  /\ seen' = [seen EXCEPT ![t] = IF d \in aiRunning THEN "running" ELSE "stopped"]
  /\ held' = FALSE
  /\ UNCHANGED <<rowVars, pendVars, aiVars>>

\* The handler asks ensureLLMTokenQuotaAvailable before anything else.
Check(t) ==
  /\ pc[t] = "check"
  /\ IF reached
       THEN SwitchOffAutoResume /\ Return(t)
       ELSE /\ Goto(t, IF op[t] = "quick" /\ seen[t] = "running" THEN "stopcall" ELSE "gate")
            /\ UNCHANGED <<autoResume, pendVars, localVars>>
  /\ UNCHANGED <<exists, taskStatus, aiRunning, reached, aiVars, boundVars, held, calm>>

\* Mutant: startTaskRuntimes does not ask again.
GateOpen(t) ==
  /\ pc[t] = "gate"
  /\ Goto(t, "call")
  /\ UNCHANGED <<rowVars, pendVars, aiVars, localVars, boundVars, held, calm>>

\* startTaskRuntimes asks once more, for all its devices.
Gate(t) ==
  /\ pc[t] = "gate"
  /\ IF reached
       THEN /\ SwitchOffAutoResume
            /\ todo' = [todo EXCEPT ![t] = {}]
            /\ Goto(t, "compute")
       ELSE Goto(t, "call") /\ UNCHANGED <<autoResume, pendVars, todo>>
  /\ UNCHANGED <<exists, taskStatus, aiRunning, reached, aiVars, op, dev, reply, started, snap,
                 seen, boundVars, held, calm>>

\* The AI service gets the start request: a camera it has already, in whatever
\* state, is answered at once; a new one is registered and observed.
StartCall(t) ==
  /\ pc[t] = "call"
  /\ \E d \in todo[t] :
       /\ dev' = [dev EXCEPT ![t] = d]
       /\ IF camera[d] = "none"
            THEN /\ camera' = [camera EXCEPT ![d] = "running"]
                 /\ probing' = probing \cup {t}
                 /\ Goto(t, "wait")
                 /\ UNCHANGED reply
            ELSE /\ reply' = [reply EXCEPT ![t] = TRUE]
                 /\ Goto(t, "row")
                 /\ UNCHANGED <<camera, probing>>
       /\ calm' = (calm /\ callbacks[d] = 0)
  /\ UNCHANGED <<rowVars, pendVars, callbacks, op, todo, started, snap, seen, boundVars, held>>

\* The device has no plan or no stream address, the service is not reached, or
\* it refuses the request.
StartRefused(t) ==
  /\ pc[t] = "call"
  /\ \E d \in todo[t] : dev' = [dev EXCEPT ![t] = d]
  /\ reply' = [reply EXCEPT ![t] = FALSE]
  /\ Goto(t, "row")
  /\ Fault
  /\ UNCHANGED <<rowVars, pendVars, aiVars, op, todo, started, snap, seen, held>>

\* wait_start_stream_info: the stream shows up (or may still), or it has failed
\* and the new camera is removed.
StartReply(t) ==
  /\ pc[t] = "wait"
  /\ \/ /\ camera[dev[t]] # "error" \/ t \notin probing
        /\ reply' = [reply EXCEPT ![t] = TRUE]
        /\ UNCHANGED camera
     \/ /\ reply' = [reply EXCEPT ![t] = FALSE]
        /\ camera' = IF t \in probing THEN [camera EXCEPT ![dev[t]] = "none"] ELSE camera
  /\ probing' = probing \ {t}
  /\ Goto(t, "row")
  /\ UNCHANGED <<rowVars, pendVars, callbacks, op, todo, dev, started, snap, seen, boundVars,
                 held, calm>>

\* The answer does not arrive within the 15 seconds the caller waits.
StartReplyLost(t) ==
  /\ pc[t] = "wait"
  /\ reply' = [reply EXCEPT ![t] = FALSE]
  /\ probing' = probing \ {t}
  /\ Goto(t, "row")
  /\ Fault
  /\ UNCHANGED <<rowVars, pendVars, camera, callbacks, op, todo, dev, started, snap, seen, held>>

\* The device's row follows the answer; a started device is no longer pending.
StartRow(t) ==
  /\ pc[t] = "row"
  /\ LET d == dev[t] IN
       /\ aiRunning' = IF reply[t] THEN aiRunning \cup {d} ELSE aiRunning \ {d}
       /\ pending' = IF reply[t] THEN pending \ {d} ELSE pending
       /\ todo' = [todo EXCEPT ![t] = todo[t] \ {d}]
       /\ Goto(t, IF todo[t] \subseteq {d} THEN "compute" ELSE "call")
  /\ started' = [started EXCEPT ![t] = started[t] \/ reply[t]]
  /\ Forget(t)
  /\ UNCHANGED <<exists, taskStatus, autoResume, reached, taskPending, aiVars, op, snap, seen,
                 boundVars, held, calm>>

\* computeTaskRuntimeStatus reads the rows ...
Compute(t) ==
  /\ pc[t] = "compute"
  /\ snap' = [snap EXCEPT ![t] = aiRunning]
  /\ Goto(t, "save")
  /\ UNCHANGED <<rowVars, pendVars, aiVars, op, todo, dev, reply, started, seen, boundVars,
                 held, calm>>

\* Only a task that still exists has a row to update.
SaveStatus(status) == taskStatus' = IF exists THEN status ELSE taskStatus

\* Mutant: the limit stop leaves llmQuotaStopRunning set.
SaveKeepingFlag(t) ==
  /\ pc[t] = "save"
  /\ SaveStatus(StatusOf(snap[t]))
  /\ IF op[t] \in {"start", "quick"} /\ started[t]
       THEN Goto(t, "grant") /\ UNCHANGED localVars
     ELSE IF op[t] = "recover"
       THEN Goto(t, "clear") /\ UNCHANGED localVars
     ELSE IF t = Limiter
       THEN UNCHANGED <<pc, localVars>>
       ELSE Return(t)
  /\ UNCHANGED <<exists, aiRunning, autoResume, reached, pendVars, aiVars, boundVars, held, calm>>

\* ... and updateTaskRuntimeStatus (or its like) writes what they said.
Save(t) ==
  /\ pc[t] = "save"
  /\ SaveStatus(StatusOf(snap[t]))
  /\ IF op[t] \in {"start", "quick"} /\ started[t]
       THEN Goto(t, "grant") /\ UNCHANGED localVars
     ELSE IF op[t] = "recover"
       THEN Goto(t, "clear") /\ UNCHANGED localVars
       ELSE Return(t)
  /\ UNCHANGED <<exists, aiRunning, autoResume, reached, pendVars, aiVars, boundVars, held, calm>>

\* A start that reached a camera switches auto resume on.
Grant(t) ==
  /\ pc[t] = "grant"
  /\ autoResume' = TRUE
  /\ IF op[t] = "start" THEN taskPending' = FALSE /\ pending' = {} ELSE UNCHANGED pendVars
  /\ Return(t)
  /\ UNCHANGED <<exists, taskStatus, aiRunning, reached, aiVars, boundVars, held, calm>>

-----------------------------------------------------------------------------
(* Stopping cameras.                                                       *)

\* stopTask reads the task.
BeginStop(t) ==
  /\ exists
  /\ Request(t, "stop", "disable", Devices)
  /\ seen' = [seen EXCEPT ![t] = taskStatus]
  /\ UNCHANGED <<rowVars, pendVars, aiVars, held>>

\* A camera has reported usage and the limit is reached:
\* stopTasksWhenLLMTokenLimitReached picks the devices whose rows say running.
BeginLimitStop ==
  /\ reached /\ RunningCameras # {}
  /\ exists /\ aiRunning # {}
  /\ Begin(Limiter, "limit", "disable", aiRunning)
  /\ UNCHANGED <<rowVars, pendVars, aiVars, dev, reply, started, snap, seen, boundVars, held>>

\* Both switch auto resume off first.  A task whose row said stopped is "already
\* stopped", whatever is being started; a task deleted meanwhile is passed over by
\* the limit.
Disable(t) ==
  /\ pc[t] = "disable"
  /\ SwitchOffAutoResume
  /\ held' = (held \/ ~\E u \in Workers : Starting(u))
  /\ IF (op[t] = "stop" /\ seen[t] = "stopped") \/ (op[t] = "limit" /\ ~exists)
       THEN Return(t)
       ELSE Goto(t, "stopcall") /\ UNCHANGED localVars
  /\ UNCHANGED <<exists, taskStatus, aiRunning, reached, aiVars, boundVars, calm>>

\* StopCamera: a camera the AI service has is removed, and the service posts
\* /stopped from a thread of its own.
StopCall(t) ==
  /\ pc[t] = "stopcall"
  /\ \E d \in todo[t] :
       /\ dev' = [dev EXCEPT ![t] = d]
       /\ IF camera[d] = "none"
            THEN UNCHANGED aiVars
            ELSE /\ camera' = [camera EXCEPT ![d] = "none"]
                 /\ callbacks' = [callbacks EXCEPT ![d] = callbacks[d] + 1]
                 /\ probing' = {u \in probing : dev[u] # d}
  /\ Goto(t, "stoprow")
  /\ NoFault
  /\ UNCHANGED <<rowVars, pendVars, op, todo, reply, started, snap, seen, held>>

\* The call does not get through.  Its error goes into the answer, no further.
StopCallFails(t) ==
  /\ pc[t] = "stopcall"
  /\ \E d \in todo[t] : dev' = [dev EXCEPT ![t] = d]
  /\ Goto(t, "stoprow")
  /\ Fault
  /\ UNCHANGED <<rowVars, pendVars, aiVars, op, todo, reply, started, snap, seen, held>>

\* The row says stopped either way.
StopRow(t) ==
  /\ pc[t] = "stoprow"
  /\ LET d == dev[t] IN
       /\ aiRunning' = aiRunning \ {d}
       /\ todo' = [todo EXCEPT ![t] = IF op[t] = "quick" THEN {d} ELSE todo[t] \ {d}]
       /\ Goto(t, IF op[t] = "quick" THEN "gate"
                  ELSE IF todo[t] \ {d} # {} THEN "stopcall"
                  ELSE IF op[t] = "stop" THEN "finish" ELSE "compute")
  /\ Forget(t)
  /\ UNCHANGED <<exists, taskStatus, autoResume, reached, pendVars, aiVars, op, started, snap,
                 seen, boundVars, held, calm>>

\* stopTask writes stopped without looking at the rows.
Finish(t) ==
  /\ pc[t] = "finish"
  /\ SaveStatus("stopped")
  /\ Return(t)
  /\ UNCHANGED <<exists, aiRunning, autoResume, reached, pendVars, aiVars, boundVars, held, calm>>

-----------------------------------------------------------------------------
(* The AI service on its own.                                              *)

\* Usage of a running camera is recorded and reaches the limit.
ReachLimit ==
  /\ ~reached /\ RunningCameras # {}
  /\ reached' = TRUE
  /\ UNCHANGED <<exists, taskStatus, aiRunning, autoResume, pendVars, aiVars, pc, localVars,
                 boundVars, held, calm>>

\* The stream breaks, or the analysis keeps failing: the camera's thread ends,
\* its entry stays in the table, and /stopped is posted.
CameraFails(d) ==
  /\ camera[d] = "running" /\ failures < MaxFailures
  /\ camera' = [camera EXCEPT ![d] = "error"]
  /\ callbacks' = [callbacks EXCEPT ![d] = callbacks[d] + 1]
  /\ failures' = failures + 1
  /\ calm' = (calm /\ AllIdle)
  /\ UNCHANGED <<rowVars, pendVars, probing, pc, localVars, requests, faults, restarts, held>>

\* handleAIStopped: the row says stopped, whenever the callback arrives; then
\* updateTaskStatusByDevice recomputes the task, if the device still has one.
HandleStopped(t, d) ==
  /\ t \in Threads /\ callbacks[d] > 0
  /\ pc[t] = "idle"
  /\ callbacks' = [callbacks EXCEPT ![d] = callbacks[d] - 1]
  /\ aiRunning' = aiRunning \ {d}
  /\ IF exists
       THEN Goto(t, "compute") /\ op' = [op EXCEPT ![t] = "stopped"]
       ELSE UNCHANGED <<pc, op>>
  /\ calm' = (calm /\ AllIdle)
  /\ UNCHANGED <<exists, taskStatus, autoResume, reached, pendVars, camera, probing, todo, dev,
                 reply, started, snap, seen, boundVars, held>>

\* A callback is posted once; nobody answers.
LoseCallback(d) ==
  /\ callbacks[d] > 0
  /\ callbacks' = [callbacks EXCEPT ![d] = callbacks[d] - 1]
  /\ Fault
  /\ UNCHANGED <<rowVars, pendVars, camera, probing, pc, localVars, held>>

-----------------------------------------------------------------------------
(* Following the AI service.                                               *)

\* syncTaskStatus.
BeginSync(t) ==
  /\ Request(t, "sync", "fetch", {})
  /\ UNCHANGED <<rowVars, pendVars, aiVars, seen, held>>

\* fetchAIRunningDevices: the cameras that run now.
Fetch(t) ==
  /\ pc[t] = "fetch"
  /\ snap' = [snap EXCEPT ![t] = RunningCameras]
  /\ todo' = [todo EXCEPT ![t] = Devices]
  /\ Goto(t, "syncrow")
  /\ calm' = (calm \/ (op[t] = "sync" /\ Alone(t) /\ NoCallbacks))
  /\ UNCHANGED <<rowVars, pendVars, aiVars, op, dev, reply, started, seen, boundVars, held>>

\* The service does not answer: the recovery leaves its marks for the next one.
FetchFails(t) ==
  /\ pc[t] = "fetch"
  /\ Return(t)
  /\ Fault
  /\ UNCHANGED <<rowVars, pendVars, aiVars, held>>

\* Mutant: only running rows are written.
SyncRowUp(t) ==
  /\ pc[t] = "syncrow" /\ exists
  /\ \E d \in todo[t] :
       /\ aiRunning' = IF d \in snap[t] THEN aiRunning \cup {d} ELSE aiRunning
       /\ pending' = IF d \in snap[t] THEN pending \ {d} ELSE pending
       /\ todo' = [todo EXCEPT ![t] = todo[t] \ {d}]
       /\ Goto(t, IF todo[t] = {d} THEN "syncsave" ELSE "syncrow")
  /\ UNCHANGED <<exists, taskStatus, autoResume, reached, taskPending, aiVars, op, dev, reply,
                 started, snap, seen, boundVars, held, calm>>

\* syncTaskStatusFromRunningSet: each row gets what was fetched.
SyncRow(t) ==
  /\ pc[t] = "syncrow" /\ exists
  /\ \E d \in todo[t] :
       /\ aiRunning' = IF d \in snap[t] THEN aiRunning \cup {d} ELSE aiRunning \ {d}
       /\ pending' = IF d \in snap[t] THEN pending \ {d} ELSE pending
       /\ todo' = [todo EXCEPT ![t] = todo[t] \ {d}]
       /\ Goto(t, IF todo[t] = {d} THEN "syncsave" ELSE "syncrow")
  /\ UNCHANGED <<exists, taskStatus, autoResume, reached, taskPending, aiVars, op, dev, reply,
                 started, snap, seen, boundVars, held, calm>>

\* The task is gone: there is nothing to follow or to resume.
SyncNothing(t) ==
  /\ pc[t] = "syncrow" /\ ~exists
  /\ IF op[t] = "recover" THEN Goto(t, "clear") /\ UNCHANGED localVars ELSE Return(t)
  /\ UNCHANGED <<rowVars, pendVars, aiVars, boundVars, held, calm>>

SyncSave(t) ==
  /\ pc[t] = "syncsave"
  /\ SaveStatus(StatusOf(snap[t]))
  /\ IF op[t] = "recover" THEN Goto(t, "resume") /\ UNCHANGED localVars ELSE Return(t)
  /\ UNCHANGED <<exists, aiRunning, autoResume, reached, pendVars, aiVars, boundVars, held, calm>>

-----------------------------------------------------------------------------
(* Resuming after a restart of this process, of ZLM or of the AI service.  *)

\* listAutoResumeCandidateTaskIDs
Candidate == exists /\ autoResume /\ (taskStatus # "stopped" \/ aiRunning # {})

\* runZLMRestartRecoveryOnce lists the candidates, long before it uses the list.
BeginRecovery(t) ==
  /\ Request(t, "recover", IF Candidate THEN "mark" ELSE "fetch", {})
  /\ seen' = [seen EXCEPT ![t] = IF Candidate THEN "running" ELSE "stopped"]
  /\ UNCHANGED <<rowVars, pendVars, aiVars, held>>

\* setStartupTaskResumePending
Mark(t) ==
  /\ pc[t] = "mark"
  /\ taskPending' = TRUE
  /\ Goto(t, "fetch")
  /\ UNCHANGED <<rowVars, pending, aiVars, localVars, boundVars, held, calm>>

\* attemptPendingStartupRecovery, after /started, /keepalive or a retry.
BeginAttempt(t) ==
  /\ taskPending
  /\ Request(t, "recover", "fetch", {})
  /\ seen' = [seen EXCEPT ![t] = "running"]
  /\ UNCHANGED <<rowVars, pendVars, aiVars, held>>

\* Mutant: the list was checked when it was made.
ResumeListed(t) ==
  /\ pc[t] = "resume"
  /\ IF seen[t] = "running" /\ exists
       THEN /\ pending' = Devices
            /\ \E S \in SUBSET (Devices \ aiRunning) :
                 /\ todo' = [todo EXCEPT ![t] = S]
                 /\ Goto(t, IF S = {} THEN "clear" ELSE "gate")
       ELSE Goto(t, "clear") /\ UNCHANGED <<pending, todo>>
  /\ UNCHANGED <<rowVars, taskPending, aiVars, op, dev, reply, started, snap, seen, boundVars,
                 held, calm>>

\* resumeAutoResumeTasks: a listed task that may still resume starts those of its
\* devices that are online and not running.
Resume(t) ==
  /\ pc[t] = "resume"
  /\ IF seen[t] = "running" /\ autoResume /\ exists
       THEN /\ pending' = Devices
            /\ \E S \in SUBSET (Devices \ aiRunning) :
                 /\ todo' = [todo EXCEPT ![t] = S]
                 /\ Goto(t, IF S = {} THEN "clear" ELSE "gate")
       ELSE Goto(t, "clear") /\ UNCHANGED <<pending, todo>>
  /\ UNCHANGED <<rowVars, taskPending, aiVars, op, dev, reply, started, snap, seen, boundVars,
                 held, calm>>

\* clearStartupTaskResumePending of the listed task.
Clear(t) ==
  /\ pc[t] = "clear"
  /\ taskPending' = IF seen[t] = "running" THEN FALSE ELSE taskPending
  /\ Return(t)
  /\ UNCHANGED <<rowVars, pending, aiVars, boundVars, held, calm>>

\* resumePendingStartupTaskForDevice: the stream of a pending device came up.  A
\* mark that is not wanted any more is taken away ...
DropPending(d) ==
  /\ d \in pending
  /\ ~autoResume \/ (exists /\ d \in aiRunning)
  /\ pending' = pending \ {d}
  /\ UNCHANGED <<rowVars, taskPending, aiVars, pc, localVars, boundVars, held, calm>>

\* ... the others are followed.
BeginDevice(t, d) ==
  /\ d \in pending /\ exists
  /\ autoResume /\ d \notin aiRunning
  /\ Request(t, "device", "gate", {d})
  /\ UNCHANGED <<rowVars, pendVars, aiVars, seen, held>>

-----------------------------------------------------------------------------
(* Editing and deleting.                                                   *)

\* deleteTask: refused while the task runs; the answer is looked at once.
BeginDelete(t) ==
  /\ exists /\ taskStatus # "running"
  /\ Request(t, "delete", "delete", {})
  /\ UNCHANGED <<rowVars, pendVars, aiVars, seen, held>>

Delete(t) ==
  /\ pc[t] = "delete"
  /\ exists' = FALSE
  /\ Return(t)
  /\ UNCHANGED <<taskStatus, aiRunning, autoResume, reached, pendVars, aiVars, boundVars, held,
                 calm>>

\* updateTask: refused while the task runs; the whole row is written back, its
\* status as it was read.
BeginEdit(t) ==
  /\ exists /\ taskStatus # "running"
  /\ Request(t, "edit", "edit", {})
  /\ seen' = [seen EXCEPT ![t] = taskStatus]
  /\ UNCHANGED <<rowVars, pendVars, aiVars, held>>

Edit(t) ==
  /\ pc[t] = "edit"
  /\ SaveStatus(seen[t])
  /\ Return(t)
  /\ UNCHANGED <<exists, aiRunning, autoResume, reached, pendVars, aiVars, boundVars, held, calm>>

-----------------------------------------------------------------------------
(* Crashes.                                                                *)

\* The process dies and starts again, perhaps with another limit.
Crash ==
  /\ restarts < MaxRestarts
  /\ restarts' = restarts + 1
  /\ reached' \in {reached, FALSE}
  /\ taskPending' = FALSE /\ pending' = {}
  /\ probing' = {}
  /\ pc' = [t \in Workers |-> "idle"] /\ op' = [t \in Workers |-> "none"]
  /\ todo' = [t \in Workers |-> {}] /\ dev' = [t \in Workers |-> NoDevice]
  /\ reply' = [t \in Workers |-> FALSE] /\ started' = [t \in Workers |-> FALSE]
  /\ snap' = [t \in Workers |-> {}] /\ seen' = [t \in Workers |-> "stopped"]
  /\ calm' = FALSE
  /\ UNCHANGED <<exists, taskStatus, aiRunning, autoResume, camera, callbacks, requests, faults,
                 failures, held>>

\* The AI service dies, its cameras and unsent callbacks with it.
AICrash ==
  /\ restarts < MaxRestarts
  /\ restarts' = restarts + 1
  /\ camera' = [d \in Devices |-> "none"]
  /\ callbacks' = [d \in Devices |-> 0]
  /\ probing' = {}
  /\ calm' = FALSE
  /\ UNCHANGED <<rowVars, pendVars, pc, localVars, requests, faults, failures, held>>

-----------------------------------------------------------------------------
StartWork(t) ==
  \/ Check(t) \/ Gate(t) \/ StartCall(t) \/ StartRefused(t) \/ StartReply(t)
  \/ StartReplyLost(t) \/ StartRow(t) \/ Compute(t) \/ Save(t) \/ Grant(t)

StopWork(t) == Disable(t) \/ StopCall(t) \/ StopCallFails(t) \/ StopRow(t) \/ Finish(t)

FollowWork(t) ==
  \/ Fetch(t) \/ FetchFails(t) \/ SyncRow(t) \/ SyncNothing(t) \/ SyncSave(t)
  \/ Mark(t) \/ Resume(t) \/ Clear(t)

Work(t) == StartWork(t) \/ StopWork(t) \/ FollowWork(t) \/ Delete(t) \/ Edit(t)

BeginAny(t) ==
  \/ BeginStart(t) \/ BeginStop(t) \/ BeginSync(t) \/ BeginRecovery(t) \/ BeginAttempt(t)
  \/ BeginDelete(t) \/ BeginEdit(t)
  \/ \E d \in Devices : BeginQuick(t, d) \/ BeginDevice(t, d) \/ HandleStopped(t, d)

Next ==
  \/ \E t \in Workers : Work(t)
  \/ \E t \in Threads : BeginAny(t)
  \/ BeginLimitStop \/ ReachLimit
  \/ \E d \in Devices : CameraFails(d) \/ LoseCallback(d) \/ DropPending(d)
  \/ Crash \/ AICrash

Spec == Init /\ [][Next]_vars

\* A goroutine that can go on does, and a running camera keeps reporting usage.
FairSpec == Spec /\ WF_vars(BeginLimitStop) /\ \A t \in Workers : WF_vars(Work(t))

-----------------------------------------------------------------------------
(* What must hold.                                                         *)

\* The automatic recovery never undoes a stop: once auto resume was switched off
\* while nobody was starting, no camera is started and it stays off until
\* somebody asks for a start, whatever recoveries, stale lists, pending devices,
\* syncs, callbacks and crashes do (isTaskAutoResumeEnabled at every resume).
StopHolds ==
  [][held => /\ ~autoResume'
             /\ \A d \in Devices : camera[d] = "none" => camera'[d] = "none"]_vars

\* Past the limit only a goroutine that asked before it was reached starts a
\* camera: nobody else gets into the loop over the devices, whichever request,
\* recovery or pending device it serves (ensureLLMTokenQuotaAvailable on every way
\* into startTaskRuntimes).
InLoop(t) == pc[t] \in {"call", "wait", "row"}
LimitHolds ==
  [][reached => /\ \A t \in Workers : ~InLoop(t) => ~InLoop(t)'
                /\ \A d \in Devices :
                     camera[d] = "none" /\ camera'[d] # "none" => \E t \in Workers : InLoop(t)]_vars

RowsAgree ==
  /\ \A d \in Devices : camera[d] = "running" => d \in aiRunning
  /\ \A d \in aiRunning : camera[d] # "none"
  /\ taskStatus = StatusOf(aiRunning)

\* Every operation alone leaves the rows in agreement with the AI service and
\* with one another, and a sync that runs alone repairs whatever overlapping
\* operations, lost answers and crashes have left.
CalmAgrees == calm /\ AllIdle /\ NoCallbacks /\ exists => RowsAgree

\* The limit stops every camera this process knows of: the row of a running
\* camera leads to a stop call, although a stop that is running already drops
\* the others, calls fail and the process may die in between.
LimitStops ==
  \A d \in Devices :
    exists /\ reached /\ d \in aiRunning /\ camera[d] = "running" ~>
      ~exists \/ ~reached \/ d \notin aiRunning \/ camera[d] # "running"

\* The inductive strengthening of StopHolds.
HeldInv == held => ~autoResume /\ \A t \in Workers : ~Starting(t)

\* Contradicted (a doc promises it): while the limit lasts nothing switches a
\* task's auto resume on again.
LimitKeepsResumeOff == [][reached /\ reached' /\ ~autoResume => ~autoResume']_vars

\* Contradicted: a device whose row says running has a camera that runs.
ShownRunningIsRunning ==
  AllIdle /\ NoCallbacks => \A d \in aiRunning : camera[d] = "running"

\* Contradicted (a doc promises it): a task with a camera that runs is not deleted.
DeletedIsStopped == ~exists /\ AllIdle => RunningCameras = {}
=============================================================================
