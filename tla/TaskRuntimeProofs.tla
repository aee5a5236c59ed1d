-------------------------- MODULE TaskRuntimeProofs --------------------------
(* Theorems about TaskRuntime, for any number of devices and goroutines    *)
(* and any bounds.                                                         *)
EXTENDS TaskRuntime, TLAPS

\* Which steps belong to which operation.
StepsOf(o) ==
  CASE o = "none"    -> {"idle"}
    [] o = "start"   -> {"check", "gate", "call", "wait", "row", "compute", "save", "grant"}
    [] o = "quick"   -> {"check", "stopcall", "stoprow", "gate", "call", "wait", "row",
                         "compute", "save", "grant"}
    [] o = "recover" -> {"mark", "fetch", "syncrow", "syncsave", "resume", "gate", "call",
                         "wait", "row", "compute", "save", "clear"}
    [] o = "device"  -> {"gate", "call", "wait", "row", "compute", "save"}
    [] o = "stop"    -> {"disable", "stopcall", "stoprow", "finish"}
    [] o = "limit"   -> {"disable", "stopcall", "stoprow", "compute", "save"}
    [] o = "sync"    -> {"fetch", "syncrow", "syncsave"}
    [] o = "stopped" -> {"compute", "save"}
    [] o = "delete"  -> {"delete"}
    [] o = "edit"    -> {"edit"}

\* Each goroutine is at a step of its operation, and the limiter only stops.
Places ==
  /\ pc \in [Workers -> Steps] /\ op \in [Workers -> Ops]
  /\ \A t \in Workers : pc[t] \in StepsOf(op[t])
  /\ op[Limiter] \in {"none", "limit"}

\* The type invariant in parts: the local variables, and what goroutines share.  A
\* goroutine that deals with a device has one.
Locals ==
  /\ todo \in [Workers -> SUBSET Devices]
  /\ dev \in [Workers -> Devices \cup {NoDevice}]
  /\ reply \in [Workers -> BOOLEAN] /\ started \in [Workers -> BOOLEAN]
  /\ snap \in [Workers -> SUBSET Devices] /\ seen \in [Workers -> Statuses]
  /\ \A t \in Workers : pc[t] \in {"wait", "row", "stoprow"} => dev[t] \in Devices

RowsTyped ==
  /\ exists \in BOOLEAN /\ taskStatus \in Statuses /\ aiRunning \subseteq Devices
  /\ autoResume \in BOOLEAN /\ reached \in BOOLEAN
  /\ taskPending \in BOOLEAN /\ pending \subseteq Devices
  /\ held \in BOOLEAN /\ calm \in BOOLEAN

ServiceTyped ==
  /\ camera \in [Devices -> {"none", "running", "error"}]
  /\ callbacks \in [Devices -> Nat] /\ probing \subseteq Threads

Counters == requests \in Nat /\ faults \in Nat /\ failures \in Nat /\ restarts \in Nat

Inv == Places /\ Locals /\ RowsTyped /\ ServiceTyped /\ Counters

\* The invariant implies the types.
LEMMA InvTypes == Inv => TypeOK
  BY DEF Inv, Places, Locals, RowsTyped, ServiceTyped, Counters, TypeOK

\* The initial state satisfies it.
LEMMA InitInv == Init => Inv
<1> SUFFICES ASSUME Init PROVE Inv
  OBVIOUS
<1> USE DEF Init
<1>1. Places
  BY DEF Places, StepsOf, Workers, Ops, Steps
<1>2. Locals
  BY DEF Locals, Statuses
<1>3. RowsTyped /\ ServiceTyped /\ Counters
  BY DEF RowsTyped, Statuses, ServiceTyped, Counters
<1> QED BY <1>1, <1>2, <1>3 DEF Inv

\* Spending a fault.
LEMMA FaultTyped ==
  ASSUME Counters, Fault
  PROVE  Counters' /\ calm' \in BOOLEAN
<1>1. Counters'
  BY TaskAssumption DEF Counters, Fault
<1> QED BY <1>1 DEF Fault

-----------------------------------------------------------------------------
(* How goroutines move.                                                    *)

\* The operations that reach a step.
LEMMA WhoIsWhere ==
  ASSUME Places, NEW t \in Workers
  PROVE  /\ pc[t] \in {"check", "grant"} => op[t] \in {"start", "quick"}
         /\ pc[t] \in {"gate", "call", "wait", "row"} => op[t] \in {"start", "quick", "recover", "device"}
         /\ pc[t] \in {"compute", "save"} =>
              op[t] \in {"start", "quick", "recover", "device", "limit", "stopped"}
         /\ pc[t] = "disable" => op[t] \in {"stop", "limit"}
         /\ pc[t] \in {"stopcall", "stoprow"} => op[t] \in {"stop", "limit", "quick"}
         /\ pc[t] \in {"fetch", "syncrow", "syncsave"} => op[t] \in {"sync", "recover"}
         /\ pc[t] \in {"mark", "resume", "clear"} => op[t] = "recover"
         /\ t = Limiter => op[t] \in {"none", "limit"}
  BY DEF Places, StepsOf, Ops

\* A goroutine moves to another step of its operation, ...
LEMMA GotoPlaces ==
  ASSUME Places, NEW t \in Workers, NEW s \in Steps, s \in StepsOf(op[t]), Goto(t, s), op' = op
  PROVE  Places'
  BY DEF Places, Goto

\* ... begins an operation, ...
LEMMA BeginPlaces ==
  ASSUME Places, NEW t \in Workers, NEW s \in Steps, NEW o \in Ops, s \in StepsOf(o),
         pc' = [pc EXCEPT ![t] = s], op' = [op EXCEPT ![t] = o], t = Limiter => o = "limit"
  PROVE  Places'
  BY TaskAssumption DEF Places, Workers

\* ... or is done.
LEMMA ReturnPlaces ==
  ASSUME Places, Locals, NEW t \in Workers, Return(t)
  PROVE  Places' /\ Locals'
<1>1. Places'
  <2>1. "idle" \in Steps /\ "none" \in Ops /\ "idle" \in StepsOf("none")
    BY DEF Steps, Ops, StepsOf
  <2> QED BY <2>1 DEF Places, Return, Workers
<1>2. Locals'
  BY DEF Places, Locals, Return, Statuses
<1> QED BY <1>1, <1>2

-----------------------------------------------------------------------------
(* Every step keeps the types and the places.                              *)

\* The steps of a start keep it.
LEMMA StartTypes ==
  ASSUME Inv, NEW t \in Workers, StartWork(t)
  PROVE  Inv'
<1> USE DEF Inv
<1>1. CASE Check(t)
  <2>1. Places'
    BY <1>1, WhoIsWhere, GotoPlaces, ReturnPlaces DEF Check, localVars, StepsOf, Steps
  <2>2. Locals'
    BY <1>1, ReturnPlaces DEF Check, Places, Locals, Goto, localVars
  <2>3. RowsTyped' /\ Counters'
    BY <1>1 DEF Check, RowsTyped, Counters, pendVars, boundVars, SwitchOffAutoResume
  <2>4. ServiceTyped'
    BY <1>1 DEF Check, ServiceTyped, aiVars
  <2> QED BY <2>1, <2>2, <2>3, <2>4
<1>2. CASE Gate(t)
  <2>1. Places'
    BY <1>2, WhoIsWhere, GotoPlaces DEF Gate, StepsOf, Steps
  <2>2. Locals'
    BY <1>2 DEF Gate, Places, Locals, Goto
  <2>3. RowsTyped' /\ Counters'
    BY <1>2 DEF Gate, RowsTyped, Counters, pendVars, boundVars, SwitchOffAutoResume
  <2>4. ServiceTyped'
    BY <1>2 DEF Gate, ServiceTyped, aiVars
  <2> QED BY <2>1, <2>2, <2>3, <2>4
<1>3. CASE StartCall(t)
  <2>1. Places'
    BY <1>3, WhoIsWhere, GotoPlaces DEF StartCall, StepsOf, Steps
  <2>2. Locals'
    <3>1. PICK d \in todo[t] : /\ dev' = [dev EXCEPT ![t] = d]
                              /\ \E s \in {"wait", "row"} : pc' = [pc EXCEPT ![t] = s]
      BY <1>3 DEF StartCall, Goto
    <3>2. d \in Devices
      BY DEF Locals
    <3>3. PICK s \in {"wait", "row"} : pc' = [pc EXCEPT ![t] = s]
      BY <3>1
    <3>4. dev' \in [Workers -> Devices \cup {NoDevice}]
      BY <3>1, <3>2 DEF Locals
    <3>5. \A u \in Workers : pc'[u] \in {"wait", "row", "stoprow"} => dev'[u] \in Devices
      BY <3>1, <3>2, <3>3 DEF Places, Locals
    <3>6. reply' \in [Workers -> BOOLEAN]
      BY <1>3 DEF StartCall, Locals
    <3> QED BY <1>3, <3>4, <3>5, <3>6 DEF StartCall, Locals
  <2>3. RowsTyped' /\ Counters'
    BY <1>3 DEF StartCall, RowsTyped, Counters, rowVars, pendVars, boundVars
  <2>4. ServiceTyped'
    BY <1>3, WhoIsWhere DEF StartCall, ServiceTyped, Workers
  <2> QED BY <2>1, <2>2, <2>3, <2>4
<1>4. CASE StartRefused(t)
  <2>1. Places'
    BY <1>4, WhoIsWhere, GotoPlaces DEF StartRefused, StepsOf, Steps
  <2>2. Locals'
    BY <1>4 DEF StartRefused, Places, Locals, Goto
  <2>3. RowsTyped' /\ Counters'
    BY <1>4, FaultTyped DEF StartRefused, RowsTyped, rowVars, pendVars
  <2>4. ServiceTyped'
    BY <1>4 DEF StartRefused, ServiceTyped, aiVars
  <2> QED BY <2>1, <2>2, <2>3, <2>4
<1>5. CASE StartReply(t)
  <2>1. Places'
    BY <1>5, WhoIsWhere, GotoPlaces DEF StartReply, StepsOf, Steps
  <2>2. Locals'
    BY <1>5 DEF StartReply, Places, Locals, Goto
  <2>3. RowsTyped' /\ Counters'
    BY <1>5 DEF StartReply, RowsTyped, Counters, rowVars, pendVars, boundVars
  <2>4. ServiceTyped'
    BY <1>5 DEF StartReply, ServiceTyped
  <2> QED BY <2>1, <2>2, <2>3, <2>4
<1>6. CASE StartReplyLost(t)
  <2>1. Places'
    BY <1>6, WhoIsWhere, GotoPlaces DEF StartReplyLost, StepsOf, Steps
  <2>2. Locals'
    BY <1>6 DEF StartReplyLost, Places, Locals, Goto
  <2>3. RowsTyped' /\ Counters'
    BY <1>6, FaultTyped DEF StartReplyLost, RowsTyped, rowVars, pendVars
  <2>4. ServiceTyped'
    BY <1>6 DEF StartReplyLost, ServiceTyped
  <2> QED BY <2>1, <2>2, <2>3, <2>4
<1>7. CASE StartRow(t)
  <2>1. Places'
    BY <1>7, WhoIsWhere, GotoPlaces DEF StartRow, StepsOf, Steps
  <2>2. Locals'
    BY <1>7 DEF StartRow, Places, Locals, Goto, Forget
  <2>3. RowsTyped' /\ Counters'
    BY <1>7 DEF StartRow, RowsTyped, Locals, Counters, boundVars
  <2>4. ServiceTyped'
    BY <1>7 DEF StartRow, ServiceTyped, aiVars
  <2> QED BY <2>1, <2>2, <2>3, <2>4
<1>8. CASE Compute(t)
  <2>1. Places'
    BY <1>8, WhoIsWhere, GotoPlaces DEF Compute, StepsOf, Steps
  <2>2. Locals'
    BY <1>8 DEF Compute, Places, Locals, Goto, RowsTyped
  <2>3. RowsTyped' /\ Counters'
    BY <1>8 DEF Compute, RowsTyped, Counters, rowVars, pendVars, boundVars
  <2>4. ServiceTyped'
    BY <1>8 DEF Compute, ServiceTyped, aiVars
  <2> QED BY <2>1, <2>2, <2>3, <2>4
<1>9. CASE Save(t)
  <2>1. Places'
    BY <1>9, WhoIsWhere, GotoPlaces, ReturnPlaces DEF Save, localVars, StepsOf, Steps
  <2>2. Locals'
    BY <1>9, ReturnPlaces DEF Save, Places, Locals, Goto, localVars
  <2>3. RowsTyped' /\ Counters'
    BY <1>9 DEF Save, RowsTyped, Counters, pendVars, boundVars, SaveStatus, StatusOf, Statuses
  <2>4. ServiceTyped'
    BY <1>9 DEF Save, ServiceTyped, aiVars
  <2> QED BY <2>1, <2>2, <2>3, <2>4
<1>10. CASE Grant(t)
  <2>1. Places'
    BY <1>10, WhoIsWhere, ReturnPlaces DEF Grant, StepsOf, Steps
  <2>2. Locals'
    BY <1>10, ReturnPlaces DEF Grant, Places, Locals
  <2>3. RowsTyped' /\ Counters'
    BY <1>10 DEF Grant, RowsTyped, Counters, pendVars, boundVars
  <2>4. ServiceTyped'
    BY <1>10 DEF Grant, ServiceTyped, aiVars
  <2> QED BY <2>1, <2>2, <2>3, <2>4
<1> QED BY <1>1, <1>2, <1>3, <1>4, <1>5, <1>6, <1>7, <1>8, <1>9, <1>10 DEF StartWork

\* The steps of a stop keep it.
LEMMA StopTypes ==
  ASSUME Inv, NEW t \in Workers, StopWork(t)
  PROVE  Inv'
<1> USE DEF Inv
<1>1. CASE Disable(t)
  <2>1. Places'
    BY <1>1, WhoIsWhere, GotoPlaces, ReturnPlaces DEF Disable, localVars, StepsOf, Steps
  <2>2. Locals'
    BY <1>1, ReturnPlaces DEF Disable, Places, Locals, Goto, localVars
  <2>3. RowsTyped' /\ Counters'
    BY <1>1 DEF Disable, RowsTyped, Counters, boundVars, SwitchOffAutoResume
  <2>4. ServiceTyped'
    BY <1>1 DEF Disable, ServiceTyped, aiVars
  <2> QED BY <2>1, <2>2, <2>3, <2>4
<1>2. CASE StopCall(t)
  <2>1. Places'
    BY <1>2, WhoIsWhere, GotoPlaces DEF StopCall, StepsOf, Steps
  <2>2. Locals'
    BY <1>2 DEF StopCall, Places, Locals, Goto
  <2>3. RowsTyped' /\ Counters'
    BY <1>2 DEF StopCall, RowsTyped, Counters, rowVars, pendVars, NoFault, boundVars
  <2>4. ServiceTyped'
    BY <1>2 DEF StopCall, ServiceTyped, aiVars
  <2> QED BY <2>1, <2>2, <2>3, <2>4
<1>3. CASE StopCallFails(t)
  <2>1. Places'
    BY <1>3, WhoIsWhere, GotoPlaces DEF StopCallFails, StepsOf, Steps
  <2>2. Locals'
    BY <1>3 DEF StopCallFails, Places, Locals, Goto
  <2>3. RowsTyped' /\ Counters'
    BY <1>3, FaultTyped DEF StopCallFails, RowsTyped, rowVars, pendVars
  <2>4. ServiceTyped'
    BY <1>3 DEF StopCallFails, ServiceTyped, aiVars
  <2> QED BY <2>1, <2>2, <2>3, <2>4
<1>4. CASE StopRow(t)
  <2>1. Places'
    BY <1>4, WhoIsWhere, GotoPlaces DEF StopRow, StepsOf, Steps
  <2>2. Locals'
    BY <1>4 DEF StopRow, Places, Locals, Goto, Forget
  <2>3. RowsTyped' /\ Counters'
    BY <1>4 DEF StopRow, RowsTyped, Locals, Counters, pendVars, boundVars
  <2>4. ServiceTyped'
    BY <1>4 DEF StopRow, ServiceTyped, aiVars
  <2> QED BY <2>1, <2>2, <2>3, <2>4
<1>5. CASE Finish(t)
  <2>1. Places'
    BY <1>5, WhoIsWhere, ReturnPlaces DEF Finish, StepsOf, Steps
  <2>2. Locals'
    BY <1>5, ReturnPlaces DEF Finish, Places, Locals
  <2>3. RowsTyped' /\ Counters'
    BY <1>5 DEF Finish, RowsTyped, Counters, pendVars, boundVars, SaveStatus, Statuses
  <2>4. ServiceTyped'
    BY <1>5 DEF Finish, ServiceTyped, aiVars
  <2> QED BY <2>1, <2>2, <2>3, <2>4
<1> QED BY <1>1, <1>2, <1>3, <1>4, <1>5 DEF StopWork

\* The steps of a sync or recovery keep it.
LEMMA FollowTypes ==
  ASSUME Inv, NEW t \in Workers, FollowWork(t)
  PROVE  Inv'
<1> USE DEF Inv
<1>1. CASE Fetch(t)
  <2>1. Places'
    BY <1>1, WhoIsWhere, GotoPlaces DEF Fetch, StepsOf, Steps
  <2>2. Locals'
    BY <1>1 DEF Fetch, Places, Locals, Goto, RunningCameras
  <2>3. RowsTyped' /\ Counters'
    BY <1>1 DEF Fetch, RowsTyped, Counters, rowVars, pendVars, boundVars
  <2>4. ServiceTyped'
    BY <1>1 DEF Fetch, ServiceTyped, aiVars
  <2> QED BY <2>1, <2>2, <2>3, <2>4
<1>2. CASE FetchFails(t)
  <2>1. Places'
    BY <1>2, WhoIsWhere, ReturnPlaces DEF FetchFails, StepsOf, Steps
  <2>2. Locals'
    BY <1>2, ReturnPlaces DEF FetchFails, Places, Locals
  <2>3. RowsTyped' /\ Counters'
    BY <1>2, FaultTyped DEF FetchFails, RowsTyped, rowVars, pendVars
  <2>4. ServiceTyped'
    BY <1>2 DEF FetchFails, ServiceTyped, aiVars
  <2> QED BY <2>1, <2>2, <2>3, <2>4
<1>3. CASE SyncRow(t)
  <2>1. Places'
    BY <1>3, WhoIsWhere, GotoPlaces DEF SyncRow, StepsOf, Steps
  <2>2. Locals'
    BY <1>3 DEF SyncRow, Places, Locals, Goto
  <2>3. RowsTyped' /\ Counters'
    BY <1>3 DEF SyncRow, RowsTyped, Locals, Counters, boundVars
  <2>4. ServiceTyped'
    BY <1>3 DEF SyncRow, ServiceTyped, aiVars
  <2> QED BY <2>1, <2>2, <2>3, <2>4
<1>4. CASE SyncNothing(t)
  <2>1. Places'
    BY <1>4, WhoIsWhere, GotoPlaces, ReturnPlaces DEF SyncNothing, localVars, StepsOf, Steps
  <2>2. Locals'
    BY <1>4, ReturnPlaces DEF SyncNothing, Places, Locals, Goto, localVars
  <2>3. RowsTyped' /\ Counters'
    BY <1>4 DEF SyncNothing, RowsTyped, Counters, rowVars, pendVars, boundVars
  <2>4. ServiceTyped'
    BY <1>4 DEF SyncNothing, ServiceTyped, aiVars
  <2> QED BY <2>1, <2>2, <2>3, <2>4
<1>5. CASE SyncSave(t)
  <2>1. Places'
    BY <1>5, WhoIsWhere, GotoPlaces, ReturnPlaces DEF SyncSave, localVars, StepsOf, Steps
  <2>2. Locals'
    BY <1>5, ReturnPlaces DEF SyncSave, Places, Locals, Goto, localVars
  <2>3. RowsTyped' /\ Counters'
    BY <1>5 DEF SyncSave, RowsTyped, Counters, pendVars, boundVars, SaveStatus, StatusOf, Statuses
  <2>4. ServiceTyped'
    BY <1>5 DEF SyncSave, ServiceTyped, aiVars
  <2> QED BY <2>1, <2>2, <2>3, <2>4
<1>6. CASE Mark(t)
  <2>1. Places'
    BY <1>6, WhoIsWhere, GotoPlaces DEF Mark, localVars, StepsOf, Steps
  <2>2. Locals'
    BY <1>6 DEF Mark, Places, Locals, Goto, localVars
  <2>3. RowsTyped' /\ Counters'
    BY <1>6 DEF Mark, RowsTyped, Counters, rowVars, boundVars
  <2>4. ServiceTyped'
    BY <1>6 DEF Mark, ServiceTyped, aiVars
  <2> QED BY <2>1, <2>2, <2>3, <2>4
<1>7. CASE Resume(t)
  <2>1. Places'
    BY <1>7, WhoIsWhere, GotoPlaces DEF Resume, StepsOf, Steps
  <2>2. Locals'
    BY <1>7 DEF Resume, Places, Locals, Goto
  <2>3. RowsTyped' /\ Counters'
    BY <1>7 DEF Resume, RowsTyped, Counters, rowVars, boundVars
  <2>4. ServiceTyped'
    BY <1>7 DEF Resume, ServiceTyped, aiVars
  <2> QED BY <2>1, <2>2, <2>3, <2>4
<1>8. CASE Clear(t)
  <2>1. Places'
    BY <1>8, WhoIsWhere, ReturnPlaces DEF Clear, StepsOf, Steps
  <2>2. Locals'
    BY <1>8, ReturnPlaces DEF Clear, Places, Locals
  <2>3. RowsTyped' /\ Counters'
    BY <1>8 DEF Clear, RowsTyped, Counters, rowVars, boundVars
  <2>4. ServiceTyped'
    BY <1>8 DEF Clear, ServiceTyped, aiVars
  <2> QED BY <2>1, <2>2, <2>3, <2>4
<1> QED BY <1>1, <1>2, <1>3, <1>4, <1>5, <1>6, <1>7, <1>8 DEF FollowWork

\* A request begins at a step of its operation.
LEMMA RequestTypes ==
  ASSUME Inv, NEW t \in Threads, NEW o \in Ops \ {"none", "limit"}, NEW s \in Steps,
         s \in StepsOf(o), s \notin {"wait", "row", "stoprow"}, NEW S \in SUBSET Devices,
         seen' \in [Workers -> Statuses], Request(t, o, s, S)
  PROVE  Places' /\ Locals' /\ Counters' /\ calm' \in BOOLEAN
<1> USE DEF Inv, Request, Begin
<1>1. t \in Workers /\ t # Limiter
  BY TaskAssumption DEF Workers
<1>2. Places'
  BY <1>1, BeginPlaces
<1>3. Locals'
  BY <1>1 DEF Locals, Places
<1>4. Counters'
  BY DEF Counters
<1>5. calm' \in BOOLEAN
  BY DEF RowsTyped
<1> QED BY <1>2, <1>3, <1>4, <1>5

\* Whatever begins, begins at such a step.
LEMMA BeginTypes ==
  ASSUME Inv, NEW t \in Threads, BeginAny(t)
  PROVE  Inv'
<1> USE DEF Inv
<1>1. CASE BeginStart(t)
  <2>1. seen' \in [Workers -> Statuses]
    BY <1>1 DEF BeginStart, Locals, RowsTyped, Statuses
  <2>2. Request(t, "start", "check", Devices)
    BY <1>1 DEF BeginStart
  <2>3. /\ "start" \in Ops \ {"none", "limit"}
        /\ "check" \in Steps /\ "check" \in StepsOf("start") /\ "check" \notin {"wait", "row", "stoprow"}
        /\ Devices \in SUBSET Devices
    BY DEF Ops, Steps, StepsOf
  <2>4. Places' /\ Locals' /\ Counters' /\ calm' \in BOOLEAN
    BY <2>1, <2>2, <2>3, RequestTypes
  <2>5. RowsTyped' /\ ServiceTyped'
    BY <1>1, <2>4 DEF BeginStart, RowsTyped, ServiceTyped, aiVars, rowVars, pendVars
  <2> QED BY <2>4, <2>5
<1>2. CASE BeginStop(t)
  <2>1. seen' \in [Workers -> Statuses]
    BY <1>2 DEF BeginStop, Locals, RowsTyped, Statuses
  <2>2. Request(t, "stop", "disable", Devices)
    BY <1>2 DEF BeginStop
  <2>3. /\ "stop" \in Ops \ {"none", "limit"}
        /\ "disable" \in Steps /\ "disable" \in StepsOf("stop") /\ "disable" \notin {"wait", "row", "stoprow"}
        /\ Devices \in SUBSET Devices
    BY DEF Ops, Steps, StepsOf
  <2>4. Places' /\ Locals' /\ Counters' /\ calm' \in BOOLEAN
    BY <2>1, <2>2, <2>3, RequestTypes
  <2>5. RowsTyped' /\ ServiceTyped'
    BY <1>2, <2>4 DEF BeginStop, RowsTyped, ServiceTyped, aiVars, rowVars, pendVars
  <2> QED BY <2>4, <2>5
<1>3. CASE BeginSync(t)
  <2>1. seen' \in [Workers -> Statuses]
    BY <1>3 DEF BeginSync, Locals, RowsTyped, Statuses
  <2>2. Request(t, "sync", "fetch", {})
    BY <1>3 DEF BeginSync
  <2>3. /\ "sync" \in Ops \ {"none", "limit"}
        /\ "fetch" \in Steps /\ "fetch" \in StepsOf("sync") /\ "fetch" \notin {"wait", "row", "stoprow"}
        /\ {} \in SUBSET Devices
    BY DEF Ops, Steps, StepsOf
  <2>4. Places' /\ Locals' /\ Counters' /\ calm' \in BOOLEAN
    BY <2>1, <2>2, <2>3, RequestTypes
  <2>5. RowsTyped' /\ ServiceTyped'
    BY <1>3, <2>4 DEF BeginSync, RowsTyped, ServiceTyped, aiVars, rowVars, pendVars
  <2> QED BY <2>4, <2>5
<1>4. CASE BeginRecovery(t)
  <2>1. seen' \in [Workers -> Statuses]
    BY <1>4 DEF BeginRecovery, Locals, RowsTyped, Statuses
  <2>2. PICK s \in {"mark", "fetch"} : Request(t, "recover", s, {})
    BY <1>4 DEF BeginRecovery
  <2>3. /\ "recover" \in Ops \ {"none", "limit"}
        /\ s \in Steps /\ s \in StepsOf("recover") /\ s \notin {"wait", "row", "stoprow"}
        /\ {} \in SUBSET Devices
    BY DEF Ops, Steps, StepsOf
  <2>4. Places' /\ Locals' /\ Counters' /\ calm' \in BOOLEAN
    BY <2>1, <2>2, <2>3, RequestTypes
  <2>5. RowsTyped' /\ ServiceTyped'
    BY <1>4, <2>4 DEF BeginRecovery, RowsTyped, ServiceTyped, aiVars, rowVars, pendVars
  <2> QED BY <2>4, <2>5
<1>5. CASE BeginAttempt(t)
  <2>1. seen' \in [Workers -> Statuses]
    BY <1>5 DEF BeginAttempt, Locals, RowsTyped, Statuses
  <2>2. Request(t, "recover", "fetch", {})
    BY <1>5 DEF BeginAttempt
  <2>3. /\ "recover" \in Ops \ {"none", "limit"}
        /\ "fetch" \in Steps /\ "fetch" \in StepsOf("recover") /\ "fetch" \notin {"wait", "row", "stoprow"}
        /\ {} \in SUBSET Devices
    BY DEF Ops, Steps, StepsOf
  <2>4. Places' /\ Locals' /\ Counters' /\ calm' \in BOOLEAN
    BY <2>1, <2>2, <2>3, RequestTypes
  <2>5. RowsTyped' /\ ServiceTyped'
    BY <1>5, <2>4 DEF BeginAttempt, RowsTyped, ServiceTyped, aiVars, rowVars, pendVars
  <2> QED BY <2>4, <2>5
<1>6. CASE BeginDelete(t)
  <2>1. seen' \in [Workers -> Statuses]
    BY <1>6 DEF BeginDelete, Locals, RowsTyped, Statuses
  <2>2. Request(t, "delete", "delete", {})
    BY <1>6 DEF BeginDelete
  <2>3. /\ "delete" \in Ops \ {"none", "limit"}
        /\ "delete" \in Steps /\ "delete" \in StepsOf("delete") /\ "delete" \notin {"wait", "row", "stoprow"}
        /\ {} \in SUBSET Devices
    BY DEF Ops, Steps, StepsOf
  <2>4. Places' /\ Locals' /\ Counters' /\ calm' \in BOOLEAN
    BY <2>1, <2>2, <2>3, RequestTypes
  <2>5. RowsTyped' /\ ServiceTyped'
    BY <1>6, <2>4 DEF BeginDelete, RowsTyped, ServiceTyped, aiVars, rowVars, pendVars
  <2> QED BY <2>4, <2>5
<1>7. CASE BeginEdit(t)
  <2>1. seen' \in [Workers -> Statuses]
    BY <1>7 DEF BeginEdit, Locals, RowsTyped, Statuses
  <2>2. Request(t, "edit", "edit", {})
    BY <1>7 DEF BeginEdit
  <2>3. /\ "edit" \in Ops \ {"none", "limit"}
        /\ "edit" \in Steps /\ "edit" \in StepsOf("edit") /\ "edit" \notin {"wait", "row", "stoprow"}
        /\ {} \in SUBSET Devices
    BY DEF Ops, Steps, StepsOf
  <2>4. Places' /\ Locals' /\ Counters' /\ calm' \in BOOLEAN
    BY <2>1, <2>2, <2>3, RequestTypes
  <2>5. RowsTyped' /\ ServiceTyped'
    BY <1>7, <2>4 DEF BeginEdit, RowsTyped, ServiceTyped, aiVars, rowVars, pendVars
  <2> QED BY <2>4, <2>5
<1>8. ASSUME NEW d \in Devices, BeginQuick(t, d) PROVE Inv'
  <2>1. seen' \in [Workers -> Statuses]
    BY <1>8 DEF BeginQuick, Locals, RowsTyped, Statuses
  <2>2. Request(t, "quick", "check", {d})
    BY <1>8 DEF BeginQuick
  <2>3. /\ "quick" \in Ops \ {"none", "limit"}
        /\ "check" \in Steps /\ "check" \in StepsOf("quick") /\ "check" \notin {"wait", "row", "stoprow"}
        /\ {d} \in SUBSET Devices
    BY DEF Ops, Steps, StepsOf
  <2>4. Places' /\ Locals' /\ Counters' /\ calm' \in BOOLEAN
    BY <2>1, <2>2, <2>3, RequestTypes
  <2>5. RowsTyped' /\ ServiceTyped'
    BY <1>8, <2>4 DEF BeginQuick, RowsTyped, ServiceTyped, aiVars, rowVars, pendVars
  <2> QED BY <2>4, <2>5
<1>9. ASSUME NEW d \in Devices, BeginDevice(t, d) PROVE Inv'
  <2>1. seen' \in [Workers -> Statuses]
    BY <1>9 DEF BeginDevice, Locals, RowsTyped, Statuses
  <2>2. Request(t, "device", "gate", {d})
    BY <1>9 DEF BeginDevice
  <2>3. /\ "device" \in Ops \ {"none", "limit"}
        /\ "gate" \in Steps /\ "gate" \in StepsOf("device") /\ "gate" \notin {"wait", "row", "stoprow"}
        /\ {d} \in SUBSET Devices
    BY DEF Ops, Steps, StepsOf
  <2>4. Places' /\ Locals' /\ Counters' /\ calm' \in BOOLEAN
    BY <2>1, <2>2, <2>3, RequestTypes
  <2>5. RowsTyped' /\ ServiceTyped'
    BY <1>9, <2>4 DEF BeginDevice, RowsTyped, ServiceTyped, aiVars, rowVars, pendVars
  <2> QED BY <2>4, <2>5
<1>10. ASSUME NEW d \in Devices, HandleStopped(t, d) PROVE Inv'
  <2>1. t \in Workers /\ t # Limiter
    BY TaskAssumption DEF Workers
  <2>2. Places'
    <3>1. CASE exists
      <4>1. pc' = [pc EXCEPT ![t] = "compute"] /\ op' = [op EXCEPT ![t] = "stopped"]
        BY <1>10, <3>1 DEF HandleStopped, Goto
      <4> QED BY <2>1, <4>1, BeginPlaces DEF Steps, Ops, StepsOf
    <3>2. CASE ~exists
      BY <1>10, <3>2 DEF HandleStopped, Places
    <3> QED BY <3>1, <3>2
  <2>3. Locals'
    BY <1>10, <2>1 DEF HandleStopped, Locals, Places, Goto
  <2>4. RowsTyped' /\ Counters'
    BY <1>10 DEF HandleStopped, RowsTyped, Counters, pendVars, boundVars
  <2>5. ServiceTyped'
    BY <1>10 DEF HandleStopped, ServiceTyped
  <2> QED BY <2>2, <2>3, <2>4, <2>5
<1> QED BY <1>1, <1>2, <1>3, <1>4, <1>5, <1>6, <1>7, <1>8, <1>9, <1>10 DEF BeginAny

\* The steps of whoever is at work keep the invariant.
LEMMA WorkTypes ==
  ASSUME Inv, NEW t \in Workers, Work(t)
  PROVE  Inv'
<1>1. ASSUME Delete(t) \/ Edit(t) PROVE Inv'
  <2> USE <1>1 DEF Inv, Delete, Edit
  <2>1. Places' /\ Locals'
    BY ReturnPlaces
  <2>2. RowsTyped' /\ ServiceTyped' /\ Counters'
    BY DEF RowsTyped, SaveStatus, Locals, ServiceTyped, Counters, pendVars, aiVars, boundVars
  <2> QED BY <2>1, <2>2
<1> QED BY <1>1, StartTypes, StopTypes, FollowTypes DEF Work

\* What goroutines do not do: the limit stop begins, and the world moves on.
LEMMA WorldTypes ==
  ASSUME Inv, BeginLimitStop \/ ReachLimit \/ Crash \/ AICrash
              \/ \E d \in Devices : CameraFails(d) \/ LoseCallback(d) \/ DropPending(d)
  PROVE  Inv'
<1> USE DEF Inv
<1>1. CASE BeginLimitStop
  <2>1. Limiter \in Workers
    BY DEF Workers
  <2>2. /\ pc' = [pc EXCEPT ![Limiter] = "disable"] /\ op' = [op EXCEPT ![Limiter] = "limit"]
        /\ todo' = [todo EXCEPT ![Limiter] = aiRunning]
        /\ UNCHANGED <<dev, reply, started, snap, seen>>
        /\ calm' \in BOOLEAN
    BY <1>1 DEF BeginLimitStop, Begin, RowsTyped
  <2>3. Places'
    <3>1. "disable" \in Steps /\ "limit" \in Ops /\ "disable" \in StepsOf("limit")
      BY DEF Steps, Ops, StepsOf
    <3> QED BY <2>1, <2>2, <3>1, BeginPlaces
  <2>4. Locals'
    BY <2>1, <2>2 DEF Locals, Places, RowsTyped
  <2>5. RowsTyped' /\ ServiceTyped' /\ Counters'
    BY <1>1, <2>2 DEF BeginLimitStop, RowsTyped, ServiceTyped, Counters, rowVars, pendVars,
       aiVars, boundVars
  <2> QED BY <2>3, <2>4, <2>5
<1>2. CASE ReachLimit
  BY <1>2 DEF ReachLimit, Places, Locals, RowsTyped, ServiceTyped, Counters, localVars, pendVars,
     aiVars, boundVars
<1>3. CASE Crash
  <2> USE <1>3 DEF Crash
  <2>1. Places'
    BY DEF Places, Steps, Ops, StepsOf, Workers
  <2>2. Locals'
    BY DEF Locals, Statuses
  <2>3. RowsTyped' /\ ServiceTyped'
    BY DEF RowsTyped, ServiceTyped
  <2>4. Counters'
    BY DEF Counters
  <2> QED BY <2>1, <2>2, <2>3, <2>4
<1>4. CASE AICrash
  <2> USE <1>4 DEF AICrash
  <2>1. Places' /\ Locals' /\ RowsTyped'
    BY DEF Places, Locals, RowsTyped, localVars, rowVars, pendVars
  <2>2. ServiceTyped' /\ Counters'
    BY DEF ServiceTyped, Counters
  <2> QED BY <2>1, <2>2
<1>5. ASSUME NEW d \in Devices, CameraFails(d) PROVE Inv'
  <2> USE <1>5 DEF CameraFails
  <2>1. Places' /\ Locals' /\ RowsTyped'
    BY DEF Places, Locals, RowsTyped, localVars, rowVars, pendVars
  <2>2. ServiceTyped' /\ Counters'
    BY DEF ServiceTyped, Counters
  <2> QED BY <2>1, <2>2
<1>6. ASSUME NEW d \in Devices, LoseCallback(d) PROVE Inv'
  <2> USE <1>6 DEF LoseCallback
  <2>1. Places' /\ Locals' /\ RowsTyped' /\ Counters'
    BY FaultTyped DEF Places, Locals, RowsTyped, localVars, rowVars, pendVars
  <2>2. ServiceTyped'
    BY DEF ServiceTyped
  <2> QED BY <2>1, <2>2
<1>7. ASSUME NEW d \in Devices, DropPending(d) PROVE Inv'
  BY <1>7 DEF DropPending, Places, Locals, RowsTyped, ServiceTyped, Counters, localVars, rowVars,
     aiVars, boundVars
<1> QED BY <1>1, <1>2, <1>3, <1>4, <1>5, <1>6, <1>7

\* Every step keeps it.
LEMMA NextInv == Inv /\ [Next]_vars => Inv'
<1> SUFFICES ASSUME Inv, [Next]_vars PROVE Inv'
  OBVIOUS
<1>1. CASE UNCHANGED vars
  BY <1>1 DEF vars, Inv, Places, Locals, RowsTyped, ServiceTyped, Counters, rowVars, pendVars,
     aiVars, localVars, boundVars
<1> QED BY <1>1, WorkTypes, BeginTypes, WorldTypes DEF Next

\* Every goroutine is at a step of its operation, throughout.
LEMMA AlwaysInv == Spec => []Inv
  BY InitInv, NextInv, PTL DEF Spec

\* Rows, the AI service's table and every goroutine's variables keep their types.
THEOREM TypeCorrect == Spec => []TypeOK
  BY AlwaysInv, InvTypes, PTL

-----------------------------------------------------------------------------
(* A stop holds.                                                           *)

\* A goroutine that is not starting anything begins to only where auto resume was
\* on, and nobody but a starting one switches it on.
Quiet(t) ==
  /\ held' = held
  /\ autoResume' => autoResume \/ Starting(t)
  /\ \A u \in Workers : Starting(u)' => Starting(u) \/ autoResume

\* A step that leaves no more goroutines starting.
LEMMA MoveStarting ==
  ASSUME Places, NEW t \in Workers, NEW s \in Steps, Goto(t, s), op' = op,
         \/ op[t] \in {"start", "quick"} /\ pc[t] # "idle"
         \/ /\ op[t] \in {"recover", "device"}
            /\ (s \in {"gate", "call", "wait", "row"} =>
                  (pc[t] \in {"gate", "call", "wait", "row"} \/ autoResume))
         \/ op[t] \notin {"start", "quick", "recover", "device"}
  PROVE  \A u \in Workers : Starting(u)' => Starting(u) \/ autoResume
<1> TAKE u \in Workers
<1>1. op'[u] = op[u] /\ pc'[u] = IF u = t THEN s ELSE pc[u]
  BY DEF Places, Goto
<1> QED BY <1>1 DEF Starting

\* Who returns starts nothing.
LEMMA ReturnStarting ==
  ASSUME Places, NEW t \in Workers, Return(t)
  PROVE  \A u \in Workers : Starting(u)' => Starting(u)
<1> TAKE u \in Workers
<1>1. /\ op'[u] = IF u = t THEN "none" ELSE op[u]
      /\ pc'[u] = IF u = t THEN "idle" ELSE pc[u]
  BY DEF Places, Return
<1> QED BY <1>1 DEF Starting

\* A start is the only work that starts cameras, and it had begun before.
LEMMA StartQuiet ==
  ASSUME Inv, NEW t \in Workers, StartWork(t)
  PROVE  Quiet(t)
<1> USE DEF Inv, Quiet
<1>1. CASE Check(t)
  <2>1. held' = held /\ (autoResume' => autoResume \/ Starting(t))
    BY <1>1 DEF Check, localVars, SwitchOffAutoResume
  <2>2. \A u \in Workers : Starting(u)' => Starting(u) \/ autoResume
    <3>1. CASE reached
      BY <1>1, <3>1, ReturnStarting DEF Check
    <3>2. CASE ~reached
      <4> TAKE u \in Workers
      <4>1. op' = op /\ (u # t => pc'[u] = pc[u])
        BY <1>1, <3>2 DEF Check, localVars, Goto, Places
      <4>2. Starting(t)
        BY <1>1, WhoIsWhere DEF Check, Starting
      <4> QED BY <4>1, <4>2 DEF Starting
    <3> QED BY <3>1, <3>2
  <2> QED BY <2>1, <2>2
<1>2. CASE Gate(t)
  <2>1. held' = held /\ (autoResume' => autoResume \/ Starting(t))
    BY <1>2 DEF Gate, SwitchOffAutoResume
  <2>2. \A u \in Workers : Starting(u)' => Starting(u) \/ autoResume
    BY <1>2, WhoIsWhere, MoveStarting DEF Gate, Steps
  <2> QED BY <2>1, <2>2
<1>3. CASE StartCall(t)
  <2>1. held' = held /\ (autoResume' => autoResume \/ Starting(t))
    BY <1>3 DEF StartCall, rowVars
  <2>2. \A u \in Workers : Starting(u)' => Starting(u) \/ autoResume
    BY <1>3, WhoIsWhere, MoveStarting DEF StartCall, Steps
  <2> QED BY <2>1, <2>2
<1>4. CASE StartRefused(t)
  <2>1. held' = held /\ (autoResume' => autoResume \/ Starting(t))
    BY <1>4 DEF StartRefused, rowVars
  <2>2. \A u \in Workers : Starting(u)' => Starting(u) \/ autoResume
    BY <1>4, WhoIsWhere, MoveStarting DEF StartRefused, Steps
  <2> QED BY <2>1, <2>2
<1>5. CASE StartReply(t)
  <2>1. held' = held /\ (autoResume' => autoResume \/ Starting(t))
    BY <1>5 DEF StartReply, rowVars
  <2>2. \A u \in Workers : Starting(u)' => Starting(u) \/ autoResume
    BY <1>5, WhoIsWhere, MoveStarting DEF StartReply, Steps
  <2> QED BY <2>1, <2>2
<1>6. CASE StartReplyLost(t)
  <2>1. held' = held /\ (autoResume' => autoResume \/ Starting(t))
    BY <1>6 DEF StartReplyLost, rowVars
  <2>2. \A u \in Workers : Starting(u)' => Starting(u) \/ autoResume
    BY <1>6, WhoIsWhere, MoveStarting DEF StartReplyLost, Steps
  <2> QED BY <2>1, <2>2
<1>7. CASE StartRow(t)
  <2>1. held' = held /\ (autoResume' => autoResume \/ Starting(t))
    BY <1>7 DEF StartRow
  <2>2. \A u \in Workers : Starting(u)' => Starting(u) \/ autoResume
    BY <1>7, WhoIsWhere, MoveStarting DEF StartRow, Steps
  <2> QED BY <2>1, <2>2
<1>8. CASE Compute(t)
  <2>1. held' = held /\ (autoResume' => autoResume \/ Starting(t))
    BY <1>8 DEF Compute, rowVars
  <2>2. \A u \in Workers : Starting(u)' => Starting(u) \/ autoResume
    BY <1>8, WhoIsWhere, MoveStarting DEF Compute, Steps
  <2> QED BY <2>1, <2>2
<1>9. CASE Save(t)
  <2>1. held' = held /\ (autoResume' => autoResume \/ Starting(t))
    BY <1>9 DEF Save, localVars
  <2>2. \A u \in Workers : Starting(u)' => Starting(u) \/ autoResume
    BY <1>9, WhoIsWhere, MoveStarting, ReturnStarting DEF Save, localVars, Steps
  <2> QED BY <2>1, <2>2
<1>10. CASE Grant(t)
  <2>1. held' = held /\ (autoResume' => autoResume \/ Starting(t))
    BY <1>10, WhoIsWhere DEF Grant, Starting
  <2>2. \A u \in Workers : Starting(u)' => Starting(u) \/ autoResume
    BY <1>10, WhoIsWhere, ReturnStarting DEF Grant
  <2> QED BY <2>1, <2>2
<1> QED BY <1>1, <1>2, <1>3, <1>4, <1>5, <1>6, <1>7, <1>8, <1>9, <1>10 DEF StartWork

\* A stop starts nobody.
LEMMA StopQuiet ==
  ASSUME Inv, NEW t \in Workers, StopWork(t), ~Disable(t)
  PROVE  Quiet(t)
<1> USE DEF Inv, Quiet
<1>1. CASE StopCall(t)
  <2>1. held' = held /\ (autoResume' => autoResume \/ Starting(t))
    BY <1>1 DEF StopCall, rowVars
  <2>2. \A u \in Workers : Starting(u)' => Starting(u) \/ autoResume
    BY <1>1, WhoIsWhere, MoveStarting DEF StopCall, Steps
  <2> QED BY <2>1, <2>2
<1>2. CASE StopCallFails(t)
  <2>1. held' = held /\ (autoResume' => autoResume \/ Starting(t))
    BY <1>2 DEF StopCallFails, rowVars
  <2>2. \A u \in Workers : Starting(u)' => Starting(u) \/ autoResume
    BY <1>2, WhoIsWhere, MoveStarting DEF StopCallFails, Steps
  <2> QED BY <2>1, <2>2
<1>3. CASE StopRow(t)
  <2>1. held' = held /\ (autoResume' => autoResume \/ Starting(t))
    BY <1>3 DEF StopRow
  <2>2. \A u \in Workers : Starting(u)' => Starting(u) \/ autoResume
    <3> TAKE u \in Workers
    <3>1. op' = op /\ (u # t => pc'[u] = pc[u])
      BY <1>3 DEF StopRow, Goto, Places
    <3>2. op[t] = "quick" \/ op[t] \in {"stop", "limit"}
      BY <1>3, WhoIsWhere DEF StopRow
    <3>3. op[t] = "quick" => Starting(t)
      BY <1>3 DEF StopRow, Starting
    <3> QED BY <3>1, <3>2, <3>3 DEF Starting
  <2> QED BY <2>1, <2>2
<1>4. CASE Finish(t)
  <2>1. held' = held /\ (autoResume' => autoResume \/ Starting(t))
    BY <1>4 DEF Finish
  <2>2. \A u \in Workers : Starting(u)' => Starting(u) \/ autoResume
    BY <1>4, WhoIsWhere, ReturnStarting DEF Finish
  <2> QED BY <2>1, <2>2
<1> QED BY <1>1, <1>2, <1>3, <1>4 DEF StopWork

\* A sync or a recovery starts somebody only when auto resume is on.
LEMMA FollowQuiet ==
  ASSUME Inv, NEW t \in Workers, FollowWork(t)
  PROVE  Quiet(t)
<1> USE DEF Inv, Quiet
<1>1. CASE Fetch(t)
  <2>1. held' = held /\ (autoResume' => autoResume \/ Starting(t))
    BY <1>1 DEF Fetch, rowVars
  <2>2. \A u \in Workers : Starting(u)' => Starting(u) \/ autoResume
    BY <1>1, WhoIsWhere, MoveStarting DEF Fetch, Steps
  <2> QED BY <2>1, <2>2
<1>2. CASE FetchFails(t)
  <2>1. held' = held /\ (autoResume' => autoResume \/ Starting(t))
    BY <1>2 DEF FetchFails, rowVars
  <2>2. \A u \in Workers : Starting(u)' => Starting(u) \/ autoResume
    BY <1>2, WhoIsWhere, ReturnStarting DEF FetchFails
  <2> QED BY <2>1, <2>2
<1>3. CASE SyncRow(t)
  <2>1. held' = held /\ (autoResume' => autoResume \/ Starting(t))
    BY <1>3 DEF SyncRow
  <2>2. \A u \in Workers : Starting(u)' => Starting(u) \/ autoResume
    BY <1>3, WhoIsWhere, MoveStarting DEF SyncRow, Steps
  <2> QED BY <2>1, <2>2
<1>4. CASE SyncNothing(t)
  <2>1. held' = held /\ (autoResume' => autoResume \/ Starting(t))
    BY <1>4 DEF SyncNothing, rowVars, localVars
  <2>2. \A u \in Workers : Starting(u)' => Starting(u) \/ autoResume
    BY <1>4, WhoIsWhere, MoveStarting, ReturnStarting DEF SyncNothing, localVars, Steps
  <2> QED BY <2>1, <2>2
<1>5. CASE SyncSave(t)
  <2>1. held' = held /\ (autoResume' => autoResume \/ Starting(t))
    BY <1>5 DEF SyncSave, localVars
  <2>2. \A u \in Workers : Starting(u)' => Starting(u) \/ autoResume
    BY <1>5, WhoIsWhere, MoveStarting, ReturnStarting DEF SyncSave, localVars, Steps
  <2> QED BY <2>1, <2>2
<1>6. CASE Mark(t)
  <2>1. held' = held /\ (autoResume' => autoResume \/ Starting(t))
    BY <1>6 DEF Mark, rowVars, localVars
  <2>2. \A u \in Workers : Starting(u)' => Starting(u) \/ autoResume
    BY <1>6, WhoIsWhere, MoveStarting DEF Mark, localVars, Steps
  <2> QED BY <2>1, <2>2
<1>7. CASE Resume(t)
  <2>1. held' = held /\ (autoResume' => autoResume \/ Starting(t))
    BY <1>7 DEF Resume, rowVars
  <2>2. \A u \in Workers : Starting(u)' => Starting(u) \/ autoResume
    BY <1>7, WhoIsWhere, MoveStarting DEF Resume, Steps
  <2> QED BY <2>1, <2>2
<1>8. CASE Clear(t)
  <2>1. held' = held /\ (autoResume' => autoResume \/ Starting(t))
    BY <1>8 DEF Clear, rowVars
  <2>2. \A u \in Workers : Starting(u)' => Starting(u) \/ autoResume
    BY <1>8, WhoIsWhere, ReturnStarting DEF Clear
  <2> QED BY <2>1, <2>2
<1> QED BY <1>1, <1>2, <1>3, <1>4, <1>5, <1>6, <1>7, <1>8 DEF FollowWork

\* No step of work but a grant by who is starting ends the quiet.
LEMMA WorkQuiet ==
  ASSUME Inv, NEW t \in Workers, Work(t), ~Disable(t)
  PROVE  Quiet(t)
<1>1. ASSUME Delete(t) \/ Edit(t) PROVE Quiet(t)
  <2>1. \A u \in Workers : Starting(u)' => Starting(u)
    BY <1>1, ReturnStarting DEF Inv, Delete, Edit
  <2> QED BY <1>1, <2>1 DEF Quiet, Delete, Edit
<1> QED BY <1>1, StartQuiet, StopQuiet, FollowQuiet DEF Work

\* Inv and HeldInv together are inductive.
LEMMA HeldStep ==
  ASSUME Inv, HeldInv, [Next]_vars
  PROVE  HeldInv'
<1> USE DEF HeldInv
<1>1. ASSUME NEW t \in Workers, Work(t), ~Disable(t) PROVE HeldInv'
  BY <1>1, WorkQuiet DEF Quiet
<1>2. ASSUME NEW t \in Workers, Disable(t) PROVE HeldInv'
  <2>1. autoResume' = FALSE
    BY <1>2 DEF Disable, SwitchOffAutoResume
  <2>2. held' => held \/ \A u \in Workers : ~Starting(u)
    BY <1>2 DEF Disable
  <2>3. op[t] \in {"stop", "limit"}
    BY <1>2, WhoIsWhere DEF Inv, Disable
  <2>4. \A u \in Workers : Starting(u)' => Starting(u)
    <3>1. CASE Return(t)
      BY <3>1, ReturnStarting DEF Inv
    <3>2. CASE Goto(t, "stopcall") /\ op' = op
      <4> TAKE u \in Workers
      <4>1. op'[u] = op[u] /\ pc'[u] = IF u = t THEN "stopcall" ELSE pc[u]
        BY <3>2 DEF Inv, Places, Goto
      <4> QED BY <2>3, <4>1 DEF Starting
    <3> QED BY <1>2, <3>1, <3>2 DEF Disable, localVars
  <2> QED BY <2>1, <2>2, <2>4
<1>3. ASSUME NEW t \in Threads, BeginAny(t) PROVE HeldInv'
  <2>1. t \in Workers
    BY DEF Workers
  <2>2. ASSUME NEW o \in {"stop", "sync", "recover", "delete", "edit", "stopped"},
               NEW s \in {"disable", "fetch", "mark", "delete", "edit", "compute"},
               pc' = [pc EXCEPT ![t] = s], op' = [op EXCEPT ![t] = o],
               held' = held, autoResume' = autoResume
        PROVE  HeldInv'
    <3>1. ASSUME NEW u \in Workers, Starting(u)' PROVE Starting(u)
      <4>1. /\ op'[u] = IF u = t THEN o ELSE op[u]
            /\ pc'[u] = IF u = t THEN s ELSE pc[u]
        BY <2>1, <2>2 DEF Inv, Places
      <4> QED BY <3>1, <4>1 DEF Starting
    <3> QED BY <2>2, <3>1
  <2>3. CASE BeginStart(t) \/ \E d \in Devices : BeginQuick(t, d)
    BY <2>3 DEF BeginStart, BeginQuick
  <2>4. CASE BeginStop(t)
    BY <2>2, <2>4 DEF BeginStop, Request, Begin, rowVars
  <2>5. CASE BeginSync(t)
    BY <2>2, <2>5 DEF BeginSync, Request, Begin, rowVars
  <2>6. CASE BeginRecovery(t)
    BY <2>2, <2>6 DEF BeginRecovery, Request, Begin, rowVars
  <2>7. CASE BeginAttempt(t)
    BY <2>2, <2>7 DEF BeginAttempt, Request, Begin, rowVars
  <2>8. CASE BeginDelete(t)
    BY <2>2, <2>8 DEF BeginDelete, Request, Begin, rowVars
  <2>9. CASE BeginEdit(t)
    BY <2>2, <2>9 DEF BeginEdit, Request, Begin, rowVars
  <2>10. ASSUME NEW d \in Devices, BeginDevice(t, d) PROVE HeldInv'
    BY <2>10 DEF BeginDevice, rowVars
  <2>11. ASSUME NEW d \in Devices, HandleStopped(t, d) PROVE HeldInv'
    <3>1. CASE exists
      BY <2>2, <2>11, <3>1 DEF HandleStopped, Goto
    <3>2. CASE ~exists
      BY <2>11, <3>2 DEF HandleStopped, Starting
    <3> QED BY <3>1, <3>2
  <2> QED BY <1>3, <2>3, <2>4, <2>5, <2>6, <2>7, <2>8, <2>9, <2>10, <2>11 DEF BeginAny
<1>4. CASE BeginLimitStop
  <2>1. \A u \in Workers : Starting(u)' => Starting(u)
    <3> TAKE u \in Workers
    <3>1. /\ op'[u] = IF u = Limiter THEN "limit" ELSE op[u]
          /\ pc'[u] = IF u = Limiter THEN "disable" ELSE pc[u]
      BY <1>4 DEF BeginLimitStop, Begin, Inv, Places
    <3> QED BY <3>1 DEF Starting
  <2> QED BY <1>4, <2>1 DEF BeginLimitStop, rowVars
<1>5. CASE Crash
  BY <1>5 DEF Crash, Starting
<1>6. ASSUME UNCHANGED <<autoResume, held, pc, op>> PROVE HeldInv'
  BY <1>6 DEF Starting
<1>7. CASE \/ ReachLimit \/ AICrash \/ UNCHANGED vars
           \/ \E d \in Devices : CameraFails(d) \/ LoseCallback(d) \/ DropPending(d)
  BY <1>6, <1>7 DEF ReachLimit, AICrash, vars, CameraFails, LoseCallback, DropPending, rowVars,
     localVars
<1> QED BY <1>1, <1>2, <1>3, <1>4, <1>5, <1>7 DEF Next

\* The stop holds throughout.
LEMMA AlwaysHeld == Spec => [](Inv /\ HeldInv)
<1>1. Init => HeldInv
  BY DEF Init, HeldInv
<1>2. (Inv /\ HeldInv) /\ [Next]_vars => (Inv /\ HeldInv)'
  BY NextInv, HeldStep
<1> QED BY <1>1, <1>2, InitInv, PTL DEF Spec

\* A camera appears only where a goroutine in the loop over the devices asks for it.
LEMMA CameraAppears ==
  ASSUME Inv, [Next]_vars, NEW d \in Devices, camera[d] = "none", camera'[d] # "none"
  PROVE  \E t \in Workers : pc[t] = "call" /\ Starting(t)
<1> USE DEF Inv, ServiceTyped
<1>1. ASSUME NEW t \in Workers, StartWork(t) PROVE pc[t] = "call" /\ Starting(t)
  <2>1. StartCall(t)
    BY <1>1 DEF StartWork, Check, Gate, StartCall, StartRefused, StartReply, StartReplyLost,
       StartRow, Compute, Save, Grant, aiVars
  <2> QED BY <2>1, WhoIsWhere DEF StartCall, Starting
<1>2. ASSUME NEW t \in Workers, StopWork(t) \/ FollowWork(t) \/ Delete(t) \/ Edit(t) PROVE FALSE
  BY <1>2 DEF StopWork, Disable, StopCall, StopCallFails, StopRow, Finish, FollowWork, Fetch,
     FetchFails, SyncRow, SyncNothing, SyncSave, Mark, Resume, Clear, Delete, Edit, aiVars
<1>3. ASSUME NEW t \in Threads, BeginAny(t) PROVE FALSE
  BY <1>3 DEF BeginAny, BeginStart, BeginStop, BeginSync, BeginRecovery, BeginAttempt, BeginDelete,
     BeginEdit, BeginQuick, BeginDevice, HandleStopped, aiVars
<1>4. ASSUME BeginLimitStop \/ ReachLimit \/ Crash \/ AICrash \/ UNCHANGED vars
             \/ \E e \in Devices : CameraFails(e) \/ LoseCallback(e) \/ DropPending(e)
      PROVE  FALSE
  BY <1>4 DEF BeginLimitStop, ReachLimit, Crash, AICrash, CameraFails, LoseCallback, DropPending,
     vars, aiVars
<1> QED BY <1>1, <1>2, <1>3, <1>4 DEF Next, Work

\* Auto resume is switched on by a goroutine that is starting cameras, if at all.
LEMMA ResumeGranted ==
  ASSUME Inv, [Next]_vars, ~autoResume, autoResume'
  PROVE  \E t \in Workers : Starting(t)
<1>1. ASSUME NEW t \in Workers, Work(t) PROVE Starting(t)
  BY <1>1, WorkQuiet DEF Quiet, Disable, SwitchOffAutoResume
<1>2. ASSUME NEW t \in Threads, BeginAny(t) PROVE FALSE
  BY <1>2 DEF BeginAny, BeginStart, BeginStop, BeginSync, BeginRecovery, BeginAttempt, BeginDelete,
     BeginEdit, BeginQuick, BeginDevice, HandleStopped, rowVars
<1>3. ASSUME BeginLimitStop \/ ReachLimit \/ Crash \/ AICrash \/ UNCHANGED vars
             \/ \E e \in Devices : CameraFails(e) \/ LoseCallback(e) \/ DropPending(e)
      PROVE  FALSE
  BY <1>3 DEF BeginLimitStop, ReachLimit, Crash, AICrash, CameraFails, LoseCallback, DropPending,
     vars, rowVars
<1> QED BY <1>1, <1>2, <1>3 DEF Next

\* A stop holds: no recovery, stale list, pending device, sync, callback or crash
\* undoes it, for any number of devices and goroutines.
THEOREM StopIsFinal == Spec => StopHolds
<1>1. ASSUME Inv, HeldInv, [Next]_vars, held
      PROVE  ~autoResume' /\ \A d \in Devices : camera[d] = "none" => camera'[d] = "none"
  <2>1. \A d \in Devices : camera[d] = "none" => camera'[d] = "none"
    BY <1>1, CameraAppears DEF HeldInv
  <2>2. ~autoResume'
    BY <1>1, ResumeGranted DEF HeldInv
  <2> QED BY <2>1, <2>2
<1>2. Inv /\ HeldInv /\ [Next]_vars =>
        [held => /\ ~autoResume'
                 /\ \A d \in Devices : camera[d] = "none" => camera'[d] = "none"]_vars
  BY <1>1
<1> QED BY <1>2, AlwaysHeld, PTL DEF Spec, StopHolds

-----------------------------------------------------------------------------
(* The limit holds.                                                        *)

\* Only a move to a step of the loop leads into it.
LEMMA MoveLoop ==
  ASSUME Places, NEW t \in Workers, NEW s \in Steps, pc' = [pc EXCEPT ![t] = s],
         s \notin {"call", "wait", "row"} \/ InLoop(t)
  PROVE  \A u \in Workers : ~InLoop(u) => ~InLoop(u)'
  BY DEF Places, InLoop

\* Past the limit a start turns back at the gate.
LEMMA LoopStart ==
  ASSUME Inv, NEW t \in Workers, StartWork(t), reached
  PROVE  \A u \in Workers : ~InLoop(u) => ~InLoop(u)'
<1> USE DEF Inv
<1>1. CASE Check(t)
  BY <1>1, MoveLoop DEF Check, Return, Steps
<1>2. CASE Gate(t)
  BY <1>2, MoveLoop DEF Gate, Goto, Steps
<1>3. CASE StartCall(t) \/ StartRefused(t) \/ StartReply(t) \/ StartReplyLost(t) \/ StartRow(t)
  <2>1. InLoop(t)
    BY <1>3 DEF StartCall, StartRefused, StartReply, StartReplyLost, StartRow, InLoop
  <2>2. PICK s \in Steps : pc' = [pc EXCEPT ![t] = s]
    BY <1>3 DEF StartCall, StartRefused, StartReply, StartReplyLost, StartRow, Goto, Steps
  <2> QED BY <2>1, <2>2, MoveLoop
<1>4. CASE Compute(t) \/ Save(t) \/ Grant(t)
  BY <1>4, MoveLoop DEF Compute, Save, Grant, Goto, Return, Steps
<1> QED BY <1>1, <1>2, <1>3, <1>4 DEF StartWork

\* A stop does not lead into the loop.
LEMMA LoopStop ==
  ASSUME Inv, NEW t \in Workers, StopWork(t)
  PROVE  \A u \in Workers : ~InLoop(u) => ~InLoop(u)'
<1>1. PICK s \in Steps \ {"call", "wait", "row"} : pc' = [pc EXCEPT ![t] = s]
  BY DEF StopWork, Disable, StopCall, StopCallFails, StopRow, Finish, Goto, Return, Steps
<1> QED BY <1>1, MoveLoop DEF Inv

\* Nor do sync, recovery, edit and deletion.
LEMMA LoopOther ==
  ASSUME Inv, NEW t \in Workers, FollowWork(t) \/ Delete(t) \/ Edit(t)
  PROVE  \A u \in Workers : ~InLoop(u) => ~InLoop(u)'
<1>1. PICK s \in Steps \ {"call", "wait", "row"} : pc' = [pc EXCEPT ![t] = s]
  BY DEF FollowWork, Fetch, FetchFails, SyncRow, SyncNothing, SyncSave, Mark, Resume, Clear,
     Delete, Edit, Goto, Return, Steps
<1> QED BY <1>1, MoveLoop DEF Inv

\* Nobody begins inside the loop.
LEMMA LoopBegin ==
  ASSUME Inv, NEW t \in Threads, BeginAny(t)
  PROVE  \A u \in Workers : ~InLoop(u) => ~InLoop(u)'
<1>1. \/ pc' = pc
      \/ \E s \in Steps \ {"call", "wait", "row"} : pc' = [pc EXCEPT ![t] = s]
  BY DEF BeginAny, BeginStart, BeginStop, BeginSync, BeginRecovery, BeginAttempt, BeginDelete,
     BeginEdit, BeginQuick, BeginDevice, HandleStopped, Request, Begin, Goto, Steps
<1> QED BY <1>1, MoveLoop DEF Inv, InLoop, Workers

\* The world moves nobody.
LEMMA LoopWorld ==
  ASSUME Inv, BeginLimitStop \/ ReachLimit \/ Crash \/ AICrash \/ UNCHANGED vars
              \/ \E e \in Devices : CameraFails(e) \/ LoseCallback(e) \/ DropPending(e)
  PROVE  \A u \in Workers : ~InLoop(u) => ~InLoop(u)'
<1>1. CASE BeginLimitStop
  BY <1>1, MoveLoop DEF BeginLimitStop, Begin, Inv, Steps, Workers
<1>2. CASE Crash
  BY <1>2 DEF Crash, InLoop
<1>3. CASE ReachLimit \/ AICrash \/ UNCHANGED vars
           \/ \E e \in Devices : CameraFails(e) \/ LoseCallback(e) \/ DropPending(e)
  <2>1. pc' = pc
    BY <1>3 DEF ReachLimit, AICrash, vars, CameraFails, LoseCallback, DropPending
  <2> QED BY <2>1 DEF InLoop
<1> QED BY <1>1, <1>2, <1>3

\* Past the limit nobody gets into the loop over the devices, and only who was in
\* it starts a camera.
THEOREM LimitIsFinal == Spec => LimitHolds
<1>1. ASSUME Inv, [Next]_vars, reached
      PROVE  /\ \A t \in Workers : ~InLoop(t) => ~InLoop(t)'
             /\ \A d \in Devices :
                  camera[d] = "none" /\ camera'[d] # "none" => \E t \in Workers : InLoop(t)
  <2>1. \A t \in Workers : ~InLoop(t) => ~InLoop(t)'
    BY <1>1, LoopStart, LoopStop, LoopOther, LoopBegin, LoopWorld DEF Next, Work
  <2>2. \A d \in Devices :
          camera[d] = "none" /\ camera'[d] # "none" => \E t \in Workers : InLoop(t)
    BY <1>1, CameraAppears DEF InLoop
  <2> QED BY <2>1, <2>2
<1>2. Inv /\ [Next]_vars =>
        [reached => /\ \A t \in Workers : ~InLoop(t) => ~InLoop(t)'
                    /\ \A d \in Devices :
                         camera[d] = "none" /\ camera'[d] # "none" => \E t \in Workers : InLoop(t)]_vars
  BY <1>1
<1> QED BY <1>2, AlwaysInv, PTL DEF Spec, LimitHolds

-----------------------------------------------------------------------------
(* Rows and cameras.                                                       *)

\* What the AI service and a device's row say of it may both be.
Agrees(d) ==
  /\ camera[d] = "running" => d \in aiRunning
  /\ d \in aiRunning => camera[d] # "none"

\* A goroutine has changed device d, or asked about it, and not written its row yet.
Handles(t, d) ==
  \/ pc[t] \in {"wait", "row", "stoprow"} /\ dev[t] = d
  \/ pc[t] = "syncrow" /\ d \in todo[t]

\* The steps after which the task's status is written again.
StatusDue == {"gate", "call", "wait", "row", "compute", "save", "stopcall", "stoprow",
              "finish", "mark", "fetch", "syncrow", "syncsave"}

\* What a goroutine that works alone holds is true.
InHand(t) ==
  /\ pc[t] = "wait" => camera[dev[t]] = "running" /\ t \in probing
  /\ pc[t] = "row" => IF reply[t] THEN camera[dev[t]] # "none" ELSE camera[dev[t]] # "running"
  /\ pc[t] = "stoprow" => camera[dev[t]] = "none"
  /\ op[t] = "stop" => aiRunning \subseteq todo[t]
  /\ pc[t] = "finish" => op[t] = "stop" /\ todo[t] = {}
  /\ pc[t] = "save" => snap[t] = aiRunning
  /\ pc[t] \in {"syncrow", "syncsave"} =>
       /\ snap[t] = RunningCameras
       /\ \A d \in Devices \ todo[t] : d \in aiRunning <=> d \in snap[t]
  /\ pc[t] = "syncsave" => todo[t] = {}
  /\ pc[t] = "edit" => seen[t] = taskStatus

\* Nobody but t is at work; what is not in its hands agrees; and a callback on its way
\* is about a camera that does not run.
Lone(t) ==
  /\ Alone(t) /\ InHand(t)
  /\ \A d \in Devices : callbacks[d] > 0 => camera[d] # "running"
  /\ \A d \in Devices : Handles(t, d) \/ Agrees(d)
  /\ pc[t] \in StatusDue \/ taskStatus = StatusOf(aiRunning)

\* The inductive strengthening of CalmAgrees.  After a deletion there is nothing to agree.
CalmInv == calm /\ exists => \E t \in Workers : Lone(t)

\* A step that touches neither rows nor cameras.
LEMMA Kept ==
  ASSUME Places, NEW t \in Workers, NEW s \in Steps, Lone(t), pc' = [pc EXCEPT ![t] = s],
         UNCHANGED <<camera, callbacks, aiRunning, taskStatus>>,
         pc[t] \notin {"wait", "row", "stoprow", "syncrow"},
         pc[t] \in StatusDue => s \in StatusDue,
         InHand(t)'
  PROVE  Lone(t)'
<1>1. Alone(t)'
  BY DEF Lone, Alone, Places
<1>2. \A d \in Devices : callbacks'[d] > 0 => camera'[d] # "running"
  BY DEF Lone
<1>3. \A d \in Devices : Agrees(d)'
  BY DEF Lone, Handles, Agrees
<1>4. pc'[t] = s
  BY DEF Places
<1>5. pc'[t] \in StatusDue \/ (taskStatus = StatusOf(aiRunning))'
  BY <1>4 DEF Lone, StatusOf
<1> QED BY <1>1, <1>2, <1>3, <1>5 DEF Lone

\* Who is done holds nothing.
LEMMA ReturnKept ==
  ASSUME Places, NEW t \in Workers, Return(t)
  PROVE  /\ pc' = [pc EXCEPT ![t] = "idle"] /\ pc'[t] = "idle" /\ op'[t] = "none"
         /\ InHand(t)'
  BY DEF Places, Return, InHand

\* The start of cameras, and the computation of the status, by one goroutine alone.
LEMMA StartCalm ==
  ASSUME Inv, NEW t \in Workers, StartWork(t), Lone(t), calm', exists
  PROVE  Lone(t)'
<1> USE DEF Inv
<1>0. "idle" \in Steps /\ "gate" \in Steps /\ "stopcall" \in Steps /\ "call" \in Steps
      /\ "compute" \in Steps /\ "save" \in Steps /\ "row" \in Steps /\ "wait" \in Steps
      /\ "grant" \in Steps /\ "clear" \in Steps
  BY DEF Steps
<1>1. CASE Check(t)
  <2>0. pc[t] = "check" /\ UNCHANGED <<camera, callbacks, aiRunning, taskStatus>>
        /\ op[t] \in {"start", "quick"}
    BY <1>1, WhoIsWhere DEF Check, aiVars
  <2>1. CASE Return(t)
    BY <2>0, <2>1, <1>0, ReturnKept, Kept DEF StatusDue
  <2>2. CASE ~Return(t)
    <3>1. PICK s \in {"stopcall", "gate"} : pc' = [pc EXCEPT ![t] = s]
      BY <1>1, <2>2 DEF Check, Goto
    <3>2. InHand(t)'
      BY <1>1, <2>0, <2>2, <3>1 DEF Check, InHand, localVars, Places
    <3> QED BY <2>0, <3>1, <3>2, <1>0, Kept DEF StatusDue
  <2> QED BY <2>1, <2>2
<1>2. CASE Gate(t)
  <2>0. pc[t] = "gate" /\ UNCHANGED <<camera, callbacks, aiRunning, taskStatus>>
        /\ op[t] # "stop"
    BY <1>2, WhoIsWhere DEF Gate, aiVars
  <2>1. PICK s \in {"compute", "call"} : pc' = [pc EXCEPT ![t] = s]
    BY <1>2 DEF Gate, Goto
  <2>2. InHand(t)'
    BY <1>2, <2>0, <2>1 DEF Gate, InHand, Places
  <2> QED BY <2>0, <2>1, <2>2, <1>0, Kept DEF StatusDue
<1>3. CASE StartCall(t)
  <2>0. pc[t] = "call" /\ op[t] # "stop" /\ op' = op
    BY <1>3, WhoIsWhere DEF StartCall
  <2>1. PICK d \in todo[t] :
          /\ dev' = [dev EXCEPT ![t] = d]
          /\ IF camera[d] = "none"
               THEN /\ camera' = [camera EXCEPT ![d] = "running"]
                    /\ probing' = probing \cup {t}
                    /\ Goto(t, "wait")
                    /\ UNCHANGED reply
               ELSE /\ reply' = [reply EXCEPT ![t] = TRUE]
                    /\ Goto(t, "row")
                    /\ UNCHANGED <<camera, probing>>
          /\ calm' = (calm /\ callbacks[d] = 0)
    BY <1>3 DEF StartCall
  <2>2. d \in Devices /\ dev'[t] = d /\ callbacks[d] = 0
    BY <2>1 DEF Locals
  <2>3. UNCHANGED <<callbacks, aiRunning, taskStatus>>
    BY <1>3 DEF StartCall, rowVars
  <2>4. pc'[t] \in {"wait", "row"} /\ Alone(t)'
    BY <2>1 DEF Goto, Places, Lone, Alone
  <2>5. \A e \in Devices : e = d \/ camera'[e] = camera[e]
    BY <2>1, <2>2 DEF ServiceTyped
  <2>6. \A e \in Devices : callbacks'[e] > 0 => camera'[e] # "running"
    BY <2>2, <2>3, <2>5 DEF Lone, ServiceTyped
  <2>7. \A e \in Devices : Agrees(e)
    BY <2>0 DEF Lone, Handles
  <2>8. \A e \in Devices : Handles(t, e)' \/ Agrees(e)'
    BY <2>2, <2>3, <2>4, <2>5, <2>7 DEF Handles, Agrees
  <2>9. InHand(t)'
    <3>1. CASE camera[d] = "none"
      <4>1. camera'[d] = "running" /\ t \in probing' /\ pc'[t] = "wait"
        BY <2>1, <2>2, <3>1 DEF ServiceTyped, Goto, Places
      <4> QED BY <4>1, <2>0, <2>2 DEF InHand
    <3>2. CASE camera[d] # "none"
      <4>1. camera'[d] # "none" /\ reply'[t] /\ pc'[t] = "row"
        BY <2>1, <2>2, <3>2 DEF Locals, Goto, Places
      <4> QED BY <4>1, <2>0, <2>2 DEF InHand
    <3> QED BY <3>1, <3>2
  <2> QED BY <2>4, <2>6, <2>8, <2>9 DEF Lone, StatusDue
<1>4. CASE StartReply(t)
  <2>0. pc[t] = "wait" /\ op[t] # "stop" /\ op' = op /\ dev' = dev /\ dev[t] \in Devices
        /\ pc' = [pc EXCEPT ![t] = "row"]
    BY <1>4, WhoIsWhere DEF StartReply, Goto, Locals
  <2> DEFINE d == dev[t]
  <2>1. UNCHANGED <<callbacks, aiRunning, taskStatus>>
    BY <1>4 DEF StartReply, rowVars
  <2>2. camera[d] = "running" /\ t \in probing
    BY <2>0 DEF Lone, InHand
  <2>3. pc'[t] = "row" /\ Alone(t)'
    BY <2>0 DEF Places, Lone, Alone
  <2>4. \A e \in Devices : e = d \/ camera'[e] = camera[e]
    BY <1>4, <2>0 DEF StartReply, ServiceTyped
  <2>5. camera'[d] = camera[d] \/ camera'[d] = "none"
    BY <1>4, <2>0 DEF StartReply, ServiceTyped
  <2>6. \A e \in Devices : callbacks'[e] > 0 => camera'[e] # "running"
    BY <2>0, <2>1, <2>4, <2>5 DEF Lone
  <2>7. \A e \in Devices : Handles(t, e)' \/ Agrees(e)'
    BY <2>0, <2>1, <2>3, <2>4 DEF Lone, Handles, Agrees
  <2>8. IF reply'[t] THEN camera'[d] # "none" ELSE camera'[d] # "running"
    <3>1. CASE camera' = camera /\ reply' = [reply EXCEPT ![t] = TRUE]
      BY <2>2, <3>1 DEF Locals
    <3>2. CASE camera' = [camera EXCEPT ![d] = "none"] /\ reply' = [reply EXCEPT ![t] = FALSE]
      BY <2>0, <3>2 DEF Locals, ServiceTyped
    <3> QED BY <1>4, <2>2, <3>1, <3>2 DEF StartReply
  <2>9. InHand(t)'
    BY <2>0, <2>3, <2>8 DEF InHand
  <2> QED BY <2>3, <2>6, <2>7, <2>9 DEF Lone, StatusDue
<1>5. CASE StartRow(t)
  <2> DEFINE d == dev[t]
  <2>0. pc[t] = "row" /\ op[t] # "stop" /\ op' = op /\ d \in Devices
    BY <1>5, WhoIsWhere DEF StartRow, Locals
  <2>1. UNCHANGED <<camera, callbacks, taskStatus>>
    BY <1>5 DEF StartRow, aiVars
  <2>2. PICK s \in {"compute", "call"} : pc' = [pc EXCEPT ![t] = s]
    BY <1>5 DEF StartRow, Goto
  <2>3. pc'[t] \in {"compute", "call"} /\ Alone(t)'
    BY <2>2 DEF Places, Lone, Alone
  <2>4. aiRunning' = IF reply[t] THEN aiRunning \cup {d} ELSE aiRunning \ {d}
    BY <1>5 DEF StartRow
  <2>5. IF reply[t] THEN camera[d] # "none" ELSE camera[d] # "running"
    BY <2>0 DEF Lone, InHand
  <2>6. \A e \in Devices : Agrees(e)'
    <3> SUFFICES ASSUME NEW e \in Devices PROVE Agrees(e)'
      OBVIOUS
    <3>1. CASE e = d
      BY <2>1, <2>4, <2>5, <3>1 DEF Agrees
    <3>2. CASE e # d
      BY <2>0, <2>1, <2>4, <3>2 DEF Lone, Handles, Agrees
    <3> QED BY <3>1, <3>2
  <2>7. InHand(t)'
    BY <2>0, <2>3 DEF InHand
  <2> QED BY <2>1, <2>3, <2>6, <2>7 DEF Lone, StatusDue
<1>6. CASE Compute(t)
  <2>0. pc[t] = "compute" /\ pc' = [pc EXCEPT ![t] = "save"] /\ pc'[t] = "save"
        /\ UNCHANGED <<camera, callbacks, aiRunning, taskStatus>> /\ snap'[t] = aiRunning
        /\ op[t] # "stop" /\ op' = op
    BY <1>6, WhoIsWhere DEF Compute, Goto, aiVars, rowVars, Places, Locals
  <2>1. InHand(t)'
    BY <2>0 DEF InHand
  <2> QED BY <2>0, <2>1, <1>0, Kept DEF StatusDue
<1>7. CASE Save(t)
  <2>0. pc[t] = "save" /\ UNCHANGED <<camera, callbacks, aiRunning>> /\ op[t] # "stop"
    BY <1>7, WhoIsWhere DEF Save, aiVars
  <2>1. taskStatus' = StatusOf(aiRunning')
    BY <1>7, <2>0 DEF Save, SaveStatus, Lone, InHand, StatusOf
  <2>2. \A e \in Devices : Agrees(e)'
    BY <2>0 DEF Lone, Handles, Agrees
  <2>3. PICK s \in {"grant", "clear", "idle"} : pc' = [pc EXCEPT ![t] = s]
    BY <1>7 DEF Save, Goto, Return
  <2>4. pc'[t] \in {"grant", "clear", "idle"} /\ Alone(t)'
    BY <2>3 DEF Places, Lone, Alone
  <2>5. op'[t] # "stop"
    BY <1>7, <2>0 DEF Save, localVars, Return, Places
  <2>6. InHand(t)'
    BY <2>4, <2>5 DEF InHand
  <2> QED BY <2>0, <2>1, <2>2, <2>4, <2>6 DEF Lone
<1>8. CASE Grant(t)
  <2>0. pc[t] = "grant" /\ UNCHANGED <<camera, callbacks, aiRunning, taskStatus>> /\ Return(t)
    BY <1>8 DEF Grant, aiVars
  <2> QED BY <2>0, <1>0, ReturnKept, Kept DEF StatusDue
<1>9. ~(StartRefused(t) \/ StartReplyLost(t))
  BY DEF StartRefused, StartReplyLost, Fault
<1> QED BY <1>1, <1>2, <1>3, <1>4, <1>5, <1>6, <1>7, <1>8, <1>9 DEF StartWork

\* A stop by one goroutine alone: the camera goes first, then the row.
LEMMA StopCalm ==
  ASSUME Inv, NEW t \in Workers, StopWork(t), Lone(t), calm', exists
  PROVE  Lone(t)'
<1> USE DEF Inv
<1>0. "idle" \in Steps /\ "stopcall" \in Steps
  BY DEF Steps
<1>1. CASE Disable(t)
  <2>0. pc[t] = "disable" /\ UNCHANGED <<camera, callbacks, aiRunning, taskStatus>>
    BY <1>1 DEF Disable, aiVars
  <2>1. CASE Return(t)
    BY <2>0, <2>1, <1>0, ReturnKept, Kept DEF StatusDue
  <2>2. CASE ~Return(t)
    <3>1. pc' = [pc EXCEPT ![t] = "stopcall"] /\ pc'[t] = "stopcall"
          /\ UNCHANGED localVars
      BY <1>1, <2>2 DEF Disable, Goto, Places
    <3>2. InHand(t)'
      BY <2>0, <3>1 DEF Lone, InHand, localVars
    <3> QED BY <2>0, <3>1, <3>2, <1>0, Kept DEF StatusDue
  <2> QED BY <2>1, <2>2
<1>2. CASE StopCall(t)
  <2>0. pc[t] = "stopcall" /\ op' = op /\ todo' = todo
        /\ pc' = [pc EXCEPT ![t] = "stoprow"] /\ UNCHANGED <<aiRunning, taskStatus>>
    BY <1>2 DEF StopCall, Goto, rowVars
  <2>1. PICK d \in todo[t] :
          /\ dev' = [dev EXCEPT ![t] = d]
          /\ IF camera[d] = "none"
               THEN UNCHANGED aiVars
               ELSE /\ camera' = [camera EXCEPT ![d] = "none"]
                    /\ callbacks' = [callbacks EXCEPT ![d] = callbacks[d] + 1]
                    /\ probing' = {u \in probing : dev[u] # d}
    BY <1>2 DEF StopCall
  <2>2. d \in Devices /\ dev'[t] = d
    BY <2>1 DEF Locals
  <2>3. pc'[t] = "stoprow" /\ Alone(t)'
    BY <2>0 DEF Places, Lone, Alone
  <2>4. camera'[d] = "none"
        /\ \A e \in Devices : e = d \/ (camera'[e] = camera[e] /\ callbacks'[e] = callbacks[e])
    BY <2>1, <2>2 DEF ServiceTyped, aiVars
  <2>5. \A e \in Devices : callbacks'[e] > 0 => camera'[e] # "running"
    BY <2>4 DEF Lone
  <2>6. \A e \in Devices : Handles(t, e)' \/ Agrees(e)'
    BY <2>0, <2>2, <2>3, <2>4 DEF Lone, Handles, Agrees
  <2>7. InHand(t)'
    BY <2>0, <2>2, <2>3, <2>4 DEF Lone, InHand
  <2> QED BY <2>3, <2>5, <2>6, <2>7 DEF Lone, StatusDue
<1>3. CASE StopRow(t)
  <2> DEFINE d == dev[t]
  <2>0. pc[t] = "stoprow" /\ op[t] \in {"stop", "limit", "quick"} /\ op' = op /\ d \in Devices
    BY <1>3, WhoIsWhere DEF StopRow, Locals
  <2>1. UNCHANGED <<camera, callbacks, taskStatus>>
    BY <1>3 DEF StopRow, aiVars
  <2>2. PICK s \in {"gate", "stopcall", "finish", "compute"} : pc' = [pc EXCEPT ![t] = s]
    BY <1>3 DEF StopRow, Goto
  <2>3. pc'[t] = s /\ Alone(t)'
    BY <2>2 DEF Places, Lone, Alone
  <2>4. aiRunning' = aiRunning \ {d}
    BY <1>3 DEF StopRow
  <2>5. camera[d] = "none"
    BY <2>0 DEF Lone, InHand
  <2>6. \A e \in Devices : Agrees(e)'
    BY <2>0, <2>1, <2>4, <2>5 DEF Lone, Handles, Agrees
  <2>7. op[t] = "stop" => aiRunning' \subseteq todo'[t]
    BY <1>3, <2>4 DEF StopRow, Lone, InHand, Locals
  <2>8. s = "finish" => op[t] = "stop" /\ todo'[t] = {}
    BY <1>3, <2>0, <2>3 DEF StopRow, Goto, Locals, Places
  <2>9. InHand(t)'
    BY <2>0, <2>3, <2>7, <2>8 DEF InHand
  <2> QED BY <2>1, <2>3, <2>6, <2>9 DEF Lone, StatusDue
<1>4. CASE Finish(t)
  <2>0. pc[t] = "finish" /\ UNCHANGED <<camera, callbacks, aiRunning>> /\ Return(t)
        /\ taskStatus' = "stopped"
    BY <1>4 DEF Finish, SaveStatus, aiVars
  <2>1. aiRunning' = {}
    BY <2>0 DEF Lone, InHand
  <2>2. taskStatus' = StatusOf(aiRunning')
    BY <2>0, <2>1, TaskAssumption DEF StatusOf
  <2>3. \A e \in Devices : Agrees(e)'
    BY <2>0 DEF Lone, Handles, Agrees
  <2>4. Alone(t)' /\ InHand(t)'
    BY <2>0, ReturnKept DEF Lone, Alone, Places
  <2> QED BY <2>0, <2>2, <2>3, <2>4 DEF Lone
<1>5. ~StopCallFails(t)
  BY DEF StopCallFails, Fault
<1> QED BY <1>1, <1>2, <1>3, <1>4, <1>5 DEF StopWork

\* A sync by one goroutine alone, also one that begins among rows that are wrong.
LEMMA FollowCalm ==
  ASSUME Inv, NEW t \in Workers, FollowWork(t), calm', exists, calm => Lone(t)
  PROVE  Lone(t)'
<1> USE DEF Inv
<1>0. /\ "idle" \in Steps /\ "fetch" \in Steps /\ "gate" \in Steps /\ "clear" \in Steps
      /\ "resume" \in Steps
  BY DEF Steps
<1>1. CASE Fetch(t)
  <2>0. /\ pc[t] = "fetch" /\ op' = op /\ op[t] # "stop"
        /\ pc' = [pc EXCEPT ![t] = "syncrow"] /\ pc'[t] = "syncrow"
        /\ snap'[t] = RunningCameras /\ todo'[t] = Devices
        /\ UNCHANGED <<camera, callbacks, aiRunning, taskStatus>>
    BY <1>1, WhoIsWhere DEF Fetch, Goto, aiVars, rowVars, Places, Locals
  <2>1. calm \/ (Alone(t) /\ NoCallbacks)
    BY <1>1 DEF Fetch
  <2>2. Alone(t)'
    BY <2>0, <2>1 DEF Lone, Alone, Places
  <2>3. \A e \in Devices : callbacks'[e] > 0 => camera'[e] # "running"
    <3>1. CASE calm
      BY <2>0, <3>1 DEF Lone
    <3>2. CASE NoCallbacks
      BY <2>0, <3>2 DEF NoCallbacks
    <3> QED BY <2>1, <3>1, <3>2
  <2>4. \A e \in Devices : Handles(t, e)'
    BY <2>0 DEF Handles
  <2>5. InHand(t)'
    BY <2>0 DEF InHand, RunningCameras
  <2> QED BY <2>0, <2>2, <2>3, <2>4, <2>5 DEF Lone, StatusDue
<1>2. CASE SyncRow(t)
  <2>0. /\ calm /\ pc[t] = "syncrow" /\ op' = op /\ op[t] # "stop" /\ snap' = snap
        /\ UNCHANGED <<camera, callbacks, taskStatus>>
    BY <1>2, WhoIsWhere DEF SyncRow, aiVars, boundVars
  <2>1. PICK d \in todo[t] :
          /\ aiRunning' = IF d \in snap[t] THEN aiRunning \cup {d} ELSE aiRunning \ {d}
          /\ todo' = [todo EXCEPT ![t] = todo[t] \ {d}]
          /\ Goto(t, IF todo[t] = {d} THEN "syncsave" ELSE "syncrow")
    BY <1>2 DEF SyncRow
  <2>2. d \in Devices /\ todo'[t] = todo[t] \ {d}
    BY <2>1 DEF Locals
  <2>3. /\ pc'[t] \in {"syncrow", "syncsave"} /\ (pc'[t] = "syncsave" => todo'[t] = {})
        /\ Alone(t)'
    BY <2>0, <2>1, <2>2 DEF Goto, Places, Lone, Alone
  <2>4. /\ snap[t] = RunningCameras
        /\ \A e \in Devices \ todo[t] : e \in aiRunning <=> e \in snap[t]
    BY <2>0 DEF Lone, InHand
  <2>5. \A e \in Devices \ todo'[t] : e \in aiRunning' <=> e \in snap'[t]
    BY <2>0, <2>1, <2>2, <2>4
  <2>6. InHand(t)'
    BY <2>0, <2>3, <2>4, <2>5 DEF InHand, RunningCameras
  <2>7. \A e \in Devices : Handles(t, e)' \/ Agrees(e)'
    <3> SUFFICES ASSUME NEW e \in Devices, ~Handles(t, e)' PROVE Agrees(e)'
      OBVIOUS
    <3>1. e \notin todo'[t]
      BY <2>3 DEF Handles
    <3>2. e \in aiRunning' <=> camera[e] = "running"
      BY <2>0, <2>4, <2>5, <3>1 DEF RunningCameras
    <3> QED BY <2>0, <3>2 DEF Agrees
  <2> QED BY <2>0, <2>3, <2>6, <2>7 DEF Lone, StatusDue
<1>3. CASE SyncSave(t)
  <2>0. /\ calm /\ pc[t] = "syncsave" /\ op[t] # "stop"
        /\ UNCHANGED <<camera, callbacks, aiRunning>> /\ taskStatus' = StatusOf(snap[t])
    BY <1>3, WhoIsWhere DEF SyncSave, SaveStatus, aiVars, boundVars
  <2>1. snap[t] = aiRunning
    <3>1. snap[t] \subseteq Devices /\ aiRunning \subseteq Devices
      BY DEF Locals, RowsTyped
    <3>2. \A d \in Devices : d \in aiRunning <=> d \in snap[t]
      BY <2>0 DEF Lone, InHand
    <3> QED BY <3>1, <3>2
  <2>2. (taskStatus = StatusOf(aiRunning))'
    BY <2>0, <2>1 DEF StatusOf
  <2>3. \A e \in Devices : Agrees(e)'
    BY <2>0 DEF Lone, Handles, Agrees
  <2>4. PICK s \in {"resume", "idle"} : pc' = [pc EXCEPT ![t] = s]
    BY <1>3 DEF SyncSave, Goto, Return
  <2>5. pc'[t] \in {"resume", "idle"} /\ Alone(t)'
    BY <2>0, <2>4 DEF Places, Lone, Alone
  <2>6. op'[t] # "stop"
    BY <1>3, <2>0 DEF SyncSave, localVars, Return, Places
  <2>7. InHand(t)'
    BY <2>5, <2>6 DEF InHand
  <2> QED BY <2>0, <2>2, <2>3, <2>5, <2>7 DEF Lone
<1>4. CASE Mark(t)
  <2>0. /\ calm /\ pc[t] = "mark" /\ op' = op /\ op[t] # "stop"
        /\ pc' = [pc EXCEPT ![t] = "fetch"] /\ pc'[t] = "fetch"
        /\ UNCHANGED <<camera, callbacks, aiRunning, taskStatus>>
    BY <1>4, WhoIsWhere DEF Mark, Goto, localVars, boundVars, aiVars, rowVars, Places
  <2>1. InHand(t)'
    BY <2>0 DEF InHand
  <2> QED BY <2>0, <2>1, <1>0, Kept DEF StatusDue
<1>5. CASE Resume(t)
  <2>0. /\ calm /\ pc[t] = "resume" /\ op' = op /\ op[t] # "stop"
        /\ UNCHANGED <<camera, callbacks, aiRunning, taskStatus>>
    BY <1>5, WhoIsWhere DEF Resume, aiVars, rowVars
  <2>1. PICK s \in {"clear", "gate"} : pc' = [pc EXCEPT ![t] = s]
    BY <1>5 DEF Resume, Goto
  <2>2. InHand(t)'
    BY <2>0, <2>1 DEF InHand, Places
  <2> QED BY <2>0, <2>1, <2>2, <1>0, Kept DEF StatusDue
<1>6. CASE Clear(t)
  <2>0. /\ calm /\ pc[t] = "clear" /\ Return(t)
        /\ UNCHANGED <<camera, callbacks, aiRunning, taskStatus>>
    BY <1>6 DEF Clear, aiVars, rowVars
  <2> QED BY <2>0, <1>0, ReturnKept, Kept DEF StatusDue
<1>7. ~FetchFails(t) /\ ~SyncNothing(t)
  BY DEF FetchFails, Fault, SyncNothing
<1> QED BY <1>1, <1>2, <1>3, <1>4, <1>5, <1>6, <1>7 DEF FollowWork

\* Whoever is at work while all is calm is alone; if nobody is, anybody may begin.
LEMMA WhoIsLone ==
  ASSUME Inv, CalmInv, calm, exists, NEW t \in Workers, pc[t] # "idle" \/ AllIdle
  PROVE  Lone(t)
<1> USE DEF Inv
<1>1. PICK w \in Workers : Lone(w)
  BY DEF CalmInv
<1>2. CASE pc[t] # "idle"
  BY <1>1, <1>2 DEF Lone, Alone
<1>3. CASE AllIdle
  <2>1. pc[t] = "idle" /\ pc[w] = "idle" /\ op[t] = "none"
    BY <1>3, TaskAssumption DEF AllIdle, Places, StepsOf, Ops
  <2>2. InHand(t)
    BY <2>1 DEF InHand
  <2>3. \A d \in Devices : Agrees(d)
    BY <1>1, <2>1 DEF Lone, Handles
  <2>4. Alone(t)
    BY <1>3 DEF AllIdle, Alone
  <2> QED BY <1>1, <2>1, <2>2, <2>3, <2>4 DEF Lone, StatusDue
<1> QED BY <1>2, <1>3

\* What begins while all is calm begins alone and on rows that are right.
LEMMA BeginCalm ==
  ASSUME Inv, CalmInv, NEW t \in Workers, NEW o \in Ops, NEW s \in Steps, NEW S, Begin(t, o, s, S),
         calm', exists, UNCHANGED <<camera, callbacks, aiRunning, taskStatus>>,
         s \notin {"wait", "row", "stoprow", "finish", "save", "syncrow", "syncsave"},
         o = "stop" => S = Devices,
         s = "edit" => seen'[t] = taskStatus
  PROVE  Lone(t)'
<1> USE DEF Inv
<1>1. calm /\ Alone(t) /\ pc[t] = "idle" /\ pc' = [pc EXCEPT ![t] = s] /\ pc'[t] = s
      /\ op'[t] = o /\ todo' = [todo EXCEPT ![t] = S] /\ todo'[t] = S
  BY DEF Begin, Places, Locals
<1>2. Lone(t)
  BY <1>1, WhoIsLone DEF Alone, AllIdle
<1>3. aiRunning \subseteq Devices
  BY DEF RowsTyped
<1>4. InHand(t)'
  BY <1>1, <1>3 DEF InHand
<1> QED BY <1>1, <1>2, <1>4, Kept DEF StatusDue

\* A request, a recovery, a limit stop or a callback begins.
LEMMA ArriveCalm ==
  ASSUME Inv, CalmInv, calm', exists, BeginLimitStop \/ \E t \in Threads : BeginAny(t)
  PROVE  \E t \in Workers : Lone(t)'
<1> USE DEF Inv
<1>0. /\ Limiter \in Workers /\ \A t \in Threads : t \in Workers
      /\ {"start", "quick", "stop", "sync", "recover", "device", "delete", "edit", "limit"} \subseteq Ops
      /\ {"check", "disable", "fetch", "mark", "gate", "delete", "edit"} \subseteq Steps
  BY DEF Workers, Ops, Steps
<1>1. CASE BeginLimitStop
  <2>1. UNCHANGED <<camera, callbacks, aiRunning, taskStatus>>
    BY <1>1 DEF BeginLimitStop, rowVars, aiVars
  <2>2. Begin(Limiter, "limit", "disable", aiRunning)
    BY <1>1 DEF BeginLimitStop
  <2>3. Lone(Limiter)'
    BY <1>0, <2>1, <2>2, BeginCalm
  <2> QED BY <1>0, <2>3
<1>2. ASSUME NEW t \in Threads, BeginAny(t) PROVE Lone(t)'
  <2>0. t \in Workers
    BY <1>0
  <2>1. CASE \E d \in Devices : HandleStopped(t, d)
    <3>1. PICK d \in Devices : HandleStopped(t, d)
      BY <2>1
    <3>2. /\ calm /\ AllIdle /\ callbacks[d] > 0 /\ pc' = [pc EXCEPT ![t] = "compute"]
          /\ pc'[t] = "compute" /\ op' = [op EXCEPT ![t] = "stopped"] /\ op'[t] = "stopped"
          /\ aiRunning' = aiRunning \ {d} /\ camera' = camera
          /\ callbacks' = [callbacks EXCEPT ![d] = callbacks[d] - 1]
      BY <2>0, <3>1 DEF HandleStopped, Goto, Places
    <3>3. Lone(t)
      BY <2>0, <3>2, WhoIsLone
    <3>4. \A e \in Devices : callbacks'[e] > 0 => callbacks[e] > 0
      BY <3>2 DEF ServiceTyped
    <3>5. \A e \in Devices : callbacks'[e] > 0 => camera'[e] # "running"
      BY <3>2, <3>3, <3>4 DEF Lone
    <3>6. pc[t] = "idle"
      BY <2>0, <3>2 DEF AllIdle
    <3>7. \A e \in Devices : Agrees(e)'
      BY <3>2, <3>3, <3>6 DEF Lone, Handles, Agrees
    <3>8. Alone(t)'
      BY <2>0, <3>2 DEF AllIdle, Alone, Places
    <3>9. InHand(t)'
      BY <3>2 DEF InHand
    <3> QED BY <3>2, <3>5, <3>7, <3>8, <3>9 DEF Lone, StatusDue
  <2>2. CASE ~\E d \in Devices : HandleStopped(t, d)
    <3>1. UNCHANGED <<camera, callbacks, aiRunning, taskStatus>>
      BY <1>2, <2>2 DEF BeginAny, BeginStart, BeginStop, BeginSync, BeginRecovery, BeginAttempt,
                        BeginDelete, BeginEdit, BeginQuick, BeginDevice, rowVars, aiVars
    <3>2. CASE BeginStart(t)
      <4>1. Begin(t, "start", "check", Devices)
        BY <3>2 DEF BeginStart, Request
      <4> QED BY <1>0, <2>0, <3>1, <4>1, BeginCalm
    <3>3. CASE BeginStop(t)
      <4>1. Begin(t, "stop", "disable", Devices)
        BY <3>3 DEF BeginStop, Request
      <4> QED BY <1>0, <2>0, <3>1, <4>1, BeginCalm
    <3>4. CASE BeginSync(t)
      <4>1. Begin(t, "sync", "fetch", {})
        BY <3>4 DEF BeginSync, Request
      <4> QED BY <1>0, <2>0, <3>1, <4>1, BeginCalm
    <3>5. CASE BeginRecovery(t)
      <4>1. Begin(t, "recover", "mark", {}) \/ Begin(t, "recover", "fetch", {})
        BY <3>5 DEF BeginRecovery, Request
      <4> QED BY <1>0, <2>0, <3>1, <4>1, BeginCalm
    <3>6. CASE BeginAttempt(t)
      <4>1. Begin(t, "recover", "fetch", {})
        BY <3>6 DEF BeginAttempt, Request
      <4> QED BY <1>0, <2>0, <3>1, <4>1, BeginCalm
    <3>7. CASE BeginDelete(t)
      <4>1. Begin(t, "delete", "delete", {})
        BY <3>7 DEF BeginDelete, Request
      <4> QED BY <1>0, <2>0, <3>1, <4>1, BeginCalm
    <3>8. CASE BeginEdit(t)
      <4>1. Begin(t, "edit", "edit", {})
        BY <3>8 DEF BeginEdit, Request
      <4>2. seen'[t] = taskStatus
        BY <2>0, <3>8 DEF BeginEdit, Locals
      <4> QED BY <1>0, <2>0, <3>1, <4>1, <4>2, BeginCalm
    <3>9. ASSUME NEW d \in Devices, BeginQuick(t, d) PROVE Lone(t)'
      <4>1. Begin(t, "quick", "check", {d})
        BY <3>9 DEF BeginQuick, Request
      <4> QED BY <1>0, <2>0, <3>1, <4>1, BeginCalm
    <3>10. ASSUME NEW d \in Devices, BeginDevice(t, d) PROVE Lone(t)'
      <4>1. Begin(t, "device", "gate", {d})
        BY <3>10 DEF BeginDevice, Request
      <4> QED BY <1>0, <2>0, <3>1, <4>1, BeginCalm
    <3> QED BY <1>2, <2>2, <3>2, <3>3, <3>4, <3>5, <3>6, <3>7, <3>8, <3>9, <3>10 DEF BeginAny
  <2> QED BY <2>1, <2>2
<1> QED BY <1>0, <1>1, <1>2

\* The world: a camera that fails disturbs whoever is at work, and crashes everybody.
LEMMA WorldCalm ==
  ASSUME Inv, CalmInv, calm', exists,
         ReachLimit \/ Crash \/ AICrash \/ UNCHANGED vars
         \/ \E d \in Devices : CameraFails(d) \/ LoseCallback(d) \/ DropPending(d)
  PROVE  \E t \in Workers : Lone(t)'
<1> USE DEF Inv
<1>1. ~Crash /\ ~AICrash /\ \A d \in Devices : ~LoseCallback(d)
  BY DEF Crash, AICrash, LoseCallback, Fault
<1>2. CASE ReachLimit \/ UNCHANGED vars \/ \E d \in Devices : DropPending(d)
  <2>1. /\ calm /\ UNCHANGED <<pc, localVars, aiVars, aiRunning, taskStatus>>
    BY <1>2 DEF ReachLimit, DropPending, vars, rowVars, aiVars, boundVars
  <2>2. PICK t \in Workers : Lone(t)
    BY <2>1 DEF CalmInv
  <2>3. Lone(t)'
    BY <2>1, <2>2 DEF Lone, Alone, InHand, Handles, Agrees, StatusOf, RunningCameras, localVars,
                      aiVars
  <2> QED BY <2>3
<1>3. ASSUME NEW d \in Devices, CameraFails(d) PROVE \E t \in Workers : Lone(t)'
  <2>1. /\ calm /\ AllIdle /\ UNCHANGED <<pc, localVars, aiRunning, taskStatus>>
        /\ camera[d] = "running" /\ camera'[d] = "error"
        /\ \A e \in Devices \ {d} : camera'[e] = camera[e] /\ callbacks'[e] = callbacks[e]
    BY <1>3 DEF CameraFails, rowVars, ServiceTyped
  <2>2. PICK t \in Workers : Lone(t)
    BY <2>1 DEF CalmInv
  <2>3. pc[t] = "idle" /\ op[t] = "none"
    BY <2>1 DEF AllIdle, Places, StepsOf, Ops
  <2>4. \A e \in Devices : callbacks'[e] > 0 => camera'[e] # "running"
    BY <2>1, <2>2 DEF Lone
  <2>5. \A e \in Devices : Agrees(e)'
    BY <2>1, <2>2, <2>3 DEF Lone, Handles, Agrees
  <2>6. Alone(t)' /\ InHand(t)'
    BY <2>1, <2>2, <2>3 DEF Lone, Alone, InHand, localVars
  <2>7. (taskStatus = StatusOf(aiRunning))'
    BY <2>1, <2>2, <2>3 DEF Lone, StatusDue, StatusOf
  <2> QED BY <2>4, <2>5, <2>6, <2>7 DEF Lone
<1> QED BY <1>1, <1>2, <1>3

\* Editing writes back the status as it was read; a deletion leaves nothing to agree.
LEMMA EditCalm ==
  ASSUME Inv, NEW t \in Workers, Edit(t), Lone(t), exists
  PROVE  Lone(t)'
<1> USE DEF Inv
<1>1. /\ pc[t] = "edit" /\ Return(t) /\ UNCHANGED <<camera, callbacks, aiRunning>>
      /\ taskStatus' = seen[t]
  BY DEF Edit, SaveStatus, aiVars
<1>2. UNCHANGED <<camera, callbacks, aiRunning, taskStatus>>
  BY <1>1 DEF Lone, InHand
<1>3. "idle" \in Steps
  BY DEF Steps
<1> QED BY <1>1, <1>2, <1>3, ReturnKept, Kept DEF StatusDue

\* Every step keeps what a lone goroutine knows true.
LEMMA CalmStep == Inv /\ CalmInv /\ [Next]_vars => CalmInv'
<1> SUFFICES ASSUME Inv, CalmInv, [Next]_vars, calm', exists' PROVE \E t \in Workers : Lone(t)'
  BY DEF CalmInv
<1> USE DEF Inv
<1>1. CASE \E t \in Workers : Work(t)
  <2>1. PICK t \in Workers : Work(t)
    BY <1>1
  <2>2. ~Delete(t)
    BY DEF Delete
  <2>3. exists /\ (calm \/ Fetch(t)) /\ pc[t] # "idle"
    <3>1. CASE StartWork(t)
      BY <3>1 DEF StartWork, Check, Gate, StartCall, StartRefused, StartReply, StartReplyLost,
                  StartRow, Compute, Save, Grant, rowVars, Fault
    <3>2. CASE StopWork(t)
      BY <3>2 DEF StopWork, Disable, StopCall, StopCallFails, StopRow, Finish, rowVars, Fault, NoFault
    <3>3. CASE FollowWork(t)
      BY <3>3 DEF FollowWork, Fetch, FetchFails, SyncRow, SyncNothing, SyncSave, Mark, Resume, Clear,
                  rowVars, Fault
    <3>4. CASE Edit(t)
      BY <3>4 DEF Edit
    <3> QED BY <2>1, <2>2, <3>1, <3>2, <3>3, <3>4 DEF Work
  <2>4. calm => Lone(t)
    BY <2>3, WhoIsLone
  <2>5. CASE FollowWork(t)
    BY <2>3, <2>4, <2>5, FollowCalm
  <2>6. CASE ~FollowWork(t)
    <3>1. Lone(t)
      BY <2>3, <2>4, <2>6 DEF FollowWork
    <3> QED BY <2>1, <2>2, <2>3, <2>6, <3>1, StartCalm, StopCalm, EditCalm DEF Work
  <2> QED BY <2>5, <2>6
<1>2. CASE ~\E t \in Workers : Work(t)
  <2>1. CASE BeginLimitStop \/ \E t \in Threads : BeginAny(t)
    <3>1. exists
      BY <2>1 DEF BeginLimitStop, BeginAny, BeginStart, BeginStop, BeginSync, BeginRecovery,
                  BeginAttempt, BeginDelete, BeginEdit, BeginQuick, BeginDevice, HandleStopped, rowVars
    <3> QED BY <2>1, <3>1, ArriveCalm
  <2>2. CASE ReachLimit \/ Crash \/ AICrash \/ UNCHANGED vars
             \/ \E d \in Devices : CameraFails(d) \/ LoseCallback(d) \/ DropPending(d)
    <3>1. exists
      BY <2>2 DEF ReachLimit, Crash, AICrash, CameraFails, LoseCallback, DropPending, vars, rowVars
    <3> QED BY <2>2, <3>1, WorldCalm
  <2> QED BY <1>2, <2>1, <2>2 DEF Next
<1> QED BY <1>1, <1>2

\* With nobody at work and no callback on its way, rows and cameras agree, if nothing has
\* disturbed the operations since the start or the latest undisturbed sync: each operation
\* by itself keeps the rows right, and a sync repairs them, for any number of devices.
THEOREM RowsFollowCameras == Spec => []CalmAgrees
<1>1. Init => CalmInv
  <2>1. ASSUME Init PROVE Lone(Limiter)
    <3>1. Limiter \in Workers /\ pc[Limiter] = "idle" /\ op[Limiter] = "none"
      BY <2>1 DEF Init, Workers
    <3>2. Alone(Limiter) /\ InHand(Limiter)
      BY <2>1, <3>1 DEF Init, Alone, InHand
    <3>3. \A d \in Devices : Agrees(d)
      BY <2>1 DEF Init, Agrees
    <3>4. taskStatus = StatusOf(aiRunning)
      BY <2>1, TaskAssumption DEF Init, StatusOf
    <3> QED BY <2>1, <3>2, <3>3, <3>4 DEF Init, Lone
  <2> QED BY <2>1 DEF CalmInv, Workers
<1>2. Inv /\ CalmInv => CalmAgrees
  <2> SUFFICES ASSUME Inv, CalmInv, calm, AllIdle, exists PROVE RowsAgree
    BY DEF CalmAgrees
  <2>1. PICK t \in Workers : Lone(t)
    BY DEF CalmInv
  <2>2. \A d \in Devices : Agrees(d)
    BY <2>1 DEF Lone, Handles, AllIdle
  <2>3. taskStatus = StatusOf(aiRunning)
    BY <2>1 DEF Lone, StatusDue, AllIdle
  <2> QED BY <2>2, <2>3 DEF RowsAgree, Agrees, Inv, RowsTyped
<1> QED BY <1>1, <1>2, CalmStep, AlwaysInv, PTL DEF Spec
==============================================================================
