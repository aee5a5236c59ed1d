----------------------------- MODULE PullSource -----------------------------
(***************************************************************************)
(* One RTSP pull source: its rows (mb_media_sources, mb_stream_proxies),   *)
(* the proxy that ZLM keeps for it, and all who touch either: create,      *)
(* edit, preview, snapshot and delete (devices.go), the self-heal          *)
(* (pull_self_heal.go), the recovery after a restart and ZLM's hooks       *)
(* (zlm_webhook.go).  A call to ZLM and a database statement are steps of  *)
(* their own; whatever was read before a call may be old after it.  Only   *)
(* ensureZLMProxy holds a lock.                                            *)
(*                                                                         *)
(* The heal and the recovery run on one goroutine each, with a mark for    *)
(* who asks meanwhile: CoalescedRunner shows that this is what their       *)
(* flags achieve.  ZLM and the cameras are external.                       *)
(***************************************************************************)
EXTENDS Integers, Sequences

CONSTANTS
  Urls,         \* addresses a camera may have
  NoUrl,
  Threads,      \* goroutines that serve requests
  Healer,       \* the goroutine with pullHealRunning[source]
  Recoverer,    \* the goroutine with zlmRecoverRunning
  Free,         \* nobody holds the lock of the source
  MaxAttempts,  \* len(backoffs)
  MaxRequests,  \* bound: requests, viewers, analyses begun
  Unhurried,    \* bound: which of them, counted from 0, wait for all work before
  MaxBreaks,    \* bound: cameras lost, restarts of ZLM and of this process
  MaxFaults     \* bound: calls to ZLM that fail or whose answer is lost, lost hooks

ASSUME PullAssumption ==
  /\ NoUrl \notin Urls /\ Healer \notin Threads /\ Recoverer \notin Threads
  /\ Healer # Recoverer /\ Free \notin Threads \cup {Healer, Recoverer}
  /\ MaxAttempts \in Nat \ {0}
  /\ MaxRequests \in Nat /\ MaxBreaks \in Nat /\ MaxFaults \in Nat

VARIABLES
  \* the rows: media source (address, status, ai_status = running) and proxy
  \* (address); nobody has created the source yet
  exists, url, status, analyzing, proxyUrl, fresh,
  \* ZLM and the cameras: the proxy's address, its stream is registered, the
  \* addresses that answer, the hooks on their way in the order they were sent
  proxy, up, reachable, hooks,
  \* the lock of the source, the marks of heal and recovery, and the goroutines
  lock, healPending, recoverPending, pc, op, addr, seen, attempt,
  \* the spent part of the bounds
  requests, breaks, faults,
  \* history: rows and ZLM were left alone ("maybe" while a recovery that nothing
  \* has disturbed so far repairs them), and a delete met nobody ("maybe" so far)
  calm, final

rowVars   == <<exists, url, status, analyzing, proxyUrl, fresh>>
zlmVars   == <<proxy, up, reachable, hooks>>
localVars == <<op, addr, seen, attempt>>
markVars  == <<healPending, recoverPending>>
boundVars == <<requests, breaks, faults>>
vars == <<rowVars, zlmVars, lock, markVars, pc, localVars, boundVars, calm, final>>

Workers  == Threads \cup {Healer, Recoverer}
Statuses == {"online", "offline"}
Guarded  == {"check", "add", "recheck"}   \* the steps under the lock
Steps    == Guarded \cup {"idle", "lock", "sync", "save", "show", "shown", "delproxy", "delrow",
              "load", "active", "healrow", "correct", "correctrow", "list", "confirm", "row", "end"}
Ops      == {"none", "create", "edit", "preview", "snapshot", "delete", "heal", "startup", "recover"}

TypeOK ==
  /\ exists \in BOOLEAN /\ status \in Statuses /\ analyzing \in BOOLEAN /\ fresh \in BOOLEAN
  /\ url \in Urls \cup {NoUrl} /\ proxyUrl \in Urls \cup {NoUrl}
  /\ proxy \in Urls \cup {NoUrl} /\ up \in BOOLEAN /\ (up => proxy # NoUrl)
  /\ reachable \subseteq Urls /\ hooks \in Seq({"up", "down", "started"})
  /\ lock \in Workers \cup {Free}
  /\ healPending \in BOOLEAN /\ recoverPending \in BOOLEAN
  /\ pc \in [Workers -> Steps] /\ op \in [Workers -> Ops]
  /\ addr \in [Workers -> Urls \cup {NoUrl}] /\ seen \in [Workers -> Statuses]
  /\ attempt \in [Workers -> 1 .. MaxAttempts]
  /\ requests \in Nat /\ breaks \in Nat /\ faults \in Nat
  /\ calm \in {"yes", "maybe", "no"} /\ final \in {"yes", "maybe", "no"}

Init ==
  /\ exists = FALSE /\ url = NoUrl /\ status = "offline" /\ analyzing = FALSE
  /\ proxyUrl = NoUrl /\ fresh = TRUE
  /\ proxy = NoUrl /\ up = FALSE /\ reachable = Urls /\ hooks = <<>>
  /\ lock = Free /\ healPending = FALSE /\ recoverPending = FALSE
  /\ pc = [w \in Workers |-> "idle"] /\ op = [w \in Workers |-> "none"]
  /\ addr = [w \in Workers |-> NoUrl] /\ seen = [w \in Workers |-> "offline"]
  /\ attempt = [w \in Workers |-> 1]
  /\ requests = 0 /\ breaks = 0 /\ faults = 0
  /\ calm = "yes" /\ final = "no"

-----------------------------------------------------------------------------
AllIdle  == \A w \in Workers : pc[w] = "idle"
Alone(w) == \A v \in Workers \ {w} : pc[v] = "idle"

Goto(w, step) == pc' = [pc EXCEPT ![w] = step]

\* Something outside happens, which work in progress may not have reckoned with.
Disturb == calm' = IF AllIdle THEN calm ELSE "no"

Fault == faults < MaxFaults /\ faults' = faults + 1 /\ calm' = "no"

\* What its local variables held does not matter any more.
Return(w) ==
  /\ Goto(w, "idle")
  /\ op' = [op EXCEPT ![w] = "none"]
  /\ addr' = [addr EXCEPT ![w] = NoUrl]
  /\ seen' = [seen EXCEPT ![w] = "offline"]
  /\ attempt' = [attempt EXCEPT ![w] = 1]

\* A goroutine begins operation o with address a, the given hooks on their way.
Begin(w, o, step, a, rest) ==
  /\ pc[w] = "idle"
  /\ Goto(w, step)
  /\ op' = [op EXCEPT ![w] = o]
  /\ addr' = [addr EXCEPT ![w] = a]
  /\ calm' = IF Alone(w) /\ rest = <<>> THEN calm ELSE "no"

\* Nobody else can join a delete without being noticed.
Join == final' = IF final = "maybe" THEN "no" ELSE final

CountRequest ==
  /\ requests < MaxRequests
  /\ requests \in Unhurried => AllIdle /\ hooks = <<>>
  /\ requests' = requests + 1
  /\ UNCHANGED <<breaks, faults>>

Request(t, o, step, a) ==
  /\ t \in Threads
  /\ CountRequest
  /\ Begin(t, o, step, a, hooks)

\* isZLMStreamActive; its callers take an error for a no.
Answer(active) ==
  \/ active = up /\ UNCHANGED <<faults, calm>>
  \/ active = FALSE /\ up /\ Fault

\* The address to pull from: the proxy's, or else the source's.
OriginURL == IF proxyUrl # NoUrl THEN proxyUrl ELSE url

-----------------------------------------------------------------------------
(* ZLM and the cameras (external).                                         *)

Emit(kind) == hooks' = Append(hooks, kind)

\* The stream goes away, if it is there.
Drop ==
  /\ up' = FALSE
  /\ hooks' = IF up THEN Append(hooks, "down") ELSE hooks

CameraFails(u) ==
  /\ u \in reachable /\ breaks < MaxBreaks /\ breaks' = breaks + 1
  /\ reachable' = reachable \ {u}
  /\ IF proxy = u THEN Drop /\ Disturb ELSE UNCHANGED <<up, hooks, calm>>
  /\ UNCHANGED <<rowVars, proxy, lock, markVars, pc, localVars, requests, faults, final>>

CameraReturns(u) ==
  /\ u \in Urls \ reachable
  /\ reachable' = reachable \cup {u}
  /\ UNCHANGED <<rowVars, proxy, up, hooks, lock, markVars, pc, localVars, boundVars, calm, final>>

\* ZLM tries again retry_count times ...
Reconnect ==
  /\ proxy \in reachable /\ ~up
  /\ up' = TRUE /\ Emit("up")
  /\ Disturb
  /\ UNCHANGED <<rowVars, proxy, reachable, lock, markVars, pc, localVars, boundVars, final>>

\* ... and then forgets the proxy.
GiveUp ==
  /\ proxy # NoUrl /\ ~up
  /\ proxy' = NoUrl
  /\ UNCHANGED <<rowVars, up, reachable, hooks, lock, markVars, pc, localVars, boundVars, calm, final>>

\* Hooks not yet sent are lost with the process, those sent may still arrive.
ZLMRestart ==
  /\ breaks < MaxBreaks /\ breaks' = breaks + 1
  /\ proxy' = NoUrl /\ up' = FALSE
  /\ hooks' \in {<<"started">>, Append(hooks, "started")}
  /\ Disturb
  /\ UNCHANGED <<rowVars, reachable, lock, markVars, pc, localVars, requests, faults, final>>

LoseHook ==
  /\ hooks # <<>>
  /\ hooks' = Tail(hooks)
  /\ Fault
  /\ UNCHANGED <<rowVars, proxy, up, reachable, lock, markVars, pc, localVars, requests, breaks, final>>

\* A task starts and stops the analysis of the source (TaskRuntime).
StartAnalysis ==
  /\ exists /\ ~analyzing /\ CountRequest
  /\ analyzing' = TRUE
  /\ Disturb
  /\ UNCHANGED <<exists, url, status, proxyUrl, fresh, zlmVars, lock, markVars, pc, localVars, final>>

StopAnalysis ==
  /\ exists /\ analyzing
  /\ analyzing' = FALSE
  /\ UNCHANGED <<exists, url, status, proxyUrl, fresh, zlmVars, lock, markVars, pc, localVars,
                 boundVars, calm, final>>

-----------------------------------------------------------------------------
(* ensureZLMProxy, on behalf of any operation.                             *)

\* Where the operation goes on when its proxy is there.
Proceed(w) ==
  IF op[w] = "snapshot"
    THEN Return(w)
    ELSE /\ Goto(w, CASE op[w] \in {"create", "edit"}     -> "sync"
                      [] op[w] = "preview"                -> "show"
                      [] op[w] = "heal"                   -> "healrow"
                      [] op[w] \in {"startup", "recover"} -> "confirm")
         /\ UNCHANGED localVars

\* A request answers with the error; heal and recovery try again a few times, the
\* heal from its reading of the rows.
FailAttempt(w) ==
  IF op[w] \in {"heal", "startup", "recover"}
    THEN /\ IF attempt[w] < MaxAttempts
              THEN /\ Goto(w, IF op[w] = "heal" THEN "load" ELSE "lock")
                   /\ attempt' = [attempt EXCEPT ![w] = attempt[w] + 1]
              ELSE Goto(w, "end") /\ UNCHANGED attempt
         /\ UNCHANGED <<op, addr, seen>>
    ELSE Return(w)

\* Mutant: everybody goes in.
LockNothing(w) ==
  /\ pc[w] = "lock"
  /\ lock' = w
  /\ Goto(w, "check")
  /\ UNCHANGED <<rowVars, zlmVars, markVars, localVars, boundVars, calm, final>>

\* lockZLMProxySource
Lock(w) ==
  /\ pc[w] = "lock" /\ lock = Free
  /\ lock' = w
  /\ Goto(w, "check")
  /\ UNCHANGED <<rowVars, zlmVars, markVars, localVars, boundVars, calm, final>>

\* The proxy is left alone if its stream is there, whatever address it has.
Check(w) ==
  /\ pc[w] = "check"
  /\ \E active \in BOOLEAN :
       /\ Answer(active)
       /\ IF active
            THEN Proceed(w) /\ lock' = Free
            ELSE Goto(w, "add") /\ UNCHANGED <<localVars, lock>>
  /\ UNCHANGED <<rowVars, zlmVars, markVars, requests, breaks, final>>

\* addStreamProxy: a proxy that is there already counts as success (in
\* isZLMAlreadyExistsMessage); a new one if its camera answers.
Add(w) ==
  /\ pc[w] = "add"
  /\ IF proxy = NoUrl /\ addr[w] \in reachable
       THEN proxy' = addr[w] /\ up' = TRUE /\ Emit("up")
       ELSE UNCHANGED <<proxy, up, hooks>>
  /\ IF proxy' # NoUrl
       THEN Proceed(w) /\ lock' = Free
       ELSE Goto(w, "recheck") /\ UNCHANGED <<localVars, lock>>
  /\ UNCHANGED <<rowVars, reachable, markVars, boundVars, calm, final>>

\* The call took effect, the answer is lost.
AddReplyLost(w) ==
  /\ pc[w] = "add"
  /\ proxy = NoUrl /\ addr[w] \in reachable
  /\ proxy' = addr[w] /\ up' = TRUE /\ Emit("up")
  /\ Goto(w, "recheck")
  /\ Fault
  /\ UNCHANGED <<rowVars, reachable, lock, markVars, localVars, requests, breaks, final>>

\* Mutant: the error path forgets the lock.
RecheckLocked(w) ==
  /\ pc[w] = "recheck"
  /\ \E active \in BOOLEAN :
       /\ Answer(active)
       /\ IF active THEN Proceed(w) /\ lock' = Free ELSE FailAttempt(w) /\ UNCHANGED lock
  /\ UNCHANGED <<rowVars, zlmVars, markVars, requests, breaks, final>>

\* After an error the stream may be there all the same.
Recheck(w) ==
  /\ pc[w] = "recheck"
  /\ \E active \in BOOLEAN :
       /\ Answer(active)
       /\ IF active THEN Proceed(w) ELSE FailAttempt(w)
  /\ lock' = Free
  /\ UNCHANGED <<rowVars, zlmVars, markVars, requests, breaks, final>>

-----------------------------------------------------------------------------
(* Requests.                                                               *)

\* createDevice makes the proxy first, under an id that is new.
BeginCreate(t, u) ==
  /\ fresh /\ fresh' = FALSE
  /\ Request(t, "create", "lock", u)
  /\ Join
  /\ UNCHANGED <<exists, url, status, analyzing, proxyUrl, zlmVars, lock, markVars, seen, attempt>>

\* Mutant: a source that is being analysed can be edited.
BeginEditAnyway(t, u) ==
  /\ exists
  /\ Request(t, "edit", "lock", u)
  /\ seen' = [seen EXCEPT ![t] = status]
  /\ Join
  /\ UNCHANGED <<rowVars, zlmVars, lock, markVars, attempt>>

\* updateDevice reads the row; all of it is written back at the end.
BeginEdit(t, u) ==
  /\ exists /\ ~analyzing
  /\ Request(t, "edit", "lock", u)
  /\ seen' = [seen EXCEPT ![t] = status]
  /\ Join
  /\ UNCHANGED <<rowVars, zlmVars, lock, markVars, attempt>>

\* Mutant: the row's status is saved as it was read.
SyncNothing(w) ==
  /\ pc[w] = "sync"
  /\ Goto(w, "save")
  /\ UNCHANGED <<rowVars, zlmVars, lock, markVars, localVars, boundVars, calm, final>>

\* syncPullSourceOnlineStatus(&source, false): the row in hand becomes online, or
\* stays as it was read.
Sync(w) ==
  /\ pc[w] = "sync"
  /\ \E active \in BOOLEAN :
       /\ Answer(active)
       /\ seen' = [seen EXCEPT ![w] = IF active THEN "online" ELSE seen[w]]
  /\ Goto(w, "save")
  /\ UNCHANGED <<rowVars, zlmVars, lock, markVars, op, addr, attempt, requests, breaks, final>>

\* The transaction of createDevice and updateDevice: all columns of the source,
\* ai_status as it was read, and its proxy.  Save inserts a row that is missing.
Save(w) ==
  /\ pc[w] = "save"
  /\ exists' = TRUE /\ url' = addr[w] /\ proxyUrl' = addr[w]
  /\ status' = seen[w] /\ analyzing' = FALSE
  /\ Return(w)
  /\ UNCHANGED <<fresh, zlmVars, lock, markVars, boundVars, calm, final>>

\* previewDevice and captureSnapshotBody; what they write back of the proxy's
\* output does not depend on the address.
BeginPreview(t, o) ==
  /\ exists /\ o \in {"preview", "snapshot"}
  /\ Request(t, o, "lock", OriginURL)
  /\ Join
  /\ UNCHANGED <<rowVars, zlmVars, lock, markVars, seen, attempt>>

\* syncPullSourceOnlineStatus(&source, true) asks ZLM ...
Show(w) ==
  /\ pc[w] = "show"
  /\ \E active \in BOOLEAN :
       /\ Answer(active)
       /\ IF active THEN Goto(w, "shown") /\ UNCHANGED localVars ELSE Return(w)
  /\ UNCHANGED <<rowVars, zlmVars, lock, markVars, requests, breaks, final>>

\* ... and writes the status.
Shown(w) ==
  /\ pc[w] = "shown"
  /\ status' = IF exists THEN "online" ELSE status
  /\ Return(w)
  /\ UNCHANGED <<exists, url, analyzing, proxyUrl, fresh, zlmVars, lock, markVars, boundVars, calm, final>>

\* deleteDevice: a source that is analysed belongs to a task.
BeginDelete(t) ==
  /\ exists /\ ~analyzing
  /\ Request(t, "delete", "delproxy", NoUrl)
  /\ final' = IF Alone(t) THEN "maybe" ELSE "no"
  /\ UNCHANGED <<rowVars, zlmVars, lock, markVars, seen, attempt>>

\* deleteZLMProxy; nobody asks for the lock.
DeleteProxy(w) ==
  /\ pc[w] = "delproxy"
  /\ proxy' = NoUrl /\ Drop
  /\ Goto(w, "delrow")
  /\ UNCHANGED <<rowVars, reachable, lock, markVars, localVars, boundVars, calm, final>>

\* Mutant: the rows go although ZLM has not answered.
DeleteProxyAnyway(w) ==
  /\ pc[w] = "delproxy"
  /\ Goto(w, "delrow")
  /\ Fault
  /\ UNCHANGED <<rowVars, zlmVars, lock, markVars, localVars, requests, breaks, final>>

\* The call fails, or its answer is lost: the source stays.
DeleteProxyFails(w) ==
  /\ pc[w] = "delproxy"
  /\ \/ proxy' = NoUrl /\ Drop
     \/ UNCHANGED <<proxy, up, hooks>>
  /\ Return(w)
  /\ Fault
  /\ UNCHANGED <<rowVars, reachable, lock, markVars, requests, breaks, final>>

DeleteRows(w) ==
  /\ pc[w] = "delrow"
  /\ exists' = FALSE /\ url' = NoUrl /\ proxyUrl' = NoUrl
  /\ status' = "offline" /\ analyzing' = FALSE
  /\ final' = IF final = "maybe" THEN "yes" ELSE final
  /\ Return(w)
  /\ UNCHANGED <<fresh, zlmVars, lock, markVars, boundVars, calm>>

-----------------------------------------------------------------------------
(* Self-heal.                                                              *)

\* handleZLMOnStreamNotFound: a viewer asks for a stream that is not there.
StreamNotFound ==
  /\ exists /\ ~up
  /\ CountRequest
  /\ IF pc[Healer] = "idle"
       THEN Begin(Healer, "heal", "load", NoUrl, hooks) /\ Join /\ UNCHANGED healPending
       ELSE healPending' = TRUE /\ UNCHANGED <<pc, op, addr, calm, final>>
  /\ UNCHANGED <<rowVars, zlmVars, lock, recoverPending, seen, attempt>>

\* loadPullSourceHealTarget
Load(w) ==
  /\ pc[w] = "load"
  /\ IF exists
       THEN addr' = [addr EXCEPT ![w] = OriginURL] /\ Goto(w, "active")
       ELSE Goto(w, "end") /\ UNCHANGED addr
  /\ UNCHANGED <<rowVars, zlmVars, lock, markVars, op, seen, attempt, boundVars, calm, final>>

\* An active stream needs nothing; an error spends the attempt.
Active(w) ==
  /\ pc[w] = "active"
  /\ \/ /\ Goto(w, IF up THEN "end" ELSE "lock")
        /\ UNCHANGED <<localVars, faults, calm>>
     \/ FailAttempt(w) /\ Fault
  /\ UNCHANGED <<rowVars, zlmVars, lock, markVars, requests, breaks, final>>

\* The row gets the address that was read before the proxy was made; the status is
\* left to the hook.
HealRow(w) ==
  /\ pc[w] = "healrow"
  /\ url' = IF exists THEN addr[w] ELSE url
  /\ Goto(w, "end")
  /\ UNCHANGED <<exists, status, analyzing, proxyUrl, fresh, zlmVars, lock, markVars, localVars,
                 boundVars, calm, final>>

\* Mutant: the mark for the recovery is not looked at.
EndForgetting(w) ==
  /\ pc[w] = "end"
  /\ Return(w)
  /\ UNCHANGED <<rowVars, zlmVars, lock, markVars, boundVars, calm, final>>

\* The end of a run: once more for the mark, or done.
End(w) ==
  /\ pc[w] = "end"
  /\ LET again == IF w = Healer THEN healPending ELSE recoverPending IN
       IF again
         THEN /\ Goto(w, IF w = Healer THEN "load" ELSE "list")
              /\ op' = [op EXCEPT ![w] = IF w = Healer THEN "heal" ELSE "recover"]
              /\ attempt' = [attempt EXCEPT ![w] = 1]
              /\ UNCHANGED <<addr, seen>>
         ELSE Return(w)
  /\ healPending' = (healPending /\ w # Healer)
  /\ recoverPending' = (recoverPending /\ w # Recoverer)
  /\ UNCHANGED <<rowVars, zlmVars, lock, boundVars, calm, final>>

-----------------------------------------------------------------------------
(* Hooks and recovery.                                                     *)

\* The hooks of ZLM are requests of their own and may overtake one another.
Receive(i) ==
  /\ i \in 1 .. Len(hooks)
  /\ hooks' = [j \in 1 .. Len(hooks) - 1 |-> IF j < i THEN hooks[j] ELSE hooks[j + 1]]

\* handleZLMOnStreamChanged: what the hook says is written, if the source has a row.
HandleStreamChanged(i) ==
  /\ Receive(i) /\ hooks[i] # "started"
  /\ status' = IF ~exists THEN status ELSE IF hooks[i] = "up" THEN "online" ELSE "offline"
  /\ calm' = IF i = 1 THEN calm ELSE "no"
  /\ UNCHANGED <<exists, url, analyzing, proxyUrl, fresh, proxy, up, reachable, lock, markVars, pc,
                 localVars, boundVars, final>>

\* handleZLMOnServerStarted: all sources are offline, a recovery follows.
HandleServerStarted(i) ==
  /\ Receive(i) /\ hooks[i] = "started"
  /\ status' = "offline"
  /\ IF pc[Recoverer] = "idle"
       THEN Begin(Recoverer, "recover", "list", NoUrl, hooks') /\ Join /\ UNCHANGED recoverPending
       ELSE recoverPending' = TRUE /\ calm' = "no" /\ UNCHANGED <<pc, op, addr, final>>
  /\ UNCHANGED <<exists, url, analyzing, proxyUrl, fresh, proxy, up, reachable, lock, healPending,
                 seen, attempt, boundVars>>

\* correctPullSourceStatusOnStartup asks ZLM; without an answer it does nothing ...
Correct(w) ==
  /\ pc[w] = "correct"
  /\ \/ /\ seen' = [seen EXCEPT ![w] = IF up THEN "online" ELSE "offline"]
        /\ Goto(w, "correctrow")
        /\ UNCHANGED <<faults, calm>>
     \/ Goto(w, "list") /\ Fault /\ UNCHANGED seen
  /\ UNCHANGED <<rowVars, zlmVars, lock, markVars, op, addr, attempt, requests, breaks, final>>

\* ... and writes what differs.
CorrectRow(w) ==
  /\ pc[w] = "correctrow"
  /\ status' = IF exists THEN seen[w] ELSE status
  /\ Goto(w, "list")
  /\ UNCHANGED <<exists, url, analyzing, proxyUrl, fresh, zlmVars, lock, markVars, localVars,
                 boundVars, calm, final>>

\* recoverPullSourcesAfterZLMRestart lists the sources with their addresses.
List(w) ==
  /\ pc[w] = "list"
  /\ IF exists
       THEN addr' = [addr EXCEPT ![w] = OriginURL] /\ Goto(w, "lock")
       ELSE Goto(w, "end") /\ UNCHANGED addr
  /\ calm' = IF calm = "no" /\ Alone(w) /\ hooks = <<>> THEN "maybe" ELSE calm
  /\ UNCHANGED <<rowVars, zlmVars, lock, markVars, op, seen, attempt, boundVars, final>>

\* waitForSourceStreamActive: ZLM has the stream in time, or not.
Confirm(w) ==
  /\ pc[w] = "confirm"
  /\ \E active \in BOOLEAN :
       /\ Answer(active)
       /\ seen' = [seen EXCEPT ![w] = IF active THEN "online" ELSE "offline"]
  /\ Goto(w, "row")
  /\ UNCHANGED <<rowVars, zlmVars, lock, markVars, op, addr, attempt, requests, breaks, final>>

\* recoverSinglePullSourceAfterZLMRestart writes address and status.
RecoverRow(w) ==
  /\ pc[w] = "row"
  /\ url' = IF exists THEN addr[w] ELSE url
  /\ status' = IF exists THEN seen[w] ELSE status
  /\ Goto(w, "end")
  /\ calm' = IF calm = "maybe" THEN "yes" ELSE calm
  /\ UNCHANGED <<exists, analyzing, proxyUrl, fresh, zlmVars, lock, markVars, localVars, boundVars, final>>

\* This process dies and is started again; ZLM finds nobody to send hooks to.
Crash ==
  /\ breaks < MaxBreaks /\ breaks' = breaks + 1
  /\ calm' = IF AllIdle /\ hooks = <<>> THEN calm ELSE "no"
  /\ pc' = [w \in Workers |-> IF w = Recoverer THEN "correct" ELSE "idle"]
  /\ op' = [w \in Workers |-> IF w = Recoverer THEN "startup" ELSE "none"]
  /\ addr' = [w \in Workers |-> NoUrl] /\ seen' = [w \in Workers |-> "offline"]
  /\ attempt' = [w \in Workers |-> 1]
  /\ lock' = Free /\ healPending' = FALSE /\ recoverPending' = FALSE /\ hooks' = <<>>
  /\ Join
  /\ UNCHANGED <<rowVars, proxy, up, reachable, requests, faults>>

-----------------------------------------------------------------------------
Ensure(w) == Check(w) \/ Add(w) \/ AddReplyLost(w) \/ Recheck(w)
Serve(w)  == Sync(w) \/ Save(w) \/ Show(w) \/ Shown(w) \/ DeleteProxy(w) \/ DeleteProxyFails(w) \/ DeleteRows(w)
Heal(w)   == Load(w) \/ Active(w) \/ HealRow(w) \/ End(w)
Recover(w) == Correct(w) \/ CorrectRow(w) \/ List(w) \/ Confirm(w) \/ RecoverRow(w)
Work(w)   == Ensure(w) \/ Serve(w) \/ Heal(w) \/ Recover(w)

Environment ==
  \/ \E u \in Urls : CameraFails(u) \/ CameraReturns(u)
  \/ Reconnect \/ GiveUp \/ ZLMRestart \/ LoseHook
  \/ StartAnalysis \/ StopAnalysis \/ StreamNotFound \/ Crash

Arrive ==
  \/ \E t \in Threads, u \in Urls : BeginCreate(t, u) \/ BeginEdit(t, u)
  \/ \E t \in Threads, o \in {"preview", "snapshot"} : BeginPreview(t, o)
  \/ \E t \in Threads : BeginDelete(t)
  \/ \E i \in 1 .. Len(hooks) : HandleStreamChanged(i) \/ HandleServerStarted(i)

Next ==
  \/ Environment
  \/ Arrive
  \/ \E w \in Workers : Lock(w) \/ Work(w)

Spec == Init /\ [][Next]_vars

\* A goroutine that can go on does, a waiting one gets the lock in the end.
FairSpec ==
  /\ Spec
  /\ \A w \in Workers : WF_vars(Work(w)) /\ SF_vars(Lock(w))

-----------------------------------------------------------------------------
(* What must hold.                                                         *)

\* The rows follow ZLM: with nobody at work and no hook on its way, the status is
\* that of the stream and both rows have one address, if since the start or the
\* latest undisturbed recovery each operation had the source for itself, the
\* hooks kept their order and no call failed.
RowsFollow ==
  AllIdle /\ hooks = <<>> /\ exists /\ calm = "yes" =>
    /\ status = "online" <=> up
    /\ url = proxyUrl

\* A delete that met nobody is final: no row, and no proxy in ZLM.
DeletedIsGone == final = "yes" => ~exists /\ proxy = NoUrl

\* Of those who asked ZLM and found no stream, only one makes the proxy ("avoid
\* building the same proxy concurrently"): nobody else is still about to.
OneAdds ==
  [][proxy = NoUrl /\ proxy' # NoUrl => \A w \in Workers : pc[w] = "add" => pc'[w] # "add"]_vars

\* An edit that nothing disturbs does not end an analysis.
EditKeepsAnalysis == [][analyzing /\ ~analyzing' /\ pc' # pc => calm # "yes"]_vars

\* Every operation comes to an end: the lock is given back on every path, and heal
\* and recovery do not go round for ever.
EveryCallReturns == \A w \in Workers : pc[w] # "idle" ~> pc[w] = "idle"

\* A recovery that is owed makes a proxy, unless the source is gone, its camera does
\* not answer, or an edit has changed the address the recovery has listed.
RestartRepaired ==
  exists /\ (recoverPending \/ pc[Recoverer] \in {"correct", "correctrow", "list"})
    ~> \/ proxy # NoUrl \/ ~exists \/ OriginURL \notin reachable
       \/ addr[Recoverer] \notin {NoUrl, OriginURL}

\* After an edit alone, the stream is the one of the edited address: saving waits for
\* ZLM to build the stream (docs/backend-api-v1.md:76).
SavedIsBuilt ==
  AllIdle /\ hooks = <<>> /\ exists /\ calm = "yes" /\ up => proxy = url
=============================================================================
