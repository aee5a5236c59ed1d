------------------------------ MODULE PushSource ------------------------------
(* One RTMP stream that is pushed to ZLM (zlm_webhook.go, devices.go,            *)
(* devices_blacklist.go): its row, which the first publish may bring about, its  *)
(* block, the stream in ZLM, the hook that lets a publisher in, and the requests *)
(* of the operators.  Tokens are right; what they are is left out.               *)
EXTENDS Naturals, Sequences

CONSTANTS
  PushAdmins,       \* requests
  MaxPublishes,     \* bound: publishes
  MaxPushRequests,  \* bound: requests
  MaxPushFaults     \* bound: failing statements and calls, restarts of ZLM and of the server

VARIABLES
  pushRow,          \* the row of media_sources: none, offline or online
  pushBlocked,      \* a row of stream_blocks
  pushLive,         \* somebody publishes the stream
  pushNews,         \* hooks on their way, as they were sent: the status each will write
  pushOld,          \* how many of them, the oldest, are older than one that was handled
  pushHook,         \* where the on_publish hook is
  pushAt, pushDo,   \* where a request is, and which it is
  pushSnap,         \* the row an update has read
  pushLate,         \* history: a publisher got past the check of the block before it was there
  pushStale,        \* history: the row's status is older than the last hook
  pushPublishes, pushRequests, pushFaults

pushCounts == <<pushPublishes, pushRequests, pushFaults>>
pushReqs == <<pushAt, pushDo, pushSnap>>
pushMail == <<pushNews, pushOld>>
pushVars == <<pushRow, pushBlocked, pushLive, pushMail, pushHook, pushReqs, pushLate, pushStale, pushCounts>>

ASSUME PushAssumption == MaxPublishes \in Nat /\ MaxPushRequests \in Nat /\ MaxPushFaults \in Nat

PushInit ==
  /\ pushRow \in {"none", "offline"} /\ pushBlocked = FALSE
  /\ pushLive = FALSE /\ pushNews = <<>> /\ pushOld = 0 /\ pushHook = "idle"
  /\ pushAt = [a \in PushAdmins |-> "idle"] /\ pushDo = [a \in PushAdmins |-> "none"]
  /\ pushSnap = [a \in PushAdmins |-> "none"] /\ pushLate = FALSE /\ pushStale = FALSE
  /\ pushPublishes = 0 /\ pushRequests = 0 /\ pushFaults = 0

PushFault == pushFaults < MaxPushFaults /\ pushFaults' = pushFaults + 1
PushGo(a, step) == pushAt' = [pushAt EXCEPT ![a] = step]
PushEnd(a) ==
  /\ PushGo(a, "idle")
  /\ pushDo' = [pushDo EXCEPT ![a] = "none"] /\ pushSnap' = [pushSnap EXCEPT ![a] = "none"]
PushBegin(a, request, step) ==
  /\ pushAt[a] = "idle" /\ pushRequests < MaxPushRequests /\ pushRequests' = pushRequests + 1
  /\ pushDo' = [pushDo EXCEPT ![a] = request] /\ PushGo(a, step)
  /\ UNCHANGED <<pushBlocked, pushLive, pushMail, pushHook, pushLate, pushStale, pushPublishes, pushFaults>>

\* A hook is sent: it will write a status.
Told(status) == pushNews' = Append(pushNews, status) /\ UNCHANGED pushOld

\* Who is in, or past the check, when the block is written.
PushIn == pushLive \/ pushHook # "idle"
-----------------------------------------------------------------------------
(* A publisher: on_publish asks, and what becomes of the stream is told later.   *)

\* isRTMPStreamBlocked.  Mutant: the block is not looked for.
PublishAny ==
  /\ pushHook = "idle" /\ ~pushLive
  /\ pushPublishes < MaxPublishes /\ pushPublishes' = pushPublishes + 1
  /\ pushHook' = "checked"
  /\ UNCHANGED <<pushRow, pushBlocked, pushLive, pushMail, pushReqs, pushLate, pushStale, pushRequests, pushFaults>>

Publish ==
  /\ pushHook = "idle" /\ ~pushLive /\ ~pushBlocked
  /\ pushPublishes < MaxPublishes /\ pushPublishes' = pushPublishes + 1
  /\ pushHook' = "checked"
  /\ UNCHANGED <<pushRow, pushBlocked, pushLive, pushMail, pushReqs, pushLate, pushStale, pushRequests, pushFaults>>

\* findRTMPDeviceByAppStream.
FindPublished ==
  /\ pushHook = "checked"
  /\ pushHook' = IF pushRow = "none" THEN "unknown" ELSE "known"
  /\ UNCHANGED <<pushRow, pushBlocked, pushLive, pushMail, pushReqs, pushLate, pushStale, pushCounts>>

\* touchRTMPSourceOnPublish of a row that is known, autoCreateRTMPSourceOnPublish of one
\* that is not, or is by now; then ZLM lets the publisher in.
AdmitPublished ==
  /\ pushHook \in {"known", "unknown"} /\ pushHook' = "idle"
  /\ \/ /\ pushRow' = IF pushHook = "unknown" /\ pushRow = "none" THEN "offline" ELSE pushRow
        /\ pushLive' = TRUE /\ Told("online") /\ UNCHANGED pushFaults
     \/ PushFault /\ UNCHANGED <<pushRow, pushLive, pushMail>>
  /\ UNCHANGED <<pushBlocked, pushReqs, pushLate, pushStale, pushPublishes, pushRequests>>

Closed == pushLive' = FALSE /\ IF pushLive THEN Told("offline") ELSE UNCHANGED pushMail

PublisherLeaves ==
  /\ pushLive /\ Closed
  /\ UNCHANGED <<pushRow, pushBlocked, pushHook, pushReqs, pushLate, pushStale, pushCounts>>

\* What a hook leaves in the row.  Mutant: the end of the stream is not written.
WrittenBegin(i) == IF pushRow = "none" \/ pushNews[i] = "offline" THEN pushRow ELSE pushNews[i]
Written(i) == IF pushRow = "none" THEN "none" ELSE pushNews[i]

\* handleZLMOnStreamChanged, handleZLMOnServerStarted: each hook is a request of its own
\* and may overtake the older ones.  The error of its update is not looked at.
StreamChanged ==
  \E i \in 1 .. Len(pushNews) :
    /\ pushNews' = [j \in 1 .. Len(pushNews) - 1 |-> pushNews[IF j < i THEN j ELSE j + 1]]
    /\ pushOld' = IF i > pushOld THEN i - 1 ELSE pushOld - 1
    /\ \/ /\ pushRow' = Written(i) /\ UNCHANGED pushFaults
          /\ pushStale' = (i <= pushOld /\ (pushStale \/ pushRow' # pushRow))
       \/ /\ PushFault /\ UNCHANGED pushRow
          /\ pushStale' = (i > pushOld \/ pushStale)
    /\ UNCHANGED <<pushBlocked, pushLive, pushHook, pushReqs, pushLate, pushPublishes, pushRequests>>

\* ZLM starts anew and says so: every row is to be offline.  Hooks of before are still on
\* their way.  A publisher whose hook was being handled is gone; its row may be there.
PushMediaRestart ==
  /\ PushFault
  /\ pushLive' = FALSE /\ Told("offline") /\ pushHook' = "idle"
  /\ \/ UNCHANGED pushRow
     \/ pushHook = "unknown" /\ pushRow = "none" /\ pushRow' = "offline"
  /\ UNCHANGED <<pushBlocked, pushReqs, pushLate, pushStale, pushPublishes, pushRequests>>
-----------------------------------------------------------------------------
(* The operators' requests.                                                *)

\* createDevice: the stream's name must be free, when it is checked and when it is written.
PushCreate(a) == pushRow = "none" /\ PushBegin(a, "create", "commit") /\ UNCHANGED <<pushRow, pushSnap>>

\* updateDevice: the row as it was read is saved; it may be gone by then.
PushUpdate(a) ==
  /\ pushRow # "none" /\ pushSnap' = [pushSnap EXCEPT ![a] = pushRow]
  /\ PushBegin(a, "update", "commit") /\ UNCHANGED pushRow

\* Both lift the block in the transaction that writes the row.
\* A stream that is let in again starts anew when nobody is left of the old times.
PushSave(a) ==
  /\ pushAt[a] = "commit" /\ pushDo[a] \in {"create", "update"}
  /\ IF pushDo[a] = "create" /\ pushRow # "none"
     THEN UNCHANGED <<pushRow, pushBlocked, pushLate, pushStale>>
     ELSE /\ pushRow' = IF pushDo[a] = "create" THEN "offline" ELSE pushSnap[a]
          /\ pushBlocked' = FALSE /\ pushLate' = (pushLate /\ PushIn)
          /\ pushStale' = (pushStale \/ (pushRow' # pushRow /\ (pushRow' = "online") # pushLive))
  /\ PushEnd(a)
  /\ UNCHANGED <<pushLive, pushMail, pushHook, pushCounts>>

\* deleteDevice: the stream is closed, and when that has worked ...
PushDelete(a) == pushRow # "none" /\ PushBegin(a, "delete", "close") /\ UNCHANGED <<pushRow, pushSnap>>

\* ... the block is written and the row deleted; who came back in between stays.
PushDeleteCommit(a) ==
  /\ pushAt[a] = "commit" /\ pushDo[a] = "delete"
  /\ pushRow' = "none" /\ pushBlocked' = TRUE /\ pushLate' = (pushLate \/ PushIn)
  /\ PushEnd(a)
  /\ UNCHANGED <<pushLive, pushMail, pushHook, pushStale, pushCounts>>

\* addRTMPStreamBlock: the block first, then the stream is closed.
PushBlock(a) == PushBegin(a, "block", "commit") /\ UNCHANGED <<pushRow, pushSnap>>
PushBlockCommit(a) ==
  /\ pushAt[a] = "commit" /\ pushDo[a] = "block"
  /\ pushBlocked' = TRUE /\ pushLate' = (pushLate \/ pushHook # "idle")
  /\ pushRow' = IF pushRow = "none" THEN "none" ELSE "offline"
  /\ PushGo(a, "close")
  /\ UNCHANGED <<pushLive, pushMail, pushHook, pushDo, pushSnap, pushStale, pushCounts>>

\* closeZLMStreams: its failure ends a deletion, and is not noticed by a block.
\* Mutant: a block leaves the publisher alone.
PushCloseNot(a) ==
  /\ pushAt[a] = "close"
  /\ \/ pushDo[a] = "delete" /\ Closed /\ PushGo(a, "commit") /\ UNCHANGED <<pushDo, pushSnap, pushFaults>>
     \/ pushDo[a] = "block" /\ PushEnd(a) /\ UNCHANGED <<pushLive, pushMail, pushFaults>>
  /\ UNCHANGED <<pushRow, pushBlocked, pushHook, pushLate, pushStale, pushPublishes, pushRequests>>

PushClose(a) ==
  /\ pushAt[a] = "close"
  /\ \/ /\ Closed /\ UNCHANGED <<pushFaults, pushLate, pushStale>>
        /\ IF pushDo[a] = "delete" THEN PushGo(a, "commit") /\ UNCHANGED <<pushDo, pushSnap>>
                                   ELSE PushEnd(a)
     \/ /\ PushFault /\ PushEnd(a) /\ UNCHANGED <<pushLive, pushMail>>
        /\ pushLate' = (pushLate \/ pushDo[a] = "block")
        /\ pushStale' = (pushStale \/ (pushDo[a] = "block" /\ pushLive))
  /\ UNCHANGED <<pushRow, pushBlocked, pushHook, pushPublishes, pushRequests>>

\* removeRTMPStreamBlock.
PushUnblock(a) ==
  /\ pushAt[a] = "idle" /\ pushBlocked /\ pushRequests < MaxPushRequests /\ pushRequests' = pushRequests + 1
  /\ pushBlocked' = FALSE /\ pushLate' = (pushLate /\ PushIn)
  /\ UNCHANGED <<pushRow, pushLive, pushMail, pushHook, pushReqs, pushStale, pushPublishes, pushFaults>>

\* The server stops amid hooks and requests.  ZLM turns away a publisher whose hook
\* fails; what it has told about the stream is lost, and no start asks for it.
PushCrash ==
  /\ PushFault
  /\ pushHook' = "idle" /\ pushNews' = <<>> /\ pushOld' = 0
  /\ pushStale' = (pushStale \/ pushOld < Len(pushNews) \/ \E a \in PushAdmins : pushDo[a] = "block" /\ pushAt[a] = "close")
  /\ pushAt' = [a \in PushAdmins |-> "idle"] /\ pushDo' = [a \in PushAdmins |-> "none"]
  /\ pushSnap' = [a \in PushAdmins |-> "none"]
  /\ pushLate' = (pushLate \/ \E a \in PushAdmins : pushDo[a] = "block" /\ pushAt[a] = "close")
  /\ UNCHANGED <<pushRow, pushBlocked, pushLive, pushPublishes, pushRequests>>
-----------------------------------------------------------------------------
PushNext ==
  \/ Publish \/ FindPublished \/ AdmitPublished \/ PublisherLeaves \/ StreamChanged
  \/ PushMediaRestart \/ PushCrash
  \/ \E a \in PushAdmins :
       \/ PushCreate(a) \/ PushUpdate(a) \/ PushDelete(a) \/ PushBlock(a) \/ PushUnblock(a)
       \/ PushSave(a) \/ PushDeleteCommit(a) \/ PushBlockCommit(a) \/ PushClose(a)

PushSpec == PushInit /\ [][PushNext]_pushVars
-----------------------------------------------------------------------------
(* Properties.                                                             *)

\* A stream that is blocked, or was deleted, is not published any more once the request
\* has ended, and nobody gets in (docs/backend-api-v1.md:144), whatever else goes on,
\* unless a publisher was past the check of the block before it was written or the
\* closing of the stream failed or was cut off: nobody looks again.
PushKeptOut ==
  pushBlocked /\ ~pushLate /\ (\A a \in PushAdmins : pushAt[a] = "idle")
  => ~pushLive /\ pushHook = "idle"

\* Once the hooks have come in, in whatever order, and the requests have ended, a row says
\* whether its stream is published (handleZLMOnStreamChanged; on_publish does not touch the
\* status), unless what was written last is older than the last hook: what a hook wrote
\* that a newer one had overtaken, a row that an update has read before and saved after
\* it, a row made for a publisher that is in; or the last hook was lost or not written.
PushShown ==
  pushRow # "none" /\ pushNews = <<>> /\ ~pushStale /\ (\A a \in PushAdmins : pushAt[a] = "idle")
  => (pushRow = "online") = pushLive
=============================================================================
