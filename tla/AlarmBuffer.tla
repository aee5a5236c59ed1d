------------------------------ MODULE AlarmBuffer ------------------------------
(* The recorder of one source that fills the buffer of alarm clips                 *)
(* (recording_runtime.go, alarm_clip_runtime.go 189-440, the buffer in             *)
(* storage_maintenance.go).  Hooks, task requests, alarms and the janitor all      *)
(* re-apply the recording policy, without a lock: they read the rows, ask ZLM,     *)
(* start or stop the recorder and write down which.  The task has this one device, *)
(* whose profile says alarm_clip.  Ages are counted in ticks of half a minute, the *)
(* window in which a buffer counts as healthy.                                     *)
EXTENDS Naturals, FiniteSets

CONSTANTS
  BufGoroutines,   \* requests, hooks and callbacks under way at once
  BufPre, BufPost, \* AlarmPreSeconds and AlarmPostSeconds of the profile
  BufMax,          \* MaxSessionSeconds
  BufKeep,         \* alarmClipBufferKeepSeconds, which grows with the profile's window
  JanitorKeep,     \* the janitor's, which knows the server's configuration only
  MaxBufEvents     \* bound: requests, alarms, changes of the stream, failures

VARIABLES
  bufUp,           \* ZLM has the stream
  bufRecorder,     \* and records it
  bufHooks,        \* hooks on their way
  bufRow,          \* the row: online, ai (its analysis runs), status of the recording
  bufTask,         \* the task's row says running
  bufFiles,        \* ages of the segments on disk
  bufSession,      \* the session that records: ages of the beginning of its window, and of
                   \* its expected end; <<>> without one
  bufAt, bufOp,    \* where a goroutine is, and for what
  bufSeen,         \* what it has read
  bufDoomed,       \* segments it is about to remove
  bufSince,        \* ticks since the janitor last came round
  bufCut,          \* history: the age of the youngest segment ever removed
  bufAstray,       \* history: goroutines overlapped, a call failed or the hook of a restart
                   \* came late, and the recorder may have been running since then
  bufEvents

bufZLM == <<bufUp, bufRecorder, bufHooks>>
bufRows == <<bufRow, bufTask>>
bufDisk == <<bufFiles, bufCut>>
bufWork == <<bufAt, bufOp, bufSeen, bufDoomed>>
bufVars == <<bufZLM, bufRows, bufDisk, bufSession, bufWork, bufSince, bufAstray, bufEvents>>

\* Segments and cuts of this age or more are not told apart.
Aged == BufPre + BufMax + 1

ASSUME BufferAssumption ==
  /\ {BufPre, BufPost, BufMax, BufKeep, JanitorKeep, MaxBufEvents} \subseteq Nat
  /\ BufKeep > BufPre /\ BufPost <= BufMax /\ BufKeep < Aged /\ JanitorKeep < Aged

BufRowType == [online : BOOLEAN, ai : BOOLEAN, status : {"stopped", "buffering"}]
NoSeen == [online |-> FALSE, ai |-> FALSE, status |-> "stopped"]

BufIdle(p) == bufAt[p] = "idle"
\* One that is free: which one makes no difference.
BufFree(p) == BufIdle(p) /\ p = CHOOSE q \in BufGoroutines : BufIdle(q)
BufQuiet == \A p \in BufGoroutines : BufIdle(p)
BufGo(p, step) == bufAt' = [bufAt EXCEPT ![p] = step]
BufEvent == bufEvents < MaxBufEvents /\ bufEvents' = bufEvents + 1

BufInit ==
  /\ bufUp = FALSE /\ bufRecorder = FALSE /\ bufHooks = {}
  /\ bufRow = NoSeen /\ bufTask \in BOOLEAN
  /\ bufFiles = {} /\ bufSession = <<>>
  /\ bufAt = [p \in BufGoroutines |-> "idle"] /\ bufOp = [p \in BufGoroutines |-> "none"]
  /\ bufSeen = [p \in BufGoroutines |-> NoSeen] /\ bufDoomed = [p \in BufGoroutines |-> {}]
  /\ bufSince = 0 /\ bufCut = Aged /\ bufAstray = FALSE /\ bufEvents = 0
-----------------------------------------------------------------------------
(* ZLM, and time.                                                          *)

\* What a recorder leaves when it ends: its last segment, and a hook.
LastSegment ==
  IF bufRecorder THEN /\ bufFiles' = bufFiles \cup {0}
                      /\ bufHooks' = bufHooks \cup {"segment"}
                 ELSE UNCHANGED <<bufFiles, bufHooks>>

BufStreamUp ==
  /\ ~bufUp /\ BufEvent
  /\ bufUp' = TRUE /\ bufHooks' = bufHooks \cup {"up"}
  /\ UNCHANGED <<bufRecorder, bufRows, bufDisk, bufSession, bufWork, bufSince, bufAstray>>

BufStreamDown ==
  /\ bufUp /\ BufEvent
  /\ bufUp' = FALSE /\ bufRecorder' = FALSE
  /\ bufFiles' = IF bufRecorder THEN bufFiles \cup {0} ELSE bufFiles
  /\ bufHooks' = bufHooks \cup {"down"} \cup (IF bufRecorder THEN {"segment"} ELSE {})
  /\ UNCHANGED <<bufRows, bufCut, bufSession, bufWork, bufSince, bufAstray>>

\* ZLM restarts; what it had to say is lost.
BufMediaRestart ==
  /\ BufEvent
  /\ bufUp' = FALSE /\ bufRecorder' = FALSE /\ bufHooks' = {"restarted"}
  /\ UNCHANGED <<bufRows, bufDisk, bufSession, bufWork, bufSince, bufAstray>>

\* Nobody takes as long as a tick.  A recorder writes segments all the time, and a
\* session that is due is sealed before time goes on (AlarmClipSession has the rest).
Older(age) == IF age < Aged THEN age + 1 ELSE Aged
BufTick ==
  /\ BufQuiet /\ bufSince < 2
  /\ bufSession # <<>> => bufSession.left > 0
  /\ bufSession' = IF bufSession = <<>> THEN <<>>
                   ELSE [from |-> bufSession.from + 1, left |-> bufSession.left - 1]
  /\ bufFiles' = {Older(age) : age \in bufFiles} \cup (IF bufRecorder THEN {0} ELSE {})
  /\ bufHooks' = bufHooks \cup (IF bufRecorder THEN {"segment"} ELSE {})
  /\ bufCut' = Older(bufCut) /\ bufSince' = bufSince + 1
  /\ UNCHANGED <<bufUp, bufRecorder, bufRows, bufWork, bufAstray, bufEvents>>

\* The timer of the session.
BufSeal ==
  /\ bufSession # <<>> /\ bufSession.left = 0
  /\ bufSession' = <<>>
  /\ UNCHANGED <<bufZLM, bufRows, bufDisk, bufWork, bufSince, bufAstray, bufEvents>>
-----------------------------------------------------------------------------
(* Who re-applies the policy.                                              *)

Begins(p, op, step) ==
  /\ BufFree(p)
  /\ BufGo(p, step) /\ bufOp' = [bufOp EXCEPT ![p] = op]
  /\ bufAstray' = (bufAstray \/ ~BufQuiet)

\* handleZLMOnStreamChanged: the status of the source, and the policy.
BufStreamHook(p) ==
  /\ \E hook \in bufHooks \cap {"up", "down"} :
       /\ bufHooks' = bufHooks \ {hook}
       /\ bufRow' = [bufRow EXCEPT !.online = (hook = "up")]
  /\ Begins(p, "hook", "row")
  /\ UNCHANGED <<bufUp, bufRecorder, bufTask, bufDisk, bufSession, bufSeen, bufDoomed, bufSince, bufEvents>>

\* handleZLMOnServerStarted: the rows only, also when it comes late.
BufRestartHook ==
  /\ "restarted" \in bufHooks
  /\ bufHooks' = bufHooks \ {"restarted"}
  /\ bufRow' = [bufRow EXCEPT !.online = FALSE, !.status = "stopped"]
  /\ bufAstray' = (bufAstray \/ ~BufQuiet \/ bufRecorder)
  /\ UNCHANGED <<bufUp, bufRecorder, bufTask, bufDisk, bufSession, bufWork, bufSince, bufEvents>>

\* startTaskRuntimes, stopTask, syncTaskStatusFromRunningSet: the analysis of the device
\* is on or off, the policy is applied, and then the task's status follows (BufFollowed).
BufFollow(p) ==
  /\ BufEvent
  /\ \E on \in BOOLEAN :
       /\ bufRow' = [bufRow EXCEPT !.ai = on]
       /\ Begins(p, IF on THEN "start" ELSE "stop", "row")
  /\ UNCHANGED <<bufZLM, bufTask, bufDisk, bufSession, bufSeen, bufDoomed, bufSince>>

\* triggerAlarmClipBySourceID, for an event of the AI service.
BufAlarm(p) ==
  /\ BufEvent /\ Begins(p, "alarm", "row")
  /\ UNCHANGED <<bufZLM, bufRows, bufDisk, bufSession, bufSeen, bufDoomed, bufSince>>

\* The janitor removes segments by its own measure and heals what says buffering
\* (runRoutineCleanup, healBufferedAlarmRecordings).
BufJanitor(p) ==
  /\ bufSince > 0 /\ bufSince' = 0
  /\ Begins(p, "janitor", "load")
  /\ UNCHANGED <<bufZLM, bufRows, bufDisk, bufSession, bufSeen, bufDoomed, bufEvents>>

\* handleZLMOnRecordMP4 reads the rows, and ...
BufSegmentHook(p) ==
  /\ "segment" \in bufHooks
  /\ bufHooks' = bufHooks \ {"segment"}
  /\ bufSeen' = [bufSeen EXCEPT ![p] = [bufRow EXCEPT !.ai = @ /\ bufTask, !.status = "stopped"]]
  /\ Begins(p, "segment", IF bufRow.ai /\ bufTask THEN "buffering" ELSE "stopped")
  /\ UNCHANGED <<bufUp, bufRecorder, bufRows, bufDisk, bufSession, bufDoomed, bufSince, bufEvents>>
-----------------------------------------------------------------------------
(* applyRecordingPolicyForSourceID.                                        *)

\* What follows when the policy is applied, or cannot be.
Applied(p) == BufGo(p, CASE bufOp[p] = "alarm"            -> "session"
                         [] bufOp[p] \in {"start", "stop"} -> "task"
                         [] OTHER                          -> "end")

BufReadRow(p) ==
  /\ bufAt[p] = "row"
  /\ bufSeen' = [bufSeen EXCEPT ![p] = bufRow]
  /\ BufGo(p, "policy")
  /\ UNCHANGED <<bufZLM, bufRows, bufDisk, bufSession, bufOp, bufDoomed, bufSince, bufAstray, bufEvents>>

\* The task's status decides, as the row says it.  Without a policy, or a stream, the
\* session is closed.
BufPolicy(p) ==
  /\ bufAt[p] = "policy"
  /\ bufSeen' = [bufSeen EXCEPT ![p].ai = @ /\ bufTask]
  /\ bufSession' = IF bufTask /\ bufSeen[p].online THEN bufSession ELSE <<>>
  /\ BufGo(p, IF bufSeen[p].online THEN "stream" ELSE "stop")
  /\ UNCHANGED <<bufZLM, bufRows, bufDisk, bufOp, bufDoomed, bufSince, bufAstray, bufEvents>>

\* isSourceStreamActive, and the look for a recent segment.
BufStream(p) ==
  /\ bufAt[p] = "stream"
  /\ bufSession' = IF bufUp THEN bufSession ELSE <<>>
  /\ BufGo(p, IF ~bufUp \/ ~bufSeen[p].ai THEN "stop"
              ELSE IF bufSeen[p].status = "stopped" THEN "start"
              ELSE IF 0 \in bufFiles \/ 1 \in bufFiles THEN "load" ELSE "restart")
  /\ UNCHANGED <<bufZLM, bufRows, bufDisk, bufOp, bufSeen, bufDoomed, bufSince, bufAstray, bufEvents>>

\* A call to ZLM that fails ends it all, with or without effect.
BufCallFails(p) ==
  /\ bufAt[p] \in {"stream", "start", "restart", "stop"} /\ BufEvent
  /\ bufAt[p] = "stop" => bufSeen[p].status = "buffering"
  /\ \/ UNCHANGED <<bufRecorder, bufFiles, bufHooks>>
     \/ bufAt[p] = "start" /\ bufUp /\ bufRecorder' = TRUE /\ UNCHANGED <<bufFiles, bufHooks>>
     \/ bufAt[p] \in {"restart", "stop"} /\ bufRecorder' = FALSE /\ LastSegment
  /\ bufAstray' = TRUE
  /\ Applied(p)
  /\ UNCHANGED <<bufUp, bufRows, bufCut, bufSession, bufOp, bufSeen, bufDoomed, bufSince>>

\* stopRecordingForSource of a buffer without recent segments.
BufRestart(p) ==
  /\ bufAt[p] = "restart"
  /\ bufRecorder' = FALSE /\ LastSegment
  /\ bufSeen' = [bufSeen EXCEPT ![p].status = "stopped"]
  /\ BufGo(p, "reset")
  /\ UNCHANGED <<bufUp, bufRows, bufCut, bufSession, bufOp, bufDoomed, bufSince, bufAstray, bufEvents>>

\* startAlarmBufferForSource.
BufStart(p) ==
  /\ bufAt[p] = "start"
  /\ IF bufUp THEN bufRecorder' = TRUE /\ BufGo(p, "buffering")
              ELSE UNCHANGED bufRecorder /\ Applied(p)
  /\ UNCHANGED <<bufUp, bufHooks, bufRows, bufDisk, bufSession, bufOp, bufSeen, bufDoomed, bufSince, bufAstray, bufEvents>>

\* Mutant: the row only.
BufStopRowOnly(p) ==
  /\ bufAt[p] = "stop"
  /\ UNCHANGED <<bufRecorder, bufFiles, bufHooks>>
  /\ BufGo(p, "stopped")
  /\ UNCHANGED <<bufUp, bufRows, bufCut, bufSession, bufOp, bufSeen, bufDoomed, bufSince, bufAstray, bufEvents>>

\* stopRecordingIfNeeded: ZLM is told only if the row said that it records.
BufStop(p) ==
  /\ bufAt[p] = "stop"
  /\ IF bufSeen[p].status = "buffering" THEN bufRecorder' = FALSE /\ LastSegment
                                        ELSE UNCHANGED <<bufRecorder, bufFiles, bufHooks>>
  /\ BufGo(p, "stopped")
  /\ UNCHANGED <<bufUp, bufRows, bufCut, bufSession, bufOp, bufSeen, bufDoomed, bufSince, bufAstray, bufEvents>>

\* setRecordingStatus: after a start, a stop, the stop of a restart, and when a healthy
\* buffer has been pruned.
Marked(status) == bufRow' = [bufRow EXCEPT !.status = status]
BufMark(p) ==
  /\ \/ bufAt[p] = "buffering" /\ Marked("buffering") /\ BufGo(p, "load")
     \/ bufAt[p] = "healthy" /\ Marked("buffering") /\ Applied(p)
     \/ bufAt[p] = "reset" /\ Marked("stopped") /\ BufGo(p, "start")
     \/ bufAt[p] = "stopped" /\ Marked("stopped") /\ Applied(p)
  /\ UNCHANGED <<bufZLM, bufTask, bufDisk, bufSession, bufOp, bufSeen, bufDoomed, bufSince, bufAstray, bufEvents>>
-----------------------------------------------------------------------------
(* The buffer.                                                             *)

\* Mutant: by age alone.
PrunableByAge(keep) == {age \in bufFiles : age >= keep}

\* Segments older than what is kept, except those of a session that is not sealed.
Prunable(keep) ==
  {age \in bufFiles : age >= keep /\ (bufSession # <<>> => age > bufSession.from)}

\* pruneAlarmBufferFiles, runRoutineCleanup: the sessions are asked for, ...
BufLoad(p) ==
  /\ bufAt[p] = "load"
  /\ bufDoomed' = [bufDoomed EXCEPT ![p] = Prunable(IF bufOp[p] = "janitor" THEN JanitorKeep ELSE BufKeep)]
  /\ BufGo(p, "remove")
  /\ UNCHANGED <<bufZLM, bufRows, bufDisk, bufSession, bufOp, bufSeen, bufSince, bufAstray, bufEvents>>

\* Mutant: of the sources that are online.
HealsOnline == bufRow.status = "buffering" /\ bufRow.online

\* healBufferedAlarmRecordings: the sources it applies the policy to.
Heals == bufRow.status = "buffering"

\* ... and then the files are removed.  The janitor heals.
BufRemove(p) ==
  /\ bufAt[p] = "remove"
  /\ bufFiles' = bufFiles \ bufDoomed[p]
  /\ bufCut' = IF \E age \in bufDoomed[p] : age < bufCut
               THEN CHOOSE age \in bufDoomed[p] : \A other \in bufDoomed[p] : age <= other
               ELSE bufCut
  /\ bufDoomed' = [bufDoomed EXCEPT ![p] = {}]
  /\ IF bufOp[p] = "janitor"
     THEN /\ BufGo(p, IF Heals THEN "row" ELSE "end")
          /\ bufOp' = [bufOp EXCEPT ![p] = "heal"]
     ELSE /\ IF bufSeen[p].status = "buffering" THEN BufGo(p, "healthy") ELSE Applied(p)
          /\ UNCHANGED bufOp
  /\ UNCHANGED <<bufZLM, bufRows, bufSession, bufSeen, bufSince, bufAstray, bufEvents>>
-----------------------------------------------------------------------------
(* What the caller does afterwards.                                        *)

\* startOrExtendAlarmClipSessionBySourceID (AlarmClipSession).
BufSessionStarts(p) ==
  /\ bufAt[p] = "session"
  /\ bufSession' =
       IF ~bufRow.ai \/ ~bufRow.online THEN bufSession
       ELSE IF bufSession = <<>> THEN [from |-> BufPre, left |-> BufPost]
       ELSE LET rest == BufPre + BufMax - bufSession.from
            IN  [bufSession EXCEPT !.left = IF BufPost < rest THEN BufPost ELSE rest]
  /\ BufGo(p, "end")
  /\ UNCHANGED <<bufZLM, bufRows, bufDisk, bufOp, bufSeen, bufDoomed, bufSince, bufAstray, bufEvents>>

\* A start counts the rows that say running, a sync goes by what it was told.
BufFollowed(p) ==
  /\ bufAt[p] = "task"
  /\ bufTask' \in IF bufOp[p] = "start" THEN {TRUE, bufRow.ai} ELSE {FALSE}
  /\ BufGo(p, "end")
  /\ UNCHANGED <<bufZLM, bufRow, bufDisk, bufSession, bufOp, bufSeen, bufDoomed, bufSince, bufAstray, bufEvents>>

\* With the recorder off and nobody at work nothing is astray any more.
BufEnd(p) ==
  /\ bufAt[p] = "end"
  /\ BufGo(p, "idle")
  /\ bufOp' = [bufOp EXCEPT ![p] = "none"] /\ bufSeen' = [bufSeen EXCEPT ![p] = NoSeen]
  /\ bufAstray' = (bufAstray /\ (bufRecorder \/ \E q \in BufGoroutines \ {p} : ~BufIdle(q)))
  /\ UNCHANGED <<bufZLM, bufRows, bufDisk, bufSession, bufDoomed, bufSince, bufEvents>>

\* The server dies, and is started again.
BufCrash ==
  /\ BufEvent /\ ~BufQuiet
  /\ bufAt' = [p \in BufGoroutines |-> "idle"] /\ bufOp' = [p \in BufGoroutines |-> "none"]
  /\ bufSeen' = [p \in BufGoroutines |-> NoSeen] /\ bufDoomed' = [p \in BufGoroutines |-> {}]
  /\ bufHooks' = {} /\ bufAstray' = bufRecorder
  /\ UNCHANGED <<bufUp, bufRecorder, bufRows, bufDisk, bufSession, bufSince>>
-----------------------------------------------------------------------------
BufStep(p) ==
  \/ BufReadRow(p) \/ BufPolicy(p) \/ BufStream(p) \/ BufRestart(p) \/ BufStart(p) \/ BufStop(p)
  \/ BufMark(p) \/ BufLoad(p) \/ BufRemove(p) \/ BufSessionStarts(p) \/ BufFollowed(p) \/ BufEnd(p)

BufRun ==
  \/ \E p \in BufGoroutines : BufStep(p) \/ BufStreamHook(p) \/ BufSegmentHook(p) \/ BufJanitor(p)
  \/ BufRestartHook \/ BufTick \/ BufSeal

BufNext ==
  \/ BufRun
  \/ \E p \in BufGoroutines : BufFollow(p) \/ BufAlarm(p) \/ BufCallFails(p)
  \/ BufStreamUp \/ BufStreamDown \/ BufMediaRestart \/ BufCrash

BufSpec == BufInit /\ [][BufNext]_bufVars
-----------------------------------------------------------------------------
(* Properties.                                                             *)

\* No segment of the window of a session that is not sealed has been removed, however
\* long alarms extend it, and also not by a cleanup that had asked for the sessions
\* before this one started.  (JanitorKeep has to exceed BufPre: nothing in the code sees
\* to it for a profile whose window is longer than the server's configuration says.)
WindowKept == bufSession # <<>> => bufCut > bufSession.from

\* A recorder that runs has a row that says so, as it takes for the janitor to find it
\* and for anybody to stop it - unless goroutines have overlapped or a call has failed
\* since it was started.
RecorderIsKnown ==
  BufQuiet /\ bufRecorder /\ ~bufAstray => bufRow.status = "buffering"

\* A source whose row says buffering does not stay without a recorder: the janitor finds
\* no recent segment and starts it again, or finds no reason to and says stopped.
BufferingRecords == []<>(bufRow.status = "buffering" => bufRecorder)

\* docs/architecture.md:51: a task with alarm_clip runs its buffer.  The code breaks it:
\* the policy is applied before the task's status is written (BufFollow, BufFollowed).
RunningIsBuffered ==
  BufQuiet /\ bufHooks = {} /\ ~bufAstray
  /\ bufTask /\ bufRow.ai /\ bufRow.online /\ bufUp => bufRow.status = "buffering"
=============================================================================
