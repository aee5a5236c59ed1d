-------------------------- MODULE AlarmClipSession --------------------------
(***************************************************************************)
(* The alarm-clip sessions of src/internal/server/alarm_clip_runtime.go.   *)
(* An alarm opens (or extends) a recording session of its media source; a  *)
(* per-source timer, a policy change, the server's shutdown or the next    *)
(* startup seals it, and sealing publishes one clip to all its events.     *)
(*                                                                         *)
(* The session and event rows live in the database and survive a crash;    *)
(* timers, sequence numbers, goroutines and the finalize mutex do not.     *)
(* A database transaction and a single statement are atomic steps; between *)
(* two of them any other goroutine may run.                                *)
(***************************************************************************)
EXTENDS Integers, FiniteSets

CONSTANTS
  Sources,           \* media sources
  Sessions,          \* session ids (uuid.NewString never repeats one)
  Events,            \* alarm events, each raised by a request of its own
  EventSource,       \* the source an event is raised on
  Threads,           \* goroutines that may call finalizeAlarmClipSession
  Main,              \* the goroutine that runs New() and Close()
  NoSession,         \* no session, or no clip
  Free,              \* alarmClipFinalizeMu is not held
  PostSeconds,       \* alarm_post_seconds
  MaxSessionSeconds, \* Server.Recording.AlarmClip.MaxSessionSeconds
  SettleSeconds,     \* Server.Recording.AlarmClip.SessionSettleSeconds
  RecoverOnStartup,  \* Server.Recording.AlarmClip.RecoverOnStartup
  MaxTime,           \* bound: the last value of the clock
  MaxRestarts,       \* bound: the number of exits and crashes
  MaxFaults          \* bound: the number of failing database statements

ASSUME SetsAssumption ==
  /\ Sources # {}
  /\ EventSource \in [Events -> Sources]
  /\ Main \in Threads
  /\ NoSession \notin Sessions
  /\ Free \notin Threads
ASSUME TimesAssumption ==
  /\ PostSeconds \in Nat \ {0}
  /\ MaxSessionSeconds \in Nat \ {0}
  /\ SettleSeconds \in Nat \ {0}
  /\ RecoverOnStartup \in BOOLEAN
  /\ MaxTime \in Nat /\ MaxRestarts \in Nat /\ MaxFaults \in Nat

VARIABLES
  clock,          \* time.Now(), in seconds
  \* rows of the session table
  status, owner, startedAt, expectedEndAt, hardDeadlineAt, sessionClip,
  \* rows of the event table and its relation to sessions
  attached, ready, eventClip,
  \* per event: the request that carries the alarm, its now and its end time
  hpc, hnow, hend,
  \* alarmClipSessionTimers, alarmClipSessionSeq; the runtime's pending timers
  \* and the callbacks it has started
  timers, seq, armed, fired,
  \* callers of finalizeAlarmClipSession
  pc, callSource, target, reason,
  \* its mutex and the local variables of the caller that holds it
  finalizeMu, windowEnd, batch, outcome,
  \* startup and shutdown (listedAt: the now of the recovery's list), and the
  \* spent part of the bounds
  mode, todo, seen, listedAt, restarts, faults

sessionVars  == <<status, owner, startedAt, expectedEndAt, hardDeadlineAt, sessionClip>>
eventVars    == <<attached, ready, eventClip>>
handlerVars  == <<hpc, hnow, hend>>
timerVars    == <<timers, seq, armed, fired>>
callVars     == <<pc, callSource, target, reason>>
finalizeVars == <<finalizeMu, windowEnd, batch, outcome>>
lifeVars     == <<mode, todo, seen, listedAt, restarts, faults>>
vars == <<clock, sessionVars, eventVars, handlerVars, timerVars, callVars,
          finalizeVars, lifeVars>>

Terminal == {"closed", "closed_empty", "failed"}
Unsealed == {"recording", "closing"}
Inside   == {"close", "cancel", "collect", "publish", "seal"}
Outcomes == {"closed", "closed_empty", "failed", "orphaned"}
Serving  == {"up", "stopping", "closing", "closed"}  \* requests are answered
Timer    == [source : Sources, seq : Nat, at : Int]

Typed ==
  /\ clock \in Int
  /\ status \in [Sessions -> {"absent"} \cup Unsealed \cup Terminal]
  /\ owner \in [Sessions -> Sources]
  /\ startedAt \in [Sessions -> Int]
  /\ expectedEndAt \in [Sessions -> Int]
  /\ hardDeadlineAt \in [Sessions -> Int]
  /\ sessionClip \in [Sessions -> Sessions \cup {NoSession}]
  /\ attached \in [Events -> Sessions \cup {NoSession}]
  /\ ready \in [Events -> BOOLEAN]
  /\ eventClip \in [Events -> Sessions \cup {NoSession}]
  /\ hpc \in [Events -> {"none", "open", "schedule", "done"}]
  /\ hnow \in [Events -> Int] /\ hend \in [Events -> Int]
  /\ timers \in [Sources -> SUBSET Timer]
  /\ seq \in [Sources -> Nat]
  /\ armed \subseteq Timer /\ fired \subseteq Timer
  /\ pc \in [Threads -> {"idle", "find", "wait"} \cup Inside]
  /\ callSource \in [Threads -> Sources]
  /\ target \in [Threads -> Sessions \cup {NoSession}]
  /\ reason \in [Threads -> {"none", "timer", "policy", "server_close", "recover"}]
  /\ finalizeMu \in Threads \cup {Free}
  /\ windowEnd \in Int
  /\ batch \subseteq Events
  /\ outcome \in Outcomes
  /\ mode \in Serving \cup {"off", "recovering"}
  /\ todo \subseteq Sessions /\ seen \subseteq Sources /\ listedAt \in Int
  /\ restarts \in Nat /\ faults \in Nat

\* Only the look-up that found nothing has no session to finalize.
CallersHaveSession ==
  \A t \in Threads : pc[t] \in {"wait"} \cup Inside => target[t] \in Sessions

TypeOK == Typed /\ CallersHaveSession

Recording(src) == {s \in Sessions : status[s] = "recording" /\ owner[s] = src}

\* Mutant: the query forgets its Order.
AnyRecording(src) == Recording(src)

\* Order("started_at desc").First: one of the most recently started.
LatestRecording(src) ==
  {s \in Recording(src) : \A u \in Recording(src) : startedAt[u] <= startedAt[s]}

Earlier(a, b) == IF a <= b THEN a ELSE b
Later(a, b)   == IF a >= b THEN a ELSE b

Init ==
  /\ clock = 0
  /\ status = [s \in Sessions |-> "absent"]
  /\ owner = [s \in Sessions |-> CHOOSE src \in Sources : TRUE]
  /\ startedAt = [s \in Sessions |-> 0]
  /\ expectedEndAt = [s \in Sessions |-> 0]
  /\ hardDeadlineAt = [s \in Sessions |-> 0]
  /\ sessionClip = [s \in Sessions |-> NoSession]
  /\ attached = [e \in Events |-> NoSession]
  /\ ready = [e \in Events |-> FALSE]
  /\ eventClip = [e \in Events |-> NoSession]
  /\ hpc = [e \in Events |-> "none"]
  /\ hnow = [e \in Events |-> 0]
  /\ hend = [e \in Events |-> 0]
  /\ timers = [src \in Sources |-> {}]
  /\ seq = [src \in Sources |-> 0]
  /\ armed = {} /\ fired = {}
  /\ pc = [t \in Threads |-> "idle"]
  /\ callSource = [t \in Threads |-> CHOOSE src \in Sources : TRUE]
  /\ target = [t \in Threads |-> NoSession]
  /\ reason = [t \in Threads |-> "none"]
  /\ finalizeMu = Free /\ windowEnd = 0 /\ batch = {} /\ outcome = "closed"
  /\ mode = "up" /\ todo = {} /\ seen = {} /\ listedAt = 0 /\ restarts = 0 /\ faults = 0

-----------------------------------------------------------------------------
(* Timers.  timers[src] is the map's entry (a set with at most one timer)  *)
(* and seq[src] the map's number, 0 when the key is absent.  A deleted     *)
(* entry forgets its number: the next timer of the source is number 1      *)
(* again.  Stop() removes a timer that has not fired; it does not stop a   *)
(* callback the runtime has started.                                       *)

\* scheduleAlarmClipSessionFinalizeBySource: replace the source's timer.
ScheduleFinalize(src, end) ==
  LET tm == [source |-> src, seq |-> seq[src] + 1, at |-> end + SettleSeconds]
  IN  /\ seq' = [seq EXCEPT ![src] = seq[src] + 1]
      /\ timers' = [timers EXCEPT ![src] = {tm}]
      /\ armed' = (armed \ timers[src]) \cup {tm}
      /\ UNCHANGED fired

\* cancelAlarmClipSessionFinalizeBySource: stop the timer, delete both entries.
CancelFinalize(src) ==
  /\ seq' = [seq EXCEPT ![src] = 0]
  /\ timers' = [timers EXCEPT ![src] = {}]
  /\ armed' = armed \ timers[src]
  /\ UNCHANGED fired

\* The runtime starts the callback of a timer that is due.
Fire(tm) ==
  /\ clock >= tm.at
  /\ armed' = armed \ {tm}
  /\ fired' = fired \cup {tm}
  /\ UNCHANGED <<clock, sessionVars, eventVars, handlerVars, timers, seq,
                 callVars, finalizeVars, lifeVars>>

\* handleAlarmClipSessionDeadline, under alarmClipSessionMu: a callback whose
\* number is no longer the map's returns; the other takes the entry out.
HandleDeadline(t, tm) ==
  /\ pc[t] = "idle" /\ t # Main
  /\ fired' = fired \ {tm}
  /\ IF seq[tm.source] = tm.seq
       THEN /\ seq' = [seq EXCEPT ![tm.source] = 0]
            /\ timers' = [timers EXCEPT ![tm.source] = {}]
            /\ pc' = [pc EXCEPT ![t] = "find"]
            /\ callSource' = [callSource EXCEPT ![t] = tm.source]
            /\ reason' = [reason EXCEPT ![t] = "timer"]
       ELSE UNCHANGED <<seq, timers, pc, callSource, reason>>
  /\ UNCHANGED <<clock, sessionVars, eventVars, handlerVars, armed, target,
                 finalizeVars, lifeVars>>

-----------------------------------------------------------------------------
(* Alarms.                                                                 *)

\* The AI callback has stored event e and calls triggerAlarmClipBySourceID:
\* under policy none the event is ready at once, without a clip; under
\* alarm_clip the request reads the clock and goes on to the transaction.  (It
\* applies the policy first, which may close a session: CloseActive.)
\* MaxTime leaves every timer room to become due.
Alarm(e) ==
  /\ mode \in Serving /\ hpc[e] = "none"
  /\ clock + PostSeconds + SettleSeconds <= MaxTime
  /\ \/ /\ hpc' = [hpc EXCEPT ![e] = "done"]
        /\ ready' = [ready EXCEPT ![e] = TRUE]
        /\ UNCHANGED hnow
     \/ /\ hpc' = [hpc EXCEPT ![e] = "open"]
        /\ hnow' = [hnow EXCEPT ![e] = clock]
        /\ UNCHANGED ready
  /\ UNCHANGED <<clock, sessionVars, attached, eventClip, hend, timerVars, callVars,
                 finalizeVars, lifeVars>>

\* The transaction's last two writes: attach the event, hide its clip.
Attach(e, s) ==
  /\ attached' = [attached EXCEPT ![e] = s]
  /\ ready' = [ready EXCEPT ![e] = FALSE]
  /\ eventClip' = [eventClip EXCEPT ![e] = NoSession]

\* No session records the source, or the latest one is past its deadline:
\* the transaction creates session s.
StartSession(e, s) ==
  LET src == EventSource[e]
      hard == hnow[e] + MaxSessionSeconds
      end == Earlier(hnow[e] + PostSeconds, hard)
  IN  /\ hpc[e] = "open" /\ status[s] = "absent"
      /\ \/ Recording(src) = {}
         \/ \E active \in LatestRecording(src) : hnow[e] >= hardDeadlineAt[active]
      /\ status' = [status EXCEPT ![s] = "recording"]
      /\ owner' = [owner EXCEPT ![s] = src]
      /\ startedAt' = [startedAt EXCEPT ![s] = hnow[e]]
      /\ expectedEndAt' = [expectedEndAt EXCEPT ![s] = end]
      /\ hardDeadlineAt' = [hardDeadlineAt EXCEPT ![s] = hard]
      /\ Attach(e, s)
      /\ hend' = [hend EXCEPT ![e] = end]
      /\ hpc' = [hpc EXCEPT ![e] = "schedule"]
      /\ UNCHANGED <<clock, sessionClip, hnow, timerVars, callVars, finalizeVars, lifeVars>>

\* The latest recording session is still before its deadline: the transaction
\* moves its end, never backwards and never past the deadline.
ExtendSession(e, s) ==
  LET capped == Earlier(hnow[e] + PostSeconds, hardDeadlineAt[s])
      end == Later(capped, expectedEndAt[s])
  IN  /\ hpc[e] = "open"
      /\ s \in LatestRecording(EventSource[e])
      /\ hnow[e] < hardDeadlineAt[s]
      /\ expectedEndAt' = [expectedEndAt EXCEPT ![s] = end]
      /\ Attach(e, s)
      /\ hend' = [hend EXCEPT ![e] = end]
      /\ hpc' = [hpc EXCEPT ![e] = "schedule"]
      /\ UNCHANGED <<clock, status, owner, startedAt, hardDeadlineAt, sessionClip, hnow,
                     timerVars, callVars, finalizeVars, lifeVars>>

\* The transaction rolls back: the source is offline, its AI is not running, or
\* the database is busy.  The trigger logs it and returns.
StartOrExtendFails(e) ==
  /\ hpc[e] = "open"
  /\ hpc' = [hpc EXCEPT ![e] = "done"]
  /\ UNCHANGED <<clock, sessionVars, eventVars, hnow, hend, timerVars, callVars,
                 finalizeVars, lifeVars>>

\* The request arms the timer for the end its own transaction computed.
ScheduleAfterCommit(e) ==
  /\ hpc[e] = "schedule"
  /\ ScheduleFinalize(EventSource[e], hend[e])
  /\ hpc' = [hpc EXCEPT ![e] = "done"]
  /\ UNCHANGED <<clock, sessionVars, eventVars, hnow, hend, callVars, finalizeVars, lifeVars>>

-----------------------------------------------------------------------------
(* Sealing.                                                                *)

\* closeActiveAlarmClipSessionForSource: applyRecordingPolicyForSource found
\* another policy, the source offline or its stream inactive.
CloseActive(t, src) ==
  /\ mode \in Serving /\ pc[t] = "idle" /\ t # Main
  /\ CancelFinalize(src)
  /\ pc' = [pc EXCEPT ![t] = "find"]
  /\ callSource' = [callSource EXCEPT ![t] = src]
  /\ reason' = [reason EXCEPT ![t] = "policy"]
  /\ UNCHANGED <<clock, sessionVars, eventVars, handlerVars, target, finalizeVars, lifeVars>>

\* The caller returns: its frame is dropped.
Return(t) ==
  /\ pc' = [pc EXCEPT ![t] = "idle"]
  /\ target' = [target EXCEPT ![t] = NoSession]
  /\ reason' = [reason EXCEPT ![t] = "none"]
  /\ UNCHANGED callSource

Unlock ==
  /\ finalizeMu' = Free /\ windowEnd' = 0 /\ batch' = {} /\ outcome' = "closed"

\* findActiveAlarmClipSessionBySource, then the wait for the mutex.
FindActive(t) ==
  /\ pc[t] = "find"
  /\ \/ \E s \in LatestRecording(callSource[t]) :
          /\ pc' = [pc EXCEPT ![t] = "wait"]
          /\ target' = [target EXCEPT ![t] = s]
          /\ UNCHANGED <<callSource, reason>>
     \/ Recording(callSource[t]) = {} /\ Return(t)
  /\ UNCHANGED <<clock, sessionVars, eventVars, handlerVars, timerVars, finalizeVars, lifeVars>>

Finalizable(s) == status[s] \in Unsealed

\* finalizeAlarmClipSession takes the mutex and reads the session row, whose
\* expected end it keeps; a sealed session is left alone.
ReadSession(t) ==
  /\ pc[t] = "wait" /\ finalizeMu = Free
  /\ IF Finalizable(target[t])
       THEN /\ finalizeMu' = t
            /\ windowEnd' = expectedEndAt[target[t]] + SettleSeconds
            /\ pc' = [pc EXCEPT ![t] =
                        IF status[target[t]] = "recording" THEN "close" ELSE "cancel"]
            /\ UNCHANGED <<batch, outcome, callSource, target, reason>>
       ELSE Return(t) /\ UNCHANGED finalizeVars
  /\ UNCHANGED <<clock, sessionVars, eventVars, handlerVars, timerVars, lifeVars>>

\* Mutant: the session is not marked before its events are read.
MarkClosingForgotten(t) ==
  /\ pc[t] = "close"
  /\ pc' = [pc EXCEPT ![t] = "cancel"]
  /\ UNCHANGED <<clock, sessionVars, eventVars, handlerVars, timerVars, callSource, target,
                 reason, finalizeVars, lifeVars>>

MarkClosing(t) ==
  /\ pc[t] = "close"
  /\ status' = [status EXCEPT ![target[t]] = "closing"]
  /\ pc' = [pc EXCEPT ![t] = "cancel"]
  /\ UNCHANGED <<clock, owner, startedAt, expectedEndAt, hardDeadlineAt, sessionClip,
                 eventVars, handlerVars, timerVars, callSource, target, reason,
                 finalizeVars, lifeVars>>

CancelTimer(t) ==
  /\ pc[t] = "cancel"
  /\ CancelFinalize(owner[target[t]])
  /\ pc' = [pc EXCEPT ![t] = "collect"]
  /\ UNCHANGED <<clock, sessionVars, eventVars, handlerVars, callSource, target, reason,
                 finalizeVars, lifeVars>>

\* Read the session's events, then its source, and copy the buffered files
\* into the session directory: files found ("closed"), none ("closed_empty"),
\* a collect or write error ("failed"), or the source is gone ("orphaned").
CollectFiles(t) ==
  /\ pc[t] = "collect"
  /\ batch' = {e \in Events : attached[e] = target[t]}
  /\ outcome' \in Outcomes
  /\ pc' = [pc EXCEPT ![t] = "publish"]
  /\ UNCHANGED <<clock, sessionVars, eventVars, handlerVars, timerVars, callSource, target,
                 reason, finalizeMu, windowEnd, lifeVars>>

\* clip_path of a session that ends with the given outcome.
ClipOf(s, out) == IF out = "closed" THEN s ELSE NoSession

\* Mutant: only a session that has files answers its events.
PublishOnlyFiles(t) ==
  /\ pc[t] = "publish"
  /\ ready' = [e \in Events |-> ready[e] \/ (e \in batch /\ outcome = "closed")]
  /\ eventClip' = [e \in Events |->
                     IF e \in batch THEN ClipOf(target[t], outcome) ELSE eventClip[e]]
  /\ pc' = [pc EXCEPT ![t] = "seal"]
  /\ UNCHANGED <<clock, sessionVars, attached, handlerVars, timerVars, callSource, target,
                 reason, finalizeVars, lifeVars>>

\* updateAlarmClipResultForSessionEvents, one UPDATE over the batch.
PublishClip(t) ==
  /\ pc[t] = "publish"
  /\ ready' = [e \in Events |-> e \in batch \/ ready[e]]
  /\ eventClip' = [e \in Events |->
                     IF e \in batch THEN ClipOf(target[t], outcome) ELSE eventClip[e]]
  /\ pc' = [pc EXCEPT ![t] = "seal"]
  /\ UNCHANGED <<clock, sessionVars, attached, handlerVars, timerVars, callSource, target,
                 reason, finalizeVars, lifeVars>>

\* On the error paths the result of that UPDATE is thrown away.
PublishIgnored(t) ==
  /\ pc[t] = "publish" /\ outcome \in {"failed", "orphaned"} /\ faults < MaxFaults
  /\ faults' = faults + 1
  /\ pc' = [pc EXCEPT ![t] = "seal"]
  /\ UNCHANGED <<clock, sessionVars, eventVars, handlerVars, timerVars, callSource, target,
                 reason, finalizeVars, mode, todo, seen, listedAt, restarts>>

SealedStatus(out) == IF out = "orphaned" THEN "closed_empty" ELSE out

\* The last update of the session row, then the deferred unlock.
SealSession(t) ==
  /\ pc[t] = "seal"
  /\ status' = [status EXCEPT ![target[t]] = SealedStatus(outcome)]
  /\ sessionClip' = [sessionClip EXCEPT ![target[t]] = ClipOf(target[t], outcome)]
  /\ Unlock /\ Return(t)
  /\ UNCHANGED <<clock, owner, startedAt, expectedEndAt, hardDeadlineAt, eventVars,
                 handlerVars, timerVars, lifeVars>>

\* A database statement of the caller fails: it logs the error and returns.
StatementFails(t) ==
  /\ faults < MaxFaults
  /\ \/ pc[t] = "find" /\ UNCHANGED finalizeVars
     \/ pc[t] = "wait" /\ finalizeMu = Free /\ UNCHANGED finalizeVars
     \/ pc[t] \in {"close", "collect", "seal"} /\ Unlock
     \/ pc[t] = "publish" /\ outcome \in {"closed", "closed_empty"} /\ Unlock
  /\ faults' = faults + 1
  /\ Return(t)
  /\ UNCHANGED <<clock, sessionVars, eventVars, handlerVars, timerVars, mode, todo, seen,
                 listedAt, restarts>>

-----------------------------------------------------------------------------
(* Shutdown, crash and startup.                                            *)

\* Mutant: only sessions that still record are listed.
RecordingOnly == {s \in Sessions : status[s] = "recording"}

UnsealedSessions == {s \in Sessions : status[s] \in Unsealed}

\* Server.Close: stopAllAlarmClipSessionTimers.  The HTTP server still answers.
Shutdown ==
  /\ mode = "up" /\ restarts < MaxRestarts
  /\ armed' = armed \ UNION {timers[src] : src \in Sources}
  /\ timers' = [src \in Sources |-> {}]
  /\ seq' = [src \in Sources |-> 0]
  /\ mode' = "stopping"
  /\ UNCHANGED <<clock, sessionVars, eventVars, handlerVars, fired, callVars, finalizeVars,
                 todo, seen, listedAt, restarts, faults>>

\* closeAllActiveAlarmClipSessionsOnShutdown lists the unsealed sessions (or
\* gives up when the query fails) ...
ListOnShutdown ==
  /\ mode = "stopping"
  /\ \/ mode' = "closing" /\ todo' = UnsealedSessions /\ UNCHANGED faults
     \/ mode' = "closed" /\ faults < MaxFaults /\ faults' = faults + 1 /\ UNCHANGED todo
  /\ UNCHANGED <<clock, sessionVars, eventVars, handlerVars, timerVars, callVars,
                 finalizeVars, seen, listedAt, restarts>>

\* The main goroutine calls finalizeAlarmClipSession and waits for it.
MainFinalizes(s, why) ==
  /\ pc' = [pc EXCEPT ![Main] = "wait"]
  /\ target' = [target EXCEPT ![Main] = s]
  /\ reason' = [reason EXCEPT ![Main] = why]
  /\ UNCHANGED callSource

\* ... and seals them one after the other.
CloseNext(s) ==
  /\ mode = "closing" /\ pc[Main] = "idle" /\ s \in todo
  /\ todo' = todo \ {s}
  /\ MainFinalizes(s, "server_close")
  /\ UNCHANGED <<clock, sessionVars, eventVars, handlerVars, timerVars, finalizeVars, mode,
                 seen, listedAt, restarts, faults>>

CloseReturns ==
  /\ mode = "closing" /\ pc[Main] = "idle" /\ todo = {}
  /\ mode' = "closed"
  /\ UNCHANGED <<clock, sessionVars, eventVars, handlerVars, timerVars, callVars,
                 finalizeVars, todo, seen, listedAt, restarts, faults>>

\* Everything that is not in the database is lost.
LoseMemory ==
  /\ hpc' = [e \in Events |-> IF hpc[e] = "none" THEN "none" ELSE "done"]
  /\ timers' = [src \in Sources |-> {}]
  /\ seq' = [src \in Sources |-> 0]
  /\ armed' = {} /\ fired' = {}
  /\ pc' = [t \in Threads |-> "idle"]
  /\ target' = [t \in Threads |-> NoSession]
  /\ reason' = [t \in Threads |-> "none"]
  /\ Unlock
  /\ mode' = "off" /\ todo' = {} /\ seen' = {} /\ listedAt' = 0
  /\ restarts' = restarts + 1
  /\ UNCHANGED <<clock, sessionVars, eventVars, hnow, hend, callSource, faults>>

\* The process ends after Close() ...
Exit == mode = "closed" /\ LoseMemory

\* ... or dies at any point.
Crash == mode # "off" /\ restarts < MaxRestarts /\ LoseMemory

\* New(): recoverAlarmClipSessionsOnStartup lists the unsealed sessions, unless
\* it is switched off.
Startup ==
  /\ mode = "off"
  /\ IF RecoverOnStartup
       THEN /\ mode' = "recovering"
            /\ todo' = UnsealedSessions
            /\ listedAt' = clock
       ELSE mode' = "up" /\ UNCHANGED <<todo, listedAt>>
  /\ UNCHANGED <<clock, sessionVars, eventVars, handlerVars, timerVars, callVars,
                 finalizeVars, seen, restarts, faults>>

\* Order("... expected_end_at desc, created_at desc") within one source; how the
\* sources follow one another does not matter, and is left open.
NextToRecover(s) ==
  /\ s \in todo
  /\ \A u \in todo \ {s} : owner[u] = owner[s] =>
       \/ expectedEndAt[u] < expectedEndAt[s]
       \/ expectedEndAt[u] = expectedEndAt[s] /\ startedAt[u] <= startedAt[s]

\* A closing session, a second session of its source, a source that is no longer
\* eligible or an end that had passed: seal it.
RecoverBySealing(s) ==
  /\ mode = "recovering" /\ pc[Main] = "idle" /\ NextToRecover(s)
  /\ todo' = todo \ {s}
  /\ seen' = IF status[s] = "recording" THEN seen \cup {owner[s]} ELSE seen
  /\ MainFinalizes(s, "recover")
  /\ UNCHANGED <<clock, sessionVars, eventVars, handlerVars, timerVars, finalizeVars, mode,
                 listedAt, restarts, faults>>

\* The first recording session of an eligible source whose end was ahead when the
\* list was read: arm its timer again.
RecoverByTimer(s) ==
  /\ mode = "recovering" /\ pc[Main] = "idle" /\ NextToRecover(s)
  /\ status[s] = "recording" /\ owner[s] \notin seen
  /\ expectedEndAt[s] + SettleSeconds > listedAt
  /\ ScheduleFinalize(owner[s], expectedEndAt[s])
  /\ todo' = todo \ {s}
  /\ seen' = seen \cup {owner[s]}
  /\ UNCHANGED <<clock, sessionVars, eventVars, handlerVars, callVars, finalizeVars, mode,
                 listedAt, restarts, faults>>

RecoveryDone ==
  /\ mode = "recovering" /\ pc[Main] = "idle" /\ todo = {}
  /\ mode' = "up" /\ seen' = {} /\ listedAt' = 0
  /\ UNCHANGED <<clock, sessionVars, eventVars, handlerVars, timerVars, callVars,
                 finalizeVars, todo, restarts, faults>>

Tick ==
  /\ clock < MaxTime
  /\ clock' = clock + 1
  /\ UNCHANGED <<sessionVars, eventVars, handlerVars, timerVars, callVars, finalizeVars,
                 lifeVars>>

-----------------------------------------------------------------------------
StartOrExtend(e) ==
  \/ \E s \in Sessions : StartSession(e, s) \/ ExtendSession(e, s)
  \/ StartOrExtendFails(e)

\* What the holder of the mutex does next.
Finalize(t) ==
  \/ MarkClosing(t) \/ CancelTimer(t) \/ CollectFiles(t) \/ PublishClip(t)
  \/ SealSession(t)

RecoverNext == \E s \in Sessions : RecoverBySealing(s) \/ RecoverByTimer(s)

Next ==
  \/ Tick
  \/ \E tm \in armed : Fire(tm)
  \/ \E t \in Threads : \E tm \in fired : HandleDeadline(t, tm)
  \/ \E e \in Events : Alarm(e) \/ StartOrExtend(e) \/ ScheduleAfterCommit(e)
  \/ \E t \in Threads : \E src \in Sources : CloseActive(t, src)
  \/ \E t \in Threads :
       \/ FindActive(t) \/ ReadSession(t) \/ Finalize(t)
       \/ PublishIgnored(t) \/ StatementFails(t)
  \/ Shutdown \/ ListOnShutdown \/ CloseReturns \/ Exit \/ Crash
  \/ Startup \/ RecoverNext \/ RecoveryDone
  \/ \E s \in Sessions : CloseNext(s)

Spec == Init /\ [][Next]_vars

\* Goroutines and the runtime's timers are scheduled, a waiter of a Go mutex gets
\* it in the end, the main goroutine runs through Close() and New(), and the
\* process is started again.  Nobody has to raise an alarm, change a policy,
\* fail or crash.
Fairness ==
  /\ WF_vars(Tick)
  /\ \A e \in Events : WF_vars(StartOrExtend(e)) /\ WF_vars(ScheduleAfterCommit(e))
  /\ WF_vars(\E tm \in armed : Fire(tm))
  /\ SF_vars(\E t \in Threads : \E tm \in fired : HandleDeadline(t, tm))
  /\ \A t \in Threads :
       WF_vars(FindActive(t)) /\ SF_vars(ReadSession(t)) /\ WF_vars(Finalize(t))
  /\ WF_vars(ListOnShutdown) /\ WF_vars(CloseReturns) /\ WF_vars(Exit)
  /\ WF_vars(\E s \in Sessions : CloseNext(s))
  /\ WF_vars(Startup) /\ WF_vars(RecoverNext) /\ WF_vars(RecoveryDone)

FairSpec == Spec /\ Fairness

-----------------------------------------------------------------------------
(* What must hold.                                                         *)

\* Two sessions that record the same source were never alive together: the
\* later one starts at or after the hard deadline of the earlier one.  So a
\* source has one session at a time for alarms to extend (the look-up and the
\* insert of startOrExtendAlarmClipSessionBySourceID, with stale clocks).
RecordingDisjoint ==
  \A s, u \in Sessions :
    s # u /\ status[s] = "recording" /\ status[u] = "recording" /\ owner[s] = owner[u]
      => \/ hardDeadlineAt[s] <= startedAt[u]
         \/ hardDeadlineAt[u] <= startedAt[s]

\* An event is not playable while its session can still be extended
\* (backend-api-v1.md: clip_ready stays false until the session is sealed).
ReadyMeansSealing ==
  \A e \in Events : ready[e] /\ attached[e] # NoSession => status[attached[e]] # "recording"

\* A session closed with a clip has published that clip to every event that was
\* ever attached to it, whatever attached late, failed or crashed meanwhile.
ClosedMeansPublished ==
  \A s \in Sessions : status[s] = "closed" =>
    /\ sessionClip[s] = s
    /\ \A e \in Events : attached[e] = s => ready[e] /\ eventClip[e] = s

\* Every way to seal a session leaves its events ready, with the session's
\* clip.  It needs MaxFaults = 0: the error paths ignore a failing update.
SealedMeansReady ==
  \A s \in Sessions : status[s] \in Terminal =>
    \A e \in Events : attached[e] = s => ready[e] /\ eventClip[e] = sessionClip[s]

\* What a client sees of the session rows.
Stage ==
  [s \in Sessions |-> IF status[s] = "closed" THEN "clip"
                      ELSE IF status[s] \in Terminal THEN "void" ELSE status[s]]

Promise == INSTANCE AlarmClipPromise WITH
  stage <- Stage, member <- attached, clip <- eventClip

\* Timers, goroutines, the mutex and restarts implement the promise of the event
\* API: every step of the code is one of its steps or invisible to it.
ImplementsPromise == Promise!Spec

\* The inductive strengthening of ReadyMeansSealing and ClosedMeansPublished:
\* the mutex has one holder, and while it works its session's status is what the
\* step before left ...
HolderInv ==
  \A t \in Threads :
    /\ pc[t] \in Inside => finalizeMu = t
    /\ pc[t] = "close" => status[target[t]] = "recording"
    /\ pc[t] \in Inside \ {"close"} => status[target[t]] = "closing"

\* ... so nothing joins the session after its events were read, and they have
\* its clip before it is sealed ...
BatchInv ==
  \A t \in Threads :
    /\ pc[t] \in {"publish", "seal"} => batch = {e \in Events : attached[e] = target[t]}
    /\ pc[t] = "seal" /\ outcome = "closed" =>
         \A e \in batch : ready[e] /\ eventClip[e] = target[t]

\* ... and an event is attached once, to a session that exists.
AttachInv ==
  \A e \in Events :
    /\ attached[e] # NoSession => status[attached[e]] # "absent"
    /\ hpc[e] \in {"none", "open"} => attached[e] = NoSession /\ ~ready[e]

IInv == TypeOK /\ HolderInv /\ BatchInv /\ AttachInv /\ ReadyMeansSealing /\ ClosedMeansPublished

\* A session that is sealed stays as it was sealed, although a timer, a policy
\* change, the shutdown and the recovery may all finalize it.
SealedForever ==
  [][\A s \in Sessions : status[s] \in Terminal =>
       status'[s] = status[s] /\ sessionClip'[s] = sessionClip[s]
       /\ expectedEndAt'[s] = expectedEndAt[s]]_vars

\* A session being closed is sealed in the end, across crashes: the holder of
\* the mutex goes through, or the next startup finds it.
ClosingIsSealed ==
  \A s \in Sessions : status[s] = "closing" ~> status[s] \in Terminal

\* Contradicted (a doc promises it): each session reaches its end.
EverySessionSealed ==
  \A s \in Sessions : status[s] = "recording" ~> status[s] \in Terminal

\* Contradicted: once recovery has gone through its list, a session that is
\* still recording has its timer back (or its callback is already running).
RecoveryRebuildsTimers ==
  mode = "recovering" /\ todo = {} /\ pc[Main] = "idle" =>
    \A src \in Sources : Recording(src) # {} =>
      \/ \E tm \in armed \cup fired : tm.source = src
      \/ \E t \in Threads : pc[t] # "idle" /\ callSource[t] = src
=============================================================================
