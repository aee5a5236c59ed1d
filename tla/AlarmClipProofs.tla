--------------------------- MODULE AlarmClipProofs ---------------------------
(* Theorems about AlarmClipSession, for every value of its constants: types, *)
(* the safety invariants, and that it implements AlarmClipPromise - with     *)
(* crashes, restarts, failing statements and any number of goroutines.       *)
EXTENDS AlarmClipSession, TLAPS
-----------------------------------------------------------------------------
(* Types.                                                                    *)

\* The initial state is typed.
LEMMA InitType == Init => TypeOK
  BY SetsAssumption DEF Init, TypeOK, Typed, CallersHaveSession, Inside, Serving, Outcomes, Unsealed, Terminal

\* Every step keeps the types.
LEMMA NextTyped == TypeOK /\ [Next]_vars => Typed'
<1> SUFFICES ASSUME TypeOK, [Next]_vars PROVE Typed'
  OBVIOUS
<1> USE SetsAssumption, TimesAssumption
<1> USE DEF TypeOK, Typed, sessionVars, eventVars, handlerVars, timerVars, callVars, finalizeVars, lifeVars
<1>1. CASE Tick
  BY <1>1 DEF Tick
<1>2. ASSUME NEW tm \in armed, Fire(tm) PROVE Typed'
  BY <1>2 DEF Fire
<1>3. ASSUME NEW t \in Threads, NEW tm \in fired, HandleDeadline(t, tm) PROVE Typed'
  <2>1. tm.source \in Sources
    BY DEF Timer
  <2>2. CASE seq[tm.source] = tm.seq
    <3>1. /\ seq' = [seq EXCEPT ![tm.source] = 0]
          /\ timers' = [timers EXCEPT ![tm.source] = {}]
          /\ pc' = [pc EXCEPT ![t] = "find"]
          /\ callSource' = [callSource EXCEPT ![t] = tm.source]
          /\ reason' = [reason EXCEPT ![t] = "timer"]
          /\ fired' = fired \ {tm}
      BY <1>3, <2>2 DEF HandleDeadline
    <3>2. /\ seq' \in [Sources -> Nat]
          /\ timers' \in [Sources -> SUBSET Timer]
          /\ callSource' \in [Threads -> Sources]
      BY <2>1, <3>1
    <3> QED BY <1>3, <3>1, <3>2 DEF HandleDeadline
  <2>3. CASE seq[tm.source] # tm.seq
    BY <1>3, <2>1, <2>3 DEF HandleDeadline
  <2> QED BY <2>2, <2>3
<1>4. ASSUME NEW e \in Events, Alarm(e) PROVE Typed'
  <2>1. ready' \in [Events -> BOOLEAN]
    BY <1>4 DEF Alarm
  <2>2. hpc' \in [Events -> {"none", "open", "schedule", "done"}]
    BY <1>4 DEF Alarm
  <2>3. hnow' \in [Events -> Int]
    BY <1>4 DEF Alarm
  <2> QED BY <1>4, <2>1, <2>2, <2>3 DEF Alarm
<1>5. ASSUME NEW e \in Events, NEW s \in Sessions, StartSession(e, s) PROVE Typed'
  BY <1>5 DEF StartSession, Attach, Earlier, Unsealed
<1>6. ASSUME NEW e \in Events, NEW s \in Sessions, ExtendSession(e, s) PROVE Typed'
  BY <1>6 DEF ExtendSession, Attach, Earlier, Later
<1>7. ASSUME NEW e \in Events, StartOrExtendFails(e) PROVE Typed'
  BY <1>7 DEF StartOrExtendFails
<1>8. ASSUME NEW e \in Events, ScheduleAfterCommit(e) PROVE Typed'
  BY <1>8 DEF ScheduleAfterCommit, ScheduleFinalize, Timer
<1>9. ASSUME NEW t \in Threads, NEW src \in Sources, CloseActive(t, src) PROVE Typed'
  BY <1>9 DEF CloseActive, CancelFinalize
<1>10. ASSUME NEW t \in Threads, FindActive(t) PROVE Typed'
  <2>1. CASE Recording(callSource[t]) = {} /\ Return(t)
    BY <1>10, <2>1 DEF FindActive, Return
  <2>2. ASSUME NEW s \in LatestRecording(callSource[t]), pc' = [pc EXCEPT ![t] = "wait"],
               target' = [target EXCEPT ![t] = s], UNCHANGED <<callSource, reason>>
        PROVE Typed'
    <3>1. s \in Sessions
      BY DEF LatestRecording, Recording
    <3> QED BY <1>10, <2>2, <3>1 DEF FindActive
  <2> QED BY <1>10, <2>1, <2>2 DEF FindActive
<1>11. ASSUME NEW t \in Threads, ReadSession(t) PROVE Typed'
  <2>1. CASE Finalizable(target[t])
    <3>1. target[t] \in Sessions
      BY <1>11 DEF ReadSession, CallersHaveSession
    <3>2. expectedEndAt[target[t]] + SettleSeconds \in Int
      BY <3>1
    <3> QED BY <1>11, <2>1, <3>1, <3>2 DEF ReadSession, Inside
  <2>2. CASE ~Finalizable(target[t])
    BY <1>11, <2>2 DEF ReadSession, Return
  <2> QED BY <2>1, <2>2
<1>12. ASSUME NEW t \in Threads, MarkClosing(t) PROVE Typed'
  BY <1>12 DEF MarkClosing, Inside, Unsealed
<1>13. ASSUME NEW t \in Threads, CancelTimer(t) PROVE Typed'
  BY <1>13 DEF CancelTimer, CancelFinalize, Inside
<1>14. ASSUME NEW t \in Threads, CollectFiles(t) PROVE Typed'
  BY <1>14 DEF CollectFiles, Inside
<1>15. ASSUME NEW t \in Threads, PublishClip(t) PROVE Typed'
  BY <1>15 DEF PublishClip, ClipOf, Inside
<1>16. ASSUME NEW t \in Threads, SealSession(t) PROVE Typed'
  <2>1. SealedStatus(outcome) \in Terminal
    BY DEF SealedStatus, Outcomes, Terminal
  <2>2. ClipOf(target[t], outcome) \in Sessions \cup {NoSession}
    BY DEF ClipOf
  <2>3. status' \in [Sessions -> {"absent"} \cup Unsealed \cup Terminal]
    BY <1>16, <2>1 DEF SealSession
  <2>4. sessionClip' \in [Sessions -> Sessions \cup {NoSession}]
    BY <1>16, <2>2 DEF SealSession
  <2> QED BY <1>16, <2>3, <2>4 DEF SealSession, Return, Unlock, Outcomes
<1>17. ASSUME NEW t \in Threads, PublishIgnored(t) PROVE Typed'
  BY <1>17 DEF PublishIgnored, Inside
<1>18. ASSUME NEW t \in Threads, StatementFails(t) PROVE Typed'
  BY <1>18 DEF StatementFails, Return, Unlock, Outcomes
<1>19. CASE Shutdown
  BY <1>19 DEF Shutdown, Serving
<1>20. CASE ListOnShutdown
  BY <1>20 DEF ListOnShutdown, UnsealedSessions, Serving
<1>21. CASE CloseReturns
  BY <1>21 DEF CloseReturns, Serving
<1>22. CASE Exit \/ Crash
  BY <1>22 DEF Exit, Crash, LoseMemory, Unlock, Outcomes
<1>23. CASE Startup
  BY <1>23 DEF Startup, UnsealedSessions, Serving
<1>24. ASSUME NEW s \in Sessions, RecoverBySealing(s) PROVE Typed'
  BY <1>24 DEF RecoverBySealing, MainFinalizes
<1>25. ASSUME NEW s \in Sessions, RecoverByTimer(s) PROVE Typed'
  BY <1>25 DEF RecoverByTimer, ScheduleFinalize, Timer
<1>26. CASE RecoveryDone
  BY <1>26 DEF RecoveryDone, Serving
<1>27. ASSUME NEW s \in Sessions, CloseNext(s) PROVE Typed'
  BY <1>27 DEF CloseNext, MainFinalizes
<1>28. CASE UNCHANGED vars
  BY <1>28 DEF vars
<1> QED
  BY <1>1, <1>2, <1>3, <1>4, <1>5, <1>6, <1>7, <1>8, <1>9, <1>10, <1>11, <1>12, <1>13, <1>14,
     <1>15, <1>16, <1>17, <1>18, <1>19, <1>20, <1>21, <1>22, <1>23, <1>24, <1>25, <1>26,
     <1>27, <1>28 DEF Next, StartOrExtend, Finalize, RecoverNext

\* Whoever is inside finalize has a session.
LEMMA NextCallers == TypeOK /\ [Next]_vars => CallersHaveSession'
<1> SUFFICES ASSUME TypeOK, [Next]_vars PROVE CallersHaveSession'
  OBVIOUS
<1> USE SetsAssumption DEF CallersHaveSession, callVars, Inside
<1>0. /\ pc \in [Threads -> {"idle", "find", "wait"} \cup Inside]
      /\ target \in [Threads -> Sessions \cup {NoSession}]
      /\ todo \subseteq Sessions
      /\ CallersHaveSession
  BY DEF TypeOK, Typed
<1>1. ASSUME UNCHANGED callVars PROVE CallersHaveSession'
  BY <1>0, <1>1
<1>2. ASSUME NEW t \in Threads, NEW tm \in fired, HandleDeadline(t, tm)
      PROVE CallersHaveSession'
  BY <1>0, <1>2 DEF HandleDeadline
<1>3. ASSUME NEW t \in Threads, NEW src \in Sources, CloseActive(t, src)
      PROVE CallersHaveSession'
  BY <1>0, <1>3 DEF CloseActive
<1>4. ASSUME NEW t \in Threads, FindActive(t) PROVE CallersHaveSession'
  BY <1>0, <1>4 DEF FindActive, Return, LatestRecording, Recording
<1>5. ASSUME NEW t \in Threads, Return(t) PROVE CallersHaveSession'
  BY <1>0, <1>5 DEF Return
<1>6. ASSUME NEW t \in Threads, ReadSession(t) PROVE CallersHaveSession'
  BY <1>0, <1>5, <1>6 DEF ReadSession
<1>7. ASSUME NEW t \in Threads, Finalize(t) \/ PublishIgnored(t) \/ StatementFails(t)
      PROVE CallersHaveSession'
  BY <1>0, <1>5, <1>7 DEF Finalize, MarkClosing, CancelTimer, CollectFiles, PublishClip,
       PublishIgnored, SealSession, StatementFails
<1>8. CASE Exit \/ Crash
  BY <1>0, <1>8 DEF Exit, Crash, LoseMemory
<1>9. ASSUME NEW s \in Sessions, CloseNext(s) \/ RecoverBySealing(s)
      PROVE CallersHaveSession'
  BY <1>0, <1>9 DEF CloseNext, RecoverBySealing, MainFinalizes
<1>10. ASSUME NEW e \in Events, Alarm(e) \/ StartOrExtend(e) \/ ScheduleAfterCommit(e)
       PROVE CallersHaveSession'
  BY <1>1, <1>10 DEF Alarm, StartOrExtend, StartSession, ExtendSession, StartOrExtendFails,
       ScheduleAfterCommit
<1> QED
  BY <1>1, <1>2, <1>3, <1>4, <1>6, <1>7, <1>8, <1>9, <1>10
     DEF Next, Tick, Fire, Shutdown, ListOnShutdown, CloseReturns, Startup, RecoverNext,
       RecoverByTimer, RecoveryDone, vars

\* Type correctness: every variable keeps its type, and a goroutine that waits for
\* or holds alarmClipFinalizeMu carries an existing session.
THEOREM TypeCorrect == Spec => []TypeOK
<1>1. TypeOK /\ [Next]_vars => TypeOK'
  BY NextTyped, NextCallers DEF TypeOK
<1> QED
  BY <1>1, InitType, PTL DEF Spec
-----------------------------------------------------------------------------
(* Which steps write the session rows.                                     *)

\* Outside an alarm's transaction, MarkClosing and SealSession no step writes a
\* row of the session table.
LEMMA SessionWriters ==
  ASSUME [Next]_vars
  PROVE  \/ \E e \in Events, s \in Sessions : StartSession(e, s) \/ ExtendSession(e, s)
         \/ \E t \in Threads : MarkClosing(t) \/ SealSession(t)
         \/ UNCHANGED sessionVars
<1>1. ASSUME NEW e \in Events, Alarm(e) \/ StartOrExtend(e) \/ ScheduleAfterCommit(e)
      PROVE  \/ \E s \in Sessions : StartSession(e, s) \/ ExtendSession(e, s)
             \/ UNCHANGED sessionVars
  BY <1>1 DEF Alarm, StartOrExtend, StartOrExtendFails, ScheduleAfterCommit
<1>2. ASSUME NEW t \in Threads,
             \/ FindActive(t) \/ ReadSession(t) \/ Finalize(t)
             \/ PublishIgnored(t) \/ StatementFails(t)
      PROVE  MarkClosing(t) \/ SealSession(t) \/ UNCHANGED sessionVars
  BY <1>2 DEF FindActive, ReadSession, Finalize, CancelTimer, CollectFiles, PublishClip,
       PublishIgnored, StatementFails
<1>3. ASSUME NEW s \in Sessions, RecoverBySealing(s) \/ RecoverByTimer(s) \/ CloseNext(s)
      PROVE  UNCHANGED sessionVars
  BY <1>3 DEF RecoverBySealing, RecoverByTimer, CloseNext
<1>4. ASSUME NEW tm \in armed, Fire(tm) PROVE UNCHANGED sessionVars
  BY <1>4 DEF Fire
<1>5. ASSUME NEW t \in Threads, NEW tm \in fired, HandleDeadline(t, tm)
      PROVE  UNCHANGED sessionVars
  BY <1>5 DEF HandleDeadline
<1>6. ASSUME NEW t \in Threads, NEW src \in Sources, CloseActive(t, src)
      PROVE  UNCHANGED sessionVars
  BY <1>6 DEF CloseActive
<1>7. ASSUME \/ Tick \/ Shutdown \/ ListOnShutdown \/ CloseReturns \/ Exit \/ Crash
             \/ Startup \/ RecoveryDone \/ UNCHANGED vars
      PROVE  UNCHANGED sessionVars
  BY <1>7 DEF Tick, Shutdown, ListOnShutdown, CloseReturns, Exit, Crash, LoseMemory, Startup,
       RecoveryDone, vars
<1> QED
  BY <1>1, <1>2, <1>3, <1>4, <1>5, <1>6, <1>7 DEF Next, RecoverNext

-----------------------------------------------------------------------------
(* One session at a time.                                                  *)

\* The hard deadline of a recording session is the one it started with.
DeadlineInv ==
  \A s \in Sessions : status[s] = "recording" =>
    hardDeadlineAt[s] = startedAt[s] + MaxSessionSeconds

DisjointInv == TypeOK /\ DeadlineInv /\ RecordingDisjoint

\* Steps that start no session cannot make two overlap.
LEMMA DisjointSameRows ==
  ASSUME DisjointInv,
         UNCHANGED <<owner, startedAt, hardDeadlineAt>>,
         \A s \in Sessions : status'[s] = status[s] \/ status'[s] # "recording"
  PROVE  DeadlineInv' /\ RecordingDisjoint'
  BY DEF DisjointInv, DeadlineInv, RecordingDisjoint

\* A session that starts begins after the deadlines of those before it.
LEMMA DisjointStart ==
  ASSUME DisjointInv, NEW e \in Events, NEW s \in Sessions, StartSession(e, s)
  PROVE  DeadlineInv' /\ RecordingDisjoint'
<1> DEFINE src == EventSource[e]
           now == hnow[e]
<1> USE TimesAssumption, SetsAssumption
<1>1. /\ src \in Sources /\ now \in Int /\ MaxSessionSeconds \in Nat \ {0}
      /\ startedAt \in [Sessions -> Int] /\ hardDeadlineAt \in [Sessions -> Int]
      /\ owner \in [Sessions -> Sources]
      /\ status \in [Sessions -> {"absent"} \cup Unsealed \cup Terminal]
  BY DEF DisjointInv, TypeOK, Typed
<1>2. /\ status[s] = "absent"
      /\ status' = [status EXCEPT ![s] = "recording"]
      /\ owner' = [owner EXCEPT ![s] = src]
      /\ startedAt' = [startedAt EXCEPT ![s] = now]
      /\ hardDeadlineAt' = [hardDeadlineAt EXCEPT ![s] = now + MaxSessionSeconds]
  BY DEF StartSession
<1>3. DeadlineInv'
  BY <1>1, <1>2 DEF DisjointInv, DeadlineInv
<1>4. ASSUME NEW u \in Sessions, status[u] = "recording", owner[u] = src
      PROVE  hardDeadlineAt[u] <= now
  <2>1. u \in Recording(src)
    BY <1>4 DEF Recording
  <2>2. PICK active \in LatestRecording(src) : now >= hardDeadlineAt[active]
    BY <2>1 DEF StartSession
  <2>3. /\ active \in Sessions /\ status[active] = "recording" /\ owner[active] = src
        /\ startedAt[u] <= startedAt[active]
    BY <2>1, <2>2 DEF LatestRecording, Recording
  <2>4. CASE u = active
    BY <2>2, <2>4
  <2>5. CASE u # active
    <3>1. \/ hardDeadlineAt[u] <= startedAt[active]
          \/ hardDeadlineAt[active] <= startedAt[u]
      BY <1>4, <2>3, <2>5 DEF DisjointInv, RecordingDisjoint
    <3>2. /\ hardDeadlineAt[active] = startedAt[active] + MaxSessionSeconds
          /\ hardDeadlineAt[u] = startedAt[u] + MaxSessionSeconds
      BY <1>4, <2>3 DEF DisjointInv, DeadlineInv
    <3> QED BY <1>1, <2>2, <2>3, <3>1, <3>2
  <2> QED BY <2>4, <2>5
<1>5. RecordingDisjoint'
  BY <1>1, <1>2, <1>4 DEF DisjointInv, RecordingDisjoint
<1> QED BY <1>3, <1>5

\* No two sessions that record the same source ever overlap, whatever the alarms,
\* delays, restarts and failures: "started_at desc" always finds the one that an
\* alarm may extend.
THEOREM OneSessionAtATime == Spec => []RecordingDisjoint
<1>1. Init => DeadlineInv /\ RecordingDisjoint
  BY DEF Init, DeadlineInv, RecordingDisjoint
<1>2. DisjointInv /\ TypeOK' /\ [Next]_vars => DisjointInv'
  <2> SUFFICES ASSUME DisjointInv, [Next]_vars PROVE DeadlineInv' /\ RecordingDisjoint'
    BY DEF DisjointInv
  <2>0. TypeOK
    BY DEF DisjointInv
  <2>1. ASSUME NEW e \in Events, NEW s \in Sessions, StartSession(e, s)
        PROVE  DeadlineInv' /\ RecordingDisjoint'
    BY <2>1, DisjointStart
  <2>2. ASSUME UNCHANGED <<status, owner, startedAt, hardDeadlineAt>>
        PROVE  DeadlineInv' /\ RecordingDisjoint'
    BY <2>2, DisjointSameRows
  <2>3. ASSUME NEW t \in Threads, MarkClosing(t)
        PROVE  DeadlineInv' /\ RecordingDisjoint'
    <3>1. /\ UNCHANGED <<owner, startedAt, hardDeadlineAt>>
          /\ \A s \in Sessions : status'[s] = status[s] \/ status'[s] # "recording"
      BY <2>0, <2>3 DEF MarkClosing, TypeOK, Typed
    <3> QED BY <3>1, DisjointSameRows
  <2>4. ASSUME NEW t \in Threads, SealSession(t)
        PROVE  DeadlineInv' /\ RecordingDisjoint'
    <3>1. SealedStatus(outcome) # "recording"
      BY <2>0 DEF SealedStatus, TypeOK, Typed, Outcomes
    <3>2. /\ UNCHANGED <<owner, startedAt, hardDeadlineAt>>
          /\ \A s \in Sessions : status'[s] = status[s] \/ status'[s] # "recording"
      BY <2>0, <2>4, <3>1 DEF SealSession, TypeOK, Typed
    <3> QED BY <3>2, DisjointSameRows
  <2> QED
    BY <2>1, <2>2, <2>3, <2>4, SessionWriters DEF ExtendSession, sessionVars
<1> QED
  BY <1>1, <1>2, InitType, TypeCorrect, PTL DEF Spec, DisjointInv

-----------------------------------------------------------------------------
(* One clip per session, shown when it is sealed.                          *)

\* With nothing recorded and nobody inside, the invariant holds.
LEMMA InitIInv == Init => IInv
  BY InitType DEF Init, IInv, HolderInv, BatchInv, AttachInv, ReadyMeansSealing,
     ClosedMeansPublished, Inside

\* The clock, the timers and the life cycle are not part of the invariant.
LEMMA IInvFrame ==
  ASSUME IInv, TypeOK',
         UNCHANGED <<sessionVars, eventVars, hpc, pc, target, finalizeVars>>
  PROVE  IInv'
  BY DEF IInv, sessionVars, eventVars, finalizeVars, HolderInv, BatchInv, AttachInv,
     ReadyMeansSealing, ClosedMeansPublished

\* A request that is through with its transaction ends.
LEMMA IInvRequestEnds ==
  ASSUME IInv, TypeOK', NEW e \in Events, hpc' = [hpc EXCEPT ![e] = "done"],
         UNCHANGED <<sessionVars, eventVars, pc, target, finalizeVars>>
  PROVE  IInv'
  BY DEF IInv, TypeOK, Typed, sessionVars, eventVars, finalizeVars, HolderInv, BatchInv,
     AttachInv, ReadyMeansSealing, ClosedMeansPublished

\* A goroutine moves about outside the mutex.
LEMMA IInvOutside ==
  ASSUME IInv, TypeOK', NEW t \in Threads, pc[t] \notin Inside, pc'[t] \notin Inside,
         \A u \in Threads \ {t} : pc'[u] = pc[u] /\ target'[u] = target[u],
         UNCHANGED <<sessionVars, eventVars, hpc, finalizeVars>>
  PROVE  IInv'
<1> USE DEF IInv, sessionVars, eventVars, finalizeVars, Inside
<1>1. HolderInv'
  BY DEF HolderInv
<1>2. BatchInv'
  BY DEF BatchInv
<1>3. AttachInv' /\ ReadyMeansSealing' /\ ClosedMeansPublished'
  BY DEF AttachInv, ReadyMeansSealing, ClosedMeansPublished
<1> QED BY <1>1, <1>2, <1>3

\* A new alarm has no session yet.
LEMMA IInvAlarm ==
  ASSUME IInv, TypeOK', NEW e \in Events, Alarm(e)
  PROVE  IInv'
<1> USE DEF IInv, TypeOK, Typed, Alarm, sessionVars, callVars, finalizeVars
<1>1. /\ attached' = attached /\ eventClip' = eventClip /\ status' = status
      /\ \A d \in Events : ready[d] => ready'[d]
      /\ \A d \in Events \ {e} : ready'[d] = ready[d] /\ hpc'[d] = hpc[d]
      /\ hpc'[e] \in {"done", "open"} /\ (hpc'[e] = "open" => ready' = ready)
      /\ hpc[e] = "none"
  OBVIOUS
<1>2. HolderInv'
  BY <1>1 DEF HolderInv
<1>3. BatchInv'
  BY <1>1 DEF BatchInv
<1>4. AttachInv' /\ ReadyMeansSealing'
  BY <1>1 DEF AttachInv, ReadyMeansSealing
<1>5. ClosedMeansPublished'
  BY <1>1 DEF ClosedMeansPublished
<1> QED BY <1>2, <1>3, <1>4, <1>5

\* An event is given to a session that records, so no finalizer has read its events.
LEMMA IInvAttach ==
  ASSUME IInv, TypeOK', NEW e \in Events, NEW s \in Sessions,
         hpc[e] = "open", hpc' = [hpc EXCEPT ![e] = "schedule"], Attach(e, s),
         \/ status[s] = "absent" /\ status' = [status EXCEPT ![s] = "recording"]
         \/ status[s] = "recording" /\ status' = status,
         UNCHANGED <<sessionClip, callVars, finalizeVars>>
  PROVE  IInv'
<1> USE DEF IInv, TypeOK, Typed, callVars, finalizeVars
<1>1. /\ status'[s] = "recording" /\ status[s] \in {"absent", "recording"}
      /\ \A u \in Sessions \ {s} : status'[u] = status[u]
      /\ attached[e] = NoSession /\ attached' = [attached EXCEPT ![e] = s]
      /\ ~ready[e] /\ ready'[e] = FALSE /\ NoSession \notin Sessions
      /\ \A d \in Events \ {e} : /\ ready'[d] = ready[d] /\ eventClip'[d] = eventClip[d]
                                  /\ hpc'[d] = hpc[d] /\ attached'[d] = attached[d]
  BY SetsAssumption DEF Attach, AttachInv
<1>2. HolderInv'
  BY <1>1 DEF HolderInv, CallersHaveSession, Inside
<1>3. BatchInv'
  <2> SUFFICES ASSUME NEW t \in Threads, pc[t] \in {"publish", "seal"}
               PROVE  /\ batch = {d \in Events : attached'[d] = target[t]}
                      /\ pc[t] = "seal" /\ outcome = "closed" =>
                           \A d \in batch : ready'[d] /\ eventClip'[d] = target[t]
    BY DEF BatchInv
  <2>1. target[t] \in Sessions /\ target[t] # s
    BY <1>1 DEF HolderInv, CallersHaveSession, Inside
  <2>2. e \notin batch
    BY <1>1, <2>1 DEF BatchInv
  <2> QED BY <1>1, <2>1, <2>2 DEF BatchInv
<1>4. AttachInv'
  BY <1>1 DEF AttachInv
<1>5. ReadyMeansSealing'
  BY <1>1 DEF ReadyMeansSealing, AttachInv
<1>6. ClosedMeansPublished'
  BY <1>1 DEF ClosedMeansPublished
<1> QED BY <1>2, <1>3, <1>4, <1>5, <1>6

-----------------------------------------------------------------------------
(* The steps of the goroutine that holds alarmClipFinalizeMu.              *)

\* The mutex has one holder.
LEMMA HolderAlone ==
  ASSUME IInv, NEW t \in Threads, pc[t] \in Inside \/ finalizeMu = Free
  PROVE  \A u \in Threads \ {t} : pc[u] \notin Inside
  BY SetsAssumption DEF IInv, HolderInv

\* What is left to show when the holder t goes on: the clauses about t, and
\* those about the rows.
LEMMA IInvHolder ==
  ASSUME IInv, TypeOK', NEW t \in Threads, pc[t] \in Inside \/ finalizeMu = Free,
         \A u \in Threads \ {t} : pc'[u] = pc[u],
         pc'[t] \in Inside => finalizeMu' = t,
         pc'[t] = "close" => status'[target'[t]] = "recording",
         pc'[t] \in Inside \ {"close"} => status'[target'[t]] = "closing",
         pc'[t] \in {"publish", "seal"} => batch' = {e \in Events : attached'[e] = target'[t]},
         pc'[t] = "seal" /\ outcome' = "closed" =>
           \A e \in batch' : ready'[e] /\ eventClip'[e] = target'[t]
  PROVE  HolderInv' /\ BatchInv'
<1>1. \A u \in Threads \ {t} : pc'[u] \notin Inside
  BY HolderAlone
<1>2. HolderInv'
  BY <1>1 DEF HolderInv, Inside
<1>3. BatchInv'
  BY <1>1 DEF BatchInv, Inside
<1> QED BY <1>2, <1>3

\* A step of the holder that leaves the rows alone.
LEMMA SameRows ==
  ASSUME IInv, UNCHANGED <<sessionVars, eventVars, hpc>>
  PROVE  AttachInv' /\ ReadyMeansSealing' /\ ClosedMeansPublished'
  BY DEF IInv, sessionVars, eventVars, AttachInv, ReadyMeansSealing, ClosedMeansPublished

\* The mutex is taken, and the session read under it.
LEMMA IInvReadSession ==
  ASSUME IInv, TypeOK', NEW t \in Threads, ReadSession(t)
  PROVE  IInv'
<1> USE DEF IInv, TypeOK, Typed, ReadSession, handlerVars
<1>1. AttachInv' /\ ReadyMeansSealing' /\ ClosedMeansPublished'
  BY SameRows
<1>2. CASE Finalizable(target[t])
  <2>1. /\ finalizeMu' = t /\ target' = target /\ status' = status
        /\ pc' = [pc EXCEPT ![t] = IF status[target[t]] = "recording" THEN "close" ELSE "cancel"]
        /\ status[target[t]] \in {"recording", "closing"}
    BY <1>2 DEF Finalizable, Unsealed, sessionVars
  <2>2. HolderInv' /\ BatchInv'
    BY <2>1, IInvHolder DEF Inside
  <2> QED BY <1>1, <2>2
<1>3. CASE ~Finalizable(target[t])
  <2>1. /\ pc' = [pc EXCEPT ![t] = "idle"] /\ finalizeMu = Free
    BY <1>3 DEF Return
  <2>2. HolderInv' /\ BatchInv'
    BY <2>1, IInvHolder DEF Inside
  <2> QED BY <1>1, <2>2
<1> QED BY <1>2, <1>3

\* Once closing, the session takes no event, so those read stay all.
LEMMA IInvMarkClosing ==
  ASSUME IInv, TypeOK', NEW t \in Threads, MarkClosing(t)
  PROVE  IInv'
<1> USE DEF IInv, TypeOK, Typed, MarkClosing, eventVars, handlerVars, finalizeVars
<1>1. /\ pc[t] = "close" /\ pc' = [pc EXCEPT ![t] = "cancel"] /\ finalizeMu' = finalizeMu
      /\ target[t] \in Sessions /\ target' = target
      /\ status' = [status EXCEPT ![target[t]] = "closing"]
      /\ status[target[t]] = "recording" /\ finalizeMu = t
  BY DEF HolderInv, CallersHaveSession, Inside
<1>2. HolderInv' /\ BatchInv'
  BY <1>1, IInvHolder DEF Inside
<1>3. AttachInv' /\ ReadyMeansSealing' /\ ClosedMeansPublished'
  BY <1>1 DEF AttachInv, ReadyMeansSealing, ClosedMeansPublished
<1> QED BY <1>2, <1>3

\* Cancelling a timer leaves the rows alone.
LEMMA IInvCancelTimer ==
  ASSUME IInv, TypeOK', NEW t \in Threads, CancelTimer(t)
  PROVE  IInv'
<1> USE DEF IInv, TypeOK, Typed, CancelTimer, sessionVars, handlerVars, finalizeVars
<1>1. /\ pc[t] = "cancel" /\ pc' = [pc EXCEPT ![t] = "collect"]
      /\ finalizeMu' = t /\ target' = target /\ status'[target[t]] = "closing"
  BY DEF HolderInv, Inside
<1>2. HolderInv' /\ BatchInv'
  BY <1>1, IInvHolder DEF Inside
<1> QED BY <1>2, SameRows

\* The clip is made; no row says so yet.
LEMMA IInvCollectFiles ==
  ASSUME IInv, TypeOK', NEW t \in Threads, CollectFiles(t)
  PROVE  IInv'
<1> USE DEF IInv, TypeOK, Typed, CollectFiles, sessionVars, eventVars, handlerVars
<1>1. /\ pc[t] = "collect" /\ pc' = [pc EXCEPT ![t] = "publish"]
      /\ finalizeMu' = t /\ target' = target /\ status'[target[t]] = "closing"
      /\ batch' = {e \in Events : attached'[e] = target'[t]}
  BY DEF HolderInv, Inside
<1>2. HolderInv' /\ BatchInv'
  BY <1>1, IInvHolder DEF Inside
<1> QED BY <1>2, SameRows

\* The events of the closing session get its clip.
LEMMA IInvPublishClip ==
  ASSUME IInv, TypeOK', NEW t \in Threads, PublishClip(t)
  PROVE  IInv'
<1> USE DEF IInv, TypeOK, Typed, PublishClip, sessionVars, handlerVars, finalizeVars
<1>1. /\ pc[t] = "publish" /\ pc' = [pc EXCEPT ![t] = "seal"]
      /\ finalizeMu' = t /\ target' = target /\ status' = status
      /\ target[t] \in Sessions /\ status[target[t]] = "closing"
      /\ batch' = batch /\ outcome' = outcome /\ attached' = attached /\ hpc' = hpc
      /\ sessionClip' = sessionClip
      /\ batch = {e \in Events : attached[e] = target[t]}
  BY DEF HolderInv, BatchInv, CallersHaveSession, Inside
<1>2. \A e \in Events : e \in batch \/ (ready'[e] = ready[e] /\ eventClip'[e] = eventClip[e])
  OBVIOUS
<1>3. outcome = "closed" => \A e \in batch : ready'[e] /\ eventClip'[e] = target[t]
  BY DEF ClipOf
<1>4. HolderInv' /\ BatchInv'
  BY <1>1, <1>3, IInvHolder DEF Inside
<1>5. AttachInv'
  BY <1>1, <1>2, SetsAssumption DEF AttachInv
<1>6. ReadyMeansSealing'
  BY <1>1, <1>2 DEF ReadyMeansSealing
<1>7. ClosedMeansPublished'
  BY <1>1, <1>2 DEF ClosedMeansPublished
<1> QED BY <1>4, <1>5, <1>6, <1>7

\* An error path: the update fails, but then the outcome is not "closed".
LEMMA IInvPublishIgnored ==
  ASSUME IInv, TypeOK', NEW t \in Threads, PublishIgnored(t)
  PROVE  IInv'
<1> USE DEF IInv, TypeOK, Typed, PublishIgnored, sessionVars, eventVars, handlerVars, finalizeVars
<1>1. /\ pc[t] = "publish" /\ pc' = [pc EXCEPT ![t] = "seal"]
      /\ finalizeMu' = t /\ target' = target /\ status'[target[t]] = "closing"
      /\ batch' = {e \in Events : attached'[e] = target'[t]} /\ outcome' # "closed"
  BY DEF HolderInv, BatchInv, Inside
<1>2. HolderInv' /\ BatchInv'
  BY <1>1, IInvHolder DEF Inside
<1> QED BY <1>2, SameRows

\* The session is sealed after its events, and the mutex given back.
LEMMA IInvSealSession ==
  ASSUME IInv, TypeOK', NEW t \in Threads, SealSession(t)
  PROVE  IInv'
<1> USE DEF IInv, TypeOK, Typed, SealSession, eventVars, handlerVars
<1> DEFINE s == target[t]
<1>1. /\ pc[t] = "seal" /\ pc' = [pc EXCEPT ![t] = "idle"]
      /\ s \in Sessions /\ status[s] = "closing"
      /\ status' = [status EXCEPT ![s] = SealedStatus(outcome)]
      /\ sessionClip' = [sessionClip EXCEPT ![s] = ClipOf(s, outcome)]
      /\ SealedStatus(outcome) \in Terminal
      /\ SealedStatus(outcome) = "closed" => outcome = "closed"
      /\ attached' = attached /\ ready' = ready /\ eventClip' = eventClip /\ hpc' = hpc
  BY DEF HolderInv, CallersHaveSession, Inside, Return, SealedStatus, Terminal, Outcomes
<1>2. HolderInv' /\ BatchInv'
  BY <1>1, IInvHolder DEF Inside
<1>3. AttachInv' /\ ReadyMeansSealing'
  BY <1>1 DEF AttachInv, ReadyMeansSealing, Terminal
<1>4. outcome = "closed" => \A e \in Events : attached[e] = s => ready[e] /\ eventClip[e] = s
  BY <1>1 DEF BatchInv
<1>5. ClosedMeansPublished'
  BY <1>1, <1>4 DEF ClosedMeansPublished, ClipOf
<1> QED BY <1>2, <1>3, <1>5

\* A statement that fails gives the mutex back with what was written.
LEMMA IInvStatementFails ==
  ASSUME IInv, TypeOK', NEW t \in Threads, StatementFails(t)
  PROVE  IInv'
<1> USE DEF IInv, TypeOK, Typed, StatementFails, handlerVars
<1>1. AttachInv' /\ ReadyMeansSealing' /\ ClosedMeansPublished'
  BY SameRows
<1>2. pc' = [pc EXCEPT ![t] = "idle"] /\ target' = [target EXCEPT ![t] = NoSession]
  BY DEF Return
<1>3. CASE pc[t] \in Inside
  BY <1>1, <1>2, <1>3, IInvHolder DEF Inside
<1>4. CASE pc[t] \notin Inside
  <2>1. UNCHANGED finalizeVars
    BY <1>4 DEF Inside
  <2> QED BY <1>2, <1>4, <2>1, IInvOutside DEF Inside
<1> QED BY <1>3, <1>4

\* A crash frees the mutex; the rows stay.
LEMMA IInvLoseMemory ==
  ASSUME IInv, TypeOK', LoseMemory
  PROVE  IInv'
<1> USE DEF IInv, TypeOK, Typed, LoseMemory, sessionVars, eventVars
<1>1. HolderInv' /\ BatchInv'
  BY DEF HolderInv, BatchInv, Inside
<1>2. ReadyMeansSealing' /\ ClosedMeansPublished'
  BY DEF ReadyMeansSealing, ClosedMeansPublished
<1>3. AttachInv'
  BY DEF AttachInv
<1> QED BY <1>1, <1>2, <1>3

-----------------------------------------------------------------------------
(* All steps.                                                              *)

\* Callbacks and policy calls only lead up to the mutex.
LEMMA IInvCalls ==
  ASSUME IInv, TypeOK', NEW t \in Threads,
         \/ FindActive(t) \/ (\E tm \in fired : HandleDeadline(t, tm))
         \/ (\E src \in Sources : CloseActive(t, src))
  PROVE  IInv'
<1>0. pc \in [Threads -> {"idle", "find", "wait"} \cup Inside]
      /\ target \in [Threads -> Sessions \cup {NoSession}]
  BY DEF IInv, TypeOK, Typed
<1>1. /\ pc[t] \notin Inside /\ pc'[t] \notin Inside
      /\ \A u \in Threads \ {t} : pc'[u] = pc[u] /\ target'[u] = target[u]
      /\ UNCHANGED <<sessionVars, eventVars, hpc, finalizeVars>>
  BY <1>0 DEF FindActive, HandleDeadline, CloseActive, Return, Inside, handlerVars
<1> QED BY <1>1, IInvOutside

\* So do shutdown and recovery.
LEMMA IInvMainCalls ==
  ASSUME IInv, TypeOK', NEW s \in Sessions, CloseNext(s) \/ RecoverBySealing(s)
  PROVE  IInv'
<1>1. /\ Main \in Threads
      /\ pc[Main] \notin Inside /\ pc'[Main] \notin Inside
      /\ \A u \in Threads \ {Main} : pc'[u] = pc[u] /\ target'[u] = target[u]
      /\ UNCHANGED <<sessionVars, eventVars, hpc, finalizeVars>>
  BY SetsAssumption DEF IInv, TypeOK, Typed, CloseNext, RecoverBySealing, MainFinalizes, Inside,
     handlerVars
<1> QED BY <1>1, IInvOutside

\* The steps of an alarm's request.
LEMMA IInvRequests ==
  ASSUME IInv, TypeOK', NEW e \in Events, Alarm(e) \/ StartOrExtend(e) \/ ScheduleAfterCommit(e)
  PROVE  IInv'
<1>1. ASSUME NEW s \in Sessions, StartSession(e, s) PROVE IInv'
  BY <1>1, IInvAttach DEF StartSession
<1>2. ASSUME NEW s \in Sessions, ExtendSession(e, s) PROVE IInv'
  BY <1>2, IInvAttach DEF ExtendSession, LatestRecording, Recording
<1>3. CASE StartOrExtendFails(e) \/ ScheduleAfterCommit(e)
  BY <1>3, IInvRequestEnds DEF StartOrExtendFails, ScheduleAfterCommit, callVars
<1> QED BY <1>1, <1>2, <1>3, IInvAlarm DEF StartOrExtend

\* Every step keeps the invariant.
LEMMA NextIInv == IInv /\ TypeOK' /\ [Next]_vars => IInv'
<1> SUFFICES ASSUME IInv, TypeOK', [Next]_vars PROVE IInv'
  OBVIOUS
<1>1. ASSUME UNCHANGED <<sessionVars, eventVars, hpc, callVars, finalizeVars>> PROVE IInv'
  BY <1>1, IInvFrame DEF callVars
<1>2. ASSUME NEW t \in Threads, ReadSession(t) \/ Finalize(t) \/ PublishIgnored(t) \/ StatementFails(t)
      PROVE  IInv'
  BY <1>2, IInvReadSession, IInvMarkClosing, IInvCancelTimer, IInvCollectFiles, IInvPublishClip,
     IInvSealSession, IInvPublishIgnored, IInvStatementFails DEF Finalize
<1>3. CASE Exit \/ Crash
  BY <1>3, IInvLoseMemory DEF Exit, Crash
<1>4. CASE \/ Tick \/ Shutdown \/ ListOnShutdown \/ CloseReturns \/ Startup \/ RecoveryDone
           \/ UNCHANGED vars
  BY <1>1, <1>4 DEF Tick, Shutdown, ListOnShutdown, CloseReturns, Startup, RecoveryDone, vars,
     handlerVars
<1>5. ASSUME NEW tm \in armed, Fire(tm) PROVE IInv'
  BY <1>1, <1>5 DEF Fire, handlerVars
<1>6. ASSUME NEW s \in Sessions, RecoverByTimer(s) PROVE IInv'
  BY <1>1, <1>6 DEF RecoverByTimer, handlerVars
<1> QED
  BY <1>2, <1>3, <1>4, <1>5, <1>6, IInvCalls, IInvMainCalls, IInvRequests DEF Next, RecoverNext

\* The invariant of the session runtime holds throughout.
LEMMA AlwaysIInv == Spec => []IInv
  BY InitIInv, TypeCorrect, NextIInv, PTL DEF Spec

\* No event is playable while its session can still be extended.
THEOREM NotReadyWhileRecording == Spec => []ReadyMeansSealing
<1>1. IInv => ReadyMeansSealing
  BY DEF IInv
<1> QED BY <1>1, AlwaysIInv, PTL

\* A session closed with a clip has published it to every event attached to it.
THEOREM ClosedSessionsPublished == Spec => []ClosedMeansPublished
<1>1. IInv => ClosedMeansPublished
  BY DEF IInv
<1> QED BY <1>1, AlwaysIInv, PTL

\* A sealed session is never reopened, sealed again or extended, although four
\* different callers may finalize it.
THEOREM SealedStays == Spec => SealedForever
<1>1. IInv /\ [Next]_vars =>
        [\A s \in Sessions : status[s] \in Terminal =>
           status'[s] = status[s] /\ sessionClip'[s] = sessionClip[s]
           /\ expectedEndAt'[s] = expectedEndAt[s]]_vars
  <2> SUFFICES ASSUME IInv, [Next]_vars, NEW s \in Sessions, status[s] \in Terminal
               PROVE  status'[s] = status[s] /\ sessionClip'[s] = sessionClip[s]
                      /\ expectedEndAt'[s] = expectedEndAt[s]
    OBVIOUS
  <2> USE DEF IInv, TypeOK, Typed, Terminal
  <2>1. ASSUME NEW e \in Events, NEW u \in Sessions, StartSession(e, u) \/ ExtendSession(e, u)
        PROVE  /\ status'[s] = status[s] /\ sessionClip'[s] = sessionClip[s]
               /\ expectedEndAt'[s] = expectedEndAt[s]
    BY <2>1 DEF StartSession, ExtendSession, LatestRecording, Recording
  <2>2. ASSUME NEW t \in Threads, MarkClosing(t) \/ SealSession(t)
        PROVE  /\ status'[s] = status[s] /\ sessionClip'[s] = sessionClip[s]
               /\ expectedEndAt'[s] = expectedEndAt[s]
    <3>1. target[t] \in Sessions /\ target[t] # s
      BY <2>2 DEF MarkClosing, SealSession, HolderInv, CallersHaveSession, Inside
    <3> QED BY <2>2, <3>1 DEF MarkClosing, SealSession
  <2> QED BY <2>1, <2>2, SessionWriters DEF sessionVars
<1> QED BY <1>1, AlwaysIInv, PTL DEF Spec, SealedForever
-----------------------------------------------------------------------------
(* The refinement.                                                           *)

\* An event without a session has no clip.
ClipInv == \A e \in Events : attached[e] = NoSession => eventClip[e] = NoSession

\* Outside Alarm, the transaction and PublishClip no step writes an event row.
LEMMA EventWriters ==
  ASSUME [Next]_vars
  PROVE  \/ \E e \in Events : Alarm(e)
         \/ \E e \in Events, s \in Sessions : StartSession(e, s) \/ ExtendSession(e, s)
         \/ \E t \in Threads : PublishClip(t)
         \/ UNCHANGED eventVars
<1>1. ASSUME NEW e \in Events, StartOrExtend(e) \/ ScheduleAfterCommit(e)
      PROVE  \/ \E s \in Sessions : StartSession(e, s) \/ ExtendSession(e, s)
             \/ UNCHANGED eventVars
  BY <1>1 DEF StartOrExtend, StartOrExtendFails, ScheduleAfterCommit
<1>2. ASSUME NEW t \in Threads,
             \/ FindActive(t) \/ ReadSession(t) \/ Finalize(t)
             \/ PublishIgnored(t) \/ StatementFails(t)
      PROVE  PublishClip(t) \/ UNCHANGED eventVars
  BY <1>2 DEF FindActive, ReadSession, Finalize, MarkClosing, CancelTimer, CollectFiles,
       SealSession, PublishIgnored, StatementFails
<1>3. ASSUME NEW s \in Sessions, RecoverBySealing(s) \/ RecoverByTimer(s) \/ CloseNext(s)
      PROVE  UNCHANGED eventVars
  BY <1>3 DEF RecoverBySealing, RecoverByTimer, CloseNext
<1>4. ASSUME NEW tm \in armed, Fire(tm) PROVE UNCHANGED eventVars
  BY <1>4 DEF Fire
<1>5. ASSUME NEW t \in Threads, NEW tm \in fired, HandleDeadline(t, tm)
      PROVE  UNCHANGED eventVars
  BY <1>5 DEF HandleDeadline
<1>6. ASSUME NEW t \in Threads, NEW src \in Sources, CloseActive(t, src)
      PROVE  UNCHANGED eventVars
  BY <1>6 DEF CloseActive
<1>7. ASSUME \/ Tick \/ Shutdown \/ ListOnShutdown \/ CloseReturns \/ Exit \/ Crash
             \/ Startup \/ RecoveryDone \/ UNCHANGED vars
      PROVE  UNCHANGED eventVars
  BY <1>7 DEF Tick, Shutdown, ListOnShutdown, CloseReturns, Exit, Crash, LoseMemory, Startup,
       RecoveryDone, vars
<1> QED
  BY <1>1, <1>2, <1>3, <1>4, <1>5, <1>6, <1>7 DEF Next, RecoverNext

\* Alarm and PublishClip leave the session rows alone.
LEMMA RowsApart ==
  /\ \A e \in Events : Alarm(e) => UNCHANGED sessionVars
  /\ \A t \in Threads : PublishClip(t) => UNCHANGED sessionVars
  BY DEF Alarm, PublishClip

\* An event gets its clip from its session.
LEMMA ClipInvStep == IInv /\ ClipInv /\ [Next]_vars => ClipInv'
<1> SUFFICES ASSUME IInv, ClipInv, [Next]_vars PROVE ClipInv'
  OBVIOUS
<1> USE DEF IInv, TypeOK, Typed, ClipInv
<1>1. ASSUME NEW e \in Events, Alarm(e) PROVE ClipInv'
  BY <1>1 DEF Alarm
<1>2. ASSUME NEW e \in Events, NEW s \in Sessions, StartSession(e, s) \/ ExtendSession(e, s)
      PROVE  ClipInv'
  BY <1>2 DEF StartSession, ExtendSession, Attach
<1>3. ASSUME NEW t \in Threads, PublishClip(t) PROVE ClipInv'
  <2>1. /\ target[t] \in Sessions /\ batch = {e \in Events : attached[e] = target[t]}
        /\ attached' = attached
        /\ \A e \in Events : e \in batch \/ eventClip'[e] = eventClip[e]
    BY <1>3 DEF PublishClip, BatchInv, CallersHaveSession, Inside
  <2> QED BY <2>1, SetsAssumption
<1>4. CASE UNCHANGED eventVars
  BY <1>4 DEF eventVars
<1> QED BY <1>1, <1>2, <1>3, <1>4, EventWriters

-----------------------------------------------------------------------------
(* The steps that a client sees.                                           *)

\* Opening and extending a session are the promise's Join.
LEMMA JoinStep ==
  ASSUME IInv, ClipInv, NEW e \in Events, NEW s \in Sessions,
         StartSession(e, s) \/ ExtendSession(e, s)
  PROVE  Promise!Join(e, s)
<1> USE DEF IInv, TypeOK, Typed
<1>1. /\ attached[e] = NoSession /\ ~ready[e] /\ eventClip[e] = NoSession
      /\ Attach(e, s)
      /\ status[s] \in {"absent", "recording"}
      /\ status' = [status EXCEPT ![s] = "recording"]
  BY DEF StartSession, ExtendSession, AttachInv, ClipInv, LatestRecording, Recording
<1>2. UNCHANGED <<ready, eventClip>> /\ attached' = [attached EXCEPT ![e] = s]
  BY <1>1 DEF Attach
<1>3. Stage[s] \in {"absent", "recording"} /\ Stage' = [Stage EXCEPT ![s] = "recording"]
  BY <1>1 DEF Stage, Terminal
<1> QED BY <1>1, <1>2, <1>3 DEF Promise!Join

\* Marking a session as closing is the promise's Shut.
LEMMA ShutStep ==
  ASSUME IInv, NEW t \in Threads, MarkClosing(t)
  PROVE  \E s \in Sessions : Promise!Shut(s)
<1> USE DEF IInv, TypeOK, Typed
<1> DEFINE s == target[t]
<1>1. /\ s \in Sessions /\ status[s] = "recording"
      /\ status' = [status EXCEPT ![s] = "closing"]
      /\ UNCHANGED <<attached, ready, eventClip>>
  BY DEF MarkClosing, HolderInv, CallersHaveSession, Inside, eventVars
<1>2. Stage[s] = "recording" /\ Stage' = [Stage EXCEPT ![s] = "closing"]
  BY <1>1 DEF Stage, Terminal
<1> QED BY <1>1, <1>2 DEF Promise!Shut

\* Updating the events is the promise's Publish.
LEMMA PublishStep ==
  ASSUME IInv, NEW t \in Threads, PublishClip(t)
  PROVE  \E s \in Sessions : \E c \in {s, NoSession} : Promise!Publish(s, c)
<1> USE DEF IInv, TypeOK, Typed
<1> DEFINE s == target[t]
           c == ClipOf(s, outcome)
<1>1. /\ s \in Sessions /\ status[s] = "closing" /\ c \in {s, NoSession}
      /\ batch = {e \in Events : attached[e] = s}
      /\ status' = status /\ attached' = attached
  BY DEF PublishClip, HolderInv, BatchInv, CallersHaveSession, Inside, ClipOf, sessionVars
<1>2. /\ ready' = [e \in Events |-> attached[e] = s \/ ready[e]]
      /\ eventClip' = [e \in Events |-> IF attached[e] = s THEN c ELSE eventClip[e]]
  BY <1>1 DEF PublishClip
<1>3. Stage[s] = "closing" /\ Stage' = Stage
  BY <1>1 DEF Stage, Terminal
<1> HIDE DEF c
<1> QED BY <1>1, <1>2, <1>3 DEF Promise!Publish

\* Sealing is the promise's Seal.
LEMMA SealStep ==
  ASSUME IInv, NEW t \in Threads, SealSession(t)
  PROVE  \E s \in Sessions : Promise!Seal(s)
<1> USE DEF IInv, TypeOK, Typed
<1> DEFINE s == target[t]
<1>1. /\ s \in Sessions /\ status[s] = "closing"
      /\ status' = [status EXCEPT ![s] = SealedStatus(outcome)]
      /\ UNCHANGED <<attached, ready, eventClip>>
      /\ batch = {e \in Events : attached[e] = s}
      /\ outcome = "closed" => \A e \in batch : ready[e] /\ eventClip[e] = s
  BY DEF SealSession, HolderInv, BatchInv, CallersHaveSession, Inside, eventVars
<1>2. Stage[s] = "closing"
  BY <1>1 DEF Stage, Terminal
<1>3. CASE outcome = "closed"
  <2>1. Stage' = [Stage EXCEPT ![s] = "clip"]
    BY <1>1, <1>3 DEF Stage, SealedStatus
  <2> QED BY <1>1, <1>2, <1>3, <2>1 DEF Promise!Seal
<1>4. CASE outcome # "closed"
  <2>1. SealedStatus(outcome) \in Terminal \ {"closed"}
    BY <1>4 DEF SealedStatus, Outcomes, Terminal
  <2>2. Stage' = [Stage EXCEPT ![s] = "void"]
    BY <1>1, <2>1 DEF Stage, Terminal
  <2> QED BY <1>1, <1>2, <2>2 DEF Promise!Seal
<1> QED BY <1>3, <1>4

\* A new alarm is an event without a clip, or invisible.
LEMMA AlarmStep ==
  ASSUME IInv, NEW e \in Events, Alarm(e)
  PROVE  Promise!NoClip(e) \/ UNCHANGED <<Stage, attached, ready, eventClip>>
<1> USE DEF IInv, TypeOK, Typed
<1>1. attached[e] = NoSession /\ ~ready[e]
  BY DEF Alarm, AttachInv
<1>2. UNCHANGED <<Stage, attached, eventClip>>
  BY DEF Alarm, sessionVars, Stage
<1> QED BY <1>1, <1>2 DEF Alarm, Promise!NoClip

-----------------------------------------------------------------------------
\* Each step is one of the promise, or invisible.
LEMMA StepRefines == IInv /\ ClipInv /\ [Next]_vars => [Promise!Next]_(Promise!promiseVars)
<1> SUFFICES ASSUME IInv, ClipInv, [Next]_vars
             PROVE  Promise!Next \/ UNCHANGED <<Stage, attached, ready, eventClip>>
  BY DEF Promise!promiseVars
<1>1. ASSUME NEW e \in Events, NEW s \in Sessions, StartSession(e, s) \/ ExtendSession(e, s)
      PROVE  Promise!Next
  BY <1>1, JoinStep DEF Promise!Next
<1>2. ASSUME NEW t \in Threads, MarkClosing(t) \/ PublishClip(t) \/ SealSession(t)
      PROVE  Promise!Next
  BY <1>2, ShutStep, PublishStep, SealStep DEF Promise!Next
<1>3. ASSUME NEW e \in Events, Alarm(e)
      PROVE  Promise!Next \/ UNCHANGED <<Stage, attached, ready, eventClip>>
  BY <1>3, AlarmStep DEF Promise!Next
<1>4. CASE UNCHANGED <<sessionVars, eventVars>>
  BY <1>4 DEF sessionVars, eventVars, Stage
<1> QED BY <1>1, <1>2, <1>3, <1>4, SessionWriters, EventWriters, RowsApart

\* Every behaviour of the code, with its goroutines, crashes and failing
\* statements, is one that the event API's promise allows.
THEOREM Refines == Spec => ImplementsPromise
<1>1. Init => Promise!Init /\ ClipInv
  BY DEF Init, Promise!Init, ClipInv, Stage, Terminal
<1>2. IInv /\ ClipInv /\ [Next]_vars => ClipInv'
  BY ClipInvStep
<1>3. IInv /\ ClipInv /\ [Next]_vars => [Promise!Next]_(Promise!promiseVars)
  BY StepRefines
<1> QED
  BY <1>1, <1>2, <1>3, AlwaysIInv, PTL DEF Spec, ImplementsPromise, Promise!Spec

-----------------------------------------------------------------------------
(* Every way to seal.                                                        *)

\* While no statement has failed: a sealed session has answered its events, and so has
\* one that is about to be.
SealInv ==
  faults = 0 =>
    /\ SealedMeansReady
    /\ \A t \in Threads : pc[t] = "seal" =>
         \A e \in batch : ready[e] /\ eventClip[e] = ClipOf(target[t], outcome)

\* Who is at the last step of finalize came there by the publication, and nobody else
\* changes what he holds.
LEMMA Sealers ==
  ASSUME IInv, [Next]_vars, NEW u \in Threads, pc'[u] = "seal"
  PROVE  \/ pc[u] = "seal" /\ target'[u] = target[u] /\ batch' = batch /\ outcome' = outcome
         \/ PublishClip(u) \/ PublishIgnored(u)
<1> DEFINE Same == pc[u] = "seal" /\ target'[u] = target[u] /\ batch' = batch /\ outcome' = outcome
<1> USE DEF IInv, TypeOK, Typed, finalizeVars, callVars
<1>1. ASSUME UNCHANGED <<callVars, finalizeVars>> PROVE Same
  BY <1>1
<1>2. ASSUME NEW t \in Threads, pc[t] \in Inside,
             Finalize(t) \/ PublishIgnored(t) \/ StatementFails(t)
      PROVE  PublishClip(u) \/ PublishIgnored(u)
  <2>1. \A x \in Threads \ {t} : pc[x] \notin Inside
    BY <1>2, HolderAlone
  <2>2. \A x \in Threads \ {t} : pc'[x] = pc[x]
    BY <1>2 DEF Finalize, MarkClosing, CancelTimer, CollectFiles, PublishClip, SealSession,
                PublishIgnored, StatementFails, Return
  <2>3. u = t
    BY <2>1, <2>2 DEF Inside
  <2> QED
    BY <1>2, <2>3 DEF Finalize, MarkClosing, CancelTimer, CollectFiles, SealSession,
                      StatementFails, Return
<1>3. ASSUME NEW t \in Threads, FindActive(t) \/ ReadSession(t)
      PROVE  Same
  <2>1. pc'[t] # "seal" /\ (\A x \in Threads \ {t} : pc'[x] = pc[x] /\ target'[x] = target[x])
    BY <1>3 DEF FindActive, ReadSession, Return
  <2>2. batch' = batch /\ outcome' = outcome
    BY <1>3 DEF FindActive, ReadSession
  <2> QED BY <2>1, <2>2
<1>4. ASSUME NEW t \in Threads, StatementFails(t), pc[t] \notin Inside
      PROVE  Same
  BY <1>4 DEF StatementFails, Return, Inside
<1>5. ASSUME NEW t \in Threads, NEW tm \in fired, HandleDeadline(t, tm) PROVE Same
  BY <1>5 DEF HandleDeadline
<1>6. ASSUME NEW t \in Threads, NEW src \in Sources, CloseActive(t, src) PROVE Same
  BY <1>6 DEF CloseActive
<1>7. ASSUME NEW s \in Sessions, CloseNext(s) \/ RecoverBySealing(s) PROVE Same
  BY <1>7, SetsAssumption DEF CloseNext, RecoverBySealing, MainFinalizes
<1>8. CASE Exit \/ Crash
  BY <1>8 DEF Exit, Crash, LoseMemory
<1>9. CASE \/ Tick \/ Shutdown \/ ListOnShutdown \/ CloseReturns \/ Startup \/ RecoveryDone
           \/ UNCHANGED vars \/ (\E tm \in armed : Fire(tm))
           \/ (\E s \in Sessions : RecoverByTimer(s))
           \/ (\E e \in Events : Alarm(e) \/ StartOrExtend(e) \/ ScheduleAfterCommit(e))
  BY <1>1, <1>9 DEF Tick, Shutdown, ListOnShutdown, CloseReturns, Startup, RecoveryDone, vars, Fire,
                    RecoverByTimer, Alarm, StartOrExtend, StartSession, ExtendSession,
                    StartOrExtendFails, ScheduleAfterCommit
<1>10. ASSUME NEW t \in Threads, PublishIgnored(t) \/ Finalize(t) PROVE pc[t] \in Inside
  BY <1>10 DEF PublishIgnored, Finalize, MarkClosing, CancelTimer, CollectFiles, PublishClip,
               SealSession, Inside
<1> QED
  BY <1>2, <1>3, <1>4, <1>5, <1>6, <1>7, <1>8, <1>9, <1>10 DEF Next, RecoverNext

\* A failed statement is not forgotten.
LEMMA FaultsStay ==
  ASSUME TypeOK, [Next]_vars, faults' = 0
  PROVE  faults = 0 /\ \A t \in Threads : ~PublishIgnored(t)
<1> USE DEF TypeOK, Typed, lifeVars
<1>1. faults' = faults \/ faults' = faults + 1
  <2>1. ASSUME NEW e \in Events, Alarm(e) \/ StartOrExtend(e) \/ ScheduleAfterCommit(e)
        PROVE  faults' = faults
    BY <2>1 DEF Alarm, StartOrExtend, StartSession, ExtendSession, StartOrExtendFails,
                ScheduleAfterCommit
  <2>2. ASSUME NEW t \in Threads, FindActive(t) \/ ReadSession(t) \/ Finalize(t) PROVE faults' = faults
    BY <2>2 DEF FindActive, ReadSession, Finalize, MarkClosing, CancelTimer, CollectFiles,
                PublishClip, SealSession
  <2>3. ASSUME NEW t \in Threads, PublishIgnored(t) \/ StatementFails(t) PROVE faults' = faults + 1
    BY <2>3 DEF PublishIgnored, StatementFails
  <2>4. ASSUME NEW s \in Sessions, CloseNext(s) \/ RecoverBySealing(s) \/ RecoverByTimer(s)
        PROVE  faults' = faults
    BY <2>4 DEF CloseNext, RecoverBySealing, RecoverByTimer
  <2>5. ASSUME NEW tm, Fire(tm) \/ (\E t \in Threads : HandleDeadline(t, tm)) PROVE faults' = faults
    BY <2>5 DEF Fire, HandleDeadline
  <2>6. ASSUME NEW t \in Threads, NEW src \in Sources, CloseActive(t, src) PROVE faults' = faults
    BY <2>6 DEF CloseActive
  <2>7. CASE \/ Tick \/ Shutdown \/ CloseReturns \/ Exit \/ Crash \/ Startup \/ RecoveryDone
             \/ UNCHANGED vars
    BY <2>7 DEF Tick, Shutdown, CloseReturns, Exit, Crash, LoseMemory, Startup, RecoveryDone, vars
  <2>8. CASE ListOnShutdown
    BY <2>8 DEF ListOnShutdown
  <2> QED BY <2>1, <2>2, <2>3, <2>4, <2>5, <2>6, <2>7, <2>8 DEF Next, RecoverNext
<1>2. faults = 0
  BY <1>1
<1> QED BY <1>2 DEF PublishIgnored

\* What has sealed a session has answered its events first.
LEMMA SealStepInv == IInv /\ SealInv /\ [Next]_vars => SealInv'
<1> SUFFICES ASSUME IInv, SealInv, [Next]_vars, faults' = 0
             PROVE  /\ SealedMeansReady'
                    /\ \A t \in Threads : pc'[t] = "seal" =>
                         \A e \in batch' : ready'[e] /\ eventClip'[e] = ClipOf(target'[t], outcome')
  BY DEF SealInv, ClipOf
<1> USE DEF IInv, TypeOK, Typed
<1>1. /\ SealedMeansReady /\ \A t \in Threads : ~PublishIgnored(t)
      /\ \A t \in Threads : pc[t] = "seal" =>
           \A e \in batch : ready[e] /\ eventClip[e] = ClipOf(target[t], outcome)
  BY FaultsStay DEF SealInv
<1>2. ASSUME NEW t \in Threads, pc'[t] = "seal", NEW e \in batch'
      PROVE  ready'[e] /\ eventClip'[e] = ClipOf(target'[t], outcome')
  <2>1. CASE PublishClip(t)
    BY <1>2, <2>1 DEF PublishClip, finalizeVars, ClipOf
  <2>2. CASE ~PublishClip(t)
    <3>1. pc[t] = "seal" /\ target'[t] = target[t] /\ batch' = batch /\ outcome' = outcome
      BY <1>1, <1>2, <2>2, Sealers
    <3>2. ready[e] /\ eventClip[e] = ClipOf(target[t], outcome)
      BY <1>1, <1>2, <3>1
    <3>3. e \in Events /\ attached[e] = target[t] /\ status[target[t]] = "closing"
          /\ target[t] \in Sessions
      BY <1>2, <3>1 DEF BatchInv, HolderInv, CallersHaveSession, Inside
    <3>4. ready'[e] = ready[e] /\ eventClip'[e] = eventClip[e]
      <4>1. ASSUME NEW f \in Events, Alarm(f) PROVE ready'[e] = ready[e] /\ eventClip'[e] = eventClip[e]
        BY <4>1, <3>2, <3>3 DEF Alarm
      <4>2. ASSUME NEW f \in Events, NEW s \in Sessions, StartSession(f, s) \/ ExtendSession(f, s)
            PROVE  ready'[e] = ready[e] /\ eventClip'[e] = eventClip[e]
        <5>1. attached[f] = NoSession
          BY <4>2 DEF StartSession, ExtendSession, AttachInv
        <5>2. f # e
          BY <3>3, <5>1, SetsAssumption
        <5> QED BY <4>2, <5>2, <3>3 DEF StartSession, ExtendSession, Attach
      <4>3. ASSUME NEW x \in Threads, PublishClip(x) PROVE FALSE
        <5>1. x = t
          BY <3>1, <4>3 DEF PublishClip, HolderInv, Inside
        <5> QED BY <4>3, <5>1, <2>2
      <4> QED BY <4>1, <4>2, <4>3, EventWriters DEF eventVars
    <3> QED BY <3>1, <3>2, <3>4 DEF ClipOf
  <2> QED BY <2>1, <2>2
<1>3. SealedMeansReady'
  <2> SUFFICES ASSUME NEW s \in Sessions, status'[s] \in Terminal, NEW e \in Events, attached'[e] = s
               PROVE  ready'[e] /\ eventClip'[e] = sessionClip'[s]
    BY DEF SealedMeansReady
  <2>1. ASSUME NEW f \in Events, NEW u \in Sessions, StartSession(f, u) \/ ExtendSession(f, u)
        PROVE  ready'[e] /\ eventClip'[e] = sessionClip'[s]
    <3>1. status'[u] = "recording" /\ (\A x \in Sessions \ {u} : status'[x] = status[x])
          /\ attached' = [attached EXCEPT ![f] = u] /\ sessionClip' = sessionClip
      BY <2>1 DEF StartSession, ExtendSession, LatestRecording, Recording, Attach
    <3>2. s # u /\ e # f
      BY <3>1 DEF Terminal
    <3>3. status[s] \in Terminal /\ attached[e] = s
      BY <3>1, <3>2
    <3>4. ready'[e] = ready[e] /\ eventClip'[e] = eventClip[e]
      BY <2>1, <3>2 DEF StartSession, ExtendSession, Attach
    <3> QED BY <1>1, <3>1, <3>3, <3>4 DEF SealedMeansReady
  <2>2. ASSUME NEW t \in Threads, SealSession(t) PROVE ready'[e] /\ eventClip'[e] = sessionClip'[s]
    <3>1. /\ pc[t] = "seal" /\ attached' = attached /\ ready' = ready /\ eventClip' = eventClip
          /\ status' = [status EXCEPT ![target[t]] = SealedStatus(outcome)]
          /\ sessionClip' = [sessionClip EXCEPT ![target[t]] = ClipOf(target[t], outcome)]
          /\ target[t] \in Sessions
      BY <2>2 DEF SealSession, eventVars, CallersHaveSession, Inside
    <3>2. CASE s = target[t]
      <4>1. e \in batch
        BY <3>1, <3>2 DEF BatchInv
      <4> QED BY <1>1, <3>1, <3>2, <4>1
    <3>3. CASE s # target[t]
      BY <1>1, <3>1, <3>3 DEF SealedMeansReady
    <3> QED BY <3>2, <3>3
  <2>3. ASSUME NEW t \in Threads, MarkClosing(t) PROVE ready'[e] /\ eventClip'[e] = sessionClip'[s]
    <3>1. /\ status' = [status EXCEPT ![target[t]] = "closing"] /\ target[t] \in Sessions
          /\ sessionClip' = sessionClip /\ UNCHANGED eventVars
      BY <2>3 DEF MarkClosing, CallersHaveSession, Inside
    <3>2. status[s] \in Terminal
      BY <3>1 DEF Terminal
    <3> QED BY <1>1, <3>1, <3>2 DEF SealedMeansReady, eventVars
  <2>4. CASE UNCHANGED sessionVars
    <3>1. status[s] \in Terminal /\ sessionClip'[s] = sessionClip[s]
      BY <2>4 DEF sessionVars
    <3>2. CASE UNCHANGED eventVars
      BY <1>1, <3>1, <3>2 DEF SealedMeansReady, eventVars
    <3>3. ASSUME NEW f \in Events, Alarm(f) PROVE ready'[e] /\ eventClip'[e] = sessionClip'[s]
      BY <1>1, <3>1, <3>3 DEF SealedMeansReady, Alarm
    <3>4. ASSUME NEW t \in Threads, PublishClip(t) PROVE ready'[e] /\ eventClip'[e] = sessionClip'[s]
      <4>1. status[target[t]] = "closing" /\ attached' = attached
            /\ batch = {x \in Events : attached[x] = target[t]}
        BY <3>4 DEF PublishClip, HolderInv, BatchInv, Inside
      <4>2. e \notin batch
        BY <3>1, <4>1 DEF Terminal
      <4> QED BY <1>1, <3>1, <3>4, <4>1, <4>2 DEF SealedMeansReady, PublishClip
    <3> QED BY <2>1, <3>2, <3>3, <3>4, EventWriters
  <2> QED BY <2>1, <2>2, <2>3, <2>4, SessionWriters
<1> QED BY <1>2, <1>3

\* However a session was sealed - by its timer, a policy, the shutdown or a recovery, with
\* files, without, after an error or without its source - its events are ready and have
\* its clip, as long as no statement has failed.
THEOREM SealedIsReady == Spec => [](faults = 0 => SealedMeansReady)
<1>1. Init => SealInv
  BY DEF Init, SealInv, SealedMeansReady, Terminal
<1>2. SealInv => (faults = 0 => SealedMeansReady)
  BY DEF SealInv
<1> QED BY <1>1, <1>2, SealStepInv, AlwaysIInv, PTL DEF Spec

\* An event that a session has answered stays with it and stays answered: no alarm that
\* overlaps, no second finalizer and no restart hides its clip again.
THEOREM AnswersStay ==
  Spec => [][\A e \in Events : attached[e] # NoSession /\ ready[e]
               => attached'[e] = attached[e] /\ ready'[e]]_vars
<1>1. IInv /\ [Next]_vars =>
        [\A e \in Events : attached[e] # NoSession /\ ready[e]
           => attached'[e] = attached[e] /\ ready'[e]]_vars
  <2> SUFFICES ASSUME IInv, [Next]_vars, NEW e \in Events, attached[e] # NoSession, ready[e]
               PROVE  attached'[e] = attached[e] /\ ready'[e]
    OBVIOUS
  <2> USE DEF IInv, TypeOK, Typed
  <2>1. ASSUME NEW f \in Events, Alarm(f) PROVE attached'[e] = attached[e] /\ ready'[e]
    BY <2>1 DEF Alarm
  <2>2. ASSUME NEW f \in Events, NEW s \in Sessions, StartSession(f, s) \/ ExtendSession(f, s)
        PROVE  attached'[e] = attached[e] /\ ready'[e]
    BY <2>2 DEF StartSession, ExtendSession, Attach, AttachInv
  <2>3. ASSUME NEW t \in Threads, PublishClip(t) PROVE attached'[e] = attached[e] /\ ready'[e]
    BY <2>3 DEF PublishClip
  <2> QED BY <2>1, <2>2, <2>3, EventWriters DEF eventVars
<1> QED BY <1>1, AlwaysIInv, PTL DEF Spec
=============================================================================
