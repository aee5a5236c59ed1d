---------------------------- MODULE StartupRecovery ----------------------------
(* Who resumes the tasks after a start of the server or of ZLM (server.go,         *)
(* zlm_webhook.go): the restart recovery, the recovery of what is still pending,   *)
(* and the goroutine that asks for the latter again for a while, with the marks,   *)
(* flags and callbacks that pass work between them.  What a resume does to a       *)
(* task's devices is in TaskRuntime.                                               *)
EXTENDS Naturals, FiniteSets

CONSTANTS
  RecTasks,        \* tasks with auto resume
  MaxRecRounds,    \* bound: rounds of one retry goroutine, whose window is five minutes
  MaxRecRestarts,  \* bound: restarts of ZLM and of the AI service
  MaxRecRequests,  \* bound: starts and stops by hand
  MaxRecFaults     \* bound: answers that fail while the AI service is up

VARIABLES
  recUp,           \* the AI service answers
  recCamera,       \* tasks whose camera runs there
  recRow,          \* tasks whose rows say running
  recAuto,         \* tasks whose auto resume is on
  recMarks,        \* startupTaskResumePending
  recSync,         \* startupAISyncPending
  recFlags,        \* the mutex-guarded flags of the three goroutines
  recAt,           \* where the two recoveries are
  recList,         \* the tasks each of them has listed
  recRetry,        \* where the retry goroutine is
  recRound,
  recDue,          \* history: tasks marked, and since then neither looked at nor asked for by hand
  recCrossed,      \* history: a mark was cleared that the other recovery had set meanwhile
  recRestarts, recRequests, recFaults

recWorld == <<recUp, recCamera, recRow, recAuto>>
recWork == <<recAt, recList>>
recLoop == <<recRetry, recRound>>
recCounts == <<recRestarts, recRequests, recFaults>>
recVars == <<recWorld, recMarks, recSync, recFlags, recWork, recLoop, recDue, recCrossed, recCounts>>

ASSUME RecAssumption ==
  /\ IsFiniteSet(RecTasks) /\ MaxRecRounds \in Nat \ {0} /\ MaxRecRestarts \in Nat
  /\ MaxRecRequests \in Nat /\ MaxRecFaults \in Nat

\* zlm: runZLMRestartRecovery; pending: runPendingStartupRecovery.
Recoveries == {"zlm", "pending"}
RecPending == recSync \/ recMarks # {}

\* The server has just started, and its first recovery with it.
RecInit ==
  /\ recUp \in BOOLEAN /\ recCamera \in {{}, RecTasks} /\ (~recUp => recCamera = {})
  /\ recRow = RecTasks /\ recAuto = RecTasks
  /\ recMarks = {} /\ recSync = FALSE
  /\ recFlags = [zlmRunning |-> TRUE, zlmPending |-> FALSE, running |-> FALSE, queued |-> FALSE]
  /\ recAt = [zlm |-> "list", pending |-> "idle"] /\ recList = [p \in Recoveries |-> {}]
  /\ recRetry = "none" /\ recRound = 0 /\ recDue = {} /\ recCrossed = FALSE
  /\ recRestarts = 0 /\ recRequests = 0 /\ recFaults = 0

RecGo(p, step) == recAt' = [recAt EXCEPT ![p] = step]

\* schedulePendingStartupRecovery.
RecSchedule ==
  IF ~RecPending THEN UNCHANGED <<recFlags, recAt>>
  ELSE IF recFlags.running THEN recFlags' = [recFlags EXCEPT !.queued = TRUE] /\ UNCHANGED recAt
  ELSE /\ recFlags' = [recFlags EXCEPT !.running = TRUE, !.queued = FALSE]
       /\ RecGo("pending", "list")
-----------------------------------------------------------------------------
(* The services around it.                                                 *)

\* on_server_started: the cameras lose their streams; scheduleZLMRestartRecovery.
RecZLMRestart ==
  /\ recRestarts < MaxRecRestarts /\ recRestarts' = recRestarts + 1
  /\ recCamera' \in {{}, recCamera}
  /\ IF recFlags.zlmRunning
     THEN recFlags' = [recFlags EXCEPT !.zlmPending = TRUE] /\ UNCHANGED recAt
     ELSE recFlags' = [recFlags EXCEPT !.zlmRunning = TRUE, !.zlmPending = FALSE] /\ RecGo("zlm", "list")
  /\ UNCHANGED <<recUp, recRow, recAuto, recMarks, recSync, recList, recLoop, recDue, recCrossed, recRequests, recFaults>>

RecAIStops ==
  /\ recUp /\ recRestarts < MaxRecRestarts /\ recRestarts' = recRestarts + 1
  /\ recUp' = FALSE /\ recCamera' = {}
  /\ UNCHANGED <<recRow, recAuto, recMarks, recSync, recFlags, recWork, recLoop, recDue, recCrossed, recRequests, recFaults>>

RecAIReturns ==
  /\ ~recUp /\ recUp' = TRUE
  /\ UNCHANGED <<recCamera, recRow, recAuto, recMarks, recSync, recFlags, recWork, recLoop, recDue, recCrossed, recCounts>>

\* handleAIStarted, handleAIKeepalive: every minute, as long as the AI service lives.
RecKeepalive ==
  /\ recUp /\ RecSchedule
  /\ UNCHANGED <<recWorld, recMarks, recSync, recList, recLoop, recDue, recCrossed, recCounts>>

\* startTask and stopTask clear the task's marks.
RecByHand(t) ==
  /\ recRequests < MaxRecRequests /\ recRequests' = recRequests + 1
  /\ \/ /\ recUp /\ recAuto' = recAuto \cup {t}
        /\ recCamera' = recCamera \cup {t} /\ recRow' = recRow \cup {t}
     \/ /\ recAuto' = recAuto \ {t}
        /\ recCamera' = recCamera \ {t} /\ recRow' = recRow \ {t}
  /\ recMarks' = recMarks \ {t} /\ recDue' = recDue \ {t}
  /\ UNCHANGED <<recUp, recSync, recFlags, recWork, recLoop, recCrossed, recRestarts, recFaults>>
-----------------------------------------------------------------------------
(* The two recoveries.                                                     *)

\* listAutoResumeCandidateTaskIDs, and minutes of other work before the marks.
RecCandidates ==
  /\ recAt.zlm = "list"
  /\ recList' = [recList EXCEPT !.zlm = recAuto \cap recRow] /\ RecGo("zlm", "mark")
  /\ UNCHANGED <<recWorld, recMarks, recSync, recFlags, recLoop, recDue, recCrossed, recCounts>>

RecMark ==
  /\ recAt.zlm = "mark"
  /\ recMarks' = recMarks \cup recList.zlm /\ recDue' = recDue \cup recList.zlm
  /\ RecGo("zlm", "fetch")
  /\ UNCHANGED <<recWorld, recSync, recFlags, recList, recLoop, recCrossed, recCounts>>

\* attemptPendingStartupRecovery.
RecPendingIDs ==
  /\ recAt.pending = "list"
  /\ recList' = [recList EXCEPT !.pending = recMarks]
  /\ RecGo("pending", IF RecPending THEN "fetch" ELSE "done")
  /\ UNCHANGED <<recWorld, recMarks, recSync, recFlags, recLoop, recDue, recCrossed, recCounts>>

\* syncAIStatusAndResumeTasks: the answer is written to all rows, ...
RecFetch(p) ==
  /\ recAt[p] = "fetch" /\ recUp
  /\ recRow' = recCamera /\ RecGo(p, "synced")
  /\ UNCHANGED <<recUp, recCamera, recAuto, recMarks, recSync, recFlags, recList, recLoop, recDue, recCrossed, recCounts>>

\* ... or there is none, and it is to be asked for again.
RecFetchFails(p) ==
  /\ recAt[p] = "fetch"
  /\ \/ ~recUp /\ UNCHANGED recFaults
     \/ recUp /\ recFaults < MaxRecFaults /\ recFaults' = recFaults + 1
  /\ recSync' = TRUE /\ RecGo(p, "retry")
  /\ UNCHANGED <<recWorld, recMarks, recFlags, recList, recLoop, recDue, recCrossed, recRestarts, recRequests>>

RecSynced(p) ==
  /\ recAt[p] = "synced"
  /\ recSync' = FALSE /\ RecGo(p, "resume")
  /\ UNCHANGED <<recWorld, recMarks, recFlags, recList, recLoop, recDue, recCrossed, recCounts>>

\* resumeAutoResumeTasks, which may find a device offline or the AI service away: the
\* device's own mark is left then, and its stream's return resumes it.
RecResume(p) ==
  /\ recAt[p] = "resume"
  /\ \E started \in SUBSET (recList[p] \cap recAuto) :
       /\ started # {} => recUp
       /\ recCamera' = recCamera \cup started /\ recRow' = recRow \cup started
  /\ recDue' = recDue \ recList[p] /\ RecGo(p, "clear")
  /\ UNCHANGED <<recUp, recAuto, recMarks, recSync, recFlags, recList, recLoop, recCrossed, recCounts>>

\* Mutant: all marks are cleared, also those of tasks that were not listed.
RecClearAll(p) ==
  /\ recAt[p] = "clear"
  /\ recMarks' = {}
  /\ recCrossed' = (recCrossed \/ recList[p] \cap recDue # {})
  /\ RecGo(p, "done")
  /\ UNCHANGED <<recWorld, recSync, recFlags, recList, recLoop, recDue, recCounts>>

\* clearStartupTaskResumePending, of all that were listed.
RecClear(p) ==
  /\ recAt[p] = "clear"
  /\ recMarks' = recMarks \ recList[p]
  /\ recCrossed' = (recCrossed \/ recList[p] \cap recDue # {})
  /\ RecGo(p, "done")
  /\ UNCHANGED <<recWorld, recSync, recFlags, recList, recLoop, recDue, recCounts>>

\* scheduleStartupTaskResumeRetry: one that is about to end is taken for one that goes on.
RecScheduleRetry(p) ==
  /\ recAt[p] = "retry"
  /\ IF recRetry = "none" /\ RecPending
     THEN recRetry' = "check" /\ recRound' = 0 ELSE UNCHANGED recLoop
  /\ RecGo(p, "done")
  /\ UNCHANGED <<recWorld, recMarks, recSync, recFlags, recList, recDue, recCrossed, recCounts>>

RecEnd(p) ==
  /\ recAt[p] = "done"
  /\ LET again == IF p = "zlm" THEN recFlags.zlmPending ELSE recFlags.queued /\ RecPending
     IN  /\ RecGo(p, IF again THEN "list" ELSE "idle")
         /\ recFlags' = IF p = "zlm" THEN [recFlags EXCEPT !.zlmRunning = again, !.zlmPending = FALSE]
                                     ELSE [recFlags EXCEPT !.running = again, !.queued = FALSE]
  /\ recList' = [recList EXCEPT ![p] = {}]
  /\ UNCHANGED <<recWorld, recMarks, recSync, recLoop, recDue, recCrossed, recCounts>>
-----------------------------------------------------------------------------
(* runStartupTaskResumeRetry.                                              *)

\* The window is over, or nothing is pending.
RecRetryCheck ==
  /\ recRetry = "check"
  /\ \/ RecPending /\ recRound < MaxRecRounds /\ recRetry' = "sleep" /\ recRound' = recRound + 1
     \/ (~RecPending \/ recRound = MaxRecRounds) /\ recRetry' = "end" /\ UNCHANGED recRound
  /\ UNCHANGED <<recWorld, recMarks, recSync, recFlags, recWork, recDue, recCrossed, recCounts>>

RecRetryWakes ==
  /\ recRetry = "sleep"
  /\ recRetry' = IF RecPending THEN "check" ELSE "end"
  /\ RecSchedule
  /\ UNCHANGED <<recWorld, recMarks, recSync, recList, recRound, recDue, recCrossed, recCounts>>

RecRetryEnds ==
  /\ recRetry = "end" /\ recRetry' = "none" /\ recRound' = 0
  /\ UNCHANGED <<recWorld, recMarks, recSync, recFlags, recWork, recDue, recCrossed, recCounts>>
-----------------------------------------------------------------------------
RecRun ==
  \/ RecCandidates \/ RecMark \/ RecPendingIDs
  \/ \E p \in Recoveries :
       \/ RecFetch(p) \/ RecFetchFails(p) \/ RecSynced(p) \/ RecResume(p)
       \/ RecClear(p) \/ RecScheduleRetry(p) \/ RecEnd(p)
  \/ RecRetryCheck \/ RecRetryWakes \/ RecRetryEnds
  \/ RecKeepalive

RecNext ==
  RecRun \/ RecZLMRestart \/ RecAIStops \/ RecAIReturns \/ \E t \in RecTasks : RecByHand(t)

RecSpec == RecInit /\ [][RecNext]_recVars
-----------------------------------------------------------------------------
(* Properties.                                                             *)

\* What a recovery owes is taken up: once the AI service is back, its state is synced and
\* every marked task is looked at after the mark was set or asked for by hand, also when
\* a failed attempt finds a retry goroutine that is about to end or has used up most of
\* its window (the keepalives make it good) - unless the other recovery, done with the
\* task before, clears the new mark with its old list, and nothing leads to the task any
\* more.
OwedIsTaken == []<>(~recSync /\ (recDue = {} \/ recCrossed))

\* The flags tell whether their goroutine runs, and a mark is left only for one that does.
RecFlagsTell ==
  /\ recFlags.zlmRunning <=> recAt.zlm # "idle"
  /\ recFlags.running <=> recAt.pending # "idle"
  /\ recFlags.zlmPending => recFlags.zlmRunning
  /\ recFlags.queued => recFlags.running

\* What is owed a look is marked, so that the next keepalive leads to it: two recoveries,
\* requests and restarts between them lose no task, but for a mark that was cleared with
\* the other recovery's old list.
RecOwedIsMarked == recCrossed \/ recDue \subseteq recMarks
=============================================================================
