------------------------------ MODULE MemoryJobs ------------------------------
(* Jobs that live in memory only: tests of an algorithm that is not saved yet  *)
(* (algorithm_draft_job.go) and patrols of cameras (dashboard_camera2_patrol.  *)
(* go).  Both kinds have a map under a lock, a lifetime counted from their     *)
(* creation, one runner that takes the items in turn, and rounds of retries;   *)
(* a patrol also creates an alarm event for what it finds.                     *)
EXTENDS Naturals, FiniteSets

CONSTANTS
  MemJobs,        \* the jobs of one kind
  MemItems,       \* numbered in the order of the request
  MemMedia,       \* "image" or "video", for drafts
  MemRetryLimit   \* AnalyzeImageFailureRetryCount

VARIABLES
  memKind,        \* "draft" or "patrol"
  memMap,         \* jobs a poll can find
  memExpired,     \* jobs past their lifetime
  memItem,        \* the items' status as shown
  memEvent,       \* items shown with an event
  memRow,         \* the job's status and counters as shown
  memAt,          \* where the runner is
  memNow,         \* the item at work, and its result
  memQueue, memRetry, memRound,
  memEvents       \* alarm events in the database for an item of a job

memShown == <<memItem, memEvent, memRow>>
memLoop == <<memAt, memNow, memQueue, memRetry, memRound>>
memVars == <<memKind, memMap, memExpired, memShown, memLoop, memEvents>>

ASSUME MemAssumption ==
  /\ MemItems \subseteq Nat /\ IsFiniteSet(MemItems) /\ MemItems # {} /\ IsFiniteSet(MemJobs)
  /\ MemMedia \in [MemItems -> {"image", "video"}] /\ MemRetryLimit \in Nat

Ended == {"completed", "partial_failed", "failed"}
ByStatus(items, status) == {i \in MemItems : items[i] = status}

\* recompute...JobLocked: unlike a job of the database, a job is pending as long
\* as one of its items is.
Recomputed(items, shown) ==
  LET good == Cardinality(ByStatus(items, "success"))
      bad == Cardinality(ByStatus(items, "failed"))
  IN  [success |-> good, failed |-> bad, alarms |-> Cardinality(shown),
       status |-> IF ByStatus(items, "pending") # {} THEN "pending"
                  ELSE IF ByStatus(items, "running") # {} THEN "running"
                  ELSE IF bad = 0 THEN "completed" ELSE IF good > 0 THEN "partial_failed" ELSE "failed"]

MemInit ==
  /\ memKind \in {"draft", "patrol"}
  /\ memMap = {} /\ memExpired = {}
  /\ memItem = [j \in MemJobs |-> [i \in MemItems |-> "none"]]
  /\ memEvent = [j \in MemJobs |-> {}]
  /\ memRow = [j \in MemJobs |-> [success |-> 0, failed |-> 0, alarms |-> 0, status |-> "none"]]
  /\ memAt = [j \in MemJobs |-> "none"] /\ memNow = [j \in MemJobs |-> "none"]
  /\ memQueue = [j \in MemJobs |-> {}] /\ memRetry = [j \in MemJobs |-> {}]
  /\ memRound = [j \in MemJobs |-> 0]
  /\ memEvents = [j \in MemJobs |-> [i \in MemItems |-> 0]]

MemGo(j, step) == memAt' = [memAt EXCEPT ![j] = step]
Show(j, i, status) == memItem' = [memItem EXCEPT ![j][i] = status]
Turn(j, i) == i \in memQueue[j] /\ \A k \in memQueue[j] : i <= k
-----------------------------------------------------------------------------
(* Requests.                                                               *)

\* A draft's upload may fail; a patrol's cameras are looked up by the runner.
MemCreate(j) ==
  /\ memAt[j] = "none"
  /\ \E saved \in SUBSET MemItems :
       /\ memKind = "patrol" => saved = MemItems
       /\ memItem' = [memItem EXCEPT ![j] =
                        [i \in MemItems |-> IF i \in saved THEN "pending" ELSE "failed"]]
       /\ memRow' = [memRow EXCEPT
                       ![j] = [success |-> 0, failed |-> Cardinality(MemItems \ saved), alarms |-> 0,
                               status |-> IF saved = {} THEN "failed" ELSE "pending"]]
       /\ memQueue' = [memQueue EXCEPT ![j] = saved]
       /\ MemGo(j, IF saved = {} THEN "ended" ELSE "start")
  \* What has expired is purged first.
  /\ memMap' = (memMap \ memExpired) \cup {j}
  /\ UNCHANGED <<memKind, memExpired, memEvent, memNow, memRetry, memRound, memEvents>>

\* Half an hour after the creation, whatever the runner does.
MemExpire(j) ==
  /\ memAt[j] # "none" /\ j \notin memExpired
  /\ memExpired' = memExpired \cup {j}
  /\ UNCHANGED <<memKind, memMap, memShown, memLoop, memEvents>>

\* A poll drops a job whose time is up.
MemPoll(j) ==
  /\ j \in memMap \cap memExpired
  /\ memMap' = memMap \ {j}
  /\ UNCHANGED <<memKind, memExpired, memShown, memLoop, memEvents>>
-----------------------------------------------------------------------------
(* The runner.  It looks its job up once and keeps it.                     *)

MemStart(j) ==
  /\ memAt[j] = "start"
  /\ IF j \in memMap \ memExpired
     THEN /\ memRow' = [memRow EXCEPT ![j].status = "running"]
          /\ MemGo(j, "next") /\ UNCHANGED memMap
     ELSE MemGo(j, "lost") /\ memMap' = memMap \ {j} /\ UNCHANGED memRow
  /\ UNCHANGED <<memKind, memExpired, memItem, memEvent, memNow, memQueue, memRetry,
                 memRound, memEvents>>

\* The item is shown as running, in the first round; then it is analysed.
MemMark(j, i) ==
  /\ memAt[j] = "next" /\ Turn(j, i)
  /\ IF memRound[j] = 0 THEN Show(j, i, "running") ELSE UNCHANGED memItem
  /\ MemGo(j, "analyse")
  /\ UNCHANGED <<memKind, memMap, memExpired, memEvent, memRow, memNow, memQueue, memRetry,
                 memRound, memEvents>>

\* The camera or file, the quota, the AI service.  A failure of a draft without an
\* error message is shown as a success.
MemAnalyse(j, i) ==
  /\ memAt[j] = "analyse" /\ Turn(j, i)
  /\ \E result \in {"success", "failed"}
           \cup (IF memKind = "patrol" THEN {"alarm"} ELSE {})
           \cup (IF memKind = "patrol" \/ MemMedia[i] = "image" THEN {"again"} ELSE {}) :
       /\ memNow' = [memNow EXCEPT ![j] = result]
       /\ MemGo(j, IF result = "alarm" THEN "event" ELSE "persist")
  /\ UNCHANGED <<memKind, memMap, memExpired, memShown, memQueue, memRetry, memRound, memEvents>>

\* createCamera2PatrolEvent, which may fail, as may the saving of the snapshot.
MemCreateEvent(j, i) ==
  /\ memAt[j] = "event" /\ Turn(j, i)
  /\ \/ memEvents' = [memEvents EXCEPT ![j][i] = @ + 1] /\ UNCHANGED memNow
     \/ memNow' = [memNow EXCEPT ![j] = "failed"] /\ UNCHANGED memEvents
  /\ MemGo(j, "persist")
  /\ UNCHANGED <<memKind, memMap, memExpired, memShown, memQueue, memRetry, memRound>>

Again(j) == memNow[j] = "again" /\ memRound[j] < MemRetryLimit

\* Mutant: an item that waits for its retry is shown as failed.
MemPersistFailed(j, i) ==
  /\ memAt[j] = "persist" /\ Turn(j, i)
  /\ IF Again(j)
     THEN /\ Show(j, i, "failed")
          /\ memRetry' = [memRetry EXCEPT ![j] = @ \cup {i}] /\ UNCHANGED memEvent
     ELSE /\ Show(j, i, IF memNow[j] \in {"success", "alarm"} THEN "success" ELSE "failed")
          /\ memEvent' = IF memNow[j] = "alarm" THEN [memEvent EXCEPT ![j] = @ \cup {i}] ELSE memEvent
          /\ UNCHANGED memRetry
  /\ memRow' = [memRow EXCEPT ![j] = Recomputed(memItem'[j], memEvent'[j])]
  /\ memQueue' = [memQueue EXCEPT ![j] = @ \ {i}]
  /\ MemGo(j, "next")
  /\ UNCHANGED <<memKind, memMap, memExpired, memNow, memRound, memEvents>>

\* Under the job's lock: the result, or the mark for a retry, and the counters.
MemPersist(j, i) ==
  /\ memAt[j] = "persist" /\ Turn(j, i)
  /\ IF Again(j)
     THEN /\ Show(j, i, "running")
          /\ memRetry' = [memRetry EXCEPT ![j] = @ \cup {i}] /\ UNCHANGED memEvent
     ELSE /\ Show(j, i, IF memNow[j] \in {"success", "alarm"} THEN "success" ELSE "failed")
          /\ memEvent' = IF memNow[j] = "alarm" THEN [memEvent EXCEPT ![j] = @ \cup {i}] ELSE memEvent
          /\ UNCHANGED memRetry
  /\ memRow' = [memRow EXCEPT ![j] = Recomputed(memItem'[j], memEvent'[j])]
  /\ memQueue' = [memQueue EXCEPT ![j] = @ \ {i}]
  /\ MemGo(j, "next")
  /\ UNCHANGED <<memKind, memMap, memExpired, memNow, memRound, memEvents>>

MemEndRound(j) ==
  /\ memAt[j] = "next" /\ memQueue[j] = {}
  /\ IF memRetry[j] # {} /\ memRound[j] < MemRetryLimit
     THEN /\ memQueue' = [memQueue EXCEPT ![j] = memRetry[j]]
          /\ memRetry' = [memRetry EXCEPT ![j] = {}]
          /\ memRound' = [memRound EXCEPT ![j] = @ + 1]
          /\ UNCHANGED memAt
     ELSE MemGo(j, "ended") /\ UNCHANGED <<memQueue, memRetry, memRound>>
  /\ UNCHANGED <<memKind, memMap, memExpired, memShown, memNow, memEvents>>
-----------------------------------------------------------------------------
MemRun(j) ==
  \/ MemStart(j) \/ MemEndRound(j)
  \/ \E i \in MemItems : MemMark(j, i) \/ MemAnalyse(j, i) \/ MemCreateEvent(j, i) \/ MemPersist(j, i)

MemNext == \E j \in MemJobs : MemCreate(j) \/ MemExpire(j) \/ MemPoll(j) \/ MemRun(j)
MemSpec == MemInit /\ [][MemNext]_memVars
-----------------------------------------------------------------------------
(* Properties.                                                             *)

\* A job shown as ended has no item left and none that waits for a retry, its
\* counters are those of its items, and the alarms it shows are the events that
\* the database has: none is created twice by a retry.
MemEndedIsTrue ==
  \A j \in MemJobs :
    memRow[j].status \in Ended =>
      /\ \A i \in MemItems : memItem[j][i] \in {"success", "failed"}
      /\ memRow[j] = Recomputed(memItem[j], memEvent[j])
      /\ \A i \in MemItems : memEvents[j][i] = IF i \in memEvent[j] THEN 1 ELSE 0

=============================================================================
