------------------------------- MODULE TestJobs -------------------------------
(* A test job of an algorithm (algorithm_test_jobs.go): uploaded images and    *)
(* videos become items, a runner hands them to goroutines under two limits,    *)
(* failed images are tried again in rounds, and everyone who has written an    *)
(* item brings the job's row up to date by a read and a later write.           *)
EXTENDS Naturals, FiniteSets

CONSTANTS
  JobItems,       \* numbered in the order of the upload
  Media,          \* "image" or "video"
  TotalSlots,     \* algorithmTestJobTotalConcurrency
  VideoSlots,     \* algorithmTestJobVideoConcurrency
  RetryLimit,     \* AnalyzeImageFailureRetryCount
  MaxJobFaults    \* bound: failing statements, and a crash of the server

VARIABLES
  jobRow,         \* the job's row: status and counters
  jobItem,        \* the items' rows
  jobRecords,     \* test records written for an item
  jobAt,          \* where the runner (0) and the items' goroutines are
  jobThen,        \* where the runner goes on after a refresh
  jobSnap,        \* what a refresh has read
  jobResult,      \* the answer a goroutine holds
  jobQueue,       \* items the runner has still to launch
  jobSlots,       \* items that hold a slot, the one the runner waits with included
  jobVideos,      \* items that hold a video slot
  jobRetry,       \* items for the next round
  jobRound,
  jobFaults

jobRows == <<jobRow, jobItem, jobRecords>>
jobLoop == <<jobQueue, jobSlots, jobVideos, jobRetry, jobRound>>
jobVars == <<jobRows, jobAt, jobThen, jobSnap, jobResult, jobLoop, jobFaults>>

ASSUME JobAssumption ==
  /\ JobItems \subseteq Nat \ {0} /\ IsFiniteSet(JobItems) /\ JobItems # {}
  /\ Media \in [JobItems -> {"image", "video"}]
  /\ TotalSlots \in Nat \ {0} /\ VideoSlots \in Nat \ {0}
  /\ RetryLimit \in Nat /\ MaxJobFaults \in Nat

Runner == 0
Procs == JobItems \cup {Runner}
-----------------------------------------------------------------------------
With(rows, status) == {i \in JobItems : rows[i] = status}
Over(rows) == With(rows, "success") \cup With(rows, "failed")

\* What refreshAlgorithmTestJobStatus writes for the items it has read.
\* Mutant: an item that waits for its retry does not count as unfinished.
SummaryFinished(rows) ==
  LET good == Cardinality(With(rows, "success"))
      bad == Cardinality(With(rows, "failed"))
      all == Cardinality(JobItems) - Cardinality(With(rows, "running") \cap jobRetry)
  IN  [success |-> good, failed |-> bad,
       status |-> IF good + bad = all
                  THEN IF bad = 0 THEN "completed" ELSE IF good = 0 THEN "failed" ELSE "partial_failed"
                  ELSE IF With(rows, "pending") # JobItems THEN "running" ELSE "pending"]

Summary(rows) ==
  LET good == Cardinality(With(rows, "success"))
      bad == Cardinality(With(rows, "failed"))
      all == Cardinality(JobItems)
  IN  [success |-> good, failed |-> bad,
       status |-> IF good + bad = all
                  THEN IF bad = 0 THEN "completed" ELSE IF good = 0 THEN "failed" ELSE "partial_failed"
                  ELSE IF With(rows, "pending") # JobItems THEN "running" ELSE "pending"]

JobInit ==
  /\ jobRow = [success |-> 0, failed |-> 0, status |-> "none"]
  /\ jobItem = [i \in JobItems |-> "none"] /\ jobRecords = [i \in JobItems |-> 0]
  /\ jobAt = [p \in Procs |-> "none"] /\ jobThen = "ended"
  /\ jobSnap = [p \in Procs |-> [i \in JobItems |-> "none"]]
  /\ jobResult = [i \in JobItems |-> "none"]
  /\ jobQueue = {} /\ jobSlots = {} /\ jobVideos = {} /\ jobRetry = {} /\ jobRound = 0
  /\ jobFaults = 0

JobFault == jobFaults < MaxJobFaults /\ jobFaults' = jobFaults + 1
Go(p, step) == jobAt' = [jobAt EXCEPT ![p] = step]
RefreshThen(step) == Go(Runner, "read") /\ jobThen' = step
Release(i) == jobSlots' = jobSlots \ {i} /\ jobVideos' = jobVideos \ {i}
-----------------------------------------------------------------------------
(* The request.                                                            *)

\* createAlgorithmTestJob: an upload that cannot be saved is a failed item.
JobCreate ==
  /\ jobRow.status = "none"
  /\ \E saved \in SUBSET JobItems :
       /\ jobItem' = [i \in JobItems |-> IF i \in saved THEN "pending" ELSE "failed"]
       /\ jobRow' = [success |-> 0, failed |-> Cardinality(JobItems \ saved),
                     status |-> IF saved = {} THEN "failed" ELSE "pending"]
       /\ Go(Runner, IF saved = {} THEN "ended" ELSE "load")
  /\ UNCHANGED <<jobRecords, jobThen, jobSnap, jobResult, jobLoop, jobFaults>>
-----------------------------------------------------------------------------
(* The runner.                                                             *)

\* failPendingAlgorithmTestJobItems: one statement, whose failure is ignored.
FailItems(items) ==
  \/ /\ jobItem' = [i \in JobItems |->
                      IF i \in items /\ jobItem[i] \in {"pending", "running"}
                      THEN "failed" ELSE jobItem[i]]
     /\ UNCHANGED jobFaults
  \/ JobFault /\ UNCHANGED jobItem

\* The job, its algorithm and its items are loaded.  The algorithm may be gone.
JobLoad ==
  /\ jobAt[Runner] = "load"
  /\ \/ RefreshThen("config") /\ UNCHANGED <<jobItem, jobFaults>>
     \/ RefreshThen("ended") /\ FailItems(JobItems)
     \/ JobFault /\ Go(Runner, "ended") /\ UNCHANGED <<jobItem, jobThen>>
  /\ UNCHANGED <<jobRow, jobRecords, jobSnap, jobResult, jobLoop>>

\* The configuration of the analysis, which may be incomplete.
JobConfig ==
  /\ jobAt[Runner] = "config"
  /\ \/ Go(Runner, "prompt") /\ UNCHANGED <<jobItem, jobThen, jobFaults>>
     \/ RefreshThen("ended") /\ FailItems(JobItems)
  /\ UNCHANGED <<jobRow, jobRecords, jobSnap, jobResult, jobLoop>>

\* Without a prompt for videos only the images are tested.
JobPrompt ==
  /\ jobAt[Runner] = "prompt"
  /\ \/ Go(Runner, "runnable") /\ UNCHANGED <<jobItem, jobThen, jobFaults>>
     \/ /\ \E i \in With(jobItem, "pending") : Media[i] = "video"
        /\ RefreshThen("runnable") /\ FailItems({i \in JobItems : Media[i] = "video"})
  /\ UNCHANGED <<jobRow, jobRecords, jobSnap, jobResult, jobLoop>>

JobRunnable ==
  /\ jobAt[Runner] = "runnable"
  /\ \/ /\ With(jobItem, "pending") = {}
        /\ RefreshThen("ended") /\ UNCHANGED <<jobRow, jobQueue, jobFaults>>
     \/ /\ With(jobItem, "pending") # {}
        /\ jobQueue' = With(jobItem, "pending")
        /\ Go(Runner, "launch") /\ UNCHANGED jobThen
        /\ \/ jobRow' = [jobRow EXCEPT !.status = "running"] /\ UNCHANGED jobFaults
           \/ JobFault /\ UNCHANGED jobRow
     \/ JobFault /\ Go(Runner, "ended") /\ UNCHANGED <<jobRow, jobThen, jobQueue>>
  /\ UNCHANGED <<jobItem, jobRecords, jobSnap, jobResult, jobSlots, jobVideos, jobRetry, jobRound>>

First(i) == i \in jobQueue /\ \A j \in jobQueue : i <= j

\* acquire: the runner blocks until a slot is free, and for a video, holding that
\* slot, until the video slot is.
JobAcquire(i) ==
  /\ jobAt[Runner] = "launch" /\ First(i)
  /\ Cardinality(jobSlots) < TotalSlots
  /\ jobSlots' = jobSlots \cup {i}
  /\ Go(Runner, IF Media[i] = "video" THEN "video" ELSE "start")
  /\ UNCHANGED <<jobRows, jobThen, jobSnap, jobResult, jobQueue, jobVideos, jobRetry,
                 jobRound, jobFaults>>

JobAcquireVideo(i) ==
  /\ jobAt[Runner] = "video" /\ First(i)
  /\ Cardinality(jobVideos) < VideoSlots
  /\ jobVideos' = jobVideos \cup {i}
  /\ Go(Runner, "start")
  /\ UNCHANGED <<jobRows, jobThen, jobSnap, jobResult, jobQueue, jobSlots, jobRetry,
                 jobRound, jobFaults>>

\* The item is marked running, in the first round, and its goroutine starts.
JobStart(i) ==
  /\ jobAt[Runner] = "start" /\ First(i)
  /\ jobQueue' = jobQueue \ {i}
  /\ \/ /\ jobItem' = IF jobRound = 0 /\ jobItem[i] = "pending"
                      THEN [jobItem EXCEPT ![i] = "running"] ELSE jobItem
        /\ jobAt' = [jobAt EXCEPT ![Runner] = "launch", ![i] = "analyse"]
        /\ UNCHANGED <<jobSlots, jobVideos, jobFaults>>
     \/ /\ jobRound = 0 /\ JobFault
        /\ Release(i) /\ Go(Runner, "launch") /\ UNCHANGED jobItem
  /\ UNCHANGED <<jobRow, jobRecords, jobThen, jobSnap, jobResult, jobRetry, jobRound>>

\* Mutant: the round ends the job without a last refresh.
JobWaitNoRefresh ==
  /\ jobAt[Runner] = "launch" /\ jobQueue = {}
  /\ \A i \in JobItems : jobAt[i] = "none"
  /\ IF jobRetry # {} /\ jobRound < RetryLimit
     THEN /\ jobQueue' = jobRetry /\ jobRetry' = {} /\ jobRound' = jobRound + 1
          /\ UNCHANGED <<jobAt, jobThen>>
     ELSE Go(Runner, "ended") /\ UNCHANGED <<jobThen, jobQueue, jobRetry, jobRound>>
  /\ UNCHANGED <<jobRows, jobSnap, jobResult, jobSlots, jobVideos, jobFaults>>

\* wg.Wait, then another round for the images that may be tried again.
JobWait ==
  /\ jobAt[Runner] = "launch" /\ jobQueue = {}
  /\ \A i \in JobItems : jobAt[i] = "none"
  /\ IF jobRetry # {} /\ jobRound < RetryLimit
     THEN /\ jobQueue' = jobRetry /\ jobRetry' = {} /\ jobRound' = jobRound + 1
          /\ UNCHANGED <<jobAt, jobThen>>
     ELSE RefreshThen("ended") /\ UNCHANGED <<jobQueue, jobRetry, jobRound>>
  /\ UNCHANGED <<jobRows, jobSnap, jobResult, jobSlots, jobVideos, jobFaults>>
-----------------------------------------------------------------------------
(* The goroutine of an item.                                               *)

Recorded(i) ==
  \/ UNCHANGED jobRecords
  \/ jobRecords' = [jobRecords EXCEPT ![i] = @ + 1]

\* The quota, the file, the AI service's answer or its timeout.  A video has its
\* record written at once if the service was asked.
JobAnalyse(i) ==
  /\ jobAt[i] = "analyse"
  /\ \/ \E result \in {"success", "failed"} :
          jobResult' = [jobResult EXCEPT ![i] = result]
     \/ Media[i] = "image" /\ jobResult' = [jobResult EXCEPT ![i] = "again"]
  /\ Go(i, IF jobResult'[i] = "again" /\ jobRound < RetryLimit THEN "retrying"
           ELSE IF Media[i] = "image" THEN "record" ELSE "persist")
  /\ IF Media[i] = "video" THEN Recorded(i) ELSE UNCHANGED jobRecords
  /\ UNCHANGED <<jobRow, jobItem, jobThen, jobSnap, jobLoop, jobFaults>>

\* The item stays running until its retry; if that cannot be written it has failed.
MarkRetrying(i) ==
  /\ jobAt[i] = "retrying"
  /\ \/ /\ jobItem' = [jobItem EXCEPT ![i] = "running"]
        /\ jobRetry' = jobRetry \cup {i}
        /\ Go(i, "read") /\ UNCHANGED jobFaults
     \/ JobFault /\ Go(i, "record") /\ UNCHANGED <<jobItem, jobRetry>>
  /\ UNCHANGED <<jobRow, jobRecords, jobThen, jobSnap, jobResult, jobQueue, jobSlots,
                 jobVideos, jobRound>>

\* The record of an image, without which the item goes on.
JobRecord(i) ==
  /\ jobAt[i] = "record"
  /\ Recorded(i)
  /\ Go(i, "persist")
  /\ UNCHANGED <<jobRow, jobItem, jobThen, jobSnap, jobResult, jobLoop, jobFaults>>

\* The item ends.  If that cannot be written it stays as it is, for good.
JobPersist(i) ==
  /\ jobAt[i] = "persist"
  /\ \/ /\ jobItem' = [jobItem EXCEPT
                         ![i] = IF jobResult[i] = "success" THEN "success" ELSE "failed"]
        /\ Go(i, "read") /\ UNCHANGED <<jobSlots, jobVideos, jobFaults>>
     \/ JobFault /\ Release(i) /\ Go(i, "none") /\ UNCHANGED jobItem
  /\ UNCHANGED <<jobRow, jobRecords, jobThen, jobSnap, jobResult, jobQueue, jobRetry, jobRound>>
-----------------------------------------------------------------------------
(* refreshAlgorithmTestJobStatus: the items are read, the row is written later. *)

\* The runner goes on; a goroutine gives its slots back and ends.
Leave(p) ==
  IF p = Runner THEN Go(p, jobThen) /\ UNCHANGED <<jobSlots, jobVideos>>
  ELSE Go(p, "none") /\ Release(p)

RefreshRead(p) ==
  /\ jobAt[p] = "read"
  /\ \/ /\ jobSnap' = [jobSnap EXCEPT ![p] = jobItem]
        /\ Go(p, "write") /\ UNCHANGED <<jobSlots, jobVideos, jobFaults>>
     \/ JobFault /\ Leave(p) /\ UNCHANGED jobSnap
  /\ UNCHANGED <<jobRows, jobThen, jobResult, jobQueue, jobRetry, jobRound>>

RefreshWrite(p) ==
  /\ jobAt[p] = "write"
  /\ \/ jobRow' = Summary(jobSnap[p]) /\ UNCHANGED jobFaults
     \/ JobFault /\ UNCHANGED jobRow
  /\ Leave(p)
  /\ UNCHANGED <<jobItem, jobRecords, jobThen, jobSnap, jobResult, jobQueue, jobRetry, jobRound>>

\* The server dies, and with it the runner and its goroutines.  Nothing takes the
\* job up again.
JobCrash ==
  /\ jobAt[Runner] \notin {"none", "ended"} /\ JobFault
  /\ jobAt' = [p \in Procs |-> IF p = Runner THEN "ended" ELSE "none"]
  /\ jobQueue' = {} /\ jobSlots' = {} /\ jobVideos' = {} /\ jobRetry' = {}
  /\ UNCHANGED <<jobRows, jobThen, jobSnap, jobResult, jobRound>>
-----------------------------------------------------------------------------
RunnerStep ==
  \/ JobLoad \/ JobConfig \/ JobPrompt \/ JobRunnable \/ JobWait
  \/ \E i \in JobItems : JobAcquire(i) \/ JobAcquireVideo(i) \/ JobStart(i)
  \/ RefreshRead(Runner) \/ RefreshWrite(Runner)
ItemStep(i) ==
  \/ JobAnalyse(i) \/ MarkRetrying(i) \/ JobRecord(i) \/ JobPersist(i)
  \/ RefreshRead(i) \/ RefreshWrite(i)

JobWork == RunnerStep \/ \E i \in JobItems : ItemStep(i)
JobNext == JobCreate \/ JobWork \/ JobCrash

JobSpec == JobInit /\ [][JobNext]_jobVars

\* Goroutines are scheduled, and every call to the AI service returns (timeouts).
JobFairness == WF_jobVars(JobWork)
-----------------------------------------------------------------------------
(* Properties.                                                             *)

JobIdle == \A p \in Procs : jobAt[p] = IF p = Runner THEN "ended" ELSE "none"

\* A job whose row says that it is over is over: every item has ended and the
\* status and counters are those of the items, however late a refresh that had
\* read an earlier state writes, whatever fails and across a crash; and a retry
\* leaves no second record.
JobEndedIsTrue ==
  jobRow.status \in {"completed", "partial_failed", "failed"} =>
    /\ Over(jobItem) = JobItems /\ jobRow = Summary(jobItem)
    /\ \A i \in JobItems : jobRecords[i] <= 1

\* Every job comes to rest although videos hold a slot of all while they wait, and
\* if no statement failed and the server lived, with all items ended and its row
\* true, whatever stale refreshes wrote before.
JobSettles ==
  []<>(jobRow.status # "none" =>
         JobIdle /\ (jobFaults = 0 => Over(jobItem) = JobItems /\ jobRow = Summary(jobItem)))
=============================================================================
