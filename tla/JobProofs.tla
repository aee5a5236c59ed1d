------------------------------- MODULE JobProofs -------------------------------
(* Proofs about what runs in the background: a job that is shown as ended has ended, *)
(* no segment of an open window is removed, a recorder that runs is known, a          *)
(* broadcast reaches who is there, and a recovery loses no task.                      *)
EXTENDS TestJobs, MemoryJobs, AlarmBuffer, AlertHub, StartupRecovery,
        FiniteSetTheorems, WellFoundedInduction, TLAPS
-----------------------------------------------------------------------------
(* Jobs in memory.                                                              *)

MemStatus == {"none", "pending", "running", "success", "failed"}
MemRowType ==
  [success : Nat, failed : Nat, alarms : Nat,
   status : {"none", "pending", "running", "completed", "partial_failed", "failed"}]

MemTypeOK ==
  /\ memItem \in [MemJobs -> [MemItems -> MemStatus]]
  /\ memEvent \in [MemJobs -> SUBSET MemItems]
  /\ memRow \in [MemJobs -> MemRowType]
  /\ memAt \in [MemJobs -> {"none", "start", "lost", "next", "analyse", "event", "persist", "ended"}]
  /\ memNow \in [MemJobs -> {"none", "success", "failed", "alarm", "again"}]
  /\ memQueue \in [MemJobs -> SUBSET MemItems] /\ memRetry \in [MemJobs -> SUBSET MemItems]
  /\ memRound \in [MemJobs -> Nat]
  /\ memEvents \in [MemJobs -> [MemItems -> Nat]]

\* The item at work has an event in the database that it does not show yet.
Raised(j, i) == memAt[j] = "persist" /\ memNow[j] = "alarm" /\ Turn(j, i)

\* A job before it is created, items that are left or wait for a retry, the events of
\* the items, and what the job shows at its end.
MemJobInv(j) ==
  /\ memAt[j] = "none" => /\ memRow[j].status = "none" /\ memQueue[j] = {} /\ memRetry[j] = {}
                          /\ memEvent[j] = {}
  /\ memAt[j] # "none" => \A i \in MemItems : memItem[j][i] # "none"
  /\ memAt[j] = "event" => memNow[j] = "alarm"
  /\ \A i \in memQueue[j] \cup memRetry[j] : memItem[j][i] \in {"pending", "running"} /\ i \notin memEvent[j]
  /\ memQueue[j] \cap memRetry[j] = {}
  /\ \A i \in MemItems : memEvents[j][i] = IF i \in memEvent[j] \/ Raised(j, i) THEN 1 ELSE 0
  /\ memRow[j].status \in Ended =>
       /\ \A i \in MemItems : memItem[j][i] \in {"success", "failed"}
       /\ memRow[j] = Recomputed(memItem[j], memEvent[j])

MemInv == MemTypeOK /\ \A j \in MemJobs : MemJobInv(j)

\* A job shows numbers, and an end only if no item is left.
LEMMA RecomputedFacts ==
  ASSUME NEW items \in [MemItems -> MemStatus], NEW shown \in SUBSET MemItems
  PROVE  /\ Recomputed(items, shown) \in MemRowType
         /\ Recomputed(items, shown).status \in Ended =>
              \A i \in MemItems : items[i] \notin {"pending", "running"}
<1> USE MemAssumption
<1>1. \A kind : IsFiniteSet(ByStatus(items, kind)) /\ Cardinality(ByStatus(items, kind)) \in Nat
  <2> TAKE kind
  <2>1. ByStatus(items, kind) \subseteq MemItems
    BY DEF ByStatus
  <2> QED BY <2>1, FS_Subset, FS_CardinalityType
<1>2. Cardinality(shown) \in Nat
  BY FS_Subset, FS_CardinalityType
<1> DEFINE row == Recomputed(items, shown)
<1>3. row.status \in {"pending", "running", "completed", "partial_failed", "failed"}
  BY DEF Recomputed
<1>4. row.success \in Nat /\ row.failed \in Nat /\ row.alarms \in Nat
  BY <1>1, <1>2 DEF Recomputed
<1>5. row = [success |-> row.success, failed |-> row.failed, alarms |-> row.alarms, status |-> row.status]
  BY DEF Recomputed
<1>6. row \in MemRowType
  <2> HIDE DEF row
  <2> QED BY <1>3, <1>4, <1>5 DEF MemRowType
<1>7. row.status \in Ended => ByStatus(items, "pending") = {} /\ ByStatus(items, "running") = {}
  BY DEF Recomputed, Ended
<1> QED BY <1>6, <1>7 DEF ByStatus

\* A job whose uploads have all failed is over.
LEMMA AllFailed ==
  ASSUME NEW items \in [MemItems -> MemStatus], \A i \in MemItems : items[i] = "failed"
  PROVE  Recomputed(items, {}) =
           [success |-> 0, failed |-> Cardinality(MemItems), alarms |-> 0, status |-> "failed"]
<1> USE MemAssumption
<1>1. /\ ByStatus(items, "success") = {} /\ ByStatus(items, "pending") = {} /\ ByStatus(items, "running") = {}
      /\ ByStatus(items, "failed") = MemItems
  BY DEF ByStatus
<1>2. Cardinality({}) = 0 /\ Cardinality(MemItems) \in Nat /\ Cardinality(MemItems) # 0
  BY FS_EmptySet, FS_CardinalityType
<1> QED BY <1>1, <1>2 DEF Recomputed

\* An item gets a status, and no other.
LEMMA ShowFacts ==
  ASSUME MemTypeOK, NEW j \in MemJobs, NEW i \in MemItems, NEW status \in MemStatus, Show(j, i, status)
  PROVE  /\ memItem' \in [MemJobs -> [MemItems -> MemStatus]]
         /\ memItem'[j][i] = status /\ \A k \in MemItems \ {i} : memItem'[j][k] = memItem[j][k]
         /\ \A k \in MemJobs \ {j} : memItem'[k] = memItem[k]
<1> DEFINE mine == [memItem[j] EXCEPT ![i] = status]
<1>1. mine \in [MemItems -> MemStatus] /\ mine[i] = status /\ \A k \in MemItems \ {i} : mine[k] = memItem[j][k]
  BY DEF MemTypeOK
<1>2. memItem' = [memItem EXCEPT ![j] = mine]
  BY DEF Show
<1> HIDE DEF mine
<1> QED BY <1>1, <1>2 DEF MemTypeOK

\* Every step keeps the types.
LEMMA MemTypeStep ==
  ASSUME MemTypeOK, [MemNext]_memVars
  PROVE  MemTypeOK'
<1> USE MemAssumption DEF memShown, memLoop, MemGo
<1>1. CASE UNCHANGED memVars
  BY <1>1 DEF memVars, MemTypeOK
<1>2. ASSUME NEW j \in MemJobs, MemCreate(j)
      PROVE  MemTypeOK'
  <2>1. PICK saved \in SUBSET MemItems :
          /\ memItem' = [memItem EXCEPT ![j] = [i \in MemItems |-> IF i \in saved THEN "pending" ELSE "failed"]]
          /\ memRow' = [memRow EXCEPT
                          ![j] = [success |-> 0, failed |-> Cardinality(MemItems \ saved), alarms |-> 0,
                                  status |-> IF saved = {} THEN "failed" ELSE "pending"]]
          /\ memQueue' = [memQueue EXCEPT ![j] = saved]
          /\ MemGo(j, IF saved = {} THEN "ended" ELSE "start")
    BY <1>2 DEF MemCreate
  <2>2. Cardinality(MemItems \ saved) \in Nat
    BY FS_Subset, FS_CardinalityType
  <2>3. memRow' \in [MemJobs -> MemRowType]
    BY <2>1, <2>2 DEF MemTypeOK, MemRowType
  <2>4. [i \in MemItems |-> IF i \in saved THEN "pending" ELSE "failed"] \in [MemItems -> MemStatus]
    BY DEF MemStatus
  <2>5. memItem' \in [MemJobs -> [MemItems -> MemStatus]]
    BY <2>1, <2>4 DEF MemTypeOK
  <2> QED BY <1>2, <2>1, <2>3, <2>5 DEF MemCreate, MemTypeOK
<1>3. ASSUME NEW j \in MemJobs, MemExpire(j) \/ MemPoll(j)
      PROVE  MemTypeOK'
  BY <1>3 DEF MemExpire, MemPoll, MemTypeOK
<1>4. ASSUME NEW j \in MemJobs, MemStart(j)
      PROVE  MemTypeOK'
  <2>1. [memRow[j] EXCEPT !.status = "running"] \in MemRowType
    <3>1. memRow[j] \in MemRowType
      BY DEF MemTypeOK
    <3> QED BY <3>1 DEF MemRowType
  <2>2. memRow' \in [MemJobs -> MemRowType]
    BY <1>4, <2>1 DEF MemStart, MemTypeOK
  <2>3. memAt' \in [MemJobs -> {"none", "start", "lost", "next", "analyse", "event", "persist", "ended"}]
    BY <1>4 DEF MemStart, MemTypeOK
  <2> QED BY <1>4, <2>2, <2>3 DEF MemStart, MemTypeOK
<1>5. ASSUME NEW j \in MemJobs, MemEndRound(j)
      PROVE  MemTypeOK'
  <2>1. CASE MemGo(j, "ended") /\ UNCHANGED <<memQueue, memRetry, memRound>>
    BY <1>5, <2>1 DEF MemEndRound, MemTypeOK
  <2>2. CASE /\ memQueue' = [memQueue EXCEPT ![j] = memRetry[j]]
             /\ memRetry' = [memRetry EXCEPT ![j] = {}]
             /\ memRound' = [memRound EXCEPT ![j] = @ + 1]
             /\ UNCHANGED memAt
    <3>1. memQueue' \in [MemJobs -> SUBSET MemItems] /\ memRetry' \in [MemJobs -> SUBSET MemItems]
      BY <2>2 DEF MemTypeOK
    <3>2. memRound' \in [MemJobs -> Nat]
      BY <2>2 DEF MemTypeOK
    <3> QED BY <1>5, <2>2, <3>1, <3>2 DEF MemEndRound, MemTypeOK
  <2> QED BY <1>5, <2>1, <2>2 DEF MemEndRound
<1>6. ASSUME NEW j \in MemJobs, NEW i \in MemItems, MemMark(j, i)
      PROVE  MemTypeOK'
  <2>1. memItem' \in [MemJobs -> [MemItems -> MemStatus]]
    <3>1. "running" \in MemStatus
      BY DEF MemStatus
    <3> QED BY <1>6, <3>1, ShowFacts DEF MemMark, MemTypeOK
  <2> QED BY <1>6, <2>1 DEF MemMark, MemTypeOK
<1>7. ASSUME NEW j \in MemJobs, NEW i \in MemItems, MemAnalyse(j, i)
      PROVE  MemTypeOK'
  <2>1. PICK result \in {"success", "failed", "alarm", "again"} :
          /\ memNow' = [memNow EXCEPT ![j] = result]
          /\ MemGo(j, IF result = "alarm" THEN "event" ELSE "persist")
    BY <1>7 DEF MemAnalyse
  <2> QED BY <1>7, <2>1 DEF MemAnalyse, MemTypeOK
<1>8. ASSUME NEW j \in MemJobs, NEW i \in MemItems, MemCreateEvent(j, i)
      PROVE  MemTypeOK'
  <2>1. memEvents' \in [MemJobs -> [MemItems -> Nat]]
    <3>1. [memEvents[j] EXCEPT ![i] = @ + 1] \in [MemItems -> Nat]
      BY DEF MemTypeOK
    <3>2. memEvents' = memEvents \/ memEvents' = [memEvents EXCEPT ![j] = [memEvents[j] EXCEPT ![i] = @ + 1]]
      BY <1>8 DEF MemCreateEvent
    <3> QED BY <3>1, <3>2 DEF MemTypeOK
  <2>2. memNow' \in [MemJobs -> {"none", "success", "failed", "alarm", "again"}]
    BY <1>8 DEF MemCreateEvent, MemTypeOK
  <2> QED BY <1>8, <2>1, <2>2 DEF MemCreateEvent, MemTypeOK
<1>9. ASSUME NEW j \in MemJobs, NEW i \in MemItems, MemPersist(j, i)
      PROVE  MemTypeOK'
  <2>1. memItem' \in [MemJobs -> [MemItems -> MemStatus]]
    <3>1. PICK status \in MemStatus : Show(j, i, status)
      BY <1>9 DEF MemPersist, MemStatus
    <3> QED BY <3>1, ShowFacts
  <2>2. memEvent' \in [MemJobs -> SUBSET MemItems] /\ memRetry' \in [MemJobs -> SUBSET MemItems]
    <3>1. memEvent' = memEvent \/ memEvent' = [memEvent EXCEPT ![j] = @ \cup {i}]
      BY <1>9 DEF MemPersist
    <3>2. memRetry' = memRetry \/ memRetry' = [memRetry EXCEPT ![j] = @ \cup {i}]
      BY <1>9 DEF MemPersist
    <3>3. memEvent[j] \cup {i} \in SUBSET MemItems /\ memRetry[j] \cup {i} \in SUBSET MemItems
      BY DEF MemTypeOK
    <3>4. memEvent' \in [MemJobs -> SUBSET MemItems]
      BY <3>1, <3>3 DEF MemTypeOK
    <3>5. memRetry' \in [MemJobs -> SUBSET MemItems]
      BY <3>2, <3>3 DEF MemTypeOK
    <3> QED BY <3>4, <3>5
  <2>3. Recomputed(memItem'[j], memEvent'[j]) \in MemRowType
    BY <2>1, <2>2, RecomputedFacts
  <2>4. memRow' \in [MemJobs -> MemRowType]
    BY <1>9, <2>3 DEF MemPersist, MemTypeOK
  <2>5. memQueue' \in [MemJobs -> SUBSET MemItems]
    BY <1>9 DEF MemPersist, MemTypeOK
  <2> QED BY <1>9, <2>1, <2>2, <2>4, <2>5 DEF MemPersist, MemTypeOK
<1> QED BY <1>1, <1>2, <1>3, <1>4, <1>5, <1>6, <1>7, <1>8, <1>9 DEF MemNext, MemRun

\* A job is touched by its own steps only.
MemOthers(j) ==
  \A k \in MemJobs \ {j} :
    /\ memItem'[k] = memItem[k] /\ memEvent'[k] = memEvent[k] /\ memRow'[k] = memRow[k]
    /\ memAt'[k] = memAt[k] /\ memNow'[k] = memNow[k]
    /\ memQueue'[k] = memQueue[k] /\ memRetry'[k] = memRetry[k] /\ memEvents'[k] = memEvents[k]

\* A step of a job leaves the other jobs alone.
LEMMA MemOwn ==
  ASSUME MemInv, MemTypeOK', NEW j \in MemJobs, MemCreate(j) \/ MemExpire(j) \/ MemPoll(j) \/ MemRun(j)
  PROVE  MemOthers(j)
<1> USE DEF memShown, memLoop, MemGo, Show, MemInv, MemTypeOK, MemOthers
<1>1. CASE MemCreate(j)
  BY <1>1 DEF MemCreate
<1>2. CASE MemExpire(j) \/ MemPoll(j)
  BY <1>2 DEF MemExpire, MemPoll
<1>3. CASE MemStart(j)
  BY <1>3 DEF MemStart
<1>4. CASE MemEndRound(j)
  BY <1>4 DEF MemEndRound
<1>5. ASSUME NEW i \in MemItems, MemMark(j, i)
      PROVE  MemOthers(j)
  BY <1>5 DEF MemMark
<1>6. ASSUME NEW i \in MemItems, MemAnalyse(j, i)
      PROVE  MemOthers(j)
  BY <1>6 DEF MemAnalyse
<1>7. ASSUME NEW i \in MemItems, MemCreateEvent(j, i)
      PROVE  MemOthers(j)
  BY <1>7 DEF MemCreateEvent
<1>8. ASSUME NEW i \in MemItems, MemPersist(j, i)
      PROVE  MemOthers(j)
  <2>1. memAt' = [memAt EXCEPT ![j] = "next"] /\ memNow' = memNow /\ memEvents' = memEvents
    BY <1>8 DEF MemPersist
  <2>2. \A k \in MemJobs \ {j} : memItem'[k] = memItem[k] /\ memEvent'[k] = memEvent[k] /\ memRetry'[k] = memRetry[k]
    BY <1>8 DEF MemPersist
  <2>3. \A k \in MemJobs \ {j} : memRow'[k] = memRow[k] /\ memQueue'[k] = memQueue[k]
    BY <1>8 DEF MemPersist
  <2> QED BY <2>1, <2>2, <2>3
<1> QED BY <1>1, <1>2, <1>3, <1>4, <1>5, <1>6, <1>7, <1>8 DEF MemRun

\* What a step leaves alone stays true.
LEMMA MemOtherJobs ==
  ASSUME MemInv, NEW j \in MemJobs, MemOthers(j), NEW k \in MemJobs \ {j}
  PROVE  MemJobInv(k)'
BY DEF MemInv, MemOthers, MemJobInv, Raised, Turn

\* Only one item has its turn.
LEMMA OneTurn ==
  ASSUME NEW j \in MemJobs, NEW i \in MemItems, NEW k \in MemItems, Turn(j, i), Turn(j, k)
  PROVE  i = k
<1>1. i \in Nat /\ k \in Nat /\ i <= k /\ k <= i
  BY MemAssumption DEF Turn
<1> QED BY <1>1

\* A step of a job keeps the invariant of that job.
LEMMA MemJobStep ==
  ASSUME MemInv, MemTypeOK', NEW j \in MemJobs, MemCreate(j) \/ MemExpire(j) \/ MemPoll(j) \/ MemRun(j)
  PROVE  MemJobInv(j)'
<1> USE MemAssumption DEF memShown, memLoop, MemGo
<1>1. MemTypeOK /\ MemJobInv(j)
  BY DEF MemInv
<1>2. CASE MemCreate(j)
  <2>1. PICK saved \in SUBSET MemItems :
          /\ memItem' = [memItem EXCEPT ![j] = [i \in MemItems |-> IF i \in saved THEN "pending" ELSE "failed"]]
          /\ memRow' = [memRow EXCEPT
                          ![j] = [success |-> 0, failed |-> Cardinality(MemItems \ saved), alarms |-> 0,
                                  status |-> IF saved = {} THEN "failed" ELSE "pending"]]
          /\ memQueue' = [memQueue EXCEPT ![j] = saved]
          /\ MemGo(j, IF saved = {} THEN "ended" ELSE "start")
    BY <1>2 DEF MemCreate
  <2>2. /\ memItem'[j] = [i \in MemItems |-> IF i \in saved THEN "pending" ELSE "failed"]
        /\ memQueue'[j] = saved /\ memAt'[j] \in {"ended", "start"}
        /\ memRow'[j] = [success |-> 0, failed |-> Cardinality(MemItems \ saved), alarms |-> 0,
                         status |-> IF saved = {} THEN "failed" ELSE "pending"]
    BY <1>1, <2>1 DEF MemTypeOK
  <2>3. /\ memEvent'[j] = {} /\ memRetry'[j] = {} /\ memEvents'[j] = memEvents[j]
        /\ \A i \in MemItems : memEvents[j][i] = 0
    BY <1>1, <1>2 DEF MemCreate, MemJobInv, Raised
  <2>4. memRow'[j].status \in Ended =>
          /\ \A i \in MemItems : memItem'[j][i] \in {"success", "failed"}
          /\ memRow'[j] = Recomputed(memItem'[j], memEvent'[j])
    <3> SUFFICES ASSUME memRow'[j].status \in Ended
                 PROVE  /\ \A i \in MemItems : memItem'[j][i] \in {"success", "failed"}
                        /\ memRow'[j] = Recomputed(memItem'[j], memEvent'[j])
      OBVIOUS
    <3>1. saved = {}
      BY <2>2 DEF Ended
    <3>2. memItem'[j] \in [MemItems -> MemStatus] /\ \A i \in MemItems : memItem'[j][i] = "failed"
      BY <2>2, <3>1 DEF MemStatus
    <3>3. MemItems \ saved = MemItems
      BY <3>1
    <3> QED BY <2>2, <2>3, <3>1, <3>2, <3>3, AllFailed
  <2>5. \A i \in MemItems : memItem'[j][i] # "none" /\ (i \in saved => memItem'[j][i] = "pending")
    BY <2>2
  <2>6. \A i \in MemItems : ~Raised(j, i)'
    BY <2>2 DEF Raised
  <2> QED BY <2>2, <2>3, <2>4, <2>5, <2>6 DEF MemJobInv
<1>3. CASE MemExpire(j) \/ MemPoll(j)
  BY <1>1, <1>3 DEF MemExpire, MemPoll, MemJobInv, Raised, Turn
<1>4. CASE MemStart(j)
  <2>1. /\ memAt[j] = "start" /\ memAt'[j] \in {"next", "lost"}
        /\ UNCHANGED <<memItem, memEvent, memNow, memQueue, memRetry, memEvents>>
    BY <1>1, <1>4 DEF MemStart, MemTypeOK
  <2>2. memRow'[j] = memRow[j] \/ memRow'[j].status = "running"
    <3>1. memRow' = memRow \/ memRow' = [memRow EXCEPT ![j] = [memRow[j] EXCEPT !.status = "running"]]
      BY <1>4 DEF MemStart
    <3>2. memRow[j] \in MemRowType
      BY <1>1 DEF MemTypeOK
    <3>3. [memRow[j] EXCEPT !.status = "running"].status = "running"
      BY <3>2 DEF MemRowType
    <3> QED BY <1>1, <3>1, <3>3 DEF MemTypeOK
  <2>3. \A i \in MemItems : ~Raised(j, i) /\ ~Raised(j, i)'
    BY <2>1 DEF Raised
  <2> QED BY <1>1, <2>1, <2>2, <2>3 DEF MemJobInv, Ended
<1>5. CASE MemEndRound(j)
  <2>1. /\ memAt[j] = "next" /\ memAt'[j] \in {"next", "ended"} /\ memQueue[j] = {}
        /\ UNCHANGED <<memItem, memEvent, memRow, memNow, memEvents>>
    BY <1>1, <1>5 DEF MemEndRound, MemTypeOK
  <2>2. \/ memQueue'[j] = memQueue[j] /\ memRetry'[j] = memRetry[j]
        \/ memQueue'[j] = memRetry[j] /\ memRetry'[j] = {}
    BY <1>1, <1>5 DEF MemEndRound, MemTypeOK
  <2>3. \A i \in MemItems : ~Raised(j, i) /\ ~Raised(j, i)'
    BY <2>1 DEF Raised
  <2> QED BY <1>1, <2>1, <2>2, <2>3 DEF MemJobInv
<1>6. ASSUME NEW i \in MemItems, MemMark(j, i)
      PROVE  MemJobInv(j)'
  <2>1. /\ memAt[j] = "next" /\ memAt'[j] = "analyse" /\ i \in memQueue[j]
        /\ UNCHANGED <<memEvent, memRow, memNow, memQueue, memRetry, memEvents>>
    BY <1>1, <1>6 DEF MemMark, Turn, MemTypeOK
  <2>2. memItem'[j][i] \in {"pending", "running"} /\ \A k \in MemItems \ {i} : memItem'[j][k] = memItem[j][k]
    <3>1. CASE memItem' = memItem
      BY <1>1, <2>1, <3>1 DEF MemJobInv
    <3>2. CASE Show(j, i, "running")
      <4>1. "running" \in MemStatus
        BY DEF MemStatus
      <4> QED BY <1>1, <3>2, <4>1, ShowFacts
    <3> QED BY <1>6, <3>1, <3>2 DEF MemMark
  <2>3. memRow[j].status \notin Ended
    BY <1>1, <2>1 DEF MemJobInv
  <2>4. \A k \in MemItems : ~Raised(j, k) /\ ~Raised(j, k)'
    BY <2>1 DEF Raised
  <2>5. \A k \in MemItems : memItem'[j][k] # "none"
    BY <1>1, <2>1, <2>2 DEF MemJobInv
  <2>6. \A k \in memQueue[j] \cup memRetry[j] : memItem'[j][k] \in {"pending", "running"} /\ k \notin memEvent[j]
    BY <1>1, <2>2 DEF MemJobInv, MemTypeOK
  <2> QED BY <1>1, <2>1, <2>3, <2>4, <2>5, <2>6 DEF MemJobInv
<1>7. ASSUME NEW i \in MemItems, MemAnalyse(j, i)
      PROVE  MemJobInv(j)'
  <2>1. PICK result \in {"success", "failed", "alarm", "again"} :
          /\ memNow' = [memNow EXCEPT ![j] = result]
          /\ MemGo(j, IF result = "alarm" THEN "event" ELSE "persist")
    BY <1>7 DEF MemAnalyse
  <2>2. /\ memAt[j] = "analyse" /\ memNow'[j] = result
        /\ memAt'[j] = IF result = "alarm" THEN "event" ELSE "persist"
        /\ UNCHANGED <<memItem, memEvent, memRow, memQueue, memRetry, memEvents>>
    BY <1>1, <1>7, <2>1 DEF MemAnalyse, MemTypeOK
  <2>3. \A k \in MemItems : ~Raised(j, k) /\ ~Raised(j, k)'
    BY <2>2 DEF Raised
  <2> QED BY <1>1, <2>2, <2>3 DEF MemJobInv
<1>8. ASSUME NEW i \in MemItems, MemCreateEvent(j, i)
      PROVE  MemJobInv(j)'
  <2>1. /\ memAt[j] = "event" /\ memAt'[j] = "persist" /\ Turn(j, i) /\ memNow[j] = "alarm"
        /\ UNCHANGED <<memItem, memEvent, memRow, memQueue, memRetry>>
    BY <1>1, <1>8 DEF MemCreateEvent, MemTypeOK, MemJobInv
  <2>2. Turn(j, i)' /\ \A k \in MemItems : Turn(j, k)' => k = i
    <3>1. \A k \in MemItems : Turn(j, k)' = Turn(j, k)
      BY <2>1 DEF Turn
    <3> QED BY <2>1, <3>1, OneTurn
  <2>3. i \notin memEvent[j]
    BY <1>1, <2>1 DEF MemJobInv, Turn
  <2>4. \A k \in MemItems : memEvents[j][k] = IF k \in memEvent[j] THEN 1 ELSE 0
    BY <1>1, <2>1 DEF MemJobInv, Raised
  <2>5. CASE memEvents' = [memEvents EXCEPT ![j][i] = @ + 1] /\ UNCHANGED memNow
    <3>1. memEvents'[j][i] = memEvents[j][i] + 1 /\ \A k \in MemItems \ {i} : memEvents'[j][k] = memEvents[j][k]
      BY <1>1, <2>5 DEF MemTypeOK
    <3>2. \A k \in MemItems : Raised(j, k)' <=> k = i
      BY <2>1, <2>2, <2>5 DEF Raised
    <3>3. \A k \in MemItems : memEvents'[j][k] = IF k \in memEvent[j] \/ k = i THEN 1 ELSE 0
      BY <2>3, <2>4, <3>1
    <3>4. \A k \in MemItems : memEvents'[j][k] = IF k \in memEvent'[j] \/ Raised(j, k)' THEN 1 ELSE 0
      BY <2>1, <3>2, <3>3
    <3> QED BY <1>1, <2>1, <2>5, <3>4 DEF MemJobInv
  <2>6. CASE memNow' = [memNow EXCEPT ![j] = "failed"] /\ UNCHANGED memEvents
    <3>1. memNow'[j] = "failed"
      BY <1>1, <2>6 DEF MemTypeOK
    <3>2. \A k \in MemItems : ~Raised(j, k)'
      BY <3>1 DEF Raised
    <3> QED BY <1>1, <2>1, <2>4, <2>6, <3>2 DEF MemJobInv
  <2> QED BY <1>8, <2>5, <2>6 DEF MemCreateEvent
<1>9. ASSUME NEW i \in MemItems, MemPersist(j, i)
      PROVE  MemJobInv(j)'
  <2>1. /\ memAt[j] = "persist" /\ memAt'[j] = "next" /\ Turn(j, i) /\ i \in memQueue[j]
        /\ memQueue'[j] = memQueue[j] \ {i}
        /\ UNCHANGED <<memNow, memEvents>>
    BY <1>1, <1>9 DEF MemPersist, MemTypeOK, Turn
  <2>2. memRow'[j] = Recomputed(memItem'[j], memEvent'[j])
    BY <1>1, <1>9 DEF MemPersist, MemTypeOK
  <2>3. \A k \in MemItems : ~Raised(j, k)'
    BY <2>1 DEF Raised
  <2>4. \A k \in MemItems : Raised(j, k) <=> memNow[j] = "alarm" /\ k = i
    BY <2>1, OneTurn DEF Raised
  <2>5. i \notin memEvent[j] /\ i \notin memRetry[j]
    BY <1>1, <2>1 DEF MemJobInv
  <2>6. PICK status \in MemStatus \ {"none"} :
          /\ Show(j, i, status)
          /\ Again(j) => status = "running"
    BY <1>9 DEF MemPersist, MemStatus
  <2>7. /\ memItem'[j][i] = status /\ \A k \in MemItems \ {i} : memItem'[j][k] = memItem[j][k]
    BY <1>1, <2>6, ShowFacts
  <2>8. \A k \in MemItems : memItem'[j][k] # "none"
    BY <1>1, <2>1, <2>7 DEF MemJobInv
  <2>9. memEvent'[j] = IF memNow[j] = "alarm" THEN memEvent[j] \cup {i} ELSE memEvent[j]
    BY <1>1, <1>9 DEF MemPersist, MemTypeOK, Again
  <2>10. memRetry'[j] = IF Again(j) THEN memRetry[j] \cup {i} ELSE memRetry[j]
    BY <1>1, <1>9 DEF MemPersist, MemTypeOK
  <2>11. \A k \in MemItems : memEvents'[j][k] = IF k \in memEvent'[j] THEN 1 ELSE 0
    BY <1>1, <2>1, <2>4, <2>9 DEF MemJobInv
  <2>12. \A k \in memQueue'[j] \cup memRetry'[j] : memItem'[j][k] \in {"pending", "running"} /\ k \notin memEvent'[j]
    <3>1. \A k \in (memQueue[j] \cup memRetry[j]) \ {i} : memItem'[j][k] \in {"pending", "running"} /\ k \notin memEvent'[j]
      BY <1>1, <2>7, <2>9 DEF MemJobInv, MemTypeOK
    <3>2. Again(j) => memItem'[j][i] \in {"pending", "running"} /\ i \notin memEvent'[j]
      BY <2>5, <2>6, <2>7, <2>9 DEF Again
    <3> QED BY <2>1, <2>5, <2>10, <3>1, <3>2
  <2>13. memQueue'[j] \cap memRetry'[j] = {}
    BY <1>1, <2>1, <2>10 DEF MemJobInv
  <2>14. memRow'[j].status \in Ended => \A k \in MemItems : memItem'[j][k] \in {"success", "failed"}
    <3>1. memItem'[j] \in [MemItems -> MemStatus] /\ memEvent'[j] \in SUBSET MemItems
      BY DEF MemTypeOK
    <3>2. memRow'[j].status \in Ended => \A k \in MemItems : memItem'[j][k] \notin {"pending", "running"}
      BY <2>2, <3>1, RecomputedFacts
    <3> QED BY <2>8, <3>1, <3>2 DEF MemStatus
  <2> QED BY <2>1, <2>2, <2>3, <2>8, <2>11, <2>12, <2>13, <2>14 DEF MemJobInv
<1> QED BY <1>2, <1>3, <1>4, <1>5, <1>6, <1>7, <1>8, <1>9 DEF MemRun

\* The invariant of the jobs in memory holds throughout.
LEMMA MemAlways == MemSpec => []MemInv
<1>1. MemInit => MemInv
  <2> SUFFICES ASSUME MemInit PROVE MemInv
    OBVIOUS
  <2>1. [success |-> 0, failed |-> 0, alarms |-> 0, status |-> "none"] \in MemRowType
    BY DEF MemRowType
  <2>2. [i \in MemItems |-> "none"] \in [MemItems -> MemStatus]
    BY DEF MemStatus
  <2>3. memItem \in [MemJobs -> [MemItems -> MemStatus]] /\ memRow \in [MemJobs -> MemRowType]
    BY <2>1, <2>2 DEF MemInit
  <2>4. MemTypeOK
    BY <2>3 DEF MemInit, MemTypeOK
  <2>5. ASSUME NEW j \in MemJobs
        PROVE  MemJobInv(j)
    BY DEF MemInit, MemJobInv, Raised, Ended
  <2> QED BY <2>4, <2>5 DEF MemInv
<1>2. MemInv /\ [MemNext]_memVars => MemInv'
  <2> SUFFICES ASSUME MemInv, [MemNext]_memVars PROVE MemInv'
    OBVIOUS
  <2>1. MemTypeOK'
    BY MemTypeStep DEF MemInv
  <2>2. CASE UNCHANGED memVars
    BY <2>1, <2>2 DEF memVars, memShown, memLoop, MemInv, MemJobInv, Raised, Turn
  <2>3. ASSUME NEW j \in MemJobs, MemCreate(j) \/ MemExpire(j) \/ MemPoll(j) \/ MemRun(j)
        PROVE  MemInv'
    <3>1. MemJobInv(j)'
      BY <2>1, <2>3, MemJobStep
    <3>2. ASSUME NEW k \in MemJobs PROVE MemJobInv(k)'
      <4>1. MemOthers(j)
        BY <2>1, <2>3, MemOwn
      <4>2. k # j => MemJobInv(k)'
        BY <4>1, MemOtherJobs
      <4> QED BY <3>1, <4>2
    <3> QED BY <2>1, <3>2 DEF MemInv
  <2> QED BY <2>2, <2>3 DEF MemNext
<1> QED BY <1>1, <1>2, PTL DEF MemSpec

\* A draft test or patrol that is shown as ended has ended, its counters are those of its
\* items and its alarms are the events in the database, for any number of items and
\* rounds.
THEOREM EndedMemJobsAreOver == MemSpec => []MemEndedIsTrue
<1>1. MemInv => MemEndedIsTrue
  <2> SUFFICES ASSUME MemInv, NEW j \in MemJobs, memRow[j].status \in Ended
               PROVE  /\ \A i \in MemItems : memItem[j][i] \in {"success", "failed"}
                      /\ memRow[j] = Recomputed(memItem[j], memEvent[j])
                      /\ \A i \in MemItems : memEvents[j][i] = IF i \in memEvent[j] THEN 1 ELSE 0
    BY DEF MemEndedIsTrue
  <2>1. MemJobInv(j)
    BY DEF MemInv
  <2>2. \A i \in MemItems : ~Raised(j, i)
    BY <2>1 DEF MemJobInv, Raised, Turn
  <2> QED BY <2>1, <2>2 DEF MemJobInv
<1> QED BY <1>1, MemAlways, PTL

-----------------------------------------------------------------------------
(* A test job.                                                                  *)

JobStatus == {"none", "pending", "running", "success", "failed"}
JobRowType ==
  [success : Nat, failed : Nat,
   status : {"none", "pending", "running", "completed", "partial_failed", "failed"}]
JobSteps ==
  {"none", "load", "config", "prompt", "runnable", "launch", "video", "start", "read", "write",
   "ended", "analyse", "retrying", "record", "persist"}

JobTypeOK ==
  /\ jobRow \in JobRowType
  /\ jobItem \in [JobItems -> JobStatus] /\ jobRecords \in [JobItems -> Nat]
  /\ jobAt \in [Procs -> JobSteps] /\ jobThen \in {"config", "runnable", "ended"}
  /\ jobSnap \in [Procs -> [JobItems -> JobStatus]]
  /\ jobResult \in [JobItems -> {"none", "success", "failed", "again"}]
  /\ jobQueue \in SUBSET JobItems /\ jobRetry \in SUBSET JobItems /\ jobRound \in Nat

\* No item has been launched yet.
JobEarly ==
  \/ jobAt[Runner] \in {"none", "load", "config", "prompt", "runnable"}
  \/ jobAt[Runner] \in {"read", "write"} /\ jobThen # "ended"

JobEarlyInv ==
  /\ jobRow.status = "none" => jobAt[Runner] = "none"
  /\ JobEarly => /\ \A i \in JobItems : jobAt[i] = "none" /\ jobRecords[i] = 0
                 /\ jobQueue = {} /\ jobRetry = {} /\ jobRound = 0

\* Items that are left, wait for a retry or are being worked at.
JobItemInv(i) ==
  /\ jobRecords[i] <= 1
  /\ i \in jobQueue => /\ jobAt[i] = "none" /\ jobRecords[i] = 0
                       /\ jobItem[i] = IF jobRound = 0 THEN "pending" ELSE "running"
  /\ i \in jobRetry => /\ jobAt[i] \in {"none", "read", "write"} /\ i \notin jobQueue
                       /\ jobRecords[i] = 0 /\ jobItem[i] = "running"
  /\ jobAt[i] \in {"analyse", "retrying", "record", "persist"} => jobItem[i] = "running"
  /\ jobAt[i] \in {"analyse", "retrying", "record"} => jobRecords[i] = 0

\* An end that a refresh has read is still there.
JobSnapInv ==
  \A p \in Procs : \A i \in JobItems :
    jobAt[p] = "write" /\ jobSnap[p][i] \in {"success", "failed"} => jobItem[i] = jobSnap[p][i]

JobEndInv ==
  jobRow.status \in {"completed", "partial_failed", "failed"} =>
    Over(jobItem) = JobItems /\ jobRow = Summary(jobItem)

JobInv ==
  /\ JobTypeOK /\ JobEarlyInv /\ (\A i \in JobItems : JobItemInv(i))
  /\ JobSnapInv /\ JobEndInv

\* The counts of a row, and what its items are when it says that the job has ended.
LEMMA SummaryFacts ==
  ASSUME NEW rows \in [JobItems -> JobStatus]
  PROVE  /\ Summary(rows) \in JobRowType
         /\ Summary(rows).status # "none"
         /\ Summary(rows).status \in {"completed", "partial_failed", "failed"} => Over(rows) = JobItems
<1> USE JobAssumption
<1>1. /\ With(rows, "success") \subseteq JobItems /\ With(rows, "failed") \subseteq JobItems
      /\ With(rows, "success") \cap With(rows, "failed") = {}
  BY DEF With
<1>2. /\ IsFiniteSet(With(rows, "success")) /\ IsFiniteSet(With(rows, "failed"))
      /\ IsFiniteSet(With(rows, "success") \cap With(rows, "failed"))
      /\ IsFiniteSet(Over(rows)) /\ Over(rows) \subseteq JobItems
  BY <1>1, FS_Subset DEF Over
<1> DEFINE good == Cardinality(With(rows, "success"))
           bad == Cardinality(With(rows, "failed"))
           all == Cardinality(JobItems)
<1>3. good \in Nat /\ bad \in Nat /\ all \in Nat
  BY <1>2, FS_CardinalityType
<1>4. Cardinality(Over(rows)) = good + bad
  <2>1. Cardinality(With(rows, "success") \cup With(rows, "failed"))
          = good + bad - Cardinality(With(rows, "success") \cap With(rows, "failed"))
    BY <1>2, FS_Union
  <2>2. Cardinality(With(rows, "success") \cap With(rows, "failed")) = 0
    BY <1>1, FS_EmptySet
  <2> QED BY <1>3, <2>1, <2>2 DEF Over
<1>5. good + bad = all => Over(rows) = JobItems
  BY <1>2, <1>4, FS_Subset
<1> DEFINE row == Summary(rows)
<1>6. /\ row.status \in {"pending", "running", "completed", "partial_failed", "failed"}
      /\ row.status \in {"completed", "partial_failed", "failed"} => good + bad = all
  BY DEF Summary
<1>7. row = [success |-> good, failed |-> bad, status |-> row.status]
  BY DEF Summary
<1>8. row \in JobRowType
  <2> HIDE DEF row, good, bad
  <2> QED BY <1>3, <1>6, <1>7 DEF JobRowType
<1> QED BY <1>5, <1>6, <1>8

\* A job of which no upload could be saved is over.
LEMMA NothingSaved ==
  ASSUME NEW rows \in [JobItems -> JobStatus], \A i \in JobItems : rows[i] = "failed"
  PROVE  /\ Over(rows) = JobItems
         /\ Summary(rows) = [success |-> 0, failed |-> Cardinality(JobItems), status |-> "failed"]
<1>1. With(rows, "success") = {} /\ With(rows, "failed") = JobItems
  BY DEF With
<1>2. Cardinality({}) = 0 /\ Cardinality(JobItems) \in Nat /\ Cardinality(JobItems) # 0
  BY JobAssumption, FS_EmptySet, FS_CardinalityType
<1> QED BY <1>1, <1>2 DEF Summary, Over

\* Items that could still be worked at have failed, or nothing has.
LEMMA FailFacts ==
  ASSUME JobTypeOK, NEW items \in SUBSET JobItems, FailItems(items)
  PROVE  /\ jobItem' \in [JobItems -> JobStatus]
         /\ \A i \in JobItems : jobItem[i] \in {"success", "failed"} => jobItem'[i] = jobItem[i]
<1>1. CASE jobItem' = jobItem
  BY <1>1 DEF JobTypeOK
<1>2. CASE jobItem' = [i \in JobItems |->
                         IF i \in items /\ jobItem[i] \in {"pending", "running"}
                         THEN "failed" ELSE jobItem[i]]
  BY <1>2 DEF JobTypeOK, JobStatus
<1> QED BY <1>1, <1>2 DEF FailItems

\* Where a step has brought somebody.
LEMMA GoFacts ==
  ASSUME JobTypeOK, NEW p \in Procs, NEW step \in JobSteps, Go(p, step)
  PROVE  /\ jobAt' \in [Procs -> JobSteps] /\ jobAt'[p] = step
         /\ \A q \in Procs \ {p} : jobAt'[q] = jobAt[q]
BY DEF Go, JobTypeOK

\* A refresh that is over: the runner goes on, a goroutine ends.
LEMMA LeaveFacts ==
  ASSUME JobTypeOK, NEW p \in Procs, Leave(p)
  PROVE  /\ jobAt' \in [Procs -> JobSteps]
         /\ jobAt'[p] = IF p = Runner THEN jobThen ELSE "none"
         /\ \A q \in Procs \ {p} : jobAt'[q] = jobAt[q]
<1>1. jobThen \in JobSteps /\ "none" \in JobSteps
  BY DEF JobTypeOK, JobSteps
<1>2. Go(p, IF p = Runner THEN jobThen ELSE "none")
  BY DEF Leave
<1> QED BY <1>1, <1>2, GoFacts

\* The runner is none of the items.
LEMMA RunnerFacts ==
  /\ Runner \in Procs /\ JobItems \subseteq Procs /\ \A i \in JobItems : i # Runner
BY JobAssumption DEF Procs, Runner

\* A step of one item's goroutine, or of the runner with an item.
JobItemStep(i) ==
  \/ JobAcquire(i) \/ JobAcquireVideo(i) \/ JobStart(i)
  \/ JobAnalyse(i) \/ MarkRetrying(i) \/ JobRecord(i) \/ JobPersist(i)

\* Every step of a job is one of these.
LEMMA JobCases ==
  ASSUME [JobNext]_jobVars
  PROVE  \/ UNCHANGED jobVars \/ JobCreate \/ JobLoad \/ JobConfig \/ JobPrompt
         \/ JobRunnable \/ JobWait \/ JobCrash
         \/ \E i \in JobItems : JobItemStep(i)
         \/ \E p \in Procs : RefreshRead(p) \/ RefreshWrite(p)
BY RunnerFacts DEF JobNext, JobWork, RunnerStep, ItemStep, JobItemStep

\* A step keeps the types.
LEMMA JobTypeStep ==
  ASSUME JobTypeOK, [JobNext]_jobVars
  PROVE  JobTypeOK'
<1> USE DEF jobRows, jobLoop
<1>1. CASE UNCHANGED jobVars
  BY <1>1 DEF jobVars, JobTypeOK
<1>2. CASE JobCreate
  <2>1. PICK saved \in SUBSET JobItems :
          /\ jobItem' = [i \in JobItems |-> IF i \in saved THEN "pending" ELSE "failed"]
          /\ jobRow' = [success |-> 0, failed |-> Cardinality(JobItems \ saved),
                        status |-> IF saved = {} THEN "failed" ELSE "pending"]
          /\ Go(Runner, IF saved = {} THEN "ended" ELSE "load")
    BY <1>2 DEF JobCreate
  <2>2. Cardinality(JobItems \ saved) \in Nat
    BY JobAssumption, FS_Subset, FS_CardinalityType
  <2>3. jobRow' \in JobRowType
    BY <2>1, <2>2 DEF JobRowType
  <2>4. jobItem' \in [JobItems -> JobStatus]
    BY <2>1 DEF JobStatus
  <2>5. jobAt' \in [Procs -> JobSteps]
    BY <2>1, RunnerFacts, GoFacts DEF JobSteps
  <2> QED BY <1>2, <2>3, <2>4, <2>5 DEF JobCreate, JobTypeOK
<1>3. CASE JobLoad \/ JobConfig \/ JobPrompt
  <2>1. jobItem' \in [JobItems -> JobStatus]
    <3>1. \/ jobItem' = jobItem \/ FailItems(JobItems)
          \/ FailItems({i \in JobItems : Media[i] = "video"})
      BY <1>3 DEF JobLoad, JobConfig, JobPrompt
    <3>2. {i \in JobItems : Media[i] = "video"} \in SUBSET JobItems /\ JobItems \in SUBSET JobItems
      OBVIOUS
    <3> QED BY <3>1, <3>2, FailFacts DEF JobTypeOK
  <2>2. /\ jobAt' \in [Procs -> JobSteps] /\ jobThen' \in {"config", "runnable", "ended"}
    <3>1. PICK step \in JobSteps : Go(Runner, step)
      BY <1>3 DEF JobLoad, JobConfig, JobPrompt, RefreshThen, JobSteps
    <3>2. jobThen' = jobThen \/ jobThen' \in {"config", "runnable", "ended"}
      BY <1>3 DEF JobLoad, JobConfig, JobPrompt, RefreshThen
    <3> QED BY <3>1, <3>2, GoFacts, RunnerFacts DEF JobTypeOK
  <2> QED BY <1>3, <2>1, <2>2 DEF JobLoad, JobConfig, JobPrompt, JobTypeOK
<1>4. CASE JobRunnable
  <2>1. jobRow' \in JobRowType
    <3>1. jobRow' = jobRow \/ jobRow' = [jobRow EXCEPT !.status = "running"]
      BY <1>4 DEF JobRunnable
    <3> QED BY <3>1 DEF JobTypeOK, JobRowType
  <2>2. jobAt' \in [Procs -> JobSteps] /\ jobThen' \in {"config", "runnable", "ended"}
    <3>1. PICK step \in JobSteps : Go(Runner, step)
      BY <1>4 DEF JobRunnable, RefreshThen, JobSteps
    <3>2. jobThen' = jobThen \/ jobThen' = "ended"
      BY <1>4 DEF JobRunnable, RefreshThen
    <3> QED BY <3>1, <3>2, GoFacts, RunnerFacts DEF JobTypeOK
  <2>3. jobQueue' \in SUBSET JobItems
    BY <1>4 DEF JobRunnable, With, JobTypeOK
  <2> QED BY <1>4, <2>1, <2>2, <2>3 DEF JobRunnable, JobTypeOK
<1>5. CASE JobWait
  <2>1. jobAt' \in [Procs -> JobSteps] /\ jobThen' \in {"config", "runnable", "ended"}
    <3>1. \/ jobAt' = jobAt /\ jobThen' = jobThen
          \/ Go(Runner, "read") /\ jobThen' = "ended"
      BY <1>5 DEF JobWait, RefreshThen
    <3>2. "read" \in JobSteps
      BY DEF JobSteps
    <3> QED BY <3>1, <3>2, GoFacts, RunnerFacts DEF JobTypeOK
  <2>2. jobRound' \in Nat
    BY <1>5 DEF JobWait, JobTypeOK
  <2>3. jobQueue' \in SUBSET JobItems /\ jobRetry' \in SUBSET JobItems
    BY <1>5 DEF JobWait, JobTypeOK
  <2> QED BY <1>5, <2>1, <2>2, <2>3 DEF JobWait, JobTypeOK
<1>6. CASE JobCrash
  <2>1. jobAt' \in [Procs -> JobSteps]
    BY <1>6 DEF JobCrash, JobSteps
  <2> QED BY <1>6, <2>1 DEF JobCrash, JobTypeOK
<1>7. ASSUME NEW i \in JobItems, JobAcquire(i) \/ JobAcquireVideo(i)
      PROVE  JobTypeOK'
  <2>1. PICK step \in JobSteps : Go(Runner, step)
    BY <1>7 DEF JobAcquire, JobAcquireVideo, JobSteps
  <2>2. jobAt' \in [Procs -> JobSteps]
    BY <2>1, RunnerFacts, GoFacts
  <2> QED BY <1>7, <2>2 DEF JobAcquire, JobAcquireVideo, JobTypeOK
<1>8. ASSUME NEW i \in JobItems, JobStart(i)
      PROVE  JobTypeOK'
  <2>1. jobAt' \in [Procs -> JobSteps]
    <3>1. \/ jobAt' = [jobAt EXCEPT ![Runner] = "launch", ![i] = "analyse"]
          \/ jobAt' = [jobAt EXCEPT ![Runner] = "launch"]
      BY <1>8 DEF JobStart, Go
    <3> QED BY <3>1 DEF JobTypeOK, JobSteps
  <2>2. jobItem' \in [JobItems -> JobStatus]
    <3>1. jobItem' = jobItem \/ jobItem' = [jobItem EXCEPT ![i] = "running"]
      BY <1>8 DEF JobStart
    <3> QED BY <3>1 DEF JobTypeOK, JobStatus
  <2> QED BY <1>8, <2>1, <2>2 DEF JobStart, JobTypeOK
<1>9. ASSUME NEW i \in JobItems, JobAnalyse(i) \/ MarkRetrying(i) \/ JobRecord(i) \/ JobPersist(i)
      PROVE  JobTypeOK'
  <2>1. jobAt' \in [Procs -> JobSteps]
    <3>1. PICK step \in JobSteps : Go(i, step)
      BY <1>9 DEF JobAnalyse, MarkRetrying, JobRecord, JobPersist, JobSteps
    <3> QED BY <3>1, RunnerFacts, GoFacts
  <2>2. jobItem' \in [JobItems -> JobStatus]
    <3>1. \/ jobItem' = jobItem
          \/ \E status \in {"running", "success", "failed"} : jobItem' = [jobItem EXCEPT ![i] = status]
      BY <1>9 DEF JobAnalyse, MarkRetrying, JobRecord, JobPersist
    <3> QED BY <3>1 DEF JobTypeOK, JobStatus
  <2>3. jobRecords' \in [JobItems -> Nat]
    <3>1. jobRecords' = jobRecords \/ jobRecords' = [jobRecords EXCEPT ![i] = @ + 1]
      BY <1>9 DEF JobAnalyse, MarkRetrying, JobRecord, JobPersist, Recorded
    <3> QED BY <3>1 DEF JobTypeOK
  <2>4. jobResult' \in [JobItems -> {"none", "success", "failed", "again"}]
    BY <1>9 DEF JobAnalyse, MarkRetrying, JobRecord, JobPersist, JobTypeOK
  <2>5. jobRetry' \in SUBSET JobItems
    BY <1>9 DEF JobAnalyse, MarkRetrying, JobRecord, JobPersist, JobTypeOK
  <2> QED BY <1>9, <2>1, <2>2, <2>3, <2>4, <2>5 DEF JobAnalyse, MarkRetrying, JobRecord, JobPersist, JobTypeOK
<1>10. ASSUME NEW p \in Procs, RefreshRead(p)
       PROVE  JobTypeOK'
  <2>1. jobAt' \in [Procs -> JobSteps]
    <3>1. "write" \in JobSteps
      BY DEF JobSteps
    <3> QED BY <1>10, <3>1, GoFacts, LeaveFacts DEF RefreshRead
  <2>2. jobSnap' \in [Procs -> [JobItems -> JobStatus]]
    BY <1>10 DEF RefreshRead, JobTypeOK
  <2> QED BY <1>10, <2>1, <2>2 DEF RefreshRead, JobTypeOK
<1>11. ASSUME NEW p \in Procs, RefreshWrite(p)
       PROVE  JobTypeOK'
  <2>1. jobAt' \in [Procs -> JobSteps]
    BY <1>11, LeaveFacts DEF RefreshWrite
  <2>2. jobRow' \in JobRowType
    BY <1>11, SummaryFacts DEF RefreshWrite, JobTypeOK
  <2> QED BY <1>11, <2>1, <2>2 DEF RefreshWrite, JobTypeOK
<1> QED BY JobCases, <1>1, <1>2, <1>3, <1>4, <1>5, <1>6, <1>7, <1>8, <1>9, <1>10, <1>11 DEF JobItemStep

\* Before the first launch nothing has been touched.
LEMMA JobEarlyStep ==
  ASSUME JobInv, JobTypeOK', [JobNext]_jobVars
  PROVE  JobEarlyInv'
<1> USE RunnerFacts DEF jobRows, jobLoop
<1>0. JobTypeOK /\ JobEarlyInv /\ \A i \in JobItems : JobItemInv(i)
  BY DEF JobInv
<1> DEFINE Fresh == /\ \A i \in JobItems : jobAt[i] = "none" /\ jobRecords[i] = 0
                    /\ jobQueue = {} /\ jobRetry = {} /\ jobRound = 0
<1>1. CASE UNCHANGED jobVars
  BY <1>0, <1>1 DEF jobVars, JobEarlyInv, JobEarly
<1>2. CASE JobCreate
  <2>1. jobAt[Runner] = "none" /\ Fresh
    BY <1>0, <1>2 DEF JobCreate, JobEarlyInv, JobEarly
  <2>2. /\ jobRow'.status # "none" /\ \A i \in JobItems : jobAt'[i] = jobAt[i]
    BY <1>0, <1>2 DEF JobCreate, Go, JobTypeOK
  <2> QED BY <1>2, <2>1, <2>2 DEF JobCreate, JobEarlyInv
<1>3. CASE JobLoad \/ JobConfig \/ JobPrompt
  <2>1. jobAt[Runner] \in {"load", "config", "prompt"}
    BY <1>3 DEF JobLoad, JobConfig, JobPrompt
  <2>2. Fresh /\ jobRow.status # "none"
    BY <1>0, <2>1 DEF JobEarlyInv, JobEarly
  <2>3. \A i \in JobItems : jobAt'[i] = jobAt[i]
    <3>1. PICK step \in JobSteps : Go(Runner, step)
      BY <1>3 DEF JobLoad, JobConfig, JobPrompt, RefreshThen, JobSteps
    <3> QED BY <1>0, <3>1, GoFacts
  <2> QED BY <1>3, <2>2, <2>3 DEF JobLoad, JobConfig, JobPrompt, JobEarlyInv
<1>4. CASE JobRunnable
  <2>1. jobRow'.status # "none"
    <3>1. jobRow.status # "none"
      BY <1>0, <1>4 DEF JobRunnable, JobEarlyInv
    <3>2. jobRow' = jobRow \/ jobRow' = [jobRow EXCEPT !.status = "running"]
      BY <1>4 DEF JobRunnable
    <3>3. jobRow \in JobRowType
      BY <1>0 DEF JobTypeOK
    <3> QED BY <3>1, <3>2, <3>3 DEF JobRowType
  <2>2. ~JobEarly'
    <3>1. jobAt'[Runner] \in {"launch", "ended"} \/ (jobAt'[Runner] = "read" /\ jobThen' = "ended")
      BY <1>0, <1>4 DEF JobRunnable, RefreshThen, Go, JobTypeOK
    <3> QED BY <3>1 DEF JobEarly
  <2> QED BY <2>1, <2>2 DEF JobEarlyInv
<1>5. CASE JobWait
  <2>1. jobAt'[Runner] = "launch" \/ (jobAt'[Runner] = "read" /\ jobThen' = "ended")
    BY <1>0, <1>5 DEF JobWait, RefreshThen, Go, JobTypeOK
  <2>2. jobRow'.status # "none"
    BY <1>0, <1>5 DEF JobWait, JobEarlyInv
  <2> QED BY <2>1, <2>2 DEF JobEarlyInv, JobEarly
<1>6. CASE JobCrash
  <2>1. jobAt'[Runner] = "ended" /\ jobRow'.status # "none"
    BY <1>0, <1>6 DEF JobCrash, JobEarlyInv
  <2> QED BY <2>1 DEF JobEarlyInv, JobEarly
<1>7. ASSUME NEW i \in JobItems, JobAcquire(i) \/ JobAcquireVideo(i) \/ JobStart(i)
      PROVE  JobEarlyInv'
  <2>1. jobAt'[Runner] \in {"video", "start", "launch"}
    BY <1>0, <1>7 DEF JobAcquire, JobAcquireVideo, JobStart, Go, JobTypeOK
  <2>2. jobRow'.status # "none"
    BY <1>0, <1>7 DEF JobAcquire, JobAcquireVideo, JobStart, JobEarlyInv
  <2> QED BY <2>1, <2>2 DEF JobEarlyInv, JobEarly
<1>8. ASSUME NEW i \in JobItems, JobAnalyse(i) \/ MarkRetrying(i) \/ JobRecord(i) \/ JobPersist(i)
      PROVE  JobEarlyInv'
  <2>1. ~JobEarly
    BY <1>0, <1>8 DEF JobAnalyse, MarkRetrying, JobRecord, JobPersist, JobEarlyInv
  <2>2. jobAt'[Runner] = jobAt[Runner]
    <3>1. PICK step \in JobSteps : Go(i, step)
      BY <1>8 DEF JobAnalyse, MarkRetrying, JobRecord, JobPersist, JobSteps
    <3> QED BY <1>0, <3>1, GoFacts
  <2>3. jobThen' = jobThen /\ jobRow' = jobRow
    BY <1>8 DEF JobAnalyse, MarkRetrying, JobRecord, JobPersist
  <2> QED BY <1>0, <2>1, <2>2, <2>3 DEF JobEarlyInv, JobEarly
<1>9. ASSUME NEW p \in Procs, RefreshRead(p) \/ RefreshWrite(p)
      PROVE  JobEarlyInv'
  <2>1. \/ jobAt'[p] = "write"
        \/ jobAt'[p] = IF p = Runner THEN jobThen ELSE "none"
    BY <1>0, <1>9, LeaveFacts DEF RefreshRead, RefreshWrite, Go, JobTypeOK
  <2>2. \A q \in Procs \ {p} : jobAt'[q] = jobAt[q]
    <3>1. "write" \in JobSteps
      BY DEF JobSteps
    <3> QED BY <1>0, <1>9, <3>1, GoFacts, LeaveFacts DEF RefreshRead, RefreshWrite
  <2>3. /\ jobAt[p] \in {"read", "write"} /\ jobThen' = jobThen
        /\ UNCHANGED <<jobRecords, jobQueue, jobRetry, jobRound>>
    BY <1>9 DEF RefreshRead, RefreshWrite
  <2>4. jobRow.status # "none"
    BY <1>0, <2>3 DEF JobEarlyInv, JobEarly, Procs
  <2>5. jobRow'.status # "none"
    <3>1. jobSnap[p] \in [JobItems -> JobStatus]
      BY <1>0 DEF JobTypeOK
    <3> QED BY <1>9, <2>4, <3>1, SummaryFacts DEF RefreshRead, RefreshWrite
  <2>6. CASE p = Runner
    <3>1. JobEarly' => jobThen # "ended"
      BY <1>0, <2>1, <2>3, <2>6 DEF JobEarly, JobTypeOK
    <3>2. JobEarly' => Fresh
      BY <1>0, <2>3, <2>6, <3>1 DEF JobEarlyInv, JobEarly
    <3> QED BY <2>2, <2>3, <2>5, <2>6, <3>2 DEF JobEarlyInv
  <2>7. CASE p # Runner
    <3>1. p \in JobItems /\ jobAt'[Runner] = jobAt[Runner]
      BY <2>2, <2>7 DEF Procs
    <3>2. ~JobEarly
      BY <1>0, <2>3, <3>1 DEF JobEarlyInv
    <3> QED BY <2>3, <2>5, <3>1, <3>2 DEF JobEarlyInv, JobEarly
  <2> QED BY <2>6, <2>7
<1> QED BY JobCases, <1>1, <1>2, <1>3, <1>4, <1>5, <1>6, <1>7, <1>8, <1>9 DEF JobItemStep

\* An item that has ended stays as it is.
LEMMA EndedItemStays ==
  ASSUME JobInv, JobTypeOK', [JobNext]_jobVars, ~JobCreate,
         NEW i \in JobItems, jobItem[i] \in {"success", "failed"}
  PROVE  jobItem'[i] = jobItem[i]
<1> USE DEF jobRows, jobLoop
<1>0. JobTypeOK /\ \A k \in JobItems : JobItemInv(k)
  BY DEF JobInv
<1>1. CASE UNCHANGED jobVars \/ JobRunnable \/ JobWait \/ JobCrash
  BY <1>1 DEF jobVars, JobRunnable, JobWait, JobCrash
<1>2. CASE JobLoad \/ JobConfig \/ JobPrompt
  <2>1. \/ jobItem' = jobItem \/ FailItems(JobItems)
        \/ FailItems({k \in JobItems : Media[k] = "video"})
    BY <1>2 DEF JobLoad, JobConfig, JobPrompt
  <2>2. {k \in JobItems : Media[k] = "video"} \in SUBSET JobItems /\ JobItems \in SUBSET JobItems
    OBVIOUS
  <2> QED BY <1>0, <2>1, <2>2, FailFacts
<1>3. ASSUME NEW k \in JobItems, JobItemStep(k)
      PROVE  jobItem'[i] = jobItem[i]
  <2>1. CASE JobAcquire(k) \/ JobAcquireVideo(k) \/ JobAnalyse(k) \/ JobRecord(k)
    BY <2>1 DEF JobAcquire, JobAcquireVideo, JobAnalyse, JobRecord
  <2>2. CASE JobStart(k)
    <3>1. jobItem' = jobItem \/ (jobItem[k] = "pending" /\ jobItem' = [jobItem EXCEPT ![k] = "running"])
      BY <2>2 DEF JobStart
    <3> QED BY <1>0, <3>1 DEF JobTypeOK
  <2>3. CASE MarkRetrying(k) \/ JobPersist(k)
    <3>1. jobItem[k] = "running"
      BY <1>0, <2>3 DEF MarkRetrying, JobPersist, JobItemInv
    <3>2. k # i
      BY <3>1
    <3> QED BY <1>0, <2>3, <3>2 DEF MarkRetrying, JobPersist, JobTypeOK
  <2> QED BY <1>3, <2>1, <2>2, <2>3 DEF JobItemStep
<1>4. ASSUME NEW p \in Procs, RefreshRead(p) \/ RefreshWrite(p)
      PROVE  jobItem'[i] = jobItem[i]
  BY <1>4 DEF RefreshRead, RefreshWrite
<1> QED BY JobCases, <1>1, <1>2, <1>3, <1>4

\* What a refresh has read of the items that have ended is still so.
LEMMA JobSnapStep ==
  ASSUME JobInv, JobTypeOK', [JobNext]_jobVars
  PROVE  JobSnapInv'
<1> USE RunnerFacts DEF jobRows, jobLoop
<1>0. JobTypeOK /\ JobEarlyInv /\ JobSnapInv
  BY DEF JobInv
<1>1. CASE JobCreate
  <2>1. \A p \in Procs : jobAt[p] = "none"
    <3>1. jobAt[Runner] = "none"
      BY <1>0, <1>1 DEF JobCreate, JobEarlyInv
    <3> QED BY <1>0, <3>1 DEF JobEarlyInv, JobEarly, Procs
  <2>2. \A p \in Procs : jobAt'[p] # "write"
    BY <1>0, <1>1, <2>1 DEF JobCreate, Go, JobTypeOK
  <2> QED BY <2>2 DEF JobSnapInv
<1>2. CASE ~JobCreate
  <2> SUFFICES ASSUME NEW p \in Procs, NEW i \in JobItems,
                      jobAt'[p] = "write", jobSnap'[p][i] \in {"success", "failed"}
               PROVE  jobItem'[i] = jobSnap'[p][i]
    BY DEF JobSnapInv
  <2>1. jobItem[i] \in {"success", "failed"} => jobItem'[i] = jobItem[i]
    BY <1>2, EndedItemStays
  <2>2. CASE RefreshRead(p) /\ jobSnap' = [jobSnap EXCEPT ![p] = jobItem]
    BY <1>0, <2>1, <2>2 DEF RefreshRead, JobTypeOK
  <2>3. CASE jobAt[p] = "write" /\ jobSnap'[p] = jobSnap[p]
    BY <1>0, <2>1, <2>3 DEF JobSnapInv
  <2>4. \/ RefreshRead(p) /\ jobSnap' = [jobSnap EXCEPT ![p] = jobItem]
        \/ jobAt[p] = "write" /\ jobSnap'[p] = jobSnap[p]
    <3>1. CASE UNCHANGED jobVars
      BY <3>1 DEF jobVars
    <3>2. CASE JobLoad \/ JobConfig \/ JobPrompt \/ JobRunnable
      <4>1. PICK step \in JobSteps \ {"write"} : Go(Runner, step)
        BY <3>2 DEF JobLoad, JobConfig, JobPrompt, JobRunnable, RefreshThen, JobSteps
      <4>2. jobAt[p] = "write"
        BY <1>0, <4>1, GoFacts
      <4> QED BY <3>2, <4>2 DEF JobLoad, JobConfig, JobPrompt, JobRunnable
    <3>3. CASE JobWait \/ JobCrash
      BY <1>0, <3>3 DEF JobWait, JobCrash, RefreshThen, Go, JobTypeOK
    <3>4. ASSUME NEW k \in JobItems, JobAcquire(k) \/ JobAcquireVideo(k) \/ JobStart(k)
          PROVE  jobAt[p] = "write" /\ jobSnap'[p] = jobSnap[p]
      BY <1>0, <3>4 DEF JobAcquire, JobAcquireVideo, JobStart, Go, JobTypeOK
    <3>5. ASSUME NEW k \in JobItems, JobAnalyse(k) \/ MarkRetrying(k) \/ JobRecord(k) \/ JobPersist(k)
          PROVE  jobAt[p] = "write" /\ jobSnap'[p] = jobSnap[p]
      <4>1. PICK step \in JobSteps \ {"write"} : Go(k, step)
        BY <3>5 DEF JobAnalyse, MarkRetrying, JobRecord, JobPersist, JobSteps
      <4>2. jobAt[p] = "write"
        BY <1>0, <4>1, GoFacts
      <4> QED BY <3>5, <4>2 DEF JobAnalyse, MarkRetrying, JobRecord, JobPersist
    <3>6. ASSUME NEW q \in Procs, RefreshRead(q)
          PROVE  \/ RefreshRead(p) /\ jobSnap' = [jobSnap EXCEPT ![p] = jobItem]
                 \/ jobAt[p] = "write" /\ jobSnap'[p] = jobSnap[p]
      <4>1. CASE Go(q, "write") /\ jobSnap' = [jobSnap EXCEPT ![q] = jobItem]
        BY <1>0, <3>6, <4>1 DEF Go, JobTypeOK
      <4>2. CASE Leave(q) /\ UNCHANGED jobSnap
        BY <1>0, <4>2, LeaveFacts DEF JobTypeOK
      <4> QED BY <3>6, <4>1, <4>2 DEF RefreshRead
    <3>7. ASSUME NEW q \in Procs, RefreshWrite(q)
          PROVE  jobAt[p] = "write" /\ jobSnap'[p] = jobSnap[p]
      BY <1>0, <3>7, LeaveFacts DEF RefreshWrite, JobTypeOK
    <3> QED BY <1>2, JobCases, <3>1, <3>2, <3>3, <3>4, <3>5, <3>6, <3>7 DEF JobItemStep
  <2> QED BY <2>2, <2>3, <2>4
<1> QED BY <1>1, <1>2

\* Refreshes that come late do not end a job, nor does anything reopen an item of one
\* that has ended.
LEMMA JobEndStep ==
  ASSUME JobInv, JobTypeOK', [JobNext]_jobVars
  PROVE  JobEndInv'
<1> USE RunnerFacts DEF jobRows, jobLoop
<1> DEFINE End == {"completed", "partial_failed", "failed"}
<1>0. JobTypeOK /\ JobEarlyInv /\ JobSnapInv /\ JobEndInv
  BY DEF JobInv
<1>1. CASE JobCreate
  <2>1. PICK saved \in SUBSET JobItems :
          /\ jobItem' = [i \in JobItems |-> IF i \in saved THEN "pending" ELSE "failed"]
          /\ jobRow' = [success |-> 0, failed |-> Cardinality(JobItems \ saved),
                        status |-> IF saved = {} THEN "failed" ELSE "pending"]
    BY <1>1 DEF JobCreate
  <2>2. CASE saved = {}
    <3>1. (\A i \in JobItems : jobItem'[i] = "failed") /\ JobItems \ saved = JobItems
      BY <2>1, <2>2
    <3>2. jobItem' \in [JobItems -> JobStatus]
      BY DEF JobTypeOK
    <3> QED BY <2>1, <2>2, <3>1, <3>2, NothingSaved DEF JobEndInv
  <2>3. CASE saved # {}
    <3>1. jobRow'.status \notin End
      BY <2>1, <2>3
    <3> QED BY <3>1 DEF JobEndInv
  <2> QED BY <2>2, <2>3
<1>2. CASE ~JobCreate
  <2>1. Over(jobItem) = JobItems => jobItem' = jobItem
    <3> SUFFICES ASSUME Over(jobItem) = JobItems
                 PROVE  jobItem' = jobItem
      OBVIOUS
    <3>1. \A i \in JobItems : jobItem[i] \in {"success", "failed"}
      BY DEF Over, With
    <3>2. \A i \in JobItems : jobItem'[i] = jobItem[i]
      BY <1>2, <3>1, EndedItemStays
    <3>3. jobItem \in [JobItems -> JobStatus] /\ jobItem' \in [JobItems -> JobStatus]
      BY <1>0 DEF JobTypeOK
    <3> QED BY <3>2, <3>3
  <2>2. CASE jobRow' = jobRow
    BY <1>0, <2>1, <2>2 DEF JobEndInv
  <2>3. CASE jobRow'.status \notin End
    BY <2>3 DEF JobEndInv
  <2>4. ASSUME NEW p \in Procs, RefreshWrite(p), jobRow' = Summary(jobSnap[p]), jobRow'.status \in End
        PROVE  JobEndInv'
    <3>1. jobSnap[p] \in [JobItems -> JobStatus] /\ jobItem \in [JobItems -> JobStatus]
      BY <1>0 DEF JobTypeOK
    <3>2. Over(jobSnap[p]) = JobItems
      BY <2>4, <3>1, SummaryFacts
    <3>3. \A i \in JobItems : jobSnap[p][i] \in {"success", "failed"}
      BY <3>2 DEF Over, With
    <3>4. \A i \in JobItems : jobItem[i] = jobSnap[p][i]
      BY <1>0, <2>4, <3>3 DEF JobSnapInv, RefreshWrite
    <3>5. jobItem = jobSnap[p] /\ jobItem' = jobItem
      BY <2>4, <3>1, <3>4 DEF RefreshWrite
    <3> QED BY <2>4, <3>2, <3>5 DEF JobEndInv
  <2>5. \/ jobRow' = jobRow \/ jobRow'.status \notin End
        \/ \E p \in Procs : RefreshWrite(p) /\ jobRow' = Summary(jobSnap[p])
    <3>1. CASE JobRunnable
      <4>1. jobRow' = jobRow \/ jobRow' = [jobRow EXCEPT !.status = "running"]
        BY <3>1 DEF JobRunnable
      <4>2. jobRow \in JobRowType
        BY <1>0 DEF JobTypeOK
      <4> QED BY <4>1, <4>2 DEF JobRowType
    <3>2. CASE UNCHANGED jobVars \/ JobLoad \/ JobConfig \/ JobPrompt \/ JobWait \/ JobCrash
      BY <3>2 DEF jobVars, JobLoad, JobConfig, JobPrompt, JobWait, JobCrash
    <3>3. ASSUME NEW i \in JobItems, JobItemStep(i)
          PROVE  jobRow' = jobRow
      BY <3>3 DEF JobItemStep, JobAcquire, JobAcquireVideo, JobStart, JobAnalyse, MarkRetrying,
                  JobRecord, JobPersist
    <3>4. ASSUME NEW p \in Procs, RefreshRead(p) \/ RefreshWrite(p)
          PROVE  jobRow' = jobRow \/ (RefreshWrite(p) /\ jobRow' = Summary(jobSnap[p]))
      BY <3>4 DEF RefreshRead, RefreshWrite
    <3> QED BY <1>2, JobCases, <3>1, <3>2, <3>3, <3>4
  <2> QED BY <2>2, <2>3, <2>4, <2>5
<1> QED BY <1>1, <1>2

\* An item that a step leaves alone.
LEMMA JobItemKept ==
  ASSUME NEW k \in JobItems, JobItemInv(k), jobRound' = jobRound,
         jobItem'[k] = jobItem[k], jobRecords'[k] = jobRecords[k],
         jobAt'[k] = jobAt[k] \/ (jobAt[k] \in {"read", "write"} /\ jobAt'[k] \in {"none", "write"}),
         k \in jobQueue' => k \in jobQueue, k \in jobRetry' <=> k \in jobRetry
  PROVE  JobItemInv(k)'
BY DEF JobItemInv

\* What the goroutine of an item does to it, and to no other.
LEMMA JobItemAlone ==
  ASSUME JobTypeOK, JobTypeOK', NEW i \in JobItems,
         JobAnalyse(i) \/ MarkRetrying(i) \/ JobRecord(i) \/ JobPersist(i)
  PROVE  /\ jobRound' = jobRound /\ jobQueue' = jobQueue
         /\ \A k \in JobItems \ {i} :
              /\ jobItem'[k] = jobItem[k] /\ jobRecords'[k] = jobRecords[k] /\ jobAt'[k] = jobAt[k]
              /\ k \in jobRetry' <=> k \in jobRetry
<1> USE RunnerFacts DEF jobRows, jobLoop
<1>1. PICK step \in JobSteps : Go(i, step)
  BY DEF JobAnalyse, MarkRetrying, JobRecord, JobPersist, JobSteps
<1>2. \A k \in JobItems \ {i} : jobAt'[k] = jobAt[k]
  BY <1>1, GoFacts
<1>3. \A k \in JobItems \ {i} : jobItem'[k] = jobItem[k]
  BY DEF JobAnalyse, MarkRetrying, JobRecord, JobPersist, JobTypeOK
<1>4. \A k \in JobItems \ {i} : jobRecords'[k] = jobRecords[k]
  BY DEF JobAnalyse, MarkRetrying, JobRecord, JobPersist, Recorded, JobTypeOK
<1>5. \A k \in JobItems \ {i} : k \in jobRetry' <=> k \in jobRetry
  BY DEF JobAnalyse, MarkRetrying, JobRecord, JobPersist
<1>6. jobRound' = jobRound /\ jobQueue' = jobQueue
  BY DEF JobAnalyse, MarkRetrying, JobRecord, JobPersist
<1> QED BY <1>2, <1>3, <1>4, <1>5, <1>6

\* The items of the queue and of the next round are untouched, and no item gets a
\* second record.
LEMMA JobItemsStep ==
  ASSUME JobInv, JobTypeOK', [JobNext]_jobVars, NEW k \in JobItems
  PROVE  JobItemInv(k)'
<1> USE RunnerFacts DEF jobRows, jobLoop
<1>0. JobTypeOK /\ JobEarlyInv /\ (\A i \in JobItems : JobItemInv(i)) /\ JobItemInv(k)
  BY DEF JobInv
<1> DEFINE Fresh == /\ \A i \in JobItems : jobAt[i] = "none" /\ jobRecords[i] = 0
                    /\ jobQueue = {} /\ jobRetry = {} /\ jobRound = 0
<1>1. CASE UNCHANGED jobVars
  BY <1>0, <1>1, JobItemKept DEF jobVars
<1>2. CASE JobCreate \/ JobLoad \/ JobConfig \/ JobPrompt
  <2>1. jobAt[Runner] \in {"none", "load", "config", "prompt"}
    BY <1>0, <1>2 DEF JobCreate, JobLoad, JobConfig, JobPrompt, JobEarlyInv
  <2>2. Fresh
    BY <1>0, <2>1 DEF JobEarlyInv, JobEarly
  <2>3. jobAt'[k] = jobAt[k]
    <3>1. PICK step \in JobSteps : Go(Runner, step)
      BY <1>2 DEF JobCreate, JobLoad, JobConfig, JobPrompt, RefreshThen, JobSteps
    <3> QED BY <1>0, <3>1, GoFacts
  <2>4. jobRecords' = jobRecords /\ jobQueue' = jobQueue /\ jobRetry' = jobRetry
    BY <1>2 DEF JobCreate, JobLoad, JobConfig, JobPrompt
  <2> QED BY <2>2, <2>3, <2>4 DEF JobItemInv
<1>3. CASE JobRunnable
  <2>1. Fresh
    BY <1>0, <1>3 DEF JobRunnable, JobEarlyInv, JobEarly
  <2>2. jobAt'[k] = jobAt[k]
    <3>1. PICK step \in JobSteps : Go(Runner, step)
      BY <1>3 DEF JobRunnable, RefreshThen, JobSteps
    <3> QED BY <1>0, <3>1, GoFacts
  <2>3. /\ jobItem' = jobItem /\ jobRecords' = jobRecords /\ jobRetry' = jobRetry /\ jobRound' = jobRound
        /\ jobQueue' = jobQueue \/ jobQueue' = With(jobItem, "pending")
    BY <1>3 DEF JobRunnable
  <2>4. k \in jobQueue' => jobItem'[k] = "pending"
    BY <2>1, <2>3 DEF With
  <2> QED BY <2>1, <2>2, <2>3, <2>4 DEF JobItemInv
<1>4. CASE JobWait
  <2>1. /\ jobItem' = jobItem /\ jobRecords' = jobRecords /\ jobQueue = {} /\ jobAt[k] = "none"
    BY <1>4 DEF JobWait
  <2>2. jobAt'[k] = jobAt[k]
    BY <1>0, <1>4 DEF JobWait, RefreshThen, Go, JobTypeOK
  <2>3. CASE jobQueue' = jobRetry /\ jobRetry' = {} /\ jobRound' = jobRound + 1
    <3>1. jobRound' # 0
      BY <1>0, <2>3 DEF JobTypeOK
    <3> QED BY <1>0, <2>1, <2>2, <2>3, <3>1 DEF JobItemInv
  <2>4. CASE UNCHANGED <<jobQueue, jobRetry, jobRound>>
    BY <1>0, <2>1, <2>2, <2>4, JobItemKept
  <2> QED BY <1>4, <2>3, <2>4 DEF JobWait
<1>5. CASE JobCrash
  <2>1. jobAt'[k] = "none" /\ jobQueue' = {} /\ jobRetry' = {} /\ jobRecords' = jobRecords
    BY <1>5 DEF JobCrash
  <2> QED BY <1>0, <2>1 DEF JobItemInv
<1>6. ASSUME NEW i \in JobItems, JobAcquire(i) \/ JobAcquireVideo(i)
      PROVE  JobItemInv(k)'
  <2>1. jobAt'[k] = jobAt[k]
    <3>1. PICK step \in JobSteps : Go(Runner, step)
      BY <1>6 DEF JobAcquire, JobAcquireVideo, JobSteps
    <3> QED BY <1>0, <3>1, GoFacts
  <2>2. UNCHANGED <<jobItem, jobRecords, jobQueue, jobRetry, jobRound>>
    BY <1>6 DEF JobAcquire, JobAcquireVideo
  <2> QED BY <1>0, <2>1, <2>2, JobItemKept
<1>7. ASSUME NEW i \in JobItems, JobStart(i)
      PROVE  JobItemInv(k)'
  <2>1. /\ jobAt[i] = "none" /\ jobRecords[i] = 0 /\ i \in jobQueue
        /\ jobItem[i] = IF jobRound = 0 THEN "pending" ELSE "running"
    BY <1>0, <1>7 DEF JobStart, First, JobItemInv
  <2>2. /\ jobRecords' = jobRecords /\ jobRetry' = jobRetry /\ jobRound' = jobRound
        /\ jobQueue' = jobQueue \ {i}
    BY <1>7 DEF JobStart
  <2>3. \/ /\ jobItem' = [jobItem EXCEPT ![i] = "running"] \/ (jobItem' = jobItem /\ jobItem[i] = "running")
           /\ jobAt' = [jobAt EXCEPT ![Runner] = "launch", ![i] = "analyse"]
        \/ Go(Runner, "launch") /\ jobItem' = jobItem
    BY <1>7, <2>1 DEF JobStart
  <2>4. k # i => jobItem'[k] = jobItem[k] /\ jobAt'[k] = jobAt[k]
    BY <1>0, <2>3 DEF Go, JobTypeOK
  <2>5. \/ jobItem'[i] = "running" /\ jobAt'[i] = "analyse"
        \/ jobItem'[i] = jobItem[i] /\ jobAt'[i] = "none"
    BY <1>0, <2>1, <2>3 DEF Go, JobTypeOK
  <2>6. i \notin jobRetry
    BY <1>0, <2>1 DEF JobItemInv
  <2>7. CASE k = i
    BY <2>1, <2>2, <2>5, <2>6, <2>7 DEF JobItemInv
  <2>8. CASE k # i
    BY <1>0, <2>2, <2>4, <2>8, JobItemKept
  <2> QED BY <2>7, <2>8
<1>8. ASSUME NEW i \in JobItems, JobAnalyse(i) \/ MarkRetrying(i) \/ JobRecord(i) \/ JobPersist(i), k # i
      PROVE  JobItemInv(k)'
  BY <1>0, <1>8, JobItemAlone, JobItemKept
<1>9. CASE JobAnalyse(k)
  <2>1. jobAt[k] = "analyse" /\ jobRecords[k] = 0 /\ jobItem[k] = "running" /\ k \notin jobQueue /\ k \notin jobRetry
    BY <1>0, <1>9 DEF JobAnalyse, JobItemInv
  <2>2. UNCHANGED <<jobItem, jobQueue, jobRetry, jobRound>>
    BY <1>9 DEF JobAnalyse
  <2>3. jobAt'[k] \in {"retrying", "record", "persist"}
    BY <1>0, <1>9 DEF JobAnalyse, Go, JobTypeOK
  <2>4. jobRecords'[k] <= 1 /\ (jobAt'[k] \in {"retrying", "record"} => jobRecords'[k] = 0)
    <3>1. CASE Media[k] = "image"
      BY <1>9, <2>1, <3>1 DEF JobAnalyse
    <3>2. CASE Media[k] # "image"
      <4>1. jobResult'[k] \in {"success", "failed"}
        BY <1>0, <1>9, <3>2 DEF JobAnalyse, JobTypeOK
      <4>2. jobAt'[k] = "persist"
        BY <1>0, <1>9, <3>2, <4>1 DEF JobAnalyse, Go, JobTypeOK
      <4>3. jobRecords'[k] \in {0, 1}
        BY <1>0, <1>9, <2>1 DEF JobAnalyse, Recorded, JobTypeOK
      <4> QED BY <4>2, <4>3
    <3> QED BY <3>1, <3>2
  <2> QED BY <2>1, <2>2, <2>3, <2>4 DEF JobItemInv
<1>10. CASE MarkRetrying(k)
  <2>1. jobAt[k] = "retrying" /\ jobRecords[k] = 0 /\ jobItem[k] = "running" /\ k \notin jobQueue /\ k \notin jobRetry
    BY <1>0, <1>10 DEF MarkRetrying, JobItemInv
  <2>2. UNCHANGED <<jobRecords, jobQueue, jobRound>>
    BY <1>10 DEF MarkRetrying
  <2>3. /\ jobItem'[k] = "running"
        /\ jobAt'[k] = "read" \/ (jobAt'[k] = "record" /\ k \notin jobRetry')
    BY <1>0, <1>10, <2>1 DEF MarkRetrying, Go, JobTypeOK
  <2> QED BY <2>1, <2>2, <2>3 DEF JobItemInv
<1>11. CASE JobRecord(k)
  <2>1. jobAt[k] = "record" /\ jobRecords[k] = 0 /\ jobItem[k] = "running" /\ k \notin jobQueue /\ k \notin jobRetry
    BY <1>0, <1>11 DEF JobRecord, JobItemInv
  <2>2. UNCHANGED <<jobItem, jobQueue, jobRetry, jobRound>> /\ jobAt'[k] = "persist"
    BY <1>0, <1>11 DEF JobRecord, Go, JobTypeOK
  <2>3. jobRecords'[k] \in {0, 1}
    BY <1>0, <1>11, <2>1 DEF JobRecord, Recorded, JobTypeOK
  <2> QED BY <2>1, <2>2, <2>3 DEF JobItemInv
<1>12. CASE JobPersist(k)
  <2>1. jobAt[k] = "persist" /\ jobRecords[k] <= 1 /\ k \notin jobQueue /\ k \notin jobRetry
    BY <1>0, <1>12 DEF JobPersist, JobItemInv
  <2>2. UNCHANGED <<jobRecords, jobQueue, jobRetry, jobRound>> /\ jobAt'[k] \in {"read", "none"}
    BY <1>0, <1>12 DEF JobPersist, Go, JobTypeOK
  <2> QED BY <2>1, <2>2 DEF JobItemInv
<1>13. ASSUME NEW p \in Procs, RefreshRead(p) \/ RefreshWrite(p)
       PROVE  JobItemInv(k)'
  <2>1. \/ jobAt'[p] = "write"
        \/ jobAt'[p] = IF p = Runner THEN jobThen ELSE "none"
    BY <1>0, <1>13, LeaveFacts DEF RefreshRead, RefreshWrite, Go, JobTypeOK
  <2>2. \A q \in Procs \ {p} : jobAt'[q] = jobAt[q]
    <3>1. "write" \in JobSteps
      BY DEF JobSteps
    <3> QED BY <1>0, <1>13, <3>1, GoFacts, LeaveFacts DEF RefreshRead, RefreshWrite
  <2>3. /\ jobAt[p] \in {"read", "write"}
        /\ UNCHANGED <<jobItem, jobRecords, jobQueue, jobRetry, jobRound>>
    BY <1>13 DEF RefreshRead, RefreshWrite
  <2>4. jobAt'[k] = jobAt[k] \/ (jobAt[k] \in {"read", "write"} /\ jobAt'[k] \in {"none", "write"})
    BY <2>1, <2>2, <2>3
  <2> QED BY <1>0, <2>3, <2>4, JobItemKept
<1> QED BY JobCases, <1>1, <1>2, <1>3, <1>4, <1>5, <1>6, <1>7, <1>8, <1>9, <1>10, <1>11, <1>12, <1>13
        DEF JobItemStep

\* The invariant of a test job.
LEMMA JobAlways == JobSpec => []JobInv
<1>1. JobInit => JobInv
  <2> SUFFICES ASSUME JobInit PROVE JobInv
    OBVIOUS
  <2>1. jobRow \in JobRowType
    BY DEF JobInit, JobRowType
  <2>2. jobItem \in [JobItems -> JobStatus] /\ jobSnap \in [Procs -> [JobItems -> JobStatus]]
    BY DEF JobInit, JobStatus
  <2>3. jobAt \in [Procs -> JobSteps] /\ jobThen \in {"config", "runnable", "ended"}
    BY DEF JobInit, JobSteps
  <2>4. JobTypeOK
    BY <2>1, <2>2, <2>3 DEF JobInit, JobTypeOK
  <2>5. \A p \in Procs : jobAt[p] = "none"
    BY DEF JobInit
  <2>6. JobEarlyInv /\ JobSnapInv /\ JobEndInv
    BY <2>5, RunnerFacts DEF JobInit, JobEarlyInv, JobSnapInv, JobEndInv
  <2>7. \A i \in JobItems : JobItemInv(i)
    BY <2>5, RunnerFacts DEF JobInit, JobItemInv
  <2> QED BY <2>4, <2>6, <2>7 DEF JobInv
<1>2. JobInv /\ [JobNext]_jobVars => JobInv'
  <2> SUFFICES ASSUME JobInv, [JobNext]_jobVars PROVE JobInv'
    OBVIOUS
  <2>1. JobTypeOK'
    BY JobTypeStep DEF JobInv
  <2>2. JobEarlyInv' /\ JobSnapInv' /\ JobEndInv'
    BY <2>1, JobEarlyStep, JobSnapStep, JobEndStep
  <2>3. \A k \in JobItems : JobItemInv(k)'
    BY <2>1, JobItemsStep
  <2> QED BY <2>1, <2>2, <2>3 DEF JobInv
<1> QED BY <1>1, <1>2, PTL DEF JobSpec

\* A test job whose row says that it is over is over, for any number of items, slots and
\* rounds: a refresh that comes late, failing statements and a crash leave no row that
\* is ahead of its items, and no item has a second record.
THEOREM EndedTestJobsAreOver == JobSpec => []JobEndedIsTrue
<1>1. JobInv => JobEndedIsTrue
  BY DEF JobInv, JobEndInv, JobItemInv, JobEndedIsTrue
<1> QED BY <1>1, JobAlways, PTL

-----------------------------------------------------------------------------
(* The recorder of the alarm buffer.                                            *)

BufTypeOK ==
  /\ bufUp \in BOOLEAN /\ bufRecorder \in BOOLEAN
  /\ bufRow \in BufRowType /\ bufTask \in BOOLEAN
  /\ bufFiles \in SUBSET Nat /\ bufCut \in Nat /\ bufAstray \in BOOLEAN
  /\ bufSession # <<>> => /\ bufSession \in [from : Nat, left : Nat]
                          /\ bufSession.from + bufSession.left <= BufPre + BufMax
  /\ bufAt \in [BufGoroutines -> {"idle", "row", "policy", "stream", "start", "restart", "stop", "reset",
                                  "buffering", "stopped", "load", "remove", "healthy", "session",
                                  "task", "end"}]
  /\ bufOp \in [BufGoroutines -> {"none", "hook", "start", "stop", "alarm", "janitor", "heal", "segment"}]
  /\ bufSeen \in [BufGoroutines -> BufRowType]
  /\ bufDoomed \in [BufGoroutines -> SUBSET Nat]

\* What has been removed, or is about to be, is older than the window of the session
\* and than that of one that starts now.
BufWindowInv ==
  /\ bufCut > BufPre
  /\ bufSession # <<>> => bufCut > bufSession.from
  /\ \A p \in BufGoroutines : bufDoomed[p] # {} => bufAt[p] = "remove"
  /\ \A p \in BufGoroutines : \A age \in bufDoomed[p] :
       age > BufPre /\ (bufSession # <<>> => age > bufSession.from)

Analysed == bufRow.ai /\ bufTask
Shown == bufRecorder => bufRow.status = "buffering" /\ Analysed

\* What a goroutine that is alone can rely on where it is.
BufPlace(p) ==
  /\ bufOp[p] = "start" => bufRow.ai
  /\ bufOp[p] = "stop" => ~bufRow.ai
  /\ bufRecorder /\ bufAt[p] \in {"row", "policy", "stream", "stop", "restart"} =>
       bufRow.status = "buffering"
  /\ bufAt[p] \in {"row", "policy"} => Shown \/ bufOp[p] = "stop"
  /\ bufAt[p] = "policy" => bufSeen[p].ai = bufRow.ai
  /\ bufAt[p] \in {"policy", "stream", "stop"} => bufSeen[p].status = bufRow.status
  /\ bufAt[p] = "stream" /\ bufSeen[p].ai => Analysed
  /\ bufAt[p] \in {"restart", "reset", "start", "buffering"} => Analysed
  /\ bufAt[p] \in {"reset", "start", "stopped"} => ~bufRecorder
  /\ bufAt[p] \in {"load", "remove", "healthy", "session", "task", "end"} => Shown
  /\ bufAt[p] = "task" => bufOp[p] \in {"start", "stop"}

\* Unless something has gone astray one goroutine at most is at work, and a recorder
\* that it does not know of does not run.
BufRecorderInv ==
  ~bufAstray =>
    /\ BufQuiet => Shown
    /\ \A p, q \in BufGoroutines : ~BufIdle(p) /\ ~BufIdle(q) => p = q
    /\ \A p \in BufGoroutines : ~BufIdle(p) => BufPlace(p)

BufInv == BufTypeOK /\ BufWindowInv /\ BufRecorderInv

\* The least of some numbers.
LEMMA LeastOf ==
  ASSUME NEW S \in SUBSET Nat, S # {}
  PROVE  \E n \in S : \A m \in S : n <= m
<1>1. \E n \in S : \A m \in S : ~ (<<m, n>> \in OpToRel(<, Nat))
  BY NatLessThanWellFounded, WFMin
<1>2. PICK n \in S : \A m \in S : ~ (<<m, n>> \in OpToRel(<, Nat))
  BY <1>1
<1>3. \A m \in S : ~(m < n)
  BY <1>2 DEF OpToRel
<1> QED BY <1>3

\* Steps of a goroutine that change neither the disk, the session nor what is doomed.
BufPlain(p) ==
  \/ BufReadRow(p) \/ BufMark(p) \/ BufFollowed(p) \/ BufEnd(p) \/ BufStart(p)
  \/ BufStreamHook(p) \/ BufFollow(p) \/ BufAlarm(p) \/ BufJanitor(p) \/ BufSegmentHook(p)

\* Every step is one of these.
LEMMA BufCases ==
  ASSUME [BufNext]_bufVars
  PROVE  \/ UNCHANGED bufVars \/ BufRestartHook \/ BufTick \/ BufSeal
         \/ BufStreamUp \/ BufStreamDown \/ BufMediaRestart \/ BufCrash
         \/ \E p \in BufGoroutines :
              \/ BufPlain(p) \/ BufPolicy(p) \/ BufStream(p) \/ BufRestart(p) \/ BufStop(p)
              \/ BufLoad(p) \/ BufRemove(p) \/ BufSessionStarts(p) \/ BufCallFails(p)
BY DEF BufNext, BufRun, BufStep, BufPlain

\* What may be pruned.
LEMMA PrunableFacts ==
  ASSUME BufTypeOK, NEW keep \in Nat, keep > BufPre
  PROVE  /\ Prunable(keep) \in SUBSET Nat
         /\ \A age \in Prunable(keep) : age > BufPre /\ (bufSession # <<>> => age > bufSession.from)
<1>1. \A age \in Prunable(keep) : /\ age \in bufFiles /\ age >= keep
                                  /\ bufSession # <<>> => age > bufSession.from
  BY DEF Prunable
<1>2. bufFiles \in SUBSET Nat /\ BufPre \in Nat
  BY BufferAssumption DEF BufTypeOK
<1>3. \A age \in Prunable(keep) : age \in Nat /\ age > BufPre
  <2> SUFFICES ASSUME NEW age \in Prunable(keep)
               PROVE  age \in Nat /\ age > BufPre
    OBVIOUS
  <2>1. age \in Nat /\ age >= keep
    BY <1>1, <1>2
  <2> QED BY <1>2, <2>1
<1> QED BY <1>1, <1>3

\* The goroutine at work goes somewhere, for something.
LEMMA BufBegins ==
  ASSUME BufTypeOK, NEW p \in BufGoroutines,
         NEW op \in {"hook", "start", "stop", "alarm", "janitor", "segment"},
         NEW step \in {"row", "load", "buffering", "stopped"}, Begins(p, op, step)
  PROVE  /\ bufAt' = [bufAt EXCEPT ![p] = step] /\ bufOp' = [bufOp EXCEPT ![p] = op]
         /\ bufAt[p] = "idle" /\ bufAstray' \in BOOLEAN
         /\ ~bufAstray' => ~bufAstray /\ BufQuiet
BY DEF Begins, BufFree, BufIdle, BufGo, BufTypeOK

\* After the policy.
LEMMA AppliedFacts ==
  ASSUME BufTypeOK, NEW p \in BufGoroutines, Applied(p)
  PROVE  \E step \in {"session", "task", "end"} :
           /\ bufAt' = [bufAt EXCEPT ![p] = step]
           /\ step = "task" => bufOp[p] \in {"start", "stop"}
<1>1. CASE bufOp[p] = "alarm"
  BY <1>1 DEF Applied, BufGo
<1>2. CASE bufOp[p] \in {"start", "stop"}
  BY <1>2 DEF Applied, BufGo
<1>3. CASE bufOp[p] \notin {"alarm", "start", "stop"}
  BY <1>3 DEF Applied, BufGo
<1> QED BY <1>1, <1>2, <1>3

\* A step keeps the types.
LEMMA BufTypeStep ==
  ASSUME BufTypeOK, [BufNext]_bufVars
  PROVE  BufTypeOK'
<1> USE DEF bufZLM, bufRows, bufDisk, bufWork, BufGo
<1>0. {BufPre, BufPost, BufMax, BufKeep, JanitorKeep, MaxBufEvents} \subseteq Nat /\ Aged \in Nat
  BY BufferAssumption DEF Aged
<1>00. bufFiles \in SUBSET Nat /\ bufFiles \cup {0} \in SUBSET Nat
  <2>1. bufFiles \in SUBSET Nat
    BY DEF BufTypeOK
  <2> QED BY <2>1
<1>1. CASE UNCHANGED bufVars
  BY <1>1 DEF bufVars, BufTypeOK
<1>2. CASE BufRestartHook
  <2>1. bufRow' \in BufRowType
    BY <1>2 DEF BufRestartHook, BufTypeOK, BufRowType
  <2>2. bufAstray' \in BOOLEAN
    BY <1>2 DEF BufRestartHook
  <2> QED BY <1>2, <2>1, <2>2 DEF BufRestartHook, BufTypeOK
<1>3. CASE BufTick
  <2>1. \A age \in Nat : Older(age) \in Nat
    BY <1>0 DEF Older
  <2>2. bufFiles' \in SUBSET Nat /\ bufCut' \in Nat
    <3>1. {Older(age) : age \in bufFiles} \in SUBSET Nat
      BY <2>1 DEF BufTypeOK
    <3>2. (IF bufRecorder THEN {0} ELSE {}) \in SUBSET Nat
      OBVIOUS
    <3> QED BY <1>3, <2>1, <3>1, <3>2 DEF BufTick, BufTypeOK
  <2>3. bufSession' # <<>> => /\ bufSession' \in [from : Nat, left : Nat]
                              /\ bufSession'.from + bufSession'.left <= BufPre + BufMax
    <3> SUFFICES ASSUME bufSession # <<>>
                 PROVE  /\ bufSession' \in [from : Nat, left : Nat]
                        /\ bufSession'.from + bufSession'.left <= BufPre + BufMax
      BY <1>3 DEF BufTick
    <3>1. /\ bufSession.from \in Nat /\ bufSession.left \in Nat /\ bufSession.left > 0
          /\ bufSession.from + bufSession.left <= BufPre + BufMax
      BY <1>3 DEF BufTick, BufTypeOK
    <3>2. /\ bufSession.from + 1 \in Nat /\ bufSession.left - 1 \in Nat
          /\ (bufSession.from + 1) + (bufSession.left - 1) <= BufPre + BufMax
      BY <1>0, <3>1
    <3>3. bufSession' = [from |-> bufSession.from + 1, left |-> bufSession.left - 1]
      BY <1>3 DEF BufTick
    <3> QED BY <3>2, <3>3
  <2> QED BY <1>3, <2>2, <2>3 DEF BufTick, BufTypeOK
<1>4. CASE BufSeal \/ BufStreamUp \/ BufMediaRestart
  BY <1>4 DEF BufSeal, BufStreamUp, BufMediaRestart, BufTypeOK
<1>5. CASE BufStreamDown
  <2>1. bufFiles' \in SUBSET Nat
    BY <1>5 DEF BufStreamDown, BufTypeOK
  <2> QED BY <1>5, <2>1 DEF BufStreamDown, BufTypeOK
<1>6. CASE BufCrash
  <2>1. NoSeen \in BufRowType
    BY DEF NoSeen, BufRowType
  <2> QED BY <1>6, <2>1 DEF BufCrash, BufTypeOK
<1>7. ASSUME NEW p \in BufGoroutines, BufPlain(p)
      PROVE  BufTypeOK'
  <2>1. CASE BufReadRow(p)
    BY <2>1 DEF BufReadRow, BufTypeOK
  <2>2. CASE BufMark(p)
    <3>1. bufRow' \in BufRowType
      BY <2>2 DEF BufMark, Marked, BufTypeOK, BufRowType
    <3>2. bufAt' \in [BufGoroutines -> {"load", "start", "session", "task", "end"}] \/ bufAt' \in
            [BufGoroutines -> {"idle", "row", "policy", "stream", "start", "restart", "stop", "reset",
                               "buffering", "stopped", "load", "remove", "healthy", "session", "task", "end"}]
      <4>1. \E step \in {"load", "start", "session", "task", "end"} : bufAt' = [bufAt EXCEPT ![p] = step]
        BY <2>2, AppliedFacts DEF BufMark
      <4> QED BY <4>1 DEF BufTypeOK
    <3> QED BY <2>2, <3>1, <3>2 DEF BufMark, BufTypeOK
  <2>3. CASE BufFollowed(p)
    <3>1. bufTask' \in BOOLEAN
      BY <2>3 DEF BufFollowed, BufTypeOK, BufRowType
    <3> QED BY <2>3, <3>1 DEF BufFollowed, BufTypeOK
  <2>4. CASE BufEnd(p)
    <3>1. NoSeen \in BufRowType
      BY DEF NoSeen, BufRowType
    <3>2. bufAstray' \in BOOLEAN
      BY <2>4 DEF BufEnd
    <3> QED BY <2>4, <3>1, <3>2 DEF BufEnd, BufTypeOK
  <2>5. CASE BufStart(p)
    <3>1. \E step \in {"buffering", "session", "task", "end"} : bufAt' = [bufAt EXCEPT ![p] = step]
      BY <2>5, AppliedFacts DEF BufStart
    <3> QED BY <2>5, <3>1 DEF BufStart, BufTypeOK
  <2>6. CASE BufStreamHook(p)
    <3>1. bufRow' \in BufRowType
      BY <2>6 DEF BufStreamHook, BufTypeOK, BufRowType
    <3>2. Begins(p, "hook", "row")
      BY <2>6 DEF BufStreamHook
    <3> QED BY <2>6, <3>1, <3>2, BufBegins DEF BufStreamHook, BufTypeOK
  <2>7. CASE BufFollow(p)
    <3>1. bufRow' \in BufRowType
      BY <2>7 DEF BufFollow, BufTypeOK, BufRowType
    <3>2. Begins(p, "start", "row") \/ Begins(p, "stop", "row")
      BY <2>7 DEF BufFollow
    <3> QED BY <2>7, <3>1, <3>2, BufBegins DEF BufFollow, BufTypeOK
  <2>8. CASE BufAlarm(p)
    BY <2>8, BufBegins DEF BufAlarm, BufTypeOK
  <2>9. CASE BufJanitor(p)
    BY <2>9, BufBegins DEF BufJanitor, BufTypeOK
  <2>10. CASE BufSegmentHook(p)
    <3>1. bufSeen' \in [BufGoroutines -> BufRowType]
      BY <2>10 DEF BufSegmentHook, BufTypeOK, BufRowType
    <3>2. Begins(p, "segment", "buffering") \/ Begins(p, "segment", "stopped")
      BY <2>10 DEF BufSegmentHook
    <3> QED BY <2>10, <3>1, <3>2, BufBegins DEF BufSegmentHook, BufTypeOK
  <2> QED BY <1>7, <2>1, <2>2, <2>3, <2>4, <2>5, <2>6, <2>7, <2>8, <2>9, <2>10 DEF BufPlain
<1>8. ASSUME NEW p \in BufGoroutines, BufPolicy(p) \/ BufStream(p) \/ BufRestart(p)
      PROVE  BufTypeOK'
  <2>1. bufSeen' \in [BufGoroutines -> BufRowType]
    <3>1. \/ bufSeen' = bufSeen
          \/ bufSeen' = [bufSeen EXCEPT ![p] = [bufSeen[p] EXCEPT !.ai = @ /\ bufTask]]
          \/ bufSeen' = [bufSeen EXCEPT ![p] = [bufSeen[p] EXCEPT !.status = "stopped"]]
      BY <1>8 DEF BufPolicy, BufStream, BufRestart
    <3>2. /\ [bufSeen[p] EXCEPT !.ai = @ /\ bufTask] \in BufRowType
          /\ [bufSeen[p] EXCEPT !.status = "stopped"] \in BufRowType
      <4>1. bufSeen[p] \in BufRowType
        BY DEF BufTypeOK
      <4> QED BY <4>1 DEF BufRowType
    <3> QED BY <3>1, <3>2 DEF BufTypeOK
  <2>2. \E step \in {"stream", "stop", "start", "load", "restart", "reset"} : bufAt' = [bufAt EXCEPT ![p] = step]
    BY <1>8 DEF BufPolicy, BufStream, BufRestart
  <2>3. bufAt' \in [BufGoroutines -> {"idle", "row", "policy", "stream", "start", "restart", "stop", "reset",
                                      "buffering", "stopped", "load", "remove", "healthy", "session",
                                      "task", "end"}]
    BY <2>2 DEF BufTypeOK
  <2>4. bufSession' = bufSession \/ bufSession' = <<>>
    BY <1>8 DEF BufPolicy, BufStream, BufRestart
  <2>5. bufFiles' \in SUBSET Nat
    <3>1. CASE BufPolicy(p) \/ BufStream(p)
      BY <3>1 DEF BufPolicy, BufStream, BufTypeOK
    <3>2. CASE BufRestart(p)
      <4>1. bufFiles' = bufFiles \/ bufFiles' = bufFiles \cup {0}
        BY <3>2 DEF BufRestart, LastSegment
      <4> QED BY <1>00, <4>1
    <3> QED BY <1>8, <3>1, <3>2
  <2> QED BY <1>8, <2>1, <2>3, <2>4, <2>5 DEF BufPolicy, BufStream, BufRestart, BufTypeOK
<1>9. ASSUME NEW p \in BufGoroutines, BufStop(p) \/ BufCallFails(p)
      PROVE  BufTypeOK'
  <2>1. \E step \in {"stopped", "session", "task", "end"} : bufAt' = [bufAt EXCEPT ![p] = step]
    BY <1>9, AppliedFacts DEF BufStop, BufCallFails
  <2>2. bufFiles' \in SUBSET Nat
    <3>1. bufFiles' = bufFiles \/ bufFiles' = bufFiles \cup {0}
      BY <1>9 DEF BufStop, BufCallFails, LastSegment
    <3> QED BY <1>00, <3>1
  <2>3. bufRecorder' \in BOOLEAN /\ bufAstray' \in BOOLEAN
    BY <1>9 DEF BufStop, BufCallFails, BufTypeOK
  <2>4. bufAt' \in [BufGoroutines -> {"idle", "row", "policy", "stream", "start", "restart", "stop", "reset",
                                      "buffering", "stopped", "load", "remove", "healthy", "session",
                                      "task", "end"}]
    BY <2>1 DEF BufTypeOK
  <2> QED BY <1>9, <2>2, <2>3, <2>4 DEF BufStop, BufCallFails, BufTypeOK
<1>10. ASSUME NEW p \in BufGoroutines, BufLoad(p)
       PROVE  BufTypeOK'
  <2>1. \A keep : Prunable(keep) \in SUBSET Nat
    BY <1>00 DEF Prunable
  <2> QED BY <1>10, <2>1 DEF BufLoad, BufTypeOK
<1>11. ASSUME NEW p \in BufGoroutines, BufRemove(p)
       PROVE  BufTypeOK'
  <2>1. bufCut' \in Nat
    <3>1. bufDoomed[p] \in SUBSET Nat
      BY DEF BufTypeOK
    <3>2. CASE \E age \in bufDoomed[p] : age < bufCut
      <4>1. \E age \in bufDoomed[p] : \A other \in bufDoomed[p] : age <= other
        BY <3>1, <3>2, LeastOf
      <4>2. bufCut' \in bufDoomed[p]
        BY <1>11, <3>2, <4>1 DEF BufRemove
      <4> QED BY <3>1, <4>2
    <3>3. CASE ~ \E age \in bufDoomed[p] : age < bufCut
      BY <1>11, <3>3 DEF BufRemove, BufTypeOK
    <3> QED BY <3>2, <3>3
  <2>2. \E step \in {"row", "end", "healthy", "session", "task"} : bufAt' = [bufAt EXCEPT ![p] = step]
    <3>1. CASE bufOp[p] = "janitor"
      BY <1>11, <3>1 DEF BufRemove
    <3>2. CASE bufOp[p] # "janitor" /\ bufSeen[p].status = "buffering"
      BY <1>11, <3>2 DEF BufRemove
    <3>3. CASE bufOp[p] # "janitor" /\ bufSeen[p].status # "buffering"
      <4>1. Applied(p)
        BY <1>11, <3>3 DEF BufRemove
      <4> QED BY <4>1, AppliedFacts
    <3> QED BY <3>1, <3>2, <3>3
  <2>3. bufAt' \in [BufGoroutines -> {"idle", "row", "policy", "stream", "start", "restart", "stop", "reset",
                                      "buffering", "stopped", "load", "remove", "healthy", "session",
                                      "task", "end"}]
    BY <2>2 DEF BufTypeOK
  <2>4. bufOp' = bufOp \/ bufOp' = [bufOp EXCEPT ![p] = "heal"]
    BY <1>11 DEF BufRemove
  <2>5. bufFiles' \in SUBSET Nat /\ bufDoomed' \in [BufGoroutines -> SUBSET Nat]
    BY <1>11 DEF BufRemove, BufTypeOK
  <2> QED BY <1>11, <2>1, <2>3, <2>4, <2>5 DEF BufRemove, BufTypeOK
<1>12. ASSUME NEW p \in BufGoroutines, BufSessionStarts(p)
       PROVE  BufTypeOK'
  <2> DEFINE Typed(session) == /\ session \in [from : Nat, left : Nat]
                               /\ session.from + session.left <= BufPre + BufMax
  <2>1. bufSession' # <<>> => Typed(bufSession')
    <3>1. CASE ~(bufRow.ai /\ bufRow.online)
      BY <1>12, <3>1 DEF BufSessionStarts, BufTypeOK
    <3>2. CASE bufRow.ai /\ bufRow.online /\ bufSession = <<>>
      <4>1. bufSession' = [from |-> BufPre, left |-> BufPost]
        BY <1>12, <3>2 DEF BufSessionStarts
      <4>2. BufPre + BufPost <= BufPre + BufMax
        BY <1>0, BufferAssumption
      <4> QED BY <1>0, <4>1, <4>2
    <3>3. CASE bufRow.ai /\ bufRow.online /\ bufSession # <<>>
      <4> DEFINE rest == BufPre + BufMax - bufSession.from
                 left == IF BufPost < rest THEN BufPost ELSE rest
      <4>1. bufSession \in [from : Nat, left : Nat] /\ bufSession.from + bufSession.left <= BufPre + BufMax
        BY <3>3 DEF BufTypeOK
      <4>2. left \in Nat /\ bufSession.from + left <= BufPre + BufMax
        BY <1>0, <4>1
      <4>3. bufSession' = [bufSession EXCEPT !.left = left]
        BY <1>12, <3>3 DEF BufSessionStarts
      <4> HIDE DEF left
      <4> QED BY <4>1, <4>2, <4>3
    <3> QED BY <3>1, <3>2, <3>3
  <2> QED BY <1>12, <2>1 DEF BufSessionStarts, BufTypeOK
<1> QED BY BufCases, <1>1, <1>2, <1>3, <1>4, <1>5, <1>6, <1>7, <1>8, <1>9, <1>10, <1>11, <1>12

\* A step that removes nothing and starts no session.
LEMMA BufWindowSame ==
  ASSUME BufTypeOK, BufWindowInv, bufCut' = bufCut, bufDoomed' = bufDoomed,
         bufSession' = bufSession \/ bufSession' = <<>>,
         \A q \in BufGoroutines : bufAt[q] = "remove" => bufAt'[q] = "remove"
  PROVE  BufWindowInv'
<1>1. CASE bufSession' = bufSession
  BY <1>1 DEF BufWindowInv
<1>2. CASE bufSession' = <<>>
  BY <1>2 DEF BufWindowInv
<1> QED BY <1>1, <1>2

\* A goroutine goes elsewhere, and none of those that are about to remove something.
LEMMA OthersRemove ==
  ASSUME BufTypeOK, NEW p \in BufGoroutines, bufAt[p] # "remove",
         NEW step, bufAt' = [bufAt EXCEPT ![p] = step]
  PROVE  \A q \in BufGoroutines : bufAt[q] = "remove" => bufAt'[q] = "remove"
BY DEF BufTypeOK

\* Nobody is about to remove a segment of the window, and nobody has.
LEMMA BufWindowStep ==
  ASSUME BufTypeOK, BufWindowInv, JanitorKeep > BufPre, BufTypeOK', [BufNext]_bufVars
  PROVE  BufWindowInv'
<1> USE DEF bufZLM, bufRows, bufDisk, bufWork, BufGo
<1>0. /\ BufPre \in Nat /\ BufPost \in Nat /\ BufMax \in Nat /\ BufKeep \in Nat /\ JanitorKeep \in Nat
      /\ BufKeep > BufPre /\ BufPost <= BufMax /\ Aged = BufPre + BufMax + 1
  BY BufferAssumption DEF Aged
<1>1. CASE \/ UNCHANGED bufVars \/ BufRestartHook \/ BufSeal \/ BufStreamUp \/ BufStreamDown
           \/ BufMediaRestart
  <2>1. /\ bufCut' = bufCut /\ bufDoomed' = bufDoomed /\ bufAt' = bufAt
        /\ bufSession' = bufSession \/ bufSession' = <<>>
    BY <1>1 DEF bufVars, BufRestartHook, BufSeal, BufStreamUp, BufStreamDown, BufMediaRestart
  <2> QED BY <2>1, BufWindowSame
<1>2. CASE BufCrash
  <2>1. /\ bufCut' = bufCut /\ bufSession' = bufSession
        /\ \A p \in BufGoroutines : bufDoomed'[p] = {}
    BY <1>2 DEF BufCrash
  <2> QED BY <2>1 DEF BufWindowInv
<1>3. CASE BufTick
  <2>1. \A p \in BufGoroutines : bufDoomed'[p] = {}
    BY <1>3 DEF BufTick, BufQuiet, BufIdle, BufWindowInv
  <2>2. bufCut \in Nat /\ bufCut' = IF bufCut < Aged THEN bufCut + 1 ELSE Aged
    BY <1>3 DEF BufTick, Older, BufTypeOK
  <2>3. bufCut > BufPre /\ bufCut' > BufPre
    <3>1. bufCut > BufPre
      BY DEF BufWindowInv
    <3> QED BY <1>0, <2>2, <3>1
  <2>4. bufSession' # <<>> => bufCut' > bufSession'.from
    <3> SUFFICES ASSUME bufSession # <<>>
                 PROVE  bufCut' > bufSession'.from
      BY <1>3 DEF BufTick
    <3>1. /\ bufSession.from \in Nat /\ bufSession.left \in Nat /\ bufSession.left > 0
          /\ bufCut > bufSession.from
          /\ bufSession.from + bufSession.left <= BufPre + BufMax
      BY <1>3 DEF BufTick, BufTypeOK, BufWindowInv
    <3>2. bufSession'.from = bufSession.from + 1 /\ bufSession'.left = bufSession.left - 1
      BY <1>3 DEF BufTick
    <3> QED BY <1>0, <2>2, <3>1, <3>2
  <2> QED BY <2>1, <2>3, <2>4 DEF BufWindowInv
<1>4. ASSUME NEW p \in BufGoroutines, BufPlain(p)
      PROVE  BufWindowInv'
  <2>1. bufCut' = bufCut /\ bufDoomed' = bufDoomed /\ bufSession' = bufSession
    BY <1>4 DEF BufPlain, BufReadRow, BufMark, BufFollowed, BufEnd, BufStart, BufStreamHook, BufFollow,
                BufAlarm, BufJanitor, BufSegmentHook
  <2>2. \E step : bufAt' = [bufAt EXCEPT ![p] = step] /\ bufAt[p] # "remove"
    <3>1. CASE BufReadRow(p) \/ BufFollowed(p) \/ BufEnd(p)
      BY <3>1 DEF BufReadRow, BufFollowed, BufEnd
    <3>2. CASE BufMark(p) \/ BufStart(p)
      BY <3>2, AppliedFacts DEF BufMark, BufStart
    <3>3. CASE BufStreamHook(p) \/ BufFollow(p) \/ BufAlarm(p) \/ BufJanitor(p) \/ BufSegmentHook(p)
      <4>1. \E op, step : Begins(p, op, step)
        BY <3>3 DEF BufStreamHook, BufFollow, BufAlarm, BufJanitor, BufSegmentHook
      <4> QED BY <4>1 DEF Begins, BufFree, BufIdle
    <3> QED BY <1>4, <3>1, <3>2, <3>3 DEF BufPlain
  <2>3. \A q \in BufGoroutines : bufAt[q] = "remove" => bufAt'[q] = "remove"
    BY <2>2, OthersRemove
  <2> QED BY <2>1, <2>3, BufWindowSame
<1>5. ASSUME NEW p \in BufGoroutines,
             BufPolicy(p) \/ BufStream(p) \/ BufRestart(p) \/ BufStop(p) \/ BufCallFails(p)
      PROVE  BufWindowInv'
  <2>1. /\ bufCut' = bufCut /\ bufDoomed' = bufDoomed
        /\ bufSession' = bufSession \/ bufSession' = <<>>
    BY <1>5 DEF BufPolicy, BufStream, BufRestart, BufStop, BufCallFails
  <2>2. \E step : bufAt' = [bufAt EXCEPT ![p] = step] /\ bufAt[p] # "remove"
    BY <1>5, AppliedFacts DEF BufPolicy, BufStream, BufRestart, BufStop, BufCallFails
  <2>3. \A q \in BufGoroutines : bufAt[q] = "remove" => bufAt'[q] = "remove"
    BY <2>2, OthersRemove
  <2> QED BY <2>1, <2>3, BufWindowSame
<1>6. ASSUME NEW p \in BufGoroutines, BufLoad(p)
      PROVE  BufWindowInv'
  <2> DEFINE keep == IF bufOp[p] = "janitor" THEN JanitorKeep ELSE BufKeep
  <2>1. keep \in Nat /\ keep > BufPre
    BY <1>0
  <2>2. \A age \in Prunable(keep) : age > BufPre /\ (bufSession # <<>> => age > bufSession.from)
    <3> HIDE DEF keep
    <3> QED BY <2>1, PrunableFacts
  <2>3. /\ bufDoomed' = [bufDoomed EXCEPT ![p] = Prunable(keep)]
        /\ bufAt' = [bufAt EXCEPT ![p] = "remove"]
        /\ bufCut' = bufCut /\ bufSession' = bufSession
    BY <1>6 DEF BufLoad
  <2> HIDE DEF keep
  <2>4. /\ bufDoomed'[p] = Prunable(keep) /\ bufAt'[p] = "remove"
        /\ \A q \in BufGoroutines \ {p} : bufDoomed'[q] = bufDoomed[q] /\ bufAt'[q] = bufAt[q]
    BY <2>3 DEF BufTypeOK
  <2>5. \A q \in BufGoroutines : bufDoomed'[q] # {} => bufAt'[q] = "remove"
    BY <2>4 DEF BufWindowInv
  <2>6. \A q \in BufGoroutines : \A age \in bufDoomed'[q] :
          age > BufPre /\ (bufSession # <<>> => age > bufSession.from)
    BY <2>2, <2>4 DEF BufWindowInv
  <2> QED BY <2>3, <2>5, <2>6 DEF BufWindowInv
<1>7. ASSUME NEW p \in BufGoroutines, BufRemove(p)
      PROVE  BufWindowInv'
  <2>1. /\ bufSession' = bufSession /\ bufDoomed' = [bufDoomed EXCEPT ![p] = {}]
        /\ bufDoomed[p] \in SUBSET Nat
    BY <1>7 DEF BufRemove, BufTypeOK
  <2>2. bufCut' = bufCut \/ bufCut' \in bufDoomed[p]
    <3>1. CASE \E age \in bufDoomed[p] : age < bufCut
      <4>1. \E age \in bufDoomed[p] : \A other \in bufDoomed[p] : age <= other
        BY <2>1, <3>1, LeastOf
      <4> QED BY <1>7, <3>1, <4>1 DEF BufRemove
    <3>2. CASE ~ \E age \in bufDoomed[p] : age < bufCut
      BY <1>7, <3>2 DEF BufRemove
    <3> QED BY <3>1, <3>2
  <2>3. bufCut' > BufPre /\ (bufSession # <<>> => bufCut' > bufSession.from)
    BY <2>2 DEF BufWindowInv
  <2>4. bufDoomed'[p] = {} /\ \A q \in BufGoroutines \ {p} : bufDoomed'[q] = bufDoomed[q]
    BY <2>1 DEF BufTypeOK
  <2>5. \A q \in BufGoroutines \ {p} : bufAt'[q] = bufAt[q]
    BY <1>7, AppliedFacts DEF BufRemove, BufTypeOK
  <2>6. \A q \in BufGoroutines : bufDoomed'[q] # {} => bufAt'[q] = "remove"
    BY <2>4, <2>5 DEF BufWindowInv
  <2>7. \A q \in BufGoroutines : \A age \in bufDoomed'[q] :
          age > BufPre /\ (bufSession # <<>> => age > bufSession.from)
    BY <2>4 DEF BufWindowInv
  <2> QED BY <2>1, <2>3, <2>6, <2>7 DEF BufWindowInv
<1>8. ASSUME NEW p \in BufGoroutines, BufSessionStarts(p)
      PROVE  BufWindowInv'
  <2>1. bufCut' = bufCut /\ bufDoomed' = bufDoomed /\ bufAt[p] = "session"
    BY <1>8 DEF BufSessionStarts
  <2>2. \A q \in BufGoroutines : bufAt[q] = "remove" => bufAt'[q] = "remove"
    BY <1>8, <2>1, OthersRemove DEF BufSessionStarts
  <2>3. CASE bufSession' = bufSession
    BY <2>1, <2>2, <2>3, BufWindowSame
  <2>4. CASE bufRow.ai /\ bufRow.online /\ bufSession = <<>>
    <3>1. bufSession' = [from |-> BufPre, left |-> BufPost]
      BY <1>8, <2>4 DEF BufSessionStarts
    <3>2. bufSession'.from = BufPre
      BY <3>1
    <3> QED BY <2>1, <2>2, <3>2 DEF BufWindowInv
  <2>5. CASE bufRow.ai /\ bufRow.online /\ bufSession # <<>>
    <3>1. bufSession'.from = bufSession.from
      BY <1>8, <2>5 DEF BufSessionStarts, BufTypeOK
    <3> QED BY <2>1, <2>2, <2>5, <3>1 DEF BufWindowInv
  <2>6. ~(bufRow.ai /\ bufRow.online) => bufSession' = bufSession
    BY <1>8 DEF BufSessionStarts
  <2> QED BY <2>3, <2>4, <2>5, <2>6
<1> QED BY BufCases, <1>1, <1>2, <1>3, <1>4, <1>5, <1>6, <1>7, <1>8

\* The start of the buffer.
LEMMA BufStarts == BufInit => BufTypeOK /\ BufWindowInv /\ BufRecorderInv
<1> SUFFICES ASSUME BufInit PROVE BufTypeOK /\ BufWindowInv /\ BufRecorderInv
  OBVIOUS
<1>1. /\ BufPre \in Nat /\ BufMax \in Nat /\ Aged = BufPre + BufMax + 1
  BY BufferAssumption DEF Aged
<1>2. NoSeen \in BufRowType
  BY DEF NoSeen, BufRowType
<1>3. Aged \in Nat /\ Aged > BufPre
  BY <1>1
<1>4. BufTypeOK
  BY <1>2, <1>3 DEF BufInit, BufTypeOK
<1>5. BufWindowInv
  BY <1>3 DEF BufInit, BufWindowInv
<1>6. BufRecorderInv
  BY DEF BufInit, BufRecorderInv, BufIdle, Shown
<1> QED BY <1>4, <1>5, <1>6

\* If the janitor keeps more than the window before an alarm, no segment of the window
\* of an open session is ever removed, for any lengths of windows and any number of
\* goroutines.  Without the hypothesis it can be: the code does not see to it.
THEOREM WindowIsKept ==
  ASSUME JanitorKeep > BufPre
  PROVE  BufSpec => []WindowKept
<1>1. BufInit => BufTypeOK /\ BufWindowInv
  BY BufStarts
<1>2. BufTypeOK /\ BufWindowInv /\ [BufNext]_bufVars => BufTypeOK' /\ BufWindowInv'
  BY BufTypeStep, BufWindowStep
<1>3. BufWindowInv => WindowKept
  BY DEF BufWindowInv, WindowKept
<1> QED BY <1>1, <1>2, <1>3, PTL DEF BufSpec

\* A goroutine that is alone before a step and still at work after it.
LEMMA BufAlone ==
  ASSUME BufTypeOK, NEW p \in BufGoroutines, NEW step, step # "idle",
         bufAt' = [bufAt EXCEPT ![p] = step],
         ~bufAstray' => \A q \in BufGoroutines \ {p} : BufIdle(q),
         ~bufAstray' => BufPlace(p)'
  PROVE  BufRecorderInv'
<1>1. bufAt'[p] = step /\ \A q \in BufGoroutines \ {p} : bufAt'[q] = bufAt[q]
  BY DEF BufTypeOK
<1>2. ~BufIdle(p)' /\ ~BufQuiet'
  BY <1>1 DEF BufIdle, BufQuiet
<1>3. ~bufAstray' => \A q \in BufGoroutines \ {p} : BufIdle(q)'
  BY <1>1 DEF BufIdle
<1> QED BY <1>2, <1>3 DEF BufRecorderInv

\* A step that leaves the goroutines where they are, and the rows as they are.
LEMMA BufAround ==
  ASSUME BufRecorderInv, UNCHANGED <<bufRow, bufTask, bufAt, bufOp, bufSeen, bufAstray>>,
         bufRecorder' => bufRecorder
  PROVE  BufRecorderInv'
<1>1. \A p \in BufGoroutines : BufIdle(p)' <=> BufIdle(p)
  BY DEF BufIdle
<1>2. BufQuiet' <=> BufQuiet
  BY <1>1 DEF BufQuiet
<1>3. Shown => Shown'
  BY DEF Shown, Analysed
<1>4. \A p \in BufGoroutines : BufPlace(p) => BufPlace(p)'
  BY <1>3 DEF BufPlace, Analysed
<1> QED BY <1>1, <1>2, <1>3, <1>4 DEF BufRecorderInv

\* Somebody begins with the rows as a quiet source has left them.
LEMMA BufBeginStep ==
  ASSUME BufTypeOK, BufRecorderInv, NEW p \in BufGoroutines,
         BufStreamHook(p) \/ BufFollow(p) \/ BufAlarm(p) \/ BufJanitor(p) \/ BufSegmentHook(p)
  PROVE  BufRecorderInv'
<1> USE DEF bufZLM, bufRows, bufDisk, bufWork
<1> DEFINE Ready(op, step) ==
      /\ bufAt' = [bufAt EXCEPT ![p] = step] /\ bufAt'[p] = step /\ bufOp'[p] = op
      /\ ~bufAstray' => Shown /\ \A q \in BufGoroutines \ {p} : BufIdle(q)
<1>1. ASSUME NEW op \in {"hook", "start", "stop", "alarm", "janitor", "segment"},
             NEW step \in {"row", "load", "buffering", "stopped"}, Begins(p, op, step)
      PROVE  Ready(op, step)
  <2>1. /\ bufAt' = [bufAt EXCEPT ![p] = step] /\ bufOp' = [bufOp EXCEPT ![p] = op]
        /\ ~bufAstray' => ~bufAstray /\ BufQuiet
    BY <1>1, BufBegins
  <2>2. bufAt'[p] = step /\ bufOp'[p] = op
    BY <2>1 DEF BufTypeOK
  <2> QED BY <2>1, <2>2 DEF BufRecorderInv, BufQuiet
<1> HIDE DEF Ready
<1>2. CASE BufStreamHook(p)
  <2>1. Ready("hook", "row")
    BY <1>1, <1>2 DEF BufStreamHook
  <2>2. /\ bufRow'.ai = bufRow.ai /\ bufRow'.status = bufRow.status
        /\ bufRecorder' = bufRecorder /\ bufTask' = bufTask
    BY <1>2 DEF BufStreamHook, BufTypeOK, BufRowType
  <2>3. Shown => Shown'
    BY <2>2 DEF Shown, Analysed
  <2>4. ~bufAstray' => BufPlace(p)'
    BY <2>1, <2>3 DEF Ready, BufPlace, Shown
  <2> QED BY <2>1, <2>4, BufAlone DEF Ready
<1>3. CASE BufFollow(p)
  <2>1. PICK on \in BOOLEAN : /\ bufRow' = [bufRow EXCEPT !.ai = on]
                              /\ Begins(p, IF on THEN "start" ELSE "stop", "row")
    BY <1>3 DEF BufFollow
  <2>2. Ready(IF on THEN "start" ELSE "stop", "row")
    BY <1>1, <2>1
  <2>3. /\ bufRow'.ai = on /\ bufRow'.status = bufRow.status
        /\ bufRecorder' = bufRecorder /\ bufTask' = bufTask
    BY <1>3, <2>1 DEF BufFollow, BufTypeOK, BufRowType
  <2>4. /\ bufAt'[p] = "row" /\ bufOp'[p] = IF on THEN "start" ELSE "stop"
        /\ ~bufAstray' => Shown
    BY <2>2 DEF Ready
  <2>5. ~bufAstray' => BufPlace(p)'
    <3>1. CASE on
      <4>1. bufRow'.ai /\ bufAt'[p] = "row" /\ bufOp'[p] = "start"
        BY <2>3, <2>4, <3>1
      <4>2. ~bufAstray' => Shown'
        BY <2>3, <2>4, <4>1 DEF Shown, Analysed
      <4> QED BY <4>1, <4>2 DEF BufPlace, Shown
    <3>2. CASE ~on
      <4>1. ~bufRow'.ai /\ bufAt'[p] = "row" /\ bufOp'[p] = "stop"
        BY <2>3, <2>4, <3>2
      <4>2. ~bufAstray' /\ bufRecorder' => bufRow'.status = "buffering"
        BY <2>3, <2>4 DEF Shown
      <4> QED BY <4>1, <4>2 DEF BufPlace
    <3> QED BY <3>1, <3>2
  <2> QED BY <2>2, <2>5, BufAlone DEF Ready
<1>4. CASE BufAlarm(p)
  <2>1. Ready("alarm", "row")
    BY <1>1, <1>4 DEF BufAlarm
  <2>2. Shown => Shown'
    BY <1>4 DEF BufAlarm, Shown, Analysed
  <2>3. ~bufAstray' => BufPlace(p)'
    BY <2>1, <2>2 DEF Ready, BufPlace, Shown
  <2> QED BY <2>1, <2>3, BufAlone DEF Ready
<1>5. CASE BufJanitor(p)
  <2>1. Ready("janitor", "load")
    BY <1>1, <1>5 DEF BufJanitor
  <2>2. Shown => Shown'
    BY <1>5 DEF BufJanitor, Shown, Analysed
  <2>3. ~bufAstray' => BufPlace(p)'
    BY <2>1, <2>2 DEF Ready, BufPlace
  <2> QED BY <2>1, <2>3, BufAlone DEF Ready
<1>6. CASE BufSegmentHook(p)
  <2>1. Ready("segment", IF Analysed THEN "buffering" ELSE "stopped")
    BY <1>1, <1>6 DEF BufSegmentHook, Analysed
  <2>2. UNCHANGED <<bufRow, bufTask, bufRecorder>>
    BY <1>6 DEF BufSegmentHook
  <2>3. Analysed' <=> Analysed
    BY <2>2 DEF Analysed
  <2>4. CASE Analysed
    <3>1. bufAt'[p] = "buffering" /\ bufOp'[p] = "segment"
      BY <2>1, <2>4 DEF Ready
    <3> QED BY <2>1, <2>3, <2>4, <3>1, BufAlone DEF Ready, BufPlace
  <2>5. CASE ~Analysed
    <3>1. /\ bufAt'[p] = "stopped" /\ bufOp'[p] = "segment"
          /\ ~bufAstray' => Shown
      BY <2>1, <2>5 DEF Ready
    <3>2. ~bufAstray' => BufPlace(p)'
      BY <2>2, <2>5, <3>1 DEF BufPlace, Shown
    <3> QED BY <2>1, <2>5, <3>2, BufAlone DEF Ready
  <2> QED BY <2>4, <2>5
<1> QED BY <1>2, <1>3, <1>4, <1>5, <1>6

\* A goroutine at work goes on: what it relied on leads to what it relies on next.
LEMMA BufGoesOn ==
  ASSUME BufTypeOK, BufTypeOK', BufRecorderInv, NEW p \in BufGoroutines,
         \/ BufReadRow(p) \/ BufPolicy(p) \/ BufStream(p) \/ BufRestart(p) \/ BufStart(p) \/ BufStop(p)
         \/ BufMark(p) \/ BufLoad(p) \/ BufRemove(p) \/ BufSessionStarts(p) \/ BufFollowed(p)
  PROVE  BufRecorderInv'
<1> USE DEF bufZLM, bufRows, bufDisk, bufWork, BufGo
<1>1. bufAstray' = bufAstray
  BY DEF BufReadRow, BufPolicy, BufStream, BufRestart, BufStart, BufStop, BufMark, BufLoad, BufRemove,
         BufSessionStarts, BufFollowed
<1>2. bufAt[p] # "idle"
  BY DEF BufReadRow, BufPolicy, BufStream, BufRestart, BufStart, BufStop, BufMark, BufLoad, BufRemove,
         BufSessionStarts, BufFollowed
<1>3. CASE bufAstray
  BY <1>1, <1>3 DEF BufRecorderInv
<1>4. CASE ~bufAstray
  <2>1. BufPlace(p) /\ \A q \in BufGoroutines \ {p} : BufIdle(q)
    BY <1>2, <1>4 DEF BufRecorderInv, BufIdle
  <2>2. ASSUME NEW step, step # "idle", bufAt' = [bufAt EXCEPT ![p] = step], BufPlace(p)'
        PROVE  BufRecorderInv'
    BY <2>1, <2>2, BufAlone
  <2> DEFINE Now(step) == bufAt' = [bufAt EXCEPT ![p] = step] /\ bufAt'[p] = step
  <2>3. ASSUME NEW step, bufAt' = [bufAt EXCEPT ![p] = step]
        PROVE  Now(step)
    BY <2>3 DEF BufTypeOK
  <2> HIDE DEF Now
  <2>4. ASSUME NEW step, step # "idle", Now(step), BufPlace(p)'
        PROVE  BufRecorderInv'
    BY <2>2, <2>4 DEF Now
  <2>5. ASSUME Applied(p), Shown', bufOp' = bufOp, bufRow'.ai = bufRow.ai
        PROVE  BufRecorderInv'
    <3>1. PICK step \in {"session", "task", "end"} :
            /\ bufAt' = [bufAt EXCEPT ![p] = step]
            /\ step = "task" => bufOp[p] \in {"start", "stop"}
      BY <2>5, AppliedFacts
    <3>2. Now(step)
      BY <2>3, <3>1
    <3>3. BufPlace(p)'
      BY <2>1, <2>5, <3>1, <3>2 DEF Now, BufPlace
    <3> QED BY <2>4, <3>1, <3>2, <3>3
  <2>6. CASE BufReadRow(p)
    <3>1. Now("policy") /\ bufAt[p] = "row"
      BY <2>3, <2>6 DEF BufReadRow
    <3>2. /\ bufSeen'[p] = bufRow
          /\ UNCHANGED <<bufOp, bufRow, bufTask, bufRecorder>>
      BY <2>6 DEF BufReadRow, BufTypeOK
    <3>3. BufPlace(p)'
      BY <2>1, <3>1, <3>2 DEF Now, BufPlace, Shown, Analysed
    <3> QED BY <2>4, <3>1, <3>3
  <2>7. CASE BufPolicy(p)
    <3>1. /\ bufAt[p] = "policy" /\ UNCHANGED <<bufOp, bufRow, bufTask, bufRecorder>>
          /\ Now("stream") \/ Now("stop")
      BY <2>3, <2>7 DEF BufPolicy
    <3>2. /\ bufSeen'[p].status = bufSeen[p].status
          /\ bufSeen'[p].ai = (bufSeen[p].ai /\ bufTask)
      <4>1. bufSeen[p] \in BufRowType
        BY DEF BufTypeOK
      <4>2. bufSeen'[p] = [bufSeen[p] EXCEPT !.ai = bufSeen[p].ai /\ bufTask]
        BY <2>7 DEF BufPolicy, BufTypeOK
      <4> QED BY <4>1, <4>2 DEF BufRowType
    <3>3. ASSUME NEW step \in {"stream", "stop"}, Now(step)
          PROVE  BufPlace(p)'
      BY <2>1, <3>1, <3>2, <3>3 DEF Now, BufPlace, Shown, Analysed
    <3> QED BY <2>4, <3>1, <3>3
  <2>8. CASE BufStream(p)
    <3>1. bufAt[p] = "stream" /\ UNCHANGED <<bufOp, bufRow, bufTask, bufRecorder, bufSeen>>
      BY <2>8 DEF BufStream
    <3>2. CASE ~bufUp \/ ~bufSeen[p].ai
      <4>1. Now("stop")
        BY <2>3, <2>8, <3>2 DEF BufStream
      <4>2. BufPlace(p)'
        BY <2>1, <3>1, <4>1 DEF Now, BufPlace
      <4> QED BY <2>4, <4>1, <4>2
    <3>3. CASE bufUp /\ bufSeen[p].ai /\ bufSeen[p].status = "stopped"
      <4>1. Now("start")
        BY <2>3, <2>8, <3>3 DEF BufStream
      <4>2. Analysed /\ ~bufRecorder
        BY <2>1, <3>1, <3>3 DEF BufPlace
      <4>3. BufPlace(p)'
        BY <2>1, <3>1, <4>1, <4>2 DEF Now, BufPlace, Analysed
      <4> QED BY <2>4, <4>1, <4>3
    <3>4. CASE bufUp /\ bufSeen[p].ai /\ bufSeen[p].status # "stopped"
      <4>1. Now("load") \/ Now("restart")
        BY <2>3, <2>8, <3>4 DEF BufStream
      <4>2. Analysed /\ Shown /\ (bufRecorder => bufRow.status = "buffering")
        BY <2>1, <3>1, <3>4 DEF BufPlace, Shown
      <4>3. ASSUME NEW step \in {"load", "restart"}, Now(step)
            PROVE  BufPlace(p)'
        BY <2>1, <3>1, <4>2, <4>3 DEF Now, BufPlace, Shown, Analysed
      <4> QED BY <2>4, <4>1, <4>3
    <3> QED BY <3>2, <3>3, <3>4
  <2>9. CASE BufRestart(p)
    <3>1. /\ bufAt[p] = "restart" /\ Now("reset") /\ bufRecorder' = FALSE
          /\ UNCHANGED <<bufOp, bufRow, bufTask>>
      BY <2>3, <2>9 DEF BufRestart
    <3>2. BufPlace(p)'
      BY <2>1, <3>1 DEF Now, BufPlace, Analysed
    <3> QED BY <2>4, <3>1, <3>2
  <2>10. CASE BufStart(p)
    <3>1. bufAt[p] = "start" /\ UNCHANGED <<bufOp, bufRow, bufTask, bufSeen>>
      BY <2>10 DEF BufStart
    <3>2. CASE bufUp
      <4>1. Now("buffering")
        BY <2>3, <2>10, <3>2 DEF BufStart
      <4>2. BufPlace(p)'
        BY <2>1, <3>1, <4>1 DEF Now, BufPlace, Analysed
      <4> QED BY <2>4, <4>1, <4>2
    <3>3. CASE ~bufUp
      <4>1. Applied(p) /\ bufRecorder' = bufRecorder
        BY <2>10, <3>3 DEF BufStart
      <4>2. Shown'
        BY <2>1, <3>1, <4>1 DEF BufPlace, Shown
      <4> QED BY <2>5, <3>1, <4>1, <4>2
    <3> QED BY <3>2, <3>3
  <2>11. CASE BufStop(p)
    <3>1. /\ bufAt[p] = "stop" /\ Now("stopped") /\ UNCHANGED <<bufOp, bufRow, bufTask, bufSeen>>
      BY <2>3, <2>11 DEF BufStop
    <3>2. ~bufRecorder'
      <4>1. bufRecorder => bufSeen[p].status = "buffering"
        BY <2>1, <3>1 DEF BufPlace
      <4> QED BY <2>11, <4>1 DEF BufStop
    <3>3. BufPlace(p)'
      BY <2>1, <3>1, <3>2 DEF Now, BufPlace
    <3> QED BY <2>4, <3>1, <3>3
  <2>12. CASE BufMark(p)
    <3>1. /\ bufRow'.ai = bufRow.ai /\ UNCHANGED <<bufOp, bufTask, bufSeen, bufRecorder>>
      BY <2>12 DEF BufMark, Marked, BufTypeOK, BufRowType
    <3>2. CASE bufAt[p] = "buffering" /\ Marked("buffering") /\ BufGo(p, "load")
      <4>1. Now("load") /\ bufRow'.status = "buffering"
        BY <2>3, <3>2 DEF Marked, BufTypeOK, BufRowType
      <4>2. BufPlace(p)'
        BY <2>1, <3>1, <3>2, <4>1 DEF Now, BufPlace, Shown, Analysed
      <4> QED BY <2>4, <4>1, <4>2
    <3>3. CASE bufAt[p] = "reset" /\ Marked("stopped") /\ BufGo(p, "start")
      <4>1. Now("start")
        BY <2>3, <3>3
      <4>2. BufPlace(p)'
        BY <2>1, <3>1, <3>3, <4>1 DEF Now, BufPlace, Analysed
      <4> QED BY <2>4, <4>1, <4>2
    <3>4. CASE bufAt[p] = "healthy" /\ Marked("buffering") /\ Applied(p)
      <4>1. bufRow'.status = "buffering"
        BY <3>4 DEF Marked, BufTypeOK, BufRowType
      <4>2. Shown'
        BY <2>1, <3>1, <3>4, <4>1 DEF BufPlace, Shown, Analysed
      <4> QED BY <2>5, <3>1, <3>4, <4>2
    <3>5. CASE bufAt[p] = "stopped" /\ Marked("stopped") /\ Applied(p)
      <4>1. Shown'
        BY <2>1, <3>1, <3>5 DEF BufPlace, Shown
      <4> QED BY <2>5, <3>1, <3>5, <4>1
    <3> QED BY <2>12, <3>2, <3>3, <3>4, <3>5 DEF BufMark
  <2>13. CASE BufLoad(p)
    <3>1. /\ bufAt[p] = "load" /\ Now("remove")
          /\ UNCHANGED <<bufOp, bufRow, bufTask, bufSeen, bufRecorder>>
      BY <2>3, <2>13 DEF BufLoad
    <3>2. BufPlace(p)'
      BY <2>1, <3>1 DEF Now, BufPlace, Shown, Analysed
    <3> QED BY <2>4, <3>1, <3>2
  <2>14. CASE BufRemove(p)
    <3>1. /\ bufAt[p] = "remove" /\ UNCHANGED <<bufRow, bufTask, bufSeen, bufRecorder>>
      BY <2>14 DEF BufRemove
    <3>2. Shown /\ Shown'
      BY <2>1, <3>1 DEF BufPlace, Shown, Analysed
    <3>3. CASE bufOp[p] = "janitor"
      <4>1. bufOp'[p] = "heal" /\ (Now("row") \/ Now("end"))
        BY <2>3, <2>14, <3>3 DEF BufRemove, BufTypeOK
      <4>2. ASSUME NEW step \in {"row", "end"}, Now(step)
            PROVE  BufPlace(p)'
        BY <3>2, <4>1, <4>2 DEF Now, BufPlace, Shown
      <4> QED BY <2>4, <4>1, <4>2
    <3>4. CASE bufOp[p] # "janitor" /\ bufSeen[p].status = "buffering"
      <4>1. Now("healthy") /\ bufOp' = bufOp
        BY <2>3, <2>14, <3>4 DEF BufRemove
      <4>2. BufPlace(p)'
        BY <2>1, <3>1, <3>2, <4>1 DEF Now, BufPlace
      <4> QED BY <2>4, <4>1, <4>2
    <3>5. CASE bufOp[p] # "janitor" /\ bufSeen[p].status # "buffering"
      <4>1. Applied(p) /\ bufOp' = bufOp
        BY <2>14, <3>5 DEF BufRemove
      <4> QED BY <2>5, <3>1, <3>2, <4>1
    <3> QED BY <3>3, <3>4, <3>5
  <2>15. CASE BufSessionStarts(p)
    <3>1. /\ bufAt[p] = "session" /\ Now("end")
          /\ UNCHANGED <<bufOp, bufRow, bufTask, bufSeen, bufRecorder>>
      BY <2>3, <2>15 DEF BufSessionStarts
    <3>2. BufPlace(p)'
      BY <2>1, <3>1 DEF Now, BufPlace, Shown, Analysed
    <3> QED BY <2>4, <3>1, <3>2
  <2>16. CASE BufFollowed(p)
    <3>1. /\ bufAt[p] = "task" /\ Now("end")
          /\ UNCHANGED <<bufOp, bufRow, bufSeen, bufRecorder>>
      BY <2>3, <2>16 DEF BufFollowed
    <3>2. bufRecorder => bufTask'
      <4> SUFFICES ASSUME bufRecorder PROVE bufTask'
        OBVIOUS
      <4>1. bufRow.ai /\ bufOp[p] = "start"
        BY <2>1, <3>1 DEF BufPlace, Shown, Analysed
      <4>2. bufTask' \in {TRUE, bufRow.ai}
        BY <2>16, <4>1 DEF BufFollowed
      <4> QED BY <4>1, <4>2
    <3>3. BufPlace(p)'
      BY <2>1, <3>1, <3>2 DEF Now, BufPlace, Shown, Analysed
    <3> QED BY <2>4, <3>1, <3>3
  <2> QED BY <2>6, <2>7, <2>8, <2>9, <2>10, <2>11, <2>12, <2>13, <2>14, <2>15, <2>16
<1> QED BY <1>3, <1>4

\* A step leaves no recorder that nobody knows of.
LEMMA BufRecorderStep ==
  ASSUME BufTypeOK, BufTypeOK', BufRecorderInv, [BufNext]_bufVars
  PROVE  BufRecorderInv'
<1> USE DEF bufZLM, bufRows, bufDisk, bufWork
<1>1. CASE \/ UNCHANGED bufVars \/ BufTick \/ BufSeal \/ BufStreamUp \/ BufStreamDown \/ BufMediaRestart
  <2>1. /\ UNCHANGED <<bufRow, bufTask, bufAt, bufOp, bufSeen, bufAstray>>
        /\ bufRecorder' => bufRecorder
    BY <1>1 DEF bufVars, BufTick, BufSeal, BufStreamUp, BufStreamDown, BufMediaRestart
  <2> QED BY <2>1, BufAround
<1>2. CASE BufRestartHook
  <2>1. /\ bufAt' = bufAt /\ bufRecorder' = bufRecorder
        /\ ~bufAstray' => BufQuiet /\ ~bufRecorder
    BY <1>2 DEF BufRestartHook
  <2>2. ~bufAstray' => \A q \in BufGoroutines : BufIdle(q)'
    BY <2>1 DEF BufQuiet, BufIdle
  <2> QED BY <2>1, <2>2 DEF BufRecorderInv, Shown
<1>3. CASE BufCrash
  <2>1. \A q \in BufGoroutines : BufIdle(q)'
    BY <1>3 DEF BufCrash, BufIdle
  <2> QED BY <1>3, <2>1 DEF BufCrash, BufRecorderInv, Shown
<1>4. ASSUME NEW p \in BufGoroutines, BufCallFails(p)
      PROVE  BufRecorderInv'
  BY <1>4 DEF BufCallFails, BufRecorderInv
<1>5. ASSUME NEW p \in BufGoroutines, BufEnd(p)
      PROVE  BufRecorderInv'
  <2>1. /\ bufAt[p] = "end" /\ bufAt' = [bufAt EXCEPT ![p] = "idle"]
        /\ UNCHANGED <<bufRow, bufTask, bufRecorder>>
        /\ bufAstray' = (bufAstray /\ (bufRecorder \/ \E q \in BufGoroutines \ {p} : ~BufIdle(q)))
    BY <1>5 DEF BufEnd, BufGo
  <2>2. CASE bufAstray
    <3>1. ~bufAstray' => ~bufRecorder' /\ \A q \in BufGoroutines \ {p} : BufIdle(q)
      BY <2>1, <2>2
    <3>2. ~bufAstray' => ~bufRecorder' /\ \A q \in BufGoroutines : BufIdle(q)'
      BY <2>1, <3>1 DEF BufIdle, BufTypeOK
    <3> QED BY <3>2 DEF BufRecorderInv, Shown
  <2>3. CASE ~bufAstray
    <3>1. Shown /\ \A q \in BufGoroutines \ {p} : BufIdle(q)
      BY <2>1, <2>3 DEF BufRecorderInv, BufIdle, BufPlace
    <3>2. Shown' /\ \A q \in BufGoroutines : BufIdle(q)'
      BY <2>1, <3>1 DEF BufIdle, BufTypeOK, Shown, Analysed
    <3> QED BY <3>2 DEF BufRecorderInv
  <2> QED BY <2>2, <2>3
<1> QED BY BufCases, <1>1, <1>2, <1>3, <1>4, <1>5, BufBeginStep, BufGoesOn DEF BufPlain

\* A recorder that runs has a row that says so, for any number of goroutines, unless they
\* have overlapped or a call has failed since it was started.
THEOREM RunningRecorderIsKnown == BufSpec => []RecorderIsKnown
<1>1. BufInit => BufTypeOK /\ BufRecorderInv
  BY BufStarts
<1>2. BufTypeOK /\ BufRecorderInv /\ [BufNext]_bufVars => BufTypeOK' /\ BufRecorderInv'
  BY BufTypeStep, BufRecorderStep
<1>3. BufRecorderInv => RecorderIsKnown
  BY DEF BufRecorderInv, RecorderIsKnown, Shown
<1> QED BY <1>1, <1>2, <1>3, PTL DEF BufSpec
-----------------------------------------------------------------------------
(* The WebSocket hub.                                                           *)

HubTypeOK ==
  /\ hubAt \in [Broadcasters -> {"idle", "called", "send", "stuck", "drop", "done"}]
  /\ hubClient \in [HubClients -> {"none", "joining", "reading", "broken", "leaving", "gone"}]
  /\ hubMap \subseteq HubClients
  /\ hubLeft \in [Broadcasters -> SUBSET HubClients] /\ hubOn \in [Broadcasters -> SUBSET HubClients]
  /\ hubBad \in [Broadcasters -> SUBSET HubClients]
  /\ hubGot \in [Broadcasters -> SUBSET HubClients] /\ hubDue \in [Broadcasters -> SUBSET HubClients]

\* Whom a broadcast found it has written to, failed to write to, is writing to or will.
HubSent(b) ==
  /\ hubAt[b] # "stuck" => hubDue[b] \subseteq hubLeft[b] \cup hubOn[b] \cup hubGot[b] \cup hubBad[b]
  /\ hubLeft[b] \cup hubOn[b] \subseteq hubDue[b]
  /\ hubAt[b] \in {"idle", "called"} => hubDue[b] = {} /\ hubOn[b] = {}
  /\ hubAt[b] \in {"drop", "done"} => hubLeft[b] = {} /\ hubOn[b] = {}

\* Who is in the map has joined, and who could not be written to has broken: neither
\* becomes healthy again.
HubInv ==
  /\ HubTypeOK /\ HubKeepsHealthy /\ HubNoSelfWait
  /\ \A k \in hubMap : hubClient[k] \notin {"none", "joining"}
  /\ \A b \in Broadcasters : HubSent(b)
  /\ \A b \in Broadcasters : \A k \in hubDue[b] : hubClient[k] \notin {"none", "joining"}
  /\ \A b \in Broadcasters : \A k \in hubBad[b] : hubClient[k] \in {"broken", "leaving", "gone"}

\* A step of a client.
LEMMA HubClientKeeps ==
  ASSUME HubInv, NEW k \in HubClients,
         HubConnect(k) \/ HubBreak(k) \/ HubClientStep(k)
  PROVE  HubInv'
<1> USE DEF HubInv, HubTypeOK, HubKeepsHealthy, HubNoSelfWait, HubSent, HubBe
<1>1. CASE HubConnect(k)
  BY <1>1 DEF HubConnect, Announce
<1>2. CASE HubBreak(k)
  BY <1>2 DEF HubBreak
<1>3. CASE HubJoin(k)
  BY <1>3 DEF HubJoin, Locked
<1>4. CASE HubReadError(k)
  BY <1>4 DEF HubReadError, Announce
<1>5. CASE HubLeave(k)
  BY <1>5 DEF HubLeave, Locked
<1> QED BY <1>1, <1>2, <1>3, <1>4, <1>5 DEF HubClientStep

\* A step of a broadcast.
LEMMA HubBroadcastKeeps ==
  ASSUME HubInv, NEW b \in Broadcasters, HubCall(b) \/ HubBroadcast(b)
  PROVE  HubInv'
<1> USE DEF HubInv, HubTypeOK, HubKeepsHealthy, HubNoSelfWait, HubSent, HubGo
<1>1. CASE HubCall(b)
  BY <1>1 DEF HubCall
<1>2. CASE HubBegin(b)
  BY <1>2 DEF HubBegin
<1>3. ASSUME NEW k \in HubClients, HubWrite(b, k) PROVE HubInv'
  BY <1>3 DEF HubWrite
<1>4. ASSUME NEW k \in HubClients, HubWritten(b, k) PROVE HubInv'
  BY <1>4 DEF HubWritten
<1>5. CASE HubEnd(b)
  BY <1>5 DEF HubEnd, Done, Announce
<1>6. CASE HubDrop(b)
  <2>1. HubTypeOK' /\ \A c \in Broadcasters : HubSent(c)'
    BY <1>6 DEF HubDrop, Locked
  <2>2. HubKeepsHealthy'
    BY <1>6 DEF HubDrop, Locked
  <2>3. ASSUME NEW c \in Broadcasters, <<"broadcast", c>> \in hubWaiting' PROVE hubAt'[c] = "drop"
    BY <1>6, <2>3 DEF HubDrop, Locked
  <2>4. /\ \A k \in hubMap' : hubClient'[k] \notin {"none", "joining"}
        /\ \A c \in Broadcasters : \A k \in hubDue'[c] : hubClient'[k] \notin {"none", "joining"}
        /\ \A c \in Broadcasters : \A k \in hubBad'[c] : hubClient'[k] \in {"broken", "leaving", "gone"}
    BY <1>6 DEF HubDrop, Locked
  <2>5. QED BY <2>1, <2>2, <2>3, <2>4
<1> QED BY <1>1, <1>2, <1>3, <1>4, <1>5, <1>6 DEF HubBroadcast

\* The invariant of the hub.
LEMMA HubAlways == HubSpec => []HubInv
<1>1. HubInit => HubInv
  BY DEF HubInit, HubInv, HubTypeOK, HubKeepsHealthy, HubNoSelfWait, HubSent
<1>2. HubInv /\ UNCHANGED hubVars => HubInv'
  BY DEF hubVars, HubInv, HubTypeOK, HubKeepsHealthy, HubNoSelfWait, HubSent
<1>3. HubInv /\ [HubNext]_hubVars => HubInv'
  BY <1>2, HubClientKeeps, HubBroadcastKeeps DEF HubNext, HubWork
<1> QED BY <1>1, <1>3, PTL DEF HubSpec

\* However many broadcasts and clients there are: a broadcast that is over has reached
\* every client that it found and that is still healthy.
THEOREM BroadcastsReach == HubSpec => []HubReached
<1>1. HubInv => HubReached
  BY DEF HubInv, HubReached, HubSent
<1> QED BY <1>1, HubAlways, PTL

\* No broadcast drops a healthy client, and no client's leaving takes another one along.
THEOREM HealthyClientsStay == HubSpec => []HubKeepsHealthy
<1> QED BY HubAlways, PTL DEF HubInv

\* No broadcast asks for the write lock before it has given back the read lock.
THEOREM NobodyWaitsForHimself == HubSpec => []HubNoSelfWait
<1> QED BY HubAlways, PTL DEF HubInv
-----------------------------------------------------------------------------
(* The recoveries after a start.                                                *)

RecTypeOK ==
  /\ recFlags \in [zlmRunning : BOOLEAN, zlmPending : BOOLEAN, running : BOOLEAN, queued : BOOLEAN]
  /\ recAt \in [Recoveries -> {"idle", "list", "mark", "fetch", "synced", "resume", "clear", "retry", "done"}]
  /\ recList \in [Recoveries -> SUBSET RecTasks] /\ recMarks \subseteq RecTasks /\ recDue \subseteq RecTasks
  /\ recAuto \subseteq RecTasks /\ recSync \in BOOLEAN

RecInv == RecTypeOK /\ RecFlagsTell /\ RecOwedIsMarked

\* A request for a recovery of what is pending starts one or leaves a mark for it.
LEMMA RecScheduleKeeps ==
  ASSUME RecTypeOK, RecFlagsTell, RecSchedule
  PROVE  /\ RecFlagsTell'
         /\ recFlags' \in [zlmRunning : BOOLEAN, zlmPending : BOOLEAN, running : BOOLEAN, queued : BOOLEAN]
         /\ recAt' \in [Recoveries -> {"idle", "list", "mark", "fetch", "synced", "resume", "clear", "retry", "done"}]
  BY DEF RecTypeOK, RecFlagsTell, RecSchedule, RecGo, Recoveries

\* A step of the world around, of the keepalives and of the retry goroutine.
LEMMA RecAround ==
  ASSUME RecInv,
         \/ RecZLMRestart \/ RecAIStops \/ RecAIReturns \/ RecKeepalive
         \/ RecRetryCheck \/ RecRetryWakes \/ RecRetryEnds \/ \E t \in RecTasks : RecByHand(t)
  PROVE  RecInv'
<1> USE DEF RecInv, recWorld, recWork, recLoop, recCounts
<1>1. CASE RecZLMRestart
  BY <1>1 DEF RecZLMRestart, RecTypeOK, RecFlagsTell, RecOwedIsMarked, RecGo, Recoveries
<1>2. CASE RecAIStops \/ RecAIReturns \/ RecRetryCheck \/ RecRetryEnds
  BY <1>2 DEF RecAIStops, RecAIReturns, RecRetryCheck, RecRetryEnds, RecTypeOK, RecFlagsTell, RecOwedIsMarked
<1>3. CASE RecKeepalive
  BY <1>3, RecScheduleKeeps DEF RecKeepalive, RecTypeOK, RecOwedIsMarked
<1>4. CASE RecRetryWakes
  BY <1>4, RecScheduleKeeps DEF RecRetryWakes, RecTypeOK, RecOwedIsMarked
<1>5. ASSUME NEW t \in RecTasks, RecByHand(t) PROVE RecInv'
  BY <1>5 DEF RecByHand, RecTypeOK, RecFlagsTell, RecOwedIsMarked
<1> QED BY <1>1, <1>2, <1>3, <1>4, <1>5

\* A step of one of the recoveries.
LEMMA RecRecovers ==
  ASSUME RecInv, NEW p \in Recoveries,
         \/ RecCandidates \/ RecMark \/ RecPendingIDs
         \/ RecFetch(p) \/ RecFetchFails(p) \/ RecSynced(p) \/ RecResume(p)
         \/ RecClear(p) \/ RecScheduleRetry(p) \/ RecEnd(p)
  PROVE  RecInv'
<1> USE DEF RecInv, RecTypeOK, RecFlagsTell, RecOwedIsMarked, RecGo, Recoveries,
            recWorld, recWork, recLoop, recCounts
<1>1. CASE RecCandidates
  BY <1>1 DEF RecCandidates
<1>2. CASE RecMark
  BY <1>2 DEF RecMark
<1>3. CASE RecPendingIDs
  BY <1>3 DEF RecPendingIDs
<1>4. CASE RecFetch(p)
  BY <1>4 DEF RecFetch
<1>5. CASE RecFetchFails(p)
  BY <1>5 DEF RecFetchFails
<1>6. CASE RecSynced(p)
  BY <1>6 DEF RecSynced
<1>7. CASE RecResume(p)
  BY <1>7 DEF RecResume
<1>8. CASE RecClear(p)
  BY <1>8 DEF RecClear
<1>9. CASE RecScheduleRetry(p)
  BY <1>9 DEF RecScheduleRetry
<1>10. CASE RecEnd(p)
  BY <1>10 DEF RecEnd, RecPending
<1> QED BY <1>1, <1>2, <1>3, <1>4, <1>5, <1>6, <1>7, <1>8, <1>9, <1>10

\* The invariant of the recoveries.
LEMMA RecAlways == RecSpec => []RecInv
<1>1. RecInit => RecInv
  <2>1. RecInit => RecTypeOK
    <3>1. [zlm |-> "list", pending |-> "idle"] \in [Recoveries -> {"list", "idle"}]
      <4>1. [zlm |-> "list", pending |-> "idle"]
              = [p \in Recoveries |-> IF p = "zlm" THEN "list" ELSE "idle"]
        BY DEF Recoveries
      <4>2. QED BY <4>1
    <3>2. RecInit => recAt \in [Recoveries -> {"idle", "list", "mark", "fetch", "synced", "resume",
                                              "clear", "retry", "done"}]
      BY <3>1 DEF RecInit
    <3>3. RecInit => recFlags \in [zlmRunning : BOOLEAN, zlmPending : BOOLEAN,
                                   running : BOOLEAN, queued : BOOLEAN]
      BY DEF RecInit
    <3>4. RecInit => recList \in [Recoveries -> SUBSET RecTasks]
      BY DEF RecInit
    <3>5. QED BY <3>2, <3>3, <3>4 DEF RecInit, RecTypeOK
  <2>2. RecInit => RecFlagsTell /\ RecOwedIsMarked
    BY DEF RecInit, RecFlagsTell, RecOwedIsMarked
  <2>3. QED BY <2>1, <2>2 DEF RecInv
<1>2. RecInv /\ UNCHANGED recVars => RecInv'
  BY DEF recVars, recWorld, recWork, recLoop, recCounts, RecInv, RecTypeOK, RecFlagsTell, RecOwedIsMarked
<1>3. RecInv /\ RecNext => RecInv'
  <2>1. SUFFICES ASSUME RecInv, RecNext PROVE RecInv'
    OBVIOUS
  <2>2. "zlm" \in Recoveries
    BY DEF Recoveries
  <2>3. QED BY <2>1, <2>2, RecAround, RecRecovers DEF RecNext, RecRun
<1>4. RecInv /\ [RecNext]_recVars => RecInv'
  BY <1>2, <1>3
<1> QED BY <1>1, <1>4, PTL DEF RecSpec

\* The flags never say that a recovery runs when none does, nor the other way round: none
\* is lost and no two of a kind run at once.
THEOREM FlagsTellWhoRuns == RecSpec => []RecFlagsTell
<1> QED BY RecAlways, PTL DEF RecInv

\* Whatever restarts, answers and requests there are: a task that is owed a look is
\* marked, unless a recovery cleared with an old list what the other had marked.
THEOREM OwedStaysMarked == RecSpec => []RecOwedIsMarked
<1> QED BY RecAlways, PTL DEF RecInv
=============================================================================
