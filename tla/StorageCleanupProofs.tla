-------------------------- MODULE StorageCleanupProofs --------------------------
(* Proofs about the storage janitor: its rows name no file that is gone, used    *)
(* media are kept, classes go in the order of their value, and evidence goes by  *)
(* the rules of retention.                                                       *)
EXTENDS StorageCleanup, FiniteSetTheorems, WellFoundedInduction, TLAPS
-----------------------------------------------------------------------------
(* Where the janitor is, and what it may have in its lists.                    *)

\* The files that whoever asks before the walk must find: the media of pending items,
\* or whatever a row refers to.
InUse == IF Class = "media" THEN working ELSE Referenced

PlaceInv ==
  /\ Idle => step = "list"
  /\ step = "load" => Shielded(at)
  /\ step \in {"remove", "sync"} => ~Idle /\ Class \in Kinds \cup {"evidence"}

\* A file is listed in its class's phase; only those of some classes have rows.
Bare == {"snap", "record"}
FilesInv ==
  /\ old \subseteq saved /\ queue \cup gone \subseteq saved /\ gone \cap disk = {}
  /\ \A f \in queue \cup gone :
       IF Class = "evidence" THEN Kind[f] \in Evidence ELSE Kind[f] = Class
  /\ \A f \in working : Kind[f] = "media"
  /\ \A f \in Files : Kind[f] \in Bare => todo[f] = <<>>
  /\ \A f \in Referenced : Kind[f] \notin Bare

\* What was in use when the janitor asked is on its shield and not on its list; what
\* came into use later was hasty.
ShieldInv ==
  Shielded(at) =>
    /\ step = "list" => InUse \subseteq shield \cup hasty
    /\ InUse \cap (queue \cup gone) \subseteq hasty

\* A target that a stage has reached stays reached until its next gate.
SpareInv ==
  /\ spared =>
       /\ gone = {}
       /\ Idle \/ Class = "gate" \/ (Stage # "routine" /\ Reached(usage))
  /\ step = "sync" /\ ~Idle /\ Class # "evidence" /\ queue # {} => Stage # "routine" /\ Reached(usage)

\* What may be on the list of a phase that removes evidence, and what led there.
EvidenceInv ==
  /\ ~Idle /\ Class \in Evidence => queue \subseteq old
  /\ ~Idle /\ Stage = "routine" => ~announced
  /\ announced /\ ~Idle /\ Stage \in {"soft", "hard"} => Candidates \subseteq notice
  /\ ~Idle /\ Stage = "critical" /\ Class # "gate" => BreakGlass

CleanInv ==
  /\ TypeOK /\ PlaceInv /\ FilesInv /\ ShieldInv
  /\ NoDangling /\ MediaKept
-----------------------------------------------------------------------------
(* The plan of a run: 21 phases, the stages one after the other, a gate before   *)
(* each but the first.                                                           *)

\* Where the stages lie in a run's plan (runStorageCleanup).
LEMMA PlanOfStages ==
  /\ Len(Phases) = 21
  /\ \A i \in 1..21 : Phases[i].stage = "routine" <=> i \in 1..3
  /\ \A i \in 1..21 : Phases[i].stage = "soft" <=> i \in 4..10
  /\ \A i \in 1..21 : Phases[i].stage = "hard" <=> i \in 11..16
  /\ \A i \in 1..21 : Phases[i].stage = "critical" <=> i \in 17..21
<1>1. Len(Phases) = 21
  BY DEF Phases, RoutinePhases, SoftPhases, HardPhases, CriticalPhases
<1>2. \A i \in 1..21 : Phases[i].stage = "routine" <=> i \in 1..3
  BY DEF Phases, RoutinePhases, SoftPhases, HardPhases, CriticalPhases, Of
<1>3. \A i \in 1..21 : Phases[i].stage = "soft" <=> i \in 4..10
  BY DEF Phases, RoutinePhases, SoftPhases, HardPhases, CriticalPhases, Of
<1>4. \A i \in 1..21 : Phases[i].stage = "hard" <=> i \in 11..16
  BY DEF Phases, RoutinePhases, SoftPhases, HardPhases, CriticalPhases, Of
<1>5. \A i \in 1..21 : Phases[i].stage = "critical" <=> i \in 17..21
  BY DEF Phases, RoutinePhases, SoftPhases, HardPhases, CriticalPhases, Of
<1> QED BY <1>1, <1>2, <1>3, <1>4, <1>5

\* Where the classes that the proofs ask for lie in it.
LEMMA PlanOfClasses ==
  /\ \A i \in 1..21 : Phases[i].kind = "gate" <=> i \in {4, 11, 17}
  /\ \A i \in 1..21 : Phases[i].kind = "evidence" <=> i = 21
  /\ \A i \in 1..21 : Phases[i].kind = "notice" <=> i = 10
  /\ \A i \in 1..21 : Phases[i].kind = "candidates" <=> i = 13
  /\ \A i \in 1..21 : Phases[i].kind = "clear" <=> i = 16
  /\ \A i \in 1..21 : Phases[i].kind \in Evidence <=> i \in {14, 15}
  /\ \A i \in 1..21 : Phases[i].kind \in {"media", "cover", "device"} => i \in {2, 6, 7, 8, 19, 20}
<1>1. \A i \in 1..21 : Phases[i].kind = "gate" <=> i \in {4, 11, 17}
  BY DEF Phases, RoutinePhases, SoftPhases, HardPhases, CriticalPhases, Of
<1>2. \A i \in 1..21 : Phases[i].kind = "evidence" <=> i = 21
  BY DEF Phases, RoutinePhases, SoftPhases, HardPhases, CriticalPhases, Of
<1>3. \A i \in 1..21 : Phases[i].kind = "notice" <=> i = 10
  BY DEF Phases, RoutinePhases, SoftPhases, HardPhases, CriticalPhases, Of
<1>4. \A i \in 1..21 : Phases[i].kind = "candidates" <=> i = 13
  BY DEF Phases, RoutinePhases, SoftPhases, HardPhases, CriticalPhases, Of
<1>5. \A i \in 1..21 : Phases[i].kind = "clear" <=> i = 16
  BY DEF Phases, RoutinePhases, SoftPhases, HardPhases, CriticalPhases, Of
<1>6. \A i \in 1..21 : Phases[i].kind \in Evidence <=> i \in {14, 15}
  BY DEF Phases, RoutinePhases, SoftPhases, HardPhases, CriticalPhases, Of, Evidence
<1>7. \A i \in 1..21 : Phases[i].kind \in {"media", "cover", "device"} => i \in {2, 6, 7, 8, 19, 20}
  BY DEF Phases, RoutinePhases, SoftPhases, HardPhases, CriticalPhases, Of
<1> QED BY <1>1, <1>2, <1>3, <1>4, <1>5, <1>6, <1>7

\* From a phase the janitor goes to the next one or to the next gate, or ends its run.
LEMMA WhereNext ==
  ASSUME TypeOK, ~Idle
  PROVE  /\ at \in 1..21
         /\ After \in 0..21 /\ (After = 0 \/ After = at + 1)
         /\ NextGate \in {0, 4, 11, 17} /\ (NextGate = 0 \/ at < NextGate)
<1>1. at \in 1..21
  BY PlanOfStages DEF TypeOK, Idle
<1>2. After \in 0..21 /\ (After = 0 \/ After = at + 1)
  BY <1>1, PlanOfStages DEF After
<1> DEFINE later == {i \in at + 1 .. Len(Phases) : Phases[i].kind = "gate"}
<1>3. later = {i \in {4, 11, 17} : at < i}
  BY <1>1, PlanOfStages, PlanOfClasses
<1>4. ASSUME later # {}
      PROVE  \E i \in later : \A j \in later : i <= j
  <2>1. CASE at < 4
    <3>1. 4 \in later /\ \A j \in later : 4 <= j
      BY <1>1, <1>3, <2>1
    <3> QED BY <3>1
  <2>2. CASE 4 <= at /\ at < 11
    <3>1. 11 \in later /\ \A j \in later : 11 <= j
      BY <1>1, <1>3, <2>2
    <3> QED BY <3>1
  <2>3. CASE 11 <= at
    <3>1. later \subseteq {17}
      BY <1>1, <1>3, <2>3
    <3> QED BY <1>4, <3>1
  <2> QED BY <1>1, <2>1, <2>2, <2>3
<1>5. NextGate \in later \/ NextGate = 0
  BY <1>4 DEF NextGate
<1> QED BY <1>1, <1>2, <1>3, <1>5

\* Only classes with rows of their own are looked up before the walk.
LEMMA ShieldedClasses ==
  ASSUME NEW i \in 0..21, Shielded(i)
  PROVE  i \in 1..21 /\ Phases[i].kind \in {"media", "cover", "device"}
BY DEF Shielded

\* A run of the janitor goes on in a new phase with empty lists (GoTo).
LEMMA NewPhase ==
  ASSUME NEW i \in 0..21, GoTo(i)
  PROVE  /\ at' = i /\ shield' = {} /\ queue' = {} /\ gone' = {} /\ hour' = 0
         /\ step' \in {"load", "list"}
         /\ step' = "load" <=> Shielded(at)'
         /\ PlaceInv' /\ ShieldInv'
<1>1. /\ at' = i /\ shield' = {} /\ queue' = {} /\ gone' = {} /\ hour' = 0
      /\ step' = IF Shielded(i) THEN "load" ELSE "list"
  BY DEF GoTo
<1>2. Shielded(at)' <=> Shielded(i)
  BY <1>1 DEF Shielded
<1>3. Idle' => ~Shielded(at)'
  BY <1>1 DEF Shielded, Idle
<1>4. PlaceInv'
  BY <1>1, <1>2, <1>3 DEF PlaceInv
<1>5. ShieldInv'
  BY <1>1, <1>2 DEF ShieldInv
<1> QED BY <1>1, <1>2, <1>4, <1>5
-----------------------------------------------------------------------------
(* Types.                                                                      *)

\* The rows that a writer owes are in known tables.
LEMMA RowsTyped ==
  ASSUME NEW kind
  PROVE  /\ RowsOf(kind) \in Seq(Tables)
         /\ kind \in Bare => RowsOf(kind) = <<>>
<1>1. RowsOf(kind) \in {<<"item", "result">>, <<"algorithm">>, <<"source">>, <<"event">>,
                        <<"event", "session">>, <<>>}
  BY DEF RowsOf
<1>3. /\ <<"item", "result">> \in Seq(Tables) /\ <<"algorithm">> \in Seq(Tables)
      /\ <<"source">> \in Seq(Tables) /\ <<"event">> \in Seq(Tables)
      /\ <<"event", "session">> \in Seq(Tables) /\ <<>> \in Seq(Tables)
  BY DEF Tables
<1>2. kind \in Bare => RowsOf(kind) = <<>>
  BY DEF RowsOf, Bare
<1> QED BY <1>1, <1>2, <1>3

\* A fault is counted.
LEMMA FaultTyped ==
  ASSUME TypeOK, Fault \/ faults' = faults
  PROVE  faults' \in Nat
BY StorageAssumption DEF Fault, TypeOK

\* A new phase keeps the types of what it resets.
LEMMA NewPhaseTyped ==
  ASSUME TypeOK, NEW i \in 0..21, GoTo(i)
  PROVE  /\ at' \in 0..Len(Phases) /\ step' \in {"load", "list", "remove", "sync"}
         /\ hour' \in Nat /\ {shield', queue', gone'} \subseteq SUBSET Files
         /\ queue' = {} /\ gone' = {}
BY NewPhase, PlanOfStages

\* Every step keeps the types.
LEMMA TypeStep ==
  ASSUME TypeOK, PlaceInv, [Next]_vars
  PROVE  TypeOK'
<1> USE StorageAssumption
<1>1. CASE UNCHANGED vars
  BY <1>1 DEF vars, fileVars, memory, history, TypeOK
<1>2. ASSUME NEW f \in Files, Save(f)
      PROVE  TypeOK'
  BY <1>2, RowsTyped DEF Save, TypeOK, memory, history
<1>3. ASSUME NEW f \in Files, Refer(f)
      PROVE  TypeOK'
  <2>1. /\ todo[f] \in Seq(Tables) /\ todo[f] # <<>>
        /\ Head(todo[f]) \in Tables /\ Tail(todo[f]) \in Seq(Tables)
    BY <1>3 DEF Refer, TypeOK
  <2>2. refs' \subseteq Files \X Tables /\ todo' \in [Files -> Seq(Tables)]
    BY <1>3, <2>1 DEF Refer, TypeOK
  <2> QED BY <1>3, <2>2 DEF Refer, TypeOK, memory
<1>4. ASSUME NEW f \in Files, FinishItem(f)
      PROVE  TypeOK'
  <2>1. refs' \subseteq Files \X Tables /\ todo' \in [Files -> Seq(Tables)]
    BY <1>4 DEF FinishItem, TypeOK, Tables
  <2> QED BY <1>4, <2>1 DEF FinishItem, TypeOK, memory
<1>5. ASSUME NEW f \in Files, Expire(f)
      PROVE  TypeOK'
  BY <1>5 DEF Expire, TypeOK, memory, history
<1>6. CASE Begin
  <2>1. GoTo(1) /\ 1 \in 0..21
    BY <1>6 DEF Begin
  <2> QED BY <1>6, <2>1, NewPhaseTyped DEF Begin, TypeOK, fileVars
<1>7. CASE Gate
  <2>1. usage' \in Nat /\ faults' \in Nat
    <3>1. Used \in Nat
      BY FS_Subset, FS_CardinalityType DEF Used, TypeOK
    <3> QED BY <1>7, <3>1 DEF Gate, Fault, TypeOK
  <2>2. \E i \in 0..21 : GoTo(i)
    BY <1>7, WhereNext DEF Gate
  <2>3. PICK i \in 0..21 : GoTo(i)
    BY <2>2
  <2> QED BY <1>7, <2>1, <2>3, NewPhaseTyped DEF Gate, TypeOK, fileVars
<1>8. CASE Load
  <2>1. Referenced \subseteq Files
    BY DEF Referenced, TypeOK
  <2> QED BY <1>8, <2>1 DEF Load, TypeOK, fileVars, history
<1>9. CASE LoadFails
  <2>1. ~Idle
    BY <1>9 DEF LoadFails, PlaceInv
  <2>2. GoTo(After) /\ After \in 0..21
    BY <1>9, <2>1, WhereNext DEF LoadFails
  <2>3. faults' \in Nat
    BY <1>9, FaultTyped DEF LoadFails
  <2> QED BY <1>9, <2>2, <2>3, NewPhaseTyped DEF LoadFails, TypeOK, fileVars
<1>10. CASE List
  <2>1. CASE GoTo(After)
    BY <1>10, <2>1, WhereNext, NewPhaseTyped DEF List, TypeOK, fileVars, history
  <2>2. CASE ~GoTo(After)
    <3>1. queue' \subseteq Files /\ step' = "remove" /\ shield' = {} /\ UNCHANGED <<at, gone, hour>>
      BY <1>10, <2>2 DEF List, TypeOK
    <3> QED BY <1>10, <3>1 DEF List, TypeOK, fileVars, history
  <2> QED BY <2>1, <2>2
<1>11. ASSUME NEW f \in Files, Remove(f)
       PROVE  TypeOK'
  <2>1. usage' \in Nat /\ hour' \in Nat
    BY <1>11 DEF Remove, TypeOK
  <2> QED BY <1>11, <2>1 DEF Remove, TypeOK, history
<1>12. ASSUME NEW f \in Files, RemoveFails(f)
       PROVE  TypeOK'
  BY <1>12 DEF RemoveFails, TypeOK, fileVars, Fault
<1>13. CASE EndLoop
  <2>1. ~Idle
    BY <1>13 DEF EndLoop, PlaceInv
  <2>2. CASE Leave
    BY <1>13, <2>1, <2>2, WhereNext, NewPhaseTyped DEF EndLoop, Leave, TypeOK, fileVars
  <2>3. CASE ~Leave
    BY <1>13, <2>3 DEF EndLoop, TypeOK, fileVars
  <2> QED BY <2>2, <2>3
<1>14. CASE Sync
  <2>1. ~Idle
    BY <1>14 DEF Sync, PlaceInv
  <2>2. CASE Leave
    BY <1>14, <2>1, <2>2, WhereNext, NewPhaseTyped DEF Sync, Leave, TypeOK
  <2>3. CASE ~Leave
    BY <1>14, <2>3 DEF Sync, TypeOK
  <2> QED BY <2>2, <2>3
<1>15. CASE SyncFails
  <2>1. ~Idle
    BY <1>15 DEF SyncFails, PlaceInv
  <2>2. GoTo(After) /\ After \in 0..21
    BY <1>15, <2>1, WhereNext DEF SyncFails, Leave
  <2>3. faults' \in Nat
    BY <1>15, FaultTyped DEF SyncFails
  <2> QED BY <1>15, <2>2, <2>3, NewPhaseTyped DEF SyncFails, Leave, TypeOK, fileVars
<1>16. CASE Announce
  <2>1. Candidates \subseteq Files
    BY DEF Candidates, EvidenceOnDisk, TypeOK
  <2>2. GoTo(After) /\ After \in 0..21
    BY <1>16, WhereNext DEF Announce
  <2>3. faults' \in Nat
    BY <1>16, FaultTyped DEF Announce
  <2>4. notice' \subseteq Files /\ announced' \in BOOLEAN
    BY <1>16, <2>1 DEF Announce, TypeOK
  <2> QED BY <1>16, <2>2, <2>3, <2>4, NewPhaseTyped DEF Announce, TypeOK, fileVars
<1>17. CASE LookForCandidates
  <2>1. \E i \in 0..21 : GoTo(i)
    BY <1>17, WhereNext DEF LookForCandidates
  <2>2. PICK i \in 0..21 : GoTo(i)
    BY <2>1
  <2>3. notice' \subseteq Files /\ faults' \in Nat
    BY <1>17, FaultTyped DEF LookForCandidates, TypeOK
  <2> QED BY <1>17, <2>2, <2>3, NewPhaseTyped DEF LookForCandidates, TypeOK, fileVars
<1>18. CASE ClearNotice
  BY <1>18, WhereNext, NewPhaseTyped DEF ClearNotice, TypeOK, fileVars
<1>19. CASE Crash
  <2>1. todo' \in [Files -> Seq(Tables)]
    BY <1>19 DEF Crash
  <2>2. GoTo(0) /\ 0 \in 0..21
    BY <1>19 DEF Crash
  <2>3. faults' \in Nat
    BY <1>19, FaultTyped DEF Crash
  <2> QED BY <1>19, <2>1, <2>2, <2>3, NewPhaseTyped DEF Crash, TypeOK
<1> QED BY <1>1, <1>2, <1>3, <1>4, <1>5, <1>6, <1>7, <1>8, <1>9, <1>10, <1>11, <1>12, <1>13,
           <1>14, <1>15, <1>16, <1>17, <1>18, <1>19 DEF Next, Janitor
-----------------------------------------------------------------------------
(* Where the janitor is, and what is in its lists.                             *)

Write == \E f \in Files : Save(f) \/ Refer(f) \/ FinishItem(f) \/ Expire(f)
Move == Begin \/ Gate \/ LoadFails \/ Announce \/ LookForCandidates \/ ClearNotice

\* Six of the janitor's steps go from one phase to another without touching a file;
\* its lists are empty then (runStorageCleanup, runRetentionEvidenceCleanup).
LEMMA MovesOn ==
  ASSUME TypeOK, PlaceInv, Move
  PROVE  /\ \E i \in 0..21 : GoTo(i)
         /\ UNCHANGED fileVars /\ hasty' = hasty /\ lost' = lost
         /\ gone = {} /\ queue = {}
<1>1. step \in {"load", "list"}
  <2>1. CASE Begin
    BY <2>1 DEF Begin, PlaceInv
  <2>2. CASE LoadFails
    BY <2>2 DEF LoadFails
  <2>3. CASE ~Begin /\ ~LoadFails
    <3>1. Class \in {"gate", "notice", "candidates", "clear"}
      BY <2>3 DEF Move, Gate, Announce, LookForCandidates, ClearNotice
    <3> QED BY <3>1 DEF PlaceInv, TypeOK, Kinds
  <2> QED BY <2>1, <2>2, <2>3
<1>2. \E i \in 0..21 : GoTo(i)
  <2>1. CASE Begin
    BY <2>1 DEF Begin
  <2>2. CASE LoadFails
    <3>1. ~Idle
      BY <2>2 DEF LoadFails, PlaceInv
    <3> QED BY <2>2, <3>1, WhereNext DEF LoadFails
  <2>3. CASE Gate
    BY <2>3, WhereNext DEF Gate
  <2>4. CASE Announce \/ LookForCandidates \/ ClearNotice
    BY <2>4, WhereNext DEF Announce, LookForCandidates, ClearNotice
  <2> QED BY <2>1, <2>2, <2>3, <2>4 DEF Move
<1>3. UNCHANGED fileVars /\ hasty' = hasty /\ lost' = lost
  BY DEF Move, Begin, Gate, LoadFails, Announce, LookForCandidates, ClearNotice
<1> QED BY <1>1, <1>2, <1>3 DEF TypeOK

\* Leaving a phase is going to a new one.
LEMMA LeavesPhase ==
  ASSUME TypeOK, ~Idle, Leave
  PROVE  \E i \in 0..21 : GoTo(i)
BY WhereNext DEF Leave

\* Writers leave the janitor alone, who works from what it has in memory.
LEMMA WritersOnly ==
  ASSUME Write
  PROVE  memory' = memory /\ notice' = notice /\ lost' = lost /\ announced' = announced /\ spared' = spared
BY DEF Write, Save, Refer, FinishItem, Expire, history

\* The steps of the specification, the janitor's moves taken together.
LEMMA Steps ==
  ASSUME [Next]_vars
  PROVE  \/ UNCHANGED vars \/ Write \/ Move \/ Load \/ List
         \/ \E f \in Files : Remove(f) \/ RemoveFails(f)
         \/ EndLoop \/ Sync \/ SyncFails \/ Crash
BY DEF Next, Janitor, Write, Move

\* The lists of the janitor are those of its phase.
LEMMA PlaceStep ==
  ASSUME TypeOK, PlaceInv, [Next]_vars
  PROVE  PlaceInv'
<1>1. CASE memory' = memory
  BY <1>1 DEF memory, PlaceInv, Idle, Class, Shielded
<1>2. CASE Move
  BY <1>2, MovesOn, NewPhase
<1>3. CASE Load
  <2>1. at' = at /\ step' = "list" /\ ~Idle
    BY <1>3 DEF Load, PlaceInv
  <2> QED BY <2>1 DEF PlaceInv, Idle
<1>4. CASE List
  <2>1. GoTo(After) \/ (step' = "remove" /\ at' = at /\ ~Idle /\ Class \in Kinds \cup {"evidence"})
    BY <1>4 DEF List
  <2>2. CASE GoTo(After)
    BY <1>4, <2>2, WhereNext, NewPhase DEF List
  <2> QED BY <2>1, <2>2 DEF PlaceInv, Idle, Class
<1>5. ASSUME NEW f \in Files, Remove(f) \/ RemoveFails(f)
      PROVE  PlaceInv'
  BY <1>5 DEF Remove, RemoveFails, PlaceInv, Idle, Class
<1>6. ASSUME Leave, ~Idle
      PROVE  PlaceInv'
  BY <1>6, LeavesPhase, NewPhase
<1>7. CASE EndLoop
  BY <1>6, <1>7 DEF EndLoop, PlaceInv, Idle, Class
<1>8. CASE Sync
  BY <1>6, <1>8 DEF Sync, PlaceInv, Idle, Class
<1>9. CASE SyncFails
  BY <1>6, <1>9 DEF SyncFails, PlaceInv
<1>10. CASE Crash
  <2>1. 0 \in 0..21 /\ GoTo(0)
    BY <1>10 DEF Crash
  <2> QED BY <2>1, NewPhase
<1> QED BY <1>1, <1>2, <1>3, <1>4, <1>5, <1>7, <1>8, <1>9, <1>10, Steps, WritersOnly DEF vars

\* A row makes its file referenced, and no other.
LEMMA NewRow ==
  ASSUME NEW f \in Files, Refer(f) \/ FinishItem(f)
  PROVE  Referenced' = Referenced \cup {f}
<1>1. /\ \A ref \in refs' : ref \in refs \/ ref[1] = f
      /\ refs \subseteq refs' /\ \E ref \in refs' : ref[1] = f
  <2>1. CASE Refer(f)
    <3> DEFINE row == <<f, Head(todo[f])>>
    <3>1. refs' = refs \cup {row}
      BY <2>1 DEF Refer
    <3>2. row[1] = f
      OBVIOUS
    <3> HIDE DEF row
    <3> QED BY <3>1, <3>2
  <2>2. CASE FinishItem(f)
    <3> DEFINE item == <<f, "item">>
               result == <<f, "result">>
    <3>1. refs' = refs \cup {item, result}
      BY <2>2 DEF FinishItem
    <3>2. item[1] = f /\ result[1] = f
      OBVIOUS
    <3> HIDE DEF item, result
    <3> QED BY <3>1, <3>2
  <2> QED BY <2>1, <2>2
<1>2. \A g : g \in Referenced' <=> \E ref \in refs' : g = ref[1]
  BY DEF Referenced
<1>3. \A g : g \in Referenced <=> \E ref \in refs : g = ref[1]
  BY DEF Referenced
<1>4. \A g : g \in Referenced' <=> g \in Referenced \/ g = f
  BY <1>1, <1>2, <1>3
<1> QED BY <1>4

\* What is named or listed was once written.
LEMMA FilesStep ==
  ASSUME TypeOK, PlaceInv, FilesInv, [Next]_vars
  PROVE  FilesInv'
<1>1. CASE UNCHANGED vars
  BY <1>1 DEF vars, fileVars, memory, FilesInv, Class, Referenced
<1>2. ASSUME NEW f \in Files, Save(f)
      PROVE  FilesInv'
  BY <1>2, RowsTyped DEF Save, FilesInv, TypeOK, memory, Class, Referenced
<1>3. ASSUME NEW f \in Files, Refer(f)
      PROVE  FilesInv'
  <2>1. Kind[f] \notin Bare
    BY <1>3 DEF Refer, FilesInv
  <2>2. Referenced' = Referenced \cup {f}
    BY <1>3, NewRow
  <2>3. \A g \in Files : Kind[g] \in Bare => todo'[g] = <<>>
    BY <1>3, <2>1 DEF Refer, FilesInv, TypeOK
  <2> QED BY <1>3, <2>1, <2>2, <2>3 DEF Refer, FilesInv, TypeOK, memory, Class
<1>4. ASSUME NEW f \in Files, FinishItem(f)
      PROVE  FilesInv'
  <2>1. Kind[f] \notin Bare
    BY <1>4 DEF FinishItem, FilesInv
  <2>2. Referenced' = Referenced \cup {f}
    BY <1>4, NewRow
  <2>3. \A g \in Files : Kind[g] \in Bare => todo'[g] = <<>>
    BY <1>4, <2>1 DEF FinishItem, FilesInv, TypeOK
  <2> QED BY <1>4, <2>1, <2>2, <2>3 DEF FinishItem, FilesInv, TypeOK, memory, Class
<1>5. ASSUME NEW f \in Files, Expire(f)
      PROVE  FilesInv'
  BY <1>5 DEF Expire, FilesInv, TypeOK, memory, Class, Referenced
<1>6. ASSUME NEW i \in 0..21, GoTo(i),
             UNCHANGED <<saved, disk, old, working>>, Referenced' \subseteq Referenced,
             \A f \in Files : todo'[f] = todo[f] \/ todo'[f] = <<>>
      PROVE  FilesInv'
  BY <1>6, NewPhase DEF FilesInv
<1>7. CASE Move
  BY <1>6, <1>7, MovesOn DEF fileVars, Referenced
<1>8. CASE Load
  BY <1>8 DEF Load, fileVars, FilesInv, Class, Referenced
<1>9. CASE List
  <2>1. CASE GoTo(After)
    BY <1>6, <1>9, <2>1, WhereNext DEF List, fileVars, Referenced
  <2>2. CASE ~GoTo(After)
    <3>1. queue' = {f \in disk : Eligible(f)} /\ gone' = gone /\ at' = at
      BY <1>9, <2>2 DEF List
    <3>2. \A f \in queue' : IF Class = "evidence" THEN Kind[f] \in Evidence ELSE Kind[f] = Class
      BY <3>1 DEF Eligible
    <3>3. UNCHANGED fileVars
      BY <1>9 DEF List
    <3> QED BY <3>1, <3>2, <3>3 DEF FilesInv, TypeOK, fileVars, Class, Referenced
  <2> QED BY <2>1, <2>2
<1>10. ASSUME NEW f \in Files, Remove(f)
       PROVE  FilesInv'
  BY <1>10 DEF Remove, Oldest, FilesInv, Class, Referenced
<1>11. ASSUME NEW f \in Files, RemoveFails(f)
       PROVE  FilesInv'
  BY <1>11 DEF RemoveFails, fileVars, FilesInv, Class, Referenced
<1>12. CASE EndLoop
  <2>1. CASE Leave
    BY <1>6, <1>12, <2>1, LeavesPhase DEF EndLoop, PlaceInv, fileVars, Referenced
  <2>2. CASE ~Leave
    BY <1>12, <2>2 DEF EndLoop, fileVars, FilesInv, Class, Referenced
  <2> QED BY <2>1, <2>2
<1>13. CASE Sync
  <2>1. Referenced' \subseteq Referenced /\ UNCHANGED <<saved, disk, old, working, todo>>
    BY <1>13 DEF Sync, Referenced
  <2>2. CASE Leave
    BY <1>6, <1>13, <2>1, <2>2, LeavesPhase DEF Sync, PlaceInv
  <2>3. CASE ~Leave
    <3>1. gone' = {} /\ queue' = queue /\ at' = at
      BY <1>13, <2>3 DEF Sync
    <3> QED BY <2>1, <3>1 DEF FilesInv, Class
  <2> QED BY <2>2, <2>3
<1>14. CASE SyncFails
  BY <1>6, <1>14, LeavesPhase DEF SyncFails, PlaceInv, fileVars, Referenced
<1>15. CASE Crash
  <2>1. \A f \in Files : todo'[f] = <<>>
    BY <1>15 DEF Crash
  <2> QED BY <1>6, <1>15, <2>1 DEF Crash, Referenced
<1> QED BY <1>1, <1>2, <1>3, <1>4, <1>5, <1>7, <1>8, <1>9, <1>10, <1>11, <1>12, <1>13, <1>14,
           <1>15, Steps DEF Write
-----------------------------------------------------------------------------
(* No row names a file that is gone; used media stay.                          *)

\* Of all steps only the three that write a row or an item's end change what is in
\* use, and whoever does so with a file that the janitor has listed is hasty.
LEMMA NewUse ==
  ASSUME TypeOK, NEW f \in Files, Refer(f) \/ FinishItem(f)
  PROVE  /\ memory' = memory /\ disk' = disk /\ lost' = lost
         /\ Referenced' = Referenced \cup {f}
         /\ working' \subseteq working \cup {f}
         /\ hasty \subseteq hasty' /\ (Doomed(f) => f \in hasty')
<1>1. Referenced' = Referenced \cup {f}
  BY NewRow
<1> QED BY <1>1 DEF Refer, FinishItem, memory

\* What was in use when the janitor asked is not on its list, and what came into use
\* since was noticed.
LEMMA ShieldStep ==
  ASSUME TypeOK, PlaceInv, FilesInv, ShieldInv, [Next]_vars
  PROVE  ShieldInv'
<1> USE DEF InUse
<1>1. CASE UNCHANGED vars
  BY <1>1 DEF vars, fileVars, memory, history, ShieldInv, Shielded, Class, Referenced
<1>2. ASSUME NEW f \in Files, Save(f) \/ Expire(f)
      PROVE  ShieldInv'
  BY <1>2 DEF Save, Expire, memory, history, ShieldInv, Shielded, Class, Referenced
<1>3. ASSUME NEW f \in Files, Refer(f) \/ FinishItem(f)
      PROVE  ShieldInv'
  <2>1. SUFFICES ASSUME Shielded(at)'
                 PROVE  /\ (step = "list")' => InUse' \subseteq (shield \cup hasty)'
                        /\ InUse' \cap (queue \cup gone)' \subseteq hasty'
    BY DEF ShieldInv
  <2>2. UNCHANGED <<at, step, shield, queue, gone>> /\ Shielded(at)
    BY <1>3, <2>1, NewUse DEF memory, Shielded
  <2>3. InUse' \subseteq InUse \cup {f}
    BY <1>3, <2>2, NewUse DEF Class
  <2>4. step = "list" \/ f \in queue \cup gone => f \in hasty'
    <3>1. step = "list" => Doomed(f)
      BY <2>2 DEF Doomed, Shielded, Idle
    <3>2. f \in queue \cup gone => Doomed(f)
      BY DEF Doomed, FilesInv
    <3> QED BY <1>3, <3>1, <3>2, NewUse
  <2>5. hasty \subseteq hasty'
    BY <1>3, NewUse
  <2> QED BY <2>2, <2>3, <2>4, <2>5 DEF ShieldInv
<1>4. CASE Move
  BY <1>4, MovesOn, NewPhase
<1>5. CASE Load
  <2>1. /\ shield' = InUse /\ UNCHANGED <<at, queue, gone, hasty, working, refs>>
        /\ queue = {} /\ gone = {}
    BY <1>5 DEF Load, fileVars, history, TypeOK
  <2> QED BY <2>1 DEF ShieldInv, Class, Referenced
<1>6. CASE List
  <2>1. CASE GoTo(After)
    BY <1>6, <2>1, WhereNext, NewPhase DEF List
  <2>2. CASE ~GoTo(After)
    <3>1. /\ queue' = {f \in disk : Eligible(f)} /\ step' = "remove" /\ step = "list"
          /\ UNCHANGED <<at, gone, hasty, working, refs>> /\ gone = {}
      BY <1>6, <2>2 DEF List, fileVars, history, TypeOK
    <3>2. SUFFICES ASSUME Shielded(at)
                   PROVE  InUse \cap queue' \subseteq hasty
      BY <3>1 DEF ShieldInv, Shielded, Class, Referenced
    <3>3. Class # "evidence"
      BY <3>2, ShieldedClasses, PlanOfStages DEF Class, TypeOK
    <3>4. queue' \cap shield = {}
      BY <3>1, <3>3 DEF Eligible
    <3> QED BY <3>1, <3>2, <3>4 DEF ShieldInv
  <2> QED BY <2>1, <2>2
<1>7. ASSUME NEW f \in Files, Remove(f) \/ RemoveFails(f)
      PROVE  ShieldInv'
  <2>1. /\ queue' \cup gone' \subseteq queue \cup gone
        /\ UNCHANGED <<at, step, hasty, working, refs>> /\ step = "remove"
    BY <1>7 DEF Remove, RemoveFails, Oldest, fileVars, history
  <2> QED BY <2>1 DEF ShieldInv, Shielded, Class, Referenced
<1>8. ASSUME Leave, ~Idle
      PROVE  ShieldInv'
  BY <1>8, LeavesPhase, NewPhase
<1>9. CASE EndLoop
  <2>1. CASE Leave
    BY <1>8, <1>9, <2>1 DEF EndLoop, PlaceInv
  <2>2. CASE ~Leave
    BY <1>9, <2>2 DEF EndLoop, fileVars, ShieldInv, Shielded, Class, Referenced
  <2> QED BY <2>1, <2>2
<1>10. CASE Sync
  <2>1. CASE Leave
    BY <1>8, <1>10, <2>1 DEF Sync, PlaceInv
  <2>2. CASE ~Leave
    <3>1. /\ queue' = queue /\ gone' = {} /\ step' = "remove"
          /\ UNCHANGED <<at, hasty, working>>
      BY <1>10, <2>2 DEF Sync
    <3>2. Referenced' \subseteq Referenced
      BY <1>10 DEF Sync, Referenced
    <3> QED BY <3>1, <3>2 DEF ShieldInv, Shielded, Class
  <2> QED BY <2>1, <2>2
<1>11. CASE SyncFails
  BY <1>8, <1>11 DEF SyncFails, PlaceInv
<1>12. CASE Crash
  <2>1. 0 \in 0..21 /\ GoTo(0)
    BY <1>12 DEF Crash
  <2> QED BY <2>1, NewPhase
<1> QED BY <1>1, <1>2, <1>3, <1>4, <1>5, <1>6, <1>7, <1>9, <1>10, <1>11, <1>12, Steps DEF Write

\* A phase that writes nothing down after its removals has removed nothing that rows
\* name: snapshots of ZLM and recordings have none, and the soft stage takes covers
\* that nothing refers to.
LEMMA NothingToWriteDown ==
  ASSUME TypeOK, PlaceInv, FilesInv, ShieldInv, ~Idle, step = "remove", ~Synced
  PROVE  Referenced \cap gone \subseteq hasty
<1>1. Class \in {"snap", "record", "cover"} /\ (Class = "cover" => Stage # "critical")
  BY DEF Synced, PlaceInv, Kinds
<1>2. CASE Class \in Bare
  <2>1. \A f \in gone : Kind[f] = Class
    BY <1>2 DEF FilesInv, Bare
  <2> QED BY <1>2, <2>1 DEF FilesInv
<1>3. CASE Class = "cover"
  <2>1. at \in 1..21 /\ at \in {7, 19}
    <3>1. at \in 1..21
      BY PlanOfStages DEF TypeOK, Idle
    <3>2. \A i \in 1..21 : Phases[i].kind = "cover" => i \in {7, 19}
      BY DEF Phases, RoutinePhases, SoftPhases, HardPhases, CriticalPhases, Of
    <3> QED BY <1>3, <3>1, <3>2 DEF Class
  <2>2. Stage = "soft"
    BY <1>1, <1>3, <2>1, PlanOfStages DEF Stage
  <2>3. Shielded(at)
    BY <1>3, <2>1, <2>2 DEF Shielded, Class, Stage
  <2> QED BY <1>3, <2>3 DEF ShieldInv, InUse
<1> QED BY <1>1, <1>2, <1>3 DEF Bare

\* In terms of the files that rows name.
LEMMA DanglingFiles == NoDangling <=> Referenced \subseteq disk \cup gone \cup hasty \cup lost
BY DEF NoDangling, Referenced

\* A row loses its file only when a crash, a failure or a late write says so.
LEMMA DanglingStep ==
  ASSUME TypeOK, PlaceInv, FilesInv, ShieldInv, NoDangling, [Next]_vars
  PROVE  NoDangling'
<1>1. SUFFICES Referenced' \subseteq (disk \cup gone \cup hasty \cup lost)'
  BY DEF NoDangling, Referenced
<1>2. Referenced \subseteq disk \cup gone \cup hasty \cup lost
  BY DanglingFiles
<1>3. CASE UNCHANGED vars
  BY <1>2, <1>3 DEF vars, fileVars, memory, history, Referenced
<1>4. ASSUME NEW f \in Files, Save(f) \/ Expire(f)
      PROVE  Referenced' \subseteq (disk \cup gone \cup hasty \cup lost)'
  BY <1>2, <1>4 DEF Save, Expire, memory, history, Referenced
<1>5. ASSUME NEW f \in Files, Refer(f) \/ FinishItem(f)
      PROVE  Referenced' \subseteq (disk \cup gone \cup hasty \cup lost)'
  <2>1. f \in disk \/ f \in hasty'
    BY <1>5, NewUse DEF Doomed
  <2> QED BY <1>2, <1>5, <2>1, NewUse DEF memory
<1>6. CASE Move
  BY <1>2, <1>6, MovesOn DEF fileVars, Referenced
<1>7. CASE Load
  BY <1>2, <1>7 DEF Load, fileVars, history, Referenced
<1>8. CASE List
  <2>1. gone = {}
    BY <1>8 DEF List, TypeOK
  <2> QED BY <1>2, <1>8, <2>1 DEF List, fileVars, history, Referenced
<1>9. ASSUME NEW f \in Files, Remove(f) \/ RemoveFails(f)
      PROVE  Referenced' \subseteq (disk \cup gone \cup hasty \cup lost)'
  BY <1>2, <1>9 DEF Remove, RemoveFails, fileVars, history, Referenced
<1>10. CASE EndLoop
  <2>1. UNCHANGED <<refs, disk, hasty, lost>>
    BY <1>10 DEF EndLoop, fileVars
  <2>2. CASE Synced /\ gone # {}
    BY <1>2, <1>10, <2>1, <2>2 DEF EndLoop, Referenced
  <2>3. CASE ~Synced \/ gone = {}
    <3>1. Referenced \cap gone \subseteq hasty
      BY <1>10, <2>3, NothingToWriteDown DEF EndLoop, PlaceInv
    <3> QED BY <1>2, <2>1, <3>1 DEF Referenced
  <2> QED BY <2>2, <2>3
<1>11. CASE Sync
  <2>1. Referenced' \subseteq Referenced \ gone
    BY <1>11 DEF Sync, Referenced
  <2> QED BY <1>2, <1>11, <2>1 DEF Sync
<1>12. CASE SyncFails
  BY <1>2, <1>12 DEF SyncFails, fileVars, Referenced
<1>13. CASE Crash
  BY <1>2, <1>13 DEF Crash, Referenced
<1> QED BY <1>3, <1>4, <1>5, <1>6, <1>7, <1>8, <1>9, <1>10, <1>11, <1>12, <1>13, Steps DEF Write

\* The medium of an unfinished item is not on the list.
LEMMA MediaStep ==
  ASSUME TypeOK, PlaceInv, FilesInv, ShieldInv, MediaKept, [Next]_vars
  PROVE  MediaKept'
<1>1. CASE UNCHANGED <<working, disk, hasty>>
  BY <1>1 DEF MediaKept
<1>2. ASSUME NEW f \in Files, Save(f) \/ Expire(f)
      PROVE  MediaKept'
  BY <1>2 DEF Save, Expire, history, MediaKept
<1>3. ASSUME NEW f \in Files, Refer(f) \/ FinishItem(f)
      PROVE  MediaKept'
  <2>1. f \in disk \/ f \in hasty'
    BY <1>3, NewUse DEF Doomed
  <2> QED BY <1>3, <2>1, NewUse DEF MediaKept
<1>4. ASSUME NEW f \in Files, Remove(f)
      PROVE  MediaKept'
  <2>1. f \in queue /\ disk' = disk \ {f} /\ working' = working /\ hasty' = hasty
    BY <1>4 DEF Remove, Oldest, history
  <2>2. f \in working => f \in hasty
    <3>1. SUFFICES ASSUME f \in working
                   PROVE  f \in hasty
      OBVIOUS
    <3>2. Kind[f] = "media"
      BY <3>1 DEF FilesInv
    <3>3. Class = "media"
      BY <2>1, <3>2 DEF FilesInv, Evidence
    <3>4. Shielded(at)
      BY <1>4, <3>3 DEF Shielded, Class, Remove, PlaceInv, Idle
    <3> QED BY <2>1, <3>1, <3>3, <3>4 DEF ShieldInv, InUse
  <2> QED BY <2>1, <2>2 DEF MediaKept
<1>5. CASE Move
  BY <1>1, <1>5, MovesOn DEF fileVars
<1>6. CASE Load \/ List \/ EndLoop \/ Sync \/ SyncFails \/ Crash \/ \E f \in Files : RemoveFails(f)
  BY <1>1, <1>6 DEF Load, List, EndLoop, Sync, SyncFails, Crash, RemoveFails, fileVars, history
<1> QED BY <1>1, <1>2, <1>3, <1>4, <1>5, <1>6, Steps DEF Write, vars, fileVars, history

\* With the janitor at rest nothing is promised yet.
LEMMA InitClean == Init => CleanInv
<1>1. SUFFICES ASSUME Init
               PROVE  CleanInv
  OBVIOUS
<1>2. TypeOK
  <2>1. <<>> \in Seq(Tables) /\ at = 0 /\ 0 \in 0..Len(Phases)
    BY <1>1, PlanOfStages DEF Init
  <2>2. todo \in [Files -> Seq(Tables)]
    BY <1>1, <2>1 DEF Init
  <2> QED BY <1>1, <2>1, <2>2 DEF Init, TypeOK
<1>3. Referenced = {}
  BY <1>1 DEF Init, Referenced
<1>4. PlaceInv /\ ShieldInv
  BY <1>1 DEF Init, PlaceInv, ShieldInv, Shielded
<1>5. FilesInv
  BY <1>1, <1>3 DEF Init, FilesInv
<1>6. NoDangling /\ MediaKept
  BY <1>1 DEF Init, NoDangling, MediaKept
<1> QED BY <1>2, <1>4, <1>5, <1>6 DEF CleanInv

\* Every step keeps the invariant.
LEMMA CleanStep == CleanInv /\ [Next]_vars => CleanInv'
BY TypeStep, PlaceStep, FilesStep, ShieldStep, DanglingStep, MediaStep DEF CleanInv

\* What the janitor has in its lists belongs to the phase it is in, and what was in
\* use when it asked is not on them.
THEOREM CleanupInvariant == Spec => []CleanInv
BY InitClean, CleanStep, PTL DEF Spec

\* A row never names a removed file, unless it was written after the janitor's list,
\* or a crash or a failing update came between the removal and the row.
THEOREM RowsNameFiles == Spec => []NoDangling
<1>1. CleanInv => NoDangling
  BY DEF CleanInv
<1> QED BY <1>1, CleanupInvariant, PTL

\* The medium of a pending or running test item stays, whatever the pressure.
THEOREM WorkingMediaStay == Spec => []MediaKept
<1>1. CleanInv => MediaKept
  BY DEF CleanInv
<1> QED BY <1>1, CleanupInvariant, PTL
-----------------------------------------------------------------------------
(* The valuable goes last.                                                     *)

\* A nonempty set of numbers has a least one.
LEMMA LeastNumber ==
  ASSUME NEW S \in SUBSET Nat, S # {}
  PROVE  \E n \in S : \A m \in S : n <= m
<1>1. \E n \in S : \A m \in S : ~ (<<m, n>> \in OpToRel(<, Nat))
  BY NatLessThanWellFounded, WFMin
<1>2. PICK n \in S : \A m \in S : ~ (<<m, n>> \in OpToRel(<, Nat))
  BY <1>1
<1>3. \A m \in S : ~(m < n)
  BY <1>2 DEF OpToRel
<1> QED BY <1>3

\* A list that is not empty has a file whose turn it is: of evidence one of the
\* oldest hour, a snapshot if that hour has one, and the first of them.
LEMMA SomeoneIsOldest ==
  ASSUME TypeOK, FilesInv, queue # {}
  PROVE  \E f \in queue : Oldest(f)
<1> USE StorageAssumption
<1>1. queue \subseteq Nat /\ \A f \in queue : Hour[f] \in Nat
  BY DEF TypeOK
<1>2. CASE Class # "evidence"
  <2>1. PICK f \in queue : \A g \in queue : f <= g
    BY <1>1, LeastNumber
  <2>2. \A g \in queue : ~(g < f)
    BY <1>1, <2>1
  <2> QED BY <1>2, <2>1, <2>2 DEF Oldest, Before
<1>3. CASE Class = "evidence"
  <2> DEFINE hours == {Hour[f] : f \in queue}
  <2>1. PICK h \in hours : \A k \in hours : h <= k
    <3>1. hours \in SUBSET Nat /\ hours # {}
      BY <1>1
    <3> HIDE DEF hours
    <3> QED BY <3>1, LeastNumber
  <2>2. h \in Nat /\ \A g \in queue : ~(Hour[g] < h)
    BY <1>1, <2>1
  <2> DEFINE those == {f \in queue : Hour[f] = h}
             snaps == {f \in those : Kind[f] = "event"}
             best == IF snaps = {} THEN those ELSE snaps
  <2>3. best \in SUBSET Nat /\ best # {} /\ best \subseteq those
    BY <1>1, <2>1
  <2>4. PICK f \in best : \A g \in best : f <= g
    <3> HIDE DEF best
    <3> QED BY <2>3, LeastNumber
  <2>5. f \in queue /\ Hour[f] = h /\ f \in Nat
    BY <1>1, <2>3, <2>4
  <2>6. ASSUME NEW g \in queue
        PROVE  ~Before(g, f)
    <3>1. ~(Hour[g] < Hour[f])
      BY <2>2, <2>5
    <3>2. CASE Hour[g] # Hour[f]
      BY <1>3, <3>1, <3>2 DEF Before
    <3>3. CASE Hour[g] = Hour[f]
      <4>1. g \in those
        BY <2>5, <3>3
      <4>2. ~(Kind[g] = "event" /\ Kind[f] = "clip")
        BY <2>4, <4>1
      <4>3. Kind[g] = Kind[f] => g \in best
        BY <2>4, <4>1
      <4>4. g \in best => ~(g < f)
        BY <1>1, <2>4, <2>5
      <4> QED BY <1>3, <3>1, <4>2, <4>3, <4>4 DEF Before
    <3> QED BY <3>2, <3>3
  <2> QED BY <2>5, <2>6 DEF Oldest
<1> QED BY <1>2, <1>3

\* A walk that ends with files left on its list has reached its target.
LEMMA EndMeansReached ==
  ASSUME TypeOK, FilesInv, EndLoop, queue # {}, Class = "evidence" => gone = {}
  PROVE  Stage # "routine" /\ Reached(usage)
<1>1. PICK f \in queue : Oldest(f)
  BY SomeoneIsOldest
<1>2. ~Wanted(f)
  BY <1>1 DEF EndLoop
<1> QED BY <1>2 DEF Wanted

\* The next phase is of the same stage, or a gate.
LEMMA SameStage ==
  ASSUME TypeOK, ~Idle, After # 0
  PROVE  \/ Phases[After].kind = "gate"
         \/ Phases[After].stage = Stage
<1>1. at \in 1..21 /\ After = at + 1 /\ After \in 1..21
  BY WhereNext
<1>2. \A i \in 1..20 : \/ Phases[i + 1].kind = "gate"
                       \/ Phases[i + 1].stage = Phases[i].stage
  BY DEF Phases, RoutinePhases, SoftPhases, HardPhases, CriticalPhases, Of
<1> QED BY <1>1, <1>2 DEF Stage

\* Going on to the next phase keeps what was spared in this one.
LEMMA SparedGoesOn ==
  ASSUME TypeOK, ~Idle, GoTo(After), usage' = usage,
         spared' => Class # "gate" /\ Stage # "routine" /\ Reached(usage)
  PROVE  SpareInv'
<1>1. /\ at' = After /\ gone' = {} /\ queue' = {}
  BY WhereNext, NewPhase
<1>2. SUFFICES ASSUME spared', ~Idle', Class' # "gate"
               PROVE  Stage' # "routine" /\ Reached(usage)'
  BY <1>1 DEF SpareInv
<1>3. Stage' = Stage
  BY <1>1, <1>2, SameStage DEF Idle, Class, Stage
<1> QED BY <1>2, <1>3 DEF Reached

\* Where a run ends or a gate comes next, nothing is asked of what was spared.
LEMMA SparedAtGate ==
  ASSUME TypeOK, NEW i \in {0, 4, 11, 17}, GoTo(i)
  PROVE  SpareInv'
<1>1. /\ at' = i /\ gone' = {} /\ queue' = {}
  BY NewPhase
<1>2. Idle' \/ Class' = "gate"
  BY <1>1, PlanOfClasses DEF Idle, Class
<1> QED BY <1>1, <1>2 DEF SpareInv

\* No file goes once the stage has spared one.
LEMMA RemovesUnspared ==
  ASSUME TypeOK, PlaceInv, SpareInv, NEW f \in Files, Remove(f)
  PROVE  ~spared
<1>1. ~Idle /\ Class # "gate"
  BY DEF Remove, PlaceInv, Kinds
<1>2. ASSUME spared
      PROVE  FALSE
  <2>1. gone = {} /\ Stage # "routine" /\ Reached(usage)
    BY <1>1, <1>2 DEF SpareInv
  <2> QED BY <2>1 DEF Remove, Wanted, SameHour
<1> QED BY <1>2

\* A file of a cheap class that was spared tells that the stage has reached its target.
LEMMA SpareStep ==
  ASSUME TypeOK, PlaceInv, FilesInv, SpareInv, [Next]_vars
  PROVE  SpareInv'
<1> USE DEF PlaceInv
<1>1. CASE memory' = memory /\ spared' = spared
  BY <1>1 DEF memory, SpareInv, Idle, Class, Stage, Reached
<1>2. CASE Begin \/ Gate
  <2>1. spared' = FALSE /\ step' # "sync"
    <3>1. \E i \in 0..21 : GoTo(i)
      BY <1>2, MovesOn DEF Move
    <3> QED BY <1>2, <3>1, NewPhase DEF Begin, Gate
  <2> QED BY <2>1 DEF SpareInv
<1>3. CASE LoadFails \/ Announce \/ ClearNotice
  <2>1. ~Idle /\ Class # "gate"
    <3>1. CASE LoadFails
      BY <3>1, ShieldedClasses, PlanOfStages DEF LoadFails, TypeOK, Idle, Class
    <3> QED BY <1>3, <3>1 DEF Announce, ClearNotice
  <2>2. GoTo(After) /\ usage' = usage /\ spared' = spared
    BY <1>3 DEF LoadFails, Announce, ClearNotice
  <2> QED BY <2>1, <2>2, SparedGoesOn DEF SpareInv
<1>4. CASE LookForCandidates
  <2>1. ~Idle /\ Class # "gate" /\ usage' = usage /\ spared' = spared
    BY <1>4 DEF LookForCandidates
  <2>2. CASE GoTo(After)
    BY <2>1, <2>2, SparedGoesOn DEF SpareInv
  <2>3. CASE GoTo(NextGate)
    BY <2>1, <2>3, WhereNext, SparedAtGate
  <2> QED BY <1>4, <2>2, <2>3 DEF LookForCandidates
<1>5. CASE Load
  BY <1>5 DEF Load, history, SpareInv, Idle, Class, Stage, Reached
<1>6. CASE List
  <2>1. ~Idle /\ Class # "gate" /\ usage' = usage /\ spared' = spared
    BY <1>6 DEF List, history, Kinds
  <2>2. CASE GoTo(After)
    BY <2>1, <2>2, SparedGoesOn DEF SpareInv
  <2>3. CASE ~GoTo(After)
    BY <1>6, <2>1, <2>3 DEF List, SpareInv, Idle, Class, Stage, Reached
  <2> QED BY <2>2, <2>3
<1>7. ASSUME NEW f \in Files, Remove(f)
      PROVE  SpareInv'
  BY <1>7, RemovesUnspared DEF Remove, history, SpareInv
<1>8. ASSUME NEW f \in Files, RemoveFails(f)
      PROVE  SpareInv'
  BY <1>8 DEF RemoveFails, SpareInv, Idle, Class, Stage, Reached
<1>9. CASE EndLoop
  <2>1. ~Idle /\ Class # "gate" /\ usage' = usage
    BY <1>9 DEF EndLoop, Kinds
  <2>2. CASE Synced /\ gone # {}
    <3>1. step' = "sync" /\ UNCHANGED <<at, queue, gone, spared>>
      BY <1>9, <2>2 DEF EndLoop
    <3>2. Class # "evidence" /\ queue # {} => Stage # "routine" /\ Reached(usage)
      BY <1>9, EndMeansReached
    <3> QED BY <2>1, <3>1, <3>2 DEF SpareInv, Idle, Class, Stage, Reached
  <2>3. CASE ~Synced \/ gone = {}
    <3>1. GoTo(After) /\ spared' = (spared \/ queue # {})
      BY <1>9, <2>3 DEF EndLoop, Leave
    <3>2. Class = "evidence" => gone = {}
      BY <2>3 DEF Synced
    <3>3. queue # {} => Stage # "routine" /\ Reached(usage)
      BY <1>9, <3>2, EndMeansReached
    <3> QED BY <2>1, <3>1, <3>3, SparedGoesOn DEF SpareInv
  <2> QED BY <2>2, <2>3
<1>10. ASSUME Leave, step = "sync", usage' = usage, Class # "evidence" \/ queue = {}
       PROVE  SpareInv'
  <2>1. ~Idle /\ Class # "gate"
    BY <1>10 DEF Kinds
  <2>2. GoTo(After) /\ spared' = (spared \/ queue # {})
    BY <1>10 DEF Leave
  <2>3. spared' => Stage # "routine" /\ Reached(usage)
    BY <1>10, <2>1, <2>2 DEF SpareInv
  <2> QED BY <1>10, <2>1, <2>2, <2>3, SparedGoesOn
<1>11. CASE Sync
  <2>1. CASE Class = "evidence" /\ queue # {}
    BY <1>11, <2>1 DEF Sync, SpareInv, Idle, Class, Stage, Reached
  <2>2. CASE ~(Class = "evidence" /\ queue # {})
    BY <1>10, <1>11, <2>2 DEF Sync
  <2> QED BY <2>1, <2>2
<1>12. CASE SyncFails
  <2>1. CASE Class = "evidence"
    <3>1. at \in 1..21
      BY <1>12, PlanOfStages DEF SyncFails, TypeOK, Idle
    <3>2. After = 0
      BY <2>1, <3>1, PlanOfClasses, PlanOfStages DEF Class, After
    <3> QED BY <1>12, <3>2, SparedAtGate DEF SyncFails, Leave
  <2>2. CASE Class # "evidence"
    BY <1>10, <1>12, <2>2 DEF SyncFails
  <2> QED BY <2>1, <2>2
<1>13. CASE Crash
  BY <1>13, SparedAtGate DEF Crash
<1> QED BY <1>1, <1>2, <1>3, <1>4, <1>5, <1>6, <1>7, <1>8, <1>9, <1>11, <1>12, <1>13, Steps,
           WritersOnly DEF Move, vars, history

\* What the stages have spared is known throughout.
LEMMA SpareAlways == Spec => [](CleanInv /\ SpareInv)
<1>1. Init => SpareInv
  BY DEF Init, SpareInv
<1>2. CleanInv /\ SpareInv /\ [Next]_vars => SpareInv'
  BY SpareStep DEF CleanInv
<1> QED BY <1>1, <1>2, InitClean, CleanStep, PTL DEF Spec

\* Only the janitor takes files away, one at a time.
LEMMA WhoRemoves ==
  ASSUME TypeOK, PlaceInv, [Next]_vars, ~(disk \subseteq disk')
  PROVE  \E f \in Files : Remove(f)
<1>1. ASSUME Write
      PROVE  disk \subseteq disk'
  BY <1>1 DEF Write, Save, Refer, FinishItem, Expire
<1>2. ASSUME Load \/ List \/ EndLoop \/ Sync \/ SyncFails \/ Crash \/ \E f \in Files : RemoveFails(f)
      PROVE  disk' = disk
  BY <1>2 DEF Load, List, EndLoop, Sync, SyncFails, Crash, RemoveFails, fileVars
<1>3. Move => disk' = disk
  BY MovesOn DEF fileVars
<1> QED BY <1>1, <1>2, <1>3, Steps DEF vars, fileVars

\* The classes go in the order of their value: once a stage has left a file because
\* its target was reached, it removes nothing more, whatever is written meanwhile.
THEOREM ValuableGoesLast == Spec => LastResort
<1>1. CleanInv /\ SpareInv /\ [Next]_vars => [disk' \subseteq disk /\ disk' # disk => ~spared]_vars
  BY WhoRemoves, RemovesUnspared DEF CleanInv
<1> QED BY <1>1, SpareAlways, PTL DEF Spec, LastResort
-----------------------------------------------------------------------------
(* Evidence.                                                                   *)

\* What a run has announced still holds in its next phase.
LEMMA AnnouncedGoesOn ==
  ASSUME TypeOK, EvidenceInv, ~Idle, NEW i \in 0..21, GoTo(i), i = 0 \/ at < i,
         i \in 18..21 => BreakGlass, announced' = announced,
         disk' = disk, old' = old, notice' = notice
  PROVE  EvidenceInv'
<1>1. at' = i /\ queue' = {} /\ at \in 1..21
  BY NewPhase, WhereNext
<1>2. ~Idle' /\ Stage' = "routine" => ~announced'
  BY <1>1, PlanOfStages DEF EvidenceInv, Idle, Stage
<1>3. announced' /\ ~Idle' /\ Stage' \in {"soft", "hard"} => Candidates' \subseteq notice'
  <2>1. SUFFICES ASSUME announced, i \in 4..16
                 PROVE  Candidates \subseteq notice
    BY <1>1, PlanOfStages DEF Idle, Stage, Candidates, EvidenceOnDisk
  <2>2. at \in 1..16
    BY <1>1, <2>1
  <2>3. Stage # "routine"
    BY <2>1 DEF EvidenceInv
  <2>4. Stage \in {"soft", "hard"}
    BY <2>2, <2>3, PlanOfStages DEF Stage
  <2> QED BY <2>1, <2>4 DEF EvidenceInv
<1>4. ~Idle' /\ Stage' = "critical" /\ Class' # "gate" => BreakGlass
  BY <1>1, PlanOfStages, PlanOfClasses DEF Idle, Stage, Class
<1> QED BY <1>1, <1>2, <1>3, <1>4 DEF EvidenceInv

\* In the emergency stage, past its gate, the operator has allowed it.
LEMMA GlassBroken ==
  ASSUME TypeOK, EvidenceInv, ~Idle, Class # "gate", After \in 18..21
  PROVE  BreakGlass
<1>1. at \in 1..21 /\ After = at + 1
  BY WhereNext
<1>2. at \in 17..20
  BY <1>1
<1> QED BY <1>2, PlanOfStages DEF Stage, EvidenceInv

\* Going on to the next phase is safe from any phase but a gate.
LEMMA PhaseGoesOn ==
  ASSUME TypeOK, EvidenceInv, ~Idle, Class # "gate", GoTo(After), announced' = announced,
         disk' = disk, old' = old, notice' = notice
  PROVE  EvidenceInv'
<1>1. After \in 0..21 /\ (After = 0 \/ at < After)
  BY WhereNext
<1> QED BY <1>1, GlassBroken, AnnouncedGoesOn

\* Nothing is asked of what a run has announced when it ends or comes to the last gate.
LEMMA AnnouncedEnds ==
  ASSUME TypeOK, NEW i \in {0, 17}, GoTo(i)
  PROVE  EvidenceInv'
<1>1. at' = i /\ queue' = {}
  BY NewPhase
<1> QED BY <1>1, PlanOfStages, PlanOfClasses DEF EvidenceInv, Idle, Stage, Class

\* Evidence on the list is expired, or the stage is the emergency one.
LEMMA EvidenceStep ==
  ASSUME TypeOK, PlaceInv, FilesInv, EvidenceInv, [Next]_vars
  PROVE  EvidenceInv'
<1> USE DEF PlaceInv
<1>1. ASSUME UNCHANGED <<at, announced, notice, old>>, queue' \subseteq queue, Candidates' \subseteq Candidates
      PROVE  EvidenceInv'
  BY <1>1 DEF EvidenceInv, Idle, Class, Stage
<1>2. CASE UNCHANGED vars
  BY <1>1, <1>2 DEF vars, fileVars, memory, history, Candidates, EvidenceOnDisk
<1>3. ASSUME NEW f \in Files, Save(f)
      PROVE  EvidenceInv'
  <2>1. f \notin old
    BY <1>3 DEF Save, FilesInv
  <2>2. Candidates' = Candidates
    BY <1>3, <2>1 DEF Save, Candidates, EvidenceOnDisk
  <2> QED BY <1>1, <1>3, <2>2 DEF Save, memory, history
<1>4. ASSUME NEW f \in Files, Refer(f) \/ FinishItem(f)
      PROVE  EvidenceInv'
  BY <1>1, <1>4 DEF Refer, FinishItem, memory, Candidates, EvidenceOnDisk
<1>5. ASSUME NEW f \in Files, Expire(f)
      PROVE  EvidenceInv'
  <2>1. Idle'
    BY <1>5 DEF Expire, memory, Idle
  <2> QED BY <2>1 DEF EvidenceInv
<1>6. CASE Begin
  <2>1. at' = 1 /\ queue' = {} /\ announced' = FALSE
    BY <1>6, NewPhase DEF Begin
  <2> QED BY <2>1, PlanOfStages DEF EvidenceInv, Stage
<1>7. CASE Gate
  <2>1. ~Idle /\ UNCHANGED <<disk, old, notice, announced>>
    BY <1>7 DEF Gate, fileVars
  <2>2. CASE GoTo(After) /\ (Stage = "critical" => BreakGlass)
    <3>1. After \in 18..21 => at \in 17..20
      BY <2>1, WhereNext
    <3>2. After \in 18..21 => BreakGlass
      BY <2>2, <3>1, PlanOfStages DEF Stage
    <3>3. After \in 0..21 /\ (After = 0 \/ at < After)
      BY <2>1, WhereNext
    <3> QED BY <2>1, <2>2, <3>2, <3>3, AnnouncedGoesOn
  <2>3. CASE GoTo(NextGate)
    <3>1. NextGate \in 0..21 /\ ~(NextGate \in 18..21) /\ (NextGate = 0 \/ at < NextGate)
      BY <2>1, WhereNext
    <3> QED BY <2>1, <2>3, <3>1, AnnouncedGoesOn
  <2>4. CASE GoTo(0)
    BY <2>4, AnnouncedEnds
  <2> QED BY <1>7, <2>2, <2>3, <2>4 DEF Gate
<1>8. CASE Load
  BY <1>1, <1>8 DEF Load, fileVars, history, Candidates, EvidenceOnDisk
<1>9. CASE LoadFails
  <2>1. ~Idle /\ Class # "gate"
    BY <1>9, ShieldedClasses, PlanOfStages DEF LoadFails, TypeOK, Idle, Class
  <2> QED BY <1>9, <2>1, PhaseGoesOn DEF LoadFails, fileVars
<1>10. CASE List
  <2>1. ~Idle /\ Class # "gate" /\ UNCHANGED <<disk, old, notice, announced>>
    BY <1>10 DEF List, fileVars, history, Kinds
  <2>2. CASE GoTo(After)
    BY <2>1, <2>2, PhaseGoesOn
  <2>3. CASE ~GoTo(After)
    <3>1. queue' = {f \in disk : Eligible(f)} /\ at' = at
      BY <1>10, <2>3 DEF List
    <3>2. Class \in Evidence => queue' \subseteq old
      BY <3>1 DEF Eligible, Evidence
    <3> QED BY <2>1, <3>1, <3>2 DEF EvidenceInv, Idle, Class, Stage, Candidates, EvidenceOnDisk
  <2> QED BY <2>2, <2>3
<1>11. ASSUME NEW f \in Files, Remove(f) \/ RemoveFails(f)
       PROVE  EvidenceInv'
  BY <1>1, <1>11 DEF Remove, RemoveFails, fileVars, history, Candidates, EvidenceOnDisk
<1>12. CASE EndLoop
  <2>1. ~Idle /\ Class # "gate" /\ UNCHANGED <<disk, old, notice, announced>>
    BY <1>12 DEF EndLoop, fileVars, Kinds
  <2>2. CASE Leave
    BY <2>1, <2>2, PhaseGoesOn DEF Leave
  <2>3. CASE ~Leave
    BY <1>1, <1>12, <2>1, <2>3 DEF EndLoop, Candidates, EvidenceOnDisk
  <2> QED BY <2>2, <2>3
<1>13. CASE Sync \/ SyncFails
  <2>1. ~Idle /\ Class # "gate" /\ UNCHANGED <<disk, old, notice, announced>>
    BY <1>13 DEF Sync, SyncFails, fileVars, Kinds
  <2>2. CASE Leave
    BY <2>1, <2>2, PhaseGoesOn DEF Leave
  <2>3. CASE ~Leave
    BY <1>1, <1>13, <2>1, <2>3 DEF Sync, SyncFails, Candidates, EvidenceOnDisk
  <2> QED BY <2>2, <2>3
<1>14. CASE Announce
  <2>1. ~Idle /\ GoTo(After) /\ UNCHANGED <<disk, old>> /\ at \in 1..21 /\ Class = "notice"
    BY <1>14, PlanOfStages DEF Announce, fileVars, TypeOK, Idle
  <2>2. CASE UNCHANGED <<notice, announced>>
    BY <2>1, <2>2, PhaseGoesOn
  <2>3. CASE notice' = Candidates
    <3>1. After = 11 \/ After = 0
      BY <2>1, WhereNext, PlanOfClasses DEF Class
    <3>2. at' = After /\ queue' = {} /\ Candidates' = Candidates
      BY <2>1, <3>1, NewPhase DEF Candidates, EvidenceOnDisk
    <3> QED BY <2>3, <3>1, <3>2, PlanOfStages DEF EvidenceInv, Idle, Stage
  <2> QED BY <1>14, <2>2, <2>3 DEF Announce
<1>15. CASE LookForCandidates
  <2>1. /\ ~Idle /\ UNCHANGED <<disk, old, announced>> /\ at \in 1..21 /\ Class = "candidates"
    BY <1>15, PlanOfStages DEF LookForCandidates, fileVars, TypeOK, Idle
  <2>2. CASE GoTo(NextGate)
    <3>1. NextGate \in {0, 17}
      BY <2>1, WhereNext, PlanOfClasses DEF Class
    <3> QED BY <2>2, <3>1, AnnouncedEnds
  <2>3. CASE ~GoTo(NextGate)
    BY <1>15, <2>1, <2>3, PhaseGoesOn DEF LookForCandidates
  <2> QED BY <2>2, <2>3
<1>16. CASE ClearNotice
  <2>1. ~Idle /\ GoTo(After) /\ at \in 1..21 /\ Class = "clear"
    BY <1>16, PlanOfStages DEF ClearNotice, TypeOK, Idle
  <2>2. After \in {0, 17}
    BY <2>1, WhereNext, PlanOfClasses DEF Class
  <2> QED BY <2>1, <2>2, AnnouncedEnds
<1>17. CASE Crash
  BY <1>17, AnnouncedEnds DEF Crash
<1> QED BY <1>2, <1>3, <1>4, <1>5, <1>6, <1>7, <1>8, <1>9, <1>10, <1>11, <1>12, <1>13, <1>14,
           <1>15, <1>16, <1>17, Steps DEF Write, Move

\* The rules for evidence are kept throughout.
LEMMA EvidenceAlways == Spec => [](CleanInv /\ EvidenceInv)
<1>1. Init => EvidenceInv
  BY DEF Init, EvidenceInv, Idle
<1>2. CleanInv /\ EvidenceInv /\ [Next]_vars => EvidenceInv'
  BY EvidenceStep DEF CleanInv
<1> QED BY <1>1, <1>2, InitClean, CleanStep, PTL DEF Spec

\* Whatever removes evidence does so by the rules of retention.
LEMMA RemovesByTheRules ==
  ASSUME TypeOK, PlaceInv, FilesInv, EvidenceInv, NEW f \in Files, Remove(f), f \in EvidenceOnDisk
  PROVE  \/ Stage = "hard" /\ f \in old /\ (announced => f \in notice)
         \/ /\ Stage = "critical" /\ BreakGlass
            /\ gone = {} => Pressure(Hard, usage)
<1>1. f \in queue /\ step = "remove" /\ Wanted(f) /\ Kind[f] \in Evidence /\ f \in disk
  BY DEF Remove, Oldest, EvidenceOnDisk
<1>2. ~Idle /\ at \in 1..21 /\ Class # "gate"
  BY <1>1, WhereNext DEF PlaceInv, Kinds
<1>3. CASE Class = "evidence"
  <2>1. Stage = "critical" /\ BreakGlass
    BY <1>2, <1>3, PlanOfClasses, PlanOfStages DEF Class, Stage, EvidenceInv
  <2>2. ASSUME gone = {}
        PROVE  Pressure(Hard, usage)
    <3>1. ~Reached(usage)
      BY <1>1, <2>1, <2>2 DEF Wanted, SameHour
    <3>2. usage \in Nat
      BY DEF TypeOK
    <3> QED BY <2>1, <3>1, <3>2, StorageAssumption DEF Reached, Pressure
  <2> QED BY <2>1, <2>2
<1>4. CASE Class # "evidence"
  <2>1. Class \in Evidence
    BY <1>1, <1>4 DEF FilesInv
  <2>2. f \in old /\ f \in Candidates
    BY <1>1, <1>2, <2>1 DEF EvidenceInv, Candidates
  <2>3. Stage = "hard"
    BY <1>2, <2>1, PlanOfClasses, PlanOfStages DEF Class, Stage
  <2> QED BY <1>2, <2>2, <2>3 DEF EvidenceInv
<1> QED BY <1>3, <1>4

\* Evidence goes in the hard stage only when it has expired, and if this run has
\* announced anything, with its name on the notice; otherwise only in the emergency
\* stage, where each hour begins under pressure.
THEOREM EvidenceByTheRules == Spec => EvidenceRules
<1>1. ASSUME CleanInv, EvidenceInv, [Next]_vars
      PROVE  [\A f \in EvidenceOnDisk \ disk' :
                \/ Stage = "hard" /\ f \in old /\ (announced => f \in notice)
                \/ /\ Stage = "critical" /\ BreakGlass
                   /\ gone = {} => Pressure(Hard, usage)]_vars
  <2>1. SUFFICES ASSUME NEW f \in EvidenceOnDisk \ disk'
                 PROVE  \/ Stage = "hard" /\ f \in old /\ (announced => f \in notice)
                        \/ /\ Stage = "critical" /\ BreakGlass
                           /\ gone = {} => Pressure(Hard, usage)
    OBVIOUS
  <2>2. f \in disk /\ f \notin disk'
    BY <2>1 DEF EvidenceOnDisk
  <2>3. PICK g \in Files : Remove(g)
    BY <1>1, <2>2, WhoRemoves DEF CleanInv
  <2>4. f = g
    BY <2>2, <2>3 DEF Remove
  <2> QED BY <1>1, <2>1, <2>3, <2>4, RemovesByTheRules DEF CleanInv
<1> QED BY <1>1, EvidenceAlways, PTL DEF Spec, EvidenceRules
=============================================================================
