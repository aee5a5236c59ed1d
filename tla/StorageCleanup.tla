---------------------------- MODULE StorageCleanup ----------------------------
(* The storage janitor of the server (storage_maintenance.go and its database *)
(* sync): one goroutine walks through classes of files, from the cheapest to  *)
(* the most valuable, while requests, test jobs and clip finalizers write     *)
(* files and the rows that refer to them.  A file has the size 1.             *)
EXTENDS Naturals, FiniteSets, Sequences

CONSTANTS
  Files,       \* numbered in the order in which the files of one class are written
  Kind,        \* the class of each file
  Hour,        \* the hour bucket of an event's evidence
  Soft, Hard, Critical,  \* the watermarks, less what others than these files use
  Capacity, MinFree,     \* the size of the disk, and MinFreeGB
  BreakGlass,            \* EmergencyBreakGlass
  MaxFaults    \* bound: failing queries, removals and updates, and crashes

VARIABLES
  \* files and rows
  saved,       \* files ever written
  disk,        \* files on disk
  old,         \* files past the retention of their class
  refs,        \* rows that refer to a file: <<file, table>>
  todo,        \* rows the writer of a file has still to write
  working,     \* test media with a pending or running job item
  \* the janitor
  at, step,    \* phase (0: waits for the ticker) and where in it
  usage,       \* the space in use as the janitor counts it
  shield,      \* files found referenced when the phase began
  queue,       \* files listed and not yet visited
  gone,        \* files removed whose rows are not yet cleared
  hour,        \* hour bucket under removal
  notice,      \* candidates of the pending retention notice
  \* bounds and history
  faults,
  hasty,       \* files whose row was written after the janitor had listed or removed them
  lost,        \* files removed whose rows a crash or a failure left uncleared
  announced,   \* this run's soft stage has issued or confirmed a notice
  spared       \* this stage has left a file of a class, its target being reached

fileVars == <<saved, disk, old, refs, todo, working>>
memory == <<at, step, usage, shield, queue, gone, hour>>
history == <<faults, hasty, lost, announced, spared>>
vars == <<fileVars, memory, notice, history>>

Kinds == {"snap", "media", "cover", "device", "record", "event", "clip"}
Evidence == {"event", "clip"}
Stages == {"routine", "soft", "hard", "critical"}

ASSUME StorageAssumption ==
  /\ Files \subseteq Nat /\ IsFiniteSet(Files)
  /\ Kind \in [Files -> Kinds] /\ Hour \in [Files -> Nat]
  /\ {Soft, Hard, Critical, Capacity, MinFree, MaxFaults} \subseteq Nat
  /\ BreakGlass \in BOOLEAN
-----------------------------------------------------------------------------
(* The plan of a run.                                                      *)

Of(stage, kind) == [stage |-> stage, kind |-> kind]

\* The buffers of alarm clips, which come first, are the subject of AlarmBuffer.
RoutinePhases == <<Of("routine", "snap"), Of("routine", "media"), Of("routine", "record")>>
SoftPhases ==
  <<Of("soft", "gate"), Of("soft", "snap"), Of("soft", "media"), Of("soft", "cover"),
    Of("soft", "device"), Of("soft", "record"), Of("soft", "notice")>>
HardPhases ==
  <<Of("hard", "gate"), Of("hard", "record"), Of("hard", "candidates"),
    Of("hard", "event"), Of("hard", "clip"), Of("hard", "clear")>>
CriticalPhases ==
  <<Of("critical", "gate"), Of("critical", "record"), Of("critical", "cover"),
    Of("critical", "device"), Of("critical", "evidence")>>
Phases == RoutinePhases \o SoftPhases \o HardPhases \o CriticalPhases

Idle == at = 0
Stage == Phases[at].stage
Class == Phases[at].kind
After == IF at = Len(Phases) THEN 0 ELSE at + 1
NextGate ==
  LET later == {i \in at + 1 .. Len(Phases) : Phases[i].kind = "gate"}
  IN  IF later = {} THEN 0 ELSE CHOOSE i \in later : \A j \in later : i <= j

\* Classes that are looked up in the rows before the walk.
Shielded(i) ==
  /\ i # 0
  /\ \/ Phases[i].kind = "media"
     \/ Phases[i].stage = "soft" /\ Phases[i].kind \in {"cover", "device"}

\* Classes whose rows are cleared after the removal: a cover that nothing refers
\* to has none, snapshots of ZLM and recordings never have.
Synced ==
  \/ Class \in {"media", "device", "event", "clip", "evidence"}
  \/ Class = "cover" /\ Stage = "critical"

\* diskUsageSnapshot
Used == Cardinality(disk)
Mark(stage) == CASE stage = "soft" -> Soft [] stage = "hard" -> Hard [] stage = "critical" -> Critical
Pressure(mark, used) == used >= mark \/ Capacity < used + MinFree
Reached(used) ==
  /\ used < (IF Stage = "soft" THEN Soft ELSE Hard)
  /\ used + MinFree <= Capacity

\* The tables that refer to a file, in the order in which its writer fills them.
RowsOf(kind) ==
  CASE kind = "media" -> <<"item", "result">>
    [] kind = "cover" -> <<"algorithm">>
    [] kind = "device" -> <<"source">>
    [] kind = "event" -> <<"event">>
    [] kind = "clip" -> <<"event", "session">>
    [] OTHER -> <<>>
Tables == {"item", "result", "algorithm", "source", "event", "session"}

Referenced == {ref[1] : ref \in refs}
EvidenceOnDisk == {f \in disk : Kind[f] \in Evidence}
-----------------------------------------------------------------------------
Init ==
  /\ saved = {} /\ disk = {} /\ old = {} /\ refs = {} /\ working = {}
  /\ todo = [f \in Files |-> <<>>]
  /\ at = 0 /\ step = "list" /\ usage = 0 /\ shield = {} /\ queue = {} /\ gone = {} /\ hour = 0
  /\ notice = {}
  /\ faults = 0 /\ hasty = {} /\ lost = {} /\ announced = FALSE /\ spared = FALSE

Fault == faults < MaxFaults /\ faults' = faults + 1
-----------------------------------------------------------------------------
(* Writers: the file first, then the rows.                                 *)

\* An upload, a segment of a recording, a snapshot or a clip appears.
Save(f) ==
  /\ f \notin saved
  /\ \A g \in Files : Kind[g] = Kind[f] /\ g < f => g \in saved
  /\ saved' = saved \cup {f}
  /\ disk' = disk \cup {f}
  /\ todo' = [todo EXCEPT ![f] = RowsOf(Kind[f])]
  /\ UNCHANGED <<old, refs, working, memory, notice, history>>

\* The janitor has taken the file already, or has it on a list made before the row.
Doomed(f) == f \notin disk \/ f \in queue \/ (~Idle /\ step = "list" /\ Shielded(at))

\* The row that refers to the file.  A test job's item is pending from then on.
Refer(f) ==
  /\ todo[f] # <<>> /\ Head(todo[f]) # "result"
  /\ refs' = refs \cup {<<f, Head(todo[f])>>}
  /\ todo' = [todo EXCEPT ![f] = Tail(@)]
  /\ working' = IF Kind[f] = "media" THEN working \cup {f} ELSE working
  /\ hasty' = IF Doomed(f) THEN hasty \cup {f} ELSE hasty
  /\ UNCHANGED <<saved, disk, old, memory, notice, faults, lost, announced, spared>>

\* A test item ends: a record is written, and the item with its path once more.
FinishItem(f) ==
  /\ todo[f] = <<"result">>
  /\ refs' = refs \cup {<<f, "item">>, <<f, "result">>}
  /\ todo' = [todo EXCEPT ![f] = <<>>]
  /\ working' = working \ {f}
  /\ hasty' = IF Doomed(f) THEN hasty \cup {f} ELSE hasty
  /\ UNCHANGED <<saved, disk, old, memory, notice, faults, lost, announced, spared>>

\* A file outlives its retention; covers and device snapshots have none.  A run
\* measures ages against the time it began.
Expire(f) ==
  /\ Idle /\ f \in disk \ old /\ Kind[f] \notin {"cover", "device"}
  /\ old' = old \cup {f}
  /\ UNCHANGED <<saved, disk, refs, todo, working, memory, notice, history>>
-----------------------------------------------------------------------------
(* The janitor.                                                            *)

GoTo(i) ==
  /\ at' = i
  /\ step' = IF Shielded(i) THEN "load" ELSE "list"
  /\ shield' = {} /\ queue' = {} /\ gone' = {} /\ hour' = 0

Begin ==
  /\ Idle
  /\ GoTo(1)
  /\ usage' = 0 /\ announced' = FALSE /\ spared' = FALSE
  /\ UNCHANGED <<fileVars, notice, faults, hasty, lost>>

\* A stage begins with a look at the disk.  Without the first look no stage runs;
\* later a failing look leaves the count as it is.
Gate ==
  /\ ~Idle /\ Class = "gate"
  /\ \/ usage' = Used /\ UNCHANGED faults
     \/ Fault /\ UNCHANGED usage
  /\ IF Stage = "soft" /\ faults' # faults
     THEN GoTo(0)
     ELSE IF Pressure(Mark(Stage), usage') /\ (Stage = "critical" => BreakGlass)
     THEN GoTo(After) ELSE GoTo(NextGate)
  /\ spared' = FALSE
  /\ UNCHANGED <<fileVars, notice, hasty, lost, announced>>

\* What the rows refer to is asked for before the files are listed.
Load ==
  /\ step = "load"
  /\ shield' = IF Class = "media" THEN working ELSE Referenced
  /\ step' = "list"
  /\ UNCHANGED <<fileVars, at, usage, queue, gone, hour, notice, history>>

\* Without an answer the class is left alone.
LoadFails ==
  /\ step = "load" /\ Fault
  /\ GoTo(After)
  /\ UNCHANGED <<fileVars, usage, notice, hasty, lost, announced, spared>>

\* Mutant: old test media go whatever uses them.
EligibleOldMedia(f) ==
  IF Class = "evidence"
  THEN Kind[f] \in Evidence /\ f \in Referenced
  ELSE /\ Kind[f] = Class
       /\ f \notin shield \/ f \in old
       /\ Stage = "routine" \/ Class \in Evidence => f \in old

Eligible(f) ==
  IF Class = "evidence"
  THEN Kind[f] \in Evidence /\ f \in Referenced
  ELSE /\ Kind[f] = Class
       /\ f \notin shield
       /\ Stage = "routine" \/ Class \in Evidence => f \in old

List ==
  /\ ~Idle /\ step = "list" /\ Class \in Kinds \cup {"evidence"}
  /\ LET files == {f \in disk : Eligible(f)}
     IN  IF files = {} THEN GoTo(After)
         ELSE queue' = files /\ step' = "remove" /\ shield' = {} /\ UNCHANGED <<at, gone, hour>>
  /\ UNCHANGED <<fileVars, usage, notice, history>>

\* The older file goes first; of evidence the older hour, and in it snapshots.
Before(f, g) ==
  IF Class # "evidence" THEN f < g
  ELSE \/ Hour[f] < Hour[g]
       \/ Hour[f] = Hour[g] /\ Kind[f] = "event" /\ Kind[g] = "clip"
       \/ Hour[f] = Hour[g] /\ Kind[f] = Kind[g] /\ f < g
Oldest(f) == f \in queue /\ \A g \in queue : ~Before(g, f)

\* An hour of evidence is removed as a whole, and its rows are cleared before the
\* next one; all other files are asked for one by one.
SameHour(f) == Class = "evidence" /\ gone # {} /\ Hour[f] = hour

\* Mutant: expired clips go without a look at the target.
WantedExpired(f) ==
  \/ SameHour(f)
  \/ /\ Class = "evidence" => gone = {}
     /\ Stage = "routine" \/ Class = "clip" \/ ~Reached(usage)

Wanted(f) ==
  \/ SameHour(f)
  \/ /\ Class = "evidence" => gone = {}
     /\ Stage = "routine" \/ ~Reached(usage)

Remove(f) ==
  /\ step = "remove" /\ Oldest(f) /\ Wanted(f)
  /\ disk' = disk \ {f}
  /\ queue' = queue \ {f}
  /\ gone' = gone \cup {f}
  /\ hour' = Hour[f]
  /\ usage' = IF Stage = "routine" \/ usage = 0 THEN usage ELSE usage - 1
  /\ UNCHANGED <<saved, old, refs, todo, working, at, step, shield, notice, history>>

\* A file that cannot be removed is passed over.
RemoveFails(f) ==
  /\ step = "remove" /\ Oldest(f) /\ Wanted(f) /\ Fault
  /\ queue' = queue \ {f}
  /\ UNCHANGED <<fileVars, at, step, usage, shield, gone, hour, notice,
                 hasty, lost, announced, spared>>

Leave == GoTo(After) /\ spared' = (spared \/ queue # {})

\* No file is left, or the target is reached.
EndLoop ==
  /\ step = "remove" /\ \A f \in queue : ~(Oldest(f) /\ Wanted(f))
  /\ IF Synced /\ gone # {}
     THEN step' = "sync" /\ UNCHANGED <<at, shield, queue, gone, hour, spared>>
     ELSE Leave
  /\ UNCHANGED <<fileVars, usage, notice, faults, hasty, lost, announced>>

\* Mutant: only the events' rows of removed clips are cleared.
SyncEventsOnly ==
  /\ step = "sync"
  /\ refs' = {ref \in refs : ref[1] \notin gone \/ ref[2] = "session"}
  /\ IF Class = "evidence" /\ queue # {}
     THEN step' = "remove" /\ gone' = {} /\ hour' = 0 /\ UNCHANGED <<at, shield, queue, spared>>
     ELSE Leave
  /\ UNCHANGED <<saved, disk, old, todo, working, usage, notice,
                 faults, hasty, lost, announced>>

\* The rows that refer to the removed files are cleared, by their path.
Sync ==
  /\ step = "sync"
  /\ refs' = {ref \in refs : ref[1] \notin gone}
  /\ IF Class = "evidence" /\ queue # {}
     THEN step' = "remove" /\ gone' = {} /\ hour' = 0 /\ UNCHANGED <<at, shield, queue, spared>>
     ELSE Leave
  /\ UNCHANGED <<saved, disk, old, todo, working, usage, notice,
                 faults, hasty, lost, announced>>

\* The update fails: the rows stay as they are, and the janitor goes on.
SyncFails ==
  /\ step = "sync" /\ Fault
  /\ lost' = lost \cup gone
  /\ Leave
  /\ UNCHANGED <<fileVars, usage, notice, hasty, announced>>

Candidates == {f \in EvidenceOnDisk : f \in old}

\* Mutant: any pending notice is good enough.
AnnounceOnce ==
  /\ ~Idle /\ Class = "notice"
  /\ notice' = IF notice = {} THEN Candidates ELSE notice
  /\ announced' = TRUE
  /\ GoTo(After)
  /\ UNCHANGED <<fileVars, usage, faults, hasty, lost, spared>>

\* The soft stage announces what the hard stage would take; the same candidates
\* are announced once.  It may fail to save the notice.
Announce ==
  /\ ~Idle /\ Class = "notice"
  /\ \/ notice' = Candidates /\ announced' = TRUE /\ UNCHANGED faults
     \/ notice # Candidates /\ Fault /\ UNCHANGED <<notice, announced>>
  /\ GoTo(After)
  /\ UNCHANGED <<fileVars, usage, hasty, lost, spared>>

\* The hard stage looks for candidates again; without any the notice is withdrawn.
LookForCandidates ==
  /\ ~Idle /\ Class = "candidates"
  /\ \/ Candidates = {} /\ notice' = {} /\ GoTo(NextGate) /\ UNCHANGED faults
     \/ Candidates # {} /\ GoTo(After) /\ UNCHANGED <<notice, faults>>
     \/ Fault /\ GoTo(NextGate) /\ UNCHANGED notice
  /\ UNCHANGED <<fileVars, usage, hasty, lost, announced, spared>>

\* After the hard stage's removal the notice is withdrawn.
ClearNotice ==
  /\ ~Idle /\ Class = "clear"
  /\ notice' = {}
  /\ GoTo(After)
  /\ UNCHANGED <<fileVars, usage, faults, hasty, lost, announced, spared>>

\* The server dies.  What had been written without its rows keeps none.
Crash ==
  /\ Fault
  /\ lost' = lost \cup gone
  /\ todo' = [f \in Files |-> <<>>]
  /\ GoTo(0)
  /\ UNCHANGED <<saved, disk, old, refs, working, usage, notice,
                 hasty, announced, spared>>
-----------------------------------------------------------------------------
Janitor ==
  \/ Begin \/ Gate \/ Load \/ LoadFails \/ List
  \/ \E f \in Files : Remove(f) \/ RemoveFails(f)
  \/ EndLoop \/ Sync \/ SyncFails \/ Announce \/ LookForCandidates \/ ClearNotice

Next ==
  \/ \E f \in Files : Save(f) \/ Refer(f) \/ FinishItem(f) \/ Expire(f)
  \/ Janitor \/ Crash

Spec == Init /\ [][Next]_vars
-----------------------------------------------------------------------------
(* Properties.                                                             *)

TypeOK ==
  /\ disk \subseteq saved /\ saved \subseteq Files /\ old \subseteq Files
  /\ refs \subseteq Files \X Tables
  /\ todo \in [Files -> Seq(Tables)]
  /\ working \subseteq Files
  /\ at \in 0..Len(Phases) /\ step \in {"load", "list", "remove", "sync"}
  /\ usage \in Nat /\ hour \in Nat /\ {shield, queue, gone} \subseteq SUBSET Files
  /\ step \in {"load", "list"} => queue = {} /\ gone = {}
  /\ notice \subseteq Files
  /\ faults \in Nat
  /\ hasty \subseteq Files /\ lost \subseteq Files
  /\ {announced, spared} \subseteq BOOLEAN

\* A row refers to a file that exists, or whose removal the janitor is about to
\* write down, unless the row was written after the janitor had made its list, or
\* a crash or failure came between the removal and the update of the rows.
NoDangling ==
  \A ref \in refs : ref[1] \in disk \cup gone \cup hasty \cup lost

\* The medium of a pending or running test item is never cleaned up, whatever the
\* pressure, if its item was there when the janitor asked.
MediaKept == working \subseteq disk \cup hasty

\* More valuable classes are a last resort: once a stage has left a file of an
\* earlier class on disk because its target was reached, it removes nothing more.
LastResort == [][disk' \subseteq disk /\ disk' # disk => ~spared]_vars

\* Evidence (event snapshots, clips) is removed by the hard stage only when it has
\* expired, and if this run's soft stage announced anything, when the notice in
\* effect names it; unexpired evidence only by the emergency stage, where every
\* hour begins under a pressure that the removals so far have not relieved.
EvidenceRules ==
  [][\A f \in EvidenceOnDisk \ disk' :
       \/ Stage = "hard" /\ f \in old /\ (announced => f \in notice)
       \/ /\ Stage = "critical" /\ BreakGlass
          /\ gone = {} => Pressure(Hard, usage)]_vars
=============================================================================
