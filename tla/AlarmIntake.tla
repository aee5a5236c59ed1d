------------------------------ MODULE AlarmIntake ------------------------------
(* Detections become alarm events (events.go): every callback of the AI service *)
(* has a goroutine of its own that decides which algorithms raised an alarm,    *)
(* asks whether that alarm was announced within its cycle, and writes an event. *)
(* Operators review events while clip finalizers update them.                   *)
EXTENDS Naturals, FiniteSets

CONSTANTS
  Callbacks,       \* callbacks of one task and device, numbered as they arrive
  TaskAlgorithms,  \* the algorithms of the task
  Payloads,        \* a subset of Payload
  Cycle,           \* AlertCycleSeconds
  MaxTime,         \* bound on the clock
  MaxIntakeFaults, \* bound: failing queries and statements
  MaxReviews       \* bound: reviews of events

VARIABLES
  intakeNow,       \* the clock
  intakeAt,        \* where the goroutine of a callback is
  intakePayload,   \* what the callback says
  intakeLeft,      \* algorithms it has still to write an event for
  intakeTold,      \* the event under way: its algorithm, and when it is announced (0: not)
  intakeEvent,     \* the event rows, by callback and algorithm
  intakeClips,     \* callbacks whose events have still to get their clip
  intakeReview,    \* the review in progress: an event and the row that was read
  intakeReviews, intakeFaults,
  intakeSeen,      \* <<e, f>>: the row of e was there when the announcement of f was decided
  intakeBlind,     \* events announced because that decision could not be made
  intakeOverrun    \* events updated between a review's read and its write

intakeRows == <<intakeEvent, intakeClips>>
intakeWork == <<intakeAt, intakePayload, intakeLeft, intakeTold, intakeSeen, intakeBlind>>
intakeDesk == <<intakeReview, intakeReviews, intakeOverrun>>
intakeVars == <<intakeNow, intakeRows, intakeWork, intakeDesk, intakeFaults>>

\* What a callback says, as far as the decision needs it: the detect mode, the
\* results with alarm "1" (of the LLM or not, with boxes or without), the algorithms
\* of a small model with a matching detection, those of a valid object of the LLM.
\* A result may name an algorithm that the task no longer has.
Payload ==
  [mode : {"small", "llm", "hybrid"}, small : SUBSET TaskAlgorithms, objects : SUBSET TaskAlgorithms,
   results : SUBSET [algorithm : TaskAlgorithms \cup {"gone"}, llm : BOOLEAN, boxes : BOOLEAN]]
NoPayload == [mode |-> "none", small |-> {}, objects |-> {}, results |-> {}]

NotTold == [algorithm |-> "none", at |-> 0]

ASSUME IntakeAssumption ==
  /\ {Cycle, MaxTime, MaxIntakeFaults, MaxReviews} \subseteq Nat
  /\ Payloads \subseteq Payload
-----------------------------------------------------------------------------
(* The decision.                                                           *)

\* Mutant: the hybrid mode listens to the results as well.
AlarmedHybrid(p) ==
  LET hits == {r.algorithm : r \in p.results}
  IN  IF p.mode = "llm" THEN p.objects
      ELSE IF hits = {} THEN p.small \cup p.objects ELSE hits

\* With the LLM only its objects count; else the results, and without any the
\* detections and the objects.
Alarmed(p) ==
  LET hits == {r.algorithm : r \in p.results}
  IN  IF p.mode # "small" THEN p.objects
      ELSE IF hits = {} THEN p.small \cup p.objects ELSE hits

Result(p, a, llm) == \E r \in p.results : r.algorithm = a /\ r.boxes /\ r.llm = llm

\* The boxes of an event are those of the LLM, else those of the small model.
BoxSource(p, a) ==
  IF a \in p.objects \/ (p.mode = "small" /\ Result(p, a, TRUE)) THEN "llm"
  ELSE IF p.mode = "small" /\ (a \in p.small \/ Result(p, a, FALSE)) THEN "small"
  ELSE "none"
-----------------------------------------------------------------------------
IntakeInit ==
  /\ intakeNow = 1 /\ intakeEvent = << >> /\ intakeClips = {}
  /\ intakeAt = [c \in Callbacks |-> "none"]
  /\ intakePayload = [c \in Callbacks |-> NoPayload]
  /\ intakeLeft = [c \in Callbacks |-> {}]
  /\ intakeTold = [c \in Callbacks |-> NotTold]
  /\ intakeSeen = {} /\ intakeBlind = {}
  /\ intakeReview = {} /\ intakeReviews = 0 /\ intakeOverrun = {}
  /\ intakeFaults = 0

Events == DOMAIN intakeEvent
Put(e, row) == [x \in Events \cup {e} |-> IF x = e THEN row ELSE intakeEvent[x]]
IntakeFault == intakeFaults < MaxIntakeFaults /\ intakeFaults' = intakeFaults + 1
StepTo(c, step) == intakeAt' = [intakeAt EXCEPT ![c] = step]

\* The time is looked at by callbacks only.
Tick ==
  /\ intakeNow < MaxTime /\ \E c \in Callbacks : intakeAt[c] # "done"
  /\ intakeNow' = intakeNow + 1
  /\ UNCHANGED <<intakeRows, intakeWork, intakeDesk, intakeFaults>>
-----------------------------------------------------------------------------
(* handleAIDetectionEvent.                                                 *)

\* Without a task for its device, or without an alarm, the callback is dropped.
Receive(c) ==
  /\ intakeAt[c] = "none" /\ \A d \in Callbacks : d < c => intakeAt[d] # "none"
  /\ \/ \E p \in Payloads :
          /\ intakePayload' = [intakePayload EXCEPT ![c] = p]
          /\ intakeLeft' = [intakeLeft EXCEPT ![c] = Alarmed(p)]
          /\ StepTo(c, IF Alarmed(p) = {} THEN "done" ELSE "check")
     \/ StepTo(c, "done") /\ UNCHANGED <<intakePayload, intakeLeft>>
  /\ UNCHANGED <<intakeNow, intakeRows, intakeTold, intakeSeen, intakeBlind, intakeDesk, intakeFaults>>

\* shouldBroadcastAlarm: when the alarm was last announced.
Announced(a) == {intakeEvent[e].notified : e \in {x \in Events : x[2] = a}} \ {0}
Quiet(a) == Cycle = 0 \/ \A t \in Announced(a) : intakeNow >= t + Cycle

Check(c, a) ==
  /\ intakeAt[c] = "check" /\ a \in intakeLeft[c]
  /\ \/ /\ intakeTold' = [intakeTold EXCEPT
                            ![c] = [algorithm |-> a, at |-> IF Quiet(a) THEN intakeNow ELSE 0]]
        /\ UNCHANGED <<intakeBlind, intakeFaults>>
     \/ /\ IntakeFault
        /\ intakeTold' = [intakeTold EXCEPT ![c] = [algorithm |-> a, at |-> intakeNow]]
        /\ intakeBlind' = intakeBlind \cup {<<c, a>>}
  /\ intakeSeen' = intakeSeen \cup ({e \in Events : e[2] = a} \X {<<c, a>>})
  /\ StepTo(c, "create")
  /\ UNCHANGED <<intakeNow, intakeRows, intakePayload, intakeLeft, intakeDesk>>

Row(c, a, at) ==
  [boxes |-> BoxSource(intakePayload[c], a), notified |-> at, clip |-> FALSE, review |-> FALSE]

\* Mutant: every event is stamped as announced.
NotifiedAlways(c) == IF intakeTold[c].at = 0 THEN intakeNow ELSE intakeTold[c].at

NotifiedAt(c) == intakeTold[c].at

\* The row is written, and what is to be announced is broadcast (AlertHub).  An
\* event that cannot be written is passed over.
Create(c) ==
  /\ intakeAt[c] = "create"
  /\ LET a == intakeTold[c].algorithm
     IN  /\ \/ intakeEvent' = Put(<<c, a>>, Row(c, a, NotifiedAt(c))) /\ UNCHANGED intakeFaults
            \/ IntakeFault /\ UNCHANGED intakeEvent
         /\ intakeLeft' = [intakeLeft EXCEPT ![c] = @ \ {a}]
         /\ StepTo(c, IF intakeLeft[c] = {a} THEN "clip" ELSE "check")
  /\ intakeTold' = [intakeTold EXCEPT ![c] = NotTold]
  /\ UNCHANGED <<intakeNow, intakeClips, intakePayload, intakeSeen, intakeBlind, intakeDesk>>

\* The clip of all events that were written, if any was (AlarmClipSession).
TriggerClip(c) ==
  /\ intakeAt[c] = "clip"
  /\ intakeClips' = IF \E e \in Events : e[1] = c THEN intakeClips \cup {c} ELSE intakeClips
  /\ StepTo(c, "done")
  /\ UNCHANGED <<intakeNow, intakeEvent, intakePayload, intakeLeft, intakeTold, intakeSeen,
                 intakeBlind, intakeDesk, intakeFaults>>
-----------------------------------------------------------------------------
(* Updates of rows.                                                        *)

\* A finalizer gives the events of a session their clip, in one statement.
ClipReady(c) ==
  /\ c \in intakeClips
  /\ intakeEvent' = [e \in Events |-> IF e[1] = c THEN [intakeEvent[e] EXCEPT !.clip = TRUE]
                                      ELSE intakeEvent[e]]
  /\ intakeClips' = intakeClips \ {c}
  /\ intakeOverrun' = intakeOverrun \cup {r.event : r \in {x \in intakeReview : x.event[1] = c}}
  /\ UNCHANGED <<intakeNow, intakeWork, intakeReview, intakeReviews, intakeFaults>>

\* reviewEvent reads the row, and saves all of it with the review in it.
ReviewRead(e) ==
  /\ e \in Events /\ intakeReview = {} /\ intakeReviews < MaxReviews
  /\ intakeReview' = {[event |-> e, row |-> intakeEvent[e]]}
  /\ intakeReviews' = intakeReviews + 1
  /\ UNCHANGED <<intakeNow, intakeRows, intakeWork, intakeOverrun, intakeFaults>>

\* Mutant: the row is built from the request instead of read.
ReviewSaveRequest ==
  /\ \E r \in intakeReview :
       intakeEvent' = Put(r.event, [r.row EXCEPT !.review = TRUE, !.clip = FALSE])
  /\ intakeReview' = {}
  /\ UNCHANGED <<intakeNow, intakeClips, intakeWork, intakeReviews, intakeOverrun, intakeFaults>>

ReviewSave ==
  /\ \E r \in intakeReview : intakeEvent' = Put(r.event, [r.row EXCEPT !.review = TRUE])
  /\ intakeReview' = {}
  /\ UNCHANGED <<intakeNow, intakeClips, intakeWork, intakeReviews, intakeOverrun, intakeFaults>>
-----------------------------------------------------------------------------
IntakeNext ==
  \/ Tick
  \/ \E c \in Callbacks : Receive(c) \/ Create(c) \/ TriggerClip(c) \/ ClipReady(c)
  \/ \E c \in Callbacks, a \in TaskAlgorithms \cup {"gone"} : Check(c, a)
  \/ \E e \in Events : ReviewRead(e)
  \/ ReviewSave

IntakeSpec == IntakeInit /\ [][IntakeNext]_intakeVars
-----------------------------------------------------------------------------
(* Properties.                                                             *)

\* docs/architecture.md:148 promises one announcement per cycle.  Two announcements
\* of an alarm within a cycle come only from callbacks that overlap, each deciding
\* before the other's row is there, or from a decision that failed.
QuietPeriod ==
  \A e, f \in Events :
    /\ e # f /\ e[2] = f[2] /\ intakeEvent[e].notified > 0
    /\ intakeEvent[f].notified \in intakeEvent[e].notified .. intakeEvent[e].notified + Cycle - 1
    => <<e, f>> \notin intakeSeen \/ f \in intakeBlind

\* docs/backend-api-v1.md:717: the cycle silences announcements, never events.  A
\* callback leaves one event per algorithm that raised an alarm, with the LLM only
\* for an object with a box, and a task's own algorithm unless a result named another.
EventsJustified ==
  \A c \in Callbacks :
    LET p == intakePayload[c]
        mine == {e[2] : e \in {x \in Events : x[1] = c}}
    IN  /\ intakeAt[c] = "done" /\ intakeFaults = 0 => mine = Alarmed(p)
        /\ p.mode # "small" => \A a \in mine : a \in p.objects /\ intakeEvent[<<c, a>>].boxes = "llm"
        /\ mine \subseteq TaskAlgorithms \cup {r.algorithm : r \in p.results}

\* A review changes only the review: the event keeps the clip that the finalizer
\* gave it, unless it did so while the review was between its read and its write.
ReviewKeepsRow ==
  [][\A e \in Events :
       intakeEvent'[e].review # intakeEvent[e].review /\ e \notin intakeOverrun =>
         intakeEvent'[e] = [intakeEvent[e] EXCEPT !.review = intakeEvent'[e].review]]_intakeVars
=============================================================================
