--------------------------- MODULE CoalescedRunner ---------------------------
(***************************************************************************)
(* Background repair work that is merged per key: the pull self-heal of a  *)
(* source (pull_self_heal.go), and with the same code the invite of a GB   *)
(* device, of a GB channel, and the recovery after a ZLM restart.  A       *)
(* request starts a goroutine, or leaves a mark for the one that is        *)
(* running; a goroutine tries a few times with pauses, and goes round      *)
(* again if it finds the mark.                                             *)
(***************************************************************************)
EXTENDS Integers, FiniteSets

CONSTANTS
  Keys,         \* source ids, device ids, device/channel pairs, or one key
  Workers,      \* goroutines
  MaxAttempts,  \* len(backoffs)
  MaxRequests   \* bound: requests per key

ASSUME RunnerAssumption ==
  /\ IsFiniteSet(Keys) /\ IsFiniteSet(Workers)
  /\ Cardinality(Workers) >= Cardinality(Keys)
  /\ MaxAttempts \in Nat \ {0}
  /\ MaxRequests \in Nat

VARIABLES
  running,   \* keys k with pullHealRunning[k]
  pending,   \* keys k with pullHealPending[k]
  pc, key, attempt,  \* the goroutines
  asked,     \* history: requests made for the key
  runs,      \* history: runs started for the key
  answered   \* history: requests made before the key's latest attempt began

vars == <<running, pending, pc, key, attempt, asked, runs, answered>>

TypeOK ==
  /\ running \subseteq Keys /\ pending \subseteq Keys
  /\ pc \in [Workers -> {"none", "attempt", "working", "backoff", "check"}]
  /\ key \in [Workers -> Keys]
  /\ attempt \in [Workers -> 1 .. MaxAttempts]
  /\ asked \in [Keys -> Nat] /\ runs \in [Keys -> Nat] /\ answered \in [Keys -> Nat]

WorkersOf(k) == {w \in Workers : pc[w] # "none" /\ key[w] = k}

Init ==
  /\ running = {} /\ pending = {}
  /\ pc = [w \in Workers |-> "none"]
  /\ key \in [Workers -> Keys] /\ attempt = [w \in Workers |-> 1]
  /\ asked = [k \in Keys |-> 0]
  /\ runs = [k \in Keys |-> 0]
  /\ answered = [k \in Keys |-> 0]

\* The goroutine w starts a run for key k from its first attempt.
StartRun(w, k) ==
  /\ pc' = [pc EXCEPT ![w] = "attempt"]
  /\ attempt' = [attempt EXCEPT ![w] = 1]
  /\ runs' = [runs EXCEPT ![k] = runs[k] + 1]

\* Mutant: a request that finds a goroutine running is dropped.
ScheduleDropping(k) ==
  /\ asked[k] < MaxRequests
  /\ asked' = [asked EXCEPT ![k] = asked[k] + 1]
  /\ IF k \in running
       THEN UNCHANGED <<running, pending, pc, key, attempt, runs>>
       ELSE /\ running' = running \cup {k}
            /\ \E w \in Workers : pc[w] = "none" /\ key' = [key EXCEPT ![w] = k] /\ StartRun(w, k)
            /\ UNCHANGED pending
  /\ UNCHANGED answered

\* Mutant: the running flag is not looked at.
ScheduleAlways(k) ==
  /\ asked[k] < MaxRequests
  /\ asked' = [asked EXCEPT ![k] = asked[k] + 1]
  /\ running' = running \cup {k}
  /\ \E w \in Workers : pc[w] = "none" /\ key' = [key EXCEPT ![w] = k] /\ StartRun(w, k)
  /\ UNCHANGED <<pending, answered>>

\* schedulePullSourceAutoHeal, under pullHealMu: mark the running goroutine, or
\* start one.
Schedule(k) ==
  /\ asked[k] < MaxRequests
  /\ asked' = [asked EXCEPT ![k] = asked[k] + 1]
  /\ IF k \in running
       THEN /\ pending' = pending \cup {k}
            /\ UNCHANGED <<running, pc, key, attempt, runs>>
       ELSE /\ running' = running \cup {k}
            /\ \E w \in Workers : pc[w] = "none" /\ key' = [key EXCEPT ![w] = k] /\ StartRun(w, k)
            /\ UNCHANGED pending
  /\ UNCHANGED answered

\* autoHealPullSourceOnce reads the rows and asks ZLM: it acts on whatever was
\* requested up to here.
BeginAttempt(w) ==
  /\ pc[w] = "attempt"
  /\ pc' = [pc EXCEPT ![w] = "working"]
  /\ answered' = [answered EXCEPT ![key[w]] = asked[key[w]]]
  /\ UNCHANGED <<running, pending, key, attempt, asked, runs>>

\* The attempt succeeds, or fails and is the last: the run is over.
EndRun(w) ==
  /\ pc[w] = "working"
  /\ pc' = [pc EXCEPT ![w] = "check"]
  /\ UNCHANGED <<running, pending, key, attempt, asked, runs, answered>>

\* The attempt fails and another one is left.
Fail(w) ==
  /\ pc[w] = "working" /\ attempt[w] < MaxAttempts
  /\ pc' = [pc EXCEPT ![w] = "backoff"]
  /\ attempt' = [attempt EXCEPT ![w] = attempt[w] + 1]
  /\ UNCHANGED <<running, pending, key, asked, runs, answered>>

\* time.Sleep(delay)
Sleep(w) ==
  /\ pc[w] = "backoff"
  /\ pc' = [pc EXCEPT ![w] = "attempt"]
  /\ UNCHANGED <<running, pending, key, attempt, asked, runs, answered>>

\* runPullSourceAutoHeal after a run, under pullHealMu: go round again for the
\* mark, or delete both flags and return.
CheckPending(w) ==
  /\ pc[w] = "check"
  /\ IF key[w] \in pending
       THEN /\ pending' = pending \ {key[w]}
            /\ StartRun(w, key[w])
            /\ UNCHANGED running
       ELSE /\ running' = running \ {key[w]}
            /\ pending' = pending \ {key[w]}
            /\ pc' = [pc EXCEPT ![w] = "none"]
            /\ UNCHANGED <<attempt, runs>>
  /\ UNCHANGED <<key, asked, answered>>

Work(w) == BeginAttempt(w) \/ EndRun(w) \/ Fail(w) \/ Sleep(w) \/ CheckPending(w)

Next ==
  \/ \E k \in Keys : Schedule(k)
  \/ \E w \in Workers : Work(w)

Spec == Init /\ [][Next]_vars

\* A goroutine that can go on does; nobody has to make a request.
FairSpec == Spec /\ \A w \in Workers : WF_vars(Work(w))

-----------------------------------------------------------------------------
(* What must hold.                                                         *)

\* The same key is never repaired by two goroutines at once ("avoid building
\* the same proxy concurrently"), and its flag is up exactly while one works.
OneWorker ==
  \A k \in Keys :
    /\ \A v, w \in WorkersOf(k) : v = w
    /\ k \in running <=> WorkersOf(k) # {}

\* No request is forgotten: once the key is quiet, an attempt has begun after
\* the last request for it, wherever in a run that request came.
NothingForgotten ==
  \A k \in Keys : k \notin running => answered[k] = asked[k]

\* Merging never multiplies work: a key has no more runs, the one it is marked
\* for included, than requests.
Merged ==
  \A k \in Keys : runs[k] + (IF k \in pending THEN 1 ELSE 0) <= asked[k]

\* The inductive strengthening: a key that is being repaired and not marked has
\* a goroutine that either has not begun its run or has seen every request.
Covered ==
  /\ pending \subseteq running
  /\ \A w \in Workers :
       pc[w] # "none" /\ key[w] \notin pending =>
         (pc[w] = "attempt" /\ attempt[w] = 1) \/ answered[key[w]] = asked[key[w]]

=============================================================================
