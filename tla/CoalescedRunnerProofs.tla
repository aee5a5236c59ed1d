------------------------ MODULE CoalescedRunnerProofs ------------------------
(* Theorems about CoalescedRunner, for any number of keys, goroutines,     *)
(* attempts and requests.                                                  *)
EXTENDS CoalescedRunner, TLAPS

Inv == TypeOK /\ OneWorker /\ Covered /\ NothingForgotten /\ Merged

\* Nothing requested, nobody running.
LEMMA InitInv == Init => Inv
  BY RunnerAssumption DEF Init, Inv, TypeOK, OneWorker, WorkersOf, Covered, NothingForgotten, Merged

\* A request for a key that is being repaired leaves a mark.
LEMMA ScheduleMark ==
  ASSUME Inv, NEW k \in Keys, Schedule(k), k \in running
  PROVE  Inv'
<1> USE DEF Inv, TypeOK
<1>1. /\ asked' = [asked EXCEPT ![k] = asked[k] + 1] /\ pending' = pending \cup {k}
      /\ UNCHANGED <<running, pc, key, attempt, runs, answered>>
  BY DEF Schedule
<1>2. TypeOK'
  BY <1>1
<1>3. OneWorker'
  BY <1>1 DEF OneWorker, WorkersOf
<1>4. Covered'
  BY <1>1 DEF Covered
<1>5. NothingForgotten'
  BY <1>1 DEF NothingForgotten
<1>6. Merged'
  BY <1>1 DEF Merged
<1> QED BY <1>2, <1>3, <1>4, <1>5, <1>6

\* A request for a quiet key starts a goroutine.
LEMMA ScheduleStart ==
  ASSUME Inv, NEW k \in Keys, Schedule(k), k \notin running
  PROVE  Inv'
<1> USE DEF Inv, TypeOK
<1>1. PICK w \in Workers :
        /\ pc[w] = "none" /\ key' = [key EXCEPT ![w] = k]
        /\ pc' = [pc EXCEPT ![w] = "attempt"]
        /\ attempt' = [attempt EXCEPT ![w] = 1]
        /\ runs' = [runs EXCEPT ![k] = runs[k] + 1]
        /\ asked' = [asked EXCEPT ![k] = asked[k] + 1]
        /\ running' = running \cup {k}
        /\ UNCHANGED <<pending, answered>>
  BY DEF Schedule, StartRun
<1>2. k \notin pending /\ WorkersOf(k) = {}
  BY DEF OneWorker, Covered
<1>3. TypeOK'
  BY <1>1, RunnerAssumption
<1>4. OneWorker'
  BY <1>1, <1>2 DEF OneWorker, WorkersOf
<1>5. Covered'
  <2>1. pending' \subseteq running'
    BY <1>1 DEF Covered
  <2>2. ASSUME NEW v \in Workers, pc'[v] # "none", key'[v] \notin pending'
        PROVE  (pc'[v] = "attempt" /\ attempt'[v] = 1) \/ answered'[key'[v]] = asked'[key'[v]]
    <3>1. CASE v = w
      BY <1>1, <3>1
    <3>2. CASE v # w
      <4>1. pc'[v] = pc[v] /\ key'[v] = key[v] /\ attempt'[v] = attempt[v]
        BY <1>1, <3>2
      <4>2. key[v] # k
        BY <1>2, <2>2, <4>1 DEF WorkersOf
      <4> QED BY <1>1, <2>2, <4>1, <4>2 DEF Covered
    <3> QED BY <3>1, <3>2
  <2> QED BY <2>1, <2>2 DEF Covered
<1>6. NothingForgotten'
  BY <1>1 DEF NothingForgotten
<1>7. Merged'
  BY <1>1, <1>2 DEF Merged
<1> QED BY <1>3, <1>4, <1>5, <1>6, <1>7

\* The steps of a run change neither the flags nor the requests.
LEMMA RunSteps ==
  ASSUME Inv, NEW w \in Workers, EndRun(w) \/ Fail(w) \/ Sleep(w)
  PROVE  Inv'
<1> USE DEF Inv, TypeOK, EndRun, Fail, Sleep
<1>1. /\ UNCHANGED <<running, pending, key, asked, runs, answered>>
      /\ \A v \in Workers : pc'[v] # "none" <=> pc[v] # "none"
  OBVIOUS
<1>2. TypeOK'
  BY RunnerAssumption
<1>3. OneWorker'
  BY <1>1 DEF OneWorker, WorkersOf
<1>4. Covered'
  BY <1>1 DEF Covered
<1>5. NothingForgotten' /\ Merged'
  BY <1>1 DEF NothingForgotten, Merged
<1> QED BY <1>2, <1>3, <1>4, <1>5

\* An attempt that begins has seen every request so far.
LEMMA BeginStep ==
  ASSUME Inv, NEW w \in Workers, BeginAttempt(w)
  PROVE  Inv'
<1> USE DEF Inv, TypeOK, BeginAttempt
<1>1. /\ UNCHANGED <<running, pending, key, attempt, asked, runs>>
      /\ key[w] \in Keys
      /\ pc[w] = "attempt" /\ pc' = [pc EXCEPT ![w] = "working"]
      /\ answered' = [answered EXCEPT ![key[w]] = asked[key[w]]]
      /\ \A v \in Workers : pc'[v] # "none" <=> pc[v] # "none"
  OBVIOUS
<1>2. TypeOK'
  OBVIOUS
<1>3. OneWorker'
  BY <1>1 DEF OneWorker, WorkersOf
<1>4. Covered'
  BY <1>1 DEF Covered
<1>5. NothingForgotten' /\ Merged'
  BY <1>1 DEF NothingForgotten, Merged
<1> QED BY <1>2, <1>3, <1>4, <1>5

\* The goroutine finds a mark and goes round again.
LEMMA CheckAgain ==
  ASSUME Inv, NEW w \in Workers, CheckPending(w), key[w] \in pending
  PROVE  Inv'
<1> USE DEF Inv, TypeOK
<1> DEFINE k == key[w]
<1>1. /\ k \in Keys /\ pc[w] = "check"
      /\ pending' = pending \ {k}
      /\ pc' = [pc EXCEPT ![w] = "attempt"]
      /\ attempt' = [attempt EXCEPT ![w] = 1]
      /\ runs' = [runs EXCEPT ![k] = runs[k] + 1]
      /\ UNCHANGED <<running, key, asked, answered>>
      /\ \A v \in Workers : pc'[v] # "none" <=> pc[v] # "none"
  BY DEF CheckPending, StartRun
<1>2. TypeOK'
  BY <1>1, RunnerAssumption
<1>3. OneWorker'
  BY <1>1 DEF OneWorker, WorkersOf
<1>4. Covered'
  <2>1. \A v \in Workers : pc[v] # "none" /\ key[v] = k => v = w
    BY <1>1 DEF OneWorker, WorkersOf
  <2> QED BY <1>1, <2>1 DEF Covered
<1>5. NothingForgotten' /\ Merged'
  BY <1>1 DEF NothingForgotten, Merged
<1> QED BY <1>2, <1>3, <1>4, <1>5

\* The goroutine finds no mark and returns: every request has been seen.
LEMMA CheckReturns ==
  ASSUME Inv, NEW w \in Workers, CheckPending(w), key[w] \notin pending
  PROVE  Inv'
<1> USE DEF Inv, TypeOK
<1> DEFINE k == key[w]
<1>1. /\ k \in Keys /\ pc[w] = "check" /\ k \notin pending
      /\ running' = running \ {k} /\ pending' = pending
      /\ pc' = [pc EXCEPT ![w] = "none"]
      /\ UNCHANGED <<key, attempt, asked, runs, answered>>
  BY DEF CheckPending
<1>2. answered[k] = asked[k]
  BY <1>1 DEF Covered
<1>3. \A v \in Workers : pc[v] # "none" /\ key[v] = k => v = w
  BY <1>1 DEF OneWorker, WorkersOf
<1>4. TypeOK'
  BY <1>1
<1>5. OneWorker'
  BY <1>1, <1>3 DEF OneWorker, WorkersOf
<1>6. Covered'
  BY <1>1 DEF Covered
<1>7. NothingForgotten'
  BY <1>1, <1>2 DEF NothingForgotten
<1>8. Merged'
  BY <1>1 DEF Merged
<1> QED BY <1>4, <1>5, <1>6, <1>7, <1>8

\* Every step keeps the invariant.
LEMMA NextInv == Inv /\ [Next]_vars => Inv'
<1> SUFFICES ASSUME Inv, [Next]_vars PROVE Inv'
  OBVIOUS
<1>1. ASSUME NEW k \in Keys, Schedule(k) PROVE Inv'
  BY <1>1, ScheduleMark, ScheduleStart
<1>2. ASSUME NEW w \in Workers, Work(w) PROVE Inv'
  BY <1>2, BeginStep, RunSteps, CheckAgain, CheckReturns DEF Work
<1>3. CASE UNCHANGED vars
  BY <1>3 DEF vars, Inv, TypeOK, OneWorker, WorkersOf, Covered, NothingForgotten, Merged
<1> QED BY <1>1, <1>2, <1>3 DEF Next

\* The invariant of the runner holds throughout.
LEMMA AlwaysInv == Spec => []Inv
  BY InitInv, NextInv, PTL DEF Spec

\* One goroutine per key at most, and the running flag tells the truth.
THEOREM OneWorkerPerKey == Spec => []OneWorker
<1>1. Inv => OneWorker
  BY DEF Inv
<1> QED BY <1>1, AlwaysInv, PTL

\* A key goes quiet only after an attempt that began after its last request.
THEOREM NoRequestForgotten == Spec => []NothingForgotten
<1>1. Inv => NothingForgotten
  BY DEF Inv
<1> QED BY <1>1, AlwaysInv, PTL

\* There are never more runs than requests.
THEOREM RunsAreMerged == Spec => []Merged
<1>1. Inv => Merged
  BY DEF Inv
<1> QED BY <1>1, AlwaysInv, PTL
=============================================================================
