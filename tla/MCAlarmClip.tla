----------------------------- MODULE MCAlarmClip -----------------------------
(* Instances of AlarmClipSession for TLC.                                  *)
EXTENDS AlarmClipSession, TLC

\* Every event is raised on the same source.
OneSource == [e \in Events |-> CHOOSE src \in Sources : TRUE]

\* Events, session ids and the goroutines beside the main one are interchangeable.
Symmetry ==
  Permutations(Events) \cup Permutations(Sessions) \cup Permutations(Threads \ {Main})

\* A fast machine with stable policies: no request, timer or finalization lasts
\* into the next second, no policy change closes a session.  What goes wrong
\* here needs no slow goroutine.
Quiet ==
  /\ \A e \in Events : hpc[e] \in {"none", "done"}
  /\ \A t \in Threads : pc[t] = "idle"
  /\ fired = {} /\ \A tm \in armed : clock < tm.at

PromptNext ==
  /\ Next
  /\ clock' # clock => Quiet
  /\ \A t \in Threads : reason'[t] # "policy"

\* ... and moreover one activity at a time: no two goroutines overlap.
SerialNext ==
  /\ PromptNext
  /\ Cardinality({e \in Events : hpc'[e] \in {"open", "schedule"}})
       + Cardinality({t \in Threads : pc'[t] # "idle"}) + Cardinality(fired') <= 1

PromptSpec == Init /\ [][PromptNext]_vars /\ Fairness
SerialSpec == Init /\ [][SerialNext]_vars /\ Fairness
=============================================================================
