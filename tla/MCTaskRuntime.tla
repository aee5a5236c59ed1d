---------------------------- MODULE MCTaskRuntime ----------------------------
(* Instances of TaskRuntime for TLC.                                       *)
EXTENDS TaskRuntime, TLC

\* Devices and goroutines are interchangeable.
Symmetry == Permutations(Devices) \cup Permutations(Threads)

\* One request, callback or recovery at a time, and callbacks arrive before the
\* next one begins.
SerialNext ==
  /\ Next
  /\ Cardinality({t \in Workers : pc'[t] # "idle"}) <= 1
  /\ (AllIdle /\ ~NoCallbacks => requests' = requests)

SerialSpec == Init /\ [][SerialNext]_vars
=============================================================================
