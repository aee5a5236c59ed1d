---------------------------- MODULE MCPullSource ----------------------------
(* Instances of PullSource for TLC.                                        *)
EXTENDS PullSource, TLC

\* Addresses and goroutines are interchangeable.
Symmetry == Permutations(Urls) \cup Permutations(Threads)
=============================================================================
