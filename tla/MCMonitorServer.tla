-------------------------- MODULE MCMonitorServer --------------------------
(* Finite instances of MonitorServer for TLC. *)
EXTENDS MonitorServer

CONSTANTS n1, n2

\* A failed run and a successful one, of a single node
TwoRuns ==
  <<[node |-> n1, kind |-> "failed"], [node |-> n1, kind |-> "success"]>>

Symmetry == Permutations(Handler) \cup Permutations(Attempt)
============================================================================
