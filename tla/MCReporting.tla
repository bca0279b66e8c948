---------------------------- MODULE MCReporting ----------------------------
(* Finite instances of Reporting for TLC. *)
EXTENDS Reporting

CONSTANT phone

NoDestination == <<>>
OneDestination == <<phone>>
Symmetry == Permutations(Maintainer)
=============================================================================
