---------------------------- MODULE MCBackupRun ----------------------------
(* Finite instances of BackupRun for TLC. *)
EXTENDS BackupRun, TLC

ProcessSymmetry == Permutations(Process)
FullSymmetry == Permutations(Process) \cup Permutations(Job)
=============================================================================
