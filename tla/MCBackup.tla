------------------------------- MODULE MCBackup -------------------------------
(* The backup commands for TLC: a finite set of contents, and symmetry.     *)
EXTENDS Backup, TLC

Symmetry == Permutations(Jobs) \cup Permutations(Paths)
=============================================================================
