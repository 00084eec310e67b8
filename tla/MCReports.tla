------------------------------ MODULE MCReports ------------------------------
(* The cleanup command and reports for TLC: symmetry.                       *)
EXTENDS Reports, TLC

Symmetry == Permutations(Devices) \cup Permutations(Addresses)
=============================================================================
