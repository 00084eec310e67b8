------------------------------ MODULE MCOutbox -------------------------------
(* The outbox for TLC: what may be permuted without changing an answer.     *)
EXTENDS Outbox, TLC

Symmetry == Permutations(Addresses) \cup Permutations(Routes)
=============================================================================
