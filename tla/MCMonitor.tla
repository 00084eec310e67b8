----------------------------- MODULE MCMonitor -----------------------------
(* Instances of Monitor for TLC: the sets are model values of the .cfg.    *)
EXTENDS Monitor, TLC

\* Addresses, devices and modes are compared for equality only; for runs
\* without liveness.
Symmetry == Permutations(Addresses) \cup Permutations(Devices) \cup Permutations(Modes)
============================================================================
