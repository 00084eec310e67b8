----------------------------- MODULE BackupShelf ------------------------------
(***************************************************************************)
(* What the backup command of AvIT-Data promises to a reader: a complete   *)
(* backup appears at a path in one step, is never replaced by another, and *)
(* disappears at most by being withdrawn by the command that made it.      *)
(***************************************************************************)
CONSTANTS Paths, Contents, Nothing

VARIABLE shelf   \* what a reader finds, and trusts, at each path

Publish(t) ==
  /\ shelf[t] = Nothing
  /\ \E c \in Contents : shelf' = [shelf EXCEPT ![t] = c]

Withdraw(t) ==
  /\ shelf[t] # Nothing
  /\ shelf' = [shelf EXCEPT ![t] = Nothing]

Init == shelf = [t \in Paths |-> Nothing]
Next == \E t \in Paths : Publish(t) \/ Withdraw(t)
Spec == Init /\ [][Next]_shelf
=============================================================================
