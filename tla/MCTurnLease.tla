---------------------------- MODULE MCTurnLease ----------------------------
(* TurnLease on a small instance: two runtimes, and an id more for one of  *)
(* them. That is an id in the lock, one that a lost execution still has,   *)
(* and one to grant; the other runtime recovers, takes over and deletes.   *)
EXTENDS TurnLease, TLC

CONSTANTS a, b

MCLease == {<<a, 1>>, <<a, 2>>, <<b, 1>>}
MCHome == [id \in MCLease |-> id[1]]

Symmetry == Permutations(Turn)

=============================================================================
