------------------------ MODULE MCTurnLeaseDeletion ------------------------
(* TurnLeaseDeletion on a small instance: each runtime has Ids owner ids.  *)
EXTENDS TurnLeaseDeletion, TLC

CONSTANTS Ids

MCLease == Runtime \X Ids
MCHome == [id \in MCLease |-> id[1]]

Symmetry == Permutations(Runtime) \cup Permutations(Turn) \cup Permutations(Ids)

(* The invariants promise nothing once a deletion was undercut, and it     *)
(* stays so: those states are checked, and not taken further.              *)
Intact == ~undercut

=============================================================================
