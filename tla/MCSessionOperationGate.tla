----------------------- MODULE MCSessionOperationGate -----------------------
(* SessionOperationGate with a few callers. One object per caller and one  *)
(* for the lane, so that a fresh object is always at hand.                 *)
EXTENDS SessionOperationGate, TLC

Symmetry == Permutations(Fence) \cup Permutations(Obj)

=============================================================================
