-------------------------- MODULE MCTurnSubmission --------------------------
(* TurnSubmission on small instances: each submission is made once. One    *)
(* state object is enough: SessionOperationGateProofs shows that whoever   *)
(* is inside shares the map's object.                                      *)
EXTENDS TurnSubmission, TLC

MCOp == Direct \cup Compact

=============================================================================
