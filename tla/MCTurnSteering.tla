--------------------------- MODULE MCTurnSteering ---------------------------
(* Instances of TurnSteering for TLC. *)
EXTENDS TurnSteering

TwoUsers   == {1, 2}
NoMachine  == {}
OneMachine == {3}

=============================================================================
