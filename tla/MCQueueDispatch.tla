--------------------------- MODULE MCQueueDispatch ---------------------------
(* Instances of QueueDispatch for TLC. *)
EXTENDS QueueDispatch

TwoItems == 1..2
OneItem  == {1}

=============================================================================
