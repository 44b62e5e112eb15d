------------------------- MODULE TurnLeaseDeletion -------------------------
(***************************************************************************)
(* What the deletion of a session may rely on while it erases the data     *)
(* (requireQuiescentTurn of session-turn-deletion.ts, deleteSessionData of *)
(* turn.repository.ts): TurnLease with a history variable.                 *)
(*                                                                         *)
(* The code lets a late renewal put a deadline on a deletion's lock        *)
(* (RenewLost), and once that has passed anybody may take the lock. The    *)
(* history remembers that this has happened. Nothing else undercuts a      *)
(* deletion, and the properties here say so of the code as it is, its late *)
(* renewals, crashes and takeovers included.                               *)
(***************************************************************************)
EXTENDS TurnLease

VARIABLE undercut  \* a deletion's lock has been taken for over

(* The lock of a deletion is recovered like a lease that ran out.          *)
FenceTaken ==
  /\ lock.kind = "session-deletion" /\ lock.expiry = "expired"
  /\ lock'.kind # "session-deletion"

DeletionVars == <<vars, undercut>>

DeletionInit == Init /\ undercut = FALSE

DeletionNext == Next /\ undercut' = (undercut \/ FenceTaken)

DeletionSpec == DeletionInit /\ [][DeletionNext]_DeletionVars

-----------------------------------------------------------------------------

(* Once a runtime has found the session quiescent, no turn is accepted in  *)
(* it any more while its data is erased, even when the fence is another    *)
(* runtime's, or has got a deadline, or is reclaimed meanwhile: unless the *)
(* lock of a deletion has been taken for over.                             *)
DeletionIsQuiet ==
  ~undercut =>
    \A r \in Runtime : phase[r] \in {"quiescent", "erased", "cleaned"} =>
      Accepted(Stored) = {}

(* No Turn data survives the session: a receipt never appears after the    *)
(* data was erased and before the session row went (deleteSessionData      *)
(* comes before cleanup), unless the same has happened.                    *)
NoOrphanTurnData ==
  ~session /\ ~undercut => \A t \in Turn : receipt[t] = "none"

=============================================================================
