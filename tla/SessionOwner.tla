---------------------------- MODULE SessionOwner ----------------------------
(***************************************************************************)
(* Who owns a session, as everybody else sees it: the contract of          *)
(* turn.repository.ts that the submissions of turn-execution.service.ts    *)
(* build on. A session has one owner at a time: a turn, somebody who keeps *)
(* turns out (maintenance, a deletion), or nobody. The owner stays until   *)
(* it gives the session back or has lapsed, which is when its lease has    *)
(* run out, its process is gone, or its settlement failed; then a          *)
(* newcomer, or a recovery, may take the session from it and its turn      *)
(* fails. A turn ends once, and only an eraser makes turns unknown again.  *)
(*                                                                         *)
(* TurnLease implements this with locks, receipts and processes, and       *)
(* TurnSubmission with the steps of its submissions: what one of them      *)
(* promises and what the other expects of the repository is the same.      *)
(***************************************************************************)
CONSTANTS
  Work,    \* the turns
  Other,   \* the other owners
  Eraser,  \* those of them that delete what is known of turns
  Nobody

VARIABLES
  owner,   \* of the session
  life,    \* of each turn
  lapsed   \* whether the owner has lapsed; that is no step of the owner's

vars == <<owner, life>>

Life == {"new", "owning", "settled", "failed"}

(* What is known of the turns once a lapsed owner's has failed.            *)
Recovered ==
  [w \in Work |-> IF lapsed /\ w = owner THEN "failed" ELSE life[w]]

Available == owner = Nobody \/ lapsed

Admit(w) ==
  /\ Available
  /\ life[w] = "new"
  /\ owner' = w
  /\ life' = [Recovered EXCEPT ![w] = "owning"]

(* The owner's turn ends and leaves the session, perhaps to who is         *)
(* waiting to delete it.                                                   *)
Settle(w) ==
  /\ owner = w
  /\ owner' \in Eraser \cup {Nobody}
  /\ life' = [life EXCEPT ![w] = "settled"]

(* The turn is taken back before it started.                               *)
Revoke(w) ==
  /\ owner = w
  /\ owner' = Nobody
  /\ life' = [life EXCEPT ![w] = "new"]

Recover ==
  /\ lapsed
  /\ owner' \in Eraser \cup {Nobody}
  /\ life' = Recovered

Take(o) ==
  /\ Available
  /\ owner' = o
  /\ life' = Recovered

GiveBack(o) ==
  /\ owner = o
  /\ owner' \in Eraser \cup {Nobody}
  /\ life' = life

EraseTurns ==
  /\ owner \in Eraser
  /\ owner' = owner
  /\ life' = [w \in Work |-> "new"]

Init ==
  /\ owner = Nobody
  /\ life = [w \in Work |-> "new"]

Next ==
  \/ \E w \in Work : Admit(w) \/ Settle(w) \/ Revoke(w)
  \/ \E o \in Other : Take(o) \/ GiveBack(o)
  \/ Recover
  \/ EraseTurns

Spec == Init /\ [][Next]_vars

-----------------------------------------------------------------------------

(* A turn owns the session exactly while it is its owner.                  *)
OwnerIsOwning == \A w \in Work : life[w] = "owning" <=> owner = w

=============================================================================
