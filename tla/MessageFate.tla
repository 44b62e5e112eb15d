----------------------------- MODULE MessageFate -----------------------------
(***************************************************************************)
(* What becomes of a user's message that a running Turn has accepted: the  *)
(* contract that turn.controller.ts, user-input-control.ts and             *)
(* steering-requeue.ts keep together. The Turn holds it until the model    *)
(* has read it, it stands in the conversation, or the queue has it; it     *)
(* gets to one of these and never to a second one, unless a write to the   *)
(* conversation failed without telling whether it was made ("maybe"): then *)
(* a duplicate is preferred to a loss. TurnSteering implements this.       *)
(***************************************************************************)
CONSTANT User

VARIABLES
  place,     \* where each message is
  unstarted  \* the Turn failed before its host ran

vars == <<place, unstarted>>

Admitted(p, q) == p = {} /\ q = {"turn"}

Read(p, q) == p = {"turn"} /\ q = {"read"}

(* A row is written to the conversation, surely or perhaps; the Turn lets  *)
(* go of a message only when it knows.                                     *)
Falls(p, q) ==
  \/ p \in {{"turn"}, {"turn", "maybe"}} /\ q = {"turn", "fell"}
  \/ p = {"turn"} /\ q = {"turn", "maybe"}
  \/ p = {"turn", "fell"} /\ q = {"fell"}

(* The queue takes what is not known to stand in the conversation.         *)
Returns(p, q) ==
  /\ "turn" \in p
  /\ p \cap {"fell", "read"} = {}
  /\ q \in {p \cup {"queue"}, (p \ {"turn"}) \cup {"queue"}}

(* A Turn that fails before its host runs forgets what it has accepted.    *)
Forgotten(p, q) == unstarted' /\ p = {"turn"} /\ q = {}

Init ==
  /\ place = [m \in User |-> {}]
  /\ unstarted = FALSE

Next ==
  /\ unstarted => unstarted'
  /\ place' \in [User -> SUBSET {"turn", "read", "fell", "maybe", "queue"}]
  /\ \A m \in User :
       \/ place'[m] = place[m]
       \/ Admitted(place[m], place'[m])
       \/ Read(place[m], place'[m])
       \/ Falls(place[m], place'[m])
       \/ Returns(place[m], place'[m])
       \/ Forgotten(place[m], place'[m])

Spec == Init /\ [][Next]_vars

-----------------------------------------------------------------------------

(* What comes of it: a message is never both with the model, in the        *)
(* conversation and in the queue, or in two of them, and while its Turn    *)
(* holds it the model has not read it.                                     *)
OnePlace ==
  \A m \in User :
    /\ \A p, q \in place[m] \cap {"read", "fell", "queue"} : p = q
    /\ ~({"turn", "read"} \subseteq place[m])

(* And only a Turn that failed before its host ran loses one.              *)
KeptUnlessUnstarted ==
  [][\A m \in User : place[m] # {} /\ place'[m] = {} => unstarted']_vars

=============================================================================
