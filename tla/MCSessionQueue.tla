--------------------------- MODULE MCSessionQueue ---------------------------
(* SessionQueue on small instances. The inputs are those of the callers:   *)
(* a user's message (with a client request) to the back or, sent now, to   *)
(* the front, a keyed notification that expires, and the requeue of a      *)
(* discarded steering batch, which restores an item id, goes to the front  *)
(* and names the claim it was made from.                                   *)
EXTENDS SessionQueue, TLC

CONSTANTS i1, i2, i3, c1, c2, q1, k1

Plain == [item |-> None, request |-> None, key |-> None, source |-> "api",
          expiry |-> "never", front |-> FALSE, member |-> None]

UserInput == {[Plain EXCEPT !.request = q1, !.front = f] : f \in BOOLEAN}

KeyedInput == {[Plain EXCEPT !.key = k1, !.source = "cron", !.expiry = e] :
                 e \in {"later", "past"}}

RequeueInput == {[Plain EXCEPT !.item = i, !.request = q1, !.front = TRUE,
                               !.member = [item |-> i, claim |-> c]] :
                   i \in Item, c \in Claim \cup {None}}

MCInput == UserInput \cup KeyedInput \cup RequeueInput

Symmetry == Permutations(Item) \cup Permutations(Claim)

=============================================================================
