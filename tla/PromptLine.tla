----------------------------- MODULE PromptLine -----------------------------
(***************************************************************************)
(* The line of a session's prompts: the contract between the queue         *)
(* repository, queue/repo/drizzle.ts, and its dispatcher,                  *)
(* queue.dispatcher.ts. A new prompt joins at the end; one that is sent    *)
(* now or comes back from a Turn joins in front of all that wait, and one  *)
(* that replaces another takes its place. One at a time is held, for       *)
(* delivery; it keeps its place meanwhile and when it is let go, and       *)
(* nothing passes it. In any step prompts may leave.                       *)
(*                                                                         *)
(* SessionQueue implements this with row ids, claims and deletions, and    *)
(* QueueDispatch, which numbers its prompts in queue order, asks no more   *)
(* of the queue than this.                                                 *)
(***************************************************************************)
CONSTANT Item

VARIABLES
  here,   \* the prompts in the line
  held,   \* the one that is held for delivery
  ahead   \* pairs: the first is in front of the second

vars == <<here, held, ahead>>

Among(S) == ahead \cap (S \X S)

(* Prompts leave, and the one that is held is let go in its place, or not. *)
Leave ==
  /\ here' \subseteq here
  /\ held' \subseteq held \cap here'
  /\ ahead' = Among(here')

Hold(i) ==
  /\ held = {}
  /\ i \in here'
  /\ here' \subseteq here
  /\ held' = {i}
  /\ ahead' = Among(here')

Others(i) == here' \ {i}

(* Who joins is not held; one that was may join again instead.             *)
Joins(i) ==
  /\ i \in here'
  /\ Others(i) \subseteq here
  /\ held' = (held \cap here') \ {i}

Waits(i) == i \in here \ held

JoinEnd(i) ==
  /\ ~Waits(i)
  /\ Joins(i)
  /\ ahead' = Among(Others(i)) \cup (Others(i) \X {i})

TakePlace(i, k) ==
  /\ ~Waits(i)
  /\ Waits(k) /\ k \notin here'
  /\ Joins(i)
  /\ ahead' = Among(Others(i))
                \cup {p \in Others(i) \X {i} : <<p[1], k>> \in ahead}
                \cup {p \in {i} \X Others(i) : <<k, p[2]>> \in ahead}

(* In front of all that wait, and all of them behind the one that is held. *)
JoinFront(i) ==
  LET waiting == Others(i) \ held'
  IN /\ Joins(i)
     /\ ahead' = Among(waiting) \cup ({i} \X waiting) \cup (held' \X (here' \ held'))

IsOrder(R, S) ==
  /\ R \subseteq S \X S
  /\ \A i, j \in S : <<i, j>> \in R <=> i # j /\ <<j, i>> \notin R
  /\ \A i, j, k \in S : <<i, j>> \in R /\ <<j, k>> \in R => <<i, k>> \in R

(* The line is put in another order while nothing is held.                 *)
Shuffle ==
  /\ held = {}
  /\ here' \subseteq here
  /\ held' = {}
  /\ IsOrder(ahead', here')

Init == here = {} /\ held = {} /\ ahead = {}

Next ==
  \/ Leave
  \/ Shuffle
  \/ \E i \in Item : Hold(i) \/ JoinEnd(i) \/ JoinFront(i)
  \/ \E i, k \in Item : TakePlace(i, k)

Spec == Init /\ [][Next]_vars

=============================================================================
