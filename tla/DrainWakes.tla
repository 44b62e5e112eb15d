----------------------------- MODULE DrainWakes -----------------------------
(***************************************************************************)
(* What a dispatch call of queue.dispatcher.ts may rely on: it is answered *)
(* only after a drain pass has begun that was asked for after the call, so *)
(* a prompt that was in the queue when the call was made has been looked   *)
(* at by a pass that knew of it. The counters, promises and drains of the  *)
(* code implement this without ever recording who asked.                   *)
(***************************************************************************)
CONSTANT Caller

VARIABLE call   \* each caller: "idle", "asked" or "covered" by a pass

Init == call = [c \in Caller |-> "idle"]

Ask(c) ==
  /\ call[c] = "idle"
  /\ call' = [call EXCEPT ![c] = "asked"]

(* A call that finds no drain begins the pass that covers it and everyone  *)
(* who asked before.                                                       *)
AskAndBegin(c) ==
  /\ call[c] = "idle"
  /\ call' = [d \in Caller |->
                IF d = c \/ call[d] = "asked" THEN "covered" ELSE call[d]]

BeginPass ==
  call' = [c \in Caller |-> IF call[c] = "asked" THEN "covered" ELSE call[c]]

Answer(c) ==
  /\ call[c] = "covered"
  /\ call' = [call EXCEPT ![c] = "idle"]

(* The process ends with its callers. *)
Crash == call' = [c \in Caller |-> "idle"]

Next ==
  \/ \E c \in Caller : Ask(c) \/ AskAndBegin(c) \/ Answer(c)
  \/ BeginPass
  \/ Crash

Spec == Init /\ [][Next]_call

=============================================================================
