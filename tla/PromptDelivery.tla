--------------------------- MODULE PromptDelivery ---------------------------
(***************************************************************************)
(* What the delivery of queued prompts promises, whatever is in between:   *)
(* the contract that queue.dispatcher.ts, the queue repository and the     *)
(* Turn start fence keep together. A prompt waits, is offered to a Turn by *)
(* one dispatch at a time, may be taken back, leaves the queue when a Turn *)
(* takes it, and runs at most once; a prompt that left the queue is never  *)
(* offered again. QueueDispatch implements this module.                    *)
(***************************************************************************)
EXTENDS Naturals

CONSTANT Item

VARIABLES
  prompt,  \* where each prompt is
  runs     \* how often a host has run it

vars == <<prompt, runs>>

Status == {"none", "waiting", "offered", "taken", "run", "dropped"}

At(i, status) == prompt' = [prompt EXCEPT ![i] = status]

Init ==
  /\ prompt = [i \in Item |-> "none"]
  /\ runs = [i \in Item |-> 0]

Submit(i) ==
  /\ prompt[i] = "none"
  /\ At(i, "waiting")
  /\ UNCHANGED runs

Offer(i) ==
  /\ prompt[i] = "waiting"
  /\ \A j \in Item : prompt[j] # "offered"
  /\ At(i, "offered")
  /\ UNCHANGED runs

TakeBack(i) ==
  /\ prompt[i] = "offered"
  /\ At(i, "waiting")
  /\ UNCHANGED runs

(* The prompt leaves the queue for the Turn that was accepted for it; that *)
(* Turn waits behind its start fence, and there is one at a time.          *)
Take(i) ==
  /\ prompt[i] = "offered"
  /\ \A j \in Item : prompt[j] # "taken"
  /\ At(i, "taken")
  /\ UNCHANGED runs

Run(i) ==
  /\ prompt[i] = "taken"
  /\ runs[i] = 0
  /\ At(i, "run")
  /\ runs' = [runs EXCEPT ![i] = 1]

(* Cancelled, rejected, or taken by a Turn that ends before its host runs. *)
Drop(i) ==
  /\ prompt[i] \in {"waiting", "offered", "taken"}
  /\ At(i, "dropped")
  /\ UNCHANGED runs

(* The session is deleted. *)
DropAll ==
  /\ prompt' = [i \in Item |-> IF prompt[i] \in {"waiting", "offered", "taken"}
                               THEN "dropped" ELSE prompt[i]]
  /\ UNCHANGED runs

Next ==
  \/ \E i \in Item :
       Submit(i) \/ Offer(i) \/ TakeBack(i) \/ Take(i) \/ Run(i) \/ Drop(i)
  \/ DropAll

Spec == Init /\ [][Next]_vars

-----------------------------------------------------------------------------

(* What comes of it: a prompt has run exactly if it counts as run, once;   *)
(* one prompt at a time is offered, and one is with a Turn at the fence.   *)
OnceOnly ==
  /\ \A i \in Item : runs[i] = IF prompt[i] = "run" THEN 1 ELSE 0
  /\ \A i, j \in Item :
       prompt[i] = prompt[j] /\ prompt[i] \in {"offered", "taken"} => i = j

(* And a prompt that left the queue never comes back to it.                *)
NeverBack ==
  [][\A i \in Item :
       prompt[i] \in {"taken", "run", "dropped"}
         => prompt'[i] \notin {"none", "waiting", "offered"}]_vars

=============================================================================
