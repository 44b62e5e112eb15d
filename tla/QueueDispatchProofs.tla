------------------------ MODULE QueueDispatchProofs ------------------------
(***************************************************************************)
(* Proofs about QueueDispatch, for any number of prompts and of callers.   *)
(*                                                                         *)
(* The inductive invariant ties together what the code keeps apart: a      *)
(* flow's place, the claim in its row, the receipt of that claim, the Turn *)
(* behind its fence and the waiter. The decisive parts are that there is   *)
(* one claimed row, that the Turn of a fence belongs to a flow that is     *)
(* delivering it, and that a row with no receipt whose waiter was told of  *)
(* its abort is still marked as cancelled, or the controller is closed.    *)
(***************************************************************************)
EXTENDS QueueDispatch, TLAPS

Working  == {"got", "classify", "prepare", "admit", "deliver", "acked", "write"}
Unsent   == {"got", "classify", "prepare", "admit"}
Resting  == {"idle", "recover", "claim", "ending"}

FlowInv ==
  \A f \in Flow :
    /\ flow[f].pc \in Working => flow[f].item \in Item
    /\ flow[f].pc \in Resting => flow[f].item = None
    /\ flow[f].pc = "write" => flow[f].out \in Outcome
    /\ flow[f].pc \in Unsent /\ row[flow[f].item] = f => ~accepted[flow[f].item]
    /\ flow[f].pc = "acked" => row[flow[f].item] = "acked"

OneClaim == \A i, j \in Item : row[i] \in Claims /\ row[j] \in Claims => i = j

RowInv ==
  \A i \in Item :
    /\ accepted[i] => row[i] \in Claims /\ handle[i] # "pending"
    /\ started[i] # 0 => row[i] = "acked"
    /\ row[i] = "absent" => told[i] = "no"

TurnInv ==
  /\ turn.st = "none" => turn = NoTurn
  /\ turn.st \in {"fenced", "doomed"} =>
       \E f \in Flow : /\ turn = TurnOf(f, turn.st)
                       /\ flow[f].pc \in {"deliver", "acked"}
                       /\ started[flow[f].item] = 0
  /\ turn.item \in Item => /\ handle[turn.item] # "pending"
                           /\ row[turn.item] # "absent"

CancelInv ==
  \A i \in Item :
    /\ cancel[i] => handle[i] = "pending"
    /\ handle[i] = "pending" => ~closed
    /\ told[i] = "yes" /\ row[i] \in Present /\ ~accepted[i] => cancel[i] \/ closed
    /\ told[i] = "yes" => turn.item # i \/ turn.st # "fenced"

DispInv ==
  /\ DispTypeOK /\ FlowInv /\ OneClaim /\ RowInv /\ TurnInv /\ CancelInv
  /\ CancelledNeverStarts /\ NoLeakedClaim /\ NoForgottenWaiter

-----------------------------------------------------------------------------
(* Types *)

PCs == {"idle", "recover", "claim", "got", "classify", "prepare", "admit",
        "deliver", "acked", "write", "ending"}

FlowType == [Flow -> [pc : PCs, item : Item \cup {None}, out : Outcome \cup {None}]]

LEMMA FlowTyped == DispTypeOK <=> /\ DispTypeOK
                                  /\ flow \in FlowType
BY DEF DispTypeOK, FlowType, PCs

(* A flow that moves on, lets go of its item, decides or ends is of its    *)
(* type.                                                                   *)
LEMMA AtType ==
  ASSUME flow \in FlowType, NEW f \in Flow, NEW p \in PCs
  PROVE  At(f, p) \in FlowType
BY DEF FlowType, At

LEMMA AwayType ==
  ASSUME flow \in FlowType, NEW f \in Flow, NEW p \in PCs
  PROVE  Away(f, p) \in FlowType
BY DEF FlowType, Away

LEMMA IdleType ==
  ASSUME flow \in FlowType, NEW f \in Flow
  PROVE  [flow EXCEPT ![f] = Idle] \in FlowType
BY DEF FlowType, Idle, PCs

LEMMA DecideType ==
  ASSUME flow \in FlowType, NEW f \in Flow, NEW op \in {"release", "remove"},
         NEW again \in BOOLEAN, NEW throws \in BOOLEAN, NEW yields \in BOOLEAN,
         Decide(f, op, again, throws, yields)
  PROVE  flow' \in FlowType
BY DEF FlowType, Decide, PCs, Outcome

(* What a step does to the flows: f goes on with its item, or f is through *)
(* with it and rests.                                                      *)
Others(f) == \A g \in Flow : g # f => flow'[g] = flow[g]

GoesOn(f, to) ==
  /\ flow' \in FlowType
  /\ flow'[f].pc \in to
  /\ flow'[f].item = flow[f].item
  /\ flow'[f].pc = "write" => flow'[f].out \in Outcome
  /\ Others(f)
  /\ UNCHANGED <<yielded, uncovered>>

Rests(f) ==
  /\ flow' \in FlowType
  /\ flow'[f].pc \in Resting
  /\ flow'[f].item = None
  /\ Others(f)
  /\ yielded' \subseteq Item
  /\ uncovered' \subseteq Caller

LEMMA AtGoesOn ==
  ASSUME flow \in FlowType, NEW f \in Flow, NEW p \in PCs \ {"write"},
         flow' = At(f, p), UNCHANGED <<yielded, uncovered>>
  PROVE  GoesOn(f, {p})
BY AtType DEF GoesOn, Others, At, FlowType

LEMMA DecideGoesOn ==
  ASSUME flow \in FlowType, NEW f \in Flow, NEW op \in {"release", "remove"},
         NEW again \in BOOLEAN, NEW throws \in BOOLEAN, NEW yields \in BOOLEAN,
         Decide(f, op, again, throws, yields)
  PROVE  GoesOn(f, {"write"})
<1> flow' = [flow EXCEPT ![f] =
               [pc |-> "write", item |-> flow[f].item,
                out |-> [op |-> op, again |-> again, throws |-> throws, yields |-> yields]]]
  BY DEF Decide
<1>1. flow' \in FlowType /\ Others(f)
  BY DecideType DEF Others, FlowType
<1>2. flow'[f].pc = "write" /\ flow'[f].item = flow[f].item /\ flow'[f].out \in Outcome
  BY DEF FlowType, Outcome
<1> QED
  BY <1>1, <1>2 DEF GoesOn, Decide

LEMMA ThrownGoesOn ==
  ASSUME flow \in FlowType, NEW f \in Flow, DecideThrown(f)
  PROVE  GoesOn(f, {"write"})
BY DecideGoesOn DEF DecideThrown, DecideCancel

LEMMA RejectedGoesOn ==
  ASSUME flow \in FlowType, NEW f \in Flow, Rejected(f)
  PROVE  GoesOn(f, {"write"})
<1>1. CASE DecideThrown(f)
  BY <1>1, ThrownGoesOn
<1>2. CASE DecideCancel(f)
  BY <1>2, DecideGoesOn DEF DecideCancel
<1>3. CASE DecideDefer(f)
  BY <1>3, DecideGoesOn DEF DecideDefer
<1>4. CASE Decide(f, "release", FALSE, FALSE, FALSE)
  BY <1>4, DecideGoesOn
<1>5. CASE \E again \in BOOLEAN : Decide(f, "remove", again, FALSE, FALSE)
  BY <1>5, DecideGoesOn
<1> QED
  BY <1>1, <1>2, <1>3, <1>4, <1>5 DEF Rejected

LEMMA AwayRests ==
  ASSUME flow \in FlowType, NEW f \in Flow, NEW p \in Resting, flow' = Away(f, p),
         yielded' \subseteq Item, uncovered' \subseteq Caller
  PROVE  Rests(f)
<1>1. p \in PCs
  BY DEF Resting, PCs
<1> QED
  BY <1>1, AwayType DEF Rests, Others, Away, FlowType

LEMMA IdleRests ==
  ASSUME flow \in FlowType, NEW f \in Flow, flow' = [flow EXCEPT ![f] = Idle],
         yielded' \subseteq Item, uncovered' \subseteq Caller
  PROVE  Rests(f)
BY IdleType DEF Rests, Others, Idle, FlowType, Resting

LEMMA PassRests ==
  ASSUME flow \in FlowType, NEW asked, NEW skip \in SUBSET Item, Pass(asked, skip)
  PROVE  Rests("drain")
BY AwayRests DEF Pass, Resting, Flow

LEMMA ThrowRests ==
  ASSUME flow \in FlowType, yielded \subseteq Item, uncovered \subseteq Caller,
         NEW f \in Flow, Throw(f)
  PROVE  Rests(f)
BY AwayRests, IdleRests DEF Throw, Resting, Flow

LEMMA ReturnRests ==
  ASSUME flow \in FlowType, yielded \subseteq Item, uncovered \subseteq Caller,
         NEW f \in Flow, NEW again \in BOOLEAN, NEW skip \in SUBSET Item,
         Return(f, again, skip)
  PROVE  Rests(f)
<1>1. CASE f = "drain" /\ Pass(uncovered, skip)
  BY <1>1, PassRests
<1>2. CASE f = "drain" /\ flow' = Away("drain", "ending") /\ UNCHANGED <<yielded, uncovered>>
  BY <1>2, AwayRests DEF Resting
<1>3. CASE flow' = [flow EXCEPT ![f] = Idle] /\ UNCHANGED <<yielded, uncovered>>
  BY <1>3, IdleRests
<1> QED
  BY <1>1, <1>2, <1>3 DEF Return, EndPass


(* Rows that were claimed go back, and nothing else changes. *)
LEMMA ReleaseFacts ==
  ASSUME DispTypeOK, NEW S \in SUBSET Item, Release(S)
  PROVE  /\ row' \in [Item -> {"absent", "queued", "drain", "continued", "dead", "acked", "gone"}]
         /\ accepted' \in [Item -> BOOLEAN]
         /\ told' \in [Item -> {"no", "yes", "undone"}]
         /\ \A i \in S : row'[i] = "queued" /\ ~accepted'[i]
         /\ \A i \in Item \ S : row'[i] = row[i] /\ accepted'[i] = accepted[i]
         /\ UNCHANGED <<paused, handle, cancel>>
BY DEF Release, DispTypeOK

LEMMA EnqueueInv ==
  ASSUME DispatchAssumption, DispInv, NEW i \in Item, Enqueue(i)
  PROVE  DispInv'
<1>1. DispTypeOK'
  BY DEF DispInv, DispTypeOK, queue, memory, waiters, stops, Enqueue
<1>2. FlowInv'
  BY DEF DispInv, FlowInv, Claims, Present, Working, Unsent, Resting, Flow, queue, memory,
     waiters, stops, Enqueue
<1>3. OneClaim'
  BY DEF DispInv, OneClaim, Claims, Present, Working, Unsent, Resting, Flow, queue, memory,
     waiters, stops, Enqueue
<1>4. RowInv'
  BY DEF DispInv, RowInv, Claims, Present, Working, Unsent, Resting, Flow, queue, memory,
     waiters, stops, Enqueue
<1>5. TurnInv'
  BY DEF DispInv, FlowInv, RowInv, TurnInv, DispatchAssumption, Claims, Present, Working,
     Unsent, Resting, PCs, Flow, queue, memory, waiters, stops, NoTurn, TurnOf, Outcome, Enqueue
<1>6. CancelInv'
  BY DEF DispInv, DispTypeOK, FlowInv, OneClaim, RowInv, TurnInv, CancelInv,
     CancelledNeverStarts, NoLeakedClaim, NoForgottenWaiter, DispatchAssumption, Claims,
     Present, Working, Unsent, Resting, PCs, Flow, queue, memory, waiters, stops, NoTurn,
     TurnOf, Outcome, Enqueue, Open
<1>7. CancelledNeverStarts'
  BY DEF DispInv, CancelledNeverStarts, queue, memory, waiters, stops, Enqueue
<1>8. NoLeakedClaim'
  BY DEF DispInv, FlowInv, RowInv, NoLeakedClaim, DispatchAssumption, Claims, Present, Working,
     Unsent, Resting, PCs, Flow, queue, memory, waiters, stops, NoTurn, TurnOf, Outcome, Enqueue
<1>9. NoForgottenWaiter'
  BY DEF DispInv, DispTypeOK, FlowInv, OneClaim, RowInv, TurnInv, CancelInv,
     CancelledNeverStarts, NoLeakedClaim, NoForgottenWaiter, DispatchAssumption, Claims,
     Present, Working, Unsent, Resting, PCs, Flow, queue, memory, waiters, stops, NoTurn,
     TurnOf, Outcome, Enqueue
<1> QED
  BY <1>1, <1>2, <1>3, <1>4, <1>5, <1>6, <1>7, <1>8, <1>9 DEF DispInv

LEMMA WithdrawInv ==
  ASSUME DispatchAssumption, DispInv, NEW i \in Item, Withdraw(i)
  PROVE  DispInv'
<1>1. DispTypeOK'
  BY DEF DispInv, DispTypeOK, queue, memory, waiters, stops, Withdraw, Remove, Settle
<1>2. FlowInv'
  BY DEF DispInv, FlowInv, Claims, Present, Working, Unsent, Resting, Flow, queue, memory,
     waiters, stops, Withdraw, Remove
<1>3. OneClaim'
  BY DEF DispInv, OneClaim, Claims, Present, Working, Unsent, Resting, Flow, queue, memory,
     waiters, stops, Withdraw, Remove
<1>4. RowInv'
  BY DEF DispInv, RowInv, queue, memory, waiters, stops, Withdraw, Remove, Settle
<1>5. TurnInv'
  BY DEF DispInv, FlowInv, RowInv, TurnInv, DispatchAssumption, Claims, Present, Working,
     Unsent, Resting, PCs, Flow, queue, memory, waiters, stops, NoTurn, TurnOf, Outcome,
     Withdraw, Remove, Settle
<1>6. CancelInv'
  BY DEF DispInv, CancelInv, Claims, Present, Working, Unsent, Resting, Flow, queue, memory,
     waiters, stops, Withdraw, Remove, Settle
<1>7. CancelledNeverStarts'
  BY DEF DispInv, CancelledNeverStarts, queue, memory, waiters, stops, Withdraw, Settle
<1>8. NoLeakedClaim'
  BY DEF DispInv, NoLeakedClaim, Claims, Present, Working, Unsent, Resting, Flow, queue, memory,
     waiters, stops, Withdraw, Remove
<1>9. NoForgottenWaiter'
  BY DEF DispInv, NoForgottenWaiter, queue, memory, waiters, stops, Withdraw, Remove, Settle
<1> QED
  BY <1>1, <1>2, <1>3, <1>4, <1>5, <1>6, <1>7, <1>8, <1>9 DEF DispInv

LEMMA UnpauseInv ==
  ASSUME DispatchAssumption, DispInv, Unpause
  PROVE  DispInv'
<1>1. DispTypeOK'
  BY DEF DispInv, DispTypeOK, queue, memory, waiters, stops, Unpause
<1>2. FlowInv'
  BY DEF DispInv, FlowInv, queue, memory, Unpause
<1>3. OneClaim'
  BY DEF DispInv, OneClaim, queue, memory, Unpause
<1>4. RowInv'
  BY DEF DispInv, RowInv, queue, memory, waiters, Unpause
<1>5. TurnInv'
  BY DEF DispInv, FlowInv, RowInv, TurnInv, DispatchAssumption, Claims, Present, Working,
     Unsent, Resting, PCs, Flow, queue, memory, waiters, stops, NoTurn, TurnOf, Unpause
<1>6. CancelInv'
  BY DEF DispInv, CancelInv, queue, memory, waiters, stops, Unpause
<1>7. CancelledNeverStarts'
  BY DEF DispInv, CancelledNeverStarts, queue, memory, waiters, Unpause
<1>8. NoLeakedClaim'
  BY DEF DispInv, NoLeakedClaim, queue, memory, Unpause
<1>9. NoForgottenWaiter'
  BY DEF DispInv, NoForgottenWaiter, queue, memory, waiters, Unpause
<1> QED
  BY <1>1, <1>2, <1>3, <1>4, <1>5, <1>6, <1>7, <1>8, <1>9 DEF DispInv

LEMMA RequestCancelInv ==
  ASSUME DispatchAssumption, DispInv, NEW i \in Item, RequestCancel(i)
  PROVE  DispInv'
<1>1. DispTypeOK'
  BY DEF DispInv, DispTypeOK, queue, memory, stops, RequestCancel
<1>2. FlowInv'
  BY DEF DispInv, FlowInv, queue, memory, RequestCancel
<1>3. OneClaim'
  BY DEF DispInv, OneClaim, queue, memory, RequestCancel
<1>4. RowInv'
  BY DEF DispInv, RowInv, queue, memory, RequestCancel
<1>5. TurnInv'
  BY DEF DispInv, FlowInv, RowInv, TurnInv, DispatchAssumption, Claims, Present, Working,
     Unsent, Resting, PCs, Flow, queue, memory, waiters, stops, NoTurn, TurnOf, RequestCancel
<1>6. CancelInv'
  BY DEF DispInv, CancelInv, queue, memory, stops, RequestCancel
<1>7. CancelledNeverStarts'
  BY DEF DispInv, CancelledNeverStarts, queue, memory, RequestCancel
<1>8. NoLeakedClaim'
  BY DEF DispInv, NoLeakedClaim, queue, memory, RequestCancel
<1>9. NoForgottenWaiter'
  BY DEF DispInv, NoForgottenWaiter, queue, memory, RequestCancel
<1> QED
  BY <1>1, <1>2, <1>3, <1>4, <1>5, <1>6, <1>7, <1>8, <1>9 DEF DispInv

LEMMA AnswerCancelInv ==
  ASSUME DispatchAssumption, DispInv, NEW i \in Item, AnswerCancel(i)
  PROVE  DispInv'
<1>1. DispTypeOK'
  BY DEF DispInv, DispTypeOK, queue, memory, stops, AnswerCancel
<1>2. FlowInv'
  BY DEF DispInv, FlowInv, queue, memory, AnswerCancel
<1>3. OneClaim'
  BY DEF DispInv, OneClaim, queue, memory, AnswerCancel
<1>4. RowInv'
  BY DEF DispInv, DispTypeOK, FlowInv, OneClaim, RowInv, TurnInv, CancelInv,
     CancelledNeverStarts, NoLeakedClaim, NoForgottenWaiter, DispatchAssumption, Claims,
     Present, Working, Unsent, Resting, PCs, Flow, queue, memory, waiters, stops, NoTurn,
     AnswerCancel
<1>5. TurnInv'
  BY DEF DispInv, FlowInv, RowInv, TurnInv, DispatchAssumption, Claims, Present, Working,
     Unsent, Resting, PCs, Flow, queue, memory, waiters, stops, NoTurn, TurnOf, AnswerCancel
<1>6. CancelInv'
  BY DEF DispInv, DispTypeOK, FlowInv, OneClaim, RowInv, TurnInv, CancelInv,
     CancelledNeverStarts, NoLeakedClaim, NoForgottenWaiter, DispatchAssumption, Claims,
     Present, Working, Unsent, Resting, PCs, Flow, queue, memory, waiters, stops, NoTurn,
     AnswerCancel
<1>7. CancelledNeverStarts'
  BY DEF DispInv, DispTypeOK, FlowInv, OneClaim, RowInv, TurnInv, CancelInv,
     CancelledNeverStarts, NoLeakedClaim, NoForgottenWaiter, DispatchAssumption, Claims,
     Present, Working, Unsent, Resting, PCs, Flow, queue, memory, waiters, stops, NoTurn,
     AnswerCancel
<1>8. NoLeakedClaim'
  BY DEF DispInv, NoLeakedClaim, queue, memory, AnswerCancel
<1>9. NoForgottenWaiter'
  BY DEF DispInv, NoForgottenWaiter, queue, memory, AnswerCancel
<1> QED
  BY <1>1, <1>2, <1>3, <1>4, <1>5, <1>6, <1>7, <1>8, <1>9 DEF DispInv

LEMMA DirectTurnInv ==
  ASSUME DispatchAssumption, DispInv, DirectTurn
  PROVE  DispInv'
<1>1. DispTypeOK'
  BY DEF DispInv, DispTypeOK, queue, memory, waiters, stops, DirectTurn
<1>2. FlowInv'
  BY DEF DispInv, FlowInv, queue, memory, DirectTurn
<1>3. OneClaim'
  BY DEF DispInv, OneClaim, queue, memory, DirectTurn
<1>4. RowInv'
  BY DEF DispInv, RowInv, queue, memory, waiters, DirectTurn
<1>5. TurnInv'
  BY DEF DispInv, TurnInv, queue, memory, DirectTurn
<1>6. CancelInv'
  BY DEF DispInv, CancelInv, queue, memory, waiters, stops, DirectTurn
<1>7. CancelledNeverStarts'
  BY DEF DispInv, CancelledNeverStarts, queue, memory, waiters, DirectTurn
<1>8. NoLeakedClaim'
  BY DEF DispInv, NoLeakedClaim, queue, memory, DirectTurn
<1>9. NoForgottenWaiter'
  BY DEF DispInv, FlowInv, RowInv, NoForgottenWaiter, DispatchAssumption, Claims, Present,
     Working, Unsent, Resting, PCs, Flow, queue, memory, waiters, stops, NoTurn, DirectTurn
<1> QED
  BY <1>1, <1>2, <1>3, <1>4, <1>5, <1>6, <1>7, <1>8, <1>9 DEF DispInv

LEMMA AbortTurnInv ==
  ASSUME DispatchAssumption, DispInv, AbortTurn
  PROVE  DispInv'
<1>1. DispTypeOK'
  BY DEF DispInv, DispTypeOK, queue, memory, waiters, stops, AbortTurn
<1>2. FlowInv'
  BY DEF DispInv, FlowInv, queue, memory, AbortTurn
<1>3. OneClaim'
  BY DEF DispInv, OneClaim, queue, memory, AbortTurn
<1>4. RowInv'
  BY DEF DispInv, RowInv, queue, memory, waiters, AbortTurn
<1>5. TurnInv'
  BY DEF DispInv, FlowInv, RowInv, TurnInv, DispatchAssumption, Claims, Present, Working,
     Unsent, Resting, PCs, Flow, queue, memory, waiters, stops, NoTurn, TurnOf, AbortTurn
<1>6. CancelInv'
  BY DEF DispInv, CancelInv, queue, memory, waiters, stops, AbortTurn
<1>7. CancelledNeverStarts'
  BY DEF DispInv, CancelledNeverStarts, queue, memory, waiters, AbortTurn
<1>8. NoLeakedClaim'
  BY DEF DispInv, NoLeakedClaim, queue, memory, AbortTurn
<1>9. NoForgottenWaiter'
  BY DEF DispInv, NoForgottenWaiter, queue, memory, waiters, AbortTurn
<1> QED
  BY <1>1, <1>2, <1>3, <1>4, <1>5, <1>6, <1>7, <1>8, <1>9 DEF DispInv

LEMMA TurnEndsInv ==
  ASSUME DispatchAssumption, DispInv, TurnEnds
  PROVE  DispInv'
<1>1. DispTypeOK'
  BY DEF DispInv, DispTypeOK, FlowInv, RowInv, DispatchAssumption, Claims, Present, Working,
     Unsent, Resting, PCs, Flow, queue, memory, waiters, stops, NoTurn, TurnOf, TurnEnds
<1>2. FlowInv'
  BY DEF DispInv, FlowInv, queue, memory, waiters, TurnEnds
<1>3. OneClaim'
  BY DEF DispInv, OneClaim, queue, memory, waiters, TurnEnds
<1>4. RowInv'
  BY DEF DispInv, RowInv, queue, memory, waiters, TurnEnds
<1>5. TurnInv'
  BY DEF DispInv, FlowInv, RowInv, TurnInv, DispatchAssumption, Claims, Present, Working,
     Unsent, Resting, PCs, Flow, queue, memory, waiters, stops, NoTurn, TurnOf, TurnEnds
<1>6. CancelInv'
  BY DEF DispInv, FlowInv, RowInv, CancelInv, DispatchAssumption, Claims, Present, Working,
     Unsent, Resting, PCs, Flow, queue, memory, waiters, stops, NoTurn, TurnOf, TurnEnds
<1>7. CancelledNeverStarts'
  BY DEF DispInv, CancelledNeverStarts, queue, memory, waiters, TurnEnds
<1>8. NoLeakedClaim'
  BY DEF DispInv, NoLeakedClaim, queue, memory, waiters, TurnEnds
<1>9. NoForgottenWaiter'
  BY DEF DispInv, NoForgottenWaiter, queue, memory, waiters, TurnEnds
<1> QED
  BY <1>1, <1>2, <1>3, <1>4, <1>5, <1>6, <1>7, <1>8, <1>9 DEF DispInv

LEMMA BeginDeletionInv ==
  ASSUME DispatchAssumption, DispInv, BeginDeletion
  PROVE  DispInv'
<1>1. DispTypeOK'
  BY DEF DispInv, DispTypeOK, queue, memory, waiters, BeginDeletion
<1>2. FlowInv'
  BY DEF DispInv, FlowInv, queue, memory, BeginDeletion
<1>3. OneClaim'
  BY DEF DispInv, OneClaim, queue, memory, BeginDeletion
<1>4. RowInv'
  BY DEF DispInv, RowInv, queue, memory, waiters, BeginDeletion
<1>5. TurnInv'
  BY DEF DispInv, FlowInv, RowInv, TurnInv, DispatchAssumption, Claims, Present, Working,
     Unsent, Resting, PCs, Flow, queue, memory, waiters, stops, NoTurn, TurnOf, BeginDeletion
<1>6. CancelInv'
  BY DEF DispInv, CancelInv, queue, memory, waiters, BeginDeletion
<1>7. CancelledNeverStarts'
  BY DEF DispInv, CancelledNeverStarts, queue, memory, waiters, BeginDeletion
<1>8. NoLeakedClaim'
  BY DEF DispInv, NoLeakedClaim, queue, memory, BeginDeletion
<1>9. NoForgottenWaiter'
  BY DEF DispInv, NoForgottenWaiter, queue, memory, waiters, BeginDeletion
<1> QED
  BY <1>1, <1>2, <1>3, <1>4, <1>5, <1>6, <1>7, <1>8, <1>9 DEF DispInv

LEMMA EraseInv ==
  ASSUME DispatchAssumption, DispInv, Erase
  PROVE  DispInv'
<1>1. DispTypeOK'
  BY DEF DispInv, DispTypeOK, queue, memory, waiters, stops, Erase, Remove, Settle
<1>2. FlowInv'
  BY DEF DispInv, FlowInv, Claims, Present, Working, Unsent, Resting, Flow, queue, memory,
     waiters, stops, Erase, Remove, Rows
<1>3. OneClaim'
  BY DEF DispInv, OneClaim, Claims, Present, Working, Unsent, Resting, Flow, queue, memory,
     waiters, stops, Erase, Remove
<1>4. RowInv'
  BY DEF DispInv, RowInv, Claims, Present, Working, Unsent, Resting, Flow, queue, memory,
     waiters, stops, Erase, Remove, Settle, Rows
<1>5. TurnInv'
  BY DEF DispInv, FlowInv, RowInv, TurnInv, DispatchAssumption, Claims, Present, Working,
     Unsent, Resting, PCs, Flow, queue, memory, waiters, stops, NoTurn, TurnOf, Outcome, Erase
<1>6. CancelInv'
  BY DEF DispInv, CancelInv, Claims, Present, Working, Unsent, Resting, Flow, queue, memory,
     waiters, stops, Erase, Remove, Settle
<1>7. CancelledNeverStarts'
  BY DEF DispInv, CancelledNeverStarts, queue, memory, waiters, stops, Erase, Settle
<1>8. NoLeakedClaim'
  BY DEF DispInv, NoLeakedClaim, Claims, Present, Working, Unsent, Resting, Flow, queue, memory,
     waiters, stops, Erase, Remove
<1>9. NoForgottenWaiter'
  BY DEF DispInv, NoForgottenWaiter, queue, memory, waiters, stops, Erase, Remove, Settle
<1> QED
  BY <1>1, <1>2, <1>3, <1>4, <1>5, <1>6, <1>7, <1>8, <1>9 DEF DispInv

LEMMA CloseInv ==
  ASSUME DispatchAssumption, DispInv, Close
  PROVE  DispInv'
<1>1. DispTypeOK'
  BY DEF DispInv, DispTypeOK, queue, memory, waiters, Close, Settle
<1>2. FlowInv'
  BY DEF DispInv, FlowInv, queue, memory, waiters, Close
<1>3. OneClaim'
  BY DEF DispInv, OneClaim, queue, memory, waiters, Close
<1>4. RowInv'
  BY DEF DispInv, RowInv, queue, memory, waiters, Close, Settle
<1>5. TurnInv'
  BY DEF DispInv, FlowInv, RowInv, TurnInv, DispatchAssumption, Claims, Present, Working,
     Unsent, Resting, PCs, Flow, queue, memory, waiters, stops, NoTurn, TurnOf, Close, Settle
<1>6. CancelInv'
  BY DEF DispInv, DispTypeOK, FlowInv, OneClaim, RowInv, TurnInv, CancelInv,
     CancelledNeverStarts, NoLeakedClaim, NoForgottenWaiter, DispatchAssumption, Claims,
     Present, Working, Unsent, Resting, PCs, Flow, queue, memory, waiters, stops, NoTurn,
     TurnOf, Close, Settle
<1>7. CancelledNeverStarts'
  BY DEF DispInv, CancelledNeverStarts, queue, memory, waiters, Close, Settle
<1>8. NoLeakedClaim'
  BY DEF DispInv, NoLeakedClaim, queue, memory, waiters, Close
<1>9. NoForgottenWaiter'
  BY DEF DispInv, NoForgottenWaiter, queue, memory, waiters, Close, Settle
<1> QED
  BY <1>1, <1>2, <1>3, <1>4, <1>5, <1>6, <1>7, <1>8, <1>9 DEF DispInv

LEMMA CrashInv ==
  ASSUME DispatchAssumption, DispInv, Crash
  PROVE  DispInv'
<1>1. DispTypeOK'
  BY DEF DispInv, DispTypeOK, FlowInv, RowInv, DispatchAssumption, Claims, Present, Working,
     Unsent, Resting, PCs, Flow, queue, memory, waiters, stops, NoTurn, TurnOf, Crash, Idle
<1>2. FlowInv'
  BY DEF DispInv, FlowInv, Claims, Present, Working, Unsent, Resting, Flow, queue, memory,
     waiters, Crash, Idle
<1>3. OneClaim'
  BY DEF DispInv, OneClaim, Claims, Present, Working, Unsent, Resting, Flow, queue, memory,
     waiters, Crash
<1>4. RowInv'
  BY DEF DispInv, RowInv, Claims, Present, Working, Unsent, Resting, Flow, queue, memory,
     waiters, Crash
<1>5. TurnInv'
  BY DEF DispInv, FlowInv, RowInv, TurnInv, DispatchAssumption, Claims, Present, Working,
     Unsent, Resting, PCs, Flow, queue, memory, waiters, stops, NoTurn, TurnOf, Crash
<1>6. CancelInv'
  BY DEF DispInv, CancelInv, queue, memory, waiters, Crash
<1>7. CancelledNeverStarts'
  BY DEF DispInv, CancelledNeverStarts, queue, memory, waiters, Crash
<1>8. NoLeakedClaim'
  BY DEF DispInv, NoLeakedClaim, Claims, Present, Working, Unsent, Resting, Flow, queue, memory,
     waiters, Crash
<1>9. NoForgottenWaiter'
  BY DEF DispInv, NoForgottenWaiter, queue, memory, waiters, Crash
<1> QED
  BY <1>1, <1>2, <1>3, <1>4, <1>5, <1>6, <1>7, <1>8, <1>9 DEF DispInv

LEMMA FinishInv ==
  ASSUME DispatchAssumption, DispInv, Finish
  PROVE  DispInv'
<1>1. DispTypeOK'
  BY DEF DispInv, DispTypeOK, queue, memory, waiters, stops, Finish, Idle
<1>2. FlowInv'
  BY DEF DispInv, FlowInv, Claims, Present, Working, Unsent, Resting, Flow, queue, memory,
     waiters, Finish, Idle
<1>3. OneClaim'
  BY DEF DispInv, OneClaim, queue, memory, waiters, Finish
<1>4. RowInv'
  BY DEF DispInv, RowInv, queue, memory, waiters, Finish
<1>5. TurnInv'
  BY DEF DispInv, FlowInv, RowInv, TurnInv, DispatchAssumption, Claims, Present, Working,
     Unsent, Resting, PCs, Flow, queue, memory, waiters, stops, NoTurn, TurnOf, Finish
<1>6. CancelInv'
  BY DEF DispInv, CancelInv, queue, memory, waiters, stops, Finish
<1>7. CancelledNeverStarts'
  BY DEF DispInv, CancelledNeverStarts, queue, memory, waiters, Finish
<1>8. NoLeakedClaim'
  BY DEF DispInv, FlowInv, RowInv, NoLeakedClaim, DispatchAssumption, Claims, Present, Working,
     Unsent, Resting, PCs, Flow, queue, memory, waiters, stops, NoTurn, TurnOf, Finish
<1>9. NoForgottenWaiter'
  BY DEF DispInv, NoForgottenWaiter, queue, memory, waiters, Finish
<1> QED
  BY <1>1, <1>2, <1>3, <1>4, <1>5, <1>6, <1>7, <1>8, <1>9 DEF DispInv

LEMMA ContinuePausedInv ==
  ASSUME DispatchAssumption, DispInv, ContinuePaused
  PROVE  DispInv'
<1>1. DispTypeOK'
  BY DEF DispInv, DispTypeOK, queue, memory, waiters, stops, ContinuePaused, At
<1>2. FlowInv'
  BY DEF DispInv, FlowInv, Claims, Present, Working, Unsent, Resting, Flow, queue, memory,
     waiters, ContinuePaused, At
<1>3. OneClaim'
  BY DEF DispInv, OneClaim, queue, memory, waiters, ContinuePaused
<1>4. RowInv'
  BY DEF DispInv, RowInv, queue, memory, waiters, ContinuePaused
<1>5. TurnInv'
  BY DEF DispInv, FlowInv, RowInv, TurnInv, DispatchAssumption, Claims, Present, Working,
     Unsent, Resting, PCs, Flow, queue, memory, waiters, stops, NoTurn, TurnOf, ContinuePaused,
     At
<1>6. CancelInv'
  BY DEF DispInv, CancelInv, queue, memory, waiters, stops, ContinuePaused
<1>7. CancelledNeverStarts'
  BY DEF DispInv, CancelledNeverStarts, queue, memory, waiters, ContinuePaused
<1>8. NoLeakedClaim'
  BY DEF DispInv, NoLeakedClaim, queue, memory, waiters, ContinuePaused, At
<1>9. NoForgottenWaiter'
  BY DEF DispInv, NoForgottenWaiter, queue, memory, waiters, ContinuePaused
<1> QED
  BY <1>1, <1>2, <1>3, <1>4, <1>5, <1>6, <1>7, <1>8, <1>9 DEF DispInv

(* A flow that has not sent its prompt yet goes on with it. *)
LEMMA OnwardInv ==
  ASSUME DispatchAssumption, DispInv, NEW f \in Flow,
         flow[f].pc \in Unsent, GoesOn(f, Unsent \cup {"write"}),
         caller' = caller, UNCHANGED <<queue, turn, started, recover, stops, waiters, lost>>
  PROVE  DispInv'
<1>1. DispTypeOK'
  BY DEF DispInv, DispTypeOK, Claims, Present, Working, Unsent, Resting, Flow, queue, memory,
     waiters, stops, GoesOn, Others, FlowType
<1>2. FlowInv'
  BY DEF DispInv, FlowInv, Claims, Present, Working, Unsent, Resting, Flow, queue, memory,
     waiters, stops, GoesOn, Others
<1>3. OneClaim'
  BY DEF DispInv, OneClaim, queue, memory, waiters, stops
<1>4. RowInv'
  BY DEF DispInv, RowInv, queue, memory, waiters, stops
<1>5. TurnInv'
  BY DEF DispInv, FlowInv, RowInv, TurnInv, DispatchAssumption, Claims, Present, Working,
     Unsent, Resting, PCs, Flow, queue, memory, waiters, stops, NoTurn, TurnOf, Outcome, GoesOn,
     Others
<1>6. CancelInv'
  BY DEF DispInv, CancelInv, queue, memory, waiters, stops
<1>7. CancelledNeverStarts'
  BY DEF DispInv, CancelledNeverStarts, queue, memory, waiters, stops
<1>8. NoLeakedClaim'
  BY DEF DispInv, NoLeakedClaim, queue, memory, waiters, stops, GoesOn, Others
<1>9. NoForgottenWaiter'
  BY DEF DispInv, NoForgottenWaiter, queue, memory, waiters, stops
<1> QED
  BY <1>1, <1>2, <1>3, <1>4, <1>5, <1>6, <1>7, <1>8, <1>9 DEF DispInv

(* A flow that holds no claim and no fence comes to rest. *)
LEMMA RestInv ==
  ASSUME DispatchAssumption, DispInv, NEW f \in Flow, Rests(f),
         flow[f].item \in Item => row[flow[f].item] # f,
         turn.st \in {"fenced", "doomed"} => turn.by # f,
         caller' \in [Caller -> {"idle", "await", "woken"}],
         UNCHANGED <<queue, turn, started, recover, stops, waiters, lost>>
  PROVE  DispInv'
<1>1. DispTypeOK'
  BY DEF DispInv, DispTypeOK, Claims, Present, Working, Unsent, Resting, Flow, queue, memory,
     waiters, stops, Rests, Others, FlowType
<1>2. FlowInv'
  BY DEF DispInv, FlowInv, Claims, Present, Working, Unsent, Resting, Flow, queue, memory,
     waiters, stops, Rests, Others
<1>3. OneClaim'
  BY DEF DispInv, OneClaim, queue, memory, waiters, stops
<1>4. RowInv'
  BY DEF DispInv, RowInv, queue, memory, waiters, stops
<1>5. TurnInv'
  BY DEF DispInv, FlowInv, RowInv, TurnInv, DispatchAssumption, Claims, Present, Working,
     Unsent, Resting, PCs, Flow, queue, memory, waiters, stops, NoTurn, TurnOf, Outcome, Rests,
     Others
<1>6. CancelInv'
  BY DEF DispInv, CancelInv, queue, memory, waiters, stops
<1>7. CancelledNeverStarts'
  BY DEF DispInv, CancelledNeverStarts, queue, memory, waiters, stops
<1>8. NoLeakedClaim'
  BY DEF DispInv, NoLeakedClaim, queue, memory, waiters, stops, Rests, Others
<1>9. NoForgottenWaiter'
  BY DEF DispInv, NoForgottenWaiter, queue, memory, waiters, stops
<1> QED
  BY <1>1, <1>2, <1>3, <1>4, <1>5, <1>6, <1>7, <1>8, <1>9 DEF DispInv

LEMMA ClaimedInv ==
  ASSUME DispatchAssumption, DispInv, NEW f \in Flow, NEW i \in Item,
         flow[f].pc = "claim", i \in Claimable(f),
         row' = [row EXCEPT ![i] = f],
         flow' = [flow EXCEPT ![f] = [pc |-> "got", item |-> i, out |-> None]],
         UNCHANGED <<yielded, uncovered, accepted, paused>>,
         UNCHANGED <<caller, recover, turn, started, stops, waiters, lost>>
  PROVE  DispInv'
<1>1. DispTypeOK'
  BY DEF DispInv, DispTypeOK, Claims, Present, Working, Unsent, Resting, Flow, queue, memory,
     waiters, stops
<1>2. FlowInv'
  BY DEF DispInv, FlowInv, RowInv, DispatchAssumption, Claims, Present, Working, Unsent,
     Resting, PCs, Flow, queue, memory, waiters, stops, NoTurn, TurnOf, Outcome, Claimable,
     First, Rows
<1>3. OneClaim'
  BY DEF DispInv, OneClaim, queue, memory, waiters, stops, Claimable, Rows
<1>4. RowInv'
  BY DEF DispInv, RowInv, Claims, Present, Working, Unsent, Resting, Flow, queue, memory,
     waiters, stops, Claimable, First, Rows
<1>5. TurnInv'
  BY DEF DispInv, FlowInv, RowInv, TurnInv, DispatchAssumption, Claims, Present, Working,
     Unsent, Resting, PCs, Flow, queue, memory, waiters, stops, NoTurn, TurnOf, Outcome
<1>6. CancelInv'
  BY DEF DispInv, CancelInv, Claims, Present, Working, Unsent, Resting, Flow, queue, memory,
     waiters, stops, Claimable, First, Rows
<1>7. CancelledNeverStarts'
  BY DEF DispInv, CancelledNeverStarts, queue, memory, waiters, stops
<1>8. NoLeakedClaim'
  BY DEF DispInv, DispTypeOK, FlowInv, OneClaim, RowInv, TurnInv, CancelInv,
     CancelledNeverStarts, NoLeakedClaim, NoForgottenWaiter, DispatchAssumption, Claims,
     Present, Working, Unsent, Resting, PCs, Flow, queue, memory, waiters, stops, NoTurn,
     TurnOf, Outcome
<1>9. NoForgottenWaiter'
  BY DEF DispInv, NoForgottenWaiter, Claims, Present, Working, Unsent, Resting, Flow, queue,
     memory, waiters, stops
<1> QED
  BY <1>1, <1>2, <1>3, <1>4, <1>5, <1>6, <1>7, <1>8, <1>9 DEF DispInv

LEMMA AcceptInv ==
  ASSUME DispatchAssumption, DispInv, NEW f \in Flow, flow[f].pc = "admit", Accept(f),
         UNCHANGED <<caller, recover, started, stops, lost>>
  PROVE  DispInv'
<1>0. flow[f].item \in Item /\ flow' \in FlowType
  BY AtType DEF DispInv, DispTypeOK, FlowInv, FlowType, Working, Accept, PCs
<1>1. DispTypeOK'
  <2>1. /\ accepted' \in [Item -> BOOLEAN]
        /\ handle' \in [Item -> {"none", "pending", "executing", "settled"}]
        /\ cancel' \in [Item -> BOOLEAN]
        /\ paused' \in BOOLEAN
    BY DEF Accept, DispInv, DispTypeOK
  <2>2. turn' \in [item : Item \cup {None}, by : Flow \cup {None},
                  st : {"none", "fenced", "doomed", "running", "stopped", "failing"}]
    BY <1>0 DEF Accept, TurnOf
  <2> QED
    BY <1>0, <2>1, <2>2 DEF Accept, DispInv, DispTypeOK, FlowType, PCs, stops
<1>2. FlowInv'
  BY <1>0 DEF DispInv, DispTypeOK, FlowInv, OneClaim, RowInv, TurnInv, CancelInv,
     CancelledNeverStarts, NoLeakedClaim, NoForgottenWaiter, DispatchAssumption, Claims,
     Present, Working, Unsent, Resting, PCs, Flow, queue, memory, waiters, stops, NoTurn,
     TurnOf, Outcome, Accept, Admissible, At
<1>3. OneClaim'
  BY <1>0 DEF DispInv, OneClaim, queue, memory, waiters, stops, Accept
<1>4. RowInv'
  BY <1>0 DEF DispInv, DispTypeOK, FlowInv, RowInv, Claims, Flow, queue, memory, waiters, stops,
     Accept, Admissible
<1>5. TurnInv'
  BY <1>0 DEF DispInv, DispTypeOK, FlowInv, OneClaim, RowInv, TurnInv, CancelInv,
     CancelledNeverStarts, NoLeakedClaim, NoForgottenWaiter, DispatchAssumption, Claims,
     Present, Working, Unsent, Resting, PCs, Flow, queue, memory, waiters, stops, NoTurn,
     TurnOf, Outcome, Accept, Admissible, At
<1>6. CancelInv'
  BY <1>0 DEF DispInv, DispTypeOK, FlowInv, RowInv, TurnInv, CancelInv, Claims, Present, Flow,
     Working, Unsent, queue, memory, waiters, stops, NoTurn, TurnOf, Accept, Admissible, At
<1>7. CancelledNeverStarts'
  BY <1>0 DEF DispInv, CancelledNeverStarts, queue, memory, waiters, stops, Accept
<1>8. NoLeakedClaim'
  BY <1>0 DEF DispInv, NoLeakedClaim, queue, memory, waiters, stops, Accept, At
<1>9. NoForgottenWaiter'
  BY <1>0 DEF DispInv, FlowInv, RowInv, NoForgottenWaiter, DispatchAssumption, Claims, Present,
     Working, Unsent, Resting, PCs, Flow, queue, memory, waiters, stops, NoTurn, TurnOf,
     Outcome, Accept, Admissible
<1> QED
  BY <1>1, <1>2, <1>3, <1>4, <1>5, <1>6, <1>7, <1>8, <1>9 DEF DispInv

LEMMA AckInv ==
  ASSUME DispatchAssumption, DispInv, NEW f \in Flow, flow[f].pc = "deliver",
         row[flow[f].item] = f, accepted[flow[f].item],
         row' = [row EXCEPT ![flow[f].item] = "acked"],
         accepted' = [accepted EXCEPT ![flow[f].item] = FALSE],
         paused' \in BOOLEAN, flow' = At(f, "acked"),
         UNCHANGED <<turn, yielded, uncovered, recover, caller, started, stops, waiters, lost>>
  PROVE  DispInv'
<1>1. DispTypeOK'
  BY DEF DispInv, DispTypeOK, queue, memory, waiters, stops, At
<1>2. FlowInv'
  BY DEF DispInv, DispTypeOK, FlowInv, OneClaim, RowInv, TurnInv, CancelInv,
     CancelledNeverStarts, NoLeakedClaim, NoForgottenWaiter, DispatchAssumption, Claims,
     Present, Working, Unsent, Resting, PCs, Flow, queue, memory, waiters, stops, NoTurn, At
<1>3. OneClaim'
  BY DEF DispInv, OneClaim, Claims, Present, Working, Unsent, Resting, Flow, queue, memory,
     waiters, stops
<1>4. RowInv'
  BY DEF DispInv, DispTypeOK, FlowInv, OneClaim, RowInv, TurnInv, CancelInv,
     CancelledNeverStarts, NoLeakedClaim, NoForgottenWaiter, DispatchAssumption, Claims,
     Present, Working, Unsent, Resting, PCs, Flow, queue, memory, waiters, stops, NoTurn
<1>5. TurnInv'
  BY DEF DispInv, FlowInv, RowInv, TurnInv, DispatchAssumption, Claims, Present, Working,
     Unsent, Resting, PCs, Flow, queue, memory, waiters, stops, NoTurn, TurnOf, At
<1>6. CancelInv'
  BY DEF DispInv, DispTypeOK, FlowInv, OneClaim, RowInv, TurnInv, CancelInv,
     CancelledNeverStarts, NoLeakedClaim, NoForgottenWaiter, DispatchAssumption, Claims,
     Present, Working, Unsent, Resting, PCs, Flow, queue, memory, waiters, stops, NoTurn
<1>7. CancelledNeverStarts'
  BY DEF DispInv, CancelledNeverStarts, queue, memory, waiters
<1>8. NoLeakedClaim'
  BY DEF DispInv, NoLeakedClaim, Claims, Present, Working, Unsent, Resting, Flow, queue, memory, At
<1>9. NoForgottenWaiter'
  BY DEF DispInv, FlowInv, RowInv, NoForgottenWaiter, DispatchAssumption, Claims, Present,
     Working, Unsent, Resting, PCs, Flow, queue, memory, waiters, stops, NoTurn, At
<1> QED
  BY <1>1, <1>2, <1>3, <1>4, <1>5, <1>6, <1>7, <1>8, <1>9 DEF DispInv

LEMMA NoAckInv ==
  ASSUME DispatchAssumption, DispInv, NEW f \in Flow, flow[f].pc = "deliver",
         FailFence(f), GoesOn(f, {"write"}), recover' \in BOOLEAN,
         UNCHANGED <<queue, caller, started, stops, waiters, lost>>
  PROVE  DispInv'
<1>1. DispTypeOK'
  BY DEF DispInv, DispTypeOK, FlowInv, RowInv, DispatchAssumption, Claims, Present, Working,
     Unsent, Resting, PCs, Flow, queue, memory, waiters, stops, NoTurn, TurnOf, Outcome,
     FailFence, GoesOn, FlowType
<1>2. FlowInv'
  BY DEF DispInv, FlowInv, Claims, Present, Working, Unsent, Resting, Flow, queue, memory,
     waiters, stops, FailFence, GoesOn, Others
<1>3. OneClaim'
  BY DEF DispInv, OneClaim, queue, memory, waiters, stops, FailFence
<1>4. RowInv'
  BY DEF DispInv, RowInv, queue, memory, waiters, stops, FailFence
<1>5. TurnInv'
  BY DEF DispInv, FlowInv, RowInv, TurnInv, DispatchAssumption, Claims, Present, Working,
     Unsent, Resting, PCs, Flow, queue, memory, waiters, stops, NoTurn, TurnOf, Outcome,
     FailFence, GoesOn, Others
<1>6. CancelInv'
  BY DEF DispInv, FlowInv, RowInv, CancelInv, DispatchAssumption, Claims, Present, Working,
     Unsent, Resting, PCs, Flow, queue, memory, waiters, stops, NoTurn, TurnOf, Outcome,
     FailFence
<1>7. CancelledNeverStarts'
  BY DEF DispInv, CancelledNeverStarts, queue, memory, waiters, stops, FailFence
<1>8. NoLeakedClaim'
  BY DEF DispInv, NoLeakedClaim, queue, memory, waiters, stops, FailFence, GoesOn, Others
<1>9. NoForgottenWaiter'
  BY DEF DispInv, FlowInv, RowInv, NoForgottenWaiter, DispatchAssumption, Claims, Present,
     Working, Unsent, Resting, PCs, Flow, queue, memory, waiters, stops, NoTurn, TurnOf,
     Outcome, FailFence
<1> QED
  BY <1>1, <1>2, <1>3, <1>4, <1>5, <1>6, <1>7, <1>8, <1>9 DEF DispInv

LEMMA StartRunInv ==
  ASSUME DispatchAssumption, DispInv, NEW f \in Flow, flow[f].pc = "acked", Rests(f),
         turn = TurnOf(f, "fenced"), turn' = TurnOf(f, "running"),
         started' = [started EXCEPT ![flow[f].item] = IF @ < 2 THEN @ + 1 ELSE 2],
         UNCHANGED <<caller, recover, queue, stops, waiters, lost>>
  PROVE  DispInv'
<1>1. DispTypeOK'
  BY DEF DispInv, DispTypeOK, FlowInv, OneClaim, RowInv, TurnInv, CancelInv,
     CancelledNeverStarts, NoLeakedClaim, NoForgottenWaiter, DispatchAssumption, Claims,
     Present, Working, Unsent, Resting, PCs, Flow, queue, memory, waiters, stops, NoTurn,
     TurnOf, Outcome, Rests, FlowType
<1>2. FlowInv'
  BY DEF DispInv, FlowInv, Claims, Present, Working, Unsent, Resting, Flow, queue, memory,
     waiters, stops, Rests, Others
<1>3. OneClaim'
  BY DEF DispInv, OneClaim, queue, memory, waiters, stops
<1>4. RowInv'
  BY DEF DispInv, FlowInv, RowInv, DispatchAssumption, Claims, Present, Working, Unsent,
     Resting, PCs, Flow, queue, memory, waiters, stops, NoTurn, TurnOf, Outcome
<1>5. TurnInv'
  BY DEF DispInv, FlowInv, RowInv, TurnInv, DispatchAssumption, Claims, Present, Working,
     Unsent, Resting, PCs, Flow, queue, memory, waiters, stops, NoTurn, TurnOf, Outcome
<1>6. CancelInv'
  BY DEF DispInv, FlowInv, RowInv, CancelInv, DispatchAssumption, Claims, Present, Working,
     Unsent, Resting, PCs, Flow, queue, memory, waiters, stops, NoTurn, TurnOf, Outcome
<1>7. CancelledNeverStarts'
  BY DEF DispInv, DispTypeOK, FlowInv, OneClaim, RowInv, TurnInv, CancelInv,
     CancelledNeverStarts, NoLeakedClaim, NoForgottenWaiter, DispatchAssumption, Claims,
     Present, Working, Unsent, Resting, PCs, Flow, queue, memory, waiters, stops, NoTurn,
     TurnOf, Outcome
<1>8. NoLeakedClaim'
  BY DEF DispInv, FlowInv, RowInv, NoLeakedClaim, DispatchAssumption, Claims, Present, Working,
     Unsent, Resting, PCs, Flow, queue, memory, waiters, stops, NoTurn, TurnOf, Outcome, Rests,
     Others
<1>9. NoForgottenWaiter'
  BY DEF DispInv, FlowInv, RowInv, NoForgottenWaiter, DispatchAssumption, Claims, Present,
     Working, Unsent, Resting, PCs, Flow, queue, memory, waiters, stops, NoTurn, TurnOf, Outcome
<1> QED
  BY <1>1, <1>2, <1>3, <1>4, <1>5, <1>6, <1>7, <1>8, <1>9 DEF DispInv

LEMMA StartNotInv ==
  ASSUME DispatchAssumption, DispInv, NEW f \in Flow, flow[f].pc = "acked", Rests(f),
         \/ turn # TurnOf(f, "fenced") /\ turn' = IF turn = TurnOf(f, "doomed") THEN TurnOf(f, "stopped") ELSE turn
         \/ FailFence(f),
         UNCHANGED <<started, caller, recover, queue, stops, waiters, lost>>
  PROVE  DispInv'
<1>1. DispTypeOK'
  BY DEF DispInv, DispTypeOK, FlowInv, RowInv, DispatchAssumption, Claims, Present, Working,
     Unsent, Resting, PCs, Flow, queue, memory, waiters, stops, NoTurn, TurnOf, Outcome,
     FailFence, Rests, FlowType
<1>2. FlowInv'
  BY DEF DispInv, FlowInv, Claims, Present, Working, Unsent, Resting, Flow, queue, memory,
     waiters, stops, FailFence, Rests, Others
<1>3. OneClaim'
  BY DEF DispInv, OneClaim, queue, memory, waiters, stops, FailFence
<1>4. RowInv'
  BY DEF DispInv, RowInv, queue, memory, waiters, stops, FailFence
<1>5. TurnInv'
  BY DEF DispInv, FlowInv, RowInv, TurnInv, DispatchAssumption, Claims, Present, Working,
     Unsent, Resting, PCs, Flow, queue, memory, waiters, stops, NoTurn, TurnOf, Outcome,
     FailFence, Rests, Others
<1>6. CancelInv'
  BY DEF DispInv, FlowInv, RowInv, CancelInv, DispatchAssumption, Claims, Present, Working,
     Unsent, Resting, PCs, Flow, queue, memory, waiters, stops, NoTurn, TurnOf, Outcome,
     FailFence
<1>7. CancelledNeverStarts'
  BY DEF DispInv, CancelledNeverStarts, queue, memory, waiters, stops, FailFence
<1>8. NoLeakedClaim'
  BY DEF DispInv, FlowInv, RowInv, NoLeakedClaim, DispatchAssumption, Claims, Present, Working,
     Unsent, Resting, PCs, Flow, queue, memory, waiters, stops, NoTurn, TurnOf, Outcome,
     FailFence, Rests, Others, FlowType
<1>9. NoForgottenWaiter'
  BY DEF DispInv, FlowInv, RowInv, NoForgottenWaiter, DispatchAssumption, Claims, Present,
     Working, Unsent, Resting, PCs, Flow, queue, memory, waiters, stops, NoTurn, TurnOf,
     Outcome, FailFence
<1> QED
  BY <1>1, <1>2, <1>3, <1>4, <1>5, <1>6, <1>7, <1>8, <1>9 DEF DispInv

LEMMA LostInv ==
  ASSUME DispatchAssumption, DispInv, NEW f \in Flow, flow[f].pc = "write", Rests(f),
         lost' = IF row[flow[f].item] = f THEN lost \cup {flow[f].item} ELSE lost,
         UNCHANGED <<queue, waiters, caller, recover, turn, started, stops>>
  PROVE  DispInv'
<1>0. flow[f].item \in Item
  BY DEF DispInv, FlowInv, Working
<1>1. DispTypeOK'
  BY <1>0 DEF DispInv, DispTypeOK, Rests, FlowType, PCs, queue, waiters, stops
<1>2. FlowInv'
  BY <1>0 DEF DispInv, FlowInv, Claims, Present, Working, Unsent, Resting, Flow, queue, memory,
     waiters, stops, Rests, Others
<1>3. OneClaim'
  BY <1>0 DEF DispInv, OneClaim, queue, memory, waiters, stops
<1>4. RowInv'
  BY <1>0 DEF DispInv, RowInv, queue, memory, waiters, stops
<1>5. TurnInv'
  BY <1>0 DEF DispInv, FlowInv, RowInv, TurnInv, DispatchAssumption, Claims, Present, Working,
     Unsent, Resting, PCs, Flow, queue, memory, waiters, stops, NoTurn, TurnOf, Outcome, Rests,
     Others
<1>6. CancelInv'
  BY <1>0 DEF DispInv, CancelInv, queue, memory, waiters, stops
<1>7. CancelledNeverStarts'
  BY <1>0 DEF DispInv, CancelledNeverStarts, queue, memory, waiters, stops
<1>8. NoLeakedClaim'
  BY <1>0 DEF DispInv, NoLeakedClaim, queue, memory, waiters, stops, Rests, Others
<1>9. NoForgottenWaiter'
  BY <1>0 DEF DispInv, NoForgottenWaiter, queue, memory, waiters, stops
<1> QED
  BY <1>1, <1>2, <1>3, <1>4, <1>5, <1>6, <1>7, <1>8, <1>9 DEF DispInv

(* A caller only waits. *)
LEMMA WaitingInv ==
  ASSUME DispatchAssumption, DispInv, UNCHANGED <<flow, yielded>>,
         caller' \in [Caller -> {"idle", "await", "woken"}], uncovered' \in SUBSET Caller,
         UNCHANGED <<recover, queue, turn, started, stops, waiters, lost>>
  PROVE  DispInv'
<1>1. DispTypeOK'
  BY DEF DispInv, DispTypeOK, queue, memory, waiters, stops
<1>2. FlowInv'
  BY DEF DispInv, FlowInv, queue, memory
<1>3. OneClaim'
  BY DEF DispInv, OneClaim, queue, memory
<1>4. RowInv'
  BY DEF DispInv, RowInv, queue, memory, waiters
<1>5. TurnInv'
  BY DEF DispInv, FlowInv, RowInv, TurnInv, DispatchAssumption, Claims, Present, Working,
     Unsent, Resting, PCs, Flow, queue, memory, waiters, stops, NoTurn, TurnOf
<1>6. CancelInv'
  BY DEF DispInv, CancelInv, queue, memory, waiters, stops
<1>7. CancelledNeverStarts'
  BY DEF DispInv, CancelledNeverStarts, queue, memory, waiters
<1>8. NoLeakedClaim'
  BY DEF DispInv, NoLeakedClaim, queue, memory
<1>9. NoForgottenWaiter'
  BY DEF DispInv, NoForgottenWaiter, queue, memory, waiters
<1> QED
  BY <1>1, <1>2, <1>3, <1>4, <1>5, <1>6, <1>7, <1>8, <1>9 DEF DispInv

(* Claimed rows go back to the queue, all at once or the one of a flow     *)
(* that is done with it.                                                   *)
LEMMA GiveBackInv ==
  ASSUME DispatchAssumption, DispInv, NEW S \in SUBSET Item, S \subseteq Rows(Claims),
         Release(S),
         \/ UNCHANGED <<flow, yielded, uncovered>>
         \/ \E f \in Flow : /\ Rests(f)
                            /\ flow[f].pc \in {"recover", "write"}
                            /\ flow[f].item \in Item => flow[f].item \in S,
         recover' \in BOOLEAN,
         lost' \subseteq lost,
         \A i \in lost : row'[i] \in Flow => i \in lost',
         UNCHANGED <<caller, turn, started, stops>>
  PROVE  DispInv'
<1>1. /\ row' \in [Item -> {"absent", "queued", "drain", "continued", "dead", "acked", "gone"}]
      /\ accepted' \in [Item -> BOOLEAN]
      /\ told' \in [Item -> {"no", "yes", "undone"}]
      /\ \A i \in S : row'[i] = "queued" /\ ~accepted'[i]
      /\ \A i \in Item \ S : row'[i] = row[i] /\ accepted'[i] = accepted[i]
      /\ \A i \in Item : told'[i] = "yes" => told[i] = "yes" /\ (i \in S => ~accepted[i])
      /\ \A i \in Item : told[i] = "no" => told'[i] = "no"
      /\ UNCHANGED <<paused, handle, cancel>>
  BY DEF Release, DispInv, DispTypeOK
<1>2. \A i \in S : row[i] \in Claims
  BY DEF Rows
<1>3. /\ flow' \in FlowType
      /\ yielded' \subseteq Item
      /\ uncovered' \subseteq Caller
  BY DEF DispInv, DispTypeOK, Rests, FlowType, PCs
<1>4. \A g \in Flow : \/ flow'[g] = flow[g]
                      \/ /\ flow[g].pc \in {"recover", "write"}
                         /\ flow[g].item \in Item => flow[g].item \in S
                         /\ flow'[g].pc \in Resting
                         /\ flow'[g].item = None
  BY DEF Rests, Others
<1>5. DispTypeOK'
  BY <1>1, <1>3 DEF DispInv, DispTypeOK, FlowType, PCs, stops
<1>6. FlowInv'
  <2> SUFFICES ASSUME NEW g \in Flow
               PROVE  /\ flow'[g].pc \in Working => flow'[g].item \in Item
                      /\ flow'[g].pc \in Resting => flow'[g].item = None
                      /\ flow'[g].pc = "write" => flow'[g].out \in Outcome
                      /\ flow'[g].pc \in Unsent /\ row'[flow'[g].item] = g
                           => ~accepted'[flow'[g].item]
                      /\ flow'[g].pc = "acked" => row'[flow'[g].item] = "acked"
    BY DEF FlowInv
  <2>1. CASE flow'[g] = flow[g]
    <3>1. CASE flow[g].item \in S
      <4>1. row[flow[g].item] \in Claims /\ row'[flow[g].item] = "queued"
        BY <3>1, <1>1, <1>2
      <4> QED
        BY <2>1, <4>1 DEF DispInv, FlowInv, Claims, Flow
    <3>2. CASE flow[g].item \in Item \ S
      <4>1. /\ row'[flow'[g].item] = row[flow[g].item]
            /\ accepted'[flow'[g].item] = accepted[flow[g].item]
        BY <2>1, <3>2, <1>1
      <4> QED
        BY <2>1, <4>1 DEF DispInv, FlowInv
    <3>3. CASE flow[g].item \notin Item
      BY <2>1, <3>3 DEF DispInv, FlowInv, Unsent, Working
    <3> QED
      BY <3>1, <3>2, <3>3
  <2>2. CASE flow'[g].pc \in Resting /\ flow'[g].item = None
    BY <2>2 DEF Resting, Working, Unsent
  <2> QED
    BY <1>4, <2>1, <2>2
<1>7. OneClaim'
  BY <1>1 DEF DispInv, OneClaim, Claims
<1>8. RowInv'
  BY <1>1, <1>2 DEF DispInv, RowInv, Claims
<1>9. TurnInv'
  <2>1. /\ turn'.st = "none" => turn' = NoTurn
        /\ turn'.item \in Item => handle'[turn'.item] # "pending" /\ row'[turn'.item] # "absent"
    BY <1>1 DEF DispInv, TurnInv, NoTurn
  <2>2. ASSUME turn.st \in {"fenced", "doomed"}, NEW f \in Flow, turn = TurnOf(f, turn.st),
               flow[f].pc \in {"deliver", "acked"}, started[flow[f].item] = 0
        PROVE  /\ turn' = TurnOf(f, turn.st)'
               /\ flow'[f].pc \in {"deliver", "acked"}
               /\ started'[flow'[f].item] = 0
    BY <2>2, <1>4 DEF TurnOf
  <2> QED
    BY <2>1, <2>2 DEF DispInv, TurnInv, TurnOf
<1>10. CancelInv'
  BY <1>1, <1>2 DEF DispInv, CancelInv, Claims, Present, stops
<1>11. CancelledNeverStarts'
  BY <1>1 DEF DispInv, CancelledNeverStarts
<1>12. NoLeakedClaim'
  BY <1>1, <1>4 DEF DispInv, NoLeakedClaim, FlowInv, Resting, Flow
<1>13. NoForgottenWaiter'
  BY <1>1, <1>2 DEF DispInv, NoForgottenWaiter, Claims, Present
<1> QED
  BY <1>5, <1>6, <1>7, <1>8, <1>9, <1>10, <1>11, <1>12, <1>13 DEF DispInv

(* A flow removes the row it claimed. *)
LEMMA RemovedInv ==
  ASSUME DispatchAssumption, DispInv, NEW f \in Flow, flow[f].pc = "write", Rests(f),
         row[flow[f].item] = f, Remove({flow[f].item}), Settle({flow[f].item}),
         UNCHANGED <<caller, recover, turn, started, stops, lost>>
  PROVE  DispInv'
<1> DEFINE i == flow[f].item
<1>0. i \in Item
  BY DEF DispInv, FlowInv, Working
<1>1. /\ row' \in [Item -> {"absent", "queued", "drain", "continued", "dead", "acked", "gone"}]
      /\ accepted' \in [Item -> BOOLEAN]
      /\ handle' \in [Item -> {"none", "pending", "executing", "settled"}]
      /\ cancel' \in [Item -> BOOLEAN]
      /\ paused' \in BOOLEAN
      /\ row'[i] = "gone" /\ ~accepted'[i] /\ handle'[i] \in {"none", "settled"} /\ ~cancel'[i]
      /\ \A j \in Item \ {i} : /\ row'[j] = row[j] /\ accepted'[j] = accepted[j]
                               /\ handle'[j] = handle[j] /\ cancel'[j] = cancel[j]
      /\ UNCHANGED told
  BY <1>0 DEF Remove, Settle, DispInv, DispTypeOK
<1>2. row[i] \in Claims
  BY DEF Claims, Flow
<1>3. \A g \in Flow : flow'[g] = flow[g] \/ (flow'[g].pc \in Resting /\ flow'[g].item = None /\ g = f)
  BY DEF Rests, Others
<1>5. DispTypeOK'
  BY <1>1 DEF DispInv, DispTypeOK, Rests, FlowType, PCs, stops
<1>6. FlowInv'
  <2> SUFFICES ASSUME NEW g \in Flow
               PROVE  /\ flow'[g].pc \in Working => flow'[g].item \in Item
                      /\ flow'[g].pc \in Resting => flow'[g].item = None
                      /\ flow'[g].pc = "write" => flow'[g].out \in Outcome
                      /\ flow'[g].pc \in Unsent /\ row'[flow'[g].item] = g
                           => ~accepted'[flow'[g].item]
                      /\ flow'[g].pc = "acked" => row'[flow'[g].item] = "acked"
    BY DEF FlowInv
  <2>1. CASE flow'[g] = flow[g]
    <3>1. CASE flow[g].item = i
      <4>1. row[flow[g].item] \in Claims /\ row'[flow[g].item] = "gone"
        BY <3>1, <1>1, <1>2
      <4> QED
        BY <2>1, <4>1 DEF DispInv, FlowInv, Claims, Flow
    <3>2. CASE flow[g].item \in Item \ {i}
      BY <2>1, <3>2, <1>1 DEF DispInv, FlowInv
    <3>3. CASE flow[g].item \notin Item
      BY <2>1, <3>3 DEF DispInv, FlowInv, Unsent, Working
    <3> QED
      BY <1>0, <3>1, <3>2, <3>3
  <2>2. CASE flow'[g].pc \in Resting /\ flow'[g].item = None
    BY <2>2 DEF Resting, Working, Unsent
  <2> QED
    BY <1>3, <2>1, <2>2
<1>7. OneClaim'
  BY <1>1 DEF DispInv, OneClaim, Claims
<1>8. RowInv'
  BY <1>1, <1>2 DEF DispInv, RowInv, Claims
<1>9. TurnInv'
  <2>1. /\ turn'.st = "none" => turn' = NoTurn
        /\ turn'.item \in Item => handle'[turn'.item] # "pending" /\ row'[turn'.item] # "absent"
    BY <1>1 DEF DispInv, TurnInv, NoTurn
  <2>2. ASSUME turn.st \in {"fenced", "doomed"}, NEW g \in Flow, turn = TurnOf(g, turn.st),
               flow[g].pc \in {"deliver", "acked"}, started[flow[g].item] = 0
        PROVE  /\ turn' = TurnOf(g, turn.st)'
               /\ flow'[g].pc \in {"deliver", "acked"}
               /\ started'[flow'[g].item] = 0
    BY <2>2, <1>3 DEF TurnOf
  <2> QED
    BY <2>1, <2>2 DEF DispInv, TurnInv, TurnOf
<1>10. CancelInv'
  BY <1>1 DEF DispInv, CancelInv, Present, stops
<1>11. CancelledNeverStarts'
  BY <1>1 DEF DispInv, CancelledNeverStarts
<1>12. NoLeakedClaim'
  BY <1>1, <1>3 DEF DispInv, NoLeakedClaim, Flow
<1>13. NoForgottenWaiter'
  BY <1>1 DEF DispInv, NoForgottenWaiter, Present
<1> QED
  BY <1>5, <1>6, <1>7, <1>8, <1>9, <1>10, <1>11, <1>12, <1>13 DEF DispInv

-----------------------------------------------------------------------------
(* The steps of a flow *)

LEMMA FlowIs == DispInv => /\ flow \in FlowType
                           /\ yielded \subseteq Item
                           /\ uncovered \subseteq Caller
                           /\ caller \in [Caller -> {"idle", "await", "woken"}]
BY DEF DispInv, DispTypeOK, FlowType, PCs

LEMMA FirstIn == \A S : First(S) \subseteq S
BY DEF First

LEMMA ClaimInv ==
  ASSUME DispatchAssumption, DispInv, NEW f \in Flow, Claim(f)
  PROVE  DispInv'
<1> USE FlowIs
<1>0. flow[f].pc = "claim" /\ flow[f].item = None
  BY DEF Claim, DispInv, FlowInv, Resting
<1>1. ASSUME NEW i \in Claimable(f),
             row' = [row EXCEPT ![i] = f],
             flow' = [flow EXCEPT ![f] = [pc |-> "got", item |-> i, out |-> None]],
             UNCHANGED <<yielded, uncovered, accepted, paused>>
      PROVE  DispInv'
  <2>1. i \in Item
    BY FirstIn, <1>1 DEF Claimable, Rows
  <2> QED
    BY <1>0, <1>1, <2>1, ClaimedInv DEF Claim
<1>2. ASSUME Rests(f), UNCHANGED queue
      PROVE  DispInv'
  <2>1. turn.st \in {"fenced", "doomed"} => turn.by # f
    BY <1>0 DEF DispInv, TurnInv, TurnOf
  <2>2. flow[f].item \notin Item
    BY <1>0 DEF DispatchAssumption
  <2> QED
    BY <1>2, <2>1, <2>2, RestInv DEF Claim
<1>3. CASE Return(f, FALSE, yielded) /\ UNCHANGED queue
  BY <1>2, <1>3, ReturnRests
<1>4. CASE Throw(f) /\ UNCHANGED queue
  BY <1>2, <1>4, ThrowRests
<1> QED
  BY <1>1, <1>3, <1>4 DEF Claim

(* Up to the acceptance a flow just goes on, whatever it is answered. *)
LEMMA GotInv ==
  ASSUME DispatchAssumption, DispInv, NEW f \in Flow, Got(f)
  PROVE  DispInv'
<1> USE FlowIs
<1>1. flow[f].pc \in Unsent
  BY DEF Got, Unsent
<1>2. CASE flow' = At(f, "classify") /\ UNCHANGED <<yielded, uncovered>>
  <2>1. GoesOn(f, {"classify"})
    BY <1>2, AtGoesOn DEF PCs
  <2>2. GoesOn(f, Unsent \cup {"write"})
    BY <2>1 DEF GoesOn, Unsent
  <2> QED
    BY <1>1, <2>2, OnwardInv DEF Got
<1>3. CASE Decide(f, "release", FALSE, FALSE, FALSE)
  <2>1. GoesOn(f, {"write"})
    BY <1>3, DecideGoesOn
  <2>2. GoesOn(f, Unsent \cup {"write"})
    BY <2>1 DEF GoesOn
  <2> QED
    BY <1>1, <2>2, OnwardInv DEF Got
<1> QED
  BY <1>2, <1>3 DEF Got

LEMMA ClassifyInv ==
  ASSUME DispatchAssumption, DispInv, NEW f \in Flow, Classify(f)
  PROVE  DispInv'
<1> USE FlowIs
<1>1. flow[f].pc \in Unsent
  BY DEF Classify, Unsent
<1>2. ASSUME NEW to, to \subseteq Unsent \cup {"write"}, GoesOn(f, to)
      PROVE  DispInv'
  <2>1. GoesOn(f, Unsent \cup {"write"})
    BY <1>2 DEF GoesOn
  <2> QED
    BY <1>1, <2>1, OnwardInv DEF Classify
<1>3. CASE flow' = At(f, "prepare") /\ UNCHANGED <<yielded, uncovered>>
  <2>1. GoesOn(f, {"prepare"})
    BY <1>3, AtGoesOn DEF PCs
  <2> QED
    BY <1>2, <2>1 DEF Unsent
<1>4. CASE DecideThrown(f)
  BY <1>2, <1>4, ThrownGoesOn
<1>5. CASE DecideCancel(f)
  BY <1>2, <1>5, DecideGoesOn DEF DecideCancel
<1>6. CASE DecideDefer(f)
  BY <1>2, <1>6, DecideGoesOn DEF DecideDefer
<1>7. CASE Decide(f, "release", FALSE, FALSE, FALSE)
  BY <1>2, <1>7, DecideGoesOn
<1> QED
  BY <1>3, <1>4, <1>5, <1>6, <1>7 DEF Classify

LEMMA PrepareInv ==
  ASSUME DispatchAssumption, DispInv, NEW f \in Flow, Prepare(f)
  PROVE  DispInv'
<1> USE FlowIs
<1>1. flow[f].pc \in Unsent
  BY DEF Prepare, Unsent
<1>2. ASSUME NEW to, to \subseteq Unsent \cup {"write"}, GoesOn(f, to)
      PROVE  DispInv'
  <2>1. GoesOn(f, Unsent \cup {"write"})
    BY <1>2 DEF GoesOn
  <2> QED
    BY <1>1, <2>1, OnwardInv DEF Prepare
<1>3. CASE flow' = At(f, "admit") /\ UNCHANGED <<yielded, uncovered>>
  <2>1. GoesOn(f, {"admit"})
    BY <1>3, AtGoesOn DEF PCs
  <2> QED
    BY <1>2, <2>1 DEF Unsent
<1>4. CASE Rejected(f)
  BY <1>2, <1>4, RejectedGoesOn
<1>5. CASE DecideThrown(f)
  BY <1>2, <1>5, ThrownGoesOn
<1> QED
  BY <1>3, <1>4, <1>5 DEF Prepare

LEMMA AdmitInv ==
  ASSUME DispatchAssumption, DispInv, NEW f \in Flow, Admit(f)
  PROVE  DispInv'
<1>1. CASE Accept(f)
  BY <1>1, AcceptInv DEF Admit
<1>2. CASE Rejected(f) /\ UNCHANGED <<queue, turn, waiters>>
  <2>1. GoesOn(f, {"write"})
    BY <1>2, FlowIs, RejectedGoesOn
  <2>2. GoesOn(f, Unsent \cup {"write"}) /\ flow[f].pc \in Unsent
    BY <2>1 DEF GoesOn, Admit, Unsent
  <2> QED
    BY <1>2, <2>2, OnwardInv DEF Admit
<1> QED
  BY <1>1, <1>2 DEF Admit

LEMMA AcknowledgeInv ==
  ASSUME DispatchAssumption, DispInv, NEW f \in Flow, Acknowledge(f)
  PROVE  DispInv'
<1> DEFINE i == flow[f].item
<1>1. CASE /\ row[i] = f
           /\ accepted[i]
           /\ row' = [row EXCEPT ![i] = "acked"]
           /\ accepted' = [accepted EXCEPT ![i] = FALSE]
           /\ paused' = (paused /\ Rows(Present) # {i})
           /\ flow' = At(f, "acked")
           /\ UNCHANGED <<turn, yielded, uncovered, recover>>
  <2>1. paused' \in BOOLEAN
    BY <1>1
  <2> QED
    BY <1>1, <2>1, AckInv DEF Acknowledge
<1>2. CASE /\ FailFence(f)
           /\ DecideThrown(f)
           /\ recover' \in {recover, recover \/ f = "drain"}
           /\ UNCHANGED queue
  <2>1. GoesOn(f, {"write"})
    BY <1>2, FlowIs, ThrownGoesOn
  <2>2. recover' \in BOOLEAN
    BY <1>2 DEF DispInv, DispTypeOK
  <2> QED
    BY <1>2, <2>1, <2>2, NoAckInv DEF Acknowledge
<1> QED
  BY <1>1, <1>2 DEF Acknowledge

LEMMA StartInv ==
  ASSUME DispatchAssumption, DispInv, NEW f \in Flow, Start(f)
  PROVE  DispInv'
<1> USE FlowIs
<1>1. CASE /\ turn = TurnOf(f, "fenced")
           /\ turn' = TurnOf(f, "running")
           /\ started' = [started EXCEPT ![flow[f].item] = IF @ < 2 THEN @ + 1 ELSE 2]
           /\ Return(f, FALSE, yielded)
  <2>1. Rests(f)
    BY <1>1, ReturnRests
  <2> QED
    BY <1>1, <2>1, StartRunInv DEF Start
<1>2. CASE /\ turn # TurnOf(f, "fenced")
           /\ turn' = IF turn = TurnOf(f, "doomed") THEN TurnOf(f, "stopped") ELSE turn
           /\ Return(f, FALSE, yielded)
           /\ UNCHANGED started
  <2>1. Rests(f)
    BY <1>2, ReturnRests
  <2> QED
    BY <1>2, <2>1, StartNotInv DEF Start
<1>3. CASE FailFence(f) /\ Throw(f) /\ UNCHANGED started
  <2>1. Rests(f)
    BY <1>3, ThrowRests
  <2> QED
    BY <1>3, <2>1, StartNotInv DEF Start
<1> QED
  BY <1>1, <1>2, <1>3 DEF Start

(* What a flow decided is written, or the claim is lost. *)
LEMMA WriteInv ==
  ASSUME DispatchAssumption, DispInv, NEW f \in Flow, Write(f)
  PROVE  DispInv'
<1> USE FlowIs
<1> DEFINE i == flow[f].item
           out == flow[f].out
<1>0. /\ flow[f].pc = "write"
      /\ i \in Item
      /\ out \in Outcome
      /\ turn.st \in {"fenced", "doomed"} => turn.by # f
  BY DEF Write, DispInv, FlowInv, Working, TurnInv, TurnOf
<1>1. ASSUME Settled(f)
      PROVE  DispInv'
  <2>0. out.again \in BOOLEAN
    BY <1>0 DEF Outcome
  <2>1. Rests(f)
    <3>1. CASE out.throws
      BY <1>1, <3>1, ThrowRests DEF Settled
    <3>2. CASE ~out.throws
      <4>1. (IF out.yields THEN yielded \cup {i} ELSE yielded) \subseteq Item
        BY <1>0
      <4> DEFINE skip == IF out.yields THEN yielded \cup {i} ELSE yielded
      <4>2. Return(f, out.again, skip)
        BY <1>1, <3>2 DEF Settled
      <4> HIDE DEF skip, out
      <4> QED
        BY <2>0, <4>1, <4>2, ReturnRests DEF skip
    <3> QED
      BY <3>1, <3>2
  <2>2. CASE row[i] # f /\ UNCHANGED <<queue, waiters>>
    BY <1>0, <1>1, <2>1, <2>2, RestInv DEF Settled, Write
  <2>3. CASE row[i] = f /\ Release({i})
    <3>1. {i} \in SUBSET Item /\ {i} \subseteq Rows(Claims)
      BY <1>0, <2>3 DEF Rows, Claims, Flow
    <3>2. UNCHANGED <<caller, recover, turn, started, stops, lost>>
      BY <1>1 DEF Settled, Write
    <3>3. recover' \in BOOLEAN
      BY <3>2 DEF DispInv, DispTypeOK
    <3>4. \E g \in Flow : /\ Rests(g)
                          /\ flow[g].pc \in {"recover", "write"}
                          /\ flow[g].item \in Item => flow[g].item \in {i}
      BY <1>0, <2>1
    <3> QED
      BY <2>3, <3>1, <3>2, <3>3, <3>4, GiveBackInv
  <2>4. CASE row[i] = f /\ Remove({i}) /\ Settle({i})
    BY <1>0, <1>1, <2>1, <2>4, RemovedInv DEF Settled, Write
  <2> QED
    BY <1>1, <2>2, <2>3, <2>4 DEF Settled
<1>2. ASSUME WriteFailed(f)
      PROVE  DispInv'
  <2>1. Rests(f)
    BY <1>2, ThrowRests DEF WriteFailed
  <2> QED
    BY <1>0, <1>2, <2>1, LostInv DEF WriteFailed, Write
<1> QED
  BY <1>1, <1>2 DEF Write

-----------------------------------------------------------------------------
(* Recovery and the callers *)

LEMMA RecoveredRows ==
  ASSUME DispInv, RecoverClaims, Recovered
  PROVE  \E S \in SUBSET Item : /\ S \subseteq Rows(Claims)
                                /\ Release(S)
                                /\ lost' \subseteq lost
                                /\ \A i \in lost : row'[i] \in Flow => i \in lost'
<1>1. \A S \in SUBSET Claims : Rows(S) \in SUBSET Item /\ Rows(S) \subseteq Rows(Claims)
  BY DEF Rows
<1>2. /\ lost' \subseteq lost
      /\ \A i \in lost : row'[i] \in Flow => i \in lost'
  BY DEF Recovered, Claims, Flow, DispInv, DispTypeOK
<1> QED
  BY <1>1, <1>2 DEF RecoverClaims, Claims

LEMMA RecoverInv ==
  ASSUME DispatchAssumption, DispInv, Recover
  PROVE  DispInv'
<1>1. PICK S \in SUBSET Item : /\ S \subseteq Rows(Claims)
                               /\ Release(S)
                               /\ lost' \subseteq lost
                               /\ \A i \in lost : row'[i] \in Flow => i \in lost'
  BY RecoveredRows DEF Recover
<1>2. UNCHANGED <<flow, yielded, uncovered>> /\ UNCHANGED <<caller, turn, started, stops>>
  BY DEF Recover, memory
<1>3. recover' \in BOOLEAN
  BY DEF Recover, memory, DispInv, DispTypeOK
<1> QED
  BY <1>1, <1>2, <1>3, GiveBackInv

LEMMA RecoverPassInv ==
  ASSUME DispatchAssumption, DispInv, RecoverPass
  PROVE  DispInv'
<1> USE FlowIs
<1>0. /\ "drain" \in Flow
      /\ flow["drain"].pc = "recover"
      /\ flow["drain"].item \notin Item
      /\ turn.st \in {"fenced", "doomed"} => turn.by # "drain"
  BY DEF Flow, RecoverPass, DispInv, FlowInv, Resting, DispatchAssumption, TurnInv, TurnOf
<1>1. CASE /\ RecoverClaims
           /\ recover' = FALSE
           /\ flow' = Away("drain", IF Open THEN "claim" ELSE "ending")
           /\ Recovered
           /\ UNCHANGED <<yielded, uncovered>>
  <2>1. PICK S \in SUBSET Item : /\ S \subseteq Rows(Claims)
                                 /\ Release(S)
                                 /\ lost' \subseteq lost
                                 /\ \A i \in lost : row'[i] \in Flow => i \in lost'
    BY <1>1, RecoveredRows
  <2>2. Rests("drain")
    <3>1. CASE Open
      BY <1>0, <1>1, <3>1, AwayRests DEF Resting
    <3>2. CASE ~Open
      BY <1>0, <1>1, <3>2, AwayRests DEF Resting
    <3> QED
      BY <3>1, <3>2
  <2>3. \E g \in Flow : /\ Rests(g)
                        /\ flow[g].pc \in {"recover", "write"}
                        /\ flow[g].item \in Item => flow[g].item \in S
    BY <1>0, <2>2
  <2>4. recover' \in BOOLEAN /\ UNCHANGED <<caller, turn, started, stops>>
    BY <1>1 DEF RecoverPass
  <2> QED
    BY <2>1, <2>3, <2>4, GiveBackInv
<1>2. CASE /\ Throw("drain")
           /\ UNCHANGED <<recover, queue, waiters, lost>>
  <2>1. Rests("drain")
    BY <1>0, <1>2, ThrowRests
  <2> QED
    BY <1>0, <1>2, <2>1, RestInv DEF RecoverPass
<1> QED
  BY <1>1, <1>2 DEF RecoverPass

LEMMA AwaitInv ==
  ASSUME DispatchAssumption, DispInv, NEW c \in Caller, NEW asked \in SUBSET Caller,
         Await(c, asked),
         UNCHANGED <<recover, queue, turn, started, stops, waiters, lost>>
  PROVE  DispInv'
<1> USE FlowIs
<1>1. caller' \in [Caller -> {"idle", "await", "woken"}]
  BY DEF Await
<1>2. CASE UNCHANGED <<flow, yielded>> /\ uncovered' = asked
  BY <1>1, <1>2, WaitingInv
<1>3. CASE ~Running /\ Pass(asked, {})
  <2>1. Rests("drain")
    BY <1>3, PassRests
  <2>2. /\ "drain" \in Flow
        /\ flow["drain"].item \notin Item
        /\ turn.st \in {"fenced", "doomed"} => turn.by # "drain"
    BY <1>3 DEF Running, Flow, DispInv, FlowInv, Resting, DispatchAssumption, TurnInv, TurnOf
  <2> QED
    BY <1>1, <2>1, <2>2, RestInv
<1> QED
  BY <1>2, <1>3 DEF Await

LEMMA AskInv ==
  ASSUME DispatchAssumption, DispInv, NEW c \in Caller, Ask(c)
  PROVE  DispInv'
BY AwaitInv, FlowIs DEF Ask

LEMMA ResumeInv ==
  ASSUME DispatchAssumption, DispInv, NEW c \in Caller, Resume(c)
  PROVE  DispInv'
<1>1. CASE Await(c, uncovered)
  BY <1>1, AwaitInv, FlowIs DEF Resume
<1>2. CASE /\ caller' = [caller EXCEPT ![c] = "idle"]
           /\ UNCHANGED <<flow, yielded, uncovered>>
  <2>1. caller' \in [Caller -> {"idle", "await", "woken"}] /\ uncovered' \in SUBSET Caller
    BY <1>2, FlowIs
  <2> QED
    BY <1>2, <2>1, WaitingInv DEF Resume
<1> QED
  BY <1>1, <1>2 DEF Resume

-----------------------------------------------------------------------------
(* The invariant *)

LEMMA InitInv == DispatchAssumption /\ Init => DispInv
<1> SUFFICES ASSUME DispatchAssumption, Init PROVE DispInv
  OBVIOUS
<1>1. DispTypeOK
  <2>1. Idle \in [pc : PCs, item : Item \cup {None}, out : Outcome \cup {None}]
    BY DEF Idle, PCs
  <2>2. NoTurn \in [item : Item \cup {None}, by : Flow \cup {None},
                    st : {"none", "fenced", "doomed", "running", "stopped", "failing"}]
    BY DEF NoTurn
  <2>3. /\ flow \in [Flow -> [pc : PCs, item : Item \cup {None}, out : Outcome \cup {None}]]
        /\ turn = NoTurn
    BY <2>1 DEF Init
  <2>4. /\ row \in [Item -> {"absent", "queued", "drain", "continued", "dead", "acked", "gone"}]
        /\ handle \in [Item -> {"none", "pending", "executing", "settled"}]
        /\ told \in [Item -> {"no", "yes", "undone"}]
        /\ caller \in [Caller -> {"idle", "await", "woken"}]
        /\ started \in [Item -> 0..2]
        /\ accepted \in [Item -> BOOLEAN]
        /\ cancel \in [Item -> BOOLEAN]
    BY DEF Init
  <2>5. /\ paused = FALSE /\ recover = FALSE /\ closed = FALSE
        /\ yielded = {} /\ uncovered = {} /\ lost = {} /\ deletion = "none"
    BY DEF Init
  <2> QED
    BY <2>2, <2>3, <2>4, <2>5 DEF DispTypeOK, PCs
<1>2. FlowInv
  BY DEF Init, FlowInv, Idle, Flow, Working, Unsent
<1>3. OneClaim /\ RowInv /\ CancelInv /\ CancelledNeverStarts /\ NoForgottenWaiter
  BY DEF Init, OneClaim, RowInv, CancelInv, CancelledNeverStarts, NoForgottenWaiter,
         Claims, Present
<1>4. TurnInv /\ NoLeakedClaim
  BY DEF Init, TurnInv, NoTurn, NoLeakedClaim, Flow, DispatchAssumption
<1> QED
  BY <1>1, <1>2, <1>3, <1>4 DEF DispInv

LEMMA StutterInv == DispInv /\ UNCHANGED vars => DispInv'
BY DEF DispInv, DispTypeOK, FlowInv, OneClaim, RowInv, TurnInv, CancelInv,
       CancelledNeverStarts, NoLeakedClaim, NoForgottenWaiter, TurnOf, Rows,
       vars, queue, memory, waiters, stops

LEMMA NextInv == DispatchAssumption /\ DispInv /\ Next => DispInv'
<1> SUFFICES ASSUME DispatchAssumption, DispInv, Next PROVE DispInv'
  OBVIOUS
<1>1. ASSUME NEW i \in Item, Enqueue(i) \/ Withdraw(i) \/ RequestCancel(i) \/ AnswerCancel(i)
      PROVE  DispInv'
  BY <1>1, EnqueueInv, WithdrawInv, RequestCancelInv, AnswerCancelInv
<1>2. ASSUME NEW c \in Caller, Ask(c) \/ Resume(c)
      PROVE  DispInv'
  BY <1>2, AskInv, ResumeInv
<1>3. ASSUME NEW f \in Flow, Dispatch(f)
      PROVE  DispInv'
  BY <1>3, ClaimInv, GotInv, ClassifyInv, PrepareInv, AdmitInv, AcknowledgeInv,
     StartInv, WriteInv DEF Dispatch
<1>4. CASE RecoverPass \/ Finish \/ ContinuePaused
  BY <1>4, RecoverPassInv, FinishInv, ContinuePausedInv
<1>5. CASE Unpause \/ DirectTurn \/ AbortTurn \/ TurnEnds
  BY <1>5, UnpauseInv, DirectTurnInv, AbortTurnInv, TurnEndsInv
<1>6. CASE Recover \/ BeginDeletion \/ Erase \/ Close \/ Crash
  BY <1>6, RecoverInv, BeginDeletionInv, EraseInv, CloseInv, CrashInv
<1> QED
  BY <1>1, <1>2, <1>3, <1>4, <1>5, <1>6 DEF Next

(* The inductive invariant: the three promises below it hold because of    *)
(* what each place of a dispatch implies for its row, its Turn and the     *)
(* sender who waits.                                                       *)
THEOREM Invariant == Spec => []DispInv
<1>1. Init => DispInv
  BY InitInv, DispatchAssumption
<1>2. DispInv /\ [Next]_vars => DispInv'
  BY NextInv, StutterInv, DispatchAssumption
<1> QED
  BY <1>1, <1>2, PTL DEF Spec

(* Whatever fails, and wherever it crashes, the state of the dispatcher is *)
(* of its types.                                                           *)
THEOREM Typed == Spec => []DispTypeOK
<1>1. DispInv => DispTypeOK
  BY DEF DispInv
<1> QED
  BY <1>1, Invariant, PTL

(* A prompt whose sender was told that its Turn is aborted is not run,     *)
(* however the request meets the claim, the acceptance and the fence.      *)
THEOREM CancelledPromptsNeverStart == Spec => []CancelledNeverStarts
<1>1. DispInv => CancelledNeverStarts
  BY DEF DispInv
<1> QED
  BY <1>1, Invariant, PTL

(* A claimed row is in the hands of the flow that claimed it, or its       *)
(* settling write failed.                                                  *)
THEOREM ClaimsAreHeld == Spec => []NoLeakedClaim
<1>1. DispInv => NoLeakedClaim
  BY DEF DispInv
<1> QED
  BY <1>1, Invariant, PTL

(* No sender waits for a prompt that is in no row and in no Turn.          *)
THEOREM WaitersAreAttached == Spec => []NoForgottenWaiter
<1>1. DispInv => NoForgottenWaiter
  BY DEF DispInv
<1> QED
  BY <1>1, Invariant, PTL

-----------------------------------------------------------------------------
(* Quiet once closed or blocked *)

LEMMA OthersKeep ==
  ASSUME DispInv, NEW f \in Flow, Dispatch(f)
  PROVE  Others(f)
<1> USE FlowIs
<1>1. ASSUME GoesOn(f, PCs) \/ Rests(f)
      PROVE  Others(f)
  BY <1>1 DEF GoesOn, Rests
<1>2. ASSUME NEW again, NEW skip, Return(f, again, skip)
      PROVE  Others(f)
  BY <1>2 DEF Return, EndPass, Pass, Away, Others, FlowType
<1>3. CASE Throw(f)
  BY <1>3, <1>1, ThrowRests
<1>4. ASSUME NEW pc, flow' = At(f, pc)
      PROVE  Others(f)
  BY <1>4 DEF At, Others, FlowType
<1>5. CASE Rejected(f)
  BY <1>5, RejectedGoesOn DEF GoesOn
<1>6. CASE DecideThrown(f)
  BY <1>6, ThrownGoesOn DEF GoesOn
<1>7. CASE Claim(f)
  BY <1>7, <1>2, <1>3 DEF Claim, Others, FlowType
<1>8. CASE Got(f)
  BY <1>8, <1>4 DEF Got, Decide, Others, FlowType
<1>9. CASE Classify(f)
  BY <1>9, <1>4, <1>6 DEF Classify, DecideCancel, DecideDefer, Decide, Others, FlowType
<1>10. CASE Prepare(f)
  BY <1>10, <1>4, <1>5, <1>6 DEF Prepare
<1>11. CASE Admit(f)
  BY <1>11, <1>4, <1>5 DEF Admit, Accept
<1>12. CASE Acknowledge(f)
  BY <1>12, <1>4, <1>6 DEF Acknowledge
<1>13. CASE Start(f)
  BY <1>13, <1>2, <1>3 DEF Start
<1>14. CASE Write(f)
  <2>1. CASE Settled(f)
    BY <2>1, <1>2, <1>3 DEF Settled
  <2> QED
    BY <1>14, <2>1, <1>3 DEF Write, WriteFailed
<1> QED
  BY <1>7, <1>8, <1>9, <1>10, <1>11, <1>12, <1>13, <1>14 DEF Dispatch

LEMMA QuietStep ==
  ASSUME DispInv, [Next]_vars, ~Open, ~Open', NEW f \in Flow, AtRest(f)
  PROVE  AtRest(f)'
<1> USE FlowIs
<1>1. ASSUME flow' = flow
      PROVE  AtRest(f)'
  BY <1>1 DEF AtRest
<1>2. ASSUME NEW g \in Flow, Dispatch(g)
      PROVE  AtRest(f)'
  <2>1. g # f
    BY <1>2 DEF AtRest, Dispatch, Claim, Got, Classify, Prepare, Admit, Acknowledge,
                Start, Write
  <2> QED
    BY <1>2, <2>1, OthersKeep DEF Others, AtRest
<1>3. ASSUME NEW c \in Caller, Resume(c)
      PROVE  AtRest(f)'
  <2>1. CASE flow' = flow
    BY <2>1, <1>1
  <2>2. CASE flow' = Away("drain", "ending")
    BY <2>2 DEF Away, AtRest, FlowType
  <2> QED
    BY <1>3, <2>1, <2>2 DEF Resume, Await, Pass
<1>4. ASSUME Finish \/ Crash
      PROVE  AtRest(f)'
  BY <1>4 DEF Finish, Crash, Idle, AtRest, FlowType
<1>5. ASSUME RecoverPass
      PROVE  AtRest(f)'
  <2>1. f # "drain"
    BY <1>5 DEF RecoverPass, AtRest
  <2> QED
    BY <1>5, <2>1 DEF RecoverPass, Throw, Away, AtRest, FlowType
<1>6. CASE \E i \in Item : Enqueue(i) \/ Withdraw(i) \/ RequestCancel(i) \/ AnswerCancel(i)
  BY <1>6, <1>1 DEF Enqueue, Withdraw, RequestCancel, AnswerCancel, memory
<1>7. CASE Unpause \/ DirectTurn \/ AbortTurn \/ TurnEnds
             \/ Recover \/ BeginDeletion \/ Erase \/ Close
  BY <1>7, <1>1 DEF Unpause, DirectTurn, AbortTurn, TurnEnds, Recover, BeginDeletion,
                    Erase, Close, memory
<1>8. CASE UNCHANGED vars
  BY <1>8, <1>1 DEF vars, memory
<1>9. ~ContinuePaused /\ \A c \in Caller : ~Ask(c)
  BY DEF ContinuePaused, Ask, Open
<1> QED
  BY <1>2, <1>3, <1>4, <1>5, <1>6, <1>7, <1>8, <1>9 DEF Next

(* A dispatch that is at rest once the deletion or the shutdown has begun  *)
(* stays so, whoever wakes it.                                             *)
THEOREM QuietAfterStop == Spec => StaysQuiet
<1>1. DispInv /\ [Next]_vars =>
        [\A f \in Flow : ~Open /\ ~Open' /\ AtRest(f) => AtRest(f)']_vars
  BY QuietStep
<1> QED
  BY <1>1, Invariant, PTL DEF Spec, StaysQuiet

-----------------------------------------------------------------------------
(* The wakes *)

WakeInv == DispInv /\ \A c \in uncovered : caller[c] # "idle"

LEMMA CallIs ==
  /\ call \in [Caller -> {"idle", "asked", "covered"}]
  /\ \A c \in Caller : /\ c \in uncovered => call[c] = "asked"
                       /\ c \notin uncovered /\ caller[c] = "idle" => call[c] = "idle"
                       /\ c \notin uncovered /\ caller[c] # "idle" => call[c] = "covered"
  /\ call' \in [Caller -> {"idle", "asked", "covered"}]
  /\ \A c \in Caller : /\ c \in uncovered' => call'[c] = "asked"
                       /\ c \notin uncovered' /\ caller'[c] = "idle" => call'[c] = "idle"
                       /\ c \notin uncovered' /\ caller'[c] # "idle" => call'[c] = "covered"
BY DEF call

(* A step that begins a pass or leaves the callers as they are.            *)
LEMMA CoverStep ==
  ASSUME WakeInv, DispInv', uncovered' = uncovered \/ uncovered' = {},
         \A c \in Caller : caller'[c] = "idle" <=> caller[c] = "idle"
  PROVE  WakeInv' /\ (Wakes!BeginPass \/ call' = call)
<1>0. uncovered \subseteq Caller
  BY FlowIs DEF WakeInv
<1>1. WakeInv'
  BY <1>0 DEF WakeInv
<1>2. CASE uncovered' = uncovered
  BY <1>1, <1>2, CallIs
<1>3. CASE uncovered' = {}
  <2>1. call' = [c \in Caller |-> IF call[c] = "asked" THEN "covered" ELSE call[c]]
    BY <1>3, <1>0, CallIs DEF WakeInv
  <2> QED
    BY <1>1, <2>1 DEF Wakes!BeginPass
<1> QED
  BY <1>1, <1>2, <1>3

LEMMA DispatchCovers ==
  ASSUME NEW f \in Flow, Dispatch(f)
  PROVE  (uncovered' = uncovered \/ uncovered' = {}) /\ caller' = caller
<1>1. ASSUME NEW again, NEW skip, Return(f, again, skip)
      PROVE  uncovered' = uncovered \/ uncovered' = {}
  BY <1>1 DEF Return, EndPass, Pass
<1>2. CASE Rejected(f) \/ DecideThrown(f) \/ Throw(f)
  <2>1. uncovered' = uncovered
    BY <1>2 DEF Rejected, DecideThrown, DecideCancel, DecideDefer, Decide, Throw
  <2>2. caller' = caller
    BY DEF Dispatch, Claim, Got, Classify, Prepare, Admit, Acknowledge, Start, Write
  <2> QED
    BY <2>1, <2>2
<1>3. CASE Claim(f)
  BY <1>1, <1>2, <1>3 DEF Claim
<1>4. CASE Got(f) \/ Classify(f)
  BY <1>4, <1>2 DEF Got, Classify, DecideCancel, DecideDefer, Decide
<1>5. CASE Prepare(f) \/ Admit(f) \/ Acknowledge(f)
  BY <1>5, <1>2 DEF Prepare, Admit, Accept, Acknowledge
<1>6. CASE Start(f)
  BY <1>6, <1>1, <1>2 DEF Start
<1>7. CASE Write(f)
  BY <1>7, <1>1, <1>2 DEF Write, WriteFailed, Settled
<1> QED
  BY <1>3, <1>4, <1>5, <1>6, <1>7 DEF Dispatch

LEMMA WakeStep ==
  ASSUME WakeInv, DispInv', [Next]_vars
  PROVE  WakeInv' /\ [Wakes!Next]_call
<1> USE FlowIs
<1>0. DispInv /\ uncovered \subseteq Caller /\ caller \in [Caller -> {"idle", "await", "woken"}]
  BY DEF WakeInv
<1>1. ASSUME uncovered' = uncovered \/ uncovered' = {},
             \A c \in Caller : caller'[c] = "idle" <=> caller[c] = "idle"
      PROVE  WakeInv' /\ [Wakes!Next]_call
  BY <1>1, CoverStep DEF Wakes!Next
<1>2. ASSUME NEW c \in Caller, Ask(c)
      PROVE  WakeInv' /\ [Wakes!Next]_call
  <2>1. /\ caller' = [caller EXCEPT ![c] = "await"]
        /\ call[c] = "idle"
    BY <1>0, <1>2, CallIs DEF Ask, Await, WakeInv
  <2>2. CASE uncovered' = uncovered \cup {c}
    <3>1. WakeInv'
      BY <1>0, <2>1, <2>2 DEF WakeInv
    <3>2. call' = [call EXCEPT ![c] = "asked"]
      BY <1>0, <2>1, <2>2, CallIs
    <3> QED
      BY <2>1, <3>1, <3>2 DEF Wakes!Ask, Wakes!Next
  <2>3. CASE uncovered' = {}
    <3>1. WakeInv'
      BY <2>3 DEF WakeInv
    <3>2. call' = [d \in Caller |->
                     IF d = c \/ call[d] = "asked" THEN "covered" ELSE call[d]]
      BY <1>0, <2>1, <2>3, CallIs DEF WakeInv
    <3> QED
      BY <2>1, <3>1, <3>2 DEF Wakes!AskAndBegin, Wakes!Next
  <2> QED
    BY <1>2, <2>2, <2>3 DEF Ask, Await, Pass
<1>3. ASSUME NEW c \in Caller, Resume(c)
      PROVE  WakeInv' /\ [Wakes!Next]_call
  <2>1. CASE c \in uncovered
    <3>1. uncovered' = uncovered \/ uncovered' = {}
      BY <1>3, <2>1 DEF Resume, Await, Pass
    <3>2. \A d \in Caller : caller'[d] = "idle" <=> caller[d] = "idle"
      BY <1>0, <1>3, <2>1 DEF Resume, Await
    <3> QED
      BY <3>1, <3>2, <1>1
  <2>2. CASE c \notin uncovered
    <3>1. /\ caller[c] = "woken"
          /\ caller' = [caller EXCEPT ![c] = "idle"]
          /\ uncovered' = uncovered
      BY <1>3, <2>2 DEF Resume
    <3>2. WakeInv'
      BY <1>0, <2>2, <3>1 DEF WakeInv
    <3>3. call[c] = "covered" /\ call' = [call EXCEPT ![c] = "idle"]
      <4>1. call[c] = "covered"
        BY <2>2, <3>1, CallIs
      <4>2. \A d \in Caller : d # c => call'[d] = call[d]
        BY <1>0, <3>1, CallIs
      <4>3. call'[c] = "idle"
        <5>1. c \notin uncovered' /\ caller'[c] = "idle"
          BY <1>0, <2>2, <3>1
        <5> QED
          BY <5>1, CallIs
      <4>4. call \in [Caller -> {"idle", "asked", "covered"}] /\ call' \in [Caller -> {"idle", "asked", "covered"}]
        BY CallIs
      <4> QED
        BY <4>1, <4>2, <4>3, <4>4
    <3> QED
      BY <3>2, <3>3 DEF Wakes!Answer, Wakes!Next
  <2> QED
    BY <2>1, <2>2
<1>4. ASSUME NEW f \in Flow, Dispatch(f)
      PROVE  WakeInv' /\ [Wakes!Next]_call
  BY <1>4, <1>1, DispatchCovers
<1>5. CASE Finish
  <2>1. \A c \in Caller : caller'[c] = "idle" <=> caller[c] = "idle"
    BY <1>5 DEF Finish
  <2> QED
    BY <1>5, <2>1, <1>1 DEF Finish
<1>6. CASE Crash
  <2>1. uncovered' = {} /\ caller' = [c \in Caller |-> "idle"]
    BY <1>6 DEF Crash
  <2>2. call' = [c \in Caller |-> "idle"]
    BY <2>1, CallIs
  <2> QED
    BY <2>1, <2>2 DEF WakeInv, Wakes!Crash, Wakes!Next
<1>7. CASE RecoverPass \/ ContinuePaused
  BY <1>7, <1>1 DEF RecoverPass, Throw, ContinuePaused
<1>8. CASE \E i \in Item : Enqueue(i) \/ Withdraw(i) \/ RequestCancel(i) \/ AnswerCancel(i)
  BY <1>8, <1>1 DEF Enqueue, Withdraw, RequestCancel, AnswerCancel, memory
<1>9. CASE Unpause \/ DirectTurn \/ AbortTurn \/ TurnEnds
             \/ Recover \/ BeginDeletion \/ Erase \/ Close \/ UNCHANGED vars
  BY <1>9, <1>1 DEF Unpause, DirectTurn, AbortTurn, TurnEnds, Recover, BeginDeletion,
                    Erase, Close, memory, vars
<1> QED
  BY <1>2, <1>3, <1>4, <1>5, <1>6, <1>7, <1>8, <1>9 DEF Next

(* The dispatcher implements the promise of its dispatch calls: whatever   *)
(* drains end while a call comes in, it is answered only after a pass that *)
(* began later.                                                            *)
THEOREM ImplementsDrainWakes == Spec => DrainWakes
<1>1. Init => Wakes!Init /\ \A c \in uncovered : caller[c] # "idle"
  BY DEF Init, Wakes!Init, call
<1>2. Init => DispInv
  BY InitInv, DispatchAssumption
<1>3. WakeInv /\ DispInv' /\ [Next]_vars => WakeInv' /\ [Wakes!Next]_call
  BY WakeStep
<1>4. DispInv /\ (\A c \in uncovered : caller[c] # "idle") => WakeInv
  BY DEF WakeInv
<1> QED
  BY <1>1, <1>2, <1>3, <1>4, Invariant, PTL DEF Spec, DrainWakes, Wakes!Spec

(* A drain's own steps end it in "ending" only: Finish is what clears it.   *)
LEMMA DrainRuns ==
  ASSUME DispInv, NEW f \in Flow, Dispatch(f), Running
  PROVE  Running'
<1> USE FlowIs
<1>1. CASE f # "drain"
  BY <1>1, OthersKeep DEF Others, Running, Flow
<1>2. CASE f = "drain"
  <2>1. ASSUME NEW again, NEW skip, Return(f, again, skip)
        PROVE  Running'
    BY <1>2, <2>1 DEF Return, EndPass, Pass, Away, Running, FlowType
  <2>2. ASSUME Throw(f)
        PROVE  Running'
    BY <1>2, <2>2 DEF Throw, Away, Running, FlowType
  <2>3. ASSUME GoesOn(f, PCs \ {"idle"})
        PROVE  Running'
    BY <1>2, <2>3 DEF GoesOn, Running
  <2>4. ASSUME NEW pc \in PCs \ {"idle"}, flow' = At(f, pc)
        PROVE  Running'
    BY <1>2, <2>4 DEF At, Running, FlowType
  <2>5. ASSUME Rejected(f) \/ DecideThrown(f)
        PROVE  Running'
    BY <2>3, <2>5, RejectedGoesOn, ThrownGoesOn DEF GoesOn, PCs
  <2>6. CASE Claim(f)
    <3>1. ASSUME NEW i, flow' = [flow EXCEPT ![f] = [pc |-> "got", item |-> i, out |-> None]]
          PROVE  Running'
      BY <1>2, <3>1 DEF Running, FlowType
    <3> QED
      BY <2>6, <2>1, <2>2, <3>1 DEF Claim
  <2>7. CASE Got(f)
    BY <1>2, <2>7, <2>4 DEF Got, Decide, Running, FlowType, PCs
  <2>8. CASE Classify(f)
    BY <1>2, <2>8, <2>4, <2>5
       DEF Classify, DecideCancel, DecideDefer, Decide, Running, FlowType, PCs
  <2>9. CASE Prepare(f)
    BY <2>9, <2>4, <2>5 DEF Prepare, PCs
  <2>10. CASE Admit(f)
    BY <2>10, <2>4, <2>5 DEF Admit, Accept, PCs
  <2>11. CASE Acknowledge(f)
    BY <2>11, <2>4, <2>5 DEF Acknowledge, PCs
  <2>12. CASE Start(f)
    BY <2>12, <2>1, <2>2 DEF Start
  <2>13. CASE Write(f)
    BY <2>13, <2>1, <2>2 DEF Write, WriteFailed, Settled
  <2> QED
    BY <2>6, <2>7, <2>8, <2>9, <2>10, <2>11, <2>12, <2>13 DEF Dispatch
<1> QED
  BY <1>1, <1>2

(* Whoever waits waits for a drain, and whoever wakes finds its end.        *)
AwaitDrain == \A c \in Caller : caller[c] = "await" => Running

LEMMA AwaitStep ==
  ASSUME DispInv, AwaitDrain, [Next]_vars
  PROVE  AwaitDrain'
<1> USE FlowIs
<1>0. caller \in [Caller -> {"idle", "await", "woken"}]
  BY DEF DispInv, DispTypeOK
<1>1. ASSUME caller' = caller, Running => Running'
      PROVE  AwaitDrain'
  BY <1>1 DEF AwaitDrain
<1>2. ASSUME NEW c \in Caller, Ask(c) \/ Resume(c)
      PROVE  AwaitDrain'
  <2>1. ASSUME NEW asked, Await(c, asked)
        PROVE  Running'
    BY <2>1 DEF Await, Pass, Away, Running, FlowType, Flow
  <2>2. CASE c \notin uncovered /\ Resume(c)
    <3>1. \A d \in Caller : caller'[d] = "await" => caller[d] = "await"
      BY <1>0, <2>2 DEF Resume
    <3>2. Running' = Running
      BY <2>2 DEF Resume, Running
    <3> QED
      BY <3>1, <3>2 DEF AwaitDrain
  <2>3. CASE ~(c \notin uncovered /\ Resume(c))
    BY <1>2, <2>1, <2>3 DEF Ask, Resume, AwaitDrain
  <2> QED
    BY <2>2, <2>3
<1>3. ASSUME NEW f \in Flow, Dispatch(f)
      PROVE  AwaitDrain'
  BY <1>1, <1>3, DrainRuns, DispatchCovers
<1>4. CASE Finish \/ Crash
  <2>1. \A c \in Caller : caller'[c] # "await"
    BY <1>0, <1>4 DEF Finish, Crash
  <2> QED
    BY <2>1 DEF AwaitDrain
<1>5. CASE RecoverPass
  BY <1>1, <1>5 DEF RecoverPass, Throw, Away, Running, FlowType, Flow
<1>6. CASE ContinuePaused
  BY <1>1, <1>6 DEF ContinuePaused, At, Running, FlowType, Flow
<1>7. CASE \E i \in Item : Enqueue(i) \/ Withdraw(i) \/ RequestCancel(i) \/ AnswerCancel(i)
  BY <1>7, <1>1 DEF Enqueue, Withdraw, RequestCancel, AnswerCancel, memory, Running
<1>8. CASE Unpause \/ DirectTurn \/ AbortTurn \/ TurnEnds
             \/ Recover \/ BeginDeletion \/ Erase \/ Close \/ UNCHANGED vars
  BY <1>8, <1>1 DEF Unpause, DirectTurn, AbortTurn, TurnEnds, Recover, BeginDeletion,
                    Erase, Close, memory, vars, Running
<1> QED
  BY <1>2, <1>3, <1>4, <1>5, <1>6, <1>7, <1>8 DEF Next

(* No wake is left to nobody: a caller waits only while a drain runs, and   *)
(* one that no pass has covered is still there to start the next (dispatch  *)
(* and drainAndRelease of queue.dispatcher.ts). It is the safety that       *)
(* WakesAnswered rests on.                                                  *)
THEOREM CallersHaveADrain == Spec => []CallersAttended
<1>1. Init => AwaitDrain /\ \A c \in uncovered : caller[c] # "idle"
  BY DEF Init, AwaitDrain
<1>2. WakeInv /\ DispInv' /\ [Next]_vars => WakeInv'
  BY WakeStep
<1>3. DispInv /\ (\A c \in uncovered : caller[c] # "idle") => WakeInv
  BY DEF WakeInv
<1>4. DispInv /\ AwaitDrain /\ [Next]_vars => AwaitDrain'
  BY AwaitStep
<1>5. WakeInv /\ AwaitDrain => CallersAttended
  BY DEF WakeInv, AwaitDrain, CallersAttended
<1> QED
  BY <1>1, <1>2, <1>3, <1>4, <1>5, Invariant, PTL DEF Spec

-----------------------------------------------------------------------------
(* The delivery *)

(* Where a prompt is, read off its row, its starts and the Turn.           *)
PromptIs ==
  /\ prompt \in [Item -> Delivery!Status]
  /\ \A i \in Item :
       /\ row[i] = "absent" => prompt[i] = "none"
       /\ row[i] = "queued" => prompt[i] = "waiting"
       /\ row[i] \in Claims => prompt[i] = "offered"
       /\ row[i] = "gone" => prompt[i] = "dropped"
       /\ row[i] = "acked" /\ started[i] > 0 => prompt[i] = "run"
       /\ row[i] = "acked" /\ ~(started[i] > 0) /\ turn.item = i => prompt[i] = "taken"
       /\ row[i] = "acked" /\ ~(started[i] > 0) /\ turn.item # i => prompt[i] = "dropped"

LEMMA PromptNow ==
  ASSUME DispTypeOK
  PROVE  PromptIs
<1>1. \A i \in Item : row[i] \in {"absent", "queued", "drain", "continued", "dead", "acked", "gone"}
  BY DEF DispTypeOK
<1> QED
  BY <1>1 DEF PromptIs, prompt, Claims, Delivery!Status

LEMMA PromptFacts ==
  ASSUME DispTypeOK, DispTypeOK'
  PROVE  PromptIs /\ PromptIs'
<1>1. PromptIs
  BY PromptNow
<1>2. PromptIs'
  <2>1. \A i \in Item : row'[i] \in {"absent", "queued", "drain", "continued", "dead", "acked", "gone"}
    BY DEF DispTypeOK
  <2> QED
    BY <2>1 DEF PromptIs, prompt, Claims, Delivery!Status
<1> QED
  BY <1>1, <1>2

(* A prompt whose row, starts and Turn stay as they are stays where it is. *)
Unmoved(i) ==
  /\ row'[i] = row[i]
  /\ started'[i] = started[i]
  /\ row[i] = "acked" /\ ~(started[i] > 0) => (turn'.item = i <=> turn.item = i)

LEMMA UnmovedStays ==
  ASSUME DispTypeOK, DispTypeOK', NEW i \in Item, Unmoved(i)
  PROVE  prompt'[i] = prompt[i]
<1>1. row[i] \in {"absent", "queued", "drain", "continued", "dead", "acked", "gone"}
  BY DEF DispTypeOK
<1> QED
  BY <1>1, PromptFacts DEF PromptIs, Unmoved, Claims

LEMMA SamePrompts ==
  ASSUME DispTypeOK, DispTypeOK', \A i \in Item : prompt'[i] = prompt[i]
  PROVE  prompt' = prompt
<1>1. prompt \in [Item -> Delivery!Status] /\ prompt' \in [Item -> Delivery!Status]
  BY PromptFacts DEF PromptIs
<1> QED
  BY <1>1

LEMMA NoMove ==
  ASSUME DispTypeOK, DispTypeOK', \A i \in Item : Unmoved(i), UNCHANGED started
  PROVE  [Delivery!Next]_(Delivery!vars)
<1>1. prompt' = prompt
  BY UnmovedStays, PromptFacts DEF PromptIs
<1> QED
  BY <1>1 DEF Delivery!vars

(* One prompt moves from one state to another. *)
LEMMA OneMove ==
  ASSUME DispTypeOK, DispTypeOK', NEW i \in Item, \A j \in Item \ {i} : Unmoved(j)
  PROVE  Delivery!At(i, prompt'[i])
BY UnmovedStays, PromptFacts DEF PromptIs, Delivery!At

LEMMA SameRows ==
  ASSUME DispTypeOK, DispTypeOK', UNCHANGED <<row, started>>,
         \A i \in Item : row[i] = "acked" => (turn'.item = i <=> turn.item = i)
  PROVE  [Delivery!Next]_(Delivery!vars)
BY NoMove DEF Unmoved

(* A flow's release or a recovery takes a prompt back. *)
LEMMA ReleaseDelivers ==
  ASSUME DispInv, DispTypeOK', NEW S \in SUBSET Item, S \subseteq Rows(Claims), Release(S),
         UNCHANGED <<turn, started>>
  PROVE  [Delivery!Next]_(Delivery!vars)
<1>0. DispTypeOK
  BY DEF DispInv
<1>1. CASE S = {}
  <2>1. row' = row
    BY <1>0, <1>1 DEF Release, DispTypeOK
  <2> QED
    BY <1>0, <2>1, SameRows
<1>2. CASE S # {}
  <2>1. PICK i \in S : TRUE
    BY <1>2
  <2>2. row[i] \in Claims /\ \A j \in S : j = i
    BY <2>1 DEF Rows, DispInv, OneClaim
  <2>3. row'[i] = "queued" /\ \A j \in Item \ {i} : row'[j] = row[j]
    BY <2>1, <2>2 DEF Release
  <2>4. Delivery!At(i, prompt'[i])
    BY <1>0, <2>1, <2>3, OneMove DEF Unmoved
  <2>5. prompt[i] = "offered" /\ prompt'[i] = "waiting"
    BY <1>0, <2>1, <2>2, <2>3, PromptFacts DEF PromptIs
  <2> QED
    BY <2>1, <2>4, <2>5 DEF Delivery!TakeBack, Delivery!Next
<1> QED
  BY <1>1, <1>2

(* A prompt is withdrawn, or cancelled by the flow that claimed it.        *)
LEMMA RemoveDelivers ==
  ASSUME DispInv, DispTypeOK', NEW i \in Item, row[i] \in Present, Remove({i}),
         UNCHANGED <<turn, started>>
  PROVE  [Delivery!Next]_(Delivery!vars)
<1>0. DispTypeOK
  BY DEF DispInv
<1>1. row'[i] = "gone" /\ \A j \in Item \ {i} : row'[j] = row[j]
  BY DEF Remove
<1>2. Delivery!At(i, prompt'[i])
  BY <1>0, <1>1, OneMove DEF Unmoved
<1>3. prompt[i] \in {"waiting", "offered"} /\ prompt'[i] = "dropped"
  BY <1>0, <1>1, PromptFacts DEF PromptIs, Present, Claims
<1> QED
  BY <1>2, <1>3 DEF Delivery!Drop, Delivery!Next

(* The Turn ends, at once or in a crash.                                   *)
LEMMA TurnGoneDelivers ==
  ASSUME DispatchAssumption, DispInv, DispTypeOK', turn' = NoTurn, UNCHANGED started,
         \A i \in Item : row'[i] = row[i] \/ (row[i] \in Claims /\ row'[i] \in Claims)
  PROVE  [Delivery!Next]_(Delivery!vars)
<1>0. DispTypeOK /\ turn'.item \notin Item
  BY DEF DispInv, NoTurn, DispatchAssumption
<1>1. \A i \in Item : turn.item # i => prompt'[i] = prompt[i]
  <2> SUFFICES ASSUME NEW i \in Item, turn.item # i
               PROVE  prompt'[i] = prompt[i]
    OBVIOUS
  <2>1. CASE row'[i] = row[i]
    BY <1>0, <2>1, UnmovedStays DEF Unmoved
  <2>2. CASE row[i] \in Claims /\ row'[i] \in Claims
    BY <1>0, <2>2, PromptFacts DEF PromptIs
  <2> QED
    BY <2>1, <2>2
<1>2. CASE turn.item \notin Item
  <2>0. \A i \in Item : prompt'[i] = prompt[i]
    BY <1>1, <1>2
  <2>1. prompt' = prompt
    BY <1>0, <2>0, SamePrompts
  <2> QED
    BY <2>1 DEF Delivery!vars
<1>3. CASE turn.item \in Item /\ prompt'[turn.item] = prompt[turn.item]
  <2>0. \A i \in Item : prompt'[i] = prompt[i]
    BY <1>1, <1>3
  <2>1. prompt' = prompt
    BY <1>0, <2>0, SamePrompts
  <2> QED
    BY <2>1 DEF Delivery!vars
<1>4. CASE turn.item \in Item /\ prompt'[turn.item] # prompt[turn.item]
  <2> DEFINE i == turn.item
  <2>1. row[i] = "acked" /\ row'[i] = row[i] /\ ~(started[i] > 0)
    <3>1. row[i] \in {"absent", "queued", "drain", "continued", "dead", "acked", "gone"}
      BY <1>0, <1>4 DEF DispTypeOK
    <3> QED
      BY <1>0, <1>4, <3>1, PromptFacts DEF PromptIs, Claims
  <2>2. prompt[i] = "taken" /\ prompt'[i] = "dropped"
    BY <1>0, <1>4, <2>1, PromptFacts DEF PromptIs
  <2>3. prompt' = [prompt EXCEPT ![i] = "dropped"]
    BY <1>0, <1>1, <1>4, <2>2, PromptFacts DEF PromptIs
  <2> QED
    BY <1>4, <2>2, <2>3 DEF Delivery!Drop, Delivery!At, Delivery!Next
<1> QED
  BY <1>2, <1>3, <1>4

LEMMA EnqueueDelivers ==
  ASSUME DispInv, DispTypeOK', NEW i \in Item, Enqueue(i)
  PROVE  [Delivery!Next]_(Delivery!vars)
<1>0. DispTypeOK
  BY DEF DispInv
<1>1. row[i] = "absent" /\ row'[i] = "queued" /\ \A j \in Item \ {i} : row'[j] = row[j]
  BY <1>0 DEF Enqueue, DispTypeOK
<1>2. Delivery!At(i, prompt'[i])
  BY <1>0, <1>1, OneMove DEF Unmoved, Enqueue
<1>3. prompt[i] = "none" /\ prompt'[i] = "waiting"
  BY <1>0, <1>1, PromptFacts DEF PromptIs
<1> QED
  BY <1>2, <1>3 DEF Enqueue, Delivery!Submit, Delivery!Next

LEMMA ClaimDelivers ==
  ASSUME DispInv, DispTypeOK', NEW f \in Flow, Claim(f)
  PROVE  [Delivery!Next]_(Delivery!vars)
<1>0. DispTypeOK
  BY DEF DispInv
<1>1. ASSUME NEW i \in Claimable(f), row' = [row EXCEPT ![i] = f]
      PROVE  [Delivery!Next]_(Delivery!vars)
  <2>1. i \in Item /\ row[i] = "queued" /\ Rows(Claims) = {}
    BY <1>1, FirstIn DEF Claimable, Rows
  <2>2. row'[i] \in Claims /\ \A j \in Item \ {i} : row'[j] = row[j]
    BY <1>0, <1>1, <2>1 DEF DispTypeOK, Claims, Flow
  <2>3. Delivery!At(i, prompt'[i])
    BY <1>0, <2>1, <2>2, OneMove DEF Unmoved, Claim
  <2>4. prompt[i] = "waiting" /\ prompt'[i] = "offered"
    BY <1>0, <2>1, <2>2, PromptFacts DEF PromptIs
  <2>5. \A j \in Item : prompt[j] # "offered"
    <3>1. \A j \in Item : /\ row[j] \notin Claims
                          /\ row[j] \in {"absent", "queued", "drain", "continued", "dead", "acked", "gone"}
      BY <1>0, <2>1 DEF Rows, DispTypeOK
    <3> QED
      BY <1>0, <3>1, PromptFacts DEF PromptIs, Claims
  <2> QED
    BY <2>1, <2>3, <2>4, <2>5 DEF Claim, Delivery!Offer, Delivery!Next
<1>2. CASE UNCHANGED queue
  BY <1>0, <1>2, SameRows DEF Claim, queue
<1> QED
  BY <1>1, <1>2 DEF Claim

LEMMA AdmitDelivers ==
  ASSUME DispatchAssumption, DispInv, DispTypeOK', NEW f \in Flow, Admit(f)
  PROVE  [Delivery!Next]_(Delivery!vars)
<1>0. DispTypeOK
  BY DEF DispInv
<1>1. CASE Accept(f)
  <2>1. /\ row[flow[f].item] = f
        /\ turn.item \notin Item
        /\ turn'.item = flow[f].item
        /\ UNCHANGED <<row, started>>
    BY <1>1 DEF Accept, Admissible, NoTurn, TurnOf, DispatchAssumption, Admit
  <2>2. \A i \in Item : row[i] = "acked" => (turn'.item = i <=> turn.item = i)
    BY <2>1 DEF Flow
  <2> QED
    BY <1>0, <2>1, <2>2, SameRows
<1>2. CASE UNCHANGED <<queue, turn, waiters>>
  BY <1>0, <1>2, SameRows DEF Admit, queue
<1> QED
  BY <1>1, <1>2 DEF Admit

(* The Turn takes its prompt, or is over already and the prompt is dropped.*)
LEMMA AcknowledgeDelivers ==
  ASSUME DispInv, DispTypeOK', NEW f \in Flow, Acknowledge(f)
  PROVE  [Delivery!Next]_(Delivery!vars)
<1> DEFINE i == flow[f].item
<1>0. DispTypeOK /\ i \in Item
  BY DEF DispInv, Acknowledge, FlowInv, Working
<1>1. CASE row[i] = f /\ row' = [row EXCEPT ![i] = "acked"] /\ UNCHANGED turn
  <2>1. started[i] = 0 /\ row[i] \in Claims
    BY <1>0, <1>1 DEF DispInv, RowInv, Claims, Flow
  <2>2. row'[i] = "acked" /\ \A j \in Item \ {i} : row'[j] = row[j]
    BY <1>0, <1>1 DEF DispTypeOK
  <2>3. UNCHANGED started
    BY DEF Acknowledge
  <2>4. Delivery!At(i, prompt'[i])
    BY <1>0, <1>1, <2>2, <2>3, OneMove DEF Unmoved
  <2>5. CASE turn.item = i
    <3>1. prompt[i] = "offered" /\ prompt'[i] = "taken"
      BY <1>0, <1>1, <2>1, <2>2, <2>3, <2>5, PromptFacts DEF PromptIs
    <3>2. \A j \in Item : prompt[j] # "taken"
      <4>1. \A j \in Item : row[j] \in {"absent", "queued", "drain", "continued", "dead", "acked", "gone"}
        BY <1>0 DEF DispTypeOK
      <4> QED
        BY <1>0, <2>5, <3>1, <4>1, PromptFacts DEF PromptIs, Claims
    <3> QED
      BY <1>0, <2>3, <2>4, <3>1, <3>2 DEF Delivery!Take, Delivery!Next
  <2>6. CASE turn.item # i
    <3>1. prompt[i] = "offered" /\ prompt'[i] = "dropped"
      BY <1>0, <1>1, <2>1, <2>2, <2>3, <2>6, PromptFacts DEF PromptIs
    <3> QED
      BY <1>0, <2>3, <2>4, <3>1 DEF Delivery!Drop, Delivery!Next
  <2> QED
    BY <2>5, <2>6
<1>2. CASE UNCHANGED queue /\ FailFence(f)
  <2>1. turn'.item = turn.item
    BY <1>2 DEF FailFence, TurnOf
  <2> QED
    BY <1>0, <1>2, <2>1, SameRows DEF Acknowledge, queue
<1> QED
  BY <1>1, <1>2 DEF Acknowledge

(* The host runs the prompt: it was taken, and had not been run.           *)
LEMMA StartDelivers ==
  ASSUME DispInv, DispTypeOK', NEW f \in Flow, Start(f)
  PROVE  [Delivery!Next]_(Delivery!vars)
<1> DEFINE i == flow[f].item
<1>0. DispTypeOK /\ i \in Item /\ row[i] = "acked" /\ row' = row
  BY DEF DispInv, Start, FlowInv, Working, queue
<1>1. CASE /\ turn = TurnOf(f, "fenced")
           /\ turn' = TurnOf(f, "running")
           /\ started' = [started EXCEPT ![i] = IF @ < 2 THEN @ + 1 ELSE 2]
  <2>1. turn.item = i /\ turn'.item = i
    BY <1>1 DEF TurnOf
  <2>2. started[i] = 0
    <3>1. PICK g \in Flow : turn = TurnOf(g, turn.st) /\ started[flow[g].item] = 0
      BY <1>1 DEF TurnOf, DispInv, TurnInv
    <3> QED
      BY <2>1, <3>1 DEF TurnOf
  <2>3. started' = [started EXCEPT ![i] = 1]
    BY <1>1, <2>2
  <2>4. started'[i] = 1 /\ \A j \in Item \ {i} : started'[j] = started[j]
    BY <1>0, <2>3 DEF DispTypeOK
  <2>5. Delivery!At(i, prompt'[i])
    BY <1>0, <2>1, <2>4, OneMove DEF Unmoved
  <2>6. prompt[i] = "taken" /\ prompt'[i] = "run"
    BY <1>0, <2>1, <2>2, <2>4, PromptFacts DEF PromptIs
  <2> QED
    BY <1>0, <2>2, <2>3, <2>5, <2>6 DEF Delivery!Run, Delivery!Next
<1>2. CASE UNCHANGED started /\ turn'.item = turn.item
  BY <1>0, <1>2, SameRows
<1>3. (turn' = (IF turn = TurnOf(f, "doomed") THEN TurnOf(f, "stopped") ELSE turn) \/ FailFence(f))
        => turn'.item = turn.item
  BY DEF TurnOf, FailFence
<1> QED
  BY <1>1, <1>2, <1>3 DEF Start

LEMMA WriteDelivers ==
  ASSUME DispInv, DispTypeOK', NEW f \in Flow, Write(f)
  PROVE  [Delivery!Next]_(Delivery!vars)
<1> DEFINE i == flow[f].item
<1>0. DispTypeOK /\ i \in Item /\ UNCHANGED <<turn, started>>
  BY DEF DispInv, Write, FlowInv, Working
<1>1. CASE UNCHANGED queue
  BY <1>0, <1>1, SameRows DEF queue
<1>2. CASE row[i] = f /\ Release({i})
  <2>1. {i} \in SUBSET Item /\ {i} \subseteq Rows(Claims)
    BY <1>0, <1>2 DEF Rows, Claims, Flow
  <2> QED
    BY <1>0, <1>2, <2>1, ReleaseDelivers
<1>3. CASE row[i] = f /\ Remove({i})
  <2>1. row[i] \in Present
    BY <1>3 DEF Present, Flow
  <2> QED
    BY <1>0, <1>3, <2>1, RemoveDelivers
<1> QED
  BY <1>1, <1>2, <1>3 DEF Write, Settled, WriteFailed

LEMMA EraseDelivers ==
  ASSUME DispatchAssumption, DispInv, DispTypeOK', Erase
  PROVE  [Delivery!Next]_(Delivery!vars)
<1>0. DispTypeOK /\ UNCHANGED <<turn, started>> /\ turn.item \notin Item
  BY DEF DispInv, Erase, NoTurn, DispatchAssumption
<1>1. \A i \in Item : row'[i] = IF row[i] \in Present THEN "gone" ELSE row[i]
  BY DEF Erase, Remove, Rows
<1>2. \A i \in Item : row[i] \in {"absent", "queued", "drain", "continued", "dead", "acked", "gone"}
  BY <1>0 DEF DispTypeOK
<1>3. \A i \in Item : row[i] \in Present => /\ prompt[i] \in {"waiting", "offered"}
                                            /\ prompt'[i] = "dropped"
  BY <1>0, <1>1, PromptFacts DEF PromptIs, Present, Claims
<1>4. \A i \in Item : row[i] \notin Present =>
                        /\ prompt[i] \in {"none", "run", "dropped"}
                        /\ prompt'[i] = prompt[i]
  <2> SUFFICES ASSUME NEW i \in Item, row[i] \notin Present
               PROVE  prompt[i] \in {"none", "run", "dropped"} /\ prompt'[i] = prompt[i]
    OBVIOUS
  <2>1. prompt'[i] = prompt[i]
    BY <1>0, <1>1, UnmovedStays DEF Unmoved
  <2>2. row[i] \in {"absent", "acked", "gone"}
    BY <1>2 DEF Present
  <2>3. prompt[i] \in {"none", "run", "dropped"}
    BY <1>0, <2>2, PromptFacts DEF PromptIs
  <2> QED
    BY <2>1, <2>3
<1>5. prompt' = [i \in Item |-> IF prompt[i] \in {"waiting", "offered", "taken"}
                                THEN "dropped" ELSE prompt[i]]
  BY <1>0, <1>3, <1>4, PromptFacts DEF PromptIs
<1> QED
  BY <1>0, <1>5 DEF Delivery!DropAll, Delivery!Next

LEMMA DeliveryStep ==
  ASSUME DispatchAssumption, DispInv, DispInv', [Next]_vars
  PROVE  [Delivery!Next]_(Delivery!vars)
<1>0. DispTypeOK /\ DispTypeOK'
  BY DEF DispInv
<1>1. ASSUME UNCHANGED <<row, started>>, turn'.item = turn.item
      PROVE  [Delivery!Next]_(Delivery!vars)
  BY <1>0, <1>1, SameRows
<1>2. ASSUME NEW i \in Item, Enqueue(i) \/ Withdraw(i) \/ RequestCancel(i) \/ AnswerCancel(i)
      PROVE  [Delivery!Next]_(Delivery!vars)
  <2>1. CASE Enqueue(i)
    BY <1>0, <2>1, EnqueueDelivers
  <2>2. CASE Withdraw(i)
    BY <1>0, <2>2, RemoveDelivers DEF Withdraw, Present
  <2>3. CASE RequestCancel(i) \/ AnswerCancel(i)
    BY <2>3, <1>1 DEF RequestCancel, AnswerCancel, queue
  <2> QED
    BY <1>2, <2>1, <2>2, <2>3
<1>3. ASSUME NEW c \in Caller, Ask(c) \/ Resume(c)
      PROVE  [Delivery!Next]_(Delivery!vars)
  BY <1>3, <1>1 DEF Ask, Resume, queue
<1>4. ASSUME NEW f \in Flow, Dispatch(f)
      PROVE  [Delivery!Next]_(Delivery!vars)
  <2>1. CASE Got(f) \/ Classify(f) \/ Prepare(f)
    BY <2>1, <1>1 DEF Got, Classify, Prepare, queue
  <2> QED
    BY <1>0, <1>4, <2>1, ClaimDelivers, AdmitDelivers, AcknowledgeDelivers, StartDelivers,
       WriteDelivers DEF Dispatch
<1>5. CASE RecoverPass \/ Recover
  <2>1. UNCHANGED <<turn, started>>
    BY <1>5 DEF RecoverPass, Recover
  <2>2. CASE RecoverClaims
    <3>1. PICK S \in SUBSET Item : S \subseteq Rows(Claims) /\ Release(S)
      <4>1. \A S \in SUBSET Claims : Rows(S) \in SUBSET Item /\ Rows(S) \subseteq Rows(Claims)
        BY DEF Rows
      <4> QED
        BY <2>2, <4>1 DEF RecoverClaims, Claims
    <3> QED
      BY <1>0, <2>1, <3>1, ReleaseDelivers
  <2>3. CASE UNCHANGED queue
    BY <2>1, <2>3, <1>1 DEF queue
  <2> QED
    BY <1>5, <2>2, <2>3 DEF RecoverPass, Recover
<1>6. CASE Finish \/ ContinuePaused \/ Unpause \/ BeginDeletion \/ UNCHANGED vars
  BY <1>6, <1>1 DEF Finish, ContinuePaused, Unpause, BeginDeletion, queue, vars
<1>7. CASE DirectTurn \/ AbortTurn \/ Close
  <2>1. UNCHANGED <<row, started>>
    BY <1>7 DEF DirectTurn, AbortTurn, Close, queue
  <2>3. CASE AbortTurn \/ Close
    <3>1. turn' \in {turn, [turn EXCEPT !.st = "doomed"]}
      BY <2>3 DEF AbortTurn, Close
    <3>2. turn'.item = turn.item
      BY <1>0, <3>1 DEF DispTypeOK
    <3> QED
      BY <2>1, <3>2, <1>1
  <2>4. CASE turn'.item = turn.item
    BY <2>1, <2>4, <1>1
  <2>5. DirectTurn => turn'.item = turn.item
    BY DEF DirectTurn, NoTurn
  <2> QED
    BY <1>7, <2>3, <2>4, <2>5
<1>8. CASE TurnEnds \/ Crash
  <2>1. \A i \in Item : row'[i] = row[i] \/ (row[i] \in Claims /\ row'[i] \in Claims)
    <3>1. CASE TurnEnds
      BY <3>1 DEF TurnEnds
    <3>2. CASE Crash
      BY <3>2 DEF Crash, Claims, Flow
    <3> QED
      BY <1>8, <3>1, <3>2
  <2> QED
    BY <1>0, <1>8, <2>1, TurnGoneDelivers DEF TurnEnds, Crash
<1>9. CASE Erase
  BY <1>0, <1>9, EraseDelivers
<1> QED
  BY <1>2, <1>3, <1>4, <1>5, <1>6, <1>7, <1>8, <1>9 DEF Next

(* The dispatcher, the queue and the start fence together deliver each     *)
(* prompt as PromptDelivery says: through one claim at a time, to one      *)
(* Turn, and into at most one run, with crashes and failures at every step.*)
THEOREM ImplementsPromptDelivery == Spec => PromptDelivery
<1>1. ASSUME Init
      PROVE  Delivery!Init
  <2>1. \A i \in Item : row[i] = "absent"
    BY <1>1 DEF Init
  <2>2. PromptIs
    BY <1>1, InitInv, DispatchAssumption, PromptNow DEF DispInv
  <2>3. \A i \in Item : prompt[i] = "none"
    BY <2>1, <2>2 DEF PromptIs
  <2>4. prompt = [i \in Item |-> "none"]
    BY <2>2, <2>3 DEF PromptIs
  <2> QED
    BY <1>1, <2>4 DEF Init, Delivery!Init
<1>2. DispInv /\ DispInv' /\ [Next]_vars => [Delivery!Next]_(Delivery!vars)
  BY DeliveryStep, DispatchAssumption
<1> QED
  BY <1>1, <1>2, Invariant, PTL DEF Spec, PromptDelivery, Delivery!Spec

-----------------------------------------------------------------------------
(* What the dispatcher does to the line of prompts *)

(* Prompts come in the order of their numbers. *)
Numbered == \A i, j \in Item : j < i /\ row[j] = "absent" => row[i] = "absent"

(* In most steps no row comes into the queue or under a claim; rows stay,  *)
(* are given back or leave.                                                *)
OnlyLeave ==
  \A i \in Item : /\ row'[i] \in Present => row[i] \in Present
                  /\ row'[i] \in Claims => row[i] \in Claims
                  /\ row'[i] = "absent" <=> row[i] = "absent"

LEMMA OthersOnlyLeave ==
  ASSUME DispInv, [Next]_vars,
         \A i \in Item : ~Enqueue(i),
         \A f \in Flow : \A i \in Claimable(f) : row' # [row EXCEPT ![i] = f]
  PROVE  OnlyLeave
<1>0. DispTypeOK
  BY DEF DispInv
<1>1. ASSUME row' = row
      PROVE  OnlyLeave
  BY <1>1 DEF OnlyLeave
<1>2. ASSUME NEW S, Release(S), S \subseteq Rows(Claims)
      PROVE  OnlyLeave
  BY <1>2 DEF OnlyLeave, Release, Rows, Present, Claims
<1>3. ASSUME NEW S, Remove(S), S \subseteq Rows(Present)
      PROVE  OnlyLeave
  BY <1>3 DEF OnlyLeave, Remove, Rows, Present, Claims
<1>4. ASSUME NEW i \in Item, Withdraw(i) \/ RequestCancel(i) \/ AnswerCancel(i)
      PROVE  OnlyLeave
  <2>1. row[i] = "queued" => {i} \subseteq Rows(Present)
    BY DEF Rows, Present
  <2> QED
    BY <1>1, <1>3, <1>4, <2>1 DEF Withdraw, RequestCancel, AnswerCancel, queue
<1>5. ASSUME NEW c \in Caller, Ask(c) \/ Resume(c)
      PROVE  OnlyLeave
  BY <1>1, <1>5 DEF Ask, Resume, queue
<1>6. ASSUME NEW f \in Flow, Dispatch(f)
      PROVE  OnlyLeave
  <2>1. CASE Claim(f) \/ Got(f) \/ Classify(f) \/ Prepare(f) \/ Admit(f) \/ Start(f)
    BY <1>1, <2>1 DEF Claim, Got, Classify, Prepare, Admit, Accept, Start, queue
  <2>2. CASE Acknowledge(f)
    <3>1. CASE row[flow[f].item] = f /\ row' = [row EXCEPT ![flow[f].item] = "acked"]
      <4>1. \A i \in Item : \/ row'[i] = row[i]
                            \/ row[i] \in Flow /\ row'[i] = "acked"
        BY <1>0, <3>1 DEF DispTypeOK
      <4> QED
        BY <4>1 DEF OnlyLeave, Present, Claims, Flow
    <3> QED
      BY <1>1, <2>2, <3>1 DEF Acknowledge, queue
  <2>3. CASE Write(f)
    <3>1. flow[f].item \in Item
      BY <2>3 DEF Write, DispInv, FlowInv, Working
    <3>2. row[flow[f].item] = f => /\ {flow[f].item} \subseteq Rows(Claims)
                                   /\ {flow[f].item} \subseteq Rows(Present)
      BY <3>1 DEF Rows, Claims, Present, Flow
    <3> QED
      BY <1>1, <1>2, <1>3, <2>3, <3>1, <3>2 DEF Write, Settled, WriteFailed, queue
  <2> QED
    BY <1>6, <2>1, <2>2, <2>3 DEF Dispatch
<1>7. CASE RecoverPass \/ Recover
  <2>1. \A S \in SUBSET Claims : Rows(S) \subseteq Rows(Claims)
    BY DEF Rows
  <2>2. RecoverClaims => OnlyLeave
    BY <1>2, <2>1 DEF RecoverClaims, Claims
  <2> QED
    BY <1>1, <1>7, <2>2 DEF RecoverPass, Recover, queue
<1>8. CASE \/ Finish \/ ContinuePaused \/ Unpause \/ DirectTurn \/ AbortTurn \/ TurnEnds
           \/ BeginDeletion \/ Close \/ UNCHANGED vars
  BY <1>1, <1>8 DEF Finish, ContinuePaused, Unpause, DirectTurn, AbortTurn, TurnEnds,
     BeginDeletion, Close, queue, vars
<1>9. CASE Erase
  BY <1>3, <1>9 DEF Erase
<1>10. CASE Crash
  BY <1>10 DEF Crash, OnlyLeave, Present, Claims, Flow
<1> QED
  BY <1>4, <1>5, <1>6, <1>7, <1>8, <1>9, <1>10 DEF Next

(* So a prompt that has come has come after all those before it.           *)
LEMMA NumberedKept ==
  ASSUME DispInv, Numbered, [Next]_vars
  PROVE  Numbered'
<1>1. CASE OnlyLeave
  <2> SUFFICES ASSUME NEW i \in Item, NEW j \in Item, j < i, row'[j] = "absent"
               PROVE  row'[i] = "absent"
    BY DEF Numbered
  <2>1. row[j] = "absent" /\ row[i] = "absent"
    BY <1>1 DEF OnlyLeave, Numbered
  <2> QED
    BY <1>1, <2>1 DEF OnlyLeave
<1>2. CASE \E i \in Item : Enqueue(i)
  BY <1>2 DEF Enqueue, Numbered, DispInv, DispTypeOK
<1>3. CASE \E f \in Flow : \E i \in Claimable(f) : row' = [row EXCEPT ![i] = f]
  BY <1>3, FirstIn DEF Claimable, Rows, Numbered, DispInv, DispTypeOK, Flow
<1> QED
  BY <1>1, <1>2, <1>3, OthersOnlyLeave

(* The numbers are the order in which the prompts came.                    *)
THEOREM PromptsNumbered == Spec => []Numbered
<1>1. Init => Numbered
  BY DEF Init, Numbered
<1>2. DispInv /\ Numbered /\ [Next]_vars => Numbered'
  BY NumberedKept
<1> QED
  BY <1>1, <1>2, Invariant, PTL DEF Spec

(* The order of the numbers is the order of those who are there.           *)
LEMMA NumbersOrder ==
  ASSUME Rows(Present)' \subseteq Rows(Present)
  PROVE  {p \in Rows(Present)' \X Rows(Present)' : p[1] < p[2]} = Line!Among(Rows(Present)')
<1> DEFINE here == Rows(Present)
           next == Rows(Present)'
<1>1. Line!Among(next) = {p \in here \X here : p[1] < p[2]} \cap (next \X next)
  BY DEF Line!Among
<1>2. next \subseteq here
  OBVIOUS
<1> HIDE DEF here, next
<1>3. {p \in next \X next : p[1] < p[2]} = Line!Among(next)
  BY <1>1, <1>2
<1> QED
  BY <1>3 DEF next

LEMMA OnlyLeaveIsLine ==
  ASSUME OnlyLeave
  PROVE  Line!Leave
<1>1. /\ Rows(Present)' \subseteq Rows(Present)
      /\ Rows(Claims)' \subseteq Rows(Claims) \cap Rows(Present)'
  BY DEF OnlyLeave, Rows, Present, Claims
<1> QED
  BY <1>1, NumbersOrder DEF Line!Leave

(* A claim holds the prompt while no other is held.                        *)
LEMMA ClaimIsLine ==
  ASSUME DispInv, NEW f \in Flow, NEW i \in Claimable(f), row' = [row EXCEPT ![i] = f]
  PROVE  i \in Item /\ Line!Hold(i)
<1>1. i \in Rows({"queued"}) /\ Rows(Claims) = {}
  BY FirstIn DEF Claimable
<1>2. i \in Item /\ row[i] = "queued" /\ \A j \in Item : row'[j] = IF j = i THEN f ELSE row[j]
  BY <1>1 DEF Rows, DispInv, DispTypeOK
<1>3. Rows(Present)' = Rows(Present) /\ i \in Rows(Present)'
  BY <1>2 DEF Rows, Present, Flow
<1>4. Rows(Claims)' = {i}
  BY <1>1, <1>2 DEF Rows, Claims, Flow
<1> QED
  BY <1>1, <1>2, <1>3, <1>4, NumbersOrder DEF Line!Hold

(* A new prompt is behind all that are there.                              *)
LEMMA EnqueueIsLine ==
  ASSUME DispatchAssumption, DispInv, Numbered, NEW i \in Item, Enqueue(i)
  PROVE  Line!JoinEnd(i)
<1> DEFINE before == Rows(Present)
<1>1. row[i] = "absent" /\ \A j \in Item : row'[j] = IF j = i THEN "queued" ELSE row[j]
  BY DEF Enqueue, DispInv, DispTypeOK
<1>2. Rows(Present)' = before \cup {i} /\ i \notin before /\ Rows(Claims)' = Rows(Claims)
      /\ i \notin Rows(Claims) /\ Rows(Claims) \subseteq before
  BY <1>1 DEF Rows, Present, Claims
<1>3. \A j \in before : j < i /\ ~(i < j) /\ ~(i < i)
  <2> SUFFICES ASSUME NEW j \in Item, row[j] \in Present
               PROVE  j < i /\ ~(i < j) /\ ~(i < i)
    BY DEF Rows
  <2>1. i \in Nat /\ j \in Nat /\ j # i /\ row[j] # "absent"
    BY <1>1 DEF DispatchAssumption, Present
  <2>2. ~(i < j)
    BY <1>1, <2>1 DEF Numbered
  <2> QED
    BY <2>1, <2>2
<1>4. Line!Others(i) = before
  BY <1>2 DEF Line!Others
<1> HIDE DEF before
<1>5. ~(i < i)
  BY DEF DispatchAssumption
<1>6. {p \in (before \cup {i}) \X (before \cup {i}) : p[1] < p[2]}
        = {p \in before \X before : p[1] < p[2]} \cup (before \X {i})
  BY <1>2, <1>3, <1>5
<1>7. Line!Among(before) = {p \in before \X before : p[1] < p[2]}
  BY DEF Line!Among, before
<1>8. ~Line!Waits(i)
  BY <1>2 DEF Line!Waits, before
<1>9. Line!Joins(i)
  BY <1>2, <1>4 DEF Line!Joins, before
<1> QED
  BY <1>2, <1>4, <1>6, <1>7, <1>8, <1>9 DEF Line!JoinEnd

(* The dispatcher, with every recovery, deletion and crash, does to the    *)
(* queue only what the repository offers (ImplementsPromptLine of          *)
(* SessionQueueProofs): one prompt is held at a time, what is given back   *)
(* is where it was, and new prompts come last.                             *)
THEOREM ImplementsPromptLine == Spec => PromptLine
<1>1. Init => Line!Init
  BY DEF Init, Line!Init, Rows, Present, Claims
<1>2. DispInv /\ Numbered /\ [Next]_vars => [Line!Next]_(Line!vars)
  BY OnlyLeaveIsLine, ClaimIsLine, EnqueueIsLine, OthersOnlyLeave, DispatchAssumption
     DEF Line!Next
<1> QED
  BY <1>1, <1>2, Invariant, PromptsNumbered, PTL DEF Spec, PromptLine, Line!Spec

LEMMA OnceOnlyStays ==
  ASSUME Delivery!OnceOnly, [Delivery!Next]_(Delivery!vars),
         prompt \in [Item -> Delivery!Status], started \in [Item -> Nat]
  PROVE  Delivery!OnceOnly'
<1>1. CASE UNCHANGED Delivery!vars
  BY <1>1 DEF Delivery!vars, Delivery!OnceOnly
<1>2. CASE \E i \in Item : Delivery!Run(i)
  BY <1>2 DEF Delivery!Run, Delivery!At, Delivery!OnceOnly
<1>3. CASE \E i \in Item : Delivery!Submit(i) \/ Delivery!TakeBack(i) \/ Delivery!Drop(i)
  BY <1>3 DEF Delivery!Submit, Delivery!TakeBack, Delivery!Drop, Delivery!At,
     Delivery!OnceOnly
<1>4. CASE \E i \in Item : Delivery!Offer(i)
  BY <1>4 DEF Delivery!Offer, Delivery!At, Delivery!OnceOnly
<1>5. CASE \E i \in Item : Delivery!Take(i)
  BY <1>5 DEF Delivery!Take, Delivery!At, Delivery!OnceOnly
<1>6. CASE Delivery!DropAll
  BY <1>6 DEF Delivery!DropAll, Delivery!OnceOnly
<1> QED
  BY <1>1, <1>2, <1>3, <1>4, <1>5, <1>6 DEF Delivery!Next

(* A prompt runs at most once, one prompt at a time is offered to the Turn  *)
(* controller, and one Turn at a time stands at its fence, whatever fails   *)
(* and whoever crashes.                                                     *)
THEOREM PromptsRunOnce == Spec => []Delivery!OnceOnly
<1>1. Delivery!Init => Delivery!OnceOnly
  BY DEF Delivery!Init, Delivery!OnceOnly
<1>2. /\ DispInv => prompt \in [Item -> Delivery!Status]
      /\ DispInv => started \in [Item -> Nat]
  BY PromptNow DEF DispInv, DispTypeOK, PromptIs
<1>3. DispInv /\ Delivery!OnceOnly /\ [Delivery!Next]_(Delivery!vars) => Delivery!OnceOnly'
  BY <1>2, OnceOnlyStays
<1> QED
  BY <1>1, <1>3, Invariant, ImplementsPromptDelivery, PTL
     DEF PromptDelivery, Delivery!Spec

(* A prompt that a Turn has taken, or that was dropped, is not in the queue *)
(* again.                                                                   *)
THEOREM TakenPromptsStayAway == Spec => Delivery!NeverBack
<1>1. DispInv /\ [Delivery!Next]_(Delivery!vars)
        => [\A i \in Item :
              prompt[i] \in {"taken", "run", "dropped"}
                => prompt'[i] \notin {"none", "waiting", "offered"}]_(Delivery!vars)
  <2> SUFFICES ASSUME DispInv, Delivery!Next, NEW i \in Item,
                      prompt[i] \in {"taken", "run", "dropped"}
               PROVE  prompt'[i] \notin {"none", "waiting", "offered"}
    OBVIOUS
  <2>1. prompt \in [Item -> Delivery!Status]
    BY PromptNow DEF DispInv, PromptIs
  <2>2. CASE Delivery!DropAll
    BY <2>2 DEF Delivery!DropAll
  <2>3. CASE \E j \in Item : \/ Delivery!Submit(j) \/ Delivery!Offer(j)
                             \/ Delivery!TakeBack(j) \/ Delivery!Take(j)
                             \/ Delivery!Run(j) \/ Delivery!Drop(j)
    BY <2>1, <2>3 DEF Delivery!Submit, Delivery!Offer, Delivery!TakeBack, Delivery!Take,
       Delivery!Run, Delivery!Drop, Delivery!At
  <2> QED
    BY <2>2, <2>3 DEF Delivery!Next
<1> QED
  BY <1>1, Invariant, ImplementsPromptDelivery, PTL
     DEF PromptDelivery, Delivery!Spec, Delivery!NeverBack

=============================================================================
