---------------------------- MODULE QueueDispatch ----------------------------
(***************************************************************************)
(* How the prompts of one session get from the queue to a Turn:            *)
(*   service/turn-system/queue.dispatcher.ts                               *)
(* with what it talks to: the claims of the queue repository (SessionQueue *)
(* has all of it), the start fence of user-message-turn-delivery.ts, the   *)
(* registry of callers who wait for a queued Turn                          *)
(* (queued-turn-completion.ts), and the deletion and shutdown that stop    *)
(* it. A step runs from one await to the next.                             *)
(*                                                                         *)
(* Two flows may hold a claim: the drain, of which there is one at a time  *)
(* and which any number of callers ask for, and a continued dispatch,      *)
(* which ignores a pause. Abstracted:                                      *)
(*  - items are numbered in queue order and enqueued in that order;        *)
(*  - a row's claim is the flow that made it, "dead" once its process is   *)
(*    gone; whether a claim outlives its 30 s lease is a choice;           *)
(*  - the wake counters are kept as the callers whose wake is newer than   *)
(*    the pass that started last (uncovered);                              *)
(*  - classification, preparation, policies and every database write may   *)
(*    answer or fail in any way the code allows for.                       *)
(* Left out: send-now claims (exact), whose workflow is its own, and the   *)
(* result "duplicate", for which one claim would be submitted twice.       *)
(***************************************************************************)
EXTENDS Naturals, FiniteSets

CONSTANTS Item,    \* the prompts, in queue order
          Waited,  \* those whose sender waits for the Turn
          Caller,  \* who asks for a dispatch
          None

ASSUME DispatchAssumption ==
  /\ Item \subseteq Nat
  /\ Waited \subseteq Item
  /\ None \notin Item

Flow == {"drain", "continued"}

VARIABLES
  row,        \* the queue row of each prompt; a claimed one names its claim
  accepted,   \* is there a receipt for the row's present claim
  paused,     \* the queue's pause
  turn,       \* the session's Turn and the prompt it is for
  started,    \* how often a host ran the prompt
  flow,       \* the two dispatches in progress
  yielded,    \* rows the running pass skips
  uncovered,  \* callers who asked after the last pass began
  caller,     \* "idle", "await" a drain, or "woken" by one that ended
  recover,    \* state.recoverBeforeNextClaim
  deletion,   \* how far the session's deletion is
  closed,     \* the runtime shuts down
  handle,     \* the caller who waits for the prompt's Turn
  cancel,     \* has that caller's cancellation been requested
  told,       \* was it told that the Turn is aborted; undone if the Turn was
              \* accepted and its row went back
  lost        \* rows whose settling write failed

queue   == <<row, accepted, paused>>
memory  == <<flow, yielded, uncovered, caller, recover>>
waiters == <<handle, cancel, told>>
stops   == <<deletion, closed>>
vars    == <<queue, turn, started, memory, stops, waiters, lost>>

Present == {"queued", "drain", "continued", "dead"}
Claims  == {"drain", "continued", "dead"}

Outcome == [op : {"release", "remove"}, again : BOOLEAN,
            throws : BOOLEAN, yields : BOOLEAN]

Idle     == [pc |-> "idle", item |-> None, out |-> None]
At(f, pc) == [flow EXCEPT ![f] = [pc |-> pc, item |-> flow[f].item, out |-> None]]
Away(f, pc) == [flow EXCEPT ![f] = [pc |-> pc, item |-> None, out |-> None]]
NoTurn   == [item |-> None, by |-> None, st |-> "none"]
TurnOf(f, st) == [item |-> flow[f].item, by |-> f, st |-> st]

Rows(S) == {i \in Item : row[i] \in S}
First(S) == {i \in S : \A j \in S : i <= j}

Blocked == deletion # "none"
Open    == ~closed /\ ~Blocked
Running == flow["drain"].pc # "idle"

Init ==
  /\ row = [i \in Item |-> "absent"]
  /\ accepted = [i \in Item |-> FALSE]
  /\ paused = FALSE
  /\ turn = NoTurn
  /\ started = [i \in Item |-> 0]
  /\ flow = [f \in Flow |-> Idle]
  /\ yielded = {}
  /\ uncovered = {}
  /\ caller = [c \in Caller |-> "idle"]
  /\ recover = FALSE
  /\ deletion = "none"
  /\ closed = FALSE
  /\ handle = [i \in Item |-> "none"]
  /\ cancel = [i \in Item |-> FALSE]
  /\ told = [i \in Item |-> "no"]
  /\ lost = {}

-----------------------------------------------------------------------------
(* Rows and those who wait for them *)

(* A row that leaves the queue other than for its Turn settles its waiter. *)
Settle(S) ==
  /\ handle' = [i \in Item |-> IF i \in S /\ handle[i] # "none" THEN "settled"
                                                             ELSE handle[i]]
  /\ cancel' = [i \in Item |-> cancel[i] /\ i \notin S]
  /\ UNCHANGED told

Release(S) ==
  /\ row' = [i \in Item |-> IF i \in S THEN "queued" ELSE row[i]]
  /\ accepted' = [i \in Item |-> accepted[i] /\ i \notin S]
  /\ told' = [i \in Item |-> IF i \in S /\ accepted[i] /\ told[i] = "yes"
                             THEN "undone" ELSE told[i]]
  /\ UNCHANGED <<paused, handle, cancel>>

Remove(S) ==
  /\ row' = [i \in Item |-> IF i \in S THEN "gone" ELSE row[i]]
  /\ accepted' = [i \in Item |-> accepted[i] /\ i \notin S]
  /\ paused' = (paused /\ Rows(Present) \ S # {})

Enqueue(i) ==
  /\ row[i] = "absent"
  /\ \A j \in Item : j < i => row[j] # "absent"
  /\ Open
  /\ row' = [row EXCEPT ![i] = "queued"]
  /\ handle' = [handle EXCEPT ![i] = IF i \in Waited THEN "pending" ELSE "none"]
  /\ UNCHANGED <<accepted, paused, turn, started, memory, stops,
                 cancel, told, lost>>

(* A queued row is cancelled, expires or is taken back to the composer. *)
Withdraw(i) ==
  /\ row[i] = "queued"
  /\ Remove({i})
  /\ Settle({i})
  /\ UNCHANGED <<turn, started, memory, stops, lost>>

Unpause ==
  /\ paused
  /\ paused' = FALSE
  /\ UNCHANGED <<row, accepted, turn, started, memory, stops, waiters, lost>>

(* abort of a Turn that is still queued: the request is recorded while the *)
(* entry is pending, and answered after the abort found nothing running.   *)
RequestCancel(i) ==
  /\ handle[i] = "pending"
  /\ ~cancel[i]
  /\ cancel' = [cancel EXCEPT ![i] = TRUE]
  /\ UNCHANGED <<queue, turn, started, memory, stops, handle, told, lost>>

AnswerCancel(i) ==
  /\ handle[i] = "pending"
  /\ cancel[i]
  /\ told[i] = "no"
  /\ told' = [told EXCEPT ![i] = "yes"]
  /\ UNCHANGED <<queue, turn, started, memory, stops, handle, cancel, lost>>

-----------------------------------------------------------------------------
(* Callers, passes and drains *)

(* Mutant: a pass does not look whether the dispatcher may go on. *)
PassBlind(asked, skip) ==
  /\ yielded' = IF asked # {} THEN {} ELSE skip
  /\ uncovered' = {}
  /\ flow' = Away("drain", IF recover THEN "recover" ELSE "claim")

(* The next pass of a drain, asked for by the callers in asked; it skips   *)
(* the rows in skip unless someone asked.                                  *)
Pass(asked, skip) ==
  /\ yielded' = IF asked # {} THEN {} ELSE skip
  /\ uncovered' = {}
  /\ flow' = Away("drain", IF ~Open THEN "ending"
                           ELSE IF recover THEN "recover" ELSE "claim")

(* Mutant: a caller only waits, whether a drain runs or not. *)
AwaitOnly(c, asked) ==
  /\ caller' = [caller EXCEPT ![c] = "await"]
  /\ uncovered' = asked
  /\ UNCHANGED <<flow, yielded>>

(* A caller waits for the drain that runs, or starts one. *)
Await(c, asked) ==
  /\ caller' = [caller EXCEPT ![c] = "await"]
  /\ IF Running THEN uncovered' = asked /\ UNCHANGED <<flow, yielded>>
                ELSE Pass(asked, {})

Ask(c) ==
  /\ caller[c] = "idle"
  /\ Open
  /\ Await(c, uncovered \cup {c})
  /\ UNCHANGED <<recover, queue, turn, started, stops, waiters, lost>>

(* Mutant: a caller returns when the drain it waited for ends. *)
ResumeOnce(c) ==
  /\ caller[c] = "woken"
  /\ caller' = [caller EXCEPT ![c] = "idle"]
  /\ uncovered' = uncovered \ {c}
  /\ UNCHANGED <<flow, yielded>>
  /\ UNCHANGED <<recover, queue, turn, started, stops, waiters, lost>>

Resume(c) ==
  /\ caller[c] = "woken"
  /\ IF c \in uncovered
       THEN Await(c, uncovered)
       ELSE /\ caller' = [caller EXCEPT ![c] = "idle"]
            /\ UNCHANGED <<flow, yielded, uncovered>>
  /\ UNCHANGED <<recover, queue, turn, started, stops, waiters, lost>>

(* The end of a pass: another one if there is more to do. *)
EndPass(again, skip) ==
  IF Open /\ (again \/ uncovered # {})
    THEN Pass(uncovered, skip)
    ELSE /\ flow' = Away("drain", "ending")
         /\ UNCHANGED <<yielded, uncovered>>

(* The end of a flow's attempt, returned or thrown. *)
Return(f, again, skip) ==
  IF f = "drain" THEN EndPass(again, skip)
  ELSE /\ flow' = [flow EXCEPT ![f] = Idle]
       /\ UNCHANGED <<yielded, uncovered>>

Throw(f) ==
  /\ flow' = IF f = "drain" THEN Away(f, "ending") ELSE [flow EXCEPT ![f] = Idle]
  /\ UNCHANGED <<yielded, uncovered>>

(* drainAndRelease: state.running is cleared a moment after the loop ends. *)
Finish ==
  /\ flow["drain"].pc = "ending"
  /\ flow' = [flow EXCEPT !["drain"] = Idle]
  /\ yielded' = {}
  /\ caller' = [c \in Caller |-> IF caller[c] = "await" THEN "woken" ELSE caller[c]]
  /\ UNCHANGED <<uncovered, recover, queue, turn, started, stops, waiters, lost>>

-----------------------------------------------------------------------------
(* Claiming *)

(* recoverClaims releases the claims of processes that are gone, and those *)
(* of this one when they have outlived their lease. A claim that was   *)
(* prepared is released even when it has a receipt: its Turn waits for the *)
(* acknowledgement.                                                        *)
RecoverClaims == Release(Rows({"dead"})) \/ Release(Rows(Claims))

Recovered == lost' = lost \cap {i \in Item : row'[i] \in Claims}

(* A drain that needs recovery runs it before its next claim.              *)
RecoverPass ==
  /\ flow["drain"].pc = "recover"
  /\ \/ /\ RecoverClaims
        /\ recover' = FALSE
        /\ flow' = Away("drain", IF Open THEN "claim" ELSE "ending")
        /\ Recovered
        /\ UNCHANGED <<yielded, uncovered>>
     \/ /\ Throw("drain")
        /\ UNCHANGED <<recover, queue, waiters, lost>>
  /\ UNCHANGED <<caller, turn, started, stops>>

(* Mutant: a claim does not look for a row that is out already.            *)
ClaimableBeside(f) ==
  IF f = "drain" /\ paused THEN {}
  ELSE First(Rows({"queued"}) \ IF f = "drain" THEN yielded ELSE {})

(* claimNext. A pause stops the drain and not a continued dispatch; one    *)
(* claimed row stops both.                                                 *)
Claimable(f) ==
  IF Rows(Claims) # {} \/ (f = "drain" /\ paused) THEN {}
  ELSE First(Rows({"queued"}) \ IF f = "drain" THEN yielded ELSE {})

Claim(f) ==
  /\ flow[f].pc = "claim"
  /\ \/ \E i \in Claimable(f) :
          /\ row' = [row EXCEPT ![i] = f]
          /\ flow' = [flow EXCEPT ![f] = [pc |-> "got", item |-> i, out |-> None]]
          /\ UNCHANGED <<yielded, uncovered, accepted, paused>>
     \/ /\ Claimable(f) = {}
        /\ Return(f, FALSE, yielded)
        /\ UNCHANGED queue
     \/ /\ Throw(f)
        /\ UNCHANGED queue
  /\ UNCHANGED <<caller, recover, turn, started, stops, waiters, lost>>

(* continuePaused starts a dispatch of the head of the queue, once.        *)
ContinuePaused ==
  /\ ~closed
  /\ ~Blocked
  /\ flow["continued"].pc = "idle"
  /\ flow' = At("continued", "claim")
  /\ UNCHANGED <<yielded, uncovered, caller, recover, queue, turn, started,
                 stops, waiters, lost>>

-----------------------------------------------------------------------------
(* Settling a claim: the flow has decided what to write. *)

Decide(f, op, again, throws, yields) ==
  /\ flow' = [flow EXCEPT ![f] =
                [pc |-> "write", item |-> flow[f].item,
                 out |-> [op |-> op, again |-> again, throws |-> throws, yields |-> yields]]]
  /\ UNCHANGED <<yielded, uncovered>>

DecideCancel(f) == Decide(f, "remove", TRUE, FALSE, FALSE)

(* settleThrownClaim. *)
DecideThrown(f) ==
  IF cancel[flow[f].item] THEN DecideCancel(f)
                          ELSE Decide(f, "release", FALSE, TRUE, FALSE)

(* defer: only a drain may skip the row and go on. *)
DecideDefer(f) ==
  \E yields \in IF f = "drain" THEN BOOLEAN ELSE {FALSE} :
    Decide(f, "release", yields, FALSE, yields)

(* To release a claim that is no longer held does nothing; to cancel or    *)
(* reject it, which removes the row, throws.                               *)
Settled(f) ==
  LET i == flow[f].item
      out == flow[f].out
      held == row[i] = f
  IN /\ held \/ out.op = "release"
     /\ \/ ~held /\ UNCHANGED <<queue, waiters>>
        \/ /\ held /\ out.op = "release"
           /\ Release({i})
        \/ /\ held /\ out.op # "release"
           /\ Remove({i})
           /\ Settle({i})
     /\ IF out.throws THEN Throw(f)
        ELSE Return(f, out.again, IF out.yields THEN yielded \cup {i} ELSE yielded)
     /\ UNCHANGED lost

(* The write fails: what the row holds it keeps. *)
WriteFailed(f) ==
  LET i == flow[f].item
  IN /\ Throw(f)
     /\ lost' = IF row[i] = f THEN lost \cup {i} ELSE lost
     /\ UNCHANGED <<queue, waiters>>

Write(f) ==
  /\ flow[f].pc = "write"
  /\ Settled(f) \/ WriteFailed(f)
  /\ UNCHANGED <<caller, recover, turn, started, stops>>

-----------------------------------------------------------------------------
(* From the claim to the start of its Turn *)

(* Mutant: a claim that came too late is dropped, not released. *)
GotForgets(f) ==
  /\ flow[f].pc = "got"
  /\ IF Open THEN flow' = At(f, "classify") /\ UNCHANGED <<yielded, uncovered>>
             ELSE Throw(f)
  /\ UNCHANGED <<caller, recover, queue, turn, started, stops, waiters, lost>>

(* After the claim, and before anything is done with it, the flow looks    *)
(* again whether it may go on.                                             *)
Got(f) ==
  /\ flow[f].pc = "got"
  /\ IF Open THEN flow' = At(f, "classify") /\ UNCHANGED <<yielded, uncovered>>
             ELSE Decide(f, "release", FALSE, FALSE, FALSE)
  /\ UNCHANGED <<caller, recover, queue, turn, started, stops, waiters, lost>>

(* classifyQueuedItem, then the cancellation, then what was answered.      *)
Classify(f) ==
  /\ flow[f].pc = "classify"
  /\ \/ DecideThrown(f)
     \/ /\ cancel[flow[f].item]
        /\ DecideCancel(f)
     \/ /\ ~cancel[flow[f].item]
        /\ \/ flow' = At(f, "prepare") /\ UNCHANGED <<yielded, uncovered>>
           \/ DecideDefer(f)
           \/ IF f = "drain" THEN DecideCancel(f)
                             ELSE Decide(f, "release", FALSE, FALSE, FALSE)
  /\ UNCHANGED <<caller, recover, queue, turn, started, stops, waiters, lost>>

(* A Turn that is not accepted: thrown, cancelled by its waiter, or        *)
(* settled by the reason given.                                            *)
Rejected(f) ==
  \/ DecideThrown(f)
  \/ /\ cancel[flow[f].item]
     /\ DecideCancel(f)
  \/ /\ ~cancel[flow[f].item]
     /\ \/ Decide(f, "release", FALSE, FALSE, FALSE)     \* busy, or a handoff that failed
        \/ Decide(f, "remove", f = "drain", FALSE, FALSE) \* a handoff denied
        \/ DecideDefer(f)
        \/ /\ f = "drain"
           /\ \E again \in BOOLEAN :   \* invalid or refused, or stopped
                Decide(f, "remove", again, FALSE, FALSE)

(* beforeSubmit: prepareDelivery throws when the claim is gone. Then the   *)
(* operation gate: a submission that entered it is waited for by the       *)
(* deletion.                                                               *)
Prepare(f) ==
  /\ flow[f].pc = "prepare"
  /\ \/ /\ row[flow[f].item] = f
        /\ IF Blocked THEN Rejected(f)
                      ELSE flow' = At(f, "admit") /\ UNCHANGED <<yielded, uncovered>>
     \/ DecideThrown(f)
  /\ UNCHANGED <<caller, recover, queue, turn, started, stops, waiters, lost>>

(* The admission's own look at the queue (claimedQueueItemBlocks): the     *)
(* claim is still there, and what precedes it has been skipped.            *)
Admissible(f) ==
  LET i == flow[f].item
      before == {j \in Rows(Present) : j < i}
  IN /\ row[i] = f
     /\ turn = NoTurn
     /\ IF f = "drain" THEN ~paused /\ before \subseteq yielded ELSE before = {}

(* Mutant: the registration does not ask for a cancellation. *)
AcceptUncancelled(f) ==
  LET i == flow[f].item
  IN /\ Admissible(f)
     /\ accepted' = [accepted EXCEPT ![i] = TRUE]
     /\ paused' = (paused /\ f = "drain")
     /\ turn' = TurnOf(f, IF closed THEN "failing" ELSE "fenced")
     /\ handle' = [handle EXCEPT ![i] = IF @ = "pending" THEN "executing" ELSE @]
     /\ cancel' = [cancel EXCEPT ![i] = FALSE]
     /\ flow' = At(f, "deliver")
     /\ UNCHANGED <<row, yielded, uncovered, told>>

(* An accepted Turn waits behind its start fence. It is doomed at once if  *)
(* its waiter cancelled it, and failing if it could not be registered: the *)
(* controller is closed, or the preparation did not commit.                *)
Accept(f) ==
  LET i == flow[f].item
  IN /\ Admissible(f)
     /\ accepted' = [accepted EXCEPT ![i] = TRUE]
     /\ paused' = (paused /\ f = "drain")
     /\ \/ ~closed /\ turn' = TurnOf(f, IF cancel[i] THEN "doomed" ELSE "fenced")
        \/ turn' = TurnOf(f, "failing")
     /\ handle' = [handle EXCEPT ![i] = IF @ = "pending" THEN "executing" ELSE @]
     /\ cancel' = [cancel EXCEPT ![i] = FALSE]
     /\ flow' = At(f, "deliver")
     /\ UNCHANGED <<row, yielded, uncovered, told>>

Admit(f) ==
  /\ flow[f].pc = "admit"
  /\ \/ Accept(f)
     \/ Rejected(f) /\ UNCHANGED <<queue, turn, waiters>>
  /\ UNCHANGED <<caller, recover, started, stops, lost>>

(* The fence of the flow's Turn fails, and the Turn with it.               *)
FailFence(f) ==
  turn' = IF turn \in {TurnOf(f, "fenced"), TurnOf(f, "doomed")}
          THEN TurnOf(f, "failing") ELSE turn

(* Mutant: the acknowledgement does not ask whether the claim is still     *)
(* held.                                                                   *)
AcknowledgeBlind(f) ==
  /\ flow[f].pc = "deliver"
  /\ LET i == flow[f].item
     IN /\ row' = [row EXCEPT ![i] = "acked"]
        /\ accepted' = [accepted EXCEPT ![i] = FALSE]
        /\ paused' = (paused /\ Rows(Present) # {i})
  /\ flow' = At(f, "acked")
  /\ UNCHANGED <<turn, yielded, uncovered, recover>>
  /\ UNCHANGED <<caller, started, stops, waiters, lost>>

(* The delivery commits the message and acknowledges the claim, twice if   *)
(* need be. If it cannot, the fence fails and the claim is settled like a  *)
(* thrown one; a drain that could not acknowledge asks for recovery.       *)
Acknowledge(f) ==
  /\ flow[f].pc = "deliver"
  /\ LET i == flow[f].item
     IN \/ /\ row[i] = f
           /\ accepted[i]
           /\ row' = [row EXCEPT ![i] = "acked"]
           /\ accepted' = [accepted EXCEPT ![i] = FALSE]
           /\ paused' = (paused /\ Rows(Present) # {i})
           /\ flow' = At(f, "acked")
           /\ UNCHANGED <<turn, yielded, uncovered, recover>>
        \/ /\ FailFence(f)
           /\ DecideThrown(f)
           /\ recover' \in {recover, recover \/ f = "drain"}
           /\ UNCHANGED queue
  /\ UNCHANGED <<caller, started, stops, waiters, lost>>

(* The fence opens and the host runs a Turn that was not aborted behind    *)
(* it; or the last step before the start throws.                           *)
Start(f) ==
  /\ flow[f].pc = "acked"
  /\ \/ /\ turn = TurnOf(f, "fenced")
        /\ turn' = TurnOf(f, "running")
        /\ started' = [started EXCEPT ![flow[f].item] = IF @ < 2 THEN @ + 1 ELSE 2]
        /\ Return(f, FALSE, yielded)
     \/ /\ turn # TurnOf(f, "fenced")
        /\ turn' = IF turn = TurnOf(f, "doomed") THEN TurnOf(f, "stopped") ELSE turn
        /\ Return(f, FALSE, yielded)
        /\ UNCHANGED started
     \/ /\ FailFence(f)
        /\ Throw(f)
        /\ UNCHANGED started
  /\ UNCHANGED <<caller, recover, queue, stops, waiters, lost>>

-----------------------------------------------------------------------------
(* The Turn *)

(* A Turn that is not a queued prompt's. *)
DirectTurn ==
  /\ turn = NoTurn
  /\ Open
  /\ turn' = [item |-> None, by |-> None, st |-> "running"]
  /\ paused' \in {paused, FALSE}
  /\ UNCHANGED <<row, accepted, started, memory, stops, waiters, lost>>

(* A stop of a Turn that has not started yet. *)
AbortTurn ==
  /\ turn.st = "fenced"
  /\ turn' = [turn EXCEPT !.st = "doomed"]
  /\ UNCHANGED <<queue, started, memory, stops, waiters, lost>>

(* The Turn is settled and its waiter learns the outcome; one that failed  *)
(* or was stopped may leave the queue paused behind it.                    *)
TurnEnds ==
  /\ turn.st \in {"running", "stopped", "failing"}
  /\ turn' = NoTurn
  /\ paused' \in {paused, paused \/ Rows(Present) # {}}
  /\ handle' = [i \in Item |-> IF i = turn.item /\ handle[i] = "executing"
                               THEN "settled" ELSE handle[i]]
  /\ UNCHANGED <<row, accepted, started, memory, stops, cancel, told, lost>>

-----------------------------------------------------------------------------
(* Recovery, deletion, shutdown, crash *)

(* dispatcher.recoverPending, at runtime start and on a timer, recovers    *)
(* the claims of each session with pending work. One that is under way     *)
(* when the dispatcher closes may still get here.                          *)
Recover ==
  /\ RecoverClaims
  /\ Recovered
  /\ UNCHANGED <<turn, started, memory, stops>>

(* The deletion blocks the operation gate and the dispatcher, and waits    *)
(* for the submissions that entered, for the drain and for the Turn to be  *)
(* stopped, but not for a continued dispatch.                              *)
BeginDeletion ==
  /\ deletion = "none"
  /\ ~closed
  /\ deletion' = "blocked"
  /\ UNCHANGED <<closed, queue, turn, started, memory, waiters, lost>>

(* Mutant: the rows are deleted without a fact for their waiters. *)
EraseSilent ==
  /\ deletion = "blocked"
  /\ flow["drain"].pc \in {"idle", "ending"}
  /\ \A f \in Flow : flow[f].pc # "admit"
  /\ turn = NoTurn
  /\ deletion' = "erased"
  /\ Remove(Rows(Present))
  /\ UNCHANGED <<closed, turn, started, memory, waiters, lost>>

Erase ==
  /\ deletion = "blocked"
  /\ flow["drain"].pc \in {"idle", "ending"}
  /\ \A f \in Flow : flow[f].pc # "admit"
  /\ turn = NoTurn
  /\ deletion' = "erased"
  /\ Remove(Rows(Present))
  /\ Settle(Rows(Present))
  /\ UNCHANGED <<closed, turn, started, memory, lost>>

(* close: every waiter is answered, the controller refuses new Turns and   *)
(* stops the one there is.                                                 *)
Close ==
  /\ ~closed
  /\ closed' = TRUE
  /\ turn' = IF turn.st = "fenced" THEN [turn EXCEPT !.st = "doomed"] ELSE turn
  /\ Settle(Item)
  /\ UNCHANGED <<deletion, queue, started, memory, lost>>

(* The process ends, orderly or not, and another one starts. Claims stay   *)
(* in the database; a Turn is recovered as failed.                         *)
Crash ==
  /\ row' = [i \in Item |-> IF row[i] \in Flow THEN "dead" ELSE row[i]]
  /\ turn' = NoTurn
  /\ flow' = [f \in Flow |-> Idle]
  /\ yielded' = {}
  /\ uncovered' = {}
  /\ caller' = [c \in Caller |-> "idle"]
  /\ recover' = FALSE
  /\ deletion' = IF deletion = "erased" THEN "erased" ELSE "none"
  /\ closed' = FALSE
  /\ handle' = [i \in Item |-> "none"]
  /\ cancel' = [i \in Item |-> FALSE]
  /\ told' = [i \in Item |-> "no"]
  /\ lost' = {}
  /\ UNCHANGED <<accepted, paused, started>>

Dispatch(f) ==
  Claim(f) \/ Got(f) \/ Classify(f) \/ Prepare(f) \/ Admit(f)
    \/ Acknowledge(f) \/ Start(f) \/ Write(f)

Next ==
  \/ \E i \in Item : Enqueue(i) \/ Withdraw(i) \/ RequestCancel(i) \/ AnswerCancel(i)
  \/ \E c \in Caller : Ask(c) \/ Resume(c)
  \/ \E f \in Flow : Dispatch(f)
  \/ RecoverPass \/ Finish \/ ContinuePaused
  \/ Unpause \/ DirectTurn \/ AbortTurn \/ TurnEnds
  \/ Recover \/ BeginDeletion \/ Erase
  \/ Close \/ Crash

Spec == Init /\ [][Next]_vars

-----------------------------------------------------------------------------
(* Properties *)

(* The types of the state. *)
DispTypeOK ==
  /\ row \in [Item -> {"absent", "queued", "drain", "continued", "dead", "acked", "gone"}]
  /\ accepted \in [Item -> BOOLEAN]
  /\ paused \in BOOLEAN
  /\ turn \in [item : Item \cup {None}, by : Flow \cup {None},
               st : {"none", "fenced", "doomed", "running", "stopped", "failing"}]
  /\ started \in [Item -> 0..2]
  /\ flow \in [Flow -> [pc : {"idle", "recover", "claim", "got", "classify", "prepare",
                              "admit", "deliver", "acked", "write", "ending"},
                        item : Item \cup {None}, out : Outcome \cup {None}]]
  /\ yielded \subseteq Item
  /\ uncovered \subseteq Caller
  /\ caller \in [Caller -> {"idle", "await", "woken"}]
  /\ recover \in BOOLEAN
  /\ deletion \in {"none", "blocked", "erased"}
  /\ closed \in BOOLEAN
  /\ handle \in [Item -> {"none", "pending", "executing", "settled"}]
  /\ cancel \in [Item -> BOOLEAN]
  /\ told \in [Item -> {"no", "yes", "undone"}]
  /\ lost \subseteq Item

(* The prompt of a Turn whose waiter was told that it is aborted, while it *)
(* was still queued or being dispatched, is never run by this process,     *)
(* unless its row went back after a Turn had been accepted for it.         *)
CancelledNeverStarts == \A i \in Item : told[i] = "yes" => started[i] = 0

(* A claim does not outlive the flow that made it, unless the write that   *)
(* should have settled it failed.                                          *)
NoLeakedClaim ==
  \A i \in Item, f \in Flow : row[i] = f => flow[f].item = i \/ i \in lost

(* A caller whose Turn is queued or running is still attached to a row or  *)
(* to the Turn, so that something will answer it.                          *)
NoForgottenWaiter ==
  \A i \in Item :
    /\ handle[i] = "pending" => row[i] \in Present
    /\ handle[i] = "executing" => turn.item = i

(* A dispatch that is over when the deletion or the shutdown has begun is  *)
(* over for good: a deletion that has waited for the drain, and a close    *)
(* that has waited for everything, will not meet another claim.            *)
AtRest(f) == flow[f].pc \in {"idle", "ending"}
StaysQuiet ==
  [][\A f \in Flow : ~Open /\ ~Open' /\ AtRest(f) => AtRest(f)']_vars

(* What the delivery promises for each prompt (PromptDelivery).            *)
prompt == [i \in Item |->
  CASE row[i] = "absent" -> "none"
    [] row[i] = "queued" -> "waiting"
    [] row[i] \in Claims -> "offered"
    [] row[i] = "gone"   -> "dropped"
    [] row[i] = "acked"  -> IF started[i] > 0 THEN "run"
                            ELSE IF turn.item = i THEN "taken" ELSE "dropped"]

Delivery == INSTANCE PromptDelivery WITH runs <- started

(* Each prompt is offered by one dispatch at a time, leaves the queue for  *)
(* at most one Turn and is run at most once, whatever fails between the    *)
(* claim and the start.                                                    *)
PromptDelivery == Delivery!Spec

(* The dispatcher's view of the queue is the line of its repository        *)
(* (PromptLine).                                                           *)
Line == INSTANCE PromptLine
          WITH here <- Rows(Present), held <- Rows(Claims),
               ahead <- {p \in Rows(Present) \X Rows(Present) : p[1] < p[2]}

(* The flows, the recoveries, a crash and a deletion do to the queue only  *)
(* what the repository offers: they take one prompt at a time and, when it *)
(* is not delivered, give it back where it was.                            *)
PromptLine == Line!Spec

(* What a caller of dispatch may rely on (DrainWakes).                     *)
call == [c \in Caller |-> IF c \in uncovered THEN "asked"
                          ELSE IF caller[c] = "idle" THEN "idle" ELSE "covered"]

Wakes == INSTANCE DrainWakes

(* A dispatch that was asked for returns only after a pass has begun that  *)
(* knew of it, however its wake meets the end of another drain.            *)
DrainWakes == Wakes!Spec

(* A caller that waits has a drain to wait for, and one that no pass has   *)
(* covered yet is still there to start the next: a wake that meets the end *)
(* of a drain is never left to nobody.                                     *)
CallersAttended ==
  /\ \A c \in Caller : caller[c] = "await" => Running
  /\ \A c \in uncovered : caller[c] # "idle"

(* Every dispatch returns, if the steps of the flows and of their callers  *)
(* are taken: each is the continuation of an await that is answered.       *)
FairSpec ==
  /\ Spec
  /\ WF_vars(RecoverPass) /\ WF_vars(Finish)
  /\ WF_vars(Dispatch("drain"))
  /\ \A c \in Caller : WF_vars(Resume(c))

(* No caller of dispatch waits for ever, though a drain that ends may meet  *)
(* its wake at any moment.                                                 *)
WakesAnswered == \A c \in Caller : caller[c] # "idle" ~> caller[c] = "idle"

=============================================================================
