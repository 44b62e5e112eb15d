--------------------------- MODULE TurnSubmission ---------------------------
(***************************************************************************)
(* One session's submissions inside one runtime process: from the gate     *)
(* through preparation and admission to the registered turn and its end,   *)
(* with the stops, handoffs and deletions that meet them on the way        *)
(* (turn-system/execution/turn-execution.service.ts,                       *)
(* execution.coordinator.ts and the entry of turn.controller.ts).          *)
(*                                                                         *)
(* Every "await" of the code ends a step. A repository call runs its       *)
(* transaction before it returns its promise, so a check and the call that *)
(* follows it are one step.                                                *)
(* Abstracted:                                                             *)
(*  - the lock of the session is its holder: a submission, somebody else   *)
(*    (another runtime, a maintenance) or nobody; TurnLease has the rest,  *)
(*    and a lease that is lost while its turn runs;                        *)
(*  - the repository may refuse any submission (fence, policy, duplicate); *)
(*  - a preparation is one participant: ready, committed, restored (by a  *)
(*    rollback or a compensation) or kept because that threw. A submission *)
(*    that prepares nothing goes the way of one whose commit succeeds;     *)
(*  - the start fence of a delivery (user-message-turn-delivery.ts) is     *)
(*    released or failed at any time after the turn was registered;        *)
(*  - the user-stop cascade is the wait between its two halves of a stop.  *)
(***************************************************************************)
EXTENDS SessionOperationGate

CONSTANTS
    Direct,    \* ordinary and queued submissions (submit)
    Compact,   \* requestCompaction
    Trusted    \* submitTrusted: past the gate

Handoff == Fence   \* submitInterruptingHandoff
Sub == Op \cup Handoff \cup Trusted

ASSUME SubmissionAssumption ==
    /\ Op = Direct \cup Compact
    /\ Direct \cap Compact = {}
    /\ Trusted \cap (Op \cup Fence) = {}
    /\ Op \cap Fence = {}
    /\ None \notin Trusted
    /\ "other" \notin Sub \cup {None}

VARIABLES
    pc,        \* where a submission is
    calls,     \* the submissions whose call is inside its try/finally
    stopped,   \* the submissions whose "stopped" is set
    early,     \* ... those stopped before they were registered
    prep,      \* the preparation of a submission
    lock,      \* the holder of the session's lock
    turn,      \* the controller's entry
    dying,     \* the deletion gate's set has the session
    stop       \* the stop that is under way

subVars == <<pc, calls, stopped, early, prep, lock, turn, dying, stop>>
vars == <<gateVars, subVars>>

NoTurn == [id |-> None, phase |-> "running"]
NoStop == [phase |-> "none", target |-> None]

Registered == {"held", "running", "settling", "settled", "unsettled", "over"}
Accepted == Registered \cup {"failing", "stranded", "failed", "recovered"}
\* Admitted: the lock is the submission's until it is settled or revoked.
Owning == {"committing", "delivering", "revoking", "failing", "stranded",
           "held", "running", "settling", "unsettled"}
InFlight == {"fencing", "draining", "interrupting", "checking", "preparing",
             "committing", "delivering", "revoking"}

\* PendingSubmissions: a compaction is not enrolled.
enrolled == calls \ Compact

Goto(s, l) == pc' = [pc EXCEPT ![s] = l]

----------------------------------------------------------------------------
(* Entering and leaving. *)

(* Mutant: tryRun does not await its operation, so the permit is gone. *)
ArriveWithoutPermit(s) ==
    \/ s \in Op /\ ~Closed /\ UNCHANGED gateVars
    \/ s \in Handoff /\ AcquireExclusive(s)
    \/ s \in Trusted /\ UNCHANGED gateVars

Arrive(s) ==
    \/ s \in Op /\ Enter(s)
    \/ s \in Handoff /\ AcquireExclusive(s)
    \/ s \in Trusted /\ UNCHANGED gateVars

Submit(s) ==
    /\ pc[s] = "new"
    /\ Arrive(s)
    /\ Goto(s, IF s \in Handoff THEN "fencing" ELSE "checking")
    /\ calls' = calls \cup {s}
    /\ UNCHANGED <<stopped, early, prep, lock, turn, dying, stop>>

\* 'session-deleting', 'session-mutating'
TurnedAway(s) ==
    /\ pc[s] = "new"
    /\ s \in Op \cup Handoff
    /\ Closed
    /\ Goto(s, "refused")
    /\ UNCHANGED <<gateVars, calls, stopped, early, prep, lock, turn, dying, stop>>

(* Mutant: the permit of a submission outlives its call. *)
DepartKeepingPermit(s) ==
    IF s \in Handoff /\ lease[s] # None THEN ReleaseExclusive(s)
    ELSE UNCHANGED gateVars

\* The finally blocks. A handoff whose stop released its lease has none left.
Depart(s) ==
    IF s \in Op THEN Leave(s)
    ELSE IF s \in Handoff /\ lease[s] # None THEN ReleaseExclusive(s)
    ELSE UNCHANGED gateVars

Exit(s) ==
    /\ Depart(s)
    /\ calls' = calls \ {s}

(* Mutant: an early return is outside the try, so its permit stays taken. *)
RefuseInside(s) ==
    /\ calls' = calls \ {s}
    /\ Goto(s, "refused")
    /\ UNCHANGED <<gateVars, stopped, early, lock, turn, dying, stop>>

\* The call answers that the submission was not accepted, or fails before it
\* has asked for a preparation.
Refuse(s) ==
    /\ Exit(s)
    /\ Goto(s, "refused")
    /\ UNCHANGED <<stopped, early, lock, turn, dying, stop>>

\* The call rejects after it has asked for one.
Throw(s) ==
    /\ Exit(s)
    /\ Goto(s, "threw")
    /\ UNCHANGED <<stopped, early, lock, turn, dying, stop>>

\* An accepted submission's call returns while its turn goes on.
Return(s) ==
    /\ pc[s] \in Accepted
    /\ s \in calls
    /\ Exit(s)
    /\ UNCHANGED <<pc, stopped, early, prep, lock, turn, dying, stop>>

----------------------------------------------------------------------------
(* A handoff before its own submission. *)

\* sessionUnavailable
Fenced(h) ==
    /\ pc[h] = "fencing"
    /\ \/ Refuse(h) /\ UNCHANGED prep
       \/ /\ ~gone
          /\ Goto(h, "draining")
          /\ UNCHANGED <<gateVars, calls, stopped, early, prep, lock, turn, dying, stop>>

(* Mutant: an abort forgets the entry instead of waiting for its release. *)
AbortedAway == NoTurn

\* controller.abort, up to its wait; a closing turn ends by itself.
Aborted == [turn EXCEPT !.phase = IF @ = "running" THEN "aborted" ELSE @]

\* The drain resolved: the replay lookup, then the turn that is running.
Drained(h) ==
    /\ pc[h] = "draining"
    /\ \/ /\ h \in stopped \/ drained[h] = "resolved"
          /\ Refuse(h)           \* stopped, or a receipt answers
          /\ UNCHANGED prep
       \/ /\ h \notin stopped /\ drained[h] = "resolved"
          /\ IF turn.id = None
             THEN Goto(h, "checking") /\ turn' = turn
             ELSE Goto(h, "interrupting") /\ turn' = Aborted
          /\ UNCHANGED <<gateVars, calls, stopped, early, prep, lock, dying, stop>>

(* Mutant: a handoff goes on without the drain. *)
DrainSkipped(h) ==
    /\ pc[h] = "draining" /\ drained[h] # "resolved"
    /\ turn.id = None
    /\ Goto(h, "checking")
    /\ UNCHANGED <<gateVars, calls, stopped, early, prep, lock, turn, dying, stop>>

DrainTimesOut(h) ==
    /\ pc[h] = "draining" /\ drained[h] # "resolved"
    /\ Refuse(h) /\ UNCHANGED prep

\* The abort returned: released or timed out.
Interrupted(h) ==
    /\ pc[h] = "interrupting"
    /\ \/ /\ h \in stopped \/ turn.id # None
          /\ Refuse(h)
          /\ UNCHANGED prep
       \/ /\ h \notin stopped /\ turn.id = None
          /\ Goto(h, "checking")
          /\ UNCHANGED <<gateVars, calls, stopped, early, prep, lock, turn, dying, stop>>

----------------------------------------------------------------------------
(* submitTurn: availability, preparation, admission. *)

\* The settlement of the session's turn had failed and is remembered.
lapsed == lock \in Sub /\ pc[lock] \in {"unsettled", "stranded"}

\* recoverPendingSettlement: the next admission or deletion settles that turn;
\* its entry in the controller stays.
Recovered == IF lapsed THEN [pc EXCEPT ![lock] = "recovered"] ELSE pc

\* A session that is then unlocked; the deletion gate's set refuses in the
\* same transaction.
Admissible ==
    /\ ~gone /\ ~dying
    /\ lock = None \/ lapsed

(* Mutant: the admission replaces the lock and leaves the turn accepted. *)
AdmittedOver(s, l) ==
    /\ lock' = s
    /\ pc' = [pc EXCEPT ![s] = l]

Admitted(s, l) ==
    /\ lock' = s
    /\ pc' = [Recovered EXCEPT ![s] = l]

Checked(s) ==
    /\ pc[s] = "checking"
    /\ \/ Refuse(s) /\ UNCHANGED prep
       \/ /\ s \notin Compact /\ s \notin stopped
          /\ Goto(s, "preparing")
          /\ UNCHANGED <<gateVars, calls, stopped, early, prep, lock, turn, dying, stop>>
       \/ /\ s \in Compact
          /\ Admissible
          /\ Admitted(s, "delivering")
          /\ UNCHANGED <<gateVars, calls, stopped, early, prep, turn, dying, stop>>

(* Mutant: a stop during the preparation is not looked at, then or later. *)
MayGoOnAlways(s) == TRUE

\* submission.stopped
MayGoOn(s) == s \notin stopped

\* The preparation answers. One that rejects or throws undoes itself; a stop
\* that came meanwhile and an admission that refuses or throws roll it back.
\* The call rejects when any of these throws.
Prepared(s) ==
    /\ pc[s] = "preparing"
    /\ \/ /\ prep' = [prep EXCEPT ![s] = "restored"]
          /\ Refuse(s)
       \/ /\ \E p \in {"restored", "kept"} : prep' = [prep EXCEPT ![s] = p]
          /\ Throw(s)
       \/ /\ MayGoOn(s)
          /\ Admissible
          /\ Admitted(s, "committing")
          /\ prep' = [prep EXCEPT ![s] = "ready"]
          /\ UNCHANGED <<gateVars, calls, stopped, early, turn, dying, stop>>

(* Mutant: a preparation is not compensated. *)
KeepPreparation(s) == UNCHANGED prep

\* compensateStartedPreparation: a compensation that throws is not tried again.
Compensate(s) ==
    \E p \in {"restored", "kept"} :
        prep' = [prep EXCEPT ![s] = IF @ = "none" THEN @ ELSE p]

\* preparation.commit, then the first check of startAcceptedTurn.
Committed(s) ==
    /\ pc[s] = "committing"
    /\ \/ /\ Compensate(s)          \* the commit fails
          /\ Goto(s, "failing")
       \/ /\ ~MayGoOn(s)
          /\ Compensate(s)
          /\ Goto(s, "revoking")
       \/ /\ MayGoOn(s)
          /\ prep' = [prep EXCEPT ![s] = "committed"]
          /\ Goto(s, "delivering")
    /\ UNCHANGED <<gateVars, calls, stopped, early, lock, turn, dying, stop>>

\* preDelivery.accept, the second check, the registration and startTurn.
Delivered(s) ==
    /\ pc[s] = "delivering"
    /\ \/ /\ s \notin Compact       \* accept fails, or the stop came meanwhile
          /\ Compensate(s)
          /\ Goto(s, "revoking")
          /\ turn' = turn
       \/ /\ turn.id # None         \* 'Turn already active'
          /\ s \in Compact \/ MayGoOn(s)
          /\ Compensate(s)
          /\ Goto(s, "failing")
          /\ turn' = turn
       \/ /\ turn.id = None
          /\ s \in Compact \/ MayGoOn(s)
          /\ turn' = [id |-> s, phase |-> "running"]
          /\ \/ prep' = prep /\ Goto(s, "held")
             \/ s \notin Compact /\ Compensate(s) /\ Goto(s, "settling")
    /\ UNCHANGED <<gateVars, calls, stopped, early, lock, dying, stop>>

(* Mutant: a revocation that fails leaves the admission behind. *)
RevokedOrForgotten(s) ==
    /\ pc[s] = "revoking"
    /\ \/ lock' = None
       \/ lock' = lock
    /\ Exit(s)
    /\ Goto(s, "refused")
    /\ UNCHANGED <<prep, stopped, early, turn, dying, stop>>

\* revokeAdmission: a stop that left nothing behind is answered, any other
\* failure is thrown. An admission it could not take back is failed instead.
Revoked(s) ==
    /\ pc[s] = "revoking"
    /\ \/ /\ lock' = None
          /\ Exit(s)
          /\ \/ s \in stopped /\ prep[s] # "kept" /\ Goto(s, "refused")
             \/ Goto(s, "threw")
       \/ /\ lock' = lock
          /\ Goto(s, "failing")
          /\ UNCHANGED <<gateVars, calls>>
    /\ UNCHANGED <<prep, stopped, early, turn, dying, stop>>

\* settleFailedAdmission: no controller entry. Both attempts may fail.
AdmissionFailed(s) ==
    /\ pc[s] = "failing"
    /\ \/ lock' = None /\ Goto(s, "failed")
       \/ lock' = lock /\ Goto(s, "stranded")
    /\ UNCHANGED <<gateVars, calls, stopped, early, prep, turn, dying, stop>>

----------------------------------------------------------------------------
(* The registered turn. *)

(* Mutant: a turn whose start fence failed is not settled. *)
StartedWhenReleased(s) ==
    /\ pc[s] = "held"
    /\ turn.phase = "running"
    /\ Goto(s, "running")
    /\ UNCHANGED <<gateVars, calls, stopped, early, prep, lock, turn, dying, stop>>

\* The start fence: it fails, or the host is entered unless the turn was
\* aborted. A compaction has no fence and enters with its signal.
Started(s) ==
    /\ pc[s] = "held"
    /\ \/ Goto(s, "settling")
       \/ /\ turn.phase = "running" \/ s \in Compact
          /\ Goto(s, "running")
    /\ UNCHANGED <<gateVars, calls, stopped, early, prep, lock, turn, dying, stop>>

\* tryBeginClose
HostCloses(s) ==
    /\ pc[s] = "running" /\ turn.phase = "running"
    /\ turn' = [turn EXCEPT !.phase = "closing"]
    /\ UNCHANGED <<gateVars, pc, calls, stopped, early, prep, lock, dying, stop>>

HostEnds(s) ==
    /\ pc[s] = "running"
    /\ Goto(s, "settling")
    /\ UNCHANGED <<gateVars, calls, stopped, early, prep, lock, turn, dying, stop>>

\* settleAndRelease: the repository first. When both attempts fail the entry
\* is not completed.
Settled(s) ==
    /\ pc[s] = "settling"
    /\ \/ lock' = None /\ Goto(s, "settled")
       \/ lock' = lock /\ Goto(s, "unsettled")
    /\ UNCHANGED <<gateVars, calls, stopped, early, prep, turn, dying, stop>>

\* controller.complete
Completed(s) ==
    /\ pc[s] = "settled"
    /\ turn' = NoTurn
    /\ Goto(s, "over")
    /\ UNCHANGED <<gateVars, calls, stopped, early, prep, lock, dying, stop>>

----------------------------------------------------------------------------
(* A stop: the pending submissions at once, the controller after the        *)
(* cascade has begun.                                                       *)

Targets(t) == t = None \/ turn.id = None \/ t = turn.id
Hit(t) == IF Targets(t) THEN {s \in enrolled : t \in {None, s}} ELSE {}

StopBegins(t) ==
    LET leased == {h \in Hit(t) \cap Handoff : lease[h] # None} IN
    /\ stop.phase = "none"
    /\ stop' = [phase |-> "begun", target |-> t]
    /\ stopped' = stopped \cup Hit(t)
    /\ early' = early \cup {s \in Hit(t) : pc[s] \notin Registered \cup {"recovered"}}
    /\ IF leased = {} THEN UNCHANGED gateVars
       ELSE \E h \in leased : ReleaseExclusive(h)
    /\ UNCHANGED <<pc, calls, prep, lock, turn, dying>>

StopAborts ==
    /\ stop.phase = "begun"
    /\ stop' = NoStop
    /\ turn' = IF turn.id # None /\ stop.target \in {None, turn.id}
               THEN Aborted ELSE turn
    /\ UNCHANGED <<gateVars, pc, calls, stopped, early, prep, lock, dying>>

----------------------------------------------------------------------------
(* The deletion lane and the other owners of the session. *)

\* block, quiesceSession and the transaction of beginSessionDeletion
BeginDeletion ==
    /\ Block
    /\ dying' = TRUE
    /\ lock' = IF lapsed THEN None ELSE lock
    /\ pc' = Recovered
    /\ UNCHANGED <<calls, stopped, early, prep, turn, stop>>

LaneFails ==
    /\ DeletionFails
    /\ UNCHANGED subVars

\* requireQuiescentTurn
DeletionAborts ==
    /\ lane.phase = "clear"
    /\ turn' = IF turn.id # None THEN Aborted ELSE turn
    /\ UNCHANGED <<gateVars, pc, calls, stopped, early, prep, lock, dying, stop>>

EraseSession ==
    /\ turn.id = None /\ lock = None
    /\ Erase
    /\ UNCHANGED subVars

EndDeletion ==
    /\ FinishDeletion \/ DeleteAbsent
    /\ dying' = FALSE
    /\ UNCHANGED <<pc, calls, stopped, early, prep, lock, turn, stop>>

OtherLocks ==
    /\ lock = None /\ ~gone /\ lane.phase # "erased"
    /\ lock' = "other"
    /\ UNCHANGED <<gateVars, pc, calls, stopped, early, prep, turn, dying, stop>>

OtherUnlocks ==
    /\ lock = "other"
    /\ lock' = None
    /\ UNCHANGED <<gateVars, pc, calls, stopped, early, prep, turn, dying, stop>>

\* Another runtime deletes the session; its lock keeps turns out.
OtherErases ==
    /\ lock \in {None, "other"}
    /\ ForeignErase
    /\ lock' = None
    /\ UNCHANGED <<pc, calls, stopped, early, prep, turn, dying, stop>>

----------------------------------------------------------------------------

Init ==
    /\ GateInit
    /\ pc = [s \in Sub |-> "new"]
    /\ calls = {}
    /\ stopped = {}
    /\ early = {}
    /\ prep = [s \in Sub |-> "none"]
    /\ lock = None
    /\ turn = NoTurn
    /\ dying = FALSE
    /\ stop = NoStop

\* What the runtime does for a submission that it has let in.
Advance(s) ==
    \/ s \in Handoff /\ (Fenced(s) \/ Drained(s) \/ DrainTimesOut(s) \/ Interrupted(s))
    \/ Checked(s) \/ Prepared(s) \/ Committed(s) \/ Delivered(s) \/ Revoked(s)
    \/ AdmissionFailed(s) \/ Started(s) \/ HostEnds(s) \/ Settled(s) \/ Completed(s)

Next ==
    \/ \E s \in Sub : Submit(s) \/ TurnedAway(s) \/ Return(s) \/ Advance(s) \/ HostCloses(s)
    \/ \E t \in Sub \cup {None} : StopBegins(t)
    \/ StopAborts
    \/ BeginDeletion \/ LaneFails \/ DeletionAborts \/ EraseSession \/ EndDeletion
    \/ OtherLocks \/ OtherUnlocks \/ OtherErases

Spec == Init /\ [][Next]_vars

\* Promises settle: the calls a submission awaits return (its waits have
\* timeouts), its start fence is released or failed, and its host ends. No
\* fairness on stops, deletions, failures or other owners.
Fairness == \A s \in Sub : WF_vars(Advance(s)) /\ WF_vars(Return(s))

FairSpec == Spec /\ Fairness

----------------------------------------------------------------------------
(* Properties. *)

SubTypeOK ==
    /\ pc \in [Sub -> {"new", "refused", "threw"} \cup InFlight \cup Accepted]
    /\ calls \subseteq Sub
    /\ early \subseteq stopped /\ stopped \subseteq Sub
    /\ prep \in [Sub -> {"none", "ready", "committed", "restored", "kept"}]
    /\ lock \in Sub \cup {None, "other"}
    /\ turn \in [id : Sub \cup {None}, phase : {"running", "closing", "aborted"}]
    /\ dying \in BOOLEAN
    /\ stop \in [phase : {"none", "begun"}, target : Sub \cup {None}]

\* A stop that comes while a submission has no turn yet is not lost: that
\* submission never becomes a registered turn.
StoppedNeverRegisters == \A s \in early : pc[s] \notin Registered

\* The session's lock is never left to a submission that nobody is going to
\* settle, revoke or recover.
NoStrandedLock == lock \in Sub => pc[lock] \in Owning

\* A turn that runs has both the durable lock and the controller's entry, so
\* a stop that looks at the entry stops what the lock protects.
TurnOwnsSession ==
    \A s \in Sub : pc[s] \in {"held", "running", "settling"} =>
        lock = s /\ turn.id = s

\* A submission that is answered as not accepted leaves nothing of its
\* preparation, so that it can be sent again. One that failed on the way has
\* had the preparation restored or its restore has thrown: a committed one is
\* never just left behind. One whose turn is registered goes to its host with
\* the preparation committed and never restored under it. A registered turn
\* that ends without its host is left open: its start threw and compensated, or
\* its start fence failed and nothing does (turn-execution.service.ts:704,
\* execution.coordinator.ts:97).
PreparationReturned ==
    \A s \in Sub :
        /\ pc[s] = "refused" => prep[s] \in {"none", "restored"}
        /\ pc[s] \in {"threw", "failing", "stranded", "failed"} =>
              prep[s] \in {"none", "restored", "kept"}
        /\ pc[s] \in {"held", "running"} =>
              prep[s] = IF s \in Compact THEN "none" ELSE "committed"

\* The gate counts the calls that are open, neither one more nor one less: its
\* count is the submissions and compactions that have not returned, and it is
\* leased to a handoff exactly until that returns or a stop takes the lease.
\* Nothing compares the two in turn-execution.service.ts.
GateCountsCalls ==
    /\ (IF entry = None THEN 0 ELSE state[entry].active) = Cardinality(Op \cap calls)
    /\ \A h \in Handoff :
          (entry # None /\ state[entry].mutation = h) <=> h \in calls \ stopped

\* Once a handoff has looked at the controller, no ordinary submission is on
\* its way to a turn that the handoff did not see.
HandoffIsAlone ==
    \A h \in Handoff : lease[h] # None /\ pc[h] \in {"checking", "preparing"} =>
        \A s \in Op : pc[s] \notin InFlight

\* Nor is one when a deletion has drained the gate, but for a handoff that a
\* stop made give its lease back early.
DeletionDrainsSubmissions ==
    lane.phase \in {"clear", "erased"} =>
        \A s \in Op \cup Handoff : pc[s] \in InFlight => s \in Handoff \cap stopped

\* Whoever waits for the gate waits for a call that is under way and that is
\* still to leave: not for one that was refused, nor for one that has returned.
WaitsForACall ==
    LET Calls == {s \in Sub : s \in calls /\ pc[s] \in InFlight \cup Accepted} IN
    /\ lane.phase = "blocking" => Calls \cap (Op \cup Handoff) # {}
    /\ \A h \in Handoff : lease[h] # None /\ drained[h] = "waiting" =>
          Calls \cap Op # {}

\* Every submission comes to an end, or to a settlement that failed twice.
SubmissionEnds ==
    \A s \in Sub :
        pc[s] \in InFlight ~>
            pc[s] \in {"refused", "threw", "failed", "over", "unsettled", "stranded", "recovered"}

\* What the submissions expect of the repository (SessionOwner).
life == [s \in Sub |-> CASE pc[s] \in Owning              -> "owning"
                         [] pc[s] \in {"settled", "over", "failed"} -> "settled"
                         [] pc[s] = "recovered"           -> "failed"
                         [] OTHER                         -> "new"]

Owner == INSTANCE SessionOwner
    WITH owner <- lock, Work <- Sub, Other <- {"other"}, Eraser <- {}, Nobody <- None

\* The places of the submissions and the lock go together as the contract of
\* the repository has it: a submission is somewhere between its admission and
\* its settlement exactly while the session is its own.
SessionOwner == Owner!Spec

=============================================================================
