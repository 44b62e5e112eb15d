------------------------ MODULE TurnSubmissionProofs ------------------------
(* The safety of one session's submissions for any number of them. The     *)
(* submissions implement the gate, so the theorems about the gate hold     *)
(* here; the inductive invariant adds who owns the lock and the entry,     *)
(* what became of a preparation, and what a submission holds of the gate.  *)
EXTENDS TurnSubmission, SessionOperationGateProofs

----------------------------------------------------------------------------
(* Submissions implement the gate. *)

(* Leaving is a step of the gate or none.                                   *)
LEMMA DepartIsGateStep ==
    ASSUME NEW s \in Sub, Depart(s)
    PROVE  [GateNext]_gateVars
BY DEF Depart, Handoff, GateNext

(* So is arriving.                                                          *)
LEMMA ArriveIsGateStep ==
    ASSUME NEW s \in Sub, Arrive(s)
    PROVE  [GateNext]_gateVars
BY DEF Arrive, Handoff, GateNext

(* What is done for a submission that is inside does not touch the gate     *)
(* but to leave it.                                                         *)
LEMMA AdvanceIsGateStep ==
    ASSUME NEW s \in Sub, Advance(s)
    PROVE  [GateNext]_gateVars
<1>1. CASE Fenced(s)
  BY <1>1, DepartIsGateStep DEF Fenced, Refuse, Exit
<1>2. CASE Drained(s) \/ DrainTimesOut(s) \/ Interrupted(s)
  BY <1>2, DepartIsGateStep DEF Drained, DrainTimesOut, Interrupted, Refuse, Exit
<1>3. CASE Checked(s) \/ Prepared(s)
  BY <1>3, DepartIsGateStep DEF Checked, Prepared, Refuse, Throw, Exit
<1>4. CASE Committed(s) \/ Delivered(s)
  BY <1>4 DEF Committed, Delivered
<1>5. CASE Revoked(s)
  BY <1>5, DepartIsGateStep DEF Revoked, Exit
<1>6. CASE AdmissionFailed(s) \/ Started(s) \/ HostEnds(s) \/ Settled(s) \/ Completed(s)
  BY <1>6 DEF AdmissionFailed, Started, HostEnds, Settled, Completed
<1> QED
  BY <1>1, <1>2, <1>3, <1>4, <1>5, <1>6 DEF Advance

(* Every step is a step of the gate or leaves it alone.                     *)
LEMMA StepIsGateStep == [Next]_vars => [GateNext]_gateVars
<1> SUFFICES ASSUME [Next]_vars PROVE [GateNext]_gateVars
  OBVIOUS
<1>1. CASE \E s \in Sub : Submit(s) \/ TurnedAway(s)
  BY <1>1, ArriveIsGateStep DEF Submit, TurnedAway
<1>2. CASE \E s \in Sub : Return(s)
  BY <1>2, DepartIsGateStep DEF Return, Exit
<1>3. CASE \E s \in Sub : Advance(s) \/ HostCloses(s)
  BY <1>3, AdvanceIsGateStep DEF HostCloses
<1>4. CASE \E t \in Sub \cup {None} : StopBegins(t)
  BY <1>4 DEF StopBegins, GateNext, Handoff
<1>5. CASE StopAborts \/ DeletionAborts \/ OtherLocks \/ OtherUnlocks
  BY <1>5 DEF StopAborts, DeletionAborts, OtherLocks, OtherUnlocks
<1>6. CASE BeginDeletion \/ LaneFails \/ EraseSession \/ EndDeletion \/ OtherErases
  BY <1>6 DEF BeginDeletion, LaneFails, EraseSession, EndDeletion, OtherErases, GateNext
<1>7. CASE UNCHANGED vars
  BY <1>7 DEF vars
<1> QED
  BY <1>1, <1>2, <1>3, <1>4, <1>5, <1>6, <1>7 DEF Next

(* So what is proved of the gate holds of it here.                          *)
LEMMA ImplementsGate == Spec => GateSpec
<1>1. Init => GateInit
  BY DEF Init
<1> QED
  BY <1>1, StepIsGateStep, PTL DEF Spec, GateSpec

(* So a deletion and a handoff that waited for the gate are alone.          *)
THEOREM SubmissionsKeepGate == Spec => []GateInv
BY ImplementsGate, GateInvariant, PTL

----------------------------------------------------------------------------
(* The invariant of the submissions. *)

\* A stop that came early is heard: compactions are the only submissions that
\* do not look at it, and they are not calls.
StopInv == \A s \in early : s \notin Compact /\ pc[s] \notin Registered

\* Who has been admitted and not settled is exactly who has the lock, and a
\* turn that has not completed has the entry.
LockInv ==
    /\ \A s \in Sub : pc[s] \in Owning <=> lock = s
    /\ \A s \in Sub : pc[s] \in {"held", "running", "settling", "settled", "unsettled"}
          => turn.id = s

\* A compaction prepares nothing. Anybody else prepares once, goes on to its
\* turn with the preparation committed, and gives it back when it fails before.
PrepInv ==
    \A s \in Sub :
        /\ pc[s] \in {"preparing", "committing"} => s \notin Compact
        /\ pc[s] \in {"new", "fencing", "draining", "interrupting", "checking", "preparing"}
              => prep[s] = "none"
        /\ pc[s] \in {"delivering", "held", "running"}
              => prep[s] = IF s \in Compact THEN "none" ELSE "committed"
        /\ pc[s] = "refused" => prep[s] \in {"none", "restored"}
        /\ pc[s] \in {"threw", "revoking", "failing", "stranded", "failed"}
              => prep[s] \in {"none", "restored", "kept"}

\* What a submission that is under way holds of the gate.
HoldInv ==
    /\ \A s \in Op : pc[s] \in InFlight => permit[s] # None
    /\ \A h \in Handoff : pc[h] \in InFlight => lease[h] # None \/ h \in stopped
    /\ \A h \in Handoff : pc[h] \in {"interrupting", "checking", "preparing"}
          /\ lease[h] # None => drained[h] = "resolved"

PlaceInv == SubTypeOK /\ StopInv /\ LockInv /\ PrepInv

(* A lease that is held through a step keeps its resolved promise.          *)
LEMMA DrainStaysResolved ==
    ASSUME GateTypeOK, [GateNext]_gateVars,
           NEW h \in Fence, lease[h] # None, lease'[h] # None, drained[h] = "resolved"
    PROVE  drained'[h] = "resolved"
<1>1. CASE UNCHANGED gateVars
  BY <1>1 DEF gateVars
<1>2. CASE \E c \in Op : Enter(c) \/ Leave(c)
  BY <1>2 DEF Enter, Leave, Woken, GateTypeOK
<1>3. CASE \E f \in Fence : AcquireExclusive(f)
  BY <1>3 DEF AcquireExclusive, GateTypeOK
<1>4. CASE \E f \in Fence : ReleaseExclusive(f)
  BY <1>4 DEF ReleaseExclusive, Woken, GateTypeOK
<1>5. CASE Block \/ DeletionFails \/ Erase \/ FinishDeletion \/ DeleteAbsent \/ ForeignErase
  BY <1>5 DEF Block, DeletionFails, Erase, FinishDeletion, DeleteAbsent, OpenGate, ForeignErase
<1> QED
  BY <1>1, <1>2, <1>3, <1>4, <1>5 DEF GateNext

(* Nothing has been submitted at first.                                     *)
LEMMA PlaceInit == Init => PlaceInv /\ HoldInv
<1> SUFFICES ASSUME Init PROVE PlaceInv /\ HoldInv
  OBVIOUS
<1>1. SubTypeOK
  BY DEF Init, SubTypeOK, NoTurn, NoStop
<1>2. StopInv /\ PrepInv
  BY DEF Init, StopInv, PrepInv
<1>3. LockInv
  BY SubmissionAssumption, GateAssumption
     DEF Init, LockInv, Owning, Sub, Handoff, NoTurn
<1>4. HoldInv
  BY DEF Init, HoldInv, InFlight, Sub, Handoff, GateInit
<1> QED
  BY <1>1, <1>2, <1>3, <1>4 DEF PlaceInv

(* The constants that stand for nobody are no submissions.                  *)
LEMMA Nobody == None \notin Sub /\ "other" \notin Sub /\ None # "other"
BY SubmissionAssumption, GateAssumption DEF Sub, Handoff

(* A submission that ends without a turn.                                   *)
LEMMA LeavePlace ==
    ASSUME PlaceInv, NEW s \in Sub, pc[s] \in (InFlight \ Owning) \cup {"new"},
           calls' \subseteq calls,
           \/ /\ pc' = [pc EXCEPT ![s] = "refused"]
              /\ prep' \in {prep, [prep EXCEPT ![s] = "restored"]}
              /\ prep[s] \in {"none", "restored"}
           \/ /\ pc' = [pc EXCEPT ![s] = "threw"]
              /\ prep' \in {[prep EXCEPT ![s] = "restored"], [prep EXCEPT ![s] = "kept"]},
           UNCHANGED <<stopped, early, lock, turn, dying, stop>>
    PROVE  PlaceInv'
<1> USE DEF PlaceInv, SubTypeOK, InFlight, Accepted, Registered, Owning
<1>1. SubTypeOK'
  OBVIOUS
<1>2. StopInv'
  BY DEF StopInv
<1>3. LockInv'
  BY DEF LockInv
<1>4. PrepInv'
  BY DEF PrepInv
<1> QED
  BY <1>1, <1>2, <1>3, <1>4

(* A step within a submission that has not been admitted.                   *)
LEMMA WalkPlace ==
    ASSUME PlaceInv, NEW s \in Sub, NEW l \in {"fencing", "draining", "interrupting",
                                               "checking", "preparing"},
           pc[s] \in {"new", "fencing", "draining", "interrupting", "checking"},
           l = "preparing" => s \notin Compact,
           pc' = [pc EXCEPT ![s] = l], calls' \subseteq Sub,
           turn' \in {turn, Aborted},
           UNCHANGED <<stopped, early, prep, lock, dying, stop>>
    PROVE  PlaceInv'
<1> USE DEF PlaceInv, SubTypeOK, InFlight, Accepted, Registered, Owning
<1>1. turn' \in [id : Sub \cup {None}, phase : {"running", "closing", "aborted"}]
      /\ turn'.id = turn.id
  BY DEF Aborted
<1>2. SubTypeOK'
  BY <1>1
<1>3. StopInv'
  BY DEF StopInv
<1>4. LockInv'
  BY <1>1 DEF LockInv
<1>5. PrepInv'
  BY DEF PrepInv
<1> QED
  BY <1>2, <1>3, <1>4, <1>5

(* The admission of a submission, with the settlement it may recover.       *)
LEMMA AdmittedPlace ==
    ASSUME PlaceInv, NEW s \in Sub, NEW l \in {"committing", "delivering"},
           pc[s] \in {"checking", "preparing"}, Admissible, Admitted(s, l),
           \/ l = "committing" /\ s \notin Compact /\ prep' = [prep EXCEPT ![s] = "ready"]
           \/ l = "delivering" /\ s \in Compact /\ prep' = prep,
           UNCHANGED <<calls, stopped, early, turn, dying, stop>>
    PROVE  PlaceInv'
<1> USE DEF PlaceInv, SubTypeOK, InFlight, Accepted, Registered, Owning
<1>1. /\ lock' = s /\ pc'[s] = l
      /\ lock # s
      /\ \A t \in Sub : t # s /\ t # lock => pc'[t] = pc[t]
      /\ \A t \in Sub : t # s /\ t = lock =>
            pc[t] \in {"unsettled", "stranded"} /\ pc'[t] = "recovered"
  BY Nobody DEF Admissible, Admitted, Recovered, lapsed, LockInv
<1>2. SubTypeOK'
  BY <1>1 DEF Admitted, Recovered
<1>3. StopInv'
  BY <1>1 DEF StopInv
<1>4. LockInv'
  BY <1>1 DEF LockInv
<1>5. PrepInv'
  BY <1>1 DEF PrepInv
<1> QED
  BY <1>2, <1>3, <1>4, <1>5

(* A step of an admitted submission before it has a turn.                   *)
LEMMA StartPlace ==
    ASSUME PlaceInv, NEW s \in Sub,
           Committed(s) \/ Delivered(s) \/ Revoked(s) \/ AdmissionFailed(s)
    PROVE  PlaceInv'
<1> USE DEF PlaceInv, SubTypeOK, InFlight, Accepted, Registered, Owning, Goto
<1>1. CASE Committed(s)
  <2>1. SubTypeOK'
    BY <1>1 DEF Committed, Compensate
  <2>2. StopInv'
    BY <1>1 DEF Committed, StopInv
  <2>3. LockInv'
    BY <1>1 DEF Committed, LockInv
  <2>4. PrepInv'
    BY <1>1 DEF Committed, PrepInv, Compensate
  <2> QED
    BY <2>1, <2>2, <2>3, <2>4
<1>2. CASE Delivered(s)
  <2>1. SubTypeOK'
    BY <1>2 DEF Delivered, Compensate
  <2>2. StopInv'
    BY <1>2 DEF Delivered, StopInv, MayGoOn
  <2>3. LockInv'
    BY <1>2, Nobody DEF Delivered, LockInv
  <2>4. PrepInv'
    BY <1>2 DEF Delivered, PrepInv, Compensate
  <2> QED
    BY <2>1, <2>2, <2>3, <2>4
<1>3. CASE Revoked(s)
  <2>1. SubTypeOK'
    BY <1>3 DEF Revoked, Exit
  <2>2. StopInv'
    BY <1>3 DEF Revoked, StopInv
  <2>3. LockInv'
    BY <1>3, Nobody DEF Revoked, LockInv
  <2>4. PrepInv'
    BY <1>3 DEF Revoked, PrepInv
  <2> QED
    BY <2>1, <2>2, <2>3, <2>4
<1>4. CASE AdmissionFailed(s)
  <2>1. SubTypeOK'
    BY <1>4 DEF AdmissionFailed
  <2>2. StopInv'
    BY <1>4 DEF AdmissionFailed, StopInv
  <2>3. LockInv'
    BY <1>4, Nobody DEF AdmissionFailed, LockInv
  <2>4. PrepInv'
    BY <1>4 DEF AdmissionFailed, PrepInv
  <2> QED
    BY <2>1, <2>2, <2>3, <2>4
<1> QED
  BY <1>1, <1>2, <1>3, <1>4

(* A step of a registered turn.                                             *)
LEMMA TurnPlace ==
    ASSUME PlaceInv, NEW s \in Sub,
           \/ Started(s) \/ HostCloses(s) \/ HostEnds(s) \/ Settled(s) \/ Completed(s)
    PROVE  PlaceInv'
<1> USE DEF PlaceInv, SubTypeOK, InFlight, Accepted, Registered, Owning, Goto
<1>1. CASE Started(s) \/ HostEnds(s)
  BY <1>1 DEF Started, HostEnds, StopInv, LockInv, PrepInv
<1>2. CASE HostCloses(s)
  <2>1. turn' \in [id : Sub \cup {None}, phase : {"running", "closing", "aborted"}]
        /\ turn'.id = turn.id
    BY <1>2 DEF HostCloses
  <2> QED
    BY <1>2, <2>1 DEF HostCloses, StopInv, LockInv, PrepInv
<1>3. CASE Settled(s)
  BY <1>3, Nobody DEF Settled, StopInv, LockInv, PrepInv
<1>4. CASE Completed(s)
  BY <1>4, Nobody DEF Completed, StopInv, LockInv, PrepInv, NoTurn
<1> QED
  BY <1>1, <1>2, <1>3, <1>4

(* A stop marks calls submissions, and aborts a turn without taking its  *)
(* entry.                                                                   *)
LEMMA StopPlace ==
    ASSUME PlaceInv, (\E t \in Sub \cup {None} : StopBegins(t)) \/ StopAborts \/ DeletionAborts
    PROVE  PlaceInv'
<1> USE DEF PlaceInv, SubTypeOK
<1>1. CASE \E t \in Sub \cup {None} : StopBegins(t)
  <2>1. PICK t \in Sub \cup {None} : StopBegins(t)
    BY <1>1
  <2>2. Hit(t) \subseteq calls \ Compact
    BY DEF Hit, enrolled
  <2>3. StopInv'
    BY <2>1, <2>2 DEF StopBegins, StopInv
  <2>4. SubTypeOK'
    BY <2>1, <2>2 DEF StopBegins
  <2>5. LockInv' /\ PrepInv'
    BY <2>1 DEF StopBegins, LockInv, PrepInv
  <2> QED
    BY <2>3, <2>4, <2>5
<1>2. CASE StopAborts \/ DeletionAborts
  <2>1. turn' \in [id : Sub \cup {None}, phase : {"running", "closing", "aborted"}]
        /\ turn'.id = turn.id
    BY <1>2 DEF StopAborts, DeletionAborts, Aborted
  <2> QED
    BY <1>2, <2>1 DEF StopAborts, DeletionAborts, NoStop, StopInv, LockInv, PrepInv
<1> QED
  BY <1>1, <1>2

(* A deletion settles the turn whose settlement had failed.                 *)
LEMMA DeletionPlace ==
    ASSUME PlaceInv, BeginDeletion
    PROVE  PlaceInv'
<1> USE DEF PlaceInv, SubTypeOK, InFlight, Accepted, Registered, Owning
<1>1. /\ lock' = (IF lapsed THEN None ELSE lock) /\ dying' = TRUE
      /\ pc' = (IF lapsed THEN [pc EXCEPT ![lock] = "recovered"] ELSE pc)
      /\ UNCHANGED <<calls, stopped, early, prep, turn, stop>>
  BY DEF BeginDeletion, Recovered
<1>2. CASE lapsed
  <2>1. SubTypeOK'
    BY <1>1, <1>2
  <2>2. StopInv' /\ PrepInv'
    BY <1>1, <1>2 DEF StopInv, PrepInv, lapsed
  <2>3. LockInv'
    BY <1>1, <1>2, Nobody DEF LockInv, lapsed
  <2> QED
    BY <2>1, <2>2, <2>3
<1>3. CASE ~lapsed
  BY <1>1, <1>3 DEF StopInv, LockInv, PrepInv
<1> QED
  BY <1>2, <1>3

(* The rest of the lane and other owners change no submission.              *)
LEMMA OthersPlace ==
    ASSUME PlaceInv,
           \/ LaneFails \/ EraseSession \/ EndDeletion
           \/ OtherLocks \/ OtherUnlocks \/ OtherErases
           \/ UNCHANGED vars
    PROVE  PlaceInv'
<1>1. /\ UNCHANGED <<pc, calls, stopped, early, prep, turn, stop>>
      /\ dying' \in BOOLEAN
      /\ lock' = lock \/ {lock, lock'} \subseteq {None, "other"}
  BY DEF LaneFails, EraseSession, EndDeletion, OtherLocks, OtherUnlocks,
     OtherErases, vars, subVars, PlaceInv, SubTypeOK
<1> QED
  BY <1>1, Nobody DEF PlaceInv, SubTypeOK, StopInv, LockInv, PrepInv

(* A submission on its way to admission.                                    *)
LEMMA ApproachPlace ==
    ASSUME PlaceInv, NEW s \in Sub,
           \/ Submit(s) \/ TurnedAway(s)
           \/ s \in Handoff /\ (Fenced(s) \/ Drained(s) \/ DrainTimesOut(s) \/ Interrupted(s))
           \/ Checked(s) \/ Prepared(s)
    PROVE  PlaceInv'
<1> USE DEF Goto
<1>1. prep = [prep EXCEPT ![s] = prep[s]]
  BY DEF PlaceInv, SubTypeOK
<1>2. CASE Submit(s)
  <2>1. calls' \subseteq Sub
    BY <1>2 DEF Submit, PlaceInv, SubTypeOK
  <2> QED
    BY <1>2, <2>1, WalkPlace DEF Submit
<1>3. CASE TurnedAway(s)
  <2>1. prep[s] = "none"
    BY <1>3 DEF PlaceInv, TurnedAway, PrepInv
  <2> QED
    BY <1>3, <2>1, LeavePlace DEF TurnedAway
<1>4. CASE s \in Handoff /\ (Fenced(s) \/ Drained(s) \/ DrainTimesOut(s) \/ Interrupted(s))
  <2>1. calls \subseteq Sub /\ prep[s] = "none"
    BY <1>4 DEF PlaceInv, SubTypeOK, PrepInv, Fenced, Drained, DrainTimesOut, Interrupted
  <2>2. CASE Refuse(s) /\ UNCHANGED prep
    <3>1. pc[s] \in InFlight \ Owning
      BY <1>4 DEF Fenced, Drained, DrainTimesOut, Interrupted, InFlight, Owning
    <3> QED
      BY <2>1, <2>2, <3>1, LeavePlace DEF Refuse, Exit
  <2>3. CASE ~(Refuse(s) /\ UNCHANGED prep)
    BY <1>4, <2>1, <2>3, WalkPlace DEF Fenced, Drained, DrainTimesOut, Interrupted
  <2> QED
    BY <2>2, <2>3
<1>5. CASE Checked(s)
  <2>1. calls \subseteq Sub /\ prep[s] = "none"
    BY <1>5 DEF PlaceInv, SubTypeOK, Checked, PrepInv
  <2>2. CASE Refuse(s) /\ UNCHANGED prep
    BY <1>5, <2>1, <2>2, LeavePlace DEF Checked, Refuse, Exit, InFlight, Owning
  <2>3. CASE s \notin Compact /\ ~(Refuse(s) /\ UNCHANGED prep)
    BY <1>5, <2>1, <2>3, WalkPlace DEF Checked
  <2>4. CASE s \in Compact /\ ~(Refuse(s) /\ UNCHANGED prep)
    BY <1>1, <1>5, <2>1, <2>4, AdmittedPlace DEF Checked
  <2> QED
    BY <2>2, <2>3, <2>4
<1>6. CASE Prepared(s)
  <2>1. prep[s] = "none" /\ s \notin Compact
    BY <1>6 DEF PlaceInv, Prepared, PrepInv
  <2>2. CASE Refuse(s) /\ prep' = [prep EXCEPT ![s] = "restored"]
    BY <1>6, <2>1, <2>2, LeavePlace DEF Prepared, Refuse, Exit, InFlight, Owning
  <2>3. CASE Throw(s) /\ \E p \in {"restored", "kept"} : prep' = [prep EXCEPT ![s] = p]
    BY <1>6, <2>3, LeavePlace DEF Prepared, Throw, Exit, InFlight, Owning
  <2>4. CASE /\ Admissible /\ Admitted(s, "committing")
             /\ prep' = [prep EXCEPT ![s] = "ready"]
             /\ UNCHANGED <<gateVars, calls, stopped, early, turn, dying, stop>>
    BY <1>6, <2>1, <2>4, AdmittedPlace DEF Prepared
  <2> QED
    BY <1>6, <2>2, <2>3, <2>4 DEF Prepared
<1> QED
  BY <1>2, <1>3, <1>4, <1>5, <1>6

(* Every step keeps the invariant.                                          *)
LEMMA PlaceStep == PlaceInv /\ [Next]_vars => PlaceInv'
<1> SUFFICES ASSUME PlaceInv, [Next]_vars PROVE PlaceInv'
  OBVIOUS
<1>1. CASE \E s \in Sub : Submit(s) \/ TurnedAway(s)
  BY <1>1, ApproachPlace
<1>2. CASE \E s \in Sub : Return(s)
  BY <1>2 DEF Return, Exit, PlaceInv, SubTypeOK, StopInv, LockInv, PrepInv
<1>3. CASE \E s \in Sub : Advance(s) \/ HostCloses(s)
  BY <1>3, ApproachPlace, StartPlace, TurnPlace DEF Advance
<1>4. CASE (\E t \in Sub \cup {None} : StopBegins(t)) \/ StopAborts \/ DeletionAborts
  BY <1>4, StopPlace
<1>5. CASE \/ BeginDeletion \/ LaneFails \/ EraseSession \/ EndDeletion
           \/ OtherLocks \/ OtherUnlocks \/ OtherErases
           \/ UNCHANGED vars
  BY <1>5, DeletionPlace, OthersPlace
<1> QED
  BY <1>1, <1>2, <1>3, <1>4, <1>5 DEF Next

(* The invariant holds in every reachable state.                            *)
THEOREM PlaceInvariant == Spec => []PlaceInv
<1>1. Init => PlaceInv
  BY PlaceInit
<1> QED
  BY <1>1, PlaceStep, PTL DEF Spec

----------------------------------------------------------------------------
(* What submissions hold of the gate. *)

Looked == {"interrupting", "checking", "preparing"}

(* Steps that leave the gate alone and start nothing.                       *)
LEMMA QuietHold ==
    ASSUME HoldInv, UNCHANGED gateVars, stopped' = stopped,
           \A t \in Sub : pc'[t] \in InFlight => pc[t] \in InFlight,
           \A h \in Handoff : pc'[h] \in Looked => pc[h] \in Looked \/ drained[h] = "resolved"
    PROVE  HoldInv'
BY DEF HoldInv, Looked, gateVars, Sub, Handoff

(* Leaving touches nobody else's permit or lease.                           *)
LEMMA DepartHold ==
    ASSUME GateTypeOK, HoldInv, NEW s \in Sub, Depart(s), stopped' = stopped,
           pc'[s] \notin InFlight, \A t \in Sub : t # s => pc'[t] = pc[t]
    PROVE  HoldInv'
<1>1. /\ \A c \in Op : c # s => permit'[c] = permit[c]
      /\ \A h \in Handoff : h # s => lease'[h] = lease[h]
  BY SubmissionAssumption DEF Depart, Leave, ReleaseExclusive, gateVars, GateTypeOK, Handoff
<1>2. \A h \in Handoff : h # s /\ lease[h] # None /\ drained[h] = "resolved"
          => drained'[h] = "resolved"
  BY <1>1, DepartIsGateStep, DrainStaysResolved DEF Handoff
<1>3. \A h \in Handoff : pc'[h] \in {"interrupting", "checking", "preparing"} => h # s
  BY DEF InFlight
<1> QED
  BY <1>1, <1>2, <1>3 DEF HoldInv, Sub, Handoff

(* A submission enters with what it needs.                                  *)
LEMMA SubmitHold ==
    ASSUME PlaceInv, GateTypeOK, HoldInv, NEW s \in Sub, Submit(s)
    PROVE  HoldInv'
<1>1. /\ stopped' = stopped
      /\ \A t \in Sub : t # s => pc'[t] = pc[t]
      /\ s \in Handoff => pc'[s] = "fencing"
      /\ s \notin Handoff => pc'[s] = "checking"
  BY DEF Submit, Goto, PlaceInv, SubTypeOK
<1>2. CASE s \in Op
  <2>1. /\ permit'[s] # None
        /\ \A c \in Op : c # s => permit'[c] = permit[c]
        /\ UNCHANGED <<lease, drained>>
        /\ s \notin Handoff
    BY <1>2, SubmissionAssumption, GateAssumption DEF Submit, Arrive, Enter, GateTypeOK, Handoff
  <2> QED
    BY <1>1, <2>1 DEF HoldInv, Sub, Handoff
<1>3. CASE s \in Handoff
  <2>1. /\ lease'[s] # None
        /\ \A h \in Handoff : h # s => lease'[h] = lease[h] /\ drained'[h] = drained[h]
        /\ permit' = permit
        /\ s \notin Op
    BY <1>3, SubmissionAssumption, GateAssumption
       DEF Submit, Arrive, AcquireExclusive, GateTypeOK, Handoff
  <2> QED
    BY <1>1, <1>3, <2>1 DEF HoldInv, Sub, Handoff
<1>4. CASE s \in Trusted
  <2>1. UNCHANGED gateVars /\ s \notin Op /\ s \notin Handoff
    BY <1>4, SubmissionAssumption DEF Submit, Arrive, Handoff
  <2> QED
    BY <1>1, <2>1 DEF HoldInv, gateVars, Sub, Handoff
<1> QED
  BY <1>2, <1>3, <1>4 DEF Sub

(* A stop releases the lease of a handoff that it stops.                    *)
LEMMA StopHold ==
    ASSUME GateTypeOK, HoldInv, NEW t \in Sub \cup {None}, StopBegins(t)
    PROVE  HoldInv'
<1> DEFINE leased == {h \in Hit(t) \cap Handoff : lease[h] # None}
<1>1. pc' = pc /\ stopped' = stopped \cup Hit(t)
  BY DEF StopBegins
<1>2. CASE leased = {}
  BY <1>1, <1>2 DEF StopBegins, HoldInv, gateVars
<1>3. CASE leased # {}
  <2>1. PICK f \in leased : ReleaseExclusive(f)
    BY <1>3 DEF StopBegins
  <2>2. /\ permit' = permit /\ f \in stopped' /\ f \in Fence /\ f \in Handoff
        /\ lease'[f] = None
        /\ \A h \in Handoff : h # f => lease'[h] = lease[h]
    BY <1>1, <2>1 DEF ReleaseExclusive, GateTypeOK, Handoff
  <2>3. [GateNext]_gateVars
    BY <2>1, <2>2 DEF GateNext
  <2>4. \A h \in Handoff : lease'[h] # None /\ lease[h] # None /\ drained[h] = "resolved"
            => drained'[h] = "resolved"
    BY <2>3, DrainStaysResolved DEF Handoff
  <2> QED
    BY <1>1, <2>2, <2>4 DEF HoldInv
<1> QED
  BY <1>2, <1>3

(* A handoff looks at the controller only after its drain.                  *)
LEMMA ApproachHold ==
    ASSUME PlaceInv, GateTypeOK, HoldInv, NEW s \in Sub,
           \/ s \in Handoff /\ (Fenced(s) \/ Drained(s) \/ DrainTimesOut(s) \/ Interrupted(s))
           \/ Checked(s) \/ Prepared(s)
    PROVE  HoldInv'
<1> USE DEF PlaceInv, SubTypeOK, Goto, Exit, InFlight, Accepted, Registered
<1>1. CASE Refuse(s) \/ Throw(s)
  BY <1>1, DepartHold DEF Refuse, Throw
<1>2. CASE ~Refuse(s) /\ s \in Handoff
              /\ (Fenced(s) \/ Drained(s) \/ DrainTimesOut(s) \/ Interrupted(s))
  <2>1. /\ UNCHANGED <<gateVars, stopped>>
        /\ pc[s] \in {"fencing", "draining", "interrupting"}
        /\ \E l \in {"draining", "interrupting", "checking"} : pc' = [pc EXCEPT ![s] = l]
        /\ pc[s] = "fencing" => pc' = [pc EXCEPT ![s] = "draining"]
        /\ pc[s] = "draining" => drained[s] = "resolved"
    BY <1>2 DEF Fenced, Drained, DrainTimesOut, Interrupted
  <2>2. \A t \in Sub : pc'[t] \in InFlight => pc[t] \in InFlight
    BY <2>1
  <2>3. \A h \in Handoff : pc'[h] \in Looked => pc[h] \in Looked \/ drained[h] = "resolved"
    BY <2>1 DEF Looked, Sub
  <2> QED
    BY <2>1, <2>2, <2>3, QuietHold
<1>3. CASE /\ ~Refuse(s) /\ (Checked(s) \/ Prepared(s))
           /\ \E l \in {"committing", "delivering"} : Admitted(s, l)
           /\ UNCHANGED <<gateVars, stopped>>
  <2>1. \A x \in Sub : pc'[x] \in InFlight => pc[x] \in InFlight
    BY <1>3, Nobody DEF Checked, Prepared, Admitted, Recovered, lapsed, LockInv, Owning
  <2>2. \A h \in Handoff : pc'[h] \notin Looked \/ pc[h] \in Looked
    BY <1>3, Nobody DEF Checked, Prepared, Admitted, Recovered, lapsed, LockInv, Owning,
       Looked, Sub
  <2> QED
    BY <1>3, <2>1, <2>2, QuietHold
<1>4. CASE /\ ~Refuse(s) /\ Checked(s)
           /\ pc' = [pc EXCEPT ![s] = "preparing"]
           /\ UNCHANGED <<gateVars, stopped>>
  BY <1>4, QuietHold DEF Checked, Looked
<1> QED
  BY <1>1, <1>2, <1>3, <1>4 DEF Checked, Prepared

(* An admitted submission keeps what it holds until it leaves.              *)
LEMMA AdmittedHold ==
    ASSUME PlaceInv, GateTypeOK, HoldInv, NEW s \in Sub,
           \/ Committed(s) \/ Delivered(s) \/ Revoked(s) \/ AdmissionFailed(s)
           \/ Started(s) \/ HostCloses(s) \/ HostEnds(s) \/ Settled(s) \/ Completed(s)
           \/ Return(s)
    PROVE  HoldInv'
<1> USE DEF PlaceInv, SubTypeOK, Goto, InFlight, Accepted, Registered
<1>1. CASE \/ Committed(s) \/ Delivered(s) \/ AdmissionFailed(s)
           \/ Started(s) \/ HostCloses(s) \/ HostEnds(s) \/ Settled(s) \/ Completed(s)
  BY <1>1, QuietHold DEF Committed, Delivered, AdmissionFailed, Started, HostCloses, HostEnds,
     Settled, Completed, Looked, Sub
<1>2. CASE Revoked(s) /\ Exit(s) /\ \E l \in {"refused", "threw"} : pc' = [pc EXCEPT ![s] = l]
  BY <1>2, DepartHold DEF Revoked, Exit
<1>3. CASE Revoked(s) /\ UNCHANGED gateVars /\ pc' = [pc EXCEPT ![s] = "failing"]
  BY <1>3, QuietHold DEF Revoked, Looked, Sub
<1>4. CASE Return(s)
  BY <1>4, DepartHold DEF Return, Exit
<1> QED
  BY <1>1, <1>2, <1>3, <1>4 DEF Revoked

(* Deletions and other owners take nothing from a submission.               *)
LEMMA OthersHold ==
    ASSUME PlaceInv, HoldInv,
           \/ \E s \in Sub : TurnedAway(s)
           \/ StopAborts \/ DeletionAborts
           \/ BeginDeletion \/ LaneFails \/ EraseSession \/ EndDeletion
           \/ OtherLocks \/ OtherUnlocks \/ OtherErases
           \/ UNCHANGED vars
    PROVE  HoldInv'
<1>1. CASE \E s \in Sub : TurnedAway(s)
  BY <1>1, QuietHold DEF TurnedAway, Goto, PlaceInv, SubTypeOK, InFlight, Looked, Sub
<1>2. CASE StopAborts \/ DeletionAborts \/ OtherLocks \/ OtherUnlocks \/ UNCHANGED vars
  BY <1>2, QuietHold DEF StopAborts, DeletionAborts, OtherLocks, OtherUnlocks, vars, subVars
<1>3. CASE BeginDeletion \/ LaneFails \/ EraseSession \/ EndDeletion \/ OtherErases
  <2>1. UNCHANGED <<permit, lease, drained, stopped>>
    BY <1>3 DEF BeginDeletion, LaneFails, EraseSession, EndDeletion, OtherErases, Block,
       DeletionFails, Erase, FinishDeletion, DeleteAbsent, OpenGate, ForeignErase, subVars
  <2>2. \A t \in Sub : pc'[t] = pc[t] \/ pc'[t] = "recovered"
    BY <1>3 DEF BeginDeletion, LaneFails, EraseSession, EndDeletion, OtherErases, Recovered,
       subVars, PlaceInv, SubTypeOK
  <2> QED
    BY <2>1, <2>2 DEF HoldInv, InFlight, Sub, Handoff
<1> QED
  BY <1>1, <1>2, <1>3

(* Every step keeps what the submissions hold.                              *)
LEMMA HoldStep == PlaceInv /\ GateTypeOK /\ HoldInv /\ [Next]_vars => HoldInv'
<1> SUFFICES ASSUME PlaceInv, GateTypeOK, HoldInv, [Next]_vars PROVE HoldInv'
  OBVIOUS
<1>1. CASE \E s \in Sub : Submit(s)
  BY <1>1, SubmitHold
<1>2. CASE \E s \in Sub : Return(s) \/ Advance(s) \/ HostCloses(s)
  BY <1>2, ApproachHold, AdmittedHold DEF Advance
<1>3. CASE \E t \in Sub \cup {None} : StopBegins(t)
  BY <1>3, StopHold
<1>4. CASE \/ \E s \in Sub : TurnedAway(s)
           \/ StopAborts \/ DeletionAborts
           \/ BeginDeletion \/ LaneFails \/ EraseSession \/ EndDeletion
           \/ OtherLocks \/ OtherUnlocks \/ OtherErases
           \/ UNCHANGED vars
  BY <1>4, OthersHold
<1> QED
  BY <1>1, <1>2, <1>3, <1>4 DEF Next

(* Whatever is under way holds its place in the gate.                       *)
THEOREM HoldInvariant == Spec => []HoldInv
<1>1. Init => HoldInv
  BY PlaceInit
<1>2. GateInv => GateTypeOK
  BY DEF GateInv
<1>3. Spec => []GateTypeOK
  BY <1>2, SubmissionsKeepGate, PTL
<1> QED
  BY <1>1, <1>3, PlaceInvariant, HoldStep, PTL DEF Spec

----------------------------------------------------------------------------
(* The properties. *)

(* Type correctness, for any number of submissions of each kind.            *)
THEOREM SubmissionTyped == Spec => []SubTypeOK
<1>1. PlaceInv => SubTypeOK
  BY DEF PlaceInv
<1> QED
  BY <1>1, PlaceInvariant, PTL

(* A stop that comes before the registration is not lost                    *)
(* (PendingSubmissions and the checks of startAcceptedTurn).                *)
THEOREM EarlyStopIsHeard == Spec => []StoppedNeverRegisters
<1>1. PlaceInv => StoppedNeverRegisters
  BY DEF PlaceInv, StopInv, StoppedNeverRegisters
<1> QED
  BY <1>1, PlaceInvariant, PTL

(* Whatever fails, the lock is in the hands of a submission that settles,   *)
(* revokes or leaves it to the next admission.                              *)
THEOREM LockIsTended == Spec => []NoStrandedLock
<1>1. PlaceInv => NoStrandedLock
  BY DEF PlaceInv, LockInv, NoStrandedLock
<1> QED
  BY <1>1, PlaceInvariant, PTL

(* A turn that runs has the lock and the controller's entry.                *)
THEOREM OneRunningTurn == Spec => []TurnOwnsSession
<1>1. PlaceInv => TurnOwnsSession
  BY DEF PlaceInv, LockInv, TurnOwnsSession, Owning
<1> QED
  BY <1>1, PlaceInvariant, PTL

(* A registered turn goes to its host with its preparation committed. A     *)
(* submission that ends before its registration has had it restored, or     *)
(* the restore has thrown (compensateStartedPreparation), and one that is   *)
(* answered as not accepted has nothing of it left.                         *)
THEOREM PreparationsReturn == Spec => []PreparationReturned
<1>1. PlaceInv => PreparationReturned
  BY DEF PlaceInv, SubTypeOK, PrepInv, PreparationReturned
<1> QED
  BY <1>1, PlaceInvariant, PTL

(* What a handoff has looked at cannot change behind it: the composition of *)
(* its drained lease with the permits of the submissions that are inside.   *)
THEOREM HandoffAlone == Spec => []HandoffIsAlone
<1>1. HoldInv /\ DrainedIsAlone => HandoffIsAlone
  <2> SUFFICES ASSUME HoldInv, DrainedIsAlone, NEW h \in Handoff, lease[h] # None,
                      pc[h] \in {"checking", "preparing"}, NEW s \in Op
               PROVE  pc[s] \notin InFlight
    BY DEF HandoffIsAlone
  <2>1. Holders = {}
    BY DEF HoldInv, DrainedIsAlone, Handoff
  <2> QED
    BY <2>1 DEF HoldInv, Holders
<1>2. Spec => []DrainedIsAlone
  BY ImplementsGate, DrainExcludes, PTL
<1> QED
  BY <1>1, <1>2, HoldInvariant, PTL

(* What a deletion has found quiescent stays so.                            *)
THEOREM DeletionAlone == Spec => []DeletionDrainsSubmissions
<1>1. HoldInv /\ BlockedMeansIdle => DeletionDrainsSubmissions
  BY DEF HoldInv, BlockedMeansIdle, DeletionDrainsSubmissions, Holders, Fences, Handoff
<1>2. Spec => []BlockedMeansIdle
  BY ImplementsGate, BlockExcludes, PTL
<1> QED
  BY <1>1, <1>2, HoldInvariant, PTL

----------------------------------------------------------------------------
(* Nobody is inside the gate but calls that are under way. *)

UnderWay == InFlight \cup Accepted

\* A call has a permit, or a lease that no stop has taken, exactly while it is
\* open, and it has not been refused then. Nobody is stopped who has not called.
CallInv ==
    /\ \A s \in Op : permit[s] # None <=> s \in calls
    /\ \A h \in Handoff : lease[h] # None <=> h \in calls \ stopped
    /\ \A s \in Sub :
          /\ s \in calls => pc[s] \in UnderWay
          /\ s \in stopped => pc[s] # "new"

(* Steps that give or take nothing of the gate and end no submission.       *)
LEMMA QuietCalls ==
    ASSUME CallInv, UNCHANGED <<permit, lease, calls, stopped>>,
           \A t \in Sub : /\ pc[t] \in UnderWay => pc'[t] \in UnderWay
                          /\ pc[t] # "new" => pc'[t] # "new"
    PROVE  CallInv'
BY DEF CallInv

(* A call that leaves keeps nothing, wherever its submission is then.       *)
LEMMA DepartCalls ==
    ASSUME GateTypeOK, CallInv, NEW s \in Sub, Exit(s), stopped' = stopped,
           pc'[s] # "new", \A t \in Sub : t # s => pc'[t] = pc[t]
    PROVE  CallInv'
<1>1. calls' = calls \ {s} /\ Depart(s)
  BY DEF Exit
<1>2. /\ \A c \in Op : c # s => permit'[c] = permit[c]
      /\ \A h \in Handoff : h # s => lease'[h] = lease[h]
      /\ s \in Op => permit'[s] = None
      /\ s \in Handoff => lease'[s] = None
  BY <1>1, SubmissionAssumption
     DEF Depart, Leave, ReleaseExclusive, gateVars, GateTypeOK, Handoff
<1> QED
  BY <1>1, <1>2 DEF CallInv, Sub, Handoff

(* A call that is let in takes a permit or a lease and is open from then.   *)
LEMMA SubmitCalls ==
    ASSUME PlaceInv, GateTypeOK, CallInv, NEW s \in Sub, Submit(s)
    PROVE  CallInv'
<1>1. /\ \A t \in Sub : t # s => pc'[t] = pc[t]
      /\ pc'[s] \in UnderWay /\ pc'[s] # "new"
      /\ calls' = calls \cup {s} /\ stopped' = stopped
      /\ s \notin stopped
  BY DEF Submit, Goto, PlaceInv, SubTypeOK, UnderWay, InFlight, Handoff, CallInv
<1>2. /\ \A c \in Op : c # s => permit'[c] = permit[c]
      /\ \A h \in Handoff : h # s => lease'[h] = lease[h]
      /\ s \in Op => permit'[s] # None
      /\ s \in Handoff => lease'[s] # None
  BY SubmissionAssumption, GateAssumption
     DEF Submit, Arrive, Enter, AcquireExclusive, gateVars, GateTypeOK, Handoff
<1> QED
  BY <1>1, <1>2 DEF CallInv, Sub, Handoff

(* A stop takes the lease of the one handoff that has it, if it stops that. *)
LEMMA StopCalls ==
    ASSUME GateInv, CallInv, NEW t \in Sub \cup {None}, StopBegins(t)
    PROVE  CallInv'
<1> DEFINE leased == {h \in Hit(t) \cap Handoff : lease[h] # None}
<1>1. /\ pc' = pc /\ calls' = calls /\ stopped' = stopped \cup Hit(t)
      /\ Hit(t) \subseteq calls
  BY DEF StopBegins, Hit, enrolled
<1>2. permit' = permit
  BY DEF StopBegins, ReleaseExclusive, gateVars
<1>3. \A h \in Handoff : lease'[h] # None <=> lease[h] # None /\ h \notin Hit(t)
  <2>1. CASE leased = {}
    BY <2>1 DEF StopBegins, gateVars
  <2>2. CASE leased # {}
    <3>1. PICK f \in leased : ReleaseExclusive(f)
      BY <2>2 DEF StopBegins
    <3>2. \A h \in Handoff : lease[h] # None => h = f
      BY <3>1 DEF GateInv, HoldersShare, MutationIsLeased, Handoff
    <3>3. lease' = [lease EXCEPT ![f] = None]
      BY <3>1 DEF ReleaseExclusive
    <3> QED
      BY <3>1, <3>2, <3>3 DEF GateInv, GateTypeOK, Handoff
  <2> QED
    BY <2>1, <2>2
<1>4. \A s \in Sub : s \in Hit(t) => pc[s] # "new"
  BY <1>1 DEF CallInv, UnderWay, InFlight, Accepted, Registered
<1> QED
  BY <1>1, <1>2, <1>3, <1>4 DEF CallInv

(* What is done for a submission ends it, and gives back what it holds, or  *)
(* goes on with it.                                                         *)
LEMMA AdvanceCalls ==
    ASSUME PlaceInv, GateTypeOK, CallInv, NEW s \in Sub,
           Advance(s) \/ HostCloses(s) \/ Return(s)
    PROVE  CallInv'
<1> USE DEF PlaceInv, SubTypeOK, Goto, UnderWay, InFlight, Accepted, Registered
<1>1. CASE Refuse(s) \/ Throw(s) \/ Return(s)
  BY <1>1, DepartCalls DEF Refuse, Throw, Return
<1>2. CASE ~Refuse(s) /\ s \in Handoff
              /\ (Fenced(s) \/ Drained(s) \/ DrainTimesOut(s) \/ Interrupted(s))
  BY <1>2, QuietCalls DEF Fenced, Drained, DrainTimesOut, Interrupted, gateVars
<1>3. CASE ~Refuse(s) /\ ~Throw(s) /\ (Checked(s) \/ Prepared(s))
  <2>1. UNCHANGED <<gateVars, calls, stopped>>
    BY <1>3 DEF Checked, Prepared
  <2>2. \A t \in Sub : /\ pc[t] \in UnderWay => pc'[t] \in UnderWay
                       /\ pc[t] # "new" => pc'[t] # "new"
    BY <1>3 DEF Checked, Prepared, Admitted, Recovered
  <2> QED
    BY <2>1, <2>2, QuietCalls DEF gateVars
<1>4. CASE Revoked(s)
  <2>1. CASE Exit(s) /\ \E l \in {"refused", "threw"} : pc' = [pc EXCEPT ![s] = l]
    BY <1>4, <2>1, DepartCalls DEF Revoked
  <2>2. CASE pc' = [pc EXCEPT ![s] = "failing"] /\ UNCHANGED <<gateVars, calls>>
    BY <1>4, <2>2, QuietCalls DEF gateVars, Revoked
  <2> QED
    BY <1>4, <2>1, <2>2 DEF Revoked
<1>5. CASE \/ Committed(s) \/ Delivered(s) \/ AdmissionFailed(s)
           \/ Started(s) \/ HostCloses(s) \/ HostEnds(s) \/ Settled(s) \/ Completed(s)
  <2>1. UNCHANGED <<gateVars, calls, stopped>>
    BY <1>5 DEF Committed, Delivered, AdmissionFailed, Started, HostCloses, HostEnds,
       Settled, Completed
  <2>2. \A t \in Sub : /\ pc[t] \in UnderWay => pc'[t] \in UnderWay
                       /\ pc[t] # "new" => pc'[t] # "new"
    BY <1>5 DEF Committed, Delivered, AdmissionFailed, Started, HostCloses, HostEnds,
       Settled, Completed
  <2> QED
    BY <2>1, <2>2, QuietCalls DEF gateVars
<1> QED
  BY <1>1, <1>2, <1>3, <1>4, <1>5 DEF Advance

(* Every step keeps it.                                                     *)
LEMMA CallStep == PlaceInv /\ GateInv /\ CallInv /\ [Next]_vars => CallInv'
<1> SUFFICES ASSUME PlaceInv, GateInv, CallInv, [Next]_vars PROVE CallInv'
  OBVIOUS
<1>0. GateTypeOK
  BY DEF GateInv
<1>1. CASE \E s \in Sub : Submit(s)
  BY <1>0, <1>1, SubmitCalls
<1>2. CASE \E s \in Sub : Return(s) \/ Advance(s) \/ HostCloses(s)
  BY <1>0, <1>2, AdvanceCalls
<1>3. CASE \E t \in Sub \cup {None} : StopBegins(t)
  BY <1>3, StopCalls
<1>4. CASE \E s \in Sub : TurnedAway(s)
  BY <1>4, QuietCalls
     DEF TurnedAway, Goto, gateVars, PlaceInv, SubTypeOK, UnderWay, InFlight, Accepted, Registered
<1>5. CASE \/ StopAborts \/ DeletionAborts
           \/ BeginDeletion \/ LaneFails \/ EraseSession \/ EndDeletion
           \/ OtherLocks \/ OtherUnlocks \/ OtherErases
           \/ UNCHANGED vars
  <2>1. UNCHANGED <<permit, lease, calls, stopped>>
    BY <1>5 DEF StopAborts, DeletionAborts, BeginDeletion, LaneFails, EraseSession,
       EndDeletion, OtherLocks, OtherUnlocks, OtherErases, Block, DeletionFails, Erase,
       FinishDeletion, DeleteAbsent, OpenGate, ForeignErase, vars, gateVars, subVars
  <2>2. \A t \in Sub : pc'[t] = pc[t] \/ pc'[t] = "recovered"
    BY <1>5 DEF StopAborts, DeletionAborts, BeginDeletion, LaneFails, EraseSession,
       EndDeletion, OtherLocks, OtherUnlocks, OtherErases, Recovered, vars, subVars,
       PlaceInv, SubTypeOK
  <2> QED
    BY <2>1, <2>2, QuietCalls DEF UnderWay, Accepted
<1> QED
  BY <1>1, <1>2, <1>3, <1>4, <1>5 DEF Next

(* Calls and the gate agree in every reachable state.                       *)
LEMMA CallInvariant == Spec => []CallInv
<1>1. Init => CallInv
  BY DEF Init, GateInit, CallInv, Handoff, Sub
<1> QED
  BY <1>1, CallStep, PlaceInvariant, SubmissionsKeepGate, PTL DEF Spec

(* No permit or lease leaks and none is given back twice: whatever way a    *)
(* call ends, and whether a stop took its lease before, the gate counts     *)
(* exactly the calls of turn-execution.service.ts that are still open.      *)
THEOREM GateCountsOpenCalls == Spec => []GateCountsCalls
<1>1. GateInv /\ CallInv => GateCountsCalls
  <2> SUFFICES ASSUME GateInv, CallInv PROVE GateCountsCalls
    OBVIOUS
  <2>1. Holders = Op \cap calls
    BY DEF Holders, CallInv
  <2>2. (IF entry = None THEN 0 ELSE state[entry].active) = Cardinality(Op \cap calls)
    BY <2>1, FreeGate DEF GateInv, Counted
  <2>3. ASSUME NEW h \in Handoff
        PROVE  (entry # None /\ state[entry].mutation = h) <=> h \in calls \ stopped
    <3>1. h # None
      BY GateAssumption DEF Handoff
    <3>2. lease[h] # None => lease[h] = entry /\ state[entry].mutation = h
      BY DEF GateInv, HoldersShare, MutationIsLeased, Handoff
    <3>3. entry # None /\ state[entry].mutation = h => lease[h] = entry
      BY <3>1 DEF GateInv, MutationIsLeased
    <3> QED
      BY <3>2, <3>3 DEF CallInv
  <2> QED
    BY <2>2, <2>3 DEF GateCountsCalls
<1> QED
  BY <1>1, CallInvariant, SubmissionsKeepGate, PTL

(* Whoever waits for the gate waits for a call that has yet to leave it:    *)
(* the finally blocks of turn-execution.service.ts give back every permit   *)
(* and lease, and the gate's wakes are not lost, so a deletion and a        *)
(* handoff wait for nothing but the calls' own progress. It composes the    *)
(* gate's theorem with what the submissions hold.                           *)
THEOREM WaitersHaveCalls == Spec => []WaitsForACall
<1>1. CallInv /\ WaitsForSomebody => WaitsForACall
  <2> SUFFICES ASSUME CallInv, WaitsForSomebody PROVE WaitsForACall
    OBVIOUS
  <2> DEFINE Calls == {s \in Sub : s \in calls /\ pc[s] \in InFlight \cup Accepted}
  <2>1. Holders \subseteq Calls \cap Op
    BY DEF Holders, CallInv, Sub, UnderWay
  <2>2. Fences \subseteq Calls \cap Handoff
    BY SubmissionAssumption DEF Fences, CallInv, Sub, UnderWay, Handoff
  <2> QED
    BY <2>1, <2>2 DEF WaitsForACall, WaitsForSomebody, Handoff
<1>2. Spec => []WaitsForSomebody
  BY ImplementsGate, WaitersHaveHolders, PTL
<1> QED
  BY <1>1, <1>2, CallInvariant, PTL

----------------------------------------------------------------------------
(* The submissions keep to what the repository promises of a session's     *)
(* owner.                                                                  *)

OwnerNext == Owner!Next

(* A step that keeps the lock and moves no submission past its admission or *)
(* its settlement is none of the contract.                                  *)
LEMMA SameOwner ==
    ASSUME lock' = lock,
           \A t \in Sub : \/ pc'[t] = pc[t]
                          \/ {pc[t], pc'[t]} \subseteq Owning
                          \/ {pc[t], pc'[t]} \subseteq {"settled", "over", "failed"}
                          \/ {pc[t], pc'[t]} \cap
                               (Owning \cup {"settled", "over", "failed", "recovered"}) = {}
    PROVE  UNCHANGED Owner!vars
<1>1. \A t \in Sub : (CASE pc[t] \in Owning -> "owning"
                        [] pc[t] \in {"settled", "over", "failed"} -> "settled"
                        [] pc[t] = "recovered" -> "failed"
                        [] OTHER -> "new")
                     = (CASE pc'[t] \in Owning -> "owning"
                        [] pc'[t] \in {"settled", "over", "failed"} -> "settled"
                        [] pc'[t] = "recovered" -> "failed"
                        [] OTHER -> "new")
  BY DEF Owning
<1>2. life' = life
  BY <1>1 DEF life
<1> QED
  BY <1>2 DEF Owner!vars

(* An admission, which fails the turn of a lapsed owner.                    *)
LEMMA AdmissionOwner ==
    ASSUME PlaceInv, NEW s \in Sub, NEW l \in {"committing", "delivering"},
           pc[s] \in {"checking", "preparing"}, Admissible, Admitted(s, l)
    PROVE  Owner!Admit(s)
<1> USE DEF Owning
<1>1. lock' = s /\ lock # s /\ (lock = None \/ pc[lock] \in {"unsettled", "stranded"})
  BY DEF Admissible, Admitted, lapsed, PlaceInv, LockInv
<1>2. Owner!Available /\ life[s] = "new" /\ lock' = s
  BY DEF Admissible, Admitted, Owner!Available, lapsed, life
<1>3. life' = [Owner!Recovered EXCEPT ![s] = "owning"]
  <2>1. \A t \in Sub : t # s => pc'[t] = IF t = lock THEN "recovered" ELSE pc[t]
    BY <1>1, Nobody DEF Admitted, Recovered, lapsed, PlaceInv, SubTypeOK
  <2>2. pc'[s] = l
    BY DEF Admitted, Recovered, PlaceInv, SubTypeOK
  <2>3. \A t \in Sub : t = lock => lapsed
    BY <1>1, Nobody DEF Admissible, lapsed
  <2> QED
    BY <2>1, <2>2, <2>3 DEF life, Owner!Recovered
<1> QED
  BY <1>2, <1>3 DEF Owner!Admit

(* A settlement, of the turn or of the admission that failed.               *)
LEMMA SettlementOwner ==
    ASSUME PlaceInv, NEW s \in Sub, Settled(s) \/ AdmissionFailed(s), lock' # lock
    PROVE  Owner!Settle(s)
<1>1. /\ lock = s /\ lock' = None
      /\ \A t \in Sub : t # s => pc'[t] = pc[t]
      /\ pc'[s] \in {"settled", "failed"}
  BY DEF Settled, AdmissionFailed, Goto, PlaceInv, LockInv, Owning, SubTypeOK
<1>2. life' = [life EXCEPT ![s] = "settled"]
  BY <1>1 DEF life, Owning
<1> QED
  BY <1>1, <1>2 DEF Owner!Settle

(* A revocation.                                                            *)
LEMMA RevocationOwner ==
    ASSUME PlaceInv, NEW s \in Sub, Revoked(s), lock' # lock
    PROVE  Owner!Revoke(s)
<1>1. /\ lock = s /\ lock' = None
      /\ \A t \in Sub : t # s => pc'[t] = pc[t]
      /\ pc'[s] \in {"refused", "threw"}
  BY DEF Revoked, Goto, PlaceInv, LockInv, Owning, SubTypeOK
<1>2. life' = [life EXCEPT ![s] = "new"]
  BY <1>1 DEF life, Owning
<1> QED
  BY <1>1, <1>2 DEF Owner!Revoke

(* What is done for a submission admits, settles or revokes it, or is no    *)
(* step of the contract.                                                    *)
LEMMA AdvanceOwner ==
    ASSUME PlaceInv, NEW s \in Sub, Advance(s) \/ HostCloses(s)
    PROVE  [OwnerNext]_(Owner!vars)
<1> USE DEF OwnerNext, Goto
<1>1. PlaceInv => SubTypeOK
  BY DEF PlaceInv
<1>2. CASE (Refuse(s) \/ Throw(s))
              /\ (\/ Fenced(s) \/ Drained(s) \/ DrainTimesOut(s) \/ Interrupted(s)
                  \/ Checked(s) \/ Prepared(s))
  <2>1. pc[s] \in InFlight \ Owning
    BY <1>2 DEF Fenced, Drained, DrainTimesOut, Interrupted, Checked, Prepared, InFlight, Owning
  <2> QED
    BY <1>1, <1>2, <2>1, SameOwner DEF Refuse, Throw, SubTypeOK, InFlight, Owning
<1>3. CASE ~Refuse(s) /\ s \in Handoff
              /\ (Fenced(s) \/ Drained(s) \/ DrainTimesOut(s) \/ Interrupted(s))
  BY <1>1, <1>3, SameOwner DEF Fenced, Drained, DrainTimesOut, Interrupted, SubTypeOK, Owning
<1>4. CASE ~Refuse(s) /\ ~Throw(s) /\ (Checked(s) \/ Prepared(s))
  <2>1. CASE \E l \in {"committing", "delivering"} : Admissible /\ Admitted(s, l)
    BY <1>4, <2>1, AdmissionOwner DEF Checked, Prepared, Owner!Next
  <2>2. CASE Checked(s) /\ pc' = [pc EXCEPT ![s] = "preparing"] /\ lock' = lock
    BY <1>1, <2>2, SameOwner DEF Checked, SubTypeOK, Owning
  <2> QED
    BY <1>4, <2>1, <2>2 DEF Checked, Prepared
<1>5. CASE \/ Committed(s) \/ Delivered(s) \/ Started(s) \/ HostCloses(s) \/ HostEnds(s)
           \/ Completed(s)
  BY <1>1, <1>5, SameOwner DEF Committed, Delivered, Started, HostCloses, HostEnds, Completed,
     SubTypeOK, Owning
<1>6. CASE Revoked(s)
  BY <1>1, <1>6, RevocationOwner, SameOwner, Nobody
     DEF Revoked, SubTypeOK, Owning, Owner!Next, PlaceInv, LockInv
<1>7. CASE Settled(s) \/ AdmissionFailed(s)
  BY <1>1, <1>7, SettlementOwner, SameOwner, Nobody
     DEF Settled, AdmissionFailed, SubTypeOK, Owning, Owner!Next, PlaceInv, LockInv
<1> QED
  BY <1>2, <1>3, <1>4, <1>5, <1>6, <1>7 DEF Advance

(* A deletion settles a lapsed owner's turn, or leaves the owner.           *)
LEMMA DeletionOwner ==
    ASSUME PlaceInv, BeginDeletion
    PROVE  [OwnerNext]_(Owner!vars)
<1>1. /\ lock' = (IF lapsed THEN None ELSE lock)
      /\ pc' = (IF lapsed THEN [pc EXCEPT ![lock] = "recovered"] ELSE pc)
  BY DEF BeginDeletion, Recovered
<1>2. CASE lapsed
  <2>1. \A t \in Sub : pc'[t] = IF t = lock THEN "recovered" ELSE pc[t]
    BY <1>1, <1>2 DEF PlaceInv, SubTypeOK
  <2>2. life' = Owner!Recovered
    BY <1>2, <2>1 DEF life, Owner!Recovered, Owning
  <2> QED
    BY <1>1, <1>2, <2>2 DEF OwnerNext, Owner!Next, Owner!Recover
<1>3. CASE ~lapsed
  BY <1>1, <1>3 DEF Owner!vars, life
<1> QED
  BY <1>2, <1>3

(* Somebody else takes the session that is free, or gives it back.          *)
LEMMA OthersOwner ==
    ASSUME PlaceInv,
           \/ LaneFails \/ EraseSession \/ EndDeletion
           \/ OtherLocks \/ OtherUnlocks \/ OtherErases
           \/ StopAborts \/ DeletionAborts
           \/ \E t \in Sub \cup {None} : StopBegins(t)
           \/ UNCHANGED vars
    PROVE  [OwnerNext]_(Owner!vars)
<1>1. /\ pc' = pc
      /\ \/ lock' = lock
         \/ lock = None /\ lock' = "other"
         \/ lock = "other" /\ lock' = None
  BY DEF LaneFails, EraseSession, EndDeletion, OtherLocks, OtherUnlocks,
     OtherErases, StopAborts, DeletionAborts, StopBegins, vars, subVars
<1>2. life' = life
  BY <1>1 DEF life
<1>3. CASE lock' = lock
  BY <1>2, <1>3 DEF Owner!vars
<1>4. CASE lock = None /\ lock' = "other"
  <2>1. life = Owner!Recovered
    BY <1>4, Nobody DEF lapsed, life, Owner!Recovered
  <2> QED
    BY <1>2, <1>4, <2>1 DEF OwnerNext, Owner!Next, Owner!Take, Owner!Available
<1>5. CASE lock = "other" /\ lock' = None
  BY <1>2, <1>5 DEF OwnerNext, Owner!Next, Owner!GiveBack
<1> QED
  BY <1>1, <1>3, <1>4, <1>5

(* Every step is one of the contract or none.                               *)
LEMMA OwnerStep == PlaceInv /\ [Next]_vars => [OwnerNext]_(Owner!vars)
<1> SUFFICES ASSUME PlaceInv, [Next]_vars PROVE [OwnerNext]_(Owner!vars)
  OBVIOUS
<1>1. CASE \E s \in Sub : Submit(s) \/ TurnedAway(s)
  BY <1>1, SameOwner DEF Submit, TurnedAway, Goto, PlaceInv, SubTypeOK, Owning
<1>2. CASE \E s \in Sub : Return(s)
  BY <1>2, SameOwner DEF Return
<1>3. CASE \E s \in Sub : Advance(s) \/ HostCloses(s)
  BY <1>3, AdvanceOwner
<1>4. CASE \/ BeginDeletion \/ LaneFails \/ EraseSession \/ EndDeletion
           \/ OtherLocks \/ OtherUnlocks \/ OtherErases
           \/ StopAborts \/ DeletionAborts
           \/ \E t \in Sub \cup {None} : StopBegins(t)
           \/ UNCHANGED vars
  BY <1>4, DeletionOwner, OthersOwner
<1> QED
  BY <1>1, <1>2, <1>3, <1>4 DEF Next

(* What turn-execution.service.ts does with the session is what the         *)
(* repository allows: from its admission to its settlement or revocation a  *)
(* submission owns the session, and only one whose settlement has failed    *)
(* loses it to the next.                                                    *)
THEOREM ImplementsSessionOwner == Spec => SessionOwner
<1>1. Init => Owner!Init
  BY DEF Init, Owner!Init, life, Owning
<1> QED
  BY <1>1, OwnerStep, PlaceInvariant, PTL DEF Spec, SessionOwner, Owner!Spec, OwnerNext

(* A submission counts as the session's own exactly while it has the lock.  *)
THEOREM OwnerOwns == Spec => []Owner!OwnerIsOwning
<1>1. PlaceInv => Owner!OwnerIsOwning
  BY DEF PlaceInv, LockInv, Owning, life, Owner!OwnerIsOwning
<1> QED
  BY <1>1, PlaceInvariant, PTL

=============================================================================
