------------------------ MODULE SessionOperationGate ------------------------
(***************************************************************************)
(* The in-process gate of one session,                                     *)
(* turn-system/lifecycle/session-operation-gate.ts: shared permits for     *)
(* submissions, steering and maintenance, an exclusive lease for a handoff *)
(* or a lifecycle fence, and the block of a deletion.                      *)
(*                                                                         *)
(* A permit and a lease keep the state object they were taken on, while    *)
(* the gate finds an object through its map and forgets it when it is      *)
(* idle. The objects are therefore explicit: nothing in the code but the   *)
(* order of its steps keeps a holder's object and the map's object one.    *)
(*                                                                         *)
(* The deletion lane of session-turn-deletion.ts is here as far as the     *)
(* gate sees it; KeyedOperationLane runs one deletion at a time. What a    *)
(* permit is used for is left to the modules that extend this one.         *)
(***************************************************************************)
EXTENDS Naturals, FiniteSets

CONSTANTS
    Op,      \* calls that take a shared permit (tryEnter, tryRun)
    Fence,   \* calls that take the exclusive lease (tryAcquireExclusive)
    Obj,     \* state objects
    None

ASSUME GateAssumption ==
    /\ IsFiniteSet(Op)   \* the count of active calls is a number
    /\ None \notin Op \cup Fence \cup Obj

VARIABLES
    entry,     \* states.get(sessionId)
    state,     \* the state objects
    permit,    \* the object a shared permit was taken on
    lease,     \* the object an exclusive lease was taken on
    drained,   \* the promise of each lease
    lane,      \* the deletion lane and the object whose drain it awaits
    gone,      \* the session has no row
    threw      \* the lane ended in "released while active"

gateVars == <<entry, state, permit, lease, drained, lane, gone, threw>>

Idle == [active |-> 0, deleting |-> FALSE, mutation |-> None]
NoLane == [phase |-> "idle", on |-> None]

Holders == {c \in Op : permit[c] # None}
Fences == {f \in Fence : lease[f] # None}

----------------------------------------------------------------------------
(* The map. *)

Referenced(o) ==
    \/ o = entry
    \/ \E c \in Op : permit[c] = o
    \/ \E f \in Fence : lease[f] = o
    \/ lane.on = o

\* states.get(sessionId) ?? createState()
Found(o) == IF entry = None THEN ~Referenced(o) ELSE o = entry
Current(o) == IF entry = None THEN Idle ELSE state[o]

\* What tryEnter and tryAcquireExclusive refuse.
Closed == entry # None /\ (state[entry].deleting \/ state[entry].mutation # None)

(* Mutant: a session is forgotten under an exclusive lease. *)
ForgetLeased(o, s) == s.active = 0 /\ ~s.deleting /\ entry = o

(* Mutant: an idle session stays in the map. *)
ForgetNothing(o, s) == FALSE

Forget(o, s) == s = Idle /\ entry = o

(* Mutant: the first caller that leaves resolves the drain. *)
WokenEarly(o, s) ==
    [f \in Fence |-> IF lease[f] = o /\ drained[f] = "waiting"
                     THEN "resolved" ELSE drained[f]]

Woken(o, s) ==
    [f \in Fence |-> IF s.active = 0 /\ lease[f] = o /\ drained[f] = "waiting"
                     THEN "resolved" ELSE drained[f]]

\* settleState after object o became s: wake who waits for it, and forget it
\* when nothing needs it.
Settle(o, s) ==
    /\ state' = [state EXCEPT ![o] = s]
    /\ entry' = IF Forget(o, s) THEN None ELSE entry
    /\ lane' = IF s.active = 0 /\ s.mutation = None
                    /\ lane.phase = "blocking" /\ lane.on = o
               THEN [lane EXCEPT !.phase = "clear"] ELSE lane

----------------------------------------------------------------------------
(* Shared permits and the exclusive lease. *)

Enter(c) ==
    /\ permit[c] = None
    /\ ~Closed
    /\ \E o \in Obj :
          /\ Found(o)
          /\ state' = [state EXCEPT ![o] = [Current(o) EXCEPT !.active = @ + 1]]
          /\ entry' = o
          /\ permit' = [permit EXCEPT ![c] = o]
    /\ UNCHANGED <<lease, drained, lane, gone, threw>>

Leave(c) ==
    /\ permit[c] # None
    /\ LET o == permit[c]
           s == [state[o] EXCEPT !.active = @ - 1]
       IN Settle(o, s) /\ drained' = Woken(o, s)
    /\ permit' = [permit EXCEPT ![c] = None]
    /\ UNCHANGED <<lease, gone, threw>>

AcquireExclusive(f) ==
    /\ lease[f] = None
    /\ ~Closed
    /\ \E o \in Obj :
          /\ Found(o)
          /\ state' = [state EXCEPT ![o] = [Current(o) EXCEPT !.mutation = f]]
          /\ entry' = o
          /\ lease' = [lease EXCEPT ![f] = o]
          /\ drained' = [drained EXCEPT
                 ![f] = IF Current(o).active = 0 THEN "resolved" ELSE "waiting"]
    /\ UNCHANGED <<permit, lane, gone, threw>>

\* The release checks that the object still carries its own token.
ReleaseExclusive(f) ==
    /\ lease[f] # None
    /\ state[lease[f]].mutation = f
    /\ LET o == lease[f]
           s == [state[o] EXCEPT !.mutation = None]
       IN Settle(o, s) /\ drained' = [Woken(o, s) EXCEPT ![f] = "none"]
    /\ lease' = [lease EXCEPT ![f] = None]
    /\ UNCHANGED <<permit, gone, threw>>

----------------------------------------------------------------------------
(* The deletion lane. *)

\* block: from here on nothing new enters, whoever is inside.
Block ==
    /\ lane.phase = "idle"
    /\ ~gone
    /\ \E o \in Obj :
          LET s == Current(o) IN
          /\ Found(o)
          /\ state' = [state EXCEPT ![o] = [s EXCEPT !.deleting = TRUE]]
          /\ entry' = o
          /\ lane' = [phase |-> IF s.active = 0 /\ s.mutation = None
                                THEN "clear" ELSE "blocking",
                      on |-> o]
    /\ UNCHANGED <<permit, lease, drained, gone, threw>>

\* A step of the lane fails: the promise is abandoned and the session stays
\* blocked until a deletion is tried again.
DeletionFails ==
    /\ lane.phase # "idle"
    /\ lane' = NoLane
    /\ UNCHANGED <<entry, state, permit, lease, drained, gone, threw>>

Erase ==
    /\ lane.phase = "clear"
    /\ gone' = TRUE
    /\ lane' = [lane EXCEPT !.phase = "erased"]
    /\ UNCHANGED <<entry, state, permit, lease, drained, threw>>

\* operations.release(sessionId): it throws when somebody is inside.
Busy == state[entry].active # 0 \/ state[entry].mutation # None
Unblocked == [active |-> state[entry].active, deleting |-> FALSE,
              mutation |-> state[entry].mutation]
OpenGate ==
    /\ permit' = permit
    /\ \/ /\ entry = None
          /\ UNCHANGED <<entry, state, drained, threw>>
       \/ /\ entry # None /\ Busy
          /\ threw' = TRUE
          /\ UNCHANGED <<entry, state, drained>>
       \/ /\ entry # None /\ ~Busy
          /\ state' = [state EXCEPT ![entry] = Unblocked]
          /\ entry' = IF Forget(entry, Unblocked) THEN None ELSE entry
          /\ UNCHANGED <<drained, threw>>
    /\ lane' = NoLane
    /\ UNCHANGED <<lease, gone>>

FinishDeletion ==
    /\ lane.phase = "erased"
    /\ OpenGate

\* beginProcessDeletion answers 'not-found': the lane releases the gate
\* without having blocked it.
DeleteAbsent ==
    /\ lane.phase = "idle"
    /\ gone
    /\ OpenGate

\* Another runtime removes the row.
ForeignErase ==
    /\ ~gone
    /\ gone' = TRUE
    /\ UNCHANGED <<entry, state, permit, lease, drained, lane, threw>>

----------------------------------------------------------------------------

GateInit ==
    /\ entry = None
    /\ state = [o \in Obj |-> Idle]
    /\ permit = [c \in Op |-> None]
    /\ lease = [f \in Fence |-> None]
    /\ drained = [f \in Fence |-> "none"]
    /\ lane = NoLane
    /\ gone = FALSE
    /\ threw = FALSE

GateNext ==
    \/ \E c \in Op : Enter(c) \/ Leave(c)
    \/ \E f \in Fence : AcquireExclusive(f) \/ ReleaseExclusive(f)
    \/ Block \/ DeletionFails \/ Erase \/ FinishDeletion \/ DeleteAbsent
    \/ ForeignErase

GateSpec == GateInit /\ [][GateNext]_gateVars

----------------------------------------------------------------------------
(* Properties. *)

GateTypeOK ==
    /\ entry \in Obj \cup {None}
    /\ state \in [Obj -> [active : 0..Cardinality(Op), deleting : BOOLEAN,
                         mutation : Fence \cup {None}]]
    /\ permit \in [Op -> Obj \cup {None}]
    /\ lease \in [Fence -> Obj \cup {None}]
    /\ drained \in [Fence -> {"none", "waiting", "resolved"}]
    /\ lane \in [phase : {"idle", "blocking", "clear", "erased"}, on : Obj \cup {None}]
    /\ gone \in BOOLEAN
    /\ threw \in BOOLEAN

\* Once a deletion's block has resolved nobody is inside, on any object, until
\* the deletion ends: what it then finds quiescent stays so.
BlockedMeansIdle ==
    lane.phase \in {"clear", "erased"} => Holders = {} /\ Fences = {}

\* A lease whose promise has resolved is alone: the handoff that awaited it
\* cannot miss a submission that is still registering its turn.
DrainedIsAlone ==
    \A f \in Fence : lease[f] # None /\ drained[f] = "resolved" =>
        Holders = {} /\ Fences = {f}

\* The "lease was lost" error of an exclusive release is unreachable: an object
\* is not forgotten, and not replaced in the map, while a lease is held on it.
LeaseNotLost ==
    \A f \in Fence : lease[f] # None =>
        entry = lease[f] /\ state[entry].mutation = f

\* The map keeps a session only while somebody is inside or a deletion has
\* closed it: it does not grow with every session that was ever used.
EntryIsNeeded ==
    entry # None => Holders # {} \/ Fences # {} \/ state[entry].deleting

\* Nobody waits for nobody: a deletion that waits for the gate waits for a
\* caller or a lease, and a lease that waits for its drain for a caller. The
\* last of them to leave finds the waiter; no wake is lost between the two.
WaitsForSomebody ==
    /\ lane.phase = "blocking" => Holders # {} \/ Fences # {}
    /\ \A f \in Fence : lease[f] # None /\ drained[f] = "waiting" => Holders # {}

\* A deletion that waits for the gate gets it, or fails for another reason:
\* under the fairness of those who are inside (TurnSubmission).
BlockEnds == lane.phase = "blocking" ~> lane.phase # "blocking"

=============================================================================
