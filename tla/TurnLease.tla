------------------------------ MODULE TurnLease ------------------------------
(***************************************************************************)
(* The durable ownership of one session: its row of session_locks and its  *)
(* Turn receipts (turn_ingress), as                                        *)
(*   packages/local-runtime-v2/src/service/turn-system/persistence/        *)
(*   turn.repository.ts and turn-lease-recovery.ts                         *)
(* change them, and the deletion of the session that                       *)
(* lifecycle/session-turn-deletion.ts drives through them.                 *)
(*                                                                         *)
(* Several runtime processes share the database. Each durable step is one  *)
(* transaction of one runtime; what a runtime keeps in memory (the         *)
(* executions it owns, the settlement that failed, the deletion gate) is   *)
(* lost when it crashes, and a restart is another member of Runtime.       *)
(* Abstracted:                                                             *)
(*  - an owner id encodes the runtime that made it (runtime-owner/         *)
(*    identity.ts): Home. Ids are uuids: a fresh one is one that nothing   *)
(*    refers to;                                                           *)
(*  - clock values: a lock is valid, expired or never expires, and "since" *)
(*    is the set of runtimes that had started when it was acquired, which  *)
(*    is what recoverProcessRestart compares with processStartedAtMs;      *)
(*  - owner kinds "turn-deleting", "compaction-deleting" and               *)
(*    "maintenance-deleting" are a kind and the flag "deleting";           *)
(*  - a receipt that its own runtime settles is "settled", whatever the    *)
(*    outcome; one that a recovery ends is "failed";                       *)
(*  - the priority fence, the admission policy and a history mutation only *)
(*    refuse an admission, and AdmitRefused may refuse any.                *)
(* Lock owners of releases before runtime ids are left out, and            *)
(* recoverExpired, which no caller uses by itself.                         *)
(***************************************************************************)
EXTENDS Naturals, FiniteSets

CONSTANTS Runtime,     \* runtime processes; each starts once
          Turn,        \* turn ids
          Lease,       \* lock owner ids
          Home,        \* the runtime an owner id was made by
          None

ASSUME LeaseAssumption ==
  /\ Home \in [Lease -> Runtime]
  /\ None \notin Lease
  /\ Turn \cap {"none", "maintenance", "session-deletion"} = {}

TurnKind == {"turn", "compaction"}
LeaseKind == TurnKind \cup {"maintenance"}
Phase == {"idle", "gated", "begun", "quiescent", "erased", "cleaned"}

Lock == [kind : LeaseKind \cup {"none", "session-deletion"}, deleting : BOOLEAN,
         id : Lease \cup {None}, expiry : {"valid", "expired", "never"},
         since : SUBSET Runtime]

NoLock == [kind |-> "none", deleting |-> FALSE, id |-> None, expiry |-> "valid",
           since |-> {}]

(* An execution as its runtime knows it. *)
Handle == [turn : Turn, id : Lease]
NoHandle == [turn |-> None, id |-> None]

VARIABLES
  lock,      \* the session's row of session_locks
  receipt,   \* the status of each turn in turn_ingress
  session,   \* whether the session's row exists
  proc,      \* life of each runtime
  held,      \* the executions a runtime owns and has still to settle
  stuck,     \* controller entries whose settlement failed twice
  pending,   \* pendingSettlements
  maint,     \* maintenance leases a runtime holds
  gate,      \* runtimes whose deletion gate is set
  phase      \* how far a runtime's deletion of the session has come

durable == <<lock, receipt, session>>
memory == <<held, stuck, pending, maint, gate, phase>>
vars == <<durable, proc, memory>>

-----------------------------------------------------------------------------
(* Processes and ids *)

Up(r) == proc[r] = "up"
Started == {r \in Runtime : proc[r] # "unborn"}

(* isLeaseOwnerAlive *)
Alive(id) == Up(Home[id])

InUse == {lock.id}
           \cup {h.id : h \in UNION {held[r] \cup stuck[r] \cup {pending[r]} : r \in Runtime}}
           \cup UNION {maint[r] : r \in Runtime}

Fresh(r) == {id \in Lease : Home[id] = r /\ id \notin InUse}

(* The session's own admission check, made before anything is recovered. *)
Admitting(r) == Up(r) /\ session /\ r \notin gate

-----------------------------------------------------------------------------
(* What the transactions are built from. A stored value is [lock, receipt]. *)

Stored == [lock |-> lock, receipt |-> receipt]

Commit(d) == lock' = d.lock /\ receipt' = d.receipt

Accepted(d) == {t \in Turn : d.receipt[t] = "accepted"}

Acquired(kind, id) ==
  [kind |-> kind, deleting |-> FALSE, id |-> id, expiry |-> "valid", since |-> Started]

Fence(id) ==
  [kind |-> "session-deletion", deleting |-> FALSE, id |-> id, expiry |-> "never",
   since |-> Started]

(* releaseOrPromoteDeletionFence *)
ReleasedOrPromoted(l) ==
  IF l.kind \in TurnKind /\ l.deleting THEN Fence(l.id) ELSE NoLock

Ended(d, t, status) ==
  [lock |-> ReleasedOrPromoted(d.lock), receipt |-> [d.receipt EXCEPT ![t] = status]]

(* Mutant: the recovery forgets the turn behind the lock. *)
ReleasedForget(d) == [d EXCEPT !.lock = NoLock]

(* releaseRecoveredLock: the latest accepted turn fails with its lock; at  *)
(* most one is accepted (AcceptedHoldsTheLock).                            *)
Released(d) ==
  [lock |-> NoLock,
   receipt |-> [t \in Turn |-> IF t \in Accepted(d) THEN "failed" ELSE d.receipt[t]]]

(* recoverPendingSettlement *)
AfterPending(d, h) ==
  IF h # NoHandle /\ d.lock.id = h.id /\ d.receipt[h.turn] = "accepted"
  THEN Ended(d, h.turn, "failed") ELSE d

(* Mutant: the turn fails and its lease stays. *)
ExpiryKeepsLock(d) ==
  IF d.lock.expiry = "expired" THEN [Released(d) EXCEPT !.lock = d.lock] ELSE d

(* recoverExpired takes any lock whose time is over, a deletion's too. *)
AfterExpiry(d) == IF d.lock.expiry = "expired" THEN Released(d) ELSE d

-----------------------------------------------------------------------------
(* Processes *)

Start(r) ==
  /\ proc[r] = "unborn"
  /\ proc' = [proc EXCEPT ![r] = "up"]
  /\ UNCHANGED <<durable, memory>>

Crash(r) ==
  /\ Up(r)
  /\ proc' = [proc EXCEPT ![r] = "dead"]
  /\ held' = [held EXCEPT ![r] = {}]
  /\ stuck' = [stuck EXCEPT ![r] = {}]
  /\ pending' = [pending EXCEPT ![r] = NoHandle]
  /\ maint' = [maint EXCEPT ![r] = {}]
  /\ gate' = gate \ {r}
  /\ phase' = [phase EXCEPT ![r] = "idle"]
  /\ UNCHANGED durable

(* Half an hour without a renewal: the owner is dead, suspended or stalled. *)
Expire ==
  /\ lock.kind # "none"
  /\ lock.expiry = "valid"
  /\ lock' = [lock EXCEPT !.expiry = "expired"]
  /\ UNCHANGED <<receipt, session, proc, memory>>

(* renew looks at the owner id and the deadline, not at the owner kind. A  *)
(* renewal in time changes nothing here. But a runtime that was suspended  *)
(* for longer than its lease goes on renewing, and so does the controller  *)
(* entry of a turn that failed before its host ran and whose settlement    *)
(* threw: once the turn is recovered and its lock, under the same owner    *)
(* id, is a deletion's, that lock gets a deadline.                         *)
RenewLost(r) ==
  /\ Up(r)
  /\ \E h \in held[r] \cup stuck[r] : h.id = lock.id
  /\ lock.expiry = "never"
  /\ lock' = [lock EXCEPT !.expiry = "valid"]
  /\ UNCHANGED <<receipt, session, proc, memory>>

-----------------------------------------------------------------------------
(* Turns *)

AdmissionRecovery(r) == AfterExpiry(AfterPending(Stored, pending[r]))

(* Mutant: an admission does not ask whether the turn was admitted before. *)
AdmitAnyAccepted(r, t, kind, id) ==
  /\ Admitting(r)
  /\ id \in Fresh(r)
  /\ LET d == AdmissionRecovery(r)
     IN /\ d.lock.kind = "none"
        /\ Commit([lock |-> Acquired(kind, id),
                   receipt |-> [d.receipt EXCEPT ![t] = "accepted"]])
  /\ held' = [held EXCEPT ![r] = @ \cup {[turn |-> t, id |-> id]}]
  /\ pending' = [pending EXCEPT ![r] = NoHandle]
  /\ UNCHANGED <<session, proc, stuck, maint, gate, phase>>

(* admit, accepted: nothing holds the session once leftovers are recovered, *)
(* and the turn is new.                                                     *)
AdmitAccepted(r, t, kind, id) ==
  /\ Admitting(r)
  /\ id \in Fresh(r)
  /\ LET d == AdmissionRecovery(r)
     IN /\ d.lock.kind = "none"
        /\ d.receipt[t] = "none"
        /\ Commit([lock |-> Acquired(kind, id),
                   receipt |-> [d.receipt EXCEPT ![t] = "accepted"]])
  /\ held' = [held EXCEPT ![r] = @ \cup {[turn |-> t, id |-> id]}]
  /\ pending' = [pending EXCEPT ![r] = NoHandle]
  /\ UNCHANGED <<session, proc, stuck, maint, gate, phase>>

(* admit, refused: by the deletion gate, a missing session or a history    *)
(* mutation before it looks at the lock, or else after a recovery, which   *)
(* is committed all the same. The settlement that failed is forgotten.     *)
AdmitRefused(r) ==
  /\ Up(r)
  /\ \/ UNCHANGED <<lock, receipt>>
     \/ Admitting(r) /\ Commit(AdmissionRecovery(r))
  /\ pending' = [pending EXCEPT ![r] = NoHandle]
  /\ UNCHANGED <<session, proc, held, stuck, maint, gate, phase>>

(* settle: by the owner of the lock, of the accepted turn; a stale owner   *)
(* changes nothing. Either way the execution is over.                      *)
Settle(r, h) ==
  /\ Up(r)
  /\ h \in held[r]
  /\ IF lock.id = h.id /\ receipt[h.turn] = "accepted"
     THEN Commit(Ended(Stored, h.turn, "settled"))
     ELSE UNCHANGED <<lock, receipt>>
  /\ held' = [held EXCEPT ![r] = @ \ {h}]
  /\ UNCHANGED <<session, proc, stuck, pending, maint, gate, phase>>

(* Both attempts to settle threw. The runtime remembers the settlement,    *)
(* and the execution's controller entry, if it got one, stays registered.  *)
SettleFails(r, h) ==
  /\ Up(r)
  /\ h \in held[r]
  /\ held' = [held EXCEPT ![r] = @ \ {h}]
  /\ pending' = [pending EXCEPT ![r] = h]
  /\ \E left \in {{}, {h}} : stuck' = [stuck EXCEPT ![r] = @ \cup left]
  /\ UNCHANGED <<durable, proc, maint, gate, phase>>

(* revokeAdmission, for a turn that never started. If it is refused the    *)
(* turn is settled as failed.                                              *)
RevokeAdmission(r, h) ==
  /\ Up(r)
  /\ h \in held[r]
  /\ receipt[h.turn] = "accepted"
  /\ lock.id = h.id /\ lock.kind = "turn" /\ ~lock.deleting
  /\ Commit([lock |-> NoLock, receipt |-> [receipt EXCEPT ![h.turn] = "none"]])
  /\ held' = [held EXCEPT ![r] = @ \ {h}]
  /\ UNCHANGED <<session, proc, stuck, pending, maint, gate, phase>>

-----------------------------------------------------------------------------
(* Maintenance *)

AcquireMaintenance(r, id) ==
  /\ Admitting(r)
  /\ id \in Fresh(r)
  /\ AfterExpiry(Stored).lock.kind = "none"
  /\ Commit([AfterExpiry(Stored) EXCEPT !.lock = Acquired("maintenance", id)])
  /\ maint' = [maint EXCEPT ![r] = @ \cup {id}]
  /\ UNCHANGED <<session, proc, held, stuck, pending, gate, phase>>

ReleaseMaintenance(r, id) ==
  /\ Up(r)
  /\ id \in maint[r]
  /\ maint' = [maint EXCEPT ![r] = @ \ {id}]
  /\ lock' = IF lock.id # id \/ lock.kind # "maintenance" THEN lock
             ELSE IF lock.deleting THEN Fence(id) ELSE NoLock
  /\ UNCHANGED <<receipt, session, proc, held, stuck, pending, gate, phase>>

-----------------------------------------------------------------------------
(* Deletion of the session *)

Advance(r, from, to) == Up(r) /\ phase[r] = from /\ phase' = [phase EXCEPT ![r] = to]

(* The in-memory gate; a session already gone leaves only the last step.   *)
StartDeletion(r) ==
  /\ Advance(r, "idle", IF session THEN "gated" ELSE "cleaned")
  /\ gate' = IF session THEN gate \cup {r} ELSE gate \ {r}
  /\ UNCHANGED <<durable, proc, held, stuck, pending, maint>>

(* recoverExpiredDeletionTurn ends an expired turn, or promotes an expired *)
(* maintenance-deleting lock. For an expired maintenance lock that no      *)
(* deletion has marked it asks for an accepted turn, and throws.           *)
ExpiredLease(d) == d.lock.kind \in LeaseKind /\ d.lock.expiry = "expired"

Marked(d) == d.lock.kind = "maintenance" /\ d.lock.deleting

NeedsTurn(d) == ExpiredLease(d) /\ ~Marked(d)

AfterDeletionExpiry(d) ==
  IF ~ExpiredLease(d) THEN d
  ELSE IF Marked(d) THEN [d EXCEPT !.lock = Fence(d.lock.id)]
  ELSE [Released(d) EXCEPT !.lock = ReleasedOrPromoted(d.lock)]

(* beginSessionDeletion: the session is free, or its lock becomes the      *)
(* deletion's when its owner is done. Another runtime's deletion is taken  *)
(* over only from a dead owner.                                            *)
BeginDeletion(r) ==
  LET recovered == AfterPending(Stored, pending[r])
      d == AfterDeletionExpiry(recovered)
  IN /\ Advance(r, "gated", "begun")
     /\ NeedsTurn(recovered) => Accepted(recovered) # {}
     /\ \/ /\ d.lock.kind = "none" \/ (d.lock.kind = "session-deletion" /\ ~Alive(d.lock.id))
           /\ \E id \in Fresh(r) : Commit([d EXCEPT !.lock = Fence(id)])
        \/ /\ d.lock.kind = "session-deletion" /\ Home[d.lock.id] = r
           /\ Commit(d)
        \/ /\ d.lock.kind \in LeaseKind
           /\ Commit([d EXCEPT !.lock.deleting = TRUE])
     /\ pending' = [pending EXCEPT ![r] = NoHandle]
     /\ UNCHANGED <<session, proc, held, stuck, maint, gate>>

(* Mutant: the runtime only looks at its own controller. *)
RequireQuiescentLocal(r) ==
  /\ Advance(r, "begun", "quiescent")
  /\ stuck[r] = {}
  /\ UNCHANGED <<durable, proc, held, stuck, pending, maint, gate>>

(* requireQuiescentTurn: the controller has no entry and the fence is up.  *)
(* An execution that is held here may be without an entry: it is still to  *)
(* be registered, or about to be settled after a failed start.             *)
RequireQuiescent(r) ==
  /\ Advance(r, "begun", "quiescent")
  /\ stuck[r] = {}
  /\ lock.kind = "session-deletion"
  /\ UNCHANGED <<durable, proc, held, stuck, pending, maint, gate>>

DeleteTurnData(r) ==
  /\ Advance(r, "quiescent", "erased")
  /\ \/ lock.kind = "session-deletion"
     \/ lock.kind = "none" /\ \A t \in Turn : receipt[t] = "none"
  /\ receipt' = [t \in Turn |-> "none"]
  /\ pending' = [pending EXCEPT ![r] = NoHandle]
  /\ UNCHANGED <<lock, session, proc, held, stuck, maint, gate>>

(* Mutant: the session's row may go before the data of its turns. *)
CleanupEarly(r) ==
  /\ phase[r] \in {"quiescent", "erased"}
  /\ Advance(r, phase[r], "cleaned")
  /\ session' = FALSE
  /\ UNCHANGED <<lock, receipt, proc, held, stuck, pending, maint, gate>>

(* The caller's cleanup removes the session and everything else of it. *)
Cleanup(r) ==
  /\ Advance(r, "erased", "cleaned")
  /\ session' = FALSE
  /\ UNCHANGED <<lock, receipt, proc, held, stuck, pending, maint, gate>>

(* completeSessionDeletion: only the fence's own runtime takes it down. *)
CompleteDeletion(r) ==
  /\ Advance(r, "cleaned", "idle")
  /\ \/ lock.kind = "none"
     \/ /\ lock.kind = "session-deletion" /\ Home[lock.id] = r
        /\ \A t \in Turn : receipt[t] = "none"
  /\ lock' = NoLock
  /\ gate' = gate \ {r}
  /\ UNCHANGED <<receipt, session, proc, held, stuck, pending, maint>>

(* Any step may throw. The lane ends; the gate stays as it is. *)
AbandonDeletion(r) ==
  /\ phase[r] # "idle"
  /\ Advance(r, phase[r], "idle")
  /\ UNCHANGED <<durable, proc, held, stuck, pending, maint, gate>>

-----------------------------------------------------------------------------
(* Mutant: any lock older than this process is taken, its owner alive or not. *)
RecoverAnyRestart(r) ==
  /\ Up(r)
  /\ lock.kind # "none" /\ r \notin lock.since
  /\ \/ /\ lock.kind = "session-deletion"
        /\ \E id \in Fresh(r) : lock' = Fence(id)
        /\ UNCHANGED receipt
     \/ /\ lock.kind \in TurnKind
        /\ Commit(Released(Stored))
     \/ /\ lock.kind = "maintenance"
        /\ lock' = NoLock
        /\ UNCHANGED receipt
  /\ UNCHANGED <<session, proc, memory>>

(* Mutant: the lock of a dead deleter is released like any other. *)
RecoverFence(r) ==
  /\ Up(r)
  /\ lock.kind # "none" /\ r \notin lock.since
  /\ ~Alive(lock.id)
  /\ IF lock.kind \in TurnKind THEN Commit(Released(Stored))
     ELSE lock' = NoLock /\ UNCHANGED receipt
  /\ UNCHANGED <<session, proc, memory>>

(* recoverProcessRestart, run at the start and again while live owners     *)
(* remain: a lock older than this process whose owner is dead is released, *)
(* and a deletion's lock becomes this runtime's.                           *)
RecoverProcessRestart(r) ==
  /\ Up(r)
  /\ lock.kind # "none" /\ r \notin lock.since
  /\ ~Alive(lock.id)
  /\ \/ /\ lock.kind = "session-deletion"
        /\ \E id \in Fresh(r) : lock' = Fence(id)
        /\ UNCHANGED receipt
     \/ /\ lock.kind \in TurnKind
        /\ Commit(Released(Stored))
     \/ /\ lock.kind = "maintenance"
        /\ lock' = NoLock
        /\ UNCHANGED receipt
  /\ UNCHANGED <<session, proc, memory>>

-----------------------------------------------------------------------------

Init ==
  /\ lock = NoLock
  /\ receipt = [t \in Turn |-> "none"]
  /\ session = TRUE
  /\ proc = [r \in Runtime |-> "unborn"]
  /\ held = [r \in Runtime |-> {}]
  /\ stuck = [r \in Runtime |-> {}]
  /\ pending = [r \in Runtime |-> NoHandle]
  /\ maint = [r \in Runtime |-> {}]
  /\ gate = {}
  /\ phase = [r \in Runtime |-> "idle"]

TurnStep(r) ==
  \/ \E t \in Turn, kind \in TurnKind, id \in Lease : AdmitAccepted(r, t, kind, id)
  \/ AdmitRefused(r)
  \/ \E h \in held[r] : Settle(r, h) \/ SettleFails(r, h) \/ RevokeAdmission(r, h)

MaintenanceStep(r) ==
  \E id \in Lease : AcquireMaintenance(r, id) \/ ReleaseMaintenance(r, id)

DeletionStep(r) ==
  \/ StartDeletion(r) \/ BeginDeletion(r) \/ RequireQuiescent(r) \/ DeleteTurnData(r)
  \/ Cleanup(r) \/ CompleteDeletion(r) \/ AbandonDeletion(r)

Next ==
  \/ Expire
  \/ \E r \in Runtime :
       \/ Start(r) \/ Crash(r) \/ RenewLost(r) \/ RecoverProcessRestart(r)
       \/ TurnStep(r) \/ MaintenanceStep(r) \/ DeletionStep(r)

Spec == Init /\ [][Next]_vars

-----------------------------------------------------------------------------
(* Properties *)

(* The variables have their types; a lock has an owner exactly while there *)
(* is one, and only leases are marked by a deletion.                       *)
LockOK ==
  /\ lock \in Lock
  /\ (lock.kind = "none") = (lock.id = None)
  /\ lock.kind = "none" => lock = NoLock
  /\ lock.deleting => lock.kind \in LeaseKind
  /\ lock.expiry = "never" => lock.kind = "session-deletion"

TypeOK ==
  /\ LockOK
  /\ receipt \in [Turn -> {"none", "accepted", "settled", "failed"}]
  /\ session \in BOOLEAN
  /\ proc \in [Runtime -> {"unborn", "up", "dead"}]
  /\ held \in [Runtime -> SUBSET Handle]
  /\ stuck \in [Runtime -> SUBSET Handle]
  /\ pending \in [Runtime -> Handle \cup {NoHandle}]
  /\ maint \in [Runtime -> SUBSET Lease]
  /\ gate \in SUBSET Runtime
  /\ phase \in [Runtime -> Phase]

(* A session has an accepted turn exactly while a turn's lease, or the     *)
(* same lease marked by a deletion, holds it, and never two: no admission, *)
(* settlement, revocation, recovery or deletion, of whichever runtime,     *)
(* leaves one without the other (insertAdmission, settleInTransaction,     *)
(* releaseRecoveredLockInTransaction).                                     *)
AcceptedHoldsTheLock ==
  /\ \A t, u \in Accepted(Stored) : t = u
  /\ (Accepted(Stored) # {}) = (lock.kind \in TurnKind)

(* An execution that still owns the session's lease is the accepted turn's *)
(* own, and it alone, however often the lease was lost, recovered and      *)
(* granted again: so whoever passes settle's check settles its own turn.   *)
OwnerRunsTheAcceptedTurn ==
  lock.kind \in TurnKind =>
    \A r, s \in Runtime : \A h \in held[r] \cup stuck[r], g \in held[s] \cup stuck[s] :
      h.id = lock.id /\ g.id = lock.id => h = g /\ receipt[h.turn] = "accepted"

(* A turn ends once. A runtime that was given up for dead and comes back   *)
(* with an outcome finds itself stale; only the deletion of the session    *)
(* removes the receipt of a turn that ended.                               *)
TerminalIsFinal ==
  [][\A t \in Turn : receipt[t] \in {"settled", "failed"} =>
       \/ receipt'[t] = receipt[t]
       \/ receipt'[t] = "none" /\ lock.kind = "session-deletion"]_vars

(* A turn of a live runtime whose lease has not run out is ended by that   *)
(* runtime only: the restart recovery of another process, a second process *)
(* that deletes the session and a maintenance wait for it.                 *)
LiveLeaseIsSafe ==
  [][lock.kind \in TurnKind /\ Alive(lock.id) /\ lock.expiry = "valid" =>
       \/ lock'.id = lock.id /\ Accepted(Stored)' = Accepted(Stored)
       \/ held'[Home[lock.id]] # held[Home[lock.id]]
       \/ pending'[Home[lock.id]] # pending[Home[lock.id]]]_vars

(* A deletion that has its fence up is not dropped. Whoever crashes, gives *)
(* up or takes over between its steps, the fence comes down only when the  *)
(* session's row and the receipts of its turns are gone: a session that is *)
(* half erased is never opened again (beginSessionDeletion,                *)
(* completeSessionDeletion, recoverProcessRestart). The one exception is   *)
(* what FenceNeverExpires denies: a late renewal gave the fence a          *)
(* deadline, and the deadline has passed.                                  *)
HalfErasedStaysShut ==
  [][lock.kind = "session-deletion" /\ lock'.kind # "session-deletion" =>
       \/ ~session /\ \A t \in Turn : receipt[t] = "none"
       \/ lock.expiry = "expired"]_vars

(* What the rest of the runtime may know of the lock (SessionOwner): the   *)
(* accepted turn has it, the maintenance or the deletion, or nobody.       *)
owner == IF lock.kind \in TurnKind THEN CHOOSE t \in Turn : receipt[t] = "accepted"
         ELSE lock.kind

life == [t \in Turn |-> CASE receipt[t] = "none"     -> "new"
                          [] receipt[t] = "accepted" -> "owning"
                          [] OTHER                   -> receipt[t]]

(* Its time is over, its process is gone, or its settlement failed twice.  *)
lapsed ==
  /\ lock.kind # "none"
  /\ \/ lock.expiry = "expired"
     \/ ~Alive(lock.id)
     \/ \E r \in Runtime : pending[r].id = lock.id

Owner == INSTANCE SessionOwner
           WITH Work <- Turn, Other <- {"maintenance", "session-deletion"},
                Eraser <- {"session-deletion"}, Nobody <- "none"

(* However many runtimes share the database, crash and come late, the lock *)
(* and the receipts are those of one owner at a time that keeps the        *)
(* session until it gives it back or has lapsed.                           *)
SessionOwner == Owner!Spec

(* DELETION_FENCE_EXPIRES_AT_MS is the largest integer: a deletion's lock  *)
(* has no deadline.                                                        *)
FenceNeverExpires == lock.kind = "session-deletion" => lock.expiry = "never"

=============================================================================
