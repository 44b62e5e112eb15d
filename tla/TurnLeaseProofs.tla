--------------------------- MODULE TurnLeaseProofs ---------------------------
(***************************************************************************)
(* Proofs about TurnLease and TurnLeaseDeletion, for every set of runtimes, turns and owner ids. *)
(* The recoveries are functions of the stored lock and receipts, so the    *)
(* argument has two parts: what each of them makes of a good pair          *)
(* (Recovered), and what every step does with the executions and the       *)
(* phases that the runtimes keep in memory.                                *)
(***************************************************************************)
EXTENDS TurnLeaseDeletion, TLAPS

Status == {"none", "accepted", "settled", "failed"}

(* The lock's part of the type invariant, for any lock. *)
GoodLock(l) ==
  /\ l \in Lock
  /\ (l.kind = "none") = (l.id = None)
  /\ l.kind = "none" => l = NoLock
  /\ l.deleting => l.kind \in LeaseKind
  /\ l.expiry = "never" => l.kind = "session-deletion"

(* A pair that satisfies AcceptedHoldsTheLock. *)
Good(d) ==
  /\ d \in [lock : Lock, receipt : [Turn -> Status]]
  /\ GoodLock(d.lock)
  /\ \A t, u \in Accepted(d) : t = u
  /\ (Accepted(d) # {}) = (d.lock.kind \in TurnKind)

(* What a recovery may make of a pair: nothing, or no turn is accepted any *)
(* more, the accepted one has failed or was settled, and the lock is free  *)
(* or has become a deletion's under the same id.                           *)
Recovered(d, e) ==
  \/ e = d
  \/ /\ Accepted(e) = {}
     /\ e.lock.kind \in {"none", "session-deletion"}
     /\ e.lock.kind = "session-deletion" => d.lock.kind \in LeaseKind /\ e.lock.expiry = "never"
     /\ d.lock.kind = "session-deletion" /\ d.lock.expiry # "expired" => e.lock = d.lock
     /\ \A t \in Turn : e.receipt[t] = d.receipt[t] \/ d.receipt[t] = "accepted"

-----------------------------------------------------------------------------

(* The variables as a pair. *)
LEMMA StoredFields == Stored.lock = lock /\ Stored.receipt = receipt
BY DEF Stored

(* An empty lock, a granted one and a fence are good locks. *)
LEMMA LocksGood ==
  ASSUME LeaseAssumption
  PROVE  /\ GoodLock(NoLock)
         /\ \A id \in Lease, k \in LeaseKind : GoodLock(Acquired(k, id))
         /\ \A id \in Lease : GoodLock(Fence(id))
BY DEF LeaseAssumption, GoodLock, NoLock, Acquired, Fence, Lock, LeaseKind, TurnKind, Started

(* Neither an empty lock nor a fence is a turn's. *)
LEMMA LockKinds ==
  /\ NoLock.kind = "none" /\ NoLock.kind \notin TurnKind
  /\ \A id : Fence(id).kind = "session-deletion" /\ Fence(id).kind \notin TurnKind
BY DEF NoLock, Fence, TurnKind

(* Ending the accepted turn leaves a good pair with no accepted turn. *)
LEMMA EndedGood ==
  ASSUME LeaseAssumption, NEW d, Good(d), NEW t \in Accepted(d), NEW status \in {"settled", "failed"}
  PROVE  Good(Ended(d, t, status)) /\ Recovered(d, Ended(d, t, status))
<1> DEFINE e == Ended(d, t, status)
<1>1. d.lock.kind \in TurnKind /\ d.lock.id \in Lease /\ d.lock.expiry # "never"
  BY DEF Good, GoodLock, Lock, TurnKind
<1>2. GoodLock(e.lock) /\ e.lock.kind \in {"none", "session-deletion"}
      /\ (e.lock.kind = "session-deletion" => e.lock.expiry = "never")
  BY <1>1, LocksGood DEF Ended, ReleasedOrPromoted, Fence, NoLock
<1>3. e.receipt = [d.receipt EXCEPT ![t] = status] /\ t \in Turn
  BY DEF Ended, Accepted
<1>4. e.receipt \in [Turn -> Status] /\ Accepted(e) = {}
  BY <1>3 DEF Good, Accepted, Status
<1>5. e \in [lock : Lock, receipt : [Turn -> Status]]
  BY <1>2, <1>4 DEF GoodLock, Ended
<1>6. Good(e)
  BY <1>2, <1>4, <1>5 DEF Good, TurnKind
<1>7. Recovered(d, e)
  BY <1>1, <1>2, <1>3, <1>4 DEF Recovered, Good, Accepted, TurnKind, LeaseKind
<1> QED BY <1>6, <1>7

(* Releasing a lock, with the turn behind it, leaves a good pair. *)
LEMMA ReleasedGood ==
  ASSUME LeaseAssumption, NEW d, Good(d)
  PROVE  /\ Good(Released(d))
         /\ Accepted(Released(d)) = {}
         /\ Released(d).lock = NoLock
         /\ \A t \in Turn : Released(d).receipt[t] = d.receipt[t] \/ d.receipt[t] = "accepted"
<1>1. Released(d).lock = NoLock /\ GoodLock(NoLock) /\ NoLock \in Lock
  BY LocksGood DEF Released, GoodLock
<1>2. Released(d).receipt \in [Turn -> Status] /\ Accepted(Released(d)) = {}
      /\ \A t \in Turn : Released(d).receipt[t] = d.receipt[t] \/ d.receipt[t] = "accepted"
  BY DEF Released, Good, Accepted, Status
<1>3. Released(d) \in [lock : Lock, receipt : [Turn -> Status]]
  BY <1>1, <1>2 DEF Released
<1>4. Released(d).lock.kind = "none"
  BY <1>1 DEF NoLock
<1>5. Good(Released(d))
  BY <1>1, <1>2, <1>3, <1>4 DEF Good, TurnKind
<1> QED BY <1>1, <1>2, <1>5

(* The three recoveries of an admission, an acquisition and a deletion. *)
LEMMA AfterPendingGood ==
  ASSUME LeaseAssumption, NEW d, Good(d), NEW h \in Handle \cup {NoHandle}
  PROVE  /\ Good(AfterPending(d, h)) /\ Recovered(d, AfterPending(d, h))
         /\ AfterPending(d, h) # d => h # NoHandle /\ h.id = d.lock.id
<1>1. CASE h # NoHandle /\ d.lock.id = h.id /\ d.receipt[h.turn] = "accepted"
  <2>1. h.turn \in Accepted(d)
    BY <1>1 DEF Handle, Accepted
  <2> QED BY <1>1, <2>1, EndedGood DEF AfterPending
<1>2. CASE ~(h # NoHandle /\ d.lock.id = h.id /\ d.receipt[h.turn] = "accepted")
  BY <1>2 DEF AfterPending, Recovered
<1> QED BY <1>1, <1>2

\* Recovering an expired lock at an admission leaves a good store.
LEMMA AfterExpiryGood ==
  ASSUME LeaseAssumption, NEW d, Good(d)
  PROVE  /\ Good(AfterExpiry(d)) /\ Recovered(d, AfterExpiry(d))
         /\ d.lock.expiry # "expired" => AfterExpiry(d) = d
<1>1. NoLock.kind = "none"
  BY DEF NoLock
<1>2. CASE d.lock.expiry = "expired"
  BY <1>1, <1>2, ReleasedGood DEF AfterExpiry, Recovered
<1>3. CASE d.lock.expiry # "expired"
  BY <1>3 DEF AfterExpiry, Recovered
<1> QED BY <1>2, <1>3

\* So does a deletion's recovery, unless it misses an accepted turn it needs.
LEMMA AfterDeletionExpiryGood ==
  ASSUME LeaseAssumption, NEW d, Good(d), NeedsTurn(d) => Accepted(d) # {}
  PROVE  /\ Good(AfterDeletionExpiry(d)) /\ Recovered(d, AfterDeletionExpiry(d))
         /\ d.lock.expiry # "expired" => AfterDeletionExpiry(d) = d
<1>1. CASE ~ExpiredLease(d)
  BY <1>1 DEF AfterDeletionExpiry, ExpiredLease, Recovered
<1>2. CASE ExpiredLease(d) /\ Marked(d)
  <2> DEFINE e == [d EXCEPT !.lock = Fence(d.lock.id)]
  <2>1. AfterDeletionExpiry(d) = e
    BY <1>2 DEF AfterDeletionExpiry
  <2>2. d.lock.id \in Lease /\ d.lock.kind = "maintenance" /\ Accepted(d) = {}
    BY <1>2 DEF Marked, Good, GoodLock, Lock, TurnKind
  <2>3. GoodLock(e.lock) /\ e.lock = Fence(d.lock.id) /\ e.receipt = d.receipt
    BY <2>2, LocksGood DEF Good
  <2>4. Accepted(e) = {} /\ e.lock.kind = "session-deletion" /\ e.lock.expiry = "never"
    BY <2>2, <2>3 DEF Accepted, Fence
  <2>5. Good(e)
    BY <2>3, <2>4 DEF Good, GoodLock, TurnKind
  <2>6. Recovered(d, e)
    BY <1>2, <2>2, <2>3, <2>4 DEF Recovered, LeaseKind, ExpiredLease
  <2> QED BY <1>2, <2>1, <2>5, <2>6 DEF ExpiredLease
<1>3. CASE ExpiredLease(d) /\ ~Marked(d)
  <2> DEFINE e == [Released(d) EXCEPT !.lock = ReleasedOrPromoted(d.lock)]
  <2>1. AfterDeletionExpiry(d) = e
    BY <1>3 DEF AfterDeletionExpiry
  <2>2. d.lock.kind \in TurnKind /\ d.lock.id \in Lease /\ d.lock.expiry = "expired"
    BY <1>3 DEF NeedsTurn, ExpiredLease, Good, GoodLock, Lock, TurnKind
  <2>3. e.lock = ReleasedOrPromoted(d.lock) /\ e.receipt = Released(d).receipt
    BY DEF Released
  <2>4. GoodLock(e.lock) /\ e.lock.kind \in {"none", "session-deletion"}
        /\ (e.lock.kind = "session-deletion" => e.lock.expiry = "never")
    BY <2>2, <2>3, LocksGood DEF ReleasedOrPromoted, Fence, NoLock
  <2>5. Accepted(e) = {} /\ e.receipt \in [Turn -> Status]
    BY <2>3, ReleasedGood DEF Good, Accepted
  <2>6. Good(e)
    <3>1. e \in [lock : Lock, receipt : [Turn -> Status]]
      BY <2>3, <2>4, <2>5 DEF GoodLock, Released
    <3> QED BY <2>4, <2>5, <3>1 DEF Good, TurnKind
  <2>7. Recovered(d, e)
    BY <2>2, <2>3, <2>4, <2>5, ReleasedGood DEF Recovered, LeaseKind
  <2> QED BY <2>1, <2>2, <2>6, <2>7
<1> QED BY <1>1, <1>2, <1>3

(* Recoveries compose. *)
LEMMA RecoveredTransitive ==
  ASSUME NEW c, NEW d, NEW e, Good(c), Good(d), Good(e), Recovered(c, d), Recovered(d, e)
  PROVE  Recovered(c, e)
BY DEF Recovered, Good, GoodLock, TurnKind, LeaseKind, Accepted, NoLock

(* What an admission finds once leftovers are recovered. *)
LEMMA AdmissionRecoveryGood ==
  ASSUME LeaseAssumption, TypeOK, Good(Stored), NEW r \in Runtime
  PROVE  /\ Good(AdmissionRecovery(r)) /\ Recovered(Stored, AdmissionRecovery(r))
         /\ lock.expiry # "expired" /\ AdmissionRecovery(r) # Stored
              => pending[r] # NoHandle /\ pending[r].id = lock.id
<1> DEFINE d == AfterPending(Stored, pending[r])
<1>1. pending[r] \in Handle \cup {NoHandle}
  BY DEF TypeOK
<1>2. Good(d) /\ Recovered(Stored, d) /\ (d # Stored => pending[r] # NoHandle /\ pending[r].id = lock.id)
  BY <1>1, AfterPendingGood, StoredFields
<1>3. Good(AfterExpiry(d)) /\ Recovered(d, AfterExpiry(d))
      /\ (d.lock.expiry # "expired" => AfterExpiry(d) = d)
  BY <1>2, AfterExpiryGood
<1>4. Recovered(Stored, AfterExpiry(d))
  BY <1>2, <1>3, RecoveredTransitive
<1>5. AdmissionRecovery(r) = AfterExpiry(d)
  BY DEF AdmissionRecovery
<1> QED BY <1>2, <1>3, <1>4, <1>5, StoredFields

(* A refused admission commits that, or nothing. *)
LEMMA RefusedGood ==
  ASSUME LeaseAssumption, TypeOK, Good(Stored), NEW r \in Runtime, AdmitRefused(r)
  PROVE  \E d : /\ Good(d) /\ Recovered(Stored, d)
               /\ d \in {Stored, AdmissionRecovery(r)}
               /\ lock' = d.lock /\ receipt' = d.receipt
<1>1. CASE UNCHANGED <<lock, receipt>>
  BY <1>1, StoredFields DEF Recovered
<1>2. CASE Commit(AdmissionRecovery(r))
  BY <1>2, AdmissionRecoveryGood DEF Commit
<1> QED BY <1>1, <1>2 DEF AdmitRefused

(* What a deletion finds once leftovers are recovered. *)
LEMMA DeletionRecoveryGood ==
  ASSUME LeaseAssumption, TypeOK, Good(Stored), NEW r \in Runtime, NEW d,
         NeedsTurn(AfterPending(Stored, pending[r])) => Accepted(AfterPending(Stored, pending[r])) # {},
         d = AfterDeletionExpiry(AfterPending(Stored, pending[r]))
  PROVE  /\ Good(d) /\ Recovered(Stored, d)
         /\ lock.expiry # "expired" /\ d # Stored
              => pending[r] # NoHandle /\ pending[r].id = lock.id
<1> DEFINE c == AfterPending(Stored, pending[r])
<1>1. pending[r] \in Handle \cup {NoHandle}
  BY DEF TypeOK
<1>2. Good(c) /\ Recovered(Stored, c) /\ (c # Stored => pending[r] # NoHandle /\ pending[r].id = lock.id)
  BY <1>1, AfterPendingGood, StoredFields
<1>3. Good(d) /\ Recovered(c, d) /\ (c.lock.expiry # "expired" => d = c)
  BY <1>2, AfterDeletionExpiryGood
<1>4. Recovered(Stored, d)
  BY <1>2, <1>3, RecoveredTransitive
<1> QED BY <1>2, <1>3, <1>4, StoredFields

-----------------------------------------------------------------------------
(* The inductive invariant *)

(* The types of what is not part of the stored pair. *)
MemoryOK ==
  /\ session \in BOOLEAN
  /\ proc \in [Runtime -> {"unborn", "up", "dead"}]
  /\ held \in [Runtime -> SUBSET Handle]
  /\ stuck \in [Runtime -> SUBSET Handle]
  /\ pending \in [Runtime -> Handle \cup {NoHandle}]
  /\ maint \in [Runtime -> SUBSET Lease]
  /\ gate \in SUBSET Runtime
  /\ phase \in [Runtime -> Phase]

(* Every execution a runtime still refers to. *)
Handles(r) == held[r] \cup stuck[r] \cup ({pending[r]} \ {NoHandle})

(* A runtime refers only to executions that it started, to one of an owner *)
(* id; and the one whose id the turn's lease has runs the accepted turn.   *)
Owned ==
  \A r \in Runtime : \A h \in Handles(r) :
    /\ Home[h.id] = r
    /\ \A g \in Handles(r) : h.id = g.id => h = g
    /\ h.id = lock.id /\ lock.kind \in TurnKind => receipt[h.turn] = "accepted"

IInv == Good(Stored) /\ MemoryOK /\ Owned

(* The stored part of the type invariant and AcceptedHoldsTheLock are what *)
(* Good says of the stored pair.                                           *)
LEMMA GoodIsTyped ==
  /\ Good(Stored) <=> LockOK /\ receipt \in [Turn -> Status] /\ AcceptedHoldsTheLock
  /\ IInv => TypeOK
<1>1. Good(Stored) <=> LockOK /\ receipt \in [Turn -> Status] /\ AcceptedHoldsTheLock
  BY DEF Good, GoodLock, LockOK, AcceptedHoldsTheLock, Stored
<1> QED BY <1>1 DEF IInv, TypeOK, MemoryOK, Status

(* A step that starts no execution and grants no turn's lease keeps Owned. *)
LEMMA OwnedKept ==
  ASSUME Owned,
         \A r \in Runtime : Handles(r)' \subseteq Handles(r),
         lock'.kind \in TurnKind => lock.kind \in TurnKind /\ lock'.id = lock.id /\ receipt' = receipt
  PROVE  Owned'
BY DEF Owned

(* A recovery keeps a turn's lease as it is or ends it. *)
LEMMA RecoveredLease ==
  ASSUME NEW d, Recovered(Stored, d), lock' = d.lock, receipt' = d.receipt
  PROVE  lock'.kind \in TurnKind => lock' = lock /\ receipt' = receipt
BY StoredFields DEF Recovered, TurnKind

\* An idle session without receipts satisfies the invariant.
LEMMA InitIInv == LeaseAssumption /\ Init => IInv
<1> SUFFICES ASSUME LeaseAssumption, Init PROVE IInv
  OBVIOUS
<1>1. Good(Stored)
  BY LocksGood DEF Init, Good, GoodLock, Stored, Accepted, Status, TurnKind, NoLock
<1>2. MemoryOK
  BY DEF Init, MemoryOK, Phase
<1>3. Owned
  BY DEF Init, Owned, Handles
<1> QED BY <1>1, <1>2, <1>3 DEF IInv

-----------------------------------------------------------------------------
(* Every step keeps the invariant. *)

\* A transaction that writes a good lock and its receipts leaves a good store.
LEMMA CommitGood ==
  ASSUME NEW d, Good(d), lock' = d.lock, receipt' = d.receipt
  PROVE  Good(Stored)'
<1>1. Stored' = d
  BY DEF Stored, Good
<1>2. Accepted(Stored)' = Accepted(d)
  BY DEF Accepted, Stored
<1> QED BY <1>1, <1>2 DEF Good, GoodLock, Stored

(* A good lock that is no turn's may stand where no turn is accepted. *)
LEMMA LockReplaced ==
  ASSUME NEW d, Good(d), NEW l, GoodLock(l), l.kind \notin TurnKind, Accepted(d) = {},
         lock' = l, receipt' = d.receipt
  PROVE  Good(Stored)'
<1>1. Accepted(Stored)' = {}
  BY DEF Accepted, Stored
<1>2. Stored' \in [lock : Lock, receipt : [Turn -> Status]]
  BY DEF Stored, Good, GoodLock
<1> QED BY <1>1, <1>2 DEF Good, GoodLock, Stored

(* A lock of the same kind may stand where the old one stood. *)
LEMMA LockKept ==
  ASSUME NEW d, Good(d), NEW l, GoodLock(l), l.kind = d.lock.kind,
         lock' = l, receipt' = d.receipt
  PROVE  Good(Stored)'
<1>1. Accepted(Stored)' = Accepted(d)
  BY DEF Accepted, Stored
<1>2. Stored' \in [lock : Lock, receipt : [Turn -> Status]]
  BY DEF Stored, Good, GoodLock
<1> QED BY <1>1, <1>2 DEF Good, GoodLock, Stored

(* Granting a turn's lease to a new turn. *)
LEMMA AdmitKeeps ==
  ASSUME LeaseAssumption, IInv, NEW r \in Runtime, NEW t \in Turn, NEW kind \in TurnKind,
         NEW id \in Lease, AdmitAccepted(r, t, kind, id)
  PROVE  IInv'
<1> DEFINE d == AdmissionRecovery(r)
           h == [turn |-> t, id |-> id]
<1>1. TypeOK /\ Good(Stored)
  BY GoodIsTyped DEF IInv
<1>2. Good(d) /\ Accepted(d) = {} /\ d.receipt[t] = "none"
  BY <1>1, AdmissionRecoveryGood DEF AdmitAccepted, Good, TurnKind
<1>3. lock' = Acquired(kind, id) /\ receipt' = [d.receipt EXCEPT ![t] = "accepted"]
  BY DEF AdmitAccepted, Commit
<1>4. held' = [held EXCEPT ![r] = @ \cup {h}] /\ pending' = [pending EXCEPT ![r] = NoHandle]
      /\ UNCHANGED <<session, proc, stuck, maint, gate, phase>>
  BY DEF AdmitAccepted
<1>5. GoodLock(lock') /\ lock'.kind = kind /\ lock'.id = id
  BY <1>3, LocksGood DEF LeaseKind, Acquired
<1>6. Accepted(Stored)' = {t} /\ receipt' \in [Turn -> Status]
  BY <1>2, <1>3 DEF Accepted, Stored, Good, Status
<1>7. Good(Stored)'
  <2>1. Stored' \in [lock : Lock, receipt : [Turn -> Status]]
    BY <1>5, <1>6 DEF Stored, GoodLock
  <2> QED BY <2>1, <1>5, <1>6 DEF Good, GoodLock, Stored
<1>8. h \in Handle
  BY DEF Handle
<1>9. MemoryOK'
  BY <1>4, <1>8 DEF IInv, MemoryOK
<1>10. \A s \in Runtime : Handles(s)' \subseteq Handles(s) \cup (IF s = r THEN {h} ELSE {})
  BY <1>4 DEF Handles, IInv, MemoryOK
<1>11. Home[id] = r /\ \A s \in Runtime : \A g \in Handles(s) : g.id # id
  BY DEF AdmitAccepted, Fresh, InUse, Handles
<1>12. receipt'[t] = "accepted"
  BY <1>2, <1>3 DEF Good
<1>13. Owned'
  BY <1>5, <1>10, <1>11, <1>12 DEF IInv, Owned
<1> QED BY <1>7, <1>9, <1>13 DEF IInv

(* The other steps of a turn. *)
LEMMA RefuseKeeps ==
  ASSUME LeaseAssumption, IInv, NEW r \in Runtime, AdmitRefused(r)
  PROVE  IInv'
<1>1. TypeOK /\ Good(Stored)
  BY GoodIsTyped DEF IInv
<1>2. PICK d : Good(d) /\ Recovered(Stored, d) /\ lock' = d.lock /\ receipt' = d.receipt
  BY <1>1, RefusedGood
<1>3. Good(Stored)'
  BY <1>2, CommitGood
<1>4. MemoryOK'
  BY DEF AdmitRefused, IInv, MemoryOK
<1>5. Owned'
  <2>1. \A s \in Runtime : Handles(s)' \subseteq Handles(s)
    BY DEF AdmitRefused, Handles, IInv, MemoryOK
  <2> QED BY <1>2, <2>1, RecoveredLease, OwnedKept DEF IInv
<1> QED BY <1>3, <1>4, <1>5 DEF IInv

\* A settlement of the own turn, late or not, keeps the invariant.
LEMMA SettleKeeps ==
  ASSUME LeaseAssumption, IInv, NEW r \in Runtime, NEW h \in held[r], Settle(r, h)
  PROVE  IInv'
<1>1. MemoryOK' /\ \A s \in Runtime : Handles(s)' \subseteq Handles(s)
  BY DEF Settle, Handles, IInv, MemoryOK
<1>2. CASE lock.id = h.id /\ receipt[h.turn] = "accepted"
  <2> DEFINE d == Ended(Stored, h.turn, "settled")
  <2>1. h.turn \in Accepted(Stored)
    BY <1>2 DEF IInv, MemoryOK, Handle, Accepted, Stored
  <2>2. Good(d) /\ Recovered(Stored, d) /\ lock' = d.lock /\ receipt' = d.receipt
    BY <1>2, <2>1, EndedGood DEF Settle, Commit, IInv
  <2>3. Good(Stored)'
    BY <2>2, CommitGood
  <2>4. Owned'
    BY <1>1, <2>2, RecoveredLease, OwnedKept DEF IInv
  <2> QED BY <1>1, <2>3, <2>4 DEF IInv
<1>3. CASE ~(lock.id = h.id /\ receipt[h.turn] = "accepted")
  <2>1. UNCHANGED <<lock, receipt>>
    BY <1>3 DEF Settle
  <2>2. Good(Stored)'
    BY <2>1, CommitGood, StoredFields DEF IInv
  <2>3. Owned'
    BY <1>1, <2>1, OwnedKept DEF IInv
  <2> QED BY <1>1, <2>2, <2>3 DEF IInv
<1> QED BY <1>2, <1>3

\* So does the revocation of an admission.
LEMMA RevokeKeeps ==
  ASSUME LeaseAssumption, IInv, NEW r \in Runtime, NEW h \in held[r], RevokeAdmission(r, h)
  PROVE  IInv'
<1>1. MemoryOK' /\ \A s \in Runtime : Handles(s)' \subseteq Handles(s)
  BY DEF RevokeAdmission, Handles, IInv, MemoryOK
<1>2. h.turn \in Turn /\ lock' = NoLock /\ receipt' = [receipt EXCEPT ![h.turn] = "none"]
  BY DEF RevokeAdmission, Commit, IInv, MemoryOK, Handle
<1>3. GoodLock(NoLock) /\ NoLock.kind = "none"
  BY LocksGood DEF NoLock
<1>4. receipt' \in [Turn -> Status] /\ Accepted(Stored)' = {}
  BY <1>2 DEF IInv, Good, RevokeAdmission, Accepted, Stored, Status
<1>5. Stored' \in [lock : Lock, receipt : [Turn -> Status]]
  BY <1>2, <1>3, <1>4 DEF Stored, GoodLock
<1>6. Good(Stored)'
  BY <1>2, <1>3, <1>4, <1>5, StoredFields DEF Good, GoodLock, TurnKind, Stored
<1>7. Owned'
  BY <1>1, <1>2, <1>3, OwnedKept DEF IInv, TurnKind
<1> QED BY <1>1, <1>6, <1>7 DEF IInv

(* Steps that leave the stored pair alone and start no execution. *)
LEMMA StoredSame ==
  ASSUME IInv, MemoryOK', UNCHANGED <<lock, receipt>>,
         \A s \in Runtime : Handles(s)' \subseteq Handles(s)
  PROVE  IInv'
<1>1. Good(Stored)'
  BY CommitGood, StoredFields DEF IInv
<1>2. Owned'
  BY OwnedKept DEF IInv
<1> QED BY <1>1, <1>2 DEF IInv

\* A settlement that throws changes only what the runtime remembers.
LEMMA SettleFailsKeeps ==
  ASSUME IInv, NEW r \in Runtime, NEW h \in held[r], SettleFails(r, h)
  PROVE  IInv'
<1>1. PICK left \in {{}, {h}} : stuck' = [stuck EXCEPT ![r] = @ \cup left]
  BY DEF SettleFails
<1>2. h \in Handle
  BY DEF IInv, MemoryOK
<1>3. MemoryOK'
  BY <1>1, <1>2 DEF SettleFails, durable, IInv, MemoryOK
<1>4. \A s \in Runtime : Handles(s)' \subseteq Handles(s)
  BY <1>1, <1>2 DEF SettleFails, Handles, IInv, MemoryOK
<1> QED BY <1>3, <1>4, StoredSame DEF SettleFails, durable

\* Every step of a turn keeps the invariant.
LEMMA TurnStepKeeps ==
  ASSUME LeaseAssumption, IInv, NEW r \in Runtime, TurnStep(r)
  PROVE  IInv'
<1>1. CASE \E t \in Turn, kind \in TurnKind, id \in Lease : AdmitAccepted(r, t, kind, id)
  BY <1>1, AdmitKeeps
<1>2. CASE AdmitRefused(r)
  BY <1>2, RefuseKeeps
<1>3. CASE \E h \in held[r] : Settle(r, h) \/ SettleFails(r, h) \/ RevokeAdmission(r, h)
  BY <1>3, SettleKeeps, SettleFailsKeeps, RevokeKeeps
<1> QED BY <1>1, <1>2, <1>3 DEF TurnStep

(* Processes: a crash only forgets; a deadline is not the lock's owner. *)
LEMMA ProcessKeeps ==
  ASSUME IInv, NEW r \in Runtime, Start(r) \/ Crash(r)
  PROVE  IInv'
<1>1. CASE Start(r)
  <2>1. MemoryOK' /\ \A s \in Runtime : Handles(s)' \subseteq Handles(s)
    BY <1>1 DEF Start, durable, memory, IInv, MemoryOK, Handles
  <2> QED BY <1>1, <2>1, StoredSame DEF Start, durable
<1>2. CASE Crash(r)
  <2>1. MemoryOK'
    BY <1>2 DEF Crash, durable, IInv, MemoryOK, Phase
  <2>2. \A s \in Runtime : Handles(s)' \subseteq Handles(s)
    BY <1>2 DEF Crash, IInv, MemoryOK, Handles
  <2> QED BY <1>2, <2>1, <2>2, StoredSame DEF Crash, durable
<1> QED BY <1>1, <1>2

\* Renewing a lease and the passing of its deadline keep the invariant.
LEMMA DeadlineKeeps ==
  ASSUME LeaseAssumption, IInv, Expire \/ \E r \in Runtime : RenewLost(r)
  PROVE  IInv'
<1>1. lock'.kind = lock.kind /\ lock'.id = lock.id
      /\ UNCHANGED <<receipt, session, proc, memory>> /\ GoodLock(lock')
  BY DEF Expire, RenewLost, IInv, Good, GoodLock, Stored, Lock, NoLock
<1>2. MemoryOK' /\ \A s \in Runtime : Handles(s)' \subseteq Handles(s)
  BY <1>1 DEF memory, IInv, MemoryOK, Handles
<1>3. Good(Stored)'
  BY <1>1, LockKept, StoredFields DEF IInv
<1>4. Owned'
  BY <1>1, <1>2, OwnedKept DEF IInv
<1> QED BY <1>2, <1>3, <1>4 DEF IInv

\* Taking and giving back a maintenance lock keep it.
LEMMA MaintenanceKeeps ==
  ASSUME LeaseAssumption, IInv, NEW r \in Runtime, MaintenanceStep(r)
  PROVE  IInv'
<1>1. PICK id \in Lease : AcquireMaintenance(r, id) \/ ReleaseMaintenance(r, id)
  BY DEF MaintenanceStep
<1>2. MemoryOK' /\ \A s \in Runtime : Handles(s)' \subseteq Handles(s)
  BY <1>1 DEF AcquireMaintenance, ReleaseMaintenance, Commit, IInv, MemoryOK, Handles
<1>3. CASE AcquireMaintenance(r, id)
  <2> DEFINE d == AfterExpiry(Stored)
  <2>1. Good(d) /\ Accepted(d) = {}
    BY <1>3, AfterExpiryGood DEF AcquireMaintenance, IInv, Good, TurnKind
  <2>2. lock' = Acquired("maintenance", id) /\ receipt' = d.receipt
    BY <1>3, <2>1 DEF AcquireMaintenance, Commit, Good
  <2>3. GoodLock(lock') /\ lock'.kind \notin TurnKind
    BY <2>2, LocksGood DEF LeaseKind, Acquired, TurnKind
  <2>4. Good(Stored)'
    BY <2>1, <2>2, <2>3, LockReplaced
  <2>5. Owned'
    BY <1>2, <2>3, OwnedKept DEF IInv
  <2> QED BY <1>2, <2>4, <2>5 DEF IInv
<1>4. CASE ReleaseMaintenance(r, id)
  <2>1. CASE lock.id # id \/ lock.kind # "maintenance"
    BY <1>2, <1>4, <2>1, StoredSame DEF ReleaseMaintenance
  <2>2. CASE ~(lock.id # id \/ lock.kind # "maintenance")
    <3>1. lock' \in {Fence(id), NoLock} /\ receipt' = receipt /\ Accepted(Stored) = {}
      BY <1>4, <2>2 DEF ReleaseMaintenance, IInv, Good, Stored, TurnKind
    <3>2. GoodLock(lock') /\ lock'.kind \notin TurnKind
      BY <3>1, LocksGood, LockKinds
    <3>3. Good(Stored)'
      BY <3>1, <3>2, LockReplaced, StoredFields DEF IInv
    <3>4. Owned'
      BY <1>2, <3>2, OwnedKept DEF IInv
    <3> QED BY <1>2, <3>3, <3>4 DEF IInv
  <2> QED BY <2>1, <2>2
<1> QED BY <1>1, <1>3, <1>4

(* The steps of a deletion that leave the stored pair alone. *)
LEMMA QuietDeletionKeeps ==
  ASSUME IInv, NEW r \in Runtime,
         StartDeletion(r) \/ RequireQuiescent(r) \/ Cleanup(r) \/ AbandonDeletion(r)
  PROVE  IInv'
<1>1. UNCHANGED <<lock, receipt, proc, held, stuck, pending, maint>>
  BY DEF StartDeletion, RequireQuiescent, Cleanup, AbandonDeletion, durable
<1>2. \E p \in Phase : phase' = [phase EXCEPT ![r] = p]
  BY DEF StartDeletion, RequireQuiescent, Cleanup, AbandonDeletion, Advance, Phase
<1>3. gate' \subseteq Runtime /\ session' \in BOOLEAN
  BY DEF StartDeletion, RequireQuiescent, Cleanup, AbandonDeletion, durable, IInv, MemoryOK
<1>4. MemoryOK'
  BY <1>1, <1>2, <1>3 DEF IInv, MemoryOK
<1>5. \A s \in Runtime : Handles(s)' \subseteq Handles(s)
  BY <1>1 DEF Handles
<1> QED BY <1>1, <1>4, <1>5, StoredSame

\* Marking the lock for deletion keeps it, whatever the lock was.
LEMMA BeginDeletionKeeps ==
  ASSUME LeaseAssumption, IInv, NEW r \in Runtime, BeginDeletion(r)
  PROVE  IInv'
<1> DEFINE c == AfterPending(Stored, pending[r])
           d == AfterDeletionExpiry(c)
<1>1. TypeOK /\ Good(Stored)
  BY GoodIsTyped DEF IInv
<1>2. Good(d) /\ Recovered(Stored, d)
  BY <1>1, DeletionRecoveryGood DEF BeginDeletion
<1>3. MemoryOK' /\ \A s \in Runtime : Handles(s)' \subseteq Handles(s)
  BY DEF BeginDeletion, Advance, Phase, IInv, MemoryOK, Handles
<1>4. CASE (d.lock.kind = "none" \/ (d.lock.kind = "session-deletion" /\ ~Alive(d.lock.id)))
           /\ \E id \in Fresh(r) : Commit([d EXCEPT !.lock = Fence(id)])
  <2>1. PICK id \in Lease : lock' = Fence(id) /\ receipt' = d.receipt
    BY <1>2, <1>4 DEF Commit, Fresh, Good
  <2>2. GoodLock(lock') /\ lock'.kind \notin TurnKind /\ Accepted(d) = {}
    BY <1>2, <1>4, <2>1, LocksGood DEF Fence, TurnKind, Good
  <2>3. Good(Stored)'
    BY <1>2, <2>1, <2>2, LockReplaced
  <2> QED BY <1>3, <2>2, <2>3, OwnedKept DEF IInv
<1>5. CASE Commit(d)
  <2>1. lock' = d.lock /\ receipt' = d.receipt
    BY <1>5 DEF Commit
  <2>2. Good(Stored)'
    BY <1>2, <2>1, CommitGood
  <2>3. Owned'
    BY <1>2, <1>3, <2>1, RecoveredLease, OwnedKept DEF IInv
  <2> QED BY <1>3, <2>2, <2>3 DEF IInv
<1>6. CASE d.lock.kind \in LeaseKind /\ Commit([d EXCEPT !.lock.deleting = TRUE])
  <2>1. lock' = [d.lock EXCEPT !.deleting = TRUE] /\ receipt' = d.receipt
    BY <1>2, <1>6 DEF Commit, Good
  <2>2. GoodLock(lock') /\ lock'.kind = d.lock.kind /\ lock'.id = d.lock.id
    BY <1>2, <1>6, <2>1 DEF Good, GoodLock, Lock, LeaseKind, TurnKind
  <2>3. Good(Stored)'
    BY <1>2, <2>1, <2>2, LockKept
  <2>4. d = Stored \/ d.lock.kind \in {"none", "session-deletion"}
    BY <1>2 DEF Recovered
  <2>5. d = Stored
    BY <1>6, <2>4 DEF LeaseKind, TurnKind
  <2>6. Owned'
    BY <1>3, <2>1, <2>2, <2>5, StoredFields, OwnedKept DEF IInv
  <2> QED BY <1>3, <2>3, <2>6 DEF IInv
<1> QED BY <1>4, <1>5, <1>6 DEF BeginDeletion

\* The erase and the release of the deletion lock keep it.
LEMMA EraseKeeps ==
  ASSUME LeaseAssumption, IInv, NEW r \in Runtime, DeleteTurnData(r) \/ CompleteDeletion(r)
  PROVE  IInv'
<1>1. MemoryOK' /\ \A s \in Runtime : Handles(s)' \subseteq Handles(s)
  BY DEF DeleteTurnData, CompleteDeletion, Advance, Phase, IInv, MemoryOK, Handles
<1>2. lock.kind \notin TurnKind /\ Accepted(Stored) = {}
  BY DEF DeleteTurnData, CompleteDeletion, TurnKind, IInv, Good, Stored
<1>3. lock' \in {lock, NoLock} /\ GoodLock(lock) /\ receipt' \in {receipt, [t \in Turn |-> "none"]}
  BY StoredFields DEF DeleteTurnData, CompleteDeletion, IInv, Good
<1>4. GoodLock(lock') /\ lock'.kind \notin TurnKind
  BY <1>2, <1>3, LocksGood, LockKinds
<1>5. receipt' \in [Turn -> Status] /\ Accepted(Stored)' = {}
  BY <1>2, <1>3 DEF IInv, Good, Stored, Accepted, Status
<1>6. Stored' \in [lock : Lock, receipt : [Turn -> Status]]
  BY <1>4, <1>5 DEF Stored, GoodLock
<1>7. Good(Stored)'
  BY <1>4, <1>5, <1>6 DEF Good, GoodLock, Stored
<1> QED BY <1>1, <1>4, <1>7, OwnedKept DEF IInv

\* The recovery of a restarted process keeps it.
LEMMA RestartKeeps ==
  ASSUME LeaseAssumption, IInv, NEW r \in Runtime, RecoverProcessRestart(r)
  PROVE  IInv'
<1>1. MemoryOK' /\ \A s \in Runtime : Handles(s)' \subseteq Handles(s)
  BY DEF RecoverProcessRestart, memory, IInv, MemoryOK, Handles
<1>2. CASE lock.kind \in TurnKind /\ Commit(Released(Stored))
  <2>1. Good(Stored)' /\ lock'.kind = "none"
    BY <1>2, ReleasedGood, CommitGood DEF Commit, IInv, NoLock
  <2> QED BY <1>1, <2>1, OwnedKept DEF IInv, TurnKind
<1>3. CASE lock.kind \in {"session-deletion", "maintenance"} /\ UNCHANGED receipt
           /\ (lock' = NoLock \/ \E id \in Fresh(r) : lock' = Fence(id))
  <2>1. GoodLock(lock') /\ lock'.kind \notin TurnKind
    BY <1>3, LocksGood, LockKinds DEF Fresh
  <2>2. Accepted(Stored) = {}
    BY <1>3 DEF IInv, Good, Stored, TurnKind
  <2>3. Good(Stored)'
    BY <1>3, <2>1, <2>2, LockReplaced, StoredFields DEF IInv
  <2> QED BY <1>1, <2>1, <2>3, OwnedKept DEF IInv
<1> QED BY <1>2, <1>3 DEF RecoverProcessRestart

\* Every step keeps the invariant.
LEMMA NextIInv == LeaseAssumption /\ IInv /\ [Next]_vars => IInv'
<1> SUFFICES ASSUME LeaseAssumption, IInv, [Next]_vars PROVE IInv'
  OBVIOUS
<1>1. CASE Expire
  BY <1>1, DeadlineKeeps
<1>2. ASSUME NEW r \in Runtime, Start(r) \/ Crash(r)
      PROVE  IInv'
  BY <1>2, ProcessKeeps
<1>3. ASSUME NEW r \in Runtime, RenewLost(r) \/ RecoverProcessRestart(r)
      PROVE  IInv'
  BY <1>3, DeadlineKeeps, RestartKeeps
<1>4. ASSUME NEW r \in Runtime, TurnStep(r) \/ MaintenanceStep(r)
      PROVE  IInv'
  BY <1>4, TurnStepKeeps, MaintenanceKeeps
<1>5. ASSUME NEW r \in Runtime, DeletionStep(r)
      PROVE  IInv'
  BY <1>5, QuietDeletionKeeps, BeginDeletionKeeps, EraseKeeps DEF DeletionStep
<1>6. CASE UNCHANGED vars
  <2>1. UNCHANGED <<lock, receipt>> /\ MemoryOK' /\ \A s \in Runtime : Handles(s)' \subseteq Handles(s)
    BY <1>6 DEF vars, durable, memory, IInv, MemoryOK, Handles
  <2> QED BY <2>1, StoredSame
<1> QED BY <1>1, <1>2, <1>3, <1>4, <1>5, <1>6 DEF Next

-----------------------------------------------------------------------------
(* What follows in every state *)

(* The inductive invariant holds: the stored lock and receipts go together *)
(* and each runtime's executions are its own.                              *)
THEOREM Invariant == Spec => []IInv
<1>1. Init => IInv
  BY InitIInv, LeaseAssumption
<1>2. IInv /\ [Next]_vars => IInv'
  BY NextIInv, LeaseAssumption
<1> QED BY <1>1, <1>2, PTL DEF Spec

(* The variables keep their types, whatever turn.repository.ts and the     *)
(* recoveries commit.                                                      *)
THEOREM TypeCorrect == Spec => []TypeOK
<1>1. IInv => TypeOK
  BY GoodIsTyped
<1> QED BY <1>1, Invariant, PTL

(* There is an accepted turn exactly while a turn's lease holds the        *)
(* session, and never two, for any number of runtimes that start, crash,   *)
(* admit, settle, recover and delete.                                      *)
THEOREM LeaseAndTurnAgree == Spec => []AcceptedHoldsTheLock
<1>1. IInv => AcceptedHoldsTheLock
  BY GoodIsTyped DEF IInv
<1> QED BY <1>1, Invariant, PTL

(* Whoever has the id of the turn's lease is the accepted turn's own       *)
(* execution, so settle's check of the owner id settles the right turn.    *)
THEOREM OwnerIsTheTurn == Spec => []OwnerRunsTheAcceptedTurn
<1>1. IInv => OwnerRunsTheAcceptedTurn
  <2> SUFFICES ASSUME IInv, lock.kind \in TurnKind, NEW r \in Runtime, NEW s \in Runtime,
                      NEW h \in held[r] \cup stuck[r], NEW g \in held[s] \cup stuck[s],
                      h.id = lock.id, g.id = lock.id
               PROVE  h = g /\ receipt[h.turn] = "accepted"
    BY DEF OwnerRunsTheAcceptedTurn
  <2>1. h \in Handles(r) /\ g \in Handles(s)
    BY DEF Handles
  <2>2. r = s
    BY <2>1 DEF IInv, Owned
  <2> QED BY <2>1, <2>2 DEF IInv, Owned
<1> QED BY <1>1, Invariant, PTL

-----------------------------------------------------------------------------
(* What a step may do to the receipts *)

(* A receipt that is not accepted is left alone, but for an admission,     *)
(* which needs the session, takes a turn that has no receipt and gets the  *)
(* lock, and for the deletion of the turn data.                            *)
LEMMA ReceiptStep ==
  ASSUME IInv, [Next]_vars, NEW t \in Turn, receipt[t] # "accepted", receipt'[t] # receipt[t]
  PROVE  \/ receipt[t] = "none" /\ session /\ lock'.kind \in TurnKind
         \/ lock.kind = "session-deletion" /\ receipt'[t] = "none"
<1> DEFINE Goal == \/ receipt[t] = "none" /\ session /\ lock'.kind \in TurnKind
                   \/ lock.kind = "session-deletion" /\ receipt'[t] = "none"
<1>1. TypeOK /\ Good(Stored)
  BY GoodIsTyped DEF IInv
<1>2. ASSUME NEW d, Recovered(Stored, d), receipt' = d.receipt
      PROVE  FALSE
  BY <1>2, StoredFields DEF Recovered
<1>3. ASSUME NEW r \in Runtime, TurnStep(r)
      PROVE  Goal
  <2>1. ASSUME NEW u \in Turn, NEW kind \in TurnKind, NEW id \in Lease, AdmitAccepted(r, u, kind, id)
        PROVE  Goal
    <3> DEFINE d == AdmissionRecovery(r)
    <3>1. Good(d) /\ Recovered(Stored, d) /\ session
      BY <1>1, <2>1, AdmissionRecoveryGood, LeaseAssumption DEF AdmitAccepted, Admitting
    <3>2. receipt' = [d.receipt EXCEPT ![u] = "accepted"] /\ d.receipt[u] = "none"
          /\ lock'.kind \in TurnKind
      BY <2>1 DEF AdmitAccepted, Commit, Acquired
    <3>3. d.receipt[t] = receipt[t]
      BY <3>1, StoredFields DEF Recovered
    <3>4. t = u
      BY <3>1, <3>2, <3>3 DEF Good
    <3> QED BY <3>1, <3>2, <3>3, <3>4
  <2>2. ASSUME AdmitRefused(r)
        PROVE  Goal
    BY <1>1, <1>2, <2>2, RefusedGood, LeaseAssumption
  <2>3. ASSUME NEW h \in held[r], Settle(r, h) \/ SettleFails(r, h) \/ RevokeAdmission(r, h)
        PROVE  Goal
    <3>1. h.turn \in Turn
      BY DEF IInv, MemoryOK, Handle
    <3>2. \/ receipt' = receipt
          \/ \E x : receipt' = [receipt EXCEPT ![h.turn] = x] /\ receipt[h.turn] = "accepted"
      BY <2>3, StoredFields DEF Settle, SettleFails, RevokeAdmission, Commit, Ended, durable
    <3> QED BY <1>1, <3>1, <3>2 DEF TypeOK
  <2> QED BY <1>3, <2>1, <2>2, <2>3 DEF TurnStep
<1>4. ASSUME NEW r \in Runtime, MaintenanceStep(r)
      PROVE  Goal
  <2>1. PICK id \in Lease : AcquireMaintenance(r, id) \/ ReleaseMaintenance(r, id)
    BY <1>4 DEF MaintenanceStep
  <2>2. Recovered(Stored, AfterExpiry(Stored))
    BY <1>1, AfterExpiryGood, LeaseAssumption
  <2>3. receipt' = receipt \/ receipt' = AfterExpiry(Stored).receipt
    BY <2>1 DEF AcquireMaintenance, ReleaseMaintenance, Commit, AfterExpiry, Released, Stored
  <2> QED BY <1>2, <2>2, <2>3
<1>5. ASSUME NEW r \in Runtime, BeginDeletion(r)
      PROVE  Goal
  <2> DEFINE d == AfterDeletionExpiry(AfterPending(Stored, pending[r]))
  <2>1. Good(d) /\ Recovered(Stored, d)
    BY <1>1, <1>5, DeletionRecoveryGood, LeaseAssumption DEF BeginDeletion
  <2>2. receipt' = d.receipt
    BY <1>5, <2>1 DEF BeginDeletion, Commit, Good
  <2> QED BY <1>2, <2>1, <2>2
<1>6. ASSUME NEW r \in Runtime, DeleteTurnData(r)
      PROVE  Goal
  BY <1>6 DEF DeleteTurnData
<1>7. ASSUME NEW r \in Runtime,
             StartDeletion(r) \/ RequireQuiescent(r) \/ Cleanup(r) \/ CompleteDeletion(r) \/ AbandonDeletion(r)
      PROVE  FALSE
  BY <1>7 DEF StartDeletion, RequireQuiescent, Cleanup, CompleteDeletion, AbandonDeletion, durable
<1>8. ASSUME NEW r \in Runtime, RecoverProcessRestart(r)
      PROVE  FALSE
  <2>1. receipt' = receipt \/ receipt' = Released(Stored).receipt
    BY <1>8 DEF RecoverProcessRestart, Commit
  <2> QED BY <1>1, <2>1, ReleasedGood, LeaseAssumption, StoredFields
<1>9. ASSUME Expire \/ UNCHANGED vars \/ \E r \in Runtime : Start(r) \/ Crash(r) \/ RenewLost(r)
      PROVE  FALSE
  BY <1>9 DEF Expire, vars, Start, Crash, RenewLost, durable
<1> QED BY <1>3, <1>4, <1>5, <1>6, <1>7, <1>8, <1>9 DEF Next, DeletionStep

(* A turn ends once: no stale owner, recovery or admission changes the     *)
(* receipt of a turn that ended; a deletion alone removes it.              *)
THEOREM EndedOnce == Spec => TerminalIsFinal
<1>1. IInv /\ [Next]_vars =>
        [\A t \in Turn : receipt[t] \in {"settled", "failed"} =>
           \/ receipt'[t] = receipt[t]
           \/ receipt'[t] = "none" /\ lock.kind = "session-deletion"]_vars
  BY ReceiptStep
<1> QED BY <1>1, Invariant, PTL DEF Spec, TerminalIsFinal

-----------------------------------------------------------------------------
(* A live lease *)

(* A turn of a live runtime whose lease has not run out is ended only by a *)
(* step of that runtime: the recoveries of others leave it alone, and a    *)
(* deletion only marks its lock.                                           *)
THEOREM LiveTurnKept == Spec => LiveLeaseIsSafe
<1> DEFINE Safe == lock.kind \in TurnKind /\ Alive(lock.id) /\ lock.expiry = "valid" =>
                     \/ lock'.id = lock.id /\ Accepted(Stored)' = Accepted(Stored)
                     \/ held'[Home[lock.id]] # held[Home[lock.id]]
                     \/ pending'[Home[lock.id]] # pending[Home[lock.id]]
<1>1. ASSUME IInv, [Next]_vars
      PROVE  Safe
  <2> SUFFICES ASSUME lock.kind \in TurnKind, Alive(lock.id), lock.expiry = "valid",
                      lock'.id # lock.id \/ receipt' # receipt,
                      held'[Home[lock.id]] = held[Home[lock.id]],
                      pending'[Home[lock.id]] = pending[Home[lock.id]]
               PROVE  FALSE
    BY DEF Accepted, Stored
  <2>1. TypeOK /\ Good(Stored)
    BY <1>1, GoodIsTyped DEF IInv
  <2>2. ASSUME NEW r \in Runtime, pending[r] # NoHandle, pending[r].id = lock.id,
               pending' = [pending EXCEPT ![r] = NoHandle]
        PROVE  FALSE
    <3>1. pending[r] \in Handles(r)
      BY <2>2 DEF Handles
    <3>2. Home[lock.id] = r
      BY <1>1, <2>2, <3>1 DEF IInv, Owned
    <3> QED BY <2>1, <2>2, <3>2 DEF TypeOK
  <2>3. ASSUME NEW r \in Runtime, AdmitRefused(r) \/ \E t \in Turn, kind \in TurnKind, id \in Lease :
                                                       AdmitAccepted(r, t, kind, id)
        PROVE  FALSE
    <3>1. pending' = [pending EXCEPT ![r] = NoHandle]
      BY <2>3 DEF AdmitRefused, AdmitAccepted
    <3>2. AdmissionRecovery(r) = Stored
      BY <2>1, <2>2, <3>1, AdmissionRecoveryGood, LeaseAssumption
    <3>3. AdmissionRecovery(r).lock.kind # "none"
      BY <3>2, StoredFields DEF TurnKind
    <3>4. AdmitRefused(r)
      BY <2>3, <3>3 DEF AdmitAccepted
    <3> QED BY <3>2, <3>4, StoredFields DEF AdmitRefused, Commit
  <2>4. ASSUME NEW r \in Runtime, NEW h \in held[r], Settle(r, h) \/ SettleFails(r, h) \/ RevokeAdmission(r, h)
        PROVE  FALSE
    <3>1. h.id = lock.id /\ held' = [held EXCEPT ![r] = @ \ {h}]
      BY <2>4 DEF Settle, SettleFails, RevokeAdmission, durable
    <3>2. Home[lock.id] = r
      BY <1>1, <2>4, <3>1 DEF IInv, Owned, Handles
    <3> QED BY <2>1, <2>4, <3>1, <3>2 DEF TypeOK
  <2>5. ASSUME NEW r \in Runtime, MaintenanceStep(r)
        PROVE  FALSE
    BY <2>5, StoredFields DEF MaintenanceStep, AcquireMaintenance, ReleaseMaintenance, AfterExpiry, TurnKind
  <2>6. ASSUME NEW r \in Runtime, BeginDeletion(r)
        PROVE  FALSE
    <3> DEFINE d == AfterDeletionExpiry(AfterPending(Stored, pending[r]))
    <3>1. pending' = [pending EXCEPT ![r] = NoHandle]
      BY <2>6 DEF BeginDeletion
    <3>2. d = Stored
      <4>1. NeedsTurn(AfterPending(Stored, pending[r])) => Accepted(AfterPending(Stored, pending[r])) # {}
        BY <2>6 DEF BeginDeletion
      <4>2. lock.expiry # "expired" /\ d # Stored => pending[r] # NoHandle /\ pending[r].id = lock.id
        BY <2>1, <4>1, DeletionRecoveryGood, LeaseAssumption
      <4> QED BY <2>2, <3>1, <4>2
    <3>3. Commit([d EXCEPT !.lock.deleting = TRUE])
      BY <2>6, <3>2, StoredFields DEF BeginDeletion, TurnKind
    <3>4. lock' = [lock EXCEPT !.deleting = TRUE] /\ receipt' = receipt
      <4>1. Commit([Stored EXCEPT !.lock.deleting = TRUE])
        BY <3>2, <3>3
      <4> QED BY <4>1 DEF Commit, Stored
    <3>5. lock \in Lock
      BY <2>1 DEF TypeOK, LockOK
    <3> QED BY <3>4, <3>5 DEF Lock
  <2>7. ASSUME NEW r \in Runtime, DeletionStep(r)
        PROVE  FALSE
    BY <2>6, <2>7 DEF DeletionStep, StartDeletion, RequireQuiescent, DeleteTurnData, Cleanup,
                      CompleteDeletion, AbandonDeletion, durable, TurnKind
  <2>8. ASSUME Expire \/ UNCHANGED vars
               \/ \E r \in Runtime : Start(r) \/ Crash(r) \/ RenewLost(r) \/ RecoverProcessRestart(r)
        PROVE  FALSE
    BY <2>1, <2>8 DEF Expire, vars, Start, Crash, RenewLost, RecoverProcessRestart, durable, TypeOK, LockOK, Lock
  <2> QED BY <1>1, <2>3, <2>4, <2>5, <2>7, <2>8 DEF Next, TurnStep
<1>2. IInv /\ [Next]_vars => [Safe]_vars
  BY <1>1
<1> QED BY <1>2, Invariant, PTL DEF Spec, LiveLeaseIsSafe

-----------------------------------------------------------------------------
(* Deletion *)

ReceiptsGone == \A t \in Turn : receipt[t] = "none"

(* A runtime is through with the erase only when the session's row is gone. *)
CleanedInv == \A r \in Runtime : phase[r] = "cleaned" => ~session

(* From the time a runtime finds the session quiescent the fence is up     *)
(* until the session is gone, and the turn data stays erased: as long as   *)
(* no deletion was undercut.                                               *)
DeletionInv ==
  ~undercut =>
    /\ ~session => ReceiptsGone
    /\ \A r \in Runtime :
         /\ phase[r] \in {"quiescent", "erased", "cleaned"} =>
              lock.kind = "session-deletion" \/ ~session
         /\ phase[r] = "erased" => ReceiptsGone

(* A fence stays up until completeSessionDeletion takes it down, or its    *)
(* deadline, which it has from a late renewal alone, has passed.           *)
LEMMA FenceStep ==
  ASSUME IInv, [Next]_vars, lock.kind = "session-deletion", lock.expiry # "expired",
         lock'.kind # "session-deletion"
  PROVE  \E r \in Runtime : CompleteDeletion(r)
<1>1. TypeOK /\ Good(Stored) /\ Accepted(Stored) = {}
  BY GoodIsTyped DEF IInv, Good, Stored, TurnKind
<1>2. ASSUME NEW d, Recovered(Stored, d)
      PROVE  d.lock = lock
  BY <1>2, StoredFields DEF Recovered
<1>3. ASSUME NEW r \in Runtime, TurnStep(r)
      PROVE  FALSE
  <2>1. AdmissionRecovery(r).lock = lock
    BY <1>1, <1>2, AdmissionRecoveryGood, LeaseAssumption
  <2>2. ASSUME NEW h \in held[r], Settle(r, h) \/ SettleFails(r, h) \/ RevokeAdmission(r, h)
        PROVE  FALSE
    <3>1. h.turn \in Accepted(Stored)
      BY <2>2 DEF Settle, SettleFails, RevokeAdmission, durable, IInv, MemoryOK, Handle, Accepted, Stored
    <3> QED BY <1>1, <3>1
  <2> QED BY <1>3, <2>1, <2>2 DEF TurnStep, AdmitAccepted, AdmitRefused, Commit
<1>4. ASSUME NEW r \in Runtime, MaintenanceStep(r)
      PROVE  FALSE
  BY <1>4, StoredFields DEF MaintenanceStep, AcquireMaintenance, ReleaseMaintenance, AfterExpiry
<1>5. ASSUME NEW r \in Runtime, BeginDeletion(r)
      PROVE  FALSE
  <2> DEFINE d == AfterDeletionExpiry(AfterPending(Stored, pending[r]))
  <2>1. Good(d) /\ d.lock = lock
    BY <1>1, <1>2, <1>5, DeletionRecoveryGood, LeaseAssumption DEF BeginDeletion
  <2> QED BY <1>5, <2>1, LockKinds DEF BeginDeletion, Commit, Good, LeaseKind, TurnKind
<1>6. ASSUME NEW r \in Runtime,
             StartDeletion(r) \/ RequireQuiescent(r) \/ DeleteTurnData(r) \/ Cleanup(r) \/ AbandonDeletion(r)
      PROVE  FALSE
  BY <1>6 DEF StartDeletion, RequireQuiescent, DeleteTurnData, Cleanup, AbandonDeletion, durable
<1>7. ASSUME NEW r \in Runtime, RecoverProcessRestart(r)
      PROVE  FALSE
  BY <1>7, LockKinds DEF RecoverProcessRestart, TurnKind
<1>8. ASSUME Expire \/ UNCHANGED vars \/ \E r \in Runtime : Start(r) \/ Crash(r) \/ RenewLost(r)
      PROVE  FALSE
  BY <1>1, <1>8 DEF Expire, vars, Start, Crash, RenewLost, durable, TypeOK, LockOK, Lock
<1> QED BY <1>3, <1>4, <1>5, <1>6, <1>7, <1>8 DEF Next, DeletionStep

(* How a deletion advances, and what it found when it did. *)
LEMMA PhaseStep ==
  ASSUME TypeOK, [Next]_vars, NEW r \in Runtime, phase'[r] # phase[r]
  PROVE  \/ phase'[r] \in {"idle", "gated", "begun"}
         \/ phase'[r] = "quiescent" /\ lock'.kind = "session-deletion"
         \/ phase'[r] = "erased" /\ phase[r] = "quiescent" /\ ReceiptsGone'
         \/ phase'[r] = "cleaned" /\ ~session'
<1>1. PICK s \in Runtime : DeletionStep(s) \/ Crash(s)
  BY DEF Next, vars, memory, Expire, Start, RenewLost, RecoverProcessRestart, TurnStep, AdmitAccepted,
         AdmitRefused, Settle, SettleFails, RevokeAdmission, MaintenanceStep, AcquireMaintenance,
         ReleaseMaintenance
<1>2. CASE Crash(s)
  BY <1>2 DEF Crash, TypeOK
<1>3. CASE StartDeletion(s) \/ BeginDeletion(s) \/ CompleteDeletion(s) \/ AbandonDeletion(s)
  BY <1>3 DEF StartDeletion, BeginDeletion, CompleteDeletion, AbandonDeletion, Advance, TypeOK, durable
<1>4. CASE RequireQuiescent(s) \/ DeleteTurnData(s) \/ Cleanup(s)
  BY <1>4 DEF RequireQuiescent, DeleteTurnData, Cleanup, Advance, TypeOK, durable, ReceiptsGone
<1> QED BY <1>1, <1>2, <1>3, <1>4 DEF DeletionStep

(* The session's row goes with the cleanup, and does not come back. *)
LEMMA SessionStep ==
  ASSUME [Next]_vars, session' # session
  PROVE  ~session' /\ \E r \in Runtime : phase[r] = "erased" /\ receipt' = receipt
<1>1. PICK s \in Runtime : TurnStep(s) \/ MaintenanceStep(s) \/ DeletionStep(s)
  BY DEF Next, vars, durable, Expire, Start, Crash, RenewLost, RecoverProcessRestart
<1>2. ~TurnStep(s)
  BY DEF TurnStep, AdmitAccepted, AdmitRefused, Settle, SettleFails, RevokeAdmission, durable
<1>3. ~MaintenanceStep(s)
  BY DEF MaintenanceStep, AcquireMaintenance, ReleaseMaintenance
<1>4. Cleanup(s)
  BY <1>1, <1>2, <1>3 DEF DeletionStep, StartDeletion, BeginDeletion, RequireQuiescent,
     DeleteTurnData, CompleteDeletion, AbandonDeletion, durable
<1> QED BY <1>4 DEF Cleanup, Advance

\* A step of a deletion that nobody undercuts keeps what it relies on.
LEMMA DeletionStepKeeps ==
  ASSUME IInv, CleanedInv, DeletionInv, [DeletionNext]_DeletionVars
  PROVE  DeletionInv'
<1> SUFFICES ASSUME ~undercut'
             PROVE  /\ ~session' => ReceiptsGone'
                    /\ \A r \in Runtime :
                         /\ phase'[r] \in {"quiescent", "erased", "cleaned"} =>
                              lock'.kind = "session-deletion" \/ ~session'
                         /\ phase'[r] = "erased" => ReceiptsGone'
  BY DEF DeletionInv
<1>1. TypeOK /\ Good(Stored) /\ [Next]_vars /\ ~undercut
  <2>1. TypeOK /\ Good(Stored)
    BY GoodIsTyped DEF IInv
  <2>2. CASE DeletionNext
    <3>1. Next /\ undercut' = (undercut \/ FenceTaken)
      BY <2>2 DEF DeletionNext
    <3>2. ~undercut
      BY <3>1, Zenon
    <3> QED BY <2>1, <3>1, <3>2
  <2>3. CASE UNCHANGED DeletionVars
    BY <2>1, <2>3 DEF DeletionVars
  <2> QED BY <2>2, <2>3
<1>2. CASE UNCHANGED vars
  BY <1>1, <1>2 DEF DeletionInv, ReceiptsGone, vars, durable, memory
<1>3. CASE ~UNCHANGED vars
  <2>1. lock.kind = "session-deletion" =>
          lock'.kind = "session-deletion" \/ \E r \in Runtime : CompleteDeletion(r)
    BY <1>1, <1>3, FenceStep DEF DeletionNext, DeletionVars, FenceTaken
  <2>2. ASSUME ReceiptsGone, ~session \/ lock.kind = "session-deletion"
        PROVE  ReceiptsGone'
    <3> SUFFICES ASSUME NEW t \in Turn, receipt'[t] # "none" PROVE FALSE
      BY DEF ReceiptsGone
    <3>1. receipt[t] = "none"
      BY <2>2 DEF ReceiptsGone
    <3>2. session /\ lock'.kind \in TurnKind
      BY <1>1, <3>1, ReceiptStep
    <3> QED BY <2>1, <2>2, <3>1, <3>2 DEF CompleteDeletion, TurnKind
  <2>3. ~session' => ReceiptsGone'
    BY <1>1, <2>2, SessionStep DEF DeletionInv, ReceiptsGone
  <2>4. ~session => ~session'
    BY <1>1, SessionStep DEF TypeOK
  <2>5. ASSUME lock.kind = "session-deletion" \/ ~session
        PROVE  lock'.kind = "session-deletion" \/ ~session'
    BY <2>1, <2>4, <2>5 DEF CompleteDeletion, Advance, CleanedInv
  <2>6. ASSUME NEW r \in Runtime
        PROVE  /\ phase'[r] \in {"quiescent", "erased", "cleaned"} =>
                    lock'.kind = "session-deletion" \/ ~session'
               /\ phase'[r] = "erased" => ReceiptsGone'
    <3>1. CASE phase'[r] = phase[r]
      BY <1>1, <2>2, <2>5, <3>1 DEF DeletionInv
    <3>2. CASE phase'[r] # phase[r]
      BY <1>1, <2>5, <3>2, PhaseStep DEF DeletionInv
    <3> QED BY <3>1, <3>2
  <2> QED BY <2>3, <2>6
<1> QED BY <1>2, <1>3

(* The cleanup removes the session's row, and it does not come back.       *)
THEOREM CleanedInvariant == Spec => []CleanedInv
<1>1. Init => CleanedInv
  BY DEF Init, CleanedInv
<1>2. IInv /\ CleanedInv /\ [Next]_vars => CleanedInv'
  <2> SUFFICES ASSUME IInv, CleanedInv, [Next]_vars, NEW r \in Runtime, phase'[r] = "cleaned"
               PROVE  ~session'
    BY DEF CleanedInv
  <2>1. TypeOK
    BY GoodIsTyped
  <2>2. CASE phase'[r] = phase[r]
    BY <2>1, <2>2, SessionStep DEF CleanedInv, TypeOK
  <2>3. CASE phase'[r] # phase[r]
    BY <2>1, <2>3, PhaseStep
  <2> QED BY <2>2, <2>3
<1> QED BY <1>1, <1>2, Invariant, PTL DEF Spec

(* The history variable only watches. *)
LEMMA DeletionIsLease == DeletionSpec => Spec
<1>1. DeletionInit => Init
  BY DEF DeletionInit
<1>2. [DeletionNext]_DeletionVars => [Next]_vars
  BY DEF DeletionNext, DeletionVars
<1> QED BY <1>1, <1>2, PTL DEF DeletionSpec, Spec

(* As long as no deletion's lock was taken for over, the fence holds for   *)
(* the whole of a deletion.                                                *)
THEOREM DeletionInvariant == DeletionSpec => []DeletionInv
<1>1. DeletionInit => DeletionInv
  BY DEF DeletionInit, Init, DeletionInv, ReceiptsGone
<1>2. IInv /\ CleanedInv /\ DeletionInv /\ [DeletionNext]_DeletionVars => DeletionInv'
  BY DeletionStepKeeps
<1> QED BY <1>1, <1>2, DeletionIsLease, Invariant, CleanedInvariant, PTL DEF DeletionSpec

(* Once a runtime found the session quiescent, no turn is accepted in it,  *)
(* for any number of runtimes, their late renewals included, unless a      *)
(* deletion's lock with a deadline has already been taken for over.        *)
THEOREM QuietUntilErased == DeletionSpec => []DeletionIsQuiet
<1>1. IInv /\ DeletionInv => DeletionIsQuiet
  <2> SUFFICES ASSUME IInv, DeletionInv, ~undercut,
                      NEW r \in Runtime, phase[r] \in {"quiescent", "erased", "cleaned"}
               PROVE  Accepted(Stored) = {}
    BY DEF DeletionIsQuiet
  <2>1. CASE lock.kind = "session-deletion"
    BY <2>1 DEF IInv, Good, Stored, TurnKind
  <2>2. CASE ~session
    BY <2>2 DEF DeletionInv, ReceiptsGone, Accepted, Stored
  <2> QED BY <2>1, <2>2 DEF DeletionInv
<1> QED BY <1>1, DeletionIsLease, Invariant, DeletionInvariant, PTL

(* No receipt survives the session or appears after it, unless the same    *)
(* has happened.                                                           *)
THEOREM NothingSurvives == DeletionSpec => []NoOrphanTurnData
<1>1. DeletionInv => NoOrphanTurnData
  BY DEF DeletionInv, NoOrphanTurnData, ReceiptsGone
<1> QED BY <1>1, DeletionInvariant, PTL

(* A fence that has no deadline, or one that has not passed, comes down    *)
(* only by completeSessionDeletion, whose runtime has seen the session's   *)
(* row and its receipts go, whatever happened to the runtimes that began   *)
(* the deletion.                                                           *)
THEOREM FenceOutlastsTheData == Spec => HalfErasedStaysShut
<1>1. IInv /\ CleanedInv /\ [Next]_vars =>
        [lock.kind = "session-deletion" /\ lock'.kind # "session-deletion" =>
           \/ ~session /\ \A t \in Turn : receipt[t] = "none"
           \/ lock.expiry = "expired"]_vars
  BY FenceStep DEF CleanedInv, CompleteDeletion, Advance
<1> QED BY <1>1, Invariant, CleanedInvariant, PTL DEF Spec, HalfErasedStaysShut

-----------------------------------------------------------------------------
(* The lock and the receipts are those of one owner (SessionOwner) *)

OwnerNext == Owner!Next

(* What a turn's receipt says of its life. *)
LifeOf(rc) == [t \in Turn |-> CASE rc[t] = "none"     -> "new"
                                [] rc[t] = "accepted" -> "owning"
                                [] OTHER              -> rc[t]]

(* The receipts once the accepted turn has failed. *)
FailedReceipt == [t \in Turn |-> IF receipt[t] = "accepted" THEN "failed" ELSE receipt[t]]

(* A pair that a recovery makes of a lapsed owner's. *)
Lapsing(e) ==
  /\ lapsed
  /\ e.lock.kind \in {"none", "session-deletion"}
  /\ e.receipt = FailedReceipt

(* The receipts alone decide the lives. *)
LEMMA LifeIsOfReceipts == life = LifeOf(receipt) /\ life' = LifeOf(receipt')
BY DEF life, LifeOf

(* One receipt changes, and one life with it. *)
LEMMA LifeExcept ==
  ASSUME NEW rc \in [Turn -> Status], NEW t \in Turn
  PROVE  /\ LifeOf([rc EXCEPT ![t] = "none"]) = [LifeOf(rc) EXCEPT ![t] = "new"]
         /\ LifeOf([rc EXCEPT ![t] = "accepted"]) = [LifeOf(rc) EXCEPT ![t] = "owning"]
         /\ LifeOf([rc EXCEPT ![t] = "settled"]) = [LifeOf(rc) EXCEPT ![t] = "settled"]
BY DEF LifeOf

(* The owner is the accepted turn, and otherwise no turn. *)
LEMMA OwnerOfLock ==
  ASSUME LeaseAssumption, Good(Stored)
  PROVE  /\ \A t \in Turn : receipt[t] = "accepted" <=> owner = t
         /\ lock.kind \in TurnKind => owner \in Turn
         /\ lock.kind \notin TurnKind => owner = lock.kind /\ owner \notin Turn
<1>1. lock.kind \in TurnKind \cup {"none", "maintenance", "session-deletion"}
  BY DEF Good, GoodLock, Stored, Lock, LeaseKind
<1>2. CASE lock.kind \in TurnKind
  <2>1. PICK t \in Turn : receipt[t] = "accepted"
    BY <1>2 DEF Good, Accepted, Stored
  <2>2. \A u \in Turn : receipt[u] = "accepted" => u = t
    BY <2>1 DEF Good, Accepted, Stored
  <2>3. owner = t
    BY <1>2, <2>1, <2>2 DEF owner
  <2> QED BY <1>2, <2>1, <2>2, <2>3
<1>3. CASE lock.kind \notin TurnKind
  <2>1. owner = lock.kind /\ owner \notin Turn
    BY <1>1, <1>3 DEF owner, LeaseAssumption
  <2>2. \A t \in Turn : receipt[t] # "accepted"
    BY <1>3 DEF Good, Accepted, Stored
  <2> QED BY <1>3, <2>1, <2>2
<1> QED BY <1>2, <1>3

(* What a recovery of a lapsed owner does to the lives. *)
LEMMA RecoveredLife ==
  ASSUME LeaseAssumption, Good(Stored)
  PROVE  /\ lapsed => LifeOf(FailedReceipt) = Owner!Recovered
         /\ ~lapsed \/ lock.kind \notin TurnKind => life = Owner!Recovered
<1>1. receipt \in [Turn -> Status]
  BY DEF Good, Stored
<1>2. lapsed => LifeOf(FailedReceipt) = Owner!Recovered
  BY <1>1, OwnerOfLock DEF LifeOf, FailedReceipt, life, Owner!Recovered, Status
<1>3. ~lapsed \/ lock.kind \notin TurnKind => life = Owner!Recovered
  BY OwnerOfLock DEF life, Owner!Recovered
<1> QED BY <1>2, <1>3

(* Ending the accepted turn as failed is what fails its receipt. *)
LEMMA FailedIsOneReceipt ==
  ASSUME Good(Stored), NEW t \in Turn, receipt[t] = "accepted"
  PROVE  [receipt EXCEPT ![t] = "failed"] = FailedReceipt
<1>1. receipt \in [Turn -> Status] /\ \A u \in Turn : receipt[u] = "accepted" => u = t
  BY DEF Good, Stored, Accepted
<1> QED BY <1>1 DEF FailedReceipt

(* The settlement that failed twice. *)
LEMMA AfterPendingLapses ==
  ASSUME LeaseAssumption, IInv, NEW r \in Runtime
  PROVE  LET e == AfterPending(Stored, pending[r])
         IN  e = Stored \/ (Lapsing(e) /\ e.lock.expiry # "expired")
<1> DEFINE e == AfterPending(Stored, pending[r])
           h == pending[r]
<1> SUFFICES ASSUME e # Stored PROVE Lapsing(e) /\ e.lock.expiry # "expired"
  OBVIOUS
<1>1. h # NoHandle /\ lock.id = h.id /\ receipt[h.turn] = "accepted"
      /\ e = Ended(Stored, h.turn, "failed")
  BY StoredFields DEF AfterPending
<1>2. h.turn \in Turn
  BY <1>1 DEF IInv, MemoryOK, Handle
<1>3. lock.kind \in TurnKind
  BY <1>1, <1>2 DEF IInv, Good, Accepted, Stored
<1>4. lapsed
  BY <1>1, <1>3 DEF lapsed, TurnKind
<1>5. e.lock \in {NoLock, Fence(lock.id)} /\ e.receipt = FailedReceipt
  BY <1>1, <1>2, FailedIsOneReceipt, StoredFields DEF Ended, ReleasedOrPromoted, IInv
<1> QED BY <1>4, <1>5 DEF Lapsing, NoLock, Fence

(* The lock whose time is over, at an admission or a maintenance. *)
LEMMA AfterExpiryLapses ==
  ASSUME LeaseAssumption, IInv
  PROVE  AfterExpiry(Stored) = Stored \/ Lapsing(AfterExpiry(Stored))
<1> SUFFICES ASSUME lock.expiry = "expired" PROVE Lapsing(Released(Stored))
  BY StoredFields DEF AfterExpiry
<1>1. lapsed
  BY StoredFields DEF lapsed, IInv, Good, GoodLock, NoLock
<1>2. Released(Stored).lock.kind = "none" /\ Released(Stored).receipt = FailedReceipt
  BY StoredFields DEF Released, NoLock, Accepted, FailedReceipt
<1> QED BY <1>1, <1>2 DEF Lapsing

(* What an admission finds is what there was, or a lapsed owner's session. *)
LEMMA AdmissionLapses ==
  ASSUME LeaseAssumption, IInv, NEW r \in Runtime
  PROVE  AdmissionRecovery(r) = Stored \/ Lapsing(AdmissionRecovery(r))
<1>1. CASE AfterPending(Stored, pending[r]) = Stored
  BY <1>1, AfterExpiryLapses DEF AdmissionRecovery
<1>2. CASE AfterPending(Stored, pending[r]) # Stored
  <2>1. Lapsing(AfterPending(Stored, pending[r]))
        /\ AfterPending(Stored, pending[r]).lock.expiry # "expired"
    BY <1>2, AfterPendingLapses
  <2> QED BY <2>1 DEF AdmissionRecovery, AfterExpiry
<1> QED BY <1>1, <1>2

(* So is what a deletion finds. *)
LEMMA DeletionLapses ==
  ASSUME LeaseAssumption, IInv, NEW r \in Runtime
  PROVE  LET e == AfterDeletionExpiry(AfterPending(Stored, pending[r]))
         IN  e = Stored \/ Lapsing(e)
<1> DEFINE c == AfterPending(Stored, pending[r])
<1>1. CASE c # Stored
  <2>1. Lapsing(c) /\ ~ExpiredLease(c)
    BY <1>1, AfterPendingLapses DEF ExpiredLease
  <2> QED BY <2>1 DEF AfterDeletionExpiry
<1>2. CASE c = Stored /\ ~ExpiredLease(Stored)
  BY <1>2 DEF AfterDeletionExpiry
<1>3. CASE c = Stored /\ ExpiredLease(Stored)
  <2> DEFINE e == AfterDeletionExpiry(Stored)
  <2>1. lapsed
    BY <1>3, StoredFields DEF lapsed, ExpiredLease, LeaseKind, TurnKind
  <2>2. CASE Marked(Stored)
    <3>1. e.lock = Fence(lock.id) /\ e.receipt = receipt
      BY <1>3, <2>2 DEF AfterDeletionExpiry, Stored
    <3>2. receipt \in [Turn -> Status] /\ \A t \in Turn : receipt[t] # "accepted"
      BY <2>2, StoredFields DEF Marked, IInv, Good, Accepted, TurnKind
    <3>3. receipt = FailedReceipt
      BY <3>2 DEF FailedReceipt
    <3> QED BY <1>3, <2>1, <3>1, <3>3 DEF Lapsing, Fence
  <2>3. CASE ~Marked(Stored)
    <3>1. e.lock = ReleasedOrPromoted(lock) /\ e.receipt = Released(Stored).receipt
      BY <1>3, <2>3, StoredFields DEF AfterDeletionExpiry, Released
    <3>2. Released(Stored).receipt = FailedReceipt
      BY StoredFields DEF Released, Accepted, FailedReceipt
    <3>3. e.lock.kind \in {"none", "session-deletion"}
      BY <3>1 DEF ReleasedOrPromoted, Fence, NoLock
    <3> QED BY <1>3, <2>1, <3>1, <3>2, <3>3 DEF Lapsing
  <2> QED BY <2>2, <2>3
<1> QED BY <1>1, <1>2, <1>3

(* A step that keeps the kind of lock and the receipts keeps the owner. *)
LEMMA OwnerKept ==
  ASSUME lock'.kind = lock.kind, receipt' = receipt
  PROVE  UNCHANGED Owner!vars
BY DEF Owner!vars, owner, life

(* A recovery commits what it makes of a lapsed owner's session. *)
LEMMA RecoveryOwner ==
  ASSUME LeaseAssumption, IInv, NEW e, Lapsing(e), lock'.kind = e.lock.kind, receipt' = e.receipt
  PROVE  Owner!Recover
<1>1. owner' = e.lock.kind
  BY DEF owner, Lapsing, TurnKind
<1>2. life' = Owner!Recovered
  BY RecoveredLife, LifeIsOfReceipts DEF Lapsing, IInv
<1> QED BY <1>1, <1>2 DEF Owner!Recover, Lapsing

(* An admission. *)
LEMMA AdmitOwner ==
  ASSUME LeaseAssumption, IInv, NEW r \in Runtime, NEW t \in Turn, NEW kind \in TurnKind,
         NEW id \in Lease, AdmitAccepted(r, t, kind, id)
  PROVE  Owner!Admit(t)
<1> DEFINE d == AdmissionRecovery(r)
<1>1. lock'.kind \in TurnKind /\ receipt' = [d.receipt EXCEPT ![t] = "accepted"]
      /\ d.lock.kind = "none" /\ d.receipt[t] = "none"
  BY DEF AdmitAccepted, Commit, Acquired
<1>2. d.receipt \in [Turn -> Status] /\ \A u \in Turn : d.receipt[u] # "accepted"
  <2>1. TypeOK /\ Good(d)
    BY GoodIsTyped, AdmissionRecoveryGood DEF IInv
  <2> QED BY <1>1, <2>1 DEF Good, Accepted, TurnKind
<1>3. owner' = t
  BY <1>1, <1>2 DEF owner
<1>4. LifeOf(d.receipt) = Owner!Recovered /\ Owner!Available
  <2>1. CASE d = Stored
    <3>1. lock.kind = "none" /\ d.receipt = receipt
      BY <1>1, <2>1, StoredFields
    <3>2. owner = "none"
      BY <3>1 DEF owner, TurnKind
    <3> QED BY <3>1, <3>2, RecoveredLife, LifeIsOfReceipts DEF IInv, TurnKind, Owner!Available
  <2>2. CASE Lapsing(d)
    BY <2>2, RecoveredLife DEF Lapsing, IInv, Owner!Available
  <2> QED BY <2>1, <2>2, AdmissionLapses
<1>5. life' = [Owner!Recovered EXCEPT ![t] = "owning"]
  BY <1>1, <1>2, <1>4, LifeExcept, LifeIsOfReceipts
<1>6. life[t] = "new"
  <2>1. LifeOf(d.receipt)[t] = "new"
    BY <1>1 DEF LifeOf
  <2> QED BY <1>4, <2>1 DEF Owner!Recovered
<1> QED BY <1>3, <1>4, <1>5, <1>6 DEF Owner!Admit

(* The other steps of a turn end it, recover a lapsed one, or change        *)
(* nothing that others may know.                                            *)
LEMMA TurnStepOwner ==
  ASSUME LeaseAssumption, IInv, NEW r \in Runtime, TurnStep(r)
  PROVE  [OwnerNext]_(Owner!vars)
<1> USE DEF OwnerNext
<1>1. ASSUME NEW t \in Turn, NEW kind \in TurnKind, NEW id \in Lease, AdmitAccepted(r, t, kind, id)
      PROVE  OwnerNext
  BY <1>1, AdmitOwner DEF Owner!Next
<1>2. ASSUME AdmitRefused(r)
      PROVE  [OwnerNext]_(Owner!vars)
  <2>1. \/ UNCHANGED <<lock, receipt>>
        \/ lock' = AdmissionRecovery(r).lock /\ receipt' = AdmissionRecovery(r).receipt
    BY <1>2 DEF AdmitRefused, Commit
  <2>2. CASE UNCHANGED <<lock, receipt>> \/ AdmissionRecovery(r) = Stored
    BY <2>1, <2>2, StoredFields, OwnerKept
  <2>3. CASE ~UNCHANGED <<lock, receipt>> /\ Lapsing(AdmissionRecovery(r))
    BY <2>1, <2>3, RecoveryOwner DEF Owner!Next
  <2> QED BY <2>2, <2>3, AdmissionLapses
<1>3. ASSUME NEW h \in held[r], Settle(r, h) \/ SettleFails(r, h) \/ RevokeAdmission(r, h)
      PROVE  [OwnerNext]_(Owner!vars)
  <2>1. h.turn \in Turn /\ Good(Stored) /\ receipt \in [Turn -> Status]
    BY DEF IInv, MemoryOK, Handle, Good, Stored
  <2>2. CASE UNCHANGED <<lock, receipt>>
    BY <2>2, OwnerKept
  <2>3. CASE ~UNCHANGED <<lock, receipt>>
    <3>1. /\ receipt[h.turn] = "accepted" /\ lock' \in {NoLock, Fence(lock.id)}
          /\ \/ receipt' = [receipt EXCEPT ![h.turn] = "settled"]
             \/ receipt' = [receipt EXCEPT ![h.turn] = "none"] /\ lock' = NoLock
      BY <1>3, <2>3, StoredFields
         DEF Settle, SettleFails, RevokeAdmission, Commit, Ended, ReleasedOrPromoted, durable
    <3>2. owner = h.turn
      BY <2>1, <3>1, OwnerOfLock
    <3>3. owner' \in {"session-deletion", "none"} /\ (lock' = NoLock => owner' = "none")
      BY <3>1 DEF owner, NoLock, Fence, TurnKind
    <3>4. Owner!Settle(h.turn) \/ Owner!Revoke(h.turn)
      BY <2>1, <3>1, <3>2, <3>3, LifeExcept, LifeIsOfReceipts DEF Owner!Settle, Owner!Revoke
    <3> QED BY <2>1, <3>4 DEF Owner!Next
  <2> QED BY <2>2, <2>3
<1> QED BY <1>1, <1>2, <1>3 DEF TurnStep

(* A maintenance takes a session that is free or whose owner has lapsed. *)
LEMMA MaintenanceOwner ==
  ASSUME LeaseAssumption, IInv, NEW r \in Runtime, MaintenanceStep(r)
  PROVE  [OwnerNext]_(Owner!vars)
<1> USE DEF OwnerNext
<1>1. PICK id \in Lease : AcquireMaintenance(r, id) \/ ReleaseMaintenance(r, id)
  BY DEF MaintenanceStep
<1>2. CASE AcquireMaintenance(r, id)
  <2> DEFINE d == AfterExpiry(Stored)
  <2>1. lock'.kind = "maintenance" /\ receipt' = d.receipt /\ d.lock.kind = "none"
    BY <1>2, StoredFields DEF AcquireMaintenance, Commit, Acquired, AfterExpiry, Released, Stored
  <2>2. owner' = "maintenance"
    BY <2>1 DEF owner, TurnKind
  <2>3. CASE d = Stored
    <3>1. lock.kind = "none" /\ receipt' = receipt
      BY <2>1, <2>3, StoredFields
    <3>2. owner = "none" /\ life' = Owner!Recovered
      BY <3>1, RecoveredLife, LifeIsOfReceipts DEF owner, TurnKind, IInv
    <3> QED BY <2>2, <3>2 DEF Owner!Next, Owner!Take, Owner!Available
  <2>4. CASE Lapsing(d)
    <3>1. life' = Owner!Recovered
      BY <2>1, <2>4, RecoveredLife, LifeIsOfReceipts DEF Lapsing, IInv
    <3> QED BY <2>2, <2>4, <3>1 DEF Lapsing, Owner!Next, Owner!Take, Owner!Available
  <2> QED BY <2>3, <2>4, AfterExpiryLapses
<1>3. CASE ReleaseMaintenance(r, id)
  <2>1. CASE lock' = lock
    BY <1>3, <2>1, OwnerKept DEF ReleaseMaintenance
  <2>2. CASE lock' # lock
    <3>1. lock.kind = "maintenance" /\ lock'.kind \in {"session-deletion", "none"} /\ receipt' = receipt
      BY <1>3, <2>2, LockKinds DEF ReleaseMaintenance
    <3>2. owner = "maintenance" /\ owner' \in {"session-deletion", "none"} /\ life' = life
      BY <3>1, LifeIsOfReceipts DEF owner, TurnKind
    <3> QED BY <3>2 DEF Owner!Next, Owner!GiveBack
  <2> QED BY <2>1, <2>2
<1> QED BY <1>1, <1>2, <1>3

(* A deletion takes the session when it is free or its owner has lapsed,    *)
(* and marks it otherwise, which nobody else sees.                          *)
LEMMA BeginDeletionOwner ==
  ASSUME LeaseAssumption, IInv, NEW r \in Runtime, BeginDeletion(r)
  PROVE  [OwnerNext]_(Owner!vars)
<1> USE DEF OwnerNext
<1> DEFINE d == AfterDeletionExpiry(AfterPending(Stored, pending[r]))
<1>1. TypeOK /\ Good(Stored)
  BY GoodIsTyped DEF IInv
<1>2. Good(d)
  BY <1>1, DeletionRecoveryGood DEF BeginDeletion
<1>3. \/ d.lock.kind \in {"none", "session-deletion"} /\ lock'.kind = "session-deletion"
      \/ d.lock.kind = "session-deletion" /\ lock' = d.lock
      \/ d.lock.kind \in LeaseKind /\ lock'.kind = d.lock.kind
  <2>1. CASE \E id \in Fresh(r) : Commit([d EXCEPT !.lock = Fence(id)])
    BY <1>2, <2>1, LockKinds DEF BeginDeletion, Commit, Good, LeaseKind, TurnKind, GoodLock, Lock
  <2>2. CASE d.lock.kind = "session-deletion" /\ Commit(d)
    BY <2>2 DEF Commit
  <2>3. CASE d.lock.kind \in LeaseKind /\ Commit([d EXCEPT !.lock.deleting = TRUE])
    BY <1>2, <2>3 DEF Commit, Good, GoodLock, Lock
  <2> QED BY <2>1, <2>2, <2>3 DEF BeginDeletion
<1>4. receipt' = d.receipt
  BY <1>2 DEF BeginDeletion, Commit, Good
<1>5. CASE d = Stored
  <2>1. CASE lock'.kind = lock.kind
    BY <1>4, <1>5, <2>1, StoredFields, OwnerKept
  <2>2. CASE lock'.kind # lock.kind
    <3>1. lock.kind = "none" /\ lock'.kind = "session-deletion" /\ receipt' = receipt
      BY <1>3, <1>4, <1>5, <2>2, StoredFields
    <3>2. owner = "none" /\ owner' = "session-deletion" /\ life' = Owner!Recovered
      BY <1>1, <3>1, RecoveredLife, LifeIsOfReceipts DEF owner, TurnKind
    <3> QED BY <3>2 DEF Owner!Next, Owner!Take, Owner!Available
  <2> QED BY <2>1, <2>2
<1>6. CASE Lapsing(d)
  <2>1. lock'.kind = "session-deletion"
    BY <1>3, <1>6 DEF Lapsing, LeaseKind, TurnKind
  <2>2. owner' = "session-deletion" /\ life' = Owner!Recovered
    BY <1>1, <1>4, <1>6, <2>1, RecoveredLife, LifeIsOfReceipts DEF owner, TurnKind, Lapsing
  <2> QED BY <1>6, <2>2 DEF Owner!Next, Owner!Recover, Lapsing
<1> QED BY <1>5, <1>6, DeletionLapses

(* The data of the turns goes while the deletion has the session, and then *)
(* the deletion gives it back.                                              *)
LEMMA EraseOwner ==
  ASSUME LeaseAssumption, IInv, NEW r \in Runtime, DeleteTurnData(r) \/ CompleteDeletion(r)
  PROVE  [OwnerNext]_(Owner!vars)
<1> USE DEF OwnerNext
<1>1. CASE DeleteTurnData(r) /\ lock.kind = "session-deletion"
  <2>1. owner = "session-deletion" /\ owner' = owner
    BY <1>1 DEF DeleteTurnData, owner, TurnKind
  <2>2. life' = [t \in Turn |-> "new"]
    BY <1>1 DEF DeleteTurnData, life
  <2> QED BY <2>1, <2>2 DEF Owner!Next, Owner!EraseTurns
<1>2. CASE DeleteTurnData(r) /\ lock.kind # "session-deletion"
  <2>1. lock' = lock /\ receipt' = receipt
    BY <1>2 DEF DeleteTurnData, IInv, Good, Stored
  <2> QED BY <2>1, OwnerKept
<1>3. CASE CompleteDeletion(r) /\ lock.kind = "session-deletion"
  <2>1. owner = "session-deletion" /\ owner' = "none"
    BY <1>3 DEF CompleteDeletion, owner, TurnKind, NoLock
  <2>2. life' = life
    BY <1>3, LifeIsOfReceipts DEF CompleteDeletion
  <2> QED BY <2>1, <2>2 DEF Owner!Next, Owner!GiveBack
<1>4. CASE CompleteDeletion(r) /\ lock.kind # "session-deletion"
  BY <1>4, LockKinds, OwnerKept DEF CompleteDeletion
<1> QED BY <1>1, <1>2, <1>3, <1>4

(* The recovery of a restarted process takes only a session whose owner is *)
(* gone.                                                                    *)
LEMMA RestartOwner ==
  ASSUME LeaseAssumption, IInv, NEW r \in Runtime, RecoverProcessRestart(r)
  PROVE  [OwnerNext]_(Owner!vars)
<1> USE DEF OwnerNext
<1>1. CASE lock.kind = "session-deletion" /\ UNCHANGED receipt
           /\ \E id \in Fresh(r) : lock' = Fence(id)
  BY <1>1, LockKinds, OwnerKept
<1>2. lapsed
  BY DEF RecoverProcessRestart, lapsed
<1>3. CASE lock.kind \in TurnKind /\ Commit(Released(Stored))
  <2>1. Lapsing(Released(Stored))
    BY <1>2, StoredFields DEF Lapsing, Released, NoLock, Accepted, FailedReceipt
  <2> QED BY <1>3, <2>1, RecoveryOwner DEF Commit, Owner!Next
<1>4. CASE lock.kind = "maintenance" /\ lock' = NoLock /\ UNCHANGED receipt
  <2>1. owner = "maintenance" /\ owner' = "none" /\ life' = life
    BY <1>4, LifeIsOfReceipts DEF owner, TurnKind, NoLock
  <2> QED BY <2>1 DEF Owner!Next, Owner!GiveBack
<1> QED BY <1>1, <1>3, <1>4 DEF RecoverProcessRestart

(* Every step is one of the contract or none. *)
LEMMA OwnerStep == LeaseAssumption /\ IInv /\ [Next]_vars => [OwnerNext]_(Owner!vars)
<1> SUFFICES ASSUME LeaseAssumption, IInv, [Next]_vars PROVE [OwnerNext]_(Owner!vars)
  OBVIOUS
<1>1. CASE Expire \/ \E r \in Runtime : RenewLost(r)
  <2>1. lock'.kind = lock.kind /\ receipt' = receipt
    BY <1>1 DEF Expire, RenewLost, IInv, Good, GoodLock, Stored, Lock
  <2> QED BY <2>1, OwnerKept
<1>2. CASE UNCHANGED vars \/ \E r \in Runtime : Start(r) \/ Crash(r)
  BY <1>2, OwnerKept DEF vars, durable, Start, Crash
<1>3. ASSUME NEW r \in Runtime, RecoverProcessRestart(r) \/ TurnStep(r) \/ MaintenanceStep(r)
      PROVE  [OwnerNext]_(Owner!vars)
  BY <1>3, RestartOwner, TurnStepOwner, MaintenanceOwner
<1>4. ASSUME NEW r \in Runtime, DeletionStep(r)
      PROVE  [OwnerNext]_(Owner!vars)
  <2>1. CASE StartDeletion(r) \/ RequireQuiescent(r) \/ Cleanup(r) \/ AbandonDeletion(r)
    BY <2>1, OwnerKept DEF StartDeletion, RequireQuiescent, Cleanup, AbandonDeletion, durable
  <2> QED BY <1>4, <2>1, BeginDeletionOwner, EraseOwner DEF DeletionStep
<1> QED BY <1>1, <1>2, <1>3, <1>4 DEF Next

(* The rows of session_locks and turn_ingress keep what the rest of the    *)
(* runtime builds on, for any number of processes that share them: one     *)
(* owner at a time, who keeps the session until it gives it back or lapses. *)
THEOREM ImplementsSessionOwner == Spec => SessionOwner
<1>1. Init => Owner!Init
  BY DEF Init, Owner!Init, owner, life, NoLock, TurnKind
<1>2. IInv /\ [Next]_vars => [OwnerNext]_(Owner!vars)
  BY OwnerStep, LeaseAssumption
<1> QED BY <1>1, <1>2, Invariant, PTL DEF Spec, SessionOwner, Owner!Spec, OwnerNext

(* A turn is known as the session's own exactly while it is its owner.     *)
THEOREM OwnerOwns == Spec => []Owner!OwnerIsOwning
<1>1. IInv => Owner!OwnerIsOwning
  BY OwnerOfLock, LeaseAssumption DEF IInv, Good, Stored, Status, life, Owner!OwnerIsOwning
<1> QED BY <1>1, Invariant, PTL

=============================================================================
