--------------------- MODULE SessionOperationGateProofs ---------------------
(* The safety of the session gate for any number of callers. The inductive *)
(* invariant says that every holder's object is the map's object and that  *)
(* its counters count the holders; the properties are then about one       *)
(* object.                                                                 *)
EXTENDS SessionOperationGate, FiniteSetTheorems, TLAPS

HoldersShare ==
    /\ \A c \in Op : permit[c] # None => permit[c] = entry
    /\ \A f \in Fence : lease[f] # None => lease[f] = entry
    /\ lane.phase # "idle" => lane.on = entry /\ entry # None

Counted == entry # None => state[entry].active = Cardinality(Holders)

MutationIsLeased ==
    /\ \A f \in Fence : lease[f] # None => state[entry].mutation = f
    /\ entry # None /\ state[entry].mutation # None =>
          lease[state[entry].mutation] = entry

PromisesKept ==
    /\ \A f \in Fence : lease[f] # None /\ drained[f] = "resolved" =>
          state[entry].active = 0
    /\ lane.phase # "idle" => state[entry].deleting
    /\ lane.phase \in {"clear", "erased"} =>
          state[entry].active = 0 /\ state[entry].mutation = None

NotIdle == entry # None => state[entry] # Idle

GateInv ==
    /\ GateTypeOK
    /\ HoldersShare
    /\ Counted
    /\ MutationIsLeased
    /\ PromisesKept
    /\ NotIdle

(* The holders are finitely many, as the calls are. *)
LEMMA HoldersFinite == IsFiniteSet(Holders) /\ Cardinality(Holders) \in 0..Cardinality(Op)
<1>1. Holders \subseteq Op
  BY DEF Holders
<1> QED
  BY <1>1, FS_Subset, FS_CardinalityType, GateAssumption

(* Nobody holds a permit exactly when the count is zero. *)
LEMMA NoneActive == Cardinality(Holders) = 0 <=> Holders = {}
BY HoldersFinite, FS_EmptySet

(* A call that enters adds one holder. *)
LEMMA HoldersGrow ==
    ASSUME NEW c \in Op, NEW o \in Obj, permit \in [Op -> Obj \cup {None}],
           permit[c] = None, permit' = [permit EXCEPT ![c] = o]
    PROVE  Cardinality(Holders') = Cardinality(Holders) + 1
<1>1. Holders' = Holders \cup {c} /\ c \notin Holders
  BY GateAssumption DEF Holders
<1> QED
  BY <1>1, HoldersFinite, FS_AddElement

(* A call that leaves removes itself. *)
LEMMA HoldersShrink ==
    ASSUME NEW c \in Op, permit \in [Op -> Obj \cup {None}],
           permit[c] # None, permit' = [permit EXCEPT ![c] = None]
    PROVE  /\ Cardinality(Holders') = Cardinality(Holders) - 1
           /\ Cardinality(Holders) # 0
<1>1. Holders' = Holders \ {c} /\ c \in Holders
  BY GateAssumption DEF Holders
<1>2. Cardinality(Holders) # 0
  BY <1>1, NoneActive
<1> QED
  BY <1>1, <1>2, HoldersFinite, FS_RemoveElement

(* The empty gate satisfies the invariant. *)
LEMMA GateInitInv == GateInit => GateInv
<1> SUFFICES ASSUME GateInit PROVE GateInv
  OBVIOUS
<1>1. Cardinality(Op) \in Nat
  BY GateAssumption, FS_CardinalityType
<1>2. Idle \in [active : 0..Cardinality(Op), deleting : BOOLEAN,
                mutation : Fence \cup {None}]
  BY <1>1 DEF Idle
<1>3. lane \in [phase : {"idle", "blocking", "clear", "erased"}, on : Obj \cup {None}]
  BY DEF GateInit, NoLane
<1>4. GateTypeOK
  BY <1>2, <1>3 DEF GateInit, GateTypeOK
<1> QED
  BY <1>4, GateAssumption DEF GateInit, GateInv, HoldersShare, Counted,
     MutationIsLeased, PromisesKept, NotIdle, NoLane

(* In a free gate nobody holds anything, so a fresh object is right. *)
LEMMA FreeGate ==
    ASSUME GateInv, entry = None
    PROVE  /\ \A c \in Op : permit[c] = None
           /\ \A f \in Fence : lease[f] = None
           /\ lane.phase = "idle"
           /\ Cardinality(Holders) = 0
<1>1. \A c \in Op : permit[c] = None
  BY GateAssumption DEF GateInv, HoldersShare, GateTypeOK
<1>2. \A f \in Fence : lease[f] = None
  BY GateAssumption DEF GateInv, HoldersShare, GateTypeOK
<1>3. lane.phase = "idle"
  BY DEF GateInv, HoldersShare
<1> QED
  BY <1>1, <1>2, <1>3, NoneActive DEF Holders

(* What a caller finds: the object of every holder, counted, or a fresh one. *)
LEMMA FoundObject ==
    ASSUME GateInv, NEW o \in Obj, Found(o)
    PROVE  /\ Current(o) \in [active : 0..Cardinality(Op), deleting : BOOLEAN,
                              mutation : Fence \cup {None}]
           /\ Current(o).active = Cardinality(Holders)
           /\ \A c \in Op : permit[c] # None => permit[c] = o
           /\ \A f \in Fence : lease[f] # None => lease[f] = o
           /\ lane.phase # "idle" => lane.on = o /\ Current(o).deleting
           /\ o # None
           /\ entry # None => entry = o /\ Current(o) = state[entry]
           /\ Current(o).mutation = None => \A f \in Fence : lease[f] = None
           /\ Current(o).mutation # None =>
                 lease[Current(o).mutation] = o /\ entry # None
<1>1. Cardinality(Op) \in Nat
  BY GateAssumption, FS_CardinalityType
<1>2. CASE entry = None
  <2>1. Current(o) = Idle /\ o # None
    BY <1>2, GateAssumption DEF Current
  <2>2. Idle.active = 0 /\ Idle.mutation = None
    BY DEF Idle
  <2>3. Idle \in [active : 0..Cardinality(Op), deleting : BOOLEAN,
                  mutation : Fence \cup {None}]
    BY <1>1 DEF Idle
  <2> QED
    BY <1>2, <2>1, <2>2, <2>3, FreeGate
<1>3. CASE entry # None
  BY <1>3, GateAssumption DEF Found, Current, GateInv, GateTypeOK, HoldersShare, Counted,
     MutationIsLeased, PromisesKept
<1> QED
  BY <1>2, <1>3

(* A call enters. *)
LEMMA EnterInv ==
    ASSUME GateInv, NEW c \in Op, Enter(c)
    PROVE  GateInv'
<1>1. PICK o \in Obj :
          /\ Found(o)
          /\ state' = [state EXCEPT ![o] = [Current(o) EXCEPT !.active = @ + 1]]
          /\ entry' = o
          /\ permit' = [permit EXCEPT ![c] = o]
  BY DEF Enter
<1>2. UNCHANGED <<lease, drained, lane, gone, threw>> /\ permit[c] = None /\ ~Closed
  BY DEF Enter
<1> DEFINE s == [Current(o) EXCEPT !.active = @ + 1]
<1>3. Cardinality(Holders') = Cardinality(Holders) + 1
  BY <1>1, <1>2, HoldersGrow DEF GateInv, GateTypeOK
<1>4. Cardinality(Holders') \in 0..Cardinality(Op) /\ Cardinality(Holders) \in Nat
  <2>1. Holders' \subseteq Op
    BY DEF Holders
  <2> QED
    BY <2>1, HoldersFinite, FS_Subset, FS_CardinalityType, GateAssumption
<1>5. ~Current(o).deleting /\ Current(o).mutation = None
  BY <1>1, <1>2 DEF Closed, Found, Current, Idle
<1>6. /\ s.active = Cardinality(Holders')
      /\ s.deleting = Current(o).deleting
      /\ s.mutation = Current(o).mutation
      /\ s \in [active : 0..Cardinality(Op), deleting : BOOLEAN, mutation : Fence \cup {None}]
  BY <1>1, <1>3, <1>4, FoundObject
<1>7. state'[o] = s /\ s.active # 0
  BY <1>1, <1>3, <1>4, <1>6 DEF GateInv, GateTypeOK
<1>8. GateTypeOK'
  BY <1>1, <1>2, <1>6 DEF GateInv, GateTypeOK
<1>9. (\A f \in Fence : lease[f] = None) /\ lane.phase = "idle"
  BY <1>1, <1>5, FoundObject
<1>10. HoldersShare'
  BY <1>1, <1>2, <1>9, FoundObject DEF HoldersShare, GateInv, GateTypeOK
<1>11. Counted' /\ MutationIsLeased' /\ PromisesKept' /\ NotIdle'
  BY <1>1, <1>2, <1>5, <1>6, <1>7, <1>9
     DEF Counted, MutationIsLeased, PromisesKept, NotIdle, Idle
<1> QED
  BY <1>8, <1>10, <1>11 DEF GateInv

(* What settleState makes of the object that became s, whoever left it: the *)
(* object is dropped only when the remaining holders do not need it.        *)
LEMMA SettleInv ==
    ASSUME GateInv, entry # None, NEW s,
           s \in [active : 0..Cardinality(Op), deleting : BOOLEAN,
                  mutation : Fence \cup {None}],
           s.deleting = state[entry].deleting,
           Settle(entry, s), UNCHANGED <<gone, threw>>,
           permit' \in [Op -> Obj \cup {None}],
           lease' \in [Fence -> Obj \cup {None}],
           drained' \in [Fence -> {"none", "waiting", "resolved"}],
           s.active = Cardinality(Holders'),
           \A c \in Op : permit'[c] # None => permit'[c] = entry,
           \A f \in Fence : lease'[f] # None => lease'[f] = entry /\ s.mutation = f,
           s.mutation # None => lease'[s.mutation] = entry,
           \A f \in Fence : lease'[f] # None /\ drained'[f] = "resolved" => s.active = 0,
           state[entry].active = 0 => s.active = 0,
           state[entry].mutation = None => s.mutation = None
    PROVE  GateInv'
<1>1. state' = [state EXCEPT ![entry] = s] /\ entry \in Obj /\ state'[entry] = s
  BY DEF Settle, GateInv, GateTypeOK
<1>2. lane' \in [phase : {"idle", "blocking", "clear", "erased"}, on : Obj \cup {None}]
      /\ lane'.on = lane.on
      /\ (lane'.phase = "idle" <=> lane.phase = "idle")
      /\ (lane'.phase \in {"clear", "erased"} =>
             lane.phase \in {"clear", "erased"} \/ (s.active = 0 /\ s.mutation = None))
  BY DEF Settle, GateInv, GateTypeOK
<1>3. lane.phase # "idle" => lane.on = entry /\ s.deleting
  BY DEF GateInv, HoldersShare, PromisesKept
<1>4. lane.phase \in {"clear", "erased"} => s.active = 0 /\ s.mutation = None
  BY DEF GateInv, PromisesKept
<1>5. CASE s = Idle
  <2>1. entry' = None
    BY <1>5 DEF Settle, Forget
  <2>2. s.active = 0 /\ s.mutation = None /\ ~s.deleting
    BY <1>5 DEF Idle
  <2>3. IsFiniteSet(Holders')
    <3>1. Holders' \subseteq Op
      BY DEF Holders
    <3> QED
      BY <3>1, FS_Subset, GateAssumption
  <2>4. \A c \in Op : permit'[c] = None
    BY <2>2, <2>3, FS_EmptySet DEF Holders
  <2>5. \A f \in Fence : lease'[f] = None
    BY <2>2, GateAssumption
  <2>6. lane'.phase = "idle"
    BY <1>2, <1>3, <2>2
  <2>7. GateTypeOK'
    BY <1>1, <1>2, <2>1 DEF GateInv, GateTypeOK
  <2> QED
    BY <2>1, <2>4, <2>5, <2>6, <2>7
       DEF GateInv, HoldersShare, Counted, MutationIsLeased, PromisesKept, NotIdle
<1>6. CASE s # Idle
  <2>1. entry' = entry
    BY <1>6 DEF Settle, Forget
  <2>2. GateTypeOK'
    BY <1>1, <1>2, <2>1 DEF GateInv, GateTypeOK
  <2>3. HoldersShare'
    BY <1>1, <1>2, <1>3, <2>1 DEF HoldersShare
  <2>4. Counted' /\ MutationIsLeased' /\ NotIdle'
    BY <1>1, <1>6, <2>1 DEF Counted, MutationIsLeased, NotIdle
  <2>5. PromisesKept'
    BY <1>1, <1>2, <1>3, <1>4, <2>1 DEF PromisesKept
  <2> QED
    BY <2>2, <2>3, <2>4, <2>5 DEF GateInv
<1> QED
  BY <1>5, <1>6

(* A call leaves. *)
LEMMA LeaveInv ==
    ASSUME GateInv, NEW c \in Op, Leave(c)
    PROVE  GateInv'
<1> DEFINE s == [state[entry] EXCEPT !.active = @ - 1]
<1>1. permit[c] = entry /\ entry # None /\ entry \in Obj
  BY GateAssumption DEF Leave, GateInv, HoldersShare, GateTypeOK
<1>2. /\ Settle(entry, s) /\ drained' = Woken(entry, s)
      /\ permit' = [permit EXCEPT ![c] = None] /\ permit[c] # None
      /\ UNCHANGED <<lease, gone, threw>>
  BY <1>1 DEF Leave
<1>3. /\ Cardinality(Holders') = Cardinality(Holders) - 1
      /\ Cardinality(Holders) # 0
  BY <1>2, HoldersShrink DEF GateInv, GateTypeOK
<1>4. /\ state[entry] \in [active : 0..Cardinality(Op), deleting : BOOLEAN,
                           mutation : Fence \cup {None}]
      /\ state[entry].active = Cardinality(Holders)
      /\ Cardinality(Op) \in Nat
  BY <1>1, GateAssumption, FS_CardinalityType DEF GateInv, GateTypeOK, Counted
<1>5. /\ s \in [active : 0..Cardinality(Op), deleting : BOOLEAN, mutation : Fence \cup {None}]
      /\ s.deleting = state[entry].deleting /\ s.mutation = state[entry].mutation
      /\ s.active = Cardinality(Holders')
  BY <1>3, <1>4
<1>6. permit' \in [Op -> Obj \cup {None}] /\ lease' \in [Fence -> Obj \cup {None}]
  BY <1>2 DEF GateInv, GateTypeOK
<1>7. /\ drained' \in [Fence -> {"none", "waiting", "resolved"}]
      /\ \A f \in Fence : drained'[f] = "resolved" => s.active = 0 \/ drained[f] = "resolved"
  BY <1>2 DEF Woken, GateInv, GateTypeOK
<1>8. \A d \in Op : permit'[d] # None => permit'[d] = entry
  BY <1>2 DEF GateInv, HoldersShare, GateTypeOK
<1>9. /\ \A f \in Fence : lease'[f] # None => lease'[f] = entry /\ s.mutation = f
      /\ s.mutation # None => lease'[s.mutation] = entry
  BY <1>1, <1>2, <1>5 DEF GateInv, HoldersShare, MutationIsLeased
<1>10. \A f \in Fence : lease'[f] # None /\ drained'[f] = "resolved" => s.active = 0
  BY <1>2, <1>3, <1>4, <1>7 DEF GateInv, PromisesKept
<1> HIDE DEF s
<1> QED
  BY <1>1, <1>2, <1>3, <1>4, <1>5, <1>6, <1>7, <1>8, <1>9, <1>10, SettleInv

(* An exclusive lease is taken. *)
LEMMA AcquireInv ==
    ASSUME GateInv, NEW f \in Fence, AcquireExclusive(f)
    PROVE  GateInv'
<1>1. PICK o \in Obj :
          /\ Found(o)
          /\ state' = [state EXCEPT ![o] = [Current(o) EXCEPT !.mutation = f]]
          /\ entry' = o
          /\ lease' = [lease EXCEPT ![f] = o]
          /\ drained' = [drained EXCEPT
                 ![f] = IF Current(o).active = 0 THEN "resolved" ELSE "waiting"]
  BY DEF AcquireExclusive
<1>2. UNCHANGED <<permit, lane, gone, threw>> /\ ~Closed
  BY DEF AcquireExclusive
<1> DEFINE s == [Current(o) EXCEPT !.mutation = f]
<1>3. ~Current(o).deleting /\ Current(o).mutation = None
  BY <1>1, <1>2 DEF Closed, Found, Current, Idle
<1>4. /\ s \in [active : 0..Cardinality(Op), deleting : BOOLEAN, mutation : Fence \cup {None}]
      /\ s.active = Current(o).active /\ s.active = Cardinality(Holders)
      /\ s.mutation = f /\ f # None
  BY <1>1, FoundObject, GateAssumption
<1>5. state'[o] = s /\ Holders' = Holders
  BY <1>1, <1>2 DEF GateInv, GateTypeOK, Holders
<1>6. GateTypeOK'
  BY <1>1, <1>2, <1>4 DEF GateInv, GateTypeOK
<1>7. (\A g \in Fence : lease[g] = None) /\ lane.phase = "idle"
  BY <1>1, <1>3, FoundObject
<1>8. \A g \in Fence : lease'[g] # None => g = f /\ lease'[g] = o
  BY <1>1, <1>7 DEF GateInv, GateTypeOK
<1>9. lease'[f] = o /\ o # None
  BY <1>1, FoundObject DEF GateInv, GateTypeOK
<1>10. HoldersShare'
  BY <1>1, <1>2, <1>7, <1>8, FoundObject DEF HoldersShare
<1>11. drained'[f] = "resolved" => s.active = 0
  BY <1>1, <1>4 DEF GateInv, GateTypeOK
<1>12. Counted' /\ MutationIsLeased' /\ PromisesKept' /\ NotIdle'
  BY <1>1, <1>2, <1>4, <1>5, <1>7, <1>8, <1>9, <1>11
     DEF Counted, MutationIsLeased, PromisesKept, NotIdle, Idle
<1> QED
  BY <1>6, <1>10, <1>12 DEF GateInv

(* The exclusive lease is released. *)
LEMMA ReleaseExclusiveInv ==
    ASSUME GateInv, NEW f \in Fence, ReleaseExclusive(f)
    PROVE  GateInv'
<1> DEFINE s == [state[entry] EXCEPT !.mutation = None]
<1>1. lease[f] = entry /\ entry # None /\ entry \in Obj
  BY GateAssumption DEF ReleaseExclusive, GateInv, HoldersShare, GateTypeOK
<1>2. /\ Settle(entry, s) /\ drained' = [Woken(entry, s) EXCEPT ![f] = "none"]
      /\ lease' = [lease EXCEPT ![f] = None]
      /\ UNCHANGED <<permit, gone, threw>>
  BY <1>1 DEF ReleaseExclusive
<1>3. state[entry] \in [active : 0..Cardinality(Op), deleting : BOOLEAN,
                       mutation : Fence \cup {None}]
      /\ state[entry].active = Cardinality(Holders)
  BY <1>1 DEF GateInv, GateTypeOK, Counted
<1>4. /\ s \in [active : 0..Cardinality(Op), deleting : BOOLEAN, mutation : Fence \cup {None}]
      /\ s.deleting = state[entry].deleting /\ s.mutation = None
      /\ s.active = state[entry].active
  BY <1>3
<1>5. Holders' = Holders
  BY <1>2 DEF Holders
<1>6. permit' \in [Op -> Obj \cup {None}] /\ lease' \in [Fence -> Obj \cup {None}]
  BY <1>2 DEF GateInv, GateTypeOK
<1>7. drained' \in [Fence -> {"none", "waiting", "resolved"}]
  BY <1>2 DEF Woken, GateInv, GateTypeOK
<1>8. \A d \in Op : permit'[d] # None => permit'[d] = entry
  BY <1>2 DEF GateInv, HoldersShare
<1>9. \A g \in Fence : lease'[g] = None
  <2>1. \A g \in Fence : lease[g] # None => g = f
    BY <1>1 DEF GateInv, MutationIsLeased
  <2> QED
    BY <1>2, <2>1 DEF GateInv, GateTypeOK
<1> HIDE DEF s
<1> QED
  BY <1>1, <1>2, <1>3, <1>4, <1>5, <1>6, <1>7, <1>8, <1>9, SettleInv

(* A deletion blocks the gate. *)
LEMMA BlockInv == ASSUME GateInv, Block PROVE GateInv'
<1>1. PICK o \in Obj :
          /\ Found(o)
          /\ state' = [state EXCEPT ![o] = [Current(o) EXCEPT !.deleting = TRUE]]
          /\ entry' = o
          /\ lane' = [phase |-> IF Current(o).active = 0 /\ Current(o).mutation = None
                                THEN "clear" ELSE "blocking",
                      on |-> o]
  BY DEF Block
<1>2. UNCHANGED <<permit, lease, drained, gone, threw>> /\ lane.phase = "idle"
  BY DEF Block
<1> DEFINE s == [Current(o) EXCEPT !.deleting = TRUE]
<1>3. /\ s \in [active : 0..Cardinality(Op), deleting : BOOLEAN, mutation : Fence \cup {None}]
      /\ s.active = Cardinality(Holders) /\ s.active = Current(o).active
      /\ s.mutation = Current(o).mutation /\ s.deleting = TRUE
  BY <1>1, FoundObject
<1>4. state'[o] = s /\ Holders' = Holders
  BY <1>1, <1>2 DEF GateInv, GateTypeOK, Holders
<1>5. GateTypeOK'
  BY <1>1, <1>2, <1>3 DEF GateInv, GateTypeOK
<1>6. HoldersShare'
  BY <1>1, <1>2, FoundObject DEF HoldersShare
<1>7. MutationIsLeased'
  <2>1. CASE entry = None
    BY <1>1, <1>2, <1>3, <1>4, <2>1, FreeGate, FoundObject DEF MutationIsLeased, Current, Idle
  <2>2. CASE entry # None
    BY <1>1, <1>2, <1>3, <1>4, <2>2, FoundObject DEF MutationIsLeased, GateInv
  <2> QED
    BY <2>1, <2>2
<1>8. PromisesKept'
  <2>1. CASE entry = None
    BY <1>1, <1>2, <1>3, <1>4, <2>1, FreeGate DEF PromisesKept
  <2>2. CASE entry # None
    BY <1>1, <1>2, <1>3, <1>4, <2>2, FoundObject DEF PromisesKept, GateInv
  <2> QED
    BY <2>1, <2>2
<1>9. Counted' /\ NotIdle'
  BY <1>1, <1>3, <1>4 DEF Counted, NotIdle, Idle
<1> QED
  BY <1>5, <1>6, <1>7, <1>8, <1>9 DEF GateInv

(* The deletion gives the gate back, or fails to. *)
LEMMA OpenGateInv == ASSUME GateInv, OpenGate PROVE GateInv'
<1>1. /\ permit' = permit /\ lease' = lease /\ gone' = gone /\ drained' = drained
      /\ lane' = NoLane /\ threw' \in BOOLEAN
      /\ Holders' = Holders
  BY DEF OpenGate, GateInv, GateTypeOK, Holders
<1>2. CASE entry' = entry /\ state' = state
  BY <1>1, <1>2 DEF GateInv, GateTypeOK, HoldersShare, Counted, MutationIsLeased,
     PromisesKept, NotIdle, NoLane
<1>3. CASE /\ entry # None /\ ~Busy
           /\ state' = [state EXCEPT ![entry] = Unblocked]
           /\ entry' = IF Forget(entry, Unblocked) THEN None ELSE entry
  <2>1. /\ entry \in Obj
        /\ state[entry] \in [active : 0..Cardinality(Op), deleting : BOOLEAN,
                             mutation : Fence \cup {None}]
        /\ state[entry].active = 0 /\ state[entry].mutation = None
    BY <1>3 DEF Busy, GateInv, GateTypeOK
  <2>2. Unblocked = Idle
    BY <2>1 DEF Unblocked, Idle
  <2>3. entry' = None
    BY <1>3, <2>2 DEF Forget
  <2>4. \A c \in Op : permit[c] = None
    BY <1>3, <2>1, NoneActive DEF GateInv, Counted, Holders
  <2>5. \A f \in Fence : lease[f] = None
    BY <2>1, GateAssumption DEF GateInv, MutationIsLeased
  <2>6. Unblocked \in [active : 0..Cardinality(Op), deleting : BOOLEAN,
                      mutation : Fence \cup {None}]
    BY <2>1 DEF Unblocked
  <2>7. GateTypeOK'
    BY <1>1, <1>3, <2>1, <2>3, <2>6 DEF GateInv, GateTypeOK, NoLane
  <2> QED
    BY <1>1, <2>3, <2>4, <2>5, <2>7
       DEF GateInv, HoldersShare, Counted, MutationIsLeased, PromisesKept, NotIdle, NoLane
<1> QED
  BY <1>2, <1>3 DEF OpenGate

(* The remaining steps move the lane or the row only. *)
LEMMA LaneInv ==
    ASSUME GateInv, DeletionFails \/ Erase \/ ForeignErase
    PROVE  GateInv'
<1>1. /\ UNCHANGED <<entry, state, permit, lease, drained, threw>> /\ gone' \in BOOLEAN
      /\ \/ lane' = NoLane
         \/ lane.phase = "clear" /\ lane' = [lane EXCEPT !.phase = "erased"]
         \/ lane' = lane
  BY DEF DeletionFails, Erase, ForeignErase, GateInv, GateTypeOK
<1>2. Holders' = Holders
  BY <1>1 DEF Holders
<1>3. /\ lane' \in [phase : {"idle", "blocking", "clear", "erased"}, on : Obj \cup {None}]
      /\ lane'.phase # "idle" => lane.phase # "idle" /\ lane'.on = lane.on
      /\ lane'.phase \in {"clear", "erased"} => lane.phase \in {"clear", "erased"}
  BY <1>1 DEF GateInv, GateTypeOK, NoLane
<1> QED
  BY <1>1, <1>2, <1>3 DEF GateInv, GateTypeOK, HoldersShare, Counted, MutationIsLeased,
     PromisesKept, NotIdle

(* Every step keeps the invariant. *)
LEMMA GateStepInv == GateInv /\ [GateNext]_gateVars => GateInv'
<1> SUFFICES ASSUME GateInv, [GateNext]_gateVars PROVE GateInv'
  OBVIOUS
<1>1. CASE UNCHANGED gateVars
  BY <1>1 DEF gateVars, GateInv, GateTypeOK, HoldersShare, Counted, MutationIsLeased,
     PromisesKept, NotIdle, Holders
<1>2. CASE \E c \in Op : Enter(c) \/ Leave(c)
  BY <1>2, EnterInv, LeaveInv
<1>3. CASE \E f \in Fence : AcquireExclusive(f) \/ ReleaseExclusive(f)
  BY <1>3, AcquireInv, ReleaseExclusiveInv
<1>4. CASE Block
  BY <1>4, BlockInv
<1>5. CASE FinishDeletion \/ DeleteAbsent
  BY <1>5, OpenGateInv DEF FinishDeletion, DeleteAbsent
<1>6. CASE DeletionFails \/ Erase \/ ForeignErase
  BY <1>6, LaneInv
<1> QED
  BY <1>1, <1>2, <1>3, <1>4, <1>5, <1>6 DEF GateNext

(* The gate's invariant holds in every reachable state. *)
THEOREM GateInvariant == GateSpec => []GateInv
BY GateInitInv, GateStepInv, PTL DEF GateSpec

(* Type correctness, for any finite set of calls. *)
THEOREM GateTyped == GateSpec => []GateTypeOK
<1>1. GateInv => GateTypeOK
  BY DEF GateInv
<1> QED
  BY <1>1, GateInvariant, PTL

(* After block resolves nobody is inside until the deletion ends            *)
(* (session-turn-deletion.ts relies on it to find the session quiescent).   *)
THEOREM BlockExcludes == GateSpec => []BlockedMeansIdle
<1>1. GateInv => BlockedMeansIdle
  <2> SUFFICES ASSUME GateInv, lane.phase \in {"clear", "erased"}
               PROVE  Holders = {} /\ Fences = {}
    BY DEF BlockedMeansIdle
  <2>1. entry # None /\ state[entry].active = 0 /\ state[entry].mutation = None
    BY DEF GateInv, HoldersShare, PromisesKept
  <2>2. Holders = {}
    BY <2>1, NoneActive DEF GateInv, Counted
  <2>3. Fences = {}
    BY <2>1, GateAssumption DEF GateInv, MutationIsLeased, Fences
  <2> QED
    BY <2>2, <2>3
<1> QED
  BY <1>1, GateInvariant, PTL

(* A drained lease is alone (the handoff of turn-execution.service.ts).     *)
THEOREM DrainExcludes == GateSpec => []DrainedIsAlone
<1>1. GateInv => DrainedIsAlone
  <2> SUFFICES ASSUME GateInv, NEW f \in Fence, lease[f] # None, drained[f] = "resolved"
               PROVE  Holders = {} /\ Fences = {f}
    BY DEF DrainedIsAlone
  <2>1. entry # None /\ state[entry].active = 0 /\ state[entry].mutation = f
    BY DEF GateInv, HoldersShare, PromisesKept, MutationIsLeased
  <2>2. Holders = {}
    BY <2>1, NoneActive DEF GateInv, Counted
  <2>3. Fences = {f}
    BY <2>1 DEF GateInv, MutationIsLeased, Fences
  <2> QED
    BY <2>2, <2>3
<1> QED
  BY <1>1, GateInvariant, PTL

(* No exclusive lease is ever lost, so its release never throws.            *)
THEOREM LeaseStays == GateSpec => []LeaseNotLost
<1>1. GateInv => LeaseNotLost
  BY DEF GateInv, HoldersShare, MutationIsLeased, LeaseNotLost
<1> QED
  BY <1>1, GateInvariant, PTL

(* The map holds no idle session.                                           *)
THEOREM NoIdleEntry == GateSpec => []EntryIsNeeded
<1>1. GateInv => EntryIsNeeded
  <2> SUFFICES ASSUME GateInv, entry # None, Holders = {}, Fences = {}
               PROVE  state[entry].deleting
    BY DEF EntryIsNeeded
  <2>1. state[entry].active = 0
    BY NoneActive DEF GateInv, Counted
  <2>2. state[entry].mutation = None
    BY GateAssumption DEF GateInv, GateTypeOK, MutationIsLeased, Fences
  <2>3. state[entry] \in [active : 0..Cardinality(Op), deleting : BOOLEAN,
                         mutation : Fence \cup {None}]
    BY GateAssumption DEF GateInv, GateTypeOK
  <2> QED
    BY <2>1, <2>2, <2>3 DEF GateInv, NotIdle, Idle
<1> QED
  BY <1>1, GateInvariant, PTL

(* Who waits for the gate, said of the map's object: it still counts a      *)
(* caller, or carries a lease, that will wake the waiter when it leaves.    *)
Awaited ==
    /\ lane.phase = "blocking" =>
          state[entry].active # 0 \/ state[entry].mutation # None
    /\ \A f \in Fence : lease[f] # None /\ drained[f] = "waiting" =>
          state[entry].active # 0

(* settleState wakes everybody who waited for the holder that left last.    *)
LEMMA SettleWakes ==
    ASSUME GateInv, Awaited, entry # None, NEW s,
           s.deleting = state[entry].deleting,
           Settle(entry, s),
           \A f \in Fence : lease'[f] # None => lease[f] # None,
           \A f \in Fence : lease'[f] # None /\ drained'[f] = "waiting" =>
               s.active # 0
    PROVE  Awaited'
<1>1. state' = [state EXCEPT ![entry] = s] /\ entry \in Obj /\ state'[entry] = s
  BY DEF Settle, GateInv, GateTypeOK
<1>2. lane'.phase = "blocking" => s.active # 0 \/ s.mutation # None
  <2>1. lane.phase # "idle" => lane.on = entry
    BY DEF GateInv, HoldersShare
  <2>2. lane \in [phase : {"idle", "blocking", "clear", "erased"}, on : Obj \cup {None}]
    BY DEF GateInv, GateTypeOK
  <2> QED
    BY <2>1, <2>2 DEF Settle
<1>3. CASE s = Idle
  <2>1. s.active = 0 /\ s.mutation = None
    BY <1>3 DEF Idle
  <2> QED
    BY <1>2, <2>1 DEF Awaited
<1>4. CASE s # Idle
  <2>1. entry' = entry
    BY <1>4 DEF Settle, Forget
  <2> QED
    BY <1>1, <1>2, <2>1 DEF Awaited
<1> QED
  BY <1>3, <1>4

(* A call that leaves, or gives the exclusive lease back, wakes who waits.  *)
LEMMA ReleaseWakes ==
    ASSUME GateInv, Awaited,
           \/ \E c \in Op : Leave(c)
           \/ \E f \in Fence : ReleaseExclusive(f)
    PROVE  Awaited'
<1>1. ASSUME NEW c \in Op, Leave(c) PROVE Awaited'
  <2> DEFINE s == [state[entry] EXCEPT !.active = @ - 1]
  <2>1. permit[c] = entry /\ entry # None /\ entry \in Obj
    BY <1>1, GateAssumption DEF Leave, GateInv, HoldersShare, GateTypeOK
  <2>2. Settle(entry, s) /\ drained' = Woken(entry, s) /\ lease' = lease
    BY <1>1, <2>1 DEF Leave
  <2>3. s.deleting = state[entry].deleting
    BY <2>1 DEF GateInv, GateTypeOK
  <2>4. ASSUME NEW f \in Fence, lease'[f] # None, drained'[f] = "waiting"
        PROVE  s.active # 0
    <3>1. lease[f] = entry
      BY <2>2, <2>4 DEF GateInv, HoldersShare
    <3> HIDE DEF s
    <3>2. drained'[f] = IF s.active = 0 /\ lease[f] = entry /\ drained[f] = "waiting"
                        THEN "resolved" ELSE drained[f]
      BY <2>2 DEF Woken
    <3> QED
      BY <2>4, <3>1, <3>2
  <2> HIDE DEF s
  <2> QED
    BY <2>1, <2>2, <2>3, <2>4, SettleWakes
<1>2. ASSUME NEW f \in Fence, ReleaseExclusive(f) PROVE Awaited'
  <2> DEFINE s == [state[entry] EXCEPT !.mutation = None]
  <2>1. lease[f] = entry /\ entry # None /\ entry \in Obj
    BY <1>2, GateAssumption DEF ReleaseExclusive, GateInv, HoldersShare, GateTypeOK
  <2>2. Settle(entry, s) /\ lease' = [lease EXCEPT ![f] = None]
    BY <1>2, <2>1 DEF ReleaseExclusive
  <2>3. s.deleting = state[entry].deleting
    BY <2>1 DEF GateInv, GateTypeOK
  <2>4. \A g \in Fence : lease'[g] = None
    <3>1. \A g \in Fence : lease[g] # None => g = f
      BY <2>1 DEF GateInv, MutationIsLeased
    <3> QED
      BY <2>2, <3>1 DEF GateInv, GateTypeOK
  <2> HIDE DEF s
  <2> QED
    BY <2>1, <2>2, <2>3, <2>4, SettleWakes
<1> QED
  BY <1>1, <1>2

(* A caller that comes joins those who are waited for, and waits for a      *)
(* caller or a lease that it found inside.                                  *)
LEMMA ArrivalAwaits ==
    ASSUME GateInv, Awaited,
           \/ \E c \in Op : Enter(c)
           \/ \E f \in Fence : AcquireExclusive(f)
           \/ Block
    PROVE  Awaited'
<1>1. ASSUME NEW c \in Op, Enter(c) PROVE Awaited'
  <2>1. PICK o \in Obj :
            /\ Found(o)
            /\ state' = [state EXCEPT ![o] = [Current(o) EXCEPT !.active = @ + 1]]
            /\ entry' = o
    BY <1>1 DEF Enter
  <2>2. UNCHANGED <<lease, drained, lane>> /\ ~Closed
    BY <1>1 DEF Enter
  <2>3. ~Current(o).deleting /\ Current(o).mutation = None
    BY <2>1, <2>2 DEF Closed, Found, Current, Idle
  <2> QED
    BY <2>1, <2>2, <2>3, FoundObject DEF Awaited
<1>2. ASSUME NEW f \in Fence, AcquireExclusive(f) PROVE Awaited'
  <2>1. PICK o \in Obj :
            /\ Found(o)
            /\ state' = [state EXCEPT ![o] = [Current(o) EXCEPT !.mutation = f]]
            /\ entry' = o
            /\ lease' = [lease EXCEPT ![f] = o]
            /\ drained' = [drained EXCEPT
                   ![f] = IF Current(o).active = 0 THEN "resolved" ELSE "waiting"]
    BY <1>2 DEF AcquireExclusive
  <2>2. lane' = lane /\ ~Closed
    BY <1>2 DEF AcquireExclusive
  <2>3. ~Current(o).deleting /\ Current(o).mutation = None
    BY <2>1, <2>2 DEF Closed, Found, Current, Idle
  <2>4. /\ \A g \in Fence : lease'[g] # None => g = f
        /\ lane.phase = "idle"
    BY <2>1, <2>3, FoundObject DEF GateInv, GateTypeOK
  <2>5. state'[o].active = Current(o).active
    BY <2>1, FoundObject DEF GateInv, GateTypeOK
  <2>6. drained'[f] = "waiting" => Current(o).active # 0
    BY <2>1 DEF GateInv, GateTypeOK
  <2> QED
    BY <2>1, <2>2, <2>4, <2>5, <2>6 DEF Awaited
<1>3. ASSUME Block PROVE Awaited'
  <2>1. PICK o \in Obj :
            /\ Found(o)
            /\ state' = [state EXCEPT ![o] = [Current(o) EXCEPT !.deleting = TRUE]]
            /\ entry' = o
            /\ lane' = [phase |-> IF Current(o).active = 0 /\ Current(o).mutation = None
                                  THEN "clear" ELSE "blocking",
                        on |-> o]
    BY <1>3 DEF Block
  <2>2. UNCHANGED <<lease, drained>>
    BY <1>3 DEF Block
  <2>3. /\ state'[o].active = Current(o).active
        /\ state'[o].mutation = Current(o).mutation
    BY <2>1, FoundObject DEF GateInv, GateTypeOK
  <2>4. \A f \in Fence : lease[f] # None /\ drained[f] = "waiting" =>
            Current(o).active # 0
    BY <2>1, FoundObject, FreeGate DEF Awaited
  <2>5. lane'.phase = "blocking" => Current(o).active # 0 \/ Current(o).mutation # None
    BY <2>1
  <2> QED
    BY <2>1, <2>2, <2>3, <2>4, <2>5 DEF Awaited
<1> QED
  BY <1>1, <1>2, <1>3

(* A deletion that gives the gate back, or fails, leaves nobody waiting     *)
(* behind it; the session's row concerns no waiter.                         *)
LEMMA LaneAwaits ==
    ASSUME GateInv, Awaited, OpenGate \/ DeletionFails \/ Erase \/ ForeignErase
    PROVE  Awaited'
<1>1. UNCHANGED <<lease, drained>>
  BY DEF OpenGate, DeletionFails, Erase, ForeignErase
<1>2. lane'.phase = "blocking" => lane' = lane /\ UNCHANGED <<entry, state>>
  BY DEF OpenGate, DeletionFails, Erase, ForeignErase, NoLane, GateInv, GateTypeOK
<1>3. ASSUME NEW f \in Fence, lease[f] # None, drained[f] = "waiting"
      PROVE  UNCHANGED <<entry, state>>
  <2>1. state[entry].active # 0
    BY <1>3 DEF Awaited
  <2> QED
    BY <2>1 DEF OpenGate, Busy, DeletionFails, Erase, ForeignErase
<1> QED
  BY <1>1, <1>2, <1>3 DEF Awaited

(* Every step keeps a holder for every waiter.                              *)
LEMMA GateStepAwaited == GateInv /\ Awaited /\ [GateNext]_gateVars => Awaited'
<1> SUFFICES ASSUME GateInv, Awaited, [GateNext]_gateVars PROVE Awaited'
  OBVIOUS
<1>1. CASE UNCHANGED gateVars
  BY <1>1 DEF gateVars, Awaited
<1>2. CASE GateNext
  BY <1>2, ReleaseWakes, ArrivalAwaits, LaneAwaits DEF GateNext, FinishDeletion, DeleteAbsent
<1> QED
  BY <1>1, <1>2

(* Nobody waits for nobody: whoever a deletion or a lease awaits is inside, *)
(* so the wake is still to come (block and the drain of acquireExclusive in *)
(* session-operation-gate.ts). With the holders' own progress this is what  *)
(* BlockEnds rests on.                                                      *)
THEOREM WaitersHaveHolders == GateSpec => []WaitsForSomebody
<1>1. GateInit => Awaited
  BY DEF GateInit, Awaited, NoLane
<1>2. GateInv /\ Awaited => WaitsForSomebody
  <2> SUFFICES ASSUME GateInv, Awaited PROVE WaitsForSomebody
    OBVIOUS
  <2>1. entry # None /\ state[entry].active # 0 => Holders # {}
    BY NoneActive DEF GateInv, Counted
  <2>2. entry # None /\ state[entry].mutation # None => Fences # {}
    <3> SUFFICES ASSUME entry # None, state[entry].mutation # None PROVE Fences # {}
      OBVIOUS
    <3>1. state[entry].mutation \in Fence
      BY GateAssumption DEF GateInv, GateTypeOK
    <3> QED
      BY <3>1 DEF GateInv, MutationIsLeased, Fences
  <2>3. lane.phase = "blocking" => entry # None
    BY DEF GateInv, HoldersShare
  <2>4. \A f \in Fence : lease[f] # None => entry # None
    BY DEF GateInv, HoldersShare
  <2> QED
    BY <2>1, <2>2, <2>3, <2>4 DEF Awaited, WaitsForSomebody
<1> QED
  BY <1>1, <1>2, GateStepAwaited, GateInvariant, PTL DEF GateSpec

=============================================================================
