------------------------- MODULE TurnSteeringProofs -------------------------
(***************************************************************************)
(* Proofs about TurnSteering, for any messages of users and of others.     *)
(*                                                                         *)
(* The inductive invariant says who holds a message (HoldInv), which parts *)
(* of the controller, the host and the coordinator go together (PhaseInv), *)
(* what a batch's attempts have done (BatchInv, AttemptInv), and what each *)
(* of the three properties needs on top of that.                           *)
(***************************************************************************)
EXTENDS TurnSteering, TLAPS

Msgs(b) == batch[b].msgs
Users == accepted \cap User
Drained == drain.pc # "no"

(* Everything the Turn knows of it has accepted, and a message is in one   *)
(* hand at a time.                                                         *)
HoldInv ==
  /\ steering \subseteq accepted /\ hands \subseteq accepted /\ read \subseteq accepted
  /\ Members(fell) \subseteq accepted
  /\ \A b \in Batch : Msgs(b) \subseteq accepted
  /\ steering \cap hands = {} /\ steering \cap read = {} /\ hands \cap read = {}
  /\ \A m \in Members(fell) : m \notin steering /\ m \notin hands /\ m \notin read
  /\ \A b \in Batch : Msgs(b) \cap steering = {} /\ Msgs(b) \cap hands = {} /\ Msgs(b) \cap read = {}
  /\ Msgs("left") \cap Msgs("held") = {}

(* The controller, the host and the coordinator.                           *)
PhaseInv ==
  /\ phase # "running" => steering = {}
  /\ phase = "closing" => hands = {} /\ batch["held"].st = "none"
  /\ phase = "running" => \A b \in Batch : batch[b].st = "none"
  /\ batch["held"].st # "none" => hands = {}
  /\ coord # "host" => host = "ended"
  /\ phase = "gone" <=> coord = "done"
  /\ host = "closed" => phase # "running"
  /\ host = "ended" => early \/ phase # "running"

(* Nothing is done for a batch there is not.                               *)
BatchInv ==
  /\ \A b \in Batch :
       batch[b].st = "none" =>
         /\ Msgs(b) = {}
         /\ task[b] = "none"
         /\ row[b] = "none" /\ wake[b] = "none"
  /\ \A b \in Batch : batch[b].st # "none" => batch[b].route # "none"
  /\ \A b \in Batch : wake[b] # "none" => batch[b].cause = "exit-close"
  /\ \A b \in Members(drain.todo) : batch[b].st # "none"
  /\ drain.pc \in {"tried", "again"} <=> drain.todo # <<>>

(* What the attempts in flight have written, and what is still theirs.     *)
AttemptInv ==
  /\ \A m \in written : \E b \in Batch : Teardown(b) /\ m \in Msgs(b)
  /\ written \subseteq Members(fell)
  /\ written \cap unsure = {}
  /\ \A m \in Members(fell) : \A b \in Batch : m \in Msgs(b) => m \in written \/ m \in unsure
  /\ unsure \subseteq UNION {Msgs(b) : b \in Batch}
  /\ \A b \in Batch : row[b] # "none" => batch[b].route = "requeue" /\ ~Teardown(b)
  /\ \A b \in Batch : task[b] \in {"requeue", "pause"} => batch[b].route = "requeue"
  /\ \A b \in Batch : task[b] = "pause" => row[b] # "none"
  /\ \A b \in Batch : batch[b].st = "settled" /\ row[b] = "none" => Msgs(b) = {}

(* The messages of other producers.                                        *)
MachineInv ==
  /\ phase = "running" => accepted \cap Machine \subseteq read \cup steering \cup hands
  /\ phase = "closing" /\ host # "ended" => accepted \cap Machine \subseteq read
  /\ host = "closed" => accepted \cap Machine \subseteq read

(* Before the release and without a drain only the merged commit writes.   *)
OrderInv ==
  phase # "gone" /\ ~Drained =>
    /\ \A b \in Batch : task[b] # "teardown"
    /\ coord = "host" => fell = <<>> /\ \A b \in Batch : task[b] # "merged"
    /\ \A j, k \in 1..Len(fell) : j < k => fell[j] < fell[k]
    /\ \A b \in Batch : task[b] = "merged" =>
         \A m \in Members(fell) : \A n \in Unwritten(b) : m < n

(* A batch is tried again after it was settled only by a drain, when its   *)
(* row, which nobody takes any more, still stands in the queue.            *)
ParkInv ==
  /\ \A b \in Batch : batch[b].st = "settled" /\ task[b] # "none" => Drained
  /\ \A b \in Batch :
       batch[b].st = "settled" /\ (task[b] = "requeue" \/ b \in Members(drain.todo)) =>
         row[b] = "queued" \/ Msgs(b) = {}
  /\ \A b \in Batch :
       Drained /\ task[b] = "pause" => (drain.pc = "flights" /\ b \in drain.on) \/ row[b] = "queued"
  /\ StoppedStaysParked

SteerInv ==
  SteeringTypeOK /\ HoldInv /\ PhaseInv /\ BatchInv /\ AttemptInv /\ MachineInv /\ OrderInv /\ ParkInv

-----------------------------------------------------------------------------
(* Types *)

BatchType == [Batch -> [st    : {"none", "pending", "settled"},
                        msgs  : SUBSET User,
                        cause : {"none", "user-stop", "abort", "abnormal-seal", "exit-close"},
                        route : {"none", "teardown", "requeue"}]]
TaskType  == [Batch -> {"none", "teardown", "merged", "requeue", "pause"}]
LaneType  == [Batch -> [at : {"none", "parked", "first", "second", "last", "over"},
                        waits : BOOLEAN]]
DrainType == [pc : {"no", "flights", "tried", "again", "last", "done"},
              todo : Seq(Batch), on : SUBSET Batch]

LEMMA AppendMembers ==
  ASSUME NEW s \in Seq(User), NEW m \in User
  PROVE  /\ Append(s, m) \in Seq(User)
         /\ Members(Append(s, m)) = Members(s) \cup {m}
<1>1. Append(s, m) \in Seq(User) /\ Len(Append(s, m)) = Len(s) + 1
  OBVIOUS
<1>2. \A k \in 1..(Len(s) + 1) : Append(s, m)[k] = IF k = Len(s) + 1 THEN m ELSE s[k]
  OBVIOUS
<1>3. 1..(Len(s) + 1) = 1..Len(s) \cup {Len(s) + 1}
  OBVIOUS
<1>4. ASSUME NEW x \in Members(Append(s, m)) PROVE x \in Members(s) \cup {m}
  <2>1. PICK k \in 1..Len(Append(s, m)) : x = Append(s, m)[k]
    BY DEF Members
  <2> QED
    BY <1>1, <1>2, <1>3, <2>1 DEF Members
<1>5. ASSUME NEW x \in Members(s) PROVE x \in Members(Append(s, m))
  <2>1. PICK k \in 1..Len(s) : x = s[k]
    BY DEF Members
  <2>2. k # Len(s) + 1 /\ k \in 1..Len(Append(s, m)) /\ Append(s, m)[k] = x
    BY <1>1, <1>2, <1>3, <2>1
  <2> QED
    BY <2>2 DEF Members
<1>6. m \in Members(Append(s, m))
  <2>1. Len(s) + 1 \in 1..Len(Append(s, m)) /\ Append(s, m)[Len(s) + 1] = m
    BY <1>1, <1>2
  <2> QED
    BY <2>1 DEF Members
<1> QED
  BY <1>1, <1>4, <1>5, <1>6

LEMMA DiscardType ==
  ASSUME batch \in BatchType, task \in TaskType, lane \in LaneType,
         NEW b \in Batch, NEW msgs, NEW cause \in {"user-stop", "abort", "abnormal-seal", "exit-close"},
         Discard(b, msgs, cause)
  PROVE  batch' \in BatchType /\ task' \in TaskType /\ lane' \in LaneType
<1>1. CASE msgs \cap User = {}
  BY <1>1 DEF Discard
<1>2. CASE msgs \cap User # {}
  <2>1. batch' \in BatchType
    BY <1>2 DEF Discard, BatchType
  <2>2. task' \in TaskType
    BY <1>2 DEF Discard, TaskType
  <2>3. lane' \in LaneType
    <3> DEFINE waits == (IF cause = "exit-close" THEN "requeue" ELSE "teardown") = "requeue"
    <3>1. lane' = [lane EXCEPT ![b] = [at |-> "parked", waits |-> waits]]
      BY <1>2, Zenon DEF Discard
    <3>2. waits \in BOOLEAN
      OBVIOUS
    <3> HIDE DEF waits
    <3> QED
      BY <3>1, <3>2 DEF LaneType
  <2> QED
    BY <2>1, <2>2, <2>3
<1> QED
  BY <1>1, <1>2

(* What a discard does, and that it does nothing without messages of users. *)
Discarded(b, msgs, cause) ==
  /\ batch' \in BatchType /\ task' \in TaskType /\ lane' \in LaneType
  /\ \A c \in Batch \ {b} : batch'[c] = batch[c] /\ task'[c] = task[c]
  /\ \/ /\ msgs \cap User = {}
        /\ batch'[b] = batch[b] /\ task'[b] = task[b]
     \/ /\ msgs \cap User # {}
        /\ batch'[b].st = "pending"
        /\ batch'[b].msgs = msgs \cap User
        /\ batch'[b].cause = cause
        /\ batch'[b].route = IF cause = "exit-close" THEN "requeue" ELSE "teardown"
        /\ task'[b] = IF cause = "exit-close" THEN "requeue" ELSE "none"

LEMMA DiscardFacts ==
  ASSUME batch \in BatchType, task \in TaskType, lane \in LaneType,
         NEW b \in Batch, NEW msgs, NEW cause \in {"user-stop", "abort", "abnormal-seal", "exit-close"},
         Discard(b, msgs, cause)
  PROVE  Discarded(b, msgs, cause)
<1>1. batch' \in BatchType /\ task' \in TaskType /\ lane' \in LaneType
  BY DiscardType
<1>2. CASE msgs \cap User = {}
  BY <1>1, <1>2 DEF Discard, Discarded
<1>3. CASE msgs \cap User # {}
  BY <1>1, <1>3 DEF Discard, Discarded, BatchType, TaskType
<1> QED
  BY <1>2, <1>3

LEMMA EndAttemptType ==
  ASSUME task \in TaskType, lane \in LaneType, drain \in DrainType,
         NEW S \in SUBSET Batch, EndAttempt(S)
  PROVE  /\ task' \in TaskType /\ lane' \in LaneType /\ drain' \in DrainType
         /\ \A b \in Batch : task'[b] = IF b \in S THEN "none" ELSE task[b]
         /\ drain'.pc = drain.pc /\ drain'.todo = drain.todo /\ drain'.on = drain.on \ S
BY DEF EndAttempt, TaskType, LaneType, DrainType

(* What the end of a requeue does. *)
Requeued(b, ok) ==
  /\ batch' \in BatchType /\ task' \in TaskType /\ lane' \in LaneType /\ drain' \in DrainType
  /\ wake' \in [Batch -> {"none", "due", "sent"}]
  /\ \A c \in Batch : /\ batch'[c].msgs = batch[c].msgs
                      /\ batch'[c].cause = batch[c].cause
                      /\ batch'[c].route = batch[c].route
                      /\ batch'[c].st = IF ok /\ c = b THEN "settled" ELSE batch[c].st
                      /\ task'[c] = IF c = b THEN "none" ELSE task[c]
                      /\ wake'[c] # wake[c] => c = b /\ ok /\ batch[b].cause = "exit-close"
  /\ drain'.pc = drain.pc /\ drain'.todo = drain.todo /\ drain'.on = drain.on \ {b}

LEMMA EndRequeueFacts ==
  ASSUME batch \in BatchType, task \in TaskType, lane \in LaneType, drain \in DrainType,
         wake \in [Batch -> {"none", "due", "sent"}],
         NEW b \in Batch, NEW ok \in BOOLEAN, EndRequeue(b, ok)
  PROVE  Requeued(b, ok)
<1>1. batch' \in BatchType /\ wake' \in [Batch -> {"none", "due", "sent"}]
  BY DEF EndRequeue, BatchType
<1>2. EndAttempt({b})
  BY DEF EndRequeue
<1>3. \A c \in Batch : /\ batch'[c].msgs = batch[c].msgs
                       /\ batch'[c].cause = batch[c].cause
                       /\ batch'[c].route = batch[c].route
                       /\ batch'[c].st = IF ok /\ c = b THEN "settled" ELSE batch[c].st
                       /\ wake'[c] # wake[c] => c = b /\ ok /\ batch[b].cause = "exit-close"
  BY DEF EndRequeue, BatchType
<1> QED
  BY <1>1, <1>2, <1>3, EndAttemptType DEF Requeued

LEMMA Kinds ==
  SteeringTypeOK <=> /\ SteeringTypeOK
                     /\ batch \in BatchType /\ task \in TaskType /\ lane \in LaneType
                     /\ drain \in DrainType
BY DEF SteeringTypeOK, BatchType, TaskType, LaneType, DrainType

(* The state's types, put together again. *)
LEMMA TypesAfter ==
  ASSUME /\ (/\ phase \in {"running", "closing", "user-stop", "abort", "gone"}
             /\ steering \subseteq Message
             /\ accepted \subseteq Message)'
         /\ (/\ host \in {"fence", "work", "poll", "answer", "closed", "failing", "ended"}
             /\ hands \subseteq Message
             /\ host # "poll" => hands = {}
             /\ exit \in BOOLEAN /\ refused \in BOOLEAN /\ early \in BOOLEAN)'
         /\ (coord \in {"host", "commit", "done", "stuck"})'
         /\ (read \subseteq Message /\ fell \in Seq(User) /\ unsure \subseteq Members(fell))'
         /\ (batch \in BatchType /\ task \in TaskType /\ lane \in LaneType /\ drain \in DrainType)'
         /\ (\A b \in Batch : task[b] # "none" => batch[b].st # "none")'
         /\ (written \subseteq User)'
         /\ (/\ row \in [Batch -> {"none", "queued", "taken"}]
             /\ paused \in BOOLEAN /\ lifted \in BOOLEAN
             /\ wake \in [Batch -> {"none", "due", "sent"}])'
  PROVE  SteeringTypeOK'
BY DEF SteeringTypeOK, BatchType, TaskType, LaneType, DrainType

(* The drain of a shutdown begins. *)
ShutsDown ==
  /\ drain.pc = "no"
  /\ drain' = [pc |-> "flights", todo |-> <<>>, on |-> InFlight]

(* The batches after a discard, when there was none in its place. *)
LEMMA DiscardKeeps ==
  ASSUME SteerInv, NEW b \in Batch, NEW msgs, NEW cause,
         Discarded(b, msgs, cause), batch[b].st = "none" \/ msgs \cap User = {},
         \A m \in Members(fell) : m \notin msgs,
         drain' = drain \/ ShutsDown,
         UNCHANGED <<fell, unsure, written, row, paused, lifted, wake>>
  PROVE  BatchInv' /\ AttemptInv' /\ ParkInv'
<1>1. \A c \in Batch : \/ batch'[c] = batch[c] /\ task'[c] = task[c]
                       \/ /\ batch[c].st = "none"
                          /\ batch'[c].st = "pending"
                          /\ batch'[c].msgs = msgs \cap User
                          /\ task'[c] \in {"none", "requeue"}
                          /\ batch'[c].route # "none"
                          /\ task'[c] = "requeue" => batch'[c].route = "requeue"
  BY DEF Discarded
<1>2. /\ \A c \in Batch : wake'[c] = wake[c] /\ row'[c] = row[c]
      /\ Members(drain.todo)' = Members(drain.todo)
  <2>1. CASE drain' = drain
    BY <2>1 DEF Members
  <2>2. CASE ShutsDown
    BY <2>2 DEF ShutsDown, SteerInv, BatchInv
  <2> QED
    BY <2>1, <2>2
<1>3. BatchInv'
  <2>1. \A c \in Batch : batch'[c].st = "none" => batch'[c].msgs = {} /\ task'[c] = "none"
                                                /\ row'[c] = "none" /\ wake'[c] = "none"
    BY <1>1, <1>2 DEF SteerInv, BatchInv, Msgs
  <2>2. \A c \in Batch : wake'[c] # "none" => batch'[c].cause = "exit-close"
    BY <1>1, <1>2 DEF SteerInv, BatchInv
  <2>3. \A c \in Members(drain.todo)' : c \in Batch /\ batch'[c].st # "none"
    <3>1. Members(drain.todo) \subseteq Batch
      BY Kinds DEF SteerInv, Members, DrainType
    <3> QED
      BY <1>1, <1>2, <3>1 DEF SteerInv, BatchInv
  <2>4. drain'.pc \in {"tried", "again"} <=> drain'.todo # <<>>
    BY DEF SteerInv, BatchInv, ShutsDown
  <2>5. \A c \in Batch : batch'[c].st # "none" => batch'[c].route # "none"
    BY <1>1 DEF SteerInv, BatchInv, Discarded
  <2> QED
    BY <2>1, <2>2, <2>3, <2>4, <2>5 DEF BatchInv, Msgs
<1>4. AttemptInv'
  BY <1>1, <1>2 DEF SteerInv, AttemptInv, BatchInv, Msgs, Teardown
<1>5. ParkInv'
  <2>1. CASE drain' = drain
    BY <1>1, <1>2, <2>1 DEF SteerInv, ParkInv, BatchInv, Msgs, Drained, StoppedStaysParked
  <2>2. CASE ShutsDown
    <3>1. Drained' /\ drain'.pc = "flights" /\ drain'.on = InFlight /\ Members(drain.todo)' = {}
      BY <2>2 DEF ShutsDown, Drained, Members
    <3>2. \A c \in Batch : batch'[c].st = "settled" => task'[c] = "none"
      BY <1>1, <2>2 DEF SteerInv, ParkInv, ShutsDown, Drained
    <3>3. \A c \in Batch : task'[c] = "pause" => c \in InFlight
      BY <1>1 DEF InFlight
    <3>4. StoppedStaysParked'
      BY <1>1, <1>2 DEF SteerInv, ParkInv, BatchInv, StoppedStaysParked
    <3> QED
      BY <3>1, <3>2, <3>3, <3>4 DEF ParkInv
  <2> QED
    BY <2>1, <2>2
<1> QED
  BY <1>3, <1>4, <1>5

LEMMA AbortStep ==
  ASSUME SteeringAssumption, SteerInv, NEW cause \in {"user-stop", "abort"}, Abort(cause)
  PROVE  SteerInv'
<1>1. /\ batch \in BatchType /\ task \in TaskType /\ lane \in LaneType
      /\ drain \in DrainType
  BY Kinds DEF SteerInv
<1>2. Discarded("left", steering, cause)
  BY <1>1, DiscardFacts DEF Batch, Abort, AbortEntry, Aborted
<1>3. /\ batch["left"].st = "none" \/ steering \cap User = {}
      /\ \A m \in Members(fell) : m \notin steering
  BY DEF SteerInv, HoldInv, PhaseInv, Batch, Abort, AbortEntry, Aborted
<1>4. BatchInv' /\ AttemptInv' /\ ParkInv'
  BY <1>2, <1>3, DiscardKeeps DEF Batch, Abort, AbortEntry, Aborted, texts, queue
<1>5. SteeringTypeOK'
  BY <1>1, <1>2, TypesAfter DEF Discarded, SteerInv, SteeringTypeOK, Message, Abort, AbortEntry,
     Aborted, entry, runner, texts, queue
<1>6. HoldInv'
  BY <1>1, <1>2 DEF SteerInv, HoldInv, PhaseInv, BatchInv, Discarded, Msgs, Batch, Abort,
     AbortEntry, Aborted, entry, runner, texts
<1>7. PhaseInv'
  BY <1>1, <1>2 DEF SteerInv, SteeringTypeOK, HoldInv, PhaseInv, Discarded, Batch, Abort,
     AbortEntry, Aborted, entry, runner
<1>8. MachineInv'
  BY <1>1, <1>2 DEF SteerInv, SteeringTypeOK, PhaseInv, MachineInv, Abort, AbortEntry, Aborted,
     entry, runner, texts
<1>9. OrderInv'
  BY <1>1, <1>2 DEF SteerInv, SteeringTypeOK, PhaseInv, BatchInv, OrderInv, Discarded, Drained,
     Unwritten, Together, Batch, Abort, AbortEntry, Aborted, entry, runner, texts
<1> QED
  BY <1>4, <1>5, <1>6, <1>7, <1>8, <1>9 DEF SteerInv

LEMMA SealStep ==
  ASSUME SteeringAssumption, SteerInv, Seal
  PROVE  SteerInv'
<1>1. /\ batch \in BatchType /\ task \in TaskType /\ lane \in LaneType
      /\ drain \in DrainType
  BY Kinds DEF SteerInv
<1>2. Discarded("left", steering, (IF Aborted THEN phase ELSE "abnormal-seal"))
  BY <1>1, DiscardFacts DEF Batch, Seal, Aborted
<1>3. /\ batch["left"].st = "none" \/ steering \cap User = {}
      /\ \A m \in Members(fell) : m \notin steering
  BY DEF SteerInv, HoldInv, PhaseInv, Batch, Seal, Aborted
<1>4. BatchInv' /\ AttemptInv' /\ ParkInv'
  BY <1>2, <1>3, DiscardKeeps DEF Batch, Seal, Aborted, texts, queue
<1>5. SteeringTypeOK'
  <2>1. (/\ phase \in {"running", "closing", "user-stop", "abort", "gone"}
         /\ steering \subseteq Message
         /\ accepted \subseteq Message)'
    BY DEF SteerInv, SteeringTypeOK, Seal, Aborted
  <2>2. (/\ host \in {"fence", "work", "poll", "answer", "closed", "failing", "ended"}
         /\ hands \subseteq Message
         /\ host # "poll" => hands = {}
         /\ exit \in BOOLEAN /\ refused \in BOOLEAN /\ early \in BOOLEAN)'
    BY DEF SteerInv, SteeringTypeOK, Seal
  <2>3. (batch \in BatchType /\ task \in TaskType /\ lane \in LaneType /\ drain \in DrainType)'
    BY <1>1, <1>2 DEF Discarded, Seal
  <2>4. (\A b \in Batch : task[b] # "none" => batch[b].st # "none")'
    BY <1>2 DEF Discarded, SteerInv, SteeringTypeOK
  <2>5. /\ (coord \in {"host", "commit", "done", "stuck"})'
        /\ (read \subseteq Message /\ fell \in Seq(User) /\ unsure \subseteq Members(fell))'
        /\ (written \subseteq User)'
        /\ (/\ row \in [Batch -> {"none", "queued", "taken"}]
            /\ paused \in BOOLEAN /\ lifted \in BOOLEAN
            /\ wake \in [Batch -> {"none", "due", "sent"}])'
    BY DEF SteerInv, SteeringTypeOK, Seal, texts, queue
  <2> QED
    BY <2>1, <2>2, <2>3, <2>4, <2>5, TypesAfter
<1>6. HoldInv'
  BY <1>1, <1>2 DEF SteerInv, HoldInv, PhaseInv, BatchInv, Discarded, Msgs, Batch, Seal,
     Aborted, entry, runner, texts
<1>7. PhaseInv'
  BY <1>1, <1>2 DEF SteerInv, SteeringTypeOK, HoldInv, PhaseInv, Discarded, Batch, Seal,
     Aborted, entry, runner
<1>8. MachineInv'
  BY <1>1, <1>2 DEF SteerInv, SteeringTypeOK, PhaseInv, MachineInv, Seal, Aborted, entry,
     runner, texts
<1>9. OrderInv'
  BY <1>1, <1>2 DEF SteerInv, SteeringTypeOK, PhaseInv, BatchInv, OrderInv, Discarded, Drained,
     Unwritten, Together, Batch, Seal, Aborted, entry, runner, texts
<1> QED
  BY <1>4, <1>5, <1>6, <1>7, <1>8, <1>9 DEF SteerInv

LEMMA CloseStep ==
  ASSUME SteeringAssumption, SteerInv, host = "answer", ~Aborted, ~HoldsClose, Close,
         UNCHANGED <<accepted, hands, exit, early, coord, texts, written, drain, queue>>
  PROVE  SteerInv'
<1>1. /\ batch \in BatchType /\ task \in TaskType /\ lane \in LaneType
      /\ drain \in DrainType
  BY Kinds DEF SteerInv
<1>2. Discarded("left", steering, "exit-close")
  BY <1>1, DiscardFacts DEF Batch, Close, HoldsClose, Aborted
<1>3. /\ batch["left"].st = "none" \/ steering \cap User = {}
      /\ \A m \in Members(fell) : m \notin steering
  BY DEF SteerInv, HoldInv, PhaseInv, Batch, Close, HoldsClose, Aborted
<1>4. BatchInv' /\ AttemptInv' /\ ParkInv'
  BY <1>2, <1>3, DiscardKeeps DEF Batch, Close, HoldsClose, Aborted, texts, queue
<1>5. SteeringTypeOK'
  BY <1>1, <1>2, TypesAfter DEF Discarded, SteerInv, SteeringTypeOK, Message, Close, HoldsClose,
     Aborted, entry, runner, texts, queue
<1>6. HoldInv'
  BY <1>1, <1>2 DEF SteerInv, HoldInv, PhaseInv, BatchInv, Discarded, Msgs, Batch, Close,
     HoldsClose, Aborted, entry, runner, texts
<1>7. PhaseInv'
  BY <1>1, <1>2 DEF SteerInv, SteeringTypeOK, HoldInv, PhaseInv, Discarded, Batch, Close,
     HoldsClose, Aborted, entry, runner
<1>8. MachineInv'
  BY <1>1, <1>2 DEF SteerInv, SteeringTypeOK, PhaseInv, MachineInv, Close, HoldsClose, Aborted,
     entry, runner, texts
<1>9. OrderInv'
  BY <1>1, <1>2 DEF SteerInv, SteeringTypeOK, PhaseInv, BatchInv, OrderInv, Discarded, Drained,
     Unwritten, Together, Batch, Close, HoldsClose, Aborted, entry, runner, texts
<1> QED
  BY <1>4, <1>5, <1>6, <1>7, <1>8, <1>9 DEF SteerInv

LEMMA ShutdownStep ==
  ASSUME SteeringAssumption, SteerInv, Shutdown
  PROVE  SteerInv'
<1>1. /\ batch \in BatchType /\ task \in TaskType /\ lane \in LaneType
      /\ drain \in DrainType
  BY Kinds DEF SteerInv
<1>2. ShutsDown /\ UNCHANGED <<runner, coord, texts, written, queue>>
  BY DEF Shutdown, ShutsDown
<1>3. /\ Discarded("left", steering, "abort")
      /\ accepted' = accepted /\ steering' = {}
      /\ phase' = IF phase \in {"running", "closing"} THEN "abort" ELSE phase
  <2>1. CASE phase \in {"running", "closing"}
    BY <1>1, <2>1, DiscardFacts DEF Shutdown, AbortEntry, Batch
  <2>2. CASE phase \notin {"running", "closing"}
    BY <1>1, <2>2 DEF Shutdown, Discarded, entry, SteerInv, PhaseInv
  <2> QED
    BY <2>1, <2>2
<1>4. /\ batch["left"].st = "none" \/ steering \cap User = {}
      /\ \A m \in Members(fell) : m \notin steering
  BY DEF SteerInv, HoldInv, PhaseInv, Batch
<1>5. BatchInv' /\ AttemptInv' /\ ParkInv'
  BY <1>2, <1>3, <1>4, DiscardKeeps DEF Batch, texts, queue
<1>6. SteeringTypeOK'
  <2>1. drain' \in DrainType
    BY <1>2 DEF ShutsDown, DrainType, InFlight
  <2>2. (\A b \in Batch : task[b] # "none" => batch[b].st # "none")'
    BY <1>3 DEF Discarded, SteerInv, SteeringTypeOK
  <2> QED
    BY <1>1, <1>2, <1>3, <2>1, <2>2, TypesAfter DEF Discarded, SteerInv, SteeringTypeOK, runner,
       texts, queue
<1>7. HoldInv'
  BY <1>1, <1>2, <1>3 DEF SteerInv, HoldInv, PhaseInv, BatchInv, Discarded, Msgs, Batch, runner,
     texts
<1>8. PhaseInv'
  BY <1>1, <1>2, <1>3 DEF SteerInv, SteeringTypeOK, HoldInv, PhaseInv, Discarded, Batch, runner
<1>9. MachineInv'
  BY <1>2, <1>3 DEF SteerInv, SteeringTypeOK, PhaseInv, MachineInv, runner, texts
<1>10. OrderInv'
  BY <1>2 DEF ShutsDown, OrderInv, Drained
<1> QED
  BY <1>5, <1>6, <1>7, <1>8, <1>9, <1>10 DEF SteerInv

LEMMA HandBackStep ==
  ASSUME SteeringAssumption, SteerInv, host = "poll", Aborted, NEW rest \in SUBSET hands,
         Discard("held", rest, phase), hands' = {}, host' \in {"answer", "work", "failing"},
         refused' \in BOOLEAN, read' = read \cup (hands \ rest),
         UNCHANGED <<phase, steering, accepted, exit, early, coord, fell, unsure, written, drain, queue>>
  PROVE  SteerInv'
<1>1. /\ batch \in BatchType /\ task \in TaskType /\ lane \in LaneType
      /\ drain \in DrainType
  BY Kinds DEF SteerInv
<1>2. Discarded("held", rest, phase)
  BY <1>1, DiscardFacts DEF Batch, Aborted
<1>3. /\ batch["held"].st = "none" \/ rest \cap User = {}
      /\ \A m \in Members(fell) : m \notin rest
  BY DEF SteerInv, HoldInv, PhaseInv, Batch, Aborted
<1>4. BatchInv' /\ AttemptInv' /\ ParkInv'
  BY <1>2, <1>3, DiscardKeeps DEF Batch, Aborted, texts, queue
<1>5. SteeringTypeOK'
  <2>1. (/\ host \in {"fence", "work", "poll", "answer", "closed", "failing", "ended"}
         /\ hands \subseteq Message
         /\ (host # "poll" => hands = {})
         /\ exit \in BOOLEAN /\ refused \in BOOLEAN /\ early \in BOOLEAN)'
    BY DEF SteerInv, SteeringTypeOK
  <2>2. (read \subseteq Message /\ fell \in Seq(User) /\ unsure \subseteq Members(fell))'
    BY DEF SteerInv, SteeringTypeOK
  <2>3. (\A b \in Batch : task[b] # "none" => batch[b].st # "none")'
    BY <1>2 DEF Discarded, SteerInv, SteeringTypeOK
  <2> QED
    BY <1>1, <1>2, <2>1, <2>2, <2>3, TypesAfter DEF Discarded, SteerInv, SteeringTypeOK, queue
<1>6. HoldInv'
  BY <1>1, <1>2 DEF SteerInv, HoldInv, PhaseInv, BatchInv, Discarded, Msgs, Batch, Aborted,
     entry, runner, texts
<1>7. PhaseInv'
  BY <1>1, <1>2 DEF SteerInv, SteeringTypeOK, HoldInv, PhaseInv, Discarded, Batch, Aborted,
     entry, runner
<1>8. MachineInv'
  BY <1>1, <1>2 DEF SteerInv, SteeringTypeOK, PhaseInv, MachineInv, Aborted, entry, runner, texts
<1>9. OrderInv'
  BY <1>1, <1>2 DEF SteerInv, SteeringTypeOK, PhaseInv, BatchInv, OrderInv, Discarded, Drained,
     Unwritten, Together, Batch, Aborted, entry, runner, texts
<1> QED
  BY <1>4, <1>5, <1>6, <1>7, <1>8, <1>9 DEF SteerInv

LEMMA PutBackStep ==
  ASSUME SteeringAssumption, SteerInv, host = "poll", ~Aborted, NEW rest \in SUBSET hands, hands' = {},
         host' \in {"answer", "work", "failing"}, refused' \in BOOLEAN,
         read' = read \cup (hands \ rest), steering' = steering \cup rest,
         UNCHANGED <<phase, accepted, batch, task, lane, exit, early, coord, fell, unsure,
                     written, drain, queue>>
  PROVE  SteerInv'
<1>1. SteeringTypeOK'
  BY DEF SteerInv, SteeringTypeOK, entry, runner, texts, tracked, queue
<1>2. HoldInv'
  BY DEF SteerInv, HoldInv, Msgs, entry, runner, texts, tracked
<1>3. PhaseInv'
  BY DEF SteerInv, SteeringTypeOK, PhaseInv, entry, runner, texts, tracked, Aborted
<1>4. BatchInv'
  BY DEF SteerInv, BatchInv, Msgs, entry, runner, texts, tracked, queue
<1>5. AttemptInv'
  BY DEF SteerInv, AttemptInv, Msgs, Teardown, entry, runner, texts, tracked, queue
<1>6. MachineInv'
  BY DEF SteerInv, MachineInv, entry, runner, texts, tracked
<1>7. OrderInv'
  BY DEF SteerInv, OrderInv, Drained, Unwritten, Together, entry, runner, texts, tracked
<1>8. ParkInv'
  BY DEF SteerInv, ParkInv, Msgs, Drained, StoppedStaysParked, entry, runner, texts, tracked, queue
<1> QED
  BY <1>1, <1>2, <1>3, <1>4, <1>5, <1>6, <1>7, <1>8 DEF SteerInv

LEMMA ConsumeStep ==
  ASSUME SteeringAssumption, SteerInv, NEW stops \in BOOLEAN, Consume(stops)
  PROVE  SteerInv'
<1> DEFINE taken == IF stops THEN {} ELSE hands \ (IF exit THEN User ELSE {})
<1> DEFINE rest == hands \ taken
<1>1. /\ taken \subseteq hands /\ rest \in SUBSET hands /\ hands \ rest = taken
  OBVIOUS
<1>2. /\ host = "poll" /\ read' = read \cup taken /\ Restore(rest)
      /\ host' \in {"answer", "work", "failing"}
      /\ UNCHANGED <<exit, early, coord, fell, unsure, written, drain, queue>>
  BY DEF Consume
<1>3. refused' \in BOOLEAN
  BY DEF Consume, SteerInv, SteeringTypeOK
<1> HIDE DEF taken, rest
<1>4. CASE Aborted
  BY <1>1, <1>2, <1>3, <1>4, HandBackStep DEF Restore
<1>5. CASE ~Aborted
  BY <1>1, <1>2, <1>3, <1>5, PutBackStep DEF Restore
<1> QED
  BY <1>4, <1>5

LEMMA PollThrowsStep ==
  ASSUME SteeringAssumption, SteerInv, PollThrows
  PROVE  SteerInv'
<1>1. /\ host = "poll" /\ hands \in SUBSET hands /\ read' = read \cup (hands \ hands)
      /\ host' \in {"answer", "work", "failing"} /\ refused' \in BOOLEAN /\ Restore(hands)
      /\ UNCHANGED <<exit, early, coord, fell, unsure, written, drain, queue>>
  BY DEF PollThrows, SteerInv, SteeringTypeOK, texts
<1>2. CASE Aborted
  BY <1>1, <1>2, HandBackStep DEF Restore
<1>3. CASE ~Aborted
  BY <1>1, <1>3, PutBackStep DEF Restore
<1> QED
  BY <1>2, <1>3

LEMMA SteerStep ==
  ASSUME SteeringAssumption, SteerInv, NEW m \in Message, Steer(m)
  PROVE  SteerInv'
<1>1. SteeringTypeOK'
  BY DEF SteerInv, SteeringTypeOK, entry, runner, texts, tracked, queue, Steer
<1>2. HoldInv'
  BY DEF SteerInv, HoldInv, Msgs, entry, runner, texts, tracked, queue, Steer
<1>3. PhaseInv'
  BY DEF SteerInv, PhaseInv, entry, runner, texts, tracked, queue, Steer
<1>4. BatchInv'
  BY DEF SteerInv, BatchInv, Msgs, entry, runner, texts, tracked, queue, Steer
<1>5. AttemptInv'
  BY DEF SteerInv, AttemptInv, Msgs, Teardown, entry, runner, texts, tracked, queue, Steer
<1>6. MachineInv'
  BY DEF SteerInv, SteeringTypeOK, PhaseInv, MachineInv, entry, runner, texts, tracked, queue, Steer
<1>7. OrderInv'
  BY DEF SteerInv, OrderInv, Drained, Unwritten, Together, entry, runner, texts, tracked, queue,
     Steer
<1>8. ParkInv'
  BY DEF SteerInv, ParkInv, Msgs, Drained, StoppedStaysParked, entry, runner, texts, tracked,
     queue, Steer
<1> QED
  BY <1>1, <1>2, <1>3, <1>4, <1>5, <1>6, <1>7, <1>8 DEF SteerInv

LEMMA StartHostStep ==
  ASSUME SteeringAssumption, SteerInv, StartHost
  PROVE  SteerInv'
<1>1. SteeringTypeOK'
  BY DEF SteerInv, SteeringTypeOK, entry, runner, texts, tracked, queue, StartHost
<1>2. HoldInv'
  BY DEF SteerInv, HoldInv, Msgs, entry, runner, texts, tracked, queue, StartHost
<1>3. PhaseInv'
  BY DEF SteerInv, PhaseInv, entry, runner, texts, tracked, queue, StartHost, Aborted
<1>4. BatchInv'
  BY DEF SteerInv, BatchInv, Msgs, entry, runner, texts, tracked, queue, StartHost
<1>5. AttemptInv'
  BY DEF SteerInv, AttemptInv, Msgs, Teardown, entry, runner, texts, tracked, queue, StartHost
<1>6. MachineInv'
  BY DEF SteerInv, MachineInv, entry, runner, texts, tracked, queue, StartHost
<1>7. OrderInv'
  BY DEF SteerInv, OrderInv, Drained, Unwritten, Together, entry, runner, texts, tracked, queue,
     StartHost
<1>8. ParkInv'
  BY DEF SteerInv, ParkInv, Msgs, Drained, StoppedStaysParked, entry, runner, texts, tracked,
     queue, StartHost
<1> QED
  BY <1>1, <1>2, <1>3, <1>4, <1>5, <1>6, <1>7, <1>8 DEF SteerInv

LEMMA FailStartStep ==
  ASSUME SteeringAssumption, SteerInv, FailStart
  PROVE  SteerInv'
<1>1. SteeringTypeOK'
  BY DEF SteerInv, SteeringTypeOK, entry, runner, texts, tracked, queue, FailStart
<1>2. HoldInv'
  BY DEF SteerInv, HoldInv, Msgs, entry, runner, texts, tracked, FailStart
<1>3. PhaseInv'
  BY DEF SteerInv, PhaseInv, entry, runner, texts, tracked, FailStart
<1>4. BatchInv'
  BY DEF SteerInv, BatchInv, Msgs, entry, runner, texts, tracked, queue, FailStart
<1>5. AttemptInv'
  BY DEF SteerInv, AttemptInv, Msgs, Teardown, entry, runner, texts, tracked, queue, FailStart
<1>6. MachineInv'
  BY DEF SteerInv, MachineInv, entry, runner, texts, tracked, FailStart
<1>7. OrderInv'
  BY DEF SteerInv, OrderInv, Drained, Unwritten, Together, entry, runner, texts, tracked, FailStart
<1>8. ParkInv'
  BY DEF SteerInv, ParkInv, Msgs, Drained, StoppedStaysParked, entry, runner, texts, tracked,
     queue, FailStart
<1> QED
  BY <1>1, <1>2, <1>3, <1>4, <1>5, <1>6, <1>7, <1>8 DEF SteerInv

LEMMA PollStep ==
  ASSUME SteeringAssumption, SteerInv, NEW atExit \in BOOLEAN, Poll(atExit)
  PROVE  SteerInv'
<1>1. SteeringTypeOK'
  BY DEF SteerInv, SteeringTypeOK, entry, runner, texts, tracked, queue, Poll
<1>2. HoldInv'
  BY DEF SteerInv, HoldInv, Msgs, entry, runner, texts, tracked, queue, Poll
<1>3. PhaseInv'
  BY DEF SteerInv, SteeringTypeOK, HoldInv, PhaseInv, BatchInv, AttemptInv, Batch, entry,
     runner, texts, tracked, queue, Poll
<1>4. BatchInv'
  BY DEF SteerInv, BatchInv, Msgs, entry, runner, texts, tracked, queue, Poll
<1>5. AttemptInv'
  BY DEF SteerInv, AttemptInv, Msgs, Teardown, entry, runner, texts, tracked, queue, Poll
<1>6. MachineInv'
  BY DEF SteerInv, SteeringTypeOK, PhaseInv, MachineInv, entry, runner, texts, tracked, queue, Poll
<1>7. OrderInv'
  BY DEF SteerInv, OrderInv, Drained, Unwritten, Together, entry, runner, texts, tracked, queue,
     Poll
<1>8. ParkInv'
  BY DEF SteerInv, ParkInv, Msgs, Drained, StoppedStaysParked, entry, runner, texts, tracked,
     queue, Poll
<1> QED
  BY <1>1, <1>2, <1>3, <1>4, <1>5, <1>6, <1>7, <1>8 DEF SteerInv

LEMMA RefuseStep ==
  ASSUME SteeringAssumption, SteerInv, host = "answer", host' \in {"failing", "work"}, refused' \in BOOLEAN,
         UNCHANGED <<entry, batch, task, lane, hands, exit, early, coord, texts, written,
                     drain, queue>>
  PROVE  SteerInv'
<1>1. SteeringTypeOK'
  BY DEF SteerInv, SteeringTypeOK, entry, runner, texts, tracked, queue, entry
<1>2. HoldInv'
  BY DEF SteerInv, HoldInv, Msgs, entry, runner, texts, tracked, entry
<1>3. PhaseInv'
  BY DEF SteerInv, PhaseInv, entry, runner, texts, tracked, entry
<1>4. BatchInv'
  BY DEF SteerInv, BatchInv, Msgs, runner, texts, tracked, queue
<1>5. AttemptInv'
  BY DEF SteerInv, AttemptInv, Msgs, Teardown, runner, texts, tracked, queue
<1>6. MachineInv'
  BY DEF SteerInv, MachineInv, entry, runner, texts, tracked, entry
<1>7. OrderInv'
  BY DEF SteerInv, OrderInv, Drained, Unwritten, Together, entry, runner, texts, tracked, entry
<1>8. ParkInv'
  BY DEF SteerInv, ParkInv, Msgs, Drained, StoppedStaysParked, runner, texts, tracked, queue
<1> QED
  BY <1>1, <1>2, <1>3, <1>4, <1>5, <1>6, <1>7, <1>8 DEF SteerInv

LEMMA AfterCloseStep ==
  ASSUME SteeringAssumption, SteerInv, NEW next \in {"work", "ended", "failing"}, AfterClose(next)
  PROVE  SteerInv'
<1>1. SteeringTypeOK'
  <2>1. SteeringTypeOK
    BY DEF SteerInv
  <2>2. /\ host' \in {"work", "ended", "failing"} /\ refused' = FALSE
        /\ hands' = hands /\ hands = {}
    BY <2>1 DEF AfterClose, SteeringTypeOK
  <2>3. UNCHANGED <<phase, steering, accepted, exit, early, coord, read, fell, unsure, batch, task,
                    written, lane, drain, row, paused, lifted, wake>>
    BY DEF AfterClose, entry, texts, tracked, queue
  <2>4. (/\ phase \in {"running", "closing", "user-stop", "abort", "gone"}
         /\ steering \subseteq Message /\ accepted \subseteq Message
         /\ host \in {"fence", "work", "poll", "answer", "closed", "failing", "ended"}
         /\ hands \subseteq Message
         /\ host # "poll" => hands = {}
         /\ exit \in BOOLEAN /\ refused \in BOOLEAN /\ early \in BOOLEAN
         /\ coord \in {"host", "commit", "done", "stuck"})'
    BY <2>1, <2>2, <2>3 DEF SteeringTypeOK
  <2>5. (/\ batch \in BatchType /\ task \in TaskType /\ lane \in LaneType /\ drain \in DrainType
         /\ \A b \in Batch : task[b] # "none" => batch[b].st # "none")'
    BY <2>1, <2>3 DEF SteeringTypeOK, BatchType, TaskType, LaneType, DrainType
  <2>6. (/\ read \subseteq Message /\ fell \in Seq(User) /\ unsure \subseteq Members(fell)
         /\ written \subseteq User
         /\ row \in [Batch -> {"none", "queued", "taken"}]
         /\ paused \in BOOLEAN /\ lifted \in BOOLEAN
         /\ wake \in [Batch -> {"none", "due", "sent"}])'
    BY <2>1, <2>3 DEF SteeringTypeOK, Members
  <2> QED
    BY <2>4, <2>5, <2>6, TypesAfter
<1>2. HoldInv'
  BY DEF SteerInv, HoldInv, Msgs, entry, runner, texts, tracked, AfterClose
<1>3. PhaseInv'
  BY DEF SteerInv, PhaseInv, entry, runner, texts, tracked, AfterClose
<1>4. BatchInv'
  BY DEF SteerInv, BatchInv, Msgs, entry, runner, texts, tracked, queue, AfterClose
<1>5. AttemptInv'
  BY DEF SteerInv, AttemptInv, Msgs, Teardown, entry, runner, texts, tracked, queue, AfterClose
<1>6. MachineInv'
  BY DEF SteerInv, MachineInv, entry, runner, texts, tracked, AfterClose
<1>7. OrderInv'
  BY DEF SteerInv, OrderInv, Drained, Unwritten, Together, entry, runner, texts, tracked, AfterClose
<1>8. ParkInv'
  BY DEF SteerInv, ParkInv, Msgs, Drained, StoppedStaysParked, entry, runner, texts, tracked,
     queue, AfterClose
<1> QED
  BY <1>1, <1>2, <1>3, <1>4, <1>5, <1>6, <1>7, <1>8 DEF SteerInv

LEMMA HostFailsStep ==
  ASSUME SteeringAssumption, SteerInv, HostFails
  PROVE  SteerInv'
<1>1. SteeringTypeOK'
  BY DEF SteerInv, SteeringTypeOK, entry, runner, texts, tracked, queue, HostFails
<1>2. HoldInv'
  BY DEF SteerInv, HoldInv, Msgs, entry, runner, texts, tracked, HostFails
<1>3. PhaseInv'
  BY DEF SteerInv, PhaseInv, entry, runner, texts, tracked, HostFails
<1>4. BatchInv'
  BY DEF SteerInv, BatchInv, Msgs, entry, runner, texts, tracked, queue, HostFails
<1>5. AttemptInv'
  BY DEF SteerInv, AttemptInv, Msgs, Teardown, entry, runner, texts, tracked, queue, HostFails
<1>6. MachineInv'
  BY DEF SteerInv, MachineInv, entry, runner, texts, tracked, HostFails
<1>7. OrderInv'
  BY DEF SteerInv, OrderInv, Drained, Unwritten, Together, entry, runner, texts, tracked, HostFails
<1>8. ParkInv'
  BY DEF SteerInv, ParkInv, Msgs, Drained, StoppedStaysParked, entry, runner, texts, tracked,
     queue, HostFails
<1> QED
  BY <1>1, <1>2, <1>3, <1>4, <1>5, <1>6, <1>7, <1>8 DEF SteerInv

LEMMA CommitStep ==
  ASSUME SteeringAssumption, SteerInv, CommitBeforeRelease
  PROVE  SteerInv'
<1>1. SteeringTypeOK'
  BY DEF SteerInv, SteeringTypeOK, entry, runner, texts, tracked, queue, CommitBeforeRelease,
     Teardowns
<1>2. HoldInv'
  BY DEF SteerInv, HoldInv, Msgs, entry, runner, texts, tracked, queue, CommitBeforeRelease
<1>3. PhaseInv'
  BY DEF SteerInv, PhaseInv, entry, runner, texts, tracked, queue, CommitBeforeRelease
<1>4. BatchInv'
  BY DEF SteerInv, BatchInv, Msgs, entry, runner, texts, tracked, queue, CommitBeforeRelease,
     Teardowns
<1>5. AttemptInv'
  BY DEF SteerInv, AttemptInv, Msgs, Teardown, entry, runner, texts, tracked, queue,
     CommitBeforeRelease, Teardowns
<1>6. MachineInv'
  BY DEF SteerInv, MachineInv, entry, runner, texts, tracked, queue, CommitBeforeRelease
<1>7. OrderInv'
  BY DEF SteerInv, OrderInv, Drained, Unwritten, Together, entry, runner, texts, tracked, queue,
     CommitBeforeRelease, Members
<1>8. ParkInv'
  BY DEF SteerInv, ParkInv, Msgs, Drained, StoppedStaysParked, entry, runner, texts, tracked,
     queue, CommitBeforeRelease, Teardowns
<1> QED
  BY <1>1, <1>2, <1>3, <1>4, <1>5, <1>6, <1>7, <1>8 DEF SteerInv

LEMMA ReleaseStep ==
  ASSUME SteeringAssumption, SteerInv, Release
  PROVE  SteerInv'
<1>1. SteeringTypeOK'
  BY DEF SteerInv, SteeringTypeOK, entry, runner, texts, tracked, queue, Release
<1>2. HoldInv'
  BY DEF SteerInv, HoldInv, Msgs, entry, runner, texts, tracked, Release
<1>3. PhaseInv'
  BY DEF SteerInv, PhaseInv, entry, runner, texts, tracked, Release
<1>4. BatchInv'
  BY DEF SteerInv, BatchInv, Msgs, entry, runner, texts, tracked, queue, Release
<1>5. AttemptInv'
  BY DEF SteerInv, AttemptInv, Msgs, Teardown, entry, runner, texts, tracked, queue, Release
<1>6. MachineInv'
  BY DEF SteerInv, MachineInv, entry, runner, texts, tracked, Release
<1>7. OrderInv'
  BY DEF SteerInv, OrderInv, Drained, Unwritten, Together, entry, runner, texts, tracked, Release
<1>8. ParkInv'
  BY DEF SteerInv, ParkInv, Msgs, Drained, StoppedStaysParked, entry, runner, texts, tracked,
     queue, Release
<1> QED
  BY <1>1, <1>2, <1>3, <1>4, <1>5, <1>6, <1>7, <1>8 DEF SteerInv

LEMMA SettlementFailsStep ==
  ASSUME SteeringAssumption, SteerInv, SettlementFails
  PROVE  SteerInv'
<1>1. SteeringTypeOK'
  BY DEF SteerInv, SteeringTypeOK, entry, runner, texts, tracked, queue, SettlementFails
<1>2. HoldInv'
  BY DEF SteerInv, HoldInv, Msgs, entry, runner, texts, tracked, SettlementFails
<1>3. PhaseInv'
  BY DEF SteerInv, PhaseInv, entry, runner, texts, tracked, SettlementFails
<1>4. BatchInv'
  BY DEF SteerInv, BatchInv, Msgs, entry, runner, texts, tracked, queue, SettlementFails
<1>5. AttemptInv'
  BY DEF SteerInv, AttemptInv, Msgs, Teardown, entry, runner, texts, tracked, queue, SettlementFails
<1>6. MachineInv'
  BY DEF SteerInv, MachineInv, entry, runner, texts, tracked, SettlementFails
<1>7. OrderInv'
  BY DEF SteerInv, OrderInv, Drained, Unwritten, Together, entry, runner, texts, tracked,
     SettlementFails
<1>8. ParkInv'
  BY DEF SteerInv, ParkInv, Msgs, Drained, StoppedStaysParked, entry, runner, texts, tracked,
     queue, SettlementFails
<1> QED
  BY <1>1, <1>2, <1>3, <1>4, <1>5, <1>6, <1>7, <1>8 DEF SteerInv

LEMMA WakeStep ==
  ASSUME SteeringAssumption, SteerInv, NEW b \in Batch, Wake(b)
  PROVE  SteerInv'
<1>1. SteeringTypeOK'
  BY DEF SteerInv, SteeringTypeOK, entry, runner, texts, tracked, Wake
<1>2. HoldInv'
  BY DEF SteerInv, HoldInv, Msgs, entry, runner, texts, tracked, Wake
<1>3. PhaseInv'
  BY DEF SteerInv, PhaseInv, entry, runner, texts, tracked, Wake
<1>4. BatchInv'
  BY DEF SteerInv, BatchInv, Msgs, entry, runner, texts, tracked, Wake
<1>5. AttemptInv'
  BY DEF SteerInv, AttemptInv, Msgs, Teardown, entry, runner, texts, tracked, Wake
<1>6. MachineInv'
  BY DEF SteerInv, MachineInv, entry, runner, texts, tracked, Wake
<1>7. OrderInv'
  BY DEF SteerInv, OrderInv, Drained, Unwritten, Together, entry, runner, texts, tracked, Wake
<1>8. ParkInv'
  BY DEF SteerInv, ParkInv, Msgs, Drained, StoppedStaysParked, entry, runner, texts, tracked, Wake
<1> QED
  BY <1>1, <1>2, <1>3, <1>4, <1>5, <1>6, <1>7, <1>8 DEF SteerInv

LEMMA TakeStep ==
  ASSUME SteeringAssumption, SteerInv, NEW b \in Batch, Take(b)
  PROVE  SteerInv'
<1>1. SteeringTypeOK'
  BY DEF SteerInv, SteeringTypeOK, entry, runner, texts, tracked, Take
<1>2. HoldInv'
  BY DEF SteerInv, HoldInv, Msgs, entry, runner, texts, tracked, Take
<1>3. PhaseInv'
  BY DEF SteerInv, PhaseInv, entry, runner, texts, tracked, Take
<1>4. BatchInv'
  BY DEF SteerInv, BatchInv, Msgs, entry, runner, texts, tracked, Take
<1>5. AttemptInv'
  BY DEF SteerInv, AttemptInv, Msgs, Teardown, entry, runner, texts, tracked, Take
<1>6. MachineInv'
  BY DEF SteerInv, MachineInv, entry, runner, texts, tracked, Take
<1>7. OrderInv'
  BY DEF SteerInv, OrderInv, Drained, Unwritten, Together, entry, runner, texts, tracked, Take
<1>8. ParkInv'
  <2>1. ~Drained /\ ~Drained' /\ Members(drain.todo) = {} /\ Members(drain.todo)' = {}
    BY DEF Take, SteerInv, BatchInv, Drained, Members, tracked
  <2>2. \A c \in Batch : row'[c] = "queued" => row[c] = "queued"
    BY DEF Take, SteerInv, SteeringTypeOK
  <2> QED
    BY <2>1, <2>2 DEF Take, SteerInv, ParkInv, StoppedStaysParked, Msgs, tracked
<1> QED
  BY <1>1, <1>2, <1>3, <1>4, <1>5, <1>6, <1>7, <1>8 DEF SteerInv

LEMMA UnpauseStep ==
  ASSUME SteeringAssumption, SteerInv, Unpause
  PROVE  SteerInv'
<1>a. /\ batch \in BatchType /\ task \in TaskType /\ lane \in LaneType
      /\ drain \in DrainType
  BY Kinds DEF SteerInv
<1>1. SteeringTypeOK'
  <2>1. (paused \in BOOLEAN /\ lifted \in BOOLEAN)'
    BY Zenon DEF Unpause
  <2> QED
    BY <1>a, <2>1, TypesAfter DEF SteerInv, SteeringTypeOK, Unpause, entry, runner, texts, tracked
<1>2. HoldInv'
  BY DEF SteerInv, HoldInv, Msgs, entry, runner, texts, tracked, Unpause
<1>3. PhaseInv'
  BY DEF SteerInv, PhaseInv, entry, runner, texts, tracked, Unpause
<1>4. BatchInv'
  BY DEF SteerInv, BatchInv, Msgs, entry, runner, texts, tracked, Unpause
<1>5. AttemptInv'
  BY DEF SteerInv, AttemptInv, Msgs, Teardown, entry, runner, texts, tracked, Unpause
<1>6. MachineInv'
  BY DEF SteerInv, MachineInv, entry, runner, texts, tracked, Unpause
<1>7. OrderInv'
  BY DEF SteerInv, OrderInv, Drained, Unwritten, Together, entry, runner, texts, tracked, Unpause
<1>8. ParkInv'
  BY DEF SteerInv, ParkInv, Msgs, Drained, StoppedStaysParked, entry, runner, texts, tracked,
     Unpause
<1> QED
  BY <1>1, <1>2, <1>3, <1>4, <1>5, <1>6, <1>7, <1>8 DEF SteerInv

LEMMA PausingStep ==
  ASSUME SteeringAssumption, SteerInv, NEW b \in Batch, task[b] = "requeue", batch[b].cause = "user-stop", Msgs(b) # {},
         row' \in [Batch -> {"none", "queued", "taken"}], row'[b] = "queued",
         \A c \in Batch : c # b => row'[c] = row[c],
         task' = [task EXCEPT ![b] = "pause"],
         UNCHANGED <<entry, runner, coord, texts, written, paused, lifted, batch, lane, drain, wake>>
  PROVE  SteerInv'
<1>1. SteeringTypeOK'
  BY DEF SteerInv, SteeringTypeOK, entry, runner, texts, tracked
<1>2. HoldInv'
  BY DEF SteerInv, HoldInv, Msgs, entry, runner, texts, tracked
<1>3. PhaseInv'
  BY DEF SteerInv, PhaseInv, entry, runner, texts, tracked
<1>4. BatchInv'
  BY DEF SteerInv, BatchInv, Msgs, entry, runner, texts, tracked
<1>5. AttemptInv'
  BY DEF SteerInv, AttemptInv, Msgs, Teardown, entry, runner, texts, tracked
<1>6. MachineInv'
  BY DEF SteerInv, MachineInv, entry, runner, texts, tracked
<1>7. OrderInv'
  BY DEF SteerInv, OrderInv, Drained, Unwritten, Together, entry, runner, texts, tracked
<1>8. ParkInv'
  BY DEF SteerInv, ParkInv, Msgs, Drained, StoppedStaysParked, entry, runner, texts, tracked
<1> QED
  BY <1>1, <1>2, <1>3, <1>4, <1>5, <1>6, <1>7, <1>8 DEF SteerInv

LEMMA TryCloseStep ==
  ASSUME SteeringAssumption, SteerInv, TryClose
  PROVE  SteerInv'
<1>1. CASE Aborted
  BY <1>1, RefuseStep DEF TryClose, SteerInv, SteeringTypeOK
<1>2. CASE ~Aborted /\ HoldsClose
  BY <1>2, RefuseStep DEF TryClose
<1>3. CASE ~Aborted /\ ~HoldsClose
  BY <1>3, CloseStep DEF TryClose
<1> QED
  BY <1>1, <1>2, <1>3

(* A requeue ends: with its row in the queue, or it failed and the row, if *)
(* there is one, stays.                                                    *)
LEMMA RequeuedStep ==
  ASSUME SteeringAssumption, SteerInv, NEW b \in Batch, NEW ok \in BOOLEAN,
         Requeued(b, ok), task[b] \in {"requeue", "pause"},
         row' \in [Batch -> {"none", "queued", "taken"}],
         \A c \in Batch : c # b => row'[c] = row[c],
         row'[b] \in {row[b], "queued"},
         ~ok => row'[b] = row[b],
         ok => row'[b] # "none" /\ (row'[b] = "queued" \/ drain.todo = <<>>),
         paused' \in BOOLEAN, paused => paused', lifted' = lifted,
         ok /\ batch[b].cause = "user-stop" /\ row'[b] = "queued" => paused',
         UNCHANGED <<entry, runner, coord, texts, written>>
  PROVE  SteerInv'
<1>1. /\ \A c \in Batch : /\ batch'[c].msgs = batch[c].msgs
                          /\ batch'[c].cause = batch[c].cause
                          /\ batch'[c].route = batch[c].route
                          /\ batch'[c].st = IF ok /\ c = b THEN "settled" ELSE batch[c].st
                          /\ task'[c] = IF c = b THEN "none" ELSE task[c]
                          /\ wake'[c] # wake[c] => c = b /\ ok /\ batch[b].cause = "exit-close"
      /\ drain'.pc = drain.pc /\ drain'.todo = drain.todo /\ drain'.on = drain.on \ {b}
  BY DEF Requeued
<1>2. Drained' = Drained /\ Members(drain.todo)' = Members(drain.todo)
  BY <1>1 DEF Drained, Members
<1>3. Members(drain.todo) \subseteq Batch /\ (drain.todo = <<>> => Members(drain.todo) = {})
  BY Kinds DEF SteerInv, Members, DrainType
<1>4. SteeringTypeOK'
  BY <1>1, TypesAfter DEF Requeued, SteerInv, SteeringTypeOK, entry, runner, texts
<1>5. HoldInv'
  BY <1>1 DEF SteerInv, HoldInv, Msgs, Batch, entry, runner, texts
<1>6. PhaseInv'
  BY <1>1 DEF SteerInv, PhaseInv, BatchInv, Batch, entry, runner
<1>7. BatchInv'
  <2>1. \A c \in Batch : batch'[c].st = "none" => batch'[c].msgs = {} /\ task'[c] = "none"
                                                /\ row'[c] = "none" /\ wake'[c] = "none"
    BY <1>1 DEF SteerInv, BatchInv, Msgs
  <2>2. \A c \in Batch : wake'[c] # "none" => batch'[c].cause = "exit-close"
    BY <1>1 DEF SteerInv, BatchInv
  <2>3. \A c \in Members(drain.todo)' : batch'[c].st # "none"
    BY <1>1, <1>2, <1>3 DEF SteerInv, BatchInv
  <2> QED
    BY <1>1, <2>1, <2>2, <2>3 DEF SteerInv, BatchInv, Msgs
<1>8. AttemptInv'
  BY <1>1 DEF SteerInv, BatchInv, AttemptInv, Msgs, Teardown, texts
<1>9. MachineInv'
  BY DEF SteerInv, MachineInv, entry, runner, texts
<1>10. OrderInv'
  BY <1>1, <1>2 DEF SteerInv, OrderInv, Unwritten, Together, entry, texts
<1>11. ParkInv'
  BY <1>1, <1>2, <1>3 DEF SteerInv, ParkInv, BatchInv, Msgs, StoppedStaysParked
<1> QED
  BY <1>4, <1>5, <1>6, <1>7, <1>8, <1>9, <1>10, <1>11 DEF SteerInv

LEMMA EnqueueFailsStep ==
  ASSUME SteeringAssumption, SteerInv, NEW b \in Batch, EnqueueFails(b) \/ PauseFails(b)
  PROVE  SteerInv'
<1>1. Requeued(b, FALSE)
  BY EndRequeueFacts, Kinds DEF SteerInv, SteeringTypeOK, EnqueueFails, PauseFails
<1>2. task[b] \in {"requeue", "pause"}
      /\ UNCHANGED <<entry, runner, coord, texts, written, row, paused, lifted>>
  BY DEF EnqueueFails, PauseFails
<1> QED
  BY <1>1, <1>2, RequeuedStep DEF SteerInv, SteeringTypeOK

LEMMA PauseStep ==
  ASSUME SteeringAssumption, SteerInv, NEW b \in Batch, Pause(b)
  PROVE  SteerInv'
<1>1. Requeued(b, TRUE)
  BY EndRequeueFacts, Kinds DEF SteerInv, SteeringTypeOK, Pause
<1>2. /\ task[b] = "pause" /\ paused' = (paused \/ \E c \in Batch : row[c] = "queued")
      /\ row' = row /\ lifted' = lifted
      /\ UNCHANGED <<entry, runner, coord, texts, written>>
  BY DEF Pause
<1>3. row[b] # "none" /\ (row[b] = "queued" \/ drain.todo = <<>>)
  BY <1>2 DEF SteerInv, AttemptInv, ParkInv, BatchInv, Drained
<1>4. /\ paused' \in BOOLEAN /\ (paused => paused') /\ (row'[b] = "queued" => paused')
      /\ row' \in [Batch -> {"none", "queued", "taken"}]
  BY <1>2 DEF SteerInv, SteeringTypeOK
<1> QED
  BY <1>1, <1>2, <1>3, <1>4, RequeuedStep

LEMMA EnqueueStep ==
  ASSUME SteeringAssumption, SteerInv, NEW b \in Batch, Enqueue(b)
  PROVE  SteerInv'
<1>1. /\ task[b] = "requeue" /\ row' = [row EXCEPT ![b] = "queued"]
      /\ UNCHANGED <<entry, runner, coord, texts, written, paused, lifted>>
  BY DEF Enqueue
<1>2. /\ row' \in [Batch -> {"none", "queued", "taken"}] /\ row'[b] = "queued"
      /\ \A c \in Batch : c # b => row'[c] = row[c]
  BY <1>1 DEF SteerInv, SteeringTypeOK
<1>3. CASE batch[b].cause # "user-stop"
  <2>1. Requeued(b, TRUE)
    BY <1>3, EndRequeueFacts, Kinds DEF SteerInv, SteeringTypeOK, Enqueue
  <2> QED
    BY <1>1, <1>2, <1>3, <2>1, RequeuedStep DEF SteerInv, SteeringTypeOK
<1>4. CASE batch[b].cause = "user-stop"
  BY <1>1, <1>2, <1>4, PausingStep DEF Enqueue, Msgs
<1> QED
  BY <1>3, <1>4

(* No attempt begins; the drain has come to the end of its list, or it     *)
(* does not move.                                                          *)
LEMMA OnlyDrainStep ==
  ASSUME SteeringAssumption, SteerInv, lane' \in LaneType, drain' \in DrainType,
         Drained' = Drained,
         drain' = drain \/ (drain.on = {} /\ drain'.todo = <<>> /\ drain'.pc \notin {"tried", "again"}),
         UNCHANGED <<entry, runner, coord, texts, written, batch, task, queue>>
  PROVE  SteerInv'
<1>1. Members(drain'.todo) = {} \/ drain' = drain
  BY DEF Members
<1>2. SteeringTypeOK'
  BY Kinds, TypesAfter DEF SteerInv, SteeringTypeOK, entry, runner, texts, queue
<1>3. HoldInv' /\ PhaseInv'
  BY DEF SteerInv, HoldInv, PhaseInv, Msgs, entry, runner, texts
<1>4. BatchInv'
  BY <1>1 DEF SteerInv, BatchInv, Msgs, queue
<1>5. AttemptInv'
  BY DEF SteerInv, AttemptInv, Msgs, Teardown, texts, queue
<1>6. MachineInv' /\ OrderInv'
  BY DEF SteerInv, MachineInv, OrderInv, Unwritten, Together, entry, runner, texts
<1>7. ParkInv'
  BY <1>1 DEF SteerInv, ParkInv, Msgs, StoppedStaysParked, queue
<1> QED
  BY <1>2, <1>3, <1>4, <1>5, <1>6, <1>7 DEF SteerInv

-----------------------------------------------------------------------------
(* Attempts begin *)

(* What start(key) does to the batch and its attempt.                      *)
Started(b, route) ==
  /\ batch' \in BatchType /\ task' \in TaskType
  /\ \A c \in Batch : /\ batch'[c].st = batch[c].st
                      /\ batch'[c].msgs = batch[c].msgs
                      /\ batch'[c].cause = batch[c].cause
                      /\ batch'[c].route = IF c = b THEN route ELSE batch[c].route
                      /\ task'[c] = IF c = b /\ task[b] = "none" THEN route ELSE task[c]

LEMMA StartFacts ==
  ASSUME batch \in BatchType, task \in TaskType, NEW b \in Batch,
         NEW route \in {"teardown", "requeue"}, Start(b, route)
  PROVE  Started(b, route)
BY DEF Start, Started, BatchType, TaskType

(* An attempt for a batch that is pending, or that a drain has in its list *)
(* from when it was. The drain's list only gets shorter.                   *)
LEMMA StartStep ==
  ASSUME SteeringAssumption, SteerInv, NEW b \in Batch, NEW route \in {"teardown", "requeue"},
         Started(b, route), route \in {batch[b].route, "requeue"},
         batch[b].st = "pending" \/ (Drained /\ batch[b].st = "settled" /\ b \in Members(drain.todo)),
         phase = "gone" \/ Drained,
         lane' \in LaneType, drain' \in DrainType, Drained' = Drained,
         drain' = drain \/ drain.on = {},
         drain'.pc \in {"tried", "again"} <=> drain'.todo # <<>>,
         \A c \in Members(drain'.todo) : c \in Pending \/ c \in Members(drain.todo),
         UNCHANGED <<entry, runner, coord, texts, written, queue>>
  PROVE  SteerInv'
<1>1. \A c \in Batch : /\ batch'[c].st = batch[c].st
                       /\ batch'[c].msgs = batch[c].msgs
                       /\ batch'[c].cause = batch[c].cause
                       /\ batch'[c].route = IF c = b THEN route ELSE batch[c].route
                       /\ task'[c] = IF c = b /\ task[b] = "none" THEN route ELSE task[c]
  BY DEF Started
<1>2. \A c \in Batch : c \in Members(drain'.todo) =>
        batch[c].st = "pending" \/ c \in Members(drain.todo)
  BY DEF Pending
<1>3. SteeringTypeOK'
  <2>1. (\A c \in Batch : task[c] # "none" => batch[c].st # "none")'
    BY <1>1 DEF SteerInv, SteeringTypeOK
  <2> QED
    BY <2>1, TypesAfter DEF Started, SteerInv, SteeringTypeOK, entry, runner, texts, queue
<1>4. HoldInv'
  BY <1>1 DEF SteerInv, HoldInv, Msgs, Batch, entry, runner, texts
<1>5. PhaseInv'
  BY <1>1 DEF SteerInv, PhaseInv, Batch, entry, runner
<1>6. BatchInv'
  <2>1. \A c \in Batch : batch'[c].st = "none" =>
          batch'[c].msgs = {} /\ task'[c] = "none" /\ row'[c] = "none" /\ wake'[c] = "none"
    BY <1>1 DEF SteerInv, BatchInv, Msgs, queue
  <2>2. \A c \in Batch : wake'[c] # "none" => batch'[c].cause = "exit-close"
    BY <1>1 DEF SteerInv, BatchInv, queue
  <2>3. \A c \in Members(drain'.todo) : batch'[c].st # "none"
    <3>1. Members(drain'.todo) \subseteq Batch
      BY DEF Members, DrainType
    <3> QED
      BY <1>1, <1>2, <3>1 DEF SteerInv, BatchInv
  <2>4. \A c \in Batch : batch'[c].st # "none" => batch'[c].route # "none"
    BY <1>1 DEF SteerInv, BatchInv
  <2> QED
    BY <2>1, <2>2, <2>3, <2>4 DEF BatchInv, Msgs
<1>7. AttemptInv'
  BY <1>1 DEF SteerInv, BatchInv, AttemptInv, Msgs, Teardown, texts, queue
<1>8. MachineInv'
  BY DEF SteerInv, MachineInv, entry, runner, texts
<1>9. OrderInv'
  BY DEF OrderInv, entry
<1>10. ParkInv'
  BY <1>1, <1>2 DEF SteerInv, ParkInv, AttemptInv, Msgs, StoppedStaysParked, queue
<1> QED
  BY <1>3, <1>4, <1>5, <1>6, <1>7, <1>8, <1>9, <1>10 DEF SteerInv

LEMMA LaneStep ==
  ASSUME SteeringAssumption, SteerInv, NEW b \in Batch, LaneGoesOn(b)
  PROVE  SteerInv'
<1> DEFINE at == IF batch[b].st = "pending" THEN Following(b) ELSE "over"
<1>1. /\ phase = "gone" /\ lane[b].at \notin {"none", "over"}
      /\ lane' = [lane EXCEPT ![b] = [at |-> at, waits |-> at # "over"]]
      /\ UNCHANGED <<entry, runner, coord, texts, written, drain, queue>>
  BY DEF LaneGoesOn
<1>2. lane' \in LaneType
  <2>1. lane[b].at \in {"parked", "first", "second", "last"} /\ lane \in LaneType
    BY <1>1, Kinds DEF SteerInv, LaneType
  <2>2. at \in {"first", "second", "last", "over"}
    BY <2>1 DEF Following
  <2>3. (at # "over") \in BOOLEAN
    OBVIOUS
  <2> HIDE DEF at
  <2> QED
    BY <1>1, <2>1, <2>2, <2>3 DEF LaneType
<1>3. CASE at = "over"
  <2>1. UNCHANGED <<batch, task>>
    BY <1>3 DEF LaneGoesOn
  <2>2. drain' \in DrainType /\ drain' = drain /\ Drained' = Drained
    BY <1>1, Kinds DEF SteerInv, Drained
  <2> HIDE DEF at
  <2> QED
    BY <1>1, <1>2, <2>1, <2>2, OnlyDrainStep
<1>4. CASE at # "over"
  <2> DEFINE route == IF at = "last" THEN "requeue" ELSE batch[b].route
  <2>1. batch[b].st = "pending" /\ Start(b, route)
    BY <1>4 DEF LaneGoesOn
  <2>2. batch[b].route \in {"teardown", "requeue"}
    BY <2>1 DEF SteerInv, SteeringTypeOK, BatchInv
  <2>3. route \in {"teardown", "requeue"} /\ route \in {batch[b].route, "requeue"}
    BY <2>2
  <2> HIDE DEF route, at
  <2>4. Started(b, route)
    BY <2>1, <2>3, StartFacts, Kinds DEF SteerInv
  <2>5. drain \in DrainType /\ (drain'.pc \in {"tried", "again"} <=> drain'.todo # <<>>)
    BY <1>1, Kinds DEF SteerInv, BatchInv
  <2> QED
    BY <1>1, <1>2, <2>1, <2>3, <2>4, <2>5, StartStep DEF Drained
<1> QED
  BY <1>3, <1>4

(* The list of a drain: its batches, and what is left of it.               *)
LEMMA TodoFacts ==
  ASSUME NEW todo \in Seq(Batch)
  PROVE  /\ Members(todo) \subseteq Batch
         /\ todo # <<>> => /\ Head(todo) \in Members(todo)
                           /\ Tail(todo) \in Seq(Batch)
                           /\ Members(Tail(todo)) \subseteq Members(todo)
<1>1. Members(todo) \subseteq Batch
  BY DEF Members
<1>2. ASSUME todo # <<>> PROVE Head(todo) \in Members(todo)
  <2>1. 1 \in 1..Len(todo) /\ Head(todo) = todo[1]
    BY <1>2
  <2> QED
    BY <2>1 DEF Members
<1>3. ASSUME todo # <<>> PROVE Tail(todo) \in Seq(Batch)
  BY <1>3
<1>4. ASSUME todo # <<>>, NEW c \in Members(Tail(todo)) PROVE c \in Members(todo)
  <2>1. PICK k \in 1..Len(Tail(todo)) : c = Tail(todo)[k]
    BY DEF Members
  <2>2. Len(Tail(todo)) = Len(todo) - 1 /\ Len(todo) \in Nat
    BY <1>4
  <2>3. k + 1 \in 1..Len(todo) /\ c = todo[k + 1]
    BY <1>4, <2>1, <2>2
  <2> QED
    BY <2>3 DEF Members
<1> QED
  BY <1>1, <1>2, <1>3, <1>4

LEMMA DrainOrderType ==
  ASSUME NEW todo \in DrainOrder
  PROVE  todo \in Seq(Batch) /\ Members(todo) = Pending
<1>1. "left" \in Batch /\ "held" \in Batch
  BY DEF Batch
<1>2. /\ <<>> \in Seq(Batch) /\ <<"left">> \in Seq(Batch) /\ <<"held">> \in Seq(Batch)
      /\ <<"left", "held">> \in Seq(Batch) /\ <<"held", "left">> \in Seq(Batch)
  BY <1>1
<1> QED
  BY <1>2, Zenon DEF DrainOrder

LEMMA DrainBatchStep ==
  ASSUME SteeringAssumption, SteerInv, NEW b \in Batch, NEW todo \in Seq(Batch),
         NEW route, NEW pc \in {"tried", "again"},
         DrainBatch(b, route, pc, todo), route \in {batch[b].route, "requeue"},
         b \in Pending \/ b \in Members(drain.todo), todo # <<>>,
         \A c \in Members(todo) : c \in Pending \/ c \in Members(drain.todo),
         Drained, drain.on = {},
         UNCHANGED <<entry, runner, coord, texts, written, lane, queue>>
  PROVE  SteerInv'
<1>1. batch[b].st \in {"pending", "settled"} /\ batch[b].route \in {"teardown", "requeue"}
  BY DEF SteerInv, SteeringTypeOK, BatchInv, Pending
<1>2. Started(b, route)
  BY <1>1, StartFacts, Kinds DEF SteerInv, DrainBatch
<1>3. drain' = [pc |-> pc, todo |-> todo, on |-> {b}]
  BY DEF DrainBatch
<1>4. drain' \in DrainType /\ lane' \in LaneType /\ Drained'
  BY <1>3, Kinds DEF SteerInv, DrainType, Drained
<1> QED
  BY <1>1, <1>2, <1>3, <1>4, StartStep DEF Pending

LEMMA DrainNextStep ==
  ASSUME SteeringAssumption, SteerInv, NEW todo \in Seq(Batch), DrainNext(todo),
         \A c \in Members(todo) : c \in Pending \/ c \in Members(drain.todo),
         Drained, drain.on = {},
         UNCHANGED <<entry, runner, coord, texts, written, lane, queue>>
  PROVE  SteerInv'
<1>1. CASE todo # <<>>
  <2>1. Head(todo) \in Batch /\ Head(todo) \in Members(todo)
    BY <1>1, TodoFacts
  <2>2. DrainBatch(Head(todo), batch[Head(todo)].route, "tried", todo)
    BY <1>1 DEF DrainNext
  <2> QED
    BY <1>1, <2>1, <2>2, DrainBatchStep
<1>2. CASE todo = <<>>
  <2>1. drain' = [pc |-> "last", todo |-> <<>>, on |-> InFlight] /\ UNCHANGED <<batch, task>>
    BY <1>2 DEF DrainNext
  <2>2. drain' \in DrainType /\ Drained' = Drained /\ lane' \in LaneType
    BY <2>1, Kinds DEF SteerInv, DrainType, InFlight, Drained
  <2> QED
    BY <2>1, <2>2, OnlyDrainStep
<1> QED
  BY <1>1, <1>2

LEMMA DrainStep ==
  ASSUME SteeringAssumption, SteerInv, DrainGoesOn
  PROVE  SteerInv'
<1>1. /\ Drained /\ drain.on = {}
      /\ UNCHANGED <<entry, runner, coord, texts, written, lane, queue>>
      /\ drain \in DrainType
  BY Kinds DEF DrainGoesOn, Drained, SteerInv
<1>2. CASE drain.pc = "flights" /\ \E todo \in DrainOrder : DrainNext(todo)
  <2>1. PICK todo \in DrainOrder : DrainNext(todo)
    BY <1>2
  <2>2. todo \in Seq(Batch) /\ Members(todo) = Pending
    BY DrainOrderType
  <2> QED
    BY <1>1, <2>1, <2>2, DrainNextStep
<1>3. ASSUME drain.pc \in {"tried", "again"}
      PROVE  /\ drain.todo \in Seq(Batch) /\ drain.todo # <<>>
             /\ Head(drain.todo) \in Batch /\ Head(drain.todo) \in Members(drain.todo)
             /\ Tail(drain.todo) \in Seq(Batch)
             /\ Members(Tail(drain.todo)) \subseteq Members(drain.todo)
  <2>1. drain.todo \in Seq(Batch) /\ drain.todo # <<>>
    BY <1>1, <1>3 DEF DrainType, SteerInv, BatchInv
  <2> QED
    BY <2>1, TodoFacts
<1>4. CASE drain.pc \in {"tried", "again"} /\ DrainNext(Tail(drain.todo))
  BY <1>1, <1>3, <1>4, DrainNextStep
<1>5. CASE drain.pc = "tried" /\ DrainBatch(Head(drain.todo), "requeue", "again", drain.todo)
  BY <1>1, <1>3, <1>5, DrainBatchStep
<1>6. CASE /\ drain.pc = "last"
           /\ drain' = [pc |-> "done", todo |-> <<>>, on |-> {}]
           /\ UNCHANGED <<batch, task>>
  <2>1. drain' \in DrainType /\ Drained' = Drained /\ lane' \in LaneType
    BY <1>1, <1>6, Kinds DEF SteerInv, DrainType, Drained
  <2> QED
    BY <1>1, <1>6, <2>1, OnlyDrainStep
<1> QED
  BY <1>2, <1>4, <1>5, <1>6 DEF DrainGoesOn

-----------------------------------------------------------------------------
(* Rows of the conversation *)

Sorted(s) == \A j, k \in 1..Len(s) : j < k => s[j] < s[k]

(* What a write does to the rows.                                          *)
LEMMA WrittenFacts ==
  ASSUME SteeringAssumption, fell \in Seq(User), NEW m \in User, Written(m)
  PROVE  /\ fell' \in Seq(User)
         /\ Members(fell') = Members(fell) \cup {m}
         /\ Sorted(fell) /\ (\A x \in Members(fell) : x < m) => Sorted(fell')
<1>1. CASE InConversation(m)
  BY <1>1 DEF Written, InConversation, Sorted
<1>2. CASE ~InConversation(m)
  <2>1. fell' = Append(fell, m)
    BY <1>2 DEF Written
  <2>2. /\ Len(fell') = Len(fell) + 1 /\ Len(fell) \in Nat
        /\ \A k \in 1..Len(fell') : fell'[k] = IF k = Len(fell) + 1 THEN m ELSE fell[k]
    BY <2>1
  <2>3. \A k \in 1..Len(fell) : fell[k] \in Members(fell)
    BY DEF Members
  <2>4. Sorted(fell) /\ (\A x \in Members(fell) : x < m) => Sorted(fell')
    BY <2>2, <2>3 DEF Sorted
  <2> QED
    BY <2>1, <2>4, AppendMembers
<1> QED
  BY <1>1, <1>2

(* The next row belongs to a batch of the attempt, is not written yet and  *)
(* comes, in the merged commit, before every other one that is not.        *)
LEMMA NextRowFacts ==
  ASSUME SteeringAssumption, SteerInv, NEW b \in Batch, Teardown(b), NEW m \in NextRow(b)
  PROVE  /\ m \in User /\ m \notin written
         /\ \E c \in Batch : Teardown(c) /\ c \in Together(b) /\ m \in Msgs(c)
         /\ task[b] = "merged" => m \in Unwritten(b) /\ \A n \in Unwritten(b) : m <= n
<1>1. m \in Unwritten(b)
  BY DEF NextRow, Oldest
<1>2. PICK c \in Together(b) : m \in batch[c].msgs /\ m \notin written
  BY <1>1 DEF Unwritten
<1>3. c \in Batch /\ Teardown(c)
  BY DEF Together, Teardown
<1>4. m \in User
  BY <1>2, <1>3 DEF SteerInv, SteeringTypeOK
<1>5. task[b] = "merged" => \A n \in Unwritten(b) : m <= n
  BY DEF NextRow, Oldest
<1> QED
  BY <1>1, <1>2, <1>3, <1>4, <1>5 DEF Msgs

LEMMA WriteRowStep ==
  ASSUME SteeringAssumption, SteerInv, NEW b \in Batch, WriteRow(b)
  PROVE  SteerInv'
<1>1. PICK m \in NextRow(b) : Written(m) /\ unsure' = unsure \ {m} /\ written' = written \cup {m}
  BY DEF WriteRow
<1>2. /\ Teardown(b)
      /\ UNCHANGED <<entry, runner, coord, read, batch, task, lane, drain, queue>>
  BY DEF WriteRow
<1>3. /\ m \in User /\ m \notin written
      /\ \E c \in Batch : Teardown(c) /\ c \in Together(b) /\ m \in Msgs(c)
      /\ task[b] = "merged" => m \in Unwritten(b) /\ \A n \in Unwritten(b) : m <= n
  BY <1>1, <1>2, NextRowFacts
<1>4. /\ fell' \in Seq(User) /\ Members(fell') = Members(fell) \cup {m}
      /\ Sorted(fell) /\ (\A x \in Members(fell) : x < m) => Sorted(fell')
  BY <1>1, <1>3, WrittenFacts DEF SteerInv, SteeringTypeOK
<1>5. SteeringTypeOK'
  BY <1>1, <1>2, <1>3, <1>4, Kinds, TypesAfter DEF SteerInv, SteeringTypeOK, entry, runner, queue
<1>6. HoldInv'
  BY <1>1, <1>2, <1>3, <1>4 DEF SteerInv, HoldInv, Msgs, Batch, entry, runner
<1>7. PhaseInv' /\ BatchInv' /\ MachineInv'
  BY <1>2 DEF SteerInv, PhaseInv, BatchInv, MachineInv, Msgs, entry, runner, queue
<1>8. AttemptInv'
  BY <1>1, <1>2, <1>3, <1>4 DEF SteerInv, AttemptInv, HoldInv, Msgs, Teardown, queue
<1>9. ASSUME phase # "gone", ~Drained
      PROVE  /\ task[b] = "merged" /\ coord # "host"
             /\ Sorted(fell)
             /\ \A x \in Members(fell) : x < m
             /\ \A c \in Batch : task[c] = "merged" => Unwritten(c)' = Unwritten(b) \ {m}
             /\ \A n \in Unwritten(b) : n # m => m < n
  <2>1. task[b] = "merged" /\ coord # "host" /\ Sorted(fell)
    BY <1>2, <1>9 DEF SteerInv, OrderInv, Teardown, Sorted
  <2>2. \A x \in Members(fell) : \A n \in Unwritten(b) : x < n
    BY <1>9, <2>1 DEF SteerInv, OrderInv
  <2>3. \A c \in Batch : task[c] = "merged" => Unwritten(c)' = Unwritten(b) \ {m}
    BY <1>1, <1>2, <2>1 DEF Unwritten, Together
  <2>4. Unwritten(b) \subseteq User
    BY <2>1 DEF Unwritten, Together, SteerInv, SteeringTypeOK
  <2>5. \A n \in Unwritten(b) : n # m => m < n
    <3> SUFFICES ASSUME NEW n \in Unwritten(b), n # m PROVE m < n
      OBVIOUS
    <3>1. m \in Nat /\ n \in Nat
      BY <1>3, <2>4, SteeringAssumption DEF SteeringAssumption
    <3>2. m <= n
      BY <1>3, <2>1
    <3> QED
      BY <3>1, <3>2
  <2> QED
    BY <1>3, <2>1, <2>2, <2>3, <2>5
<1>10. OrderInv'
  <2> SUFFICES ASSUME phase # "gone", ~Drained PROVE OrderInv'
    BY <1>2 DEF OrderInv, Drained, entry
  <2>1. \A c \in Batch : task[c] = "merged" =>
          \A x \in Members(fell') : \A n \in Unwritten(c)' : x < n
    <3> SUFFICES ASSUME NEW x \in Members(fell'), NEW n \in Unwritten(b) \ {m} PROVE x < n
      BY <1>9
    <3>1. \A y \in Members(fell) : y < n
      BY <1>9, <1>2 DEF SteerInv, OrderInv
    <3> QED
      BY <1>4, <1>9, <3>1
  <2>2. Members(fell)' = Members(fell')
    OBVIOUS
  <2> QED
    BY <1>2, <1>4, <1>9, <2>1, <2>2 DEF SteerInv, OrderInv, Sorted, Drained
<1>11. ParkInv'
  BY <1>2 DEF SteerInv, ParkInv, Msgs, Drained, StoppedStaysParked, queue
<1> QED
  BY <1>5, <1>6, <1>7, <1>8, <1>10, <1>11 DEF SteerInv

(* What the end of a teardown's attempt does.                              *)
Ended(S) ==
  /\ batch' \in BatchType /\ task' \in TaskType /\ lane' \in LaneType /\ drain' \in DrainType
  /\ \A c \in Batch :
       /\ batch'[c].cause = batch[c].cause
       /\ batch'[c].route = batch[c].route
       /\ c \in S => /\ batch'[c].msgs = batch[c].msgs \ written
                     /\ batch'[c].st = IF batch[c].msgs \subseteq written THEN "settled"
                                       ELSE batch[c].st
                     /\ task'[c] = "none"
       /\ c \notin S => batch'[c] = batch[c] /\ task'[c] = task[c]
  /\ \A m : m \in written' <=> m \in written /\ \A c \in S : m \notin batch[c].msgs
  /\ drain'.pc = drain.pc /\ drain'.todo = drain.todo /\ drain'.on = drain.on \ S

LEMMA EndTeardownFacts ==
  ASSUME batch \in BatchType, task \in TaskType, lane \in LaneType, drain \in DrainType,
         NEW S \in SUBSET Batch, EndTeardown(S)
  PROVE  Ended(S)
<1>1. EndAttempt(S)
  BY DEF EndTeardown
<1>2. batch' \in BatchType
  BY DEF EndTeardown, BatchType
<1>3. \A c \in Batch :
       /\ batch'[c].cause = batch[c].cause
       /\ batch'[c].route = batch[c].route
       /\ c \in S => /\ batch'[c].msgs = batch[c].msgs \ written
                     /\ batch'[c].st = IF batch[c].msgs \subseteq written THEN "settled"
                                       ELSE batch[c].st
       /\ c \notin S => batch'[c] = batch[c]
  BY DEF EndTeardown, BatchType
<1>4. \A m : m \in written' <=> m \in written /\ \A c \in S : m \notin batch[c].msgs
  BY DEF EndTeardown
<1> QED
  BY <1>1, <1>2, <1>3, <1>4, EndAttemptType DEF Ended

(* An attempt of a teardown ends, and its last write may have been made    *)
(* without its knowing.                                                    *)
LEMMA EndedStep ==
  ASSUME SteeringAssumption, SteerInv, NEW b \in Batch, Teardown(b), Ended(Together(b)),
         fell' \in Seq(User),
         \/ fell' = fell /\ unsure' = unsure
         \/ \E m \in NextRow(b) : /\ m \notin Members(fell)
                                  /\ Members(fell') = Members(fell) \cup {m}
                                  /\ unsure' = unsure \cup {m}
                                  /\ Sorted(fell) /\ (\A x \in Members(fell) : x < m) => Sorted(fell'),
         UNCHANGED <<entry, runner, coord, read, queue>>
  PROVE  SteerInv'
<1> DEFINE S == Together(b)
<1>1. S \in SUBSET Batch /\ b \in S /\ \A c \in S : Teardown(c)
  BY DEF Together, Teardown
<1>2. /\ batch' \in BatchType /\ task' \in TaskType /\ lane' \in LaneType /\ drain' \in DrainType
      /\ \A c \in Batch :
           /\ batch'[c].cause = batch[c].cause
           /\ batch'[c].route = batch[c].route
           /\ c \in S => /\ batch'[c].msgs = batch[c].msgs \ written
                         /\ batch'[c].st = IF batch[c].msgs \subseteq written THEN "settled"
                                           ELSE batch[c].st
                         /\ task'[c] = "none"
           /\ c \notin S => batch'[c] = batch[c] /\ task'[c] = task[c]
      /\ \A m : m \in written' <=> m \in written /\ \A c \in S : m \notin batch[c].msgs
      /\ drain'.pc = drain.pc /\ drain'.todo = drain.todo /\ drain'.on = drain.on \ S
  BY DEF Ended
<1>3. \/ fell' = fell /\ unsure' = unsure
      \/ \E m \in User : /\ m \notin Members(fell)
                         /\ m \notin written
                         /\ \E c \in S : m \in Msgs(c)
                         /\ task[b] = "merged" => m \in Unwritten(b)
                         /\ Members(fell') = Members(fell) \cup {m}
                         /\ unsure' = unsure \cup {m}
                         /\ Sorted(fell) /\ (\A x \in Members(fell) : x < m) => Sorted(fell')
  BY NextRowFacts
<1> HIDE DEF S
<1>4. /\ Drained' = Drained /\ Members(drain.todo)' = Members(drain.todo)
      /\ Members(drain.todo) \subseteq Batch
      /\ \A c \in Batch : c \in S => batch[c].st # "none" /\ row[c] = "none"
  <2>1. Members(drain.todo) \subseteq Batch
    BY Kinds, TodoFacts DEF SteerInv, DrainType
  <2>2. \A c \in Batch : c \in S => batch[c].st # "none" /\ row[c] = "none"
    BY <1>1 DEF SteerInv, BatchInv, AttemptInv, Teardown
  <2> QED
    BY <1>2, <2>1, <2>2 DEF Drained, Members
<1>5. SteeringTypeOK'
  <2>1. fell' \in Seq(User) /\ unsure' \subseteq Members(fell') /\ written' \subseteq User
    BY <1>2, <1>3 DEF SteerInv, SteeringTypeOK
  <2>2. \A c \in Batch : task'[c] # "none" => batch'[c].st # "none"
    BY <1>2 DEF SteerInv, SteeringTypeOK
  <2> QED
    BY <1>2, <2>1, <2>2, TypesAfter DEF SteerInv, SteeringTypeOK, entry, runner, queue
<1>6. \A c \in Batch : batch'[c].msgs \subseteq batch[c].msgs
  BY <1>2
<1>7. \A x \in Members(fell') : x \in Members(fell) \/ \E c \in Batch : x \in Msgs(c)
  BY <1>1, <1>3
<1>8. HoldInv'
  BY <1>6, <1>7 DEF SteerInv, HoldInv, Msgs, Batch, entry, runner
<1>9. PhaseInv'
  BY <1>2, <1>4 DEF SteerInv, PhaseInv, Batch, entry, runner
<1>10. BatchInv'
  BY <1>2, <1>4, <1>6 DEF SteerInv, BatchInv, Msgs, queue
<1>11. AttemptInv'
  <2>1. \A x \in written' : \E c \in Batch : Teardown(c)' /\ x \in batch'[c].msgs
    BY <1>1, <1>2 DEF SteerInv, AttemptInv, Msgs, Teardown
  <2>2. written' \subseteq Members(fell') /\ written' \cap unsure' = {}
    BY <1>2, <1>3 DEF SteerInv, AttemptInv
  <2>3. \A x \in Members(fell') : \A c \in Batch :
          x \in batch'[c].msgs => x \in written' \/ x \in unsure'
    <3> SUFFICES ASSUME NEW x \in Members(fell'), NEW c \in Batch, x \in batch'[c].msgs
                 PROVE  x \in written' \/ x \in unsure'
      OBVIOUS
    <3>1. x \in written \/ x \in unsure'
      BY <1>3, <1>6 DEF SteerInv, AttemptInv, Msgs
    <3>2. x \in written => c \notin S
      BY <1>2
    <3>3. c \notin S => \A d \in S : x \notin batch[d].msgs
      BY <1>1, <1>6 DEF SteerInv, HoldInv, Msgs, Batch
    <3> QED
      BY <1>2, <3>1, <3>2, <3>3
  <2>4. \A x \in unsure' : \E c \in Batch : x \in batch'[c].msgs
    <3>1. \A x \in unsure' : x \notin written /\ \E c \in Batch : x \in Msgs(c)
      BY <1>1, <1>3 DEF SteerInv, AttemptInv
    <3> QED
      BY <1>2, <3>1 DEF Msgs
  <2>5. \A c \in Batch : /\ row'[c] # "none" => batch'[c].route = "requeue" /\ ~Teardown(c)'
                         /\ task'[c] \in {"requeue", "pause"} => batch'[c].route = "requeue"
                         /\ task'[c] = "pause" => row'[c] # "none"
                         /\ batch'[c].st = "settled" /\ row'[c] = "none" => batch'[c].msgs = {}
    BY <1>2, <1>4, <1>6 DEF SteerInv, AttemptInv, Msgs, Teardown, queue
  <2> QED
    BY <2>1, <2>2, <2>3, <2>4, <2>5 DEF AttemptInv, Msgs
<1>12. MachineInv'
  BY DEF SteerInv, MachineInv, entry, runner
<1>13. OrderInv'
  <2> SUFFICES ASSUME phase # "gone", ~Drained PROVE OrderInv'
    BY <1>4 DEF OrderInv, entry
  <2>1. task[b] = "merged" /\ coord # "host" /\ Sorted(fell)
    BY DEF SteerInv, OrderInv, Teardown, Sorted
  <2>2. \A c \in Batch : task'[c] # "teardown" /\ task'[c] # "merged"
    <3>1. \A c \in Batch : task[c] = "merged" => c \in S
      BY <2>1 DEF S, Together
    <3> QED
      BY <1>2, <3>1 DEF SteerInv, OrderInv
  <2>3. \A x \in Members(fell) : \A n \in Unwritten(b) : x < n
    BY <2>1 DEF SteerInv, OrderInv
  <2>4. Sorted(fell')
    BY <1>3, <2>1, <2>3
  <2> QED
    BY <2>1, <2>2, <2>4 DEF OrderInv, Sorted
<1>14. ParkInv'
  BY <1>2, <1>4, <1>6 DEF SteerInv, ParkInv, AttemptInv, BatchInv, Msgs, StoppedStaysParked, queue
<1> QED
  BY <1>5, <1>8, <1>9, <1>10, <1>11, <1>12, <1>13, <1>14 DEF SteerInv

LEMMA WriteFailsStep ==
  ASSUME SteeringAssumption, SteerInv, NEW b \in Batch, WriteFails(b)
  PROVE  SteerInv'
<1>1. /\ Teardown(b) /\ EndTeardown(Together(b))
      /\ UNCHANGED <<entry, runner, coord, read, queue>>
  BY DEF WriteFails
<1>2. Ended(Together(b))
  BY <1>1, EndTeardownFacts, Kinds DEF SteerInv, Together
<1>3. PICK m \in NextRow(b) : \/ UNCHANGED <<fell, unsure>>
                              \/ ~InConversation(m) /\ Written(m) /\ unsure' = unsure \cup {m}
  BY DEF WriteFails
<1>4. CASE UNCHANGED <<fell, unsure>>
  BY <1>1, <1>2, <1>4, EndedStep DEF SteerInv, SteeringTypeOK
<1>5. CASE ~InConversation(m) /\ Written(m) /\ unsure' = unsure \cup {m}
  <2>1. m \in User
    BY <1>1, NextRowFacts
  <2>2. /\ fell' \in Seq(User) /\ Members(fell') = Members(fell) \cup {m}
        /\ Sorted(fell) /\ (\A x \in Members(fell) : x < m) => Sorted(fell')
    BY <1>5, <2>1, WrittenFacts DEF SteerInv, SteeringTypeOK
  <2> QED
    BY <1>1, <1>2, <1>5, <2>2, EndedStep DEF InConversation
<1> QED
  BY <1>3, <1>4, <1>5

LEMMA CommitDoneStep ==
  ASSUME SteeringAssumption, SteerInv, NEW b \in Batch, CommitDone(b)
  PROVE  SteerInv'
<1>1. /\ Teardown(b) /\ EndTeardown(Together(b))
      /\ UNCHANGED <<entry, runner, coord, texts, queue>>
  BY DEF CommitDone
<1>2. Ended(Together(b))
  BY <1>1, EndTeardownFacts, Kinds DEF SteerInv, Together
<1> QED
  BY <1>1, <1>2, EndedStep DEF SteerInv, SteeringTypeOK, texts

-----------------------------------------------------------------------------
(* The invariant *)

LEMMA InitInv ==
  ASSUME SteeringAssumption, Init
  PROVE  SteerInv
<1>1. SteeringTypeOK
  <2>1. /\ batch \in BatchType /\ task \in TaskType /\ lane \in LaneType /\ drain \in DrainType
        /\ row \in [Batch -> {"none", "queued", "taken"}]
        /\ wake \in [Batch -> {"none", "due", "sent"}]
    BY DEF Init, NoBatch, BatchType, TaskType, LaneType, DrainType
  <2>2. /\ fell \in Seq(User) /\ unsure \subseteq Members(fell)
        /\ exit \in BOOLEAN /\ refused \in BOOLEAN /\ early \in BOOLEAN
    <3>1. fell \in Seq(User) /\ unsure \subseteq Members(fell)
      BY DEF Init
    <3>2. exit \in BOOLEAN /\ refused \in BOOLEAN /\ early \in BOOLEAN
      BY Zenon DEF Init
    <3> QED
      BY <3>1, <3>2
  <2>3. \A b \in Batch : task[b] # "none" => batch[b].st # "none"
    BY DEF Init
  <2>4. paused \in BOOLEAN /\ lifted \in BOOLEAN
    BY DEF Init
  <2> QED
    BY <2>1, <2>2, <2>3, <2>4 DEF Init, SteeringTypeOK, BatchType, TaskType, LaneType, DrainType
<1>2. Members(fell) = {} /\ Members(drain.todo) = {} /\ ~Drained
  BY DEF Init, Members, Drained
<1>3. HoldInv /\ PhaseInv /\ BatchInv /\ AttemptInv /\ MachineInv /\ OrderInv /\ ParkInv
  BY <1>2 DEF Init, NoBatch, HoldInv, PhaseInv, BatchInv, AttemptInv, MachineInv, OrderInv,
     ParkInv, StoppedStaysParked, Msgs, Teardown, Batch
<1> QED
  BY <1>1, <1>3 DEF SteerInv

LEMMA NextInv ==
  ASSUME SteeringAssumption, SteerInv, [Next]_vars
  PROVE  SteerInv'
<1>1. CASE UNCHANGED vars
  BY <1>1 DEF vars, entry, runner, texts, tracked, queue, SteerInv, SteeringTypeOK, HoldInv,
     PhaseInv, BatchInv, AttemptInv, MachineInv, OrderInv, ParkInv, StoppedStaysParked, Msgs,
     Teardown, Drained, Unwritten, Together
<1>2. CASE \/ \E m \in Message : Steer(m)
           \/ \E cause \in {"user-stop", "abort"} : Abort(cause)
           \/ StartHost \/ FailStart
           \/ \E atExit \in BOOLEAN : Poll(atExit)
           \/ EndPoll \/ TryClose
           \/ \E next \in {"work", "ended", "failing"} : AfterClose(next)
           \/ HostFails \/ Seal
  BY <1>2, SteerStep, AbortStep, StartHostStep, FailStartStep, PollStep, ConsumeStep,
     PollThrowsStep, TryCloseStep, AfterCloseStep, HostFailsStep, SealStep DEF EndPoll
<1>3. CASE CommitBeforeRelease \/ Release \/ SettlementFails \/ Shutdown \/ DrainGoesOn \/ Unpause
  BY <1>3, CommitStep, ReleaseStep, SettlementFailsStep, ShutdownStep, DrainStep, UnpauseStep
<1>4. CASE \E b \in Batch : Attempt(b) \/ LaneGoesOn(b) \/ Wake(b) \/ Take(b)
  BY <1>4, WriteRowStep, WriteFailsStep, CommitDoneStep, EnqueueStep, EnqueueFailsStep,
     PauseStep, LaneStep, WakeStep, TakeStep DEF Attempt
<1> QED
  BY <1>1, <1>2, <1>3, <1>4 DEF Next

(* The inductive invariant holds in every state the code of steering can   *)
(* be in.                                                                  *)
THEOREM Invariant == Spec => []SteerInv
<1>1. Init => SteerInv
  BY InitInv, SteeringAssumption
<1>2. SteerInv /\ [Next]_vars => SteerInv'
  BY NextInv, SteeringAssumption
<1> QED
  BY <1>1, <1>2, PTL DEF Spec

(* The state has its types: a batch is in flight only with a route it has, *)
(* and the host's hands are empty outside a poll.                          *)
THEOREM Typed == Spec => []SteeringTypeOK
<1>1. SteerInv => SteeringTypeOK
  BY DEF SteerInv
<1> QED
  BY <1>1, Invariant, PTL

(* A Turn that ends its answer has read every machine message it accepted. *)
THEOREM MachineMessagesAreRead == Spec => []MachineInputRead
<1>1. SteerInv => MachineInputRead
  BY DEF SteerInv, MachineInv, MachineInputRead
<1> QED
  BY <1>1, Invariant, PTL

(* What falls into the conversation before the release stands there in the *)
(* order it was sent.                                                      *)
THEOREM RowsKeepSendOrder == Spec => []SendOrder
<1>1. SteerInv => SendOrder
  BY DEF SteerInv, OrderInv, SendOrder, Drained
<1> QED
  BY <1>1, Invariant, PTL

(* The row of a settled batch of a stopped Turn is behind a pause that     *)
(* only the user lifts, for any messages.                                  *)
THEOREM StoppedMessagesArePaused == Spec => []StoppedStaysParked
<1>1. SteerInv => StoppedStaysParked
  BY DEF SteerInv, ParkInv
<1> QED
  BY <1>1, Invariant, PTL

-----------------------------------------------------------------------------
(* The refinement of MessageFate *)

Held(m) == m \in steering \/ m \in hands
Parked(m) == \E b \in Batch : batch[b].st = "pending" /\ m \in batch[b].msgs
Queued(m) == \E b \in Batch : row[b] # "none" /\ m \in batch[b].msgs

Places == {"turn", "read", "fell", "maybe", "queue"}

(* Where a message is, place by place.                                     *)
LEMMA PlaceFacts ==
  ASSUME NEW m \in User
  PROVE  /\ place[m] \subseteq Places
         /\ "turn" \in place[m] <=> Held(m) \/ Parked(m)
         /\ "read" \in place[m] <=> m \in read
         /\ "fell" \in place[m] <=> m \in Members(fell) /\ m \notin unsure
         /\ "maybe" \in place[m] <=> m \in Members(fell) /\ m \in unsure
         /\ "queue" \in place[m] <=> Queued(m)
BY DEF place, Places, Held, Parked, Queued, InTurn, InQueue, Pending, InConversation

LEMMA PlaceFactsAfter ==
  ASSUME NEW m \in User
  PROVE  /\ place'[m] \subseteq Places
         /\ "turn" \in place'[m] <=> Held(m)' \/ Parked(m)'
         /\ "read" \in place'[m] <=> m \in read'
         /\ "fell" \in place'[m] <=> m \in Members(fell') /\ m \notin unsure'
         /\ "maybe" \in place'[m] <=> m \in Members(fell') /\ m \in unsure'
         /\ "queue" \in place'[m] <=> Queued(m)'
BY DEF place, Places, Held, Parked, Queued, InTurn, InQueue, Pending, InConversation

(* What may happen to a message in a step.                                 *)
FateStep(m) ==
  \/ place'[m] = place[m]
  \/ Fate!Admitted(place[m], place'[m])
  \/ Fate!Read(place[m], place'[m])
  \/ Fate!Falls(place[m], place'[m])
  \/ Fate!Returns(place[m], place'[m])
  \/ Fate!Forgotten(place[m], place'[m])

(* The same without sets.                                                  *)
Turn(m) == Held(m) \/ Parked(m)
Fell(m) == m \in Members(fell) /\ m \notin unsure
Maybe(m) == m \in Members(fell) /\ m \in unsure
Gets(m) ==
  \/ /\ Turn(m)' <=> Turn(m)
     /\ m \in read' <=> m \in read
     /\ Fell(m)' <=> Fell(m)
     /\ Maybe(m)' <=> Maybe(m)
     /\ Queued(m)' <=> Queued(m)
  \/ /\ m \notin read /\ ~Fell(m) /\ ~Maybe(m) /\ ~Queued(m)
     /\ ~Fell(m)' /\ ~Maybe(m)' /\ ~Queued(m)'
     /\ \/ ~Turn(m) /\ Turn(m)' /\ m \notin read'
        \/ Turn(m) /\ ~Turn(m)' /\ m \in read'
        \/ Turn(m) /\ ~Turn(m)' /\ m \notin read' /\ early'
  \/ /\ m \notin read /\ ~Queued(m) /\ m \notin read' /\ ~Queued(m)'
     /\ \/ Turn(m) /\ ~Fell(m) /\ Turn(m)' /\ Fell(m)' /\ ~Maybe(m)'
        \/ Turn(m) /\ ~Fell(m) /\ ~Maybe(m) /\ Turn(m)' /\ ~Fell(m)' /\ Maybe(m)'
        \/ Turn(m) /\ Fell(m) /\ ~Maybe(m) /\ ~Turn(m)' /\ Fell(m)' /\ ~Maybe(m)'
  \/ /\ Turn(m) /\ ~Fell(m) /\ m \notin read
     /\ ~Fell(m)' /\ m \notin read' /\ (Maybe(m)' <=> Maybe(m)) /\ Queued(m)'

LEMMA GetsIsFate ==
  ASSUME NEW m \in User, Gets(m)
  PROVE  FateStep(m)
<1>1. /\ place[m] \subseteq Places
      /\ "turn" \in place[m] <=> Turn(m)
      /\ "read" \in place[m] <=> m \in read
      /\ "fell" \in place[m] <=> Fell(m)
      /\ "maybe" \in place[m] <=> Maybe(m)
      /\ "queue" \in place[m] <=> Queued(m)
  BY PlaceFacts DEF Turn, Fell, Maybe
<1>2. /\ place'[m] \subseteq Places
      /\ "turn" \in place'[m] <=> Turn(m)'
      /\ "read" \in place'[m] <=> m \in read'
      /\ "fell" \in place'[m] <=> Fell(m)'
      /\ "maybe" \in place'[m] <=> Maybe(m)'
      /\ "queue" \in place'[m] <=> Queued(m)'
  BY PlaceFactsAfter DEF Turn, Fell, Maybe
<1> DEFINE p == place[m]
           q == place'[m]
<1> HIDE DEF p, q
<1>3. CASE /\ Turn(m)' <=> Turn(m)
           /\ m \in read' <=> m \in read
           /\ Fell(m)' <=> Fell(m)
           /\ Maybe(m)' <=> Maybe(m)
           /\ Queued(m)' <=> Queued(m)
  <2>1. p = q
    BY <1>1, <1>2, <1>3 DEF Places, p, q
  <2> QED
    BY <2>1 DEF FateStep, p, q
<1>4. CASE /\ m \notin read /\ ~Fell(m) /\ ~Maybe(m) /\ ~Queued(m)
           /\ ~Fell(m)' /\ ~Maybe(m)' /\ ~Queued(m)'
           /\ \/ ~Turn(m) /\ Turn(m)' /\ m \notin read'
              \/ Turn(m) /\ ~Turn(m)' /\ m \in read'
              \/ Turn(m) /\ ~Turn(m)' /\ m \notin read' /\ early'
  <2>1. \/ p = {} /\ q = {"turn"}
        \/ p = {"turn"} /\ q = {"read"}
        \/ p = {"turn"} /\ q = {} /\ early'
    BY <1>1, <1>2, <1>4 DEF Places, p, q
  <2> QED
    BY <2>1 DEF FateStep, Fate!Admitted, Fate!Read, Fate!Forgotten, p, q
<1>5. CASE /\ m \notin read /\ ~Queued(m) /\ m \notin read' /\ ~Queued(m)'
           /\ \/ Turn(m) /\ ~Fell(m) /\ Turn(m)' /\ Fell(m)' /\ ~Maybe(m)'
              \/ Turn(m) /\ ~Fell(m) /\ ~Maybe(m) /\ Turn(m)' /\ ~Fell(m)' /\ Maybe(m)'
              \/ Turn(m) /\ Fell(m) /\ ~Maybe(m) /\ ~Turn(m)' /\ Fell(m)' /\ ~Maybe(m)'
  <2>1. \/ p \in {{"turn"}, {"turn", "maybe"}} /\ q = {"turn", "fell"}
        \/ p = {"turn"} /\ q = {"turn", "maybe"}
        \/ p = {"turn", "fell"} /\ q = {"fell"}
    <3>1. p = {"turn"} \/ p = {"turn", "maybe"} \/ p = {"turn", "fell"}
      BY <1>1, <1>5 DEF Places, p
    <3>2. q = {"turn", "fell"} \/ q = {"turn", "maybe"} \/ q = {"fell"}
      BY <1>2, <1>5 DEF Places, q
    <3> QED
      BY <1>1, <1>2, <1>5, <3>1, <3>2 DEF p, q
  <2> QED
    BY <2>1 DEF FateStep, Fate!Falls, p, q
<1>6. CASE /\ Turn(m) /\ ~Fell(m) /\ m \notin read
           /\ ~Fell(m)' /\ m \notin read' /\ (Maybe(m)' <=> Maybe(m)) /\ Queued(m)'
  <2>1. "turn" \in p /\ p \cap {"fell", "read"} = {}
    BY <1>1, <1>6 DEF p
  <2>2. CASE Turn(m)'
    <3>1. q = p \cup {"queue"}
      BY <1>1, <1>2, <1>6, <2>2 DEF Places, p, q
    <3> QED
      BY <2>1, <3>1 DEF FateStep, Fate!Returns, p, q
  <2>3. CASE ~Turn(m)'
    <3>1. q = (p \ {"turn"}) \cup {"queue"}
      BY <1>1, <1>2, <1>6, <2>3 DEF Places, p, q
    <3> QED
      BY <2>1, <3>1 DEF FateStep, Fate!Returns, p, q
  <2> QED
    BY <2>2, <2>3
<1> QED
  BY <1>3, <1>4, <1>5, <1>6 DEF Gets

(* A step that moves no message.                                           *)
LEMMA SameGets ==
  ASSUME NEW m \in User, Turn(m)' <=> Turn(m), Queued(m)' <=> Queued(m),
         m \in read' <=> m \in read, UNCHANGED <<fell, unsure>>
  PROVE  Gets(m)
<1>1. (Fell(m)' <=> Fell(m)) /\ (Maybe(m)' <=> Maybe(m))
  BY DEF Fell, Maybe
<1> QED
  BY <1>1 DEF Gets

LEMMA StillGets ==
  ASSUME NEW m \in User,
         \A b \in Batch : /\ batch'[b].st = batch[b].st /\ batch'[b].msgs = batch[b].msgs
                          /\ row'[b] = "none" <=> row[b] = "none",
         UNCHANGED <<steering, hands, read, fell, unsure>>
  PROVE  Gets(m)
<1>1. (Held(m)' <=> Held(m)) /\ (Parked(m)' <=> Parked(m)) /\ (Queued(m)' <=> Queued(m))
  BY DEF Held, Parked, Queued
<1> QED
  BY <1>1, SameGets DEF Turn

LEMMA HostGets ==
  ASSUME SteerInv, NEW m \in User,
         \/ StartHost \/ FailStart \/ HostFails \/ CommitBeforeRelease \/ SettlementFails \/ Unpause
         \/ (\E next \in {"work", "ended", "failing"} : AfterClose(next))
         \/ (\E b \in Batch : Wake(b) \/ Take(b))
  PROVE  Gets(m)
<1>1. UNCHANGED <<steering, hands, read, fell, unsure, batch>>
  BY DEF StartHost, FailStart, HostFails, CommitBeforeRelease, SettlementFails, Unpause,
     AfterClose, Wake, Take, entry, runner, texts, tracked
<1>2. \A b \in Batch : row'[b] = "none" <=> row[b] = "none"
  BY DEF StartHost, FailStart, HostFails, CommitBeforeRelease, SettlementFails, Unpause,
     AfterClose, Wake, Take, queue, SteerInv, SteeringTypeOK
<1> QED
  BY <1>1, <1>2, StillGets

LEMMA SteerGets ==
  ASSUME SteerInv, NEW m \in User, NEW n \in Message, Steer(n)
  PROVE  Gets(m)
<1>1. /\ n \notin accepted /\ steering' = steering \cup {n}
      /\ UNCHANGED <<hands, read, fell, unsure, batch, row>>
  BY DEF Steer, runner, texts, tracked, queue
<1>2. (Parked(m)' <=> Parked(m)) /\ (Queued(m)' <=> Queued(m))
  BY <1>1 DEF Parked, Queued
<1>3. CASE m = n
  <2>1. ~Held(m) /\ ~Parked(m) /\ ~Queued(m) /\ m \notin read /\ m \notin Members(fell)
    BY <1>1, <1>3 DEF SteerInv, HoldInv, Msgs, Held, Parked, Queued
  <2>2. Held(m)'
    BY <1>1, <1>3 DEF Held
  <2> QED
    BY <1>1, <1>2, <2>1, <2>2 DEF Gets, Turn, Fell, Maybe
<1>4. CASE m # n
  <2>1. Held(m)' <=> Held(m)
    BY <1>1, <1>4 DEF Held
  <2> QED
    BY <1>1, <1>2, <2>1, SameGets DEF Turn
<1> QED
  BY <1>3, <1>4

LEMMA PollGets ==
  ASSUME SteerInv, NEW m \in User, NEW atExit \in BOOLEAN, Poll(atExit)
  PROVE  Gets(m)
<1>1. hands = {}
  BY DEF Poll, SteerInv, SteeringTypeOK
<1>2. /\ hands' = steering /\ steering' = {}
      /\ UNCHANGED <<read, fell, unsure, batch, row>>
  BY DEF Poll, texts, tracked, queue
<1>3. (Held(m)' <=> Held(m)) /\ (Parked(m)' <=> Parked(m)) /\ (Queued(m)' <=> Queued(m))
  BY <1>1, <1>2 DEF Held, Parked, Queued
<1> QED
  BY <1>2, <1>3, SameGets DEF Turn

(* A discard parks messages in its batch.                                  *)
LEMMA DiscardMoves ==
  ASSUME SteerInv, NEW m \in User, NEW b \in Batch, NEW msgs, NEW cause,
         Discarded(b, msgs, cause), batch[b].st = "none" \/ msgs \cap User = {}, row' = row
  PROVE  /\ Parked(m)' <=> Parked(m) \/ m \in msgs
         /\ Queued(m)' <=> Queued(m)
<1>1. \A c \in Batch : c # b => batch'[c] = batch[c]
  BY DEF Discarded
<1>2. CASE msgs \cap User = {}
  <2>1. \A c \in Batch : batch'[c] = batch[c]
    BY <1>1, <1>2 DEF Discarded
  <2> QED
    BY <1>2, <2>1 DEF Parked, Queued
<1>3. CASE msgs \cap User # {}
  <2>1. batch[b].st = "none" /\ batch[b].msgs = {} /\ row[b] = "none"
    BY <1>3 DEF SteerInv, BatchInv, Msgs
  <2>2. batch'[b].st = "pending" /\ batch'[b].msgs = msgs \cap User
    BY <1>3 DEF Discarded
  <2> QED
    BY <1>1, <2>1, <2>2 DEF Parked, Queued
<1> QED
  BY <1>2, <1>3

LEMMA DiscardGets ==
  ASSUME SteerInv, NEW m \in User, NEW cause, Discarded("left", steering, cause),
         batch["left"].st = "none" \/ steering \cap User = {},
         steering' = {}, UNCHANGED <<hands, read, fell, unsure, row>>
  PROVE  Gets(m)
<1>1. (Parked(m)' <=> Parked(m) \/ m \in steering) /\ (Queued(m)' <=> Queued(m))
  BY DiscardMoves DEF Batch
<1>2. Held(m)' <=> m \in hands
  BY DEF Held
<1> QED
  BY <1>1, <1>2, SameGets DEF Turn, Held

LEMMA LeftIsFree ==
  ASSUME SteerInv
  PROVE  batch["left"].st = "none" \/ steering \cap User = {}
BY DEF SteerInv, PhaseInv, Batch

LEMMA EndGets ==
  ASSUME SteerInv, NEW m \in User,
         \/ \E cause \in {"user-stop", "abort"} : Abort(cause)
         \/ Seal \/ Shutdown \/ TryClose
  PROVE  Gets(m)
<1>1. /\ batch \in BatchType /\ task \in TaskType /\ lane \in LaneType
      /\ "left" \in Batch
  BY Kinds DEF SteerInv, Batch
<1>2. ASSUME NEW cause \in {"user-stop", "abort"}, Abort(cause) PROVE Gets(m)
  <2>1. Discarded("left", steering, cause)
    BY <1>1, <1>2, DiscardFacts DEF Abort, AbortEntry
  <2> QED
    BY <1>2, <2>1, DiscardGets, LeftIsFree DEF Abort, AbortEntry, runner, texts, queue
<1>3. CASE Seal
  <2>1. Discarded("left", steering, IF Aborted THEN phase ELSE "abnormal-seal")
    BY <1>1, <1>3, DiscardFacts DEF Seal, Aborted
  <2> QED
    BY <1>3, <2>1, DiscardGets, LeftIsFree DEF Seal, texts, queue
<1>4. CASE Shutdown /\ phase \in {"running", "closing"}
  <2>1. Discarded("left", steering, "abort")
    BY <1>1, <1>4, DiscardFacts DEF Shutdown, AbortEntry
  <2> QED
    BY <1>4, <2>1, DiscardGets, LeftIsFree DEF Shutdown, AbortEntry, runner, texts, queue
<1>5. CASE Shutdown /\ phase \notin {"running", "closing"}
  BY <1>5, StillGets DEF Shutdown, entry, runner, texts, queue
<1>6. CASE TryClose /\ ~Aborted /\ ~HoldsClose
  <2>1. Discarded("left", steering, "exit-close")
    BY <1>1, <1>6, DiscardFacts DEF TryClose, Close
  <2> QED
    BY <1>6, <2>1, DiscardGets, LeftIsFree DEF TryClose, Close, texts, queue
<1>7. CASE TryClose /\ (Aborted \/ HoldsClose)
  BY <1>7, StillGets DEF TryClose, entry, texts, queue
<1> QED
  BY <1>2, <1>3, <1>4, <1>5, <1>6, <1>7

(* A poll gives messages to the model and gives the rest back.             *)
LEMMA GiveBackGets ==
  ASSUME SteerInv, NEW m \in User, NEW taken \in SUBSET hands, host = "poll",
         Restore(hands \ taken), read' = read \cup taken, UNCHANGED <<fell, unsure, row>>
  PROVE  Gets(m)
<1> DEFINE rest == hands \ taken
<1>1. hands' = {} /\ phase' = phase
  BY DEF Restore
<1>2. /\ Held(m)' \/ Parked(m)' <=> m \in steering \/ m \in rest \/ Parked(m)
      /\ Queued(m)' <=> Queued(m)
  <2>1. CASE Aborted
    <3>1. Discarded("held", rest, phase) /\ steering' = steering
      BY <2>1, DiscardFacts, Kinds DEF SteerInv, Batch, Restore, Aborted
    <3>2. batch["held"].st = "none" \/ rest \cap User = {}
      BY DEF SteerInv, PhaseInv
    <3>3. (Parked(m)' <=> Parked(m) \/ m \in rest) /\ (Queued(m)' <=> Queued(m))
      BY <3>1, <3>2, DiscardMoves DEF Batch
    <3> QED
      BY <1>1, <3>1, <3>3 DEF Held
  <2>2. CASE ~Aborted
    <3>1. steering' = steering \cup rest /\ batch' = batch
      BY <2>2 DEF Restore
    <3> QED
      BY <1>1, <3>1 DEF Held, Parked, Queued
  <2> QED
    BY <2>1, <2>2
<1>3. CASE m \in taken
  <2>1. /\ m \in hands /\ m \notin read /\ m \notin Members(fell) /\ m \notin steering
        /\ ~Parked(m) /\ ~Queued(m) /\ m \in read'
    BY <1>3 DEF SteerInv, HoldInv, Msgs, Parked, Queued
  <2>2. ~Turn(m)'
    BY <1>2, <1>3, <2>1 DEF Turn
  <2> QED
    BY <1>2, <2>1, <2>2 DEF Gets, Turn, Held, Fell, Maybe
<1>4. CASE m \notin taken
  <2>1. (Turn(m)' <=> Turn(m)) /\ (m \in read' <=> m \in read)
    BY <1>2, <1>4 DEF Turn, Held
  <2> QED
    BY <1>2, <2>1, SameGets
<1> QED
  BY <1>3, <1>4

LEMMA EndPollGets ==
  ASSUME SteerInv, NEW m \in User, EndPoll
  PROVE  Gets(m)
<1>1. ASSUME NEW stops \in BOOLEAN, Consume(stops) PROVE Gets(m)
  <2> DEFINE taken == IF stops THEN {} ELSE hands \ (IF exit THEN User ELSE {})
  <2>1. /\ taken \in SUBSET hands /\ host = "poll"
        /\ Restore(hands \ taken) /\ read' = read \cup taken
        /\ UNCHANGED <<fell, unsure, row>>
    BY <1>1 DEF Consume, queue
  <2> QED
    BY <2>1, GiveBackGets
<1>2. CASE PollThrows
  <2>1. {} \in SUBSET hands /\ Restore(hands \ {}) /\ read' = read \cup {} /\ host = "poll"
    <3>1. hands \ {} = hands
      OBVIOUS
    <3> QED
      BY <1>2, <3>1 DEF PollThrows, texts
  <2> QED
    BY <1>2, <2>1, GiveBackGets DEF PollThrows, texts, queue
<1> QED
  BY <1>1, <1>2 DEF EndPoll

(* What a release drops was accepted by a Turn whose host never ran.       *)
LEMMA ReleaseGets ==
  ASSUME SteerInv, NEW m \in User, Release
  PROVE  Gets(m)
<1>1. /\ steering' = {} /\ early' = early
      /\ UNCHANGED <<hands, read, fell, unsure, batch, row>>
  BY DEF Release, runner, texts, tracked, queue
<1>2. (Parked(m)' <=> Parked(m)) /\ (Queued(m)' <=> Queued(m))
  BY <1>1 DEF Parked, Queued
<1>3. CASE m \in steering
  <2>1. early
    BY <1>3 DEF Release, SteerInv, PhaseInv
  <2>2. /\ m \notin hands /\ m \notin read /\ m \notin Members(fell)
        /\ ~Parked(m) /\ ~Queued(m)
    BY <1>3 DEF SteerInv, HoldInv, Msgs, Parked, Queued
  <2>3. Turn(m) /\ ~Turn(m)'
    BY <1>1, <1>2, <1>3, <2>2 DEF Turn, Held
  <2> QED
    BY <1>1, <1>2, <2>1, <2>2, <2>3 DEF Gets, Fell, Maybe
<1>4. CASE m \notin steering
  <2>1. Held(m)' <=> Held(m)
    BY <1>1, <1>4 DEF Held
  <2> QED
    BY <1>1, <1>2, <2>1, SameGets DEF Turn
<1> QED
  BY <1>3, <1>4

(* The messages of a batch that is on its way to the queue.                *)
LEMMA RequeuedMessages ==
  ASSUME SteerInv, NEW b \in Batch, task[b] \in {"requeue", "pause"}, NEW m \in batch[b].msgs
  PROVE  /\ ~Fell(m) /\ m \notin read /\ ~Held(m)
         /\ \A c \in Batch : m \in batch[c].msgs => c = b
         /\ batch[b].st = "pending" \/ (batch[b].st = "settled" /\ row[b] # "none")
<1>1. m \notin read /\ ~Held(m) /\ \A c \in Batch : m \in batch[c].msgs => c = b
  BY DEF SteerInv, HoldInv, Msgs, Held, Batch
<1>2. m \notin written
  BY <1>1 DEF SteerInv, AttemptInv, Msgs, Teardown
<1>3. ~Fell(m)
  BY <1>2 DEF SteerInv, AttemptInv, Msgs, Fell
<1>4. batch[b].st = "pending" \/ (batch[b].st = "settled" /\ row[b] # "none")
  BY DEF SteerInv, SteeringTypeOK, BatchInv, AttemptInv, Msgs
<1> QED
  BY <1>1, <1>3, <1>4

LEMMA RequeueGets ==
  ASSUME SteerInv, NEW m \in User, NEW b \in Batch, task[b] \in {"requeue", "pause"},
         \A c \in Batch : /\ batch'[c].msgs = batch[c].msgs
                          /\ batch'[c].st = batch[c].st \/ (c = b /\ batch'[c].st = "settled")
                          /\ c # b => (row'[c] = "none" <=> row[c] = "none"),
         row'[b] # "none",
         UNCHANGED <<steering, hands, read, fell, unsure>>
  PROVE  Gets(m)
<1>1. Held(m)' <=> Held(m)
  BY DEF Held
<1>2. CASE m \notin batch[b].msgs
  <2>1. (Parked(m)' <=> Parked(m)) /\ (Queued(m)' <=> Queued(m))
    BY <1>2 DEF Parked, Queued
  <2> QED
    BY <1>1, <2>1, SameGets DEF Turn
<1>3. CASE m \in batch[b].msgs
  <2>1. /\ ~Fell(m) /\ m \notin read /\ ~Held(m)
        /\ \A c \in Batch : m \in batch[c].msgs => c = b
        /\ batch[b].st = "pending" \/ (batch[b].st = "settled" /\ row[b] # "none")
    BY <1>3, RequeuedMessages
  <2>2. Queued(m)' /\ (Fell(m)' <=> Fell(m)) /\ (Maybe(m)' <=> Maybe(m)) /\ m \notin read'
    BY <1>3, <2>1 DEF Queued, Fell, Maybe
  <2>3. CASE batch[b].st = "pending"
    <3>1. Turn(m)
      BY <1>3, <2>3 DEF Turn, Parked
    <3> QED
      BY <2>1, <2>2, <3>1 DEF Gets
  <2>4. CASE batch[b].st = "settled" /\ row[b] # "none"
    <3>1. ~Turn(m) /\ ~Turn(m)' /\ Queued(m)
      BY <1>1, <1>3, <2>1, <2>4 DEF Turn, Parked, Queued
    <3> QED
      BY <2>2, <3>1, SameGets
  <2> QED
    BY <2>1, <2>3, <2>4
<1> QED
  BY <1>2, <1>3

LEMMA QueueGets ==
  ASSUME SteerInv, NEW m \in User, NEW b \in Batch,
         Enqueue(b) \/ EnqueueFails(b) \/ Pause(b) \/ PauseFails(b)
  PROVE  Gets(m)
<1>1. /\ task[b] \in {"requeue", "pause"}
      /\ UNCHANGED <<steering, hands, read, fell, unsure>>
  BY DEF Enqueue, EnqueueFails, Pause, PauseFails, entry, runner, texts
<1>2. ASSUME NEW ok \in BOOLEAN, EndRequeue(b, ok)
      PROVE  \A c \in Batch : /\ batch'[c].msgs = batch[c].msgs
                              /\ batch'[c].st = IF ok /\ c = b THEN "settled" ELSE batch[c].st
  BY <1>2, EndRequeueFacts, Kinds DEF Requeued, SteerInv, SteeringTypeOK
<1>3. CASE Enqueue(b)
  <2>1. row'[b] = "queued" /\ \A c \in Batch : c # b => row'[c] = row[c]
    BY <1>3 DEF Enqueue, SteerInv, SteeringTypeOK
  <2>2. batch' = batch \/ EndRequeue(b, TRUE)
    BY <1>3 DEF Enqueue
  <2> QED
    BY <1>1, <1>2, <2>1, <2>2, RequeueGets
<1>4. CASE Pause(b)
  <2>1. row' = row /\ row[b] # "none"
    BY <1>4 DEF Pause, SteerInv, AttemptInv
  <2>2. EndRequeue(b, TRUE)
    BY <1>4 DEF Pause
  <2> QED
    BY <1>1, <1>2, <2>1, <2>2, RequeueGets
<1>5. CASE EnqueueFails(b) \/ PauseFails(b)
  <2>1. row' = row /\ EndRequeue(b, FALSE)
    BY <1>5 DEF EnqueueFails, PauseFails
  <2> QED
    BY <1>1, <1>2, <2>1, StillGets
<1> QED
  BY <1>3, <1>4, <1>5

(* An attempt that begins moves nothing.                                   *)
LEMMA StartGets ==
  ASSUME SteerInv, NEW m \in User, (\E b \in Batch : LaneGoesOn(b)) \/ DrainGoesOn
  PROVE  Gets(m)
<1>1. /\ batch \in BatchType /\ drain \in DrainType
      /\ UNCHANGED <<steering, hands, read, fell, unsure, row>>
  BY Kinds DEF SteerInv, LaneGoesOn, DrainGoesOn, entry, runner, texts, queue
<1>2. ASSUME NEW b \in Batch, NEW route, Start(b, route)
      PROVE  \A c \in Batch : batch'[c].st = batch[c].st /\ batch'[c].msgs = batch[c].msgs
  BY <1>1, <1>2 DEF Start, BatchType
<1>3. ASSUME NEW b \in Batch, LaneGoesOn(b)
      PROVE  \A c \in Batch : batch'[c].st = batch[c].st /\ batch'[c].msgs = batch[c].msgs
  <2>1. batch' = batch \/ \E route : Start(b, route)
    BY <1>3 DEF LaneGoesOn
  <2> QED
    BY <1>2, <2>1
<1>4. ASSUME NEW todo \in Seq(Batch), DrainNext(todo)
      PROVE  \A c \in Batch : batch'[c].st = batch[c].st /\ batch'[c].msgs = batch[c].msgs
  <2>1. CASE todo # <<>>
    <3>1. Head(todo) \in Batch
      BY <2>1, TodoFacts
    <3>2. \E route : Start(Head(todo), route)
      BY <1>4, <2>1 DEF DrainNext, DrainBatch
    <3> QED
      BY <1>2, <3>1, <3>2
  <2>2. CASE todo = <<>>
    BY <1>4, <2>2 DEF DrainNext
  <2> QED
    BY <2>1, <2>2
<1>5. CASE DrainGoesOn
  <2>1. CASE drain.pc = "flights" /\ \E todo \in DrainOrder : DrainNext(todo)
    <3>1. PICK todo \in DrainOrder : DrainNext(todo)
      BY <2>1
    <3>2. todo \in Seq(Batch)
      BY DrainOrderType
    <3> QED
      BY <1>1, <1>4, <3>1, <3>2, StillGets
  <2>2. ASSUME drain.pc \in {"tried", "again"}
        PROVE  Head(drain.todo) \in Batch /\ Tail(drain.todo) \in Seq(Batch)
    <3>1. drain.todo \in Seq(Batch) /\ drain.todo # <<>>
      BY <1>1, <2>2 DEF DrainType, SteerInv, BatchInv
    <3> QED
      BY <3>1, TodoFacts
  <2>3. CASE drain.pc \in {"tried", "again"} /\ DrainNext(Tail(drain.todo))
    BY <1>1, <1>4, <2>2, <2>3, StillGets
  <2>4. CASE drain.pc = "tried" /\ DrainBatch(Head(drain.todo), "requeue", "again", drain.todo)
    <3>1. Start(Head(drain.todo), "requeue")
      BY <2>4 DEF DrainBatch
    <3> QED
      BY <1>1, <1>2, <2>2, <2>4, <3>1, StillGets
  <2>5. CASE drain.pc = "last" /\ UNCHANGED <<batch, task>>
    BY <1>1, <2>5, StillGets
  <2> QED
    BY <1>5, <2>1, <2>3, <2>4, <2>5 DEF DrainGoesOn
<1> QED
  BY <1>1, <1>3, <1>5, StillGets

(* The messages a teardown is writing or has written.                      *)
LEMMA TeardownMessages ==
  ASSUME SteerInv, NEW b \in Batch, Teardown(b), NEW m \in batch[b].msgs
  PROVE  /\ Turn(m) /\ ~Held(m) /\ m \notin read /\ ~Queued(m)
         /\ batch[b].st = "pending" /\ row[b] = "none"
         /\ \A c \in Batch : m \in batch[c].msgs => c = b
         /\ m \in written => m \in Members(fell) /\ m \notin unsure
         /\ m \notin written => ~Fell(m)
<1>1. m \notin read /\ ~Held(m) /\ \A c \in Batch : m \in batch[c].msgs => c = b
  BY DEF SteerInv, HoldInv, Msgs, Held, Batch
<1>2. row[b] = "none" /\ batch[b].st = "pending"
  BY DEF SteerInv, SteeringTypeOK, BatchInv, AttemptInv, Msgs, Teardown
<1>3. /\ m \in written => m \in Members(fell) /\ m \notin unsure
      /\ m \notin written => ~Fell(m)
  BY DEF SteerInv, AttemptInv, Msgs, Fell
<1> QED
  BY <1>1, <1>2, <1>3 DEF Turn, Parked, Queued

LEMMA WriteGets ==
  ASSUME SteeringAssumption, SteerInv, NEW m \in User, NEW b \in Batch, WriteRow(b)
  PROVE  Gets(m)
<1>1. PICK n \in NextRow(b) : Written(n) /\ unsure' = unsure \ {n}
  BY DEF WriteRow
<1>2. /\ Teardown(b) /\ UNCHANGED <<steering, hands, read, batch, row>>
  BY DEF WriteRow, entry, runner, queue
<1>3. PICK c \in Batch : Teardown(c) /\ n \in batch[c].msgs /\ n \notin written /\ n \in User
  BY <1>1, <1>2, NextRowFacts DEF Msgs
<1>4. Members(fell') = Members(fell) \cup {n}
  BY <1>1, <1>3, WrittenFacts DEF SteerInv, SteeringTypeOK
<1>5. (Turn(m)' <=> Turn(m)) /\ (Queued(m)' <=> Queued(m)) /\ (m \in read' <=> m \in read)
  BY <1>2 DEF Turn, Held, Parked, Queued
<1>6. CASE m = n
  <2>1. Turn(m) /\ m \notin read /\ ~Queued(m) /\ ~Fell(m)
    BY <1>3, <1>6, TeardownMessages
  <2>2. Fell(m)' /\ ~Maybe(m)'
    BY <1>1, <1>4, <1>6 DEF Fell, Maybe
  <2> QED
    BY <1>5, <2>1, <2>2 DEF Gets
<1>7. CASE m # n
  <2>1. (Fell(m)' <=> Fell(m)) /\ (Maybe(m)' <=> Maybe(m))
    BY <1>1, <1>4, <1>7 DEF Fell, Maybe
  <2> QED
    BY <1>5, <2>1 DEF Gets
<1> QED
  BY <1>6, <1>7

LEMMA EndedGets ==
  ASSUME SteeringAssumption, SteerInv, NEW m \in User, NEW b \in Batch,
         Teardown(b), Ended(Together(b)),
         \/ fell' = fell /\ unsure' = unsure
         \/ \E n \in NextRow(b) : /\ n \notin Members(fell)
                                  /\ Members(fell') = Members(fell) \cup {n}
                                  /\ unsure' = unsure \cup {n},
         UNCHANGED <<steering, hands, read, row>>
  PROVE  Gets(m)
<1> DEFINE S == Together(b)
<1>1. S \in SUBSET Batch /\ b \in S /\ \A c \in S : Teardown(c)
  BY DEF Together, Teardown
<1>2. \A c \in Batch :
        /\ c \in S => /\ batch'[c].msgs = batch[c].msgs \ written
                      /\ batch'[c].st = IF batch[c].msgs \subseteq written THEN "settled"
                                        ELSE batch[c].st
        /\ c \notin S => batch'[c] = batch[c]
  BY DEF Ended
<1>3. \/ fell' = fell /\ unsure' = unsure
      \/ \E n \in User : /\ n \notin Members(fell) /\ n \notin written
                         /\ \E c \in S : n \in batch[c].msgs
                         /\ Members(fell') = Members(fell) \cup {n}
                         /\ unsure' = unsure \cup {n}
  BY NextRowFacts DEF Msgs
<1> HIDE DEF S
<1>4. (Held(m)' <=> Held(m)) /\ (m \in read' <=> m \in read)
  BY DEF Held
<1>5. CASE \E c \in S : m \in batch[c].msgs
  <2>1. PICK c \in S : m \in batch[c].msgs
    BY <1>5
  <2>2. /\ c \in Batch
        /\ Turn(m) /\ ~Held(m) /\ m \notin read /\ ~Queued(m)
        /\ batch[c].st = "pending" /\ row[c] = "none"
        /\ \A d \in Batch : m \in batch[d].msgs => d = c
        /\ m \in written => m \in Members(fell) /\ m \notin unsure
        /\ m \notin written => ~Fell(m)
    BY <1>1, <2>1, TeardownMessages
  <2>3. \A d \in Batch : m \in batch'[d].msgs => d = c
    BY <1>2, <2>2
  <2>4. ~Queued(m)'
    BY <2>2, <2>3 DEF Queued
  <2>5. CASE m \in written
    <3>1. ~Turn(m)'
      BY <1>2, <1>4, <2>1, <2>2, <2>3, <2>5 DEF Turn, Parked
    <3>2. Fell(m) /\ ~Maybe(m) /\ Fell(m)' /\ ~Maybe(m)'
      BY <1>3, <2>2, <2>5 DEF Fell, Maybe
    <3> QED
      BY <1>4, <2>2, <2>4, <3>1, <3>2 DEF Gets
  <2>6. CASE m \notin written
    <3>1. Turn(m)'
      BY <1>2, <2>1, <2>2, <2>6 DEF Turn, Parked
    <3>2. ~Fell(m) /\ ~Fell(m)' /\ (Maybe(m)' \/ ~Maybe(m))
      BY <1>3, <2>2, <2>6 DEF Fell, Maybe
    <3> QED
      BY <1>4, <2>2, <2>4, <3>1, <3>2 DEF Gets
  <2> QED
    BY <2>5, <2>6
<1>6. CASE \A c \in S : m \notin batch[c].msgs
  <2>1. \A c \in Batch : \/ c \notin S /\ batch'[c] = batch[c]
                         \/ m \notin batch[c].msgs /\ m \notin batch'[c].msgs
    BY <1>2, <1>6
  <2>2. (Parked(m)' <=> Parked(m)) /\ (Queued(m)' <=> Queued(m))
    BY <2>1 DEF Parked, Queued
  <2>3. (Fell(m)' <=> Fell(m)) /\ (Maybe(m)' <=> Maybe(m))
    BY <1>3, <1>6 DEF Fell, Maybe
  <2> QED
    BY <1>4, <2>2, <2>3 DEF Gets, Turn
<1> QED
  BY <1>5, <1>6

LEMMA EndGetsRows ==
  ASSUME SteeringAssumption, SteerInv, NEW m \in User, NEW b \in Batch,
         WriteFails(b) \/ CommitDone(b)
  PROVE  Gets(m)
<1>1. /\ Teardown(b) /\ Ended(Together(b))
      /\ UNCHANGED <<steering, hands, read, row>>
  BY EndTeardownFacts, Kinds DEF SteerInv, WriteFails, CommitDone, Together, entry, runner,
     texts, queue
<1>2. CASE CommitDone(b)
  BY <1>1, <1>2, EndedGets DEF CommitDone, texts
<1>3. CASE WriteFails(b)
  <2>1. PICK n \in NextRow(b) : \/ UNCHANGED <<fell, unsure>>
                                \/ ~InConversation(n) /\ Written(n) /\ unsure' = unsure \cup {n}
    BY <1>3 DEF WriteFails
  <2>2. n \in User
    BY <1>1, NextRowFacts
  <2>3. Written(n) => Members(fell') = Members(fell) \cup {n}
    BY <2>2, WrittenFacts DEF SteerInv, SteeringTypeOK
  <2> QED
    BY <1>1, <2>1, <2>3, EndedGets DEF InConversation
<1> QED
  BY <1>2, <1>3

-----------------------------------------------------------------------------
LEMMA FateInit ==
  ASSUME SteeringAssumption, Init
  PROVE  Fate!Init
<1>1. \A m \in User : place[m] = {}
  <2> SUFFICES ASSUME NEW m \in User PROVE place[m] = {}
    OBVIOUS
  <2>1. ~Held(m) /\ ~Parked(m) /\ ~Queued(m) /\ m \notin read /\ m \notin Members(fell)
    BY DEF Init, NoBatch, Held, Parked, Queued, Members
  <2>2. place[m] \subseteq Places /\ \A x \in Places : x \notin place[m]
    BY <2>1, PlaceFacts DEF Places
  <2> QED
    BY <2>2
<1>2. place = [m \in User |-> place[m]]
  BY DEF place
<1>3. place = [m \in User |-> {}]
  BY <1>1, <1>2, Zenon
<1> QED
  BY <1>3 DEF Fate!Init, Init

LEMMA FateNext ==
  ASSUME SteeringAssumption, SteerInv, [Next]_vars
  PROVE  [Fate!Next]_Fate!vars
<1>1. \A m \in User : Gets(m)
  <2> SUFFICES ASSUME NEW m \in User PROVE Gets(m)
    OBVIOUS
  <2>1. CASE UNCHANGED vars
    BY <2>1, StillGets DEF vars, entry, runner, texts, tracked, queue
  <2>2. CASE Next
    <3>1. CASE \/ StartHost \/ FailStart \/ HostFails \/ CommitBeforeRelease \/ SettlementFails
               \/ Unpause \/ (\E next \in {"work", "ended", "failing"} : AfterClose(next))
               \/ (\E b \in Batch : Wake(b) \/ Take(b))
      BY <3>1, HostGets
    <3>2. CASE \/ (\E n \in Message : Steer(n)) \/ (\E atExit \in BOOLEAN : Poll(atExit))
               \/ (\E cause \in {"user-stop", "abort"} : Abort(cause))
               \/ Seal \/ Shutdown \/ TryClose \/ EndPoll \/ Release
      BY <3>2, SteerGets, PollGets, EndGets, EndPollGets, ReleaseGets
    <3>3. CASE (\E b \in Batch : Attempt(b) \/ LaneGoesOn(b)) \/ DrainGoesOn
      BY <3>3, QueueGets, StartGets, WriteGets, EndGetsRows DEF Attempt
    <3> QED
      BY <2>2, <3>1, <3>2, <3>3 DEF Next
  <2> QED
    BY <2>1, <2>2
<1>2. \A m \in User : FateStep(m)
  BY <1>1, GetsIsFate
<1>3. early => early'
  BY DEF Next, vars, StartHost, FailStart, HostFails, CommitBeforeRelease, SettlementFails,
     Unpause, AfterClose, Wake, Take, Steer, Poll, Abort, Seal, Shutdown, TryClose, EndPoll,
     Consume, PollThrows, Release, Attempt, WriteRow, WriteFails, CommitDone, Enqueue,
     EnqueueFails, Pause, PauseFails, LaneGoesOn, DrainGoesOn, runner
<1>4. place' \in [User -> SUBSET {"turn", "read", "fell", "maybe", "queue"}]
  BY DEF place
<1> QED
  BY <1>2, <1>3, <1>4 DEF Fate!Next, FateStep

(* Steering implements the fate of messages: every accepted message of the *)
(* user ends in one place, and is held until it is there.                  *)
THEOREM ImplementsMessageFate == Spec => MessageFate
<1>1. Init => Fate!Init
  BY FateInit, SteeringAssumption
<1>2. SteerInv /\ [Next]_vars => [Fate!Next]_Fate!vars
  BY FateNext, SteeringAssumption
<1> QED
  BY <1>1, <1>2, Invariant, PTL DEF Spec, MessageFate, Fate!Spec

-----------------------------------------------------------------------------
(* Nobody waits for nobody *)

(* BatchesAttended, and the reason for it: a lane that has come to its last *)
(* try has made the requeue the batch's way.                                *)
Tended ==
  /\ \A b \in Pending : /\ lane[b].at # "none"
                        /\ lane[b].at \in {"last", "over"} => batch[b].route = "requeue"
  /\ \A b \in Batch : lane[b].waits => b \in InFlight
  /\ drain.on \subseteq InFlight

LEMMA QuietTends ==
  ASSUME Tended, UNCHANGED <<batch, task, lane, drain>>
  PROVE  Tended'
BY DEF Tended, Pending, InFlight

(* A batch that is new is tended by its lane, and no attempt was in flight  *)
(* for it that somebody could await.                                        *)
LEMMA DiscardTends ==
  ASSUME SteerInv, Tended, NEW b \in Batch, NEW msgs, NEW cause,
         Discard(b, msgs, cause), batch[b].st = "none" \/ msgs \cap User = {},
         drain'.on \in {drain.on, InFlight}
  PROVE  Tended'
<1>1. drain'.on \subseteq InFlight
  BY DEF Tended
<1>2. CASE msgs \cap User = {}
  <2>1. UNCHANGED <<batch, task, lane>>
    BY <1>2 DEF Discard
  <2> QED
    BY <1>1, <2>1 DEF Tended, Pending, InFlight
<1>3. CASE msgs \cap User # {}
  <2>1. batch \in BatchType /\ task \in TaskType /\ lane \in LaneType
    BY Kinds DEF SteerInv
  <2>2. b \notin InFlight
    BY <1>3 DEF SteerInv, BatchInv, InFlight
  <2> DEFINE route == IF cause = "exit-close" THEN "requeue" ELSE "teardown"
  <2>3. /\ batch' = [batch EXCEPT ![b] =
              [st |-> "pending", msgs |-> msgs \cap User, cause |-> cause, route |-> route]]
        /\ task' = [task EXCEPT ![b] = IF route = "requeue" THEN route ELSE "none"]
        /\ lane' = [lane EXCEPT ![b] = [at |-> "parked", waits |-> route = "requeue"]]
    BY <1>3 DEF Discard
  <2>4. lane'[b] = [at |-> "parked", waits |-> route = "requeue"]
    BY <2>1, <2>3 DEF LaneType
  <2>5. lane'[b].at = "parked" /\ lane'[b].waits = (route = "requeue")
    BY <2>4
  <2>6. route = "requeue" => task'[b] = "requeue"
    BY <2>1, <2>3 DEF TaskType
  <2>7. \A c \in Batch : c # b => batch'[c] = batch[c] /\ task'[c] = task[c]
                                   /\ lane'[c] = lane[c]
    BY <2>1, <2>3 DEF BatchType, TaskType, LaneType
  <2> HIDE DEF route
  <2>8. InFlight \subseteq InFlight'
    BY <2>2, <2>7 DEF InFlight
  <2>9. \A c \in Pending' : /\ lane'[c].at # "none"
                            /\ lane'[c].at \in {"last", "over"} => batch'[c].route = "requeue"
    BY <2>5, <2>7 DEF Tended, Pending
  <2>10. \A c \in Batch : lane'[c].waits => c \in InFlight'
    <3>1. lane'[b].waits => b \in InFlight'
      BY <2>5, <2>6 DEF InFlight
    <3> QED
      BY <2>8, <2>7, <3>1 DEF Tended
  <2>11. drain'.on \subseteq InFlight'
    BY <1>1, <2>8
  <2> QED
    BY <2>9, <2>10, <2>11 DEF Tended
<1> QED
  BY <1>2, <1>3

(* When an attempt ends, whoever awaited it goes on.                        *)
LEMMA EndTends ==
  ASSUME SteerInv, Tended, NEW S \in SUBSET Batch, EndAttempt(S),
         \A c \in Batch : /\ batch'[c].route = batch[c].route
                          /\ batch'[c].st = "pending" => batch[c].st = "pending"
  PROVE  Tended'
<1>1. task \in TaskType /\ lane \in LaneType /\ drain \in DrainType
  BY Kinds DEF SteerInv
<1>2. /\ \A c \in Batch : task'[c] = IF c \in S THEN "none" ELSE task[c]
      /\ drain'.on = drain.on \ S
  BY <1>1, EndAttemptType
<1>3. \A c \in Batch : /\ lane'[c].at = lane[c].at
                       /\ lane'[c].waits => c \notin S /\ lane[c].waits
  BY <1>1 DEF EndAttempt, LaneType
<1> QED
  BY <1>2, <1>3 DEF Tended, Pending, InFlight

(* A lane that goes on joins the attempt in flight or begins one.           *)
LEMMA LaneTends ==
  ASSUME SteerInv, Tended, NEW b \in Batch, LaneGoesOn(b)
  PROVE  Tended'
<1> DEFINE at == IF batch[b].st = "pending" THEN Following(b) ELSE "over"
<1>1. batch \in BatchType /\ task \in TaskType /\ lane \in LaneType
  BY Kinds DEF SteerInv
<1>2. /\ lane[b].at \in {"parked", "first", "second", "last"}
      /\ lane' = [lane EXCEPT ![b] = [at |-> at, waits |-> at # "over"]]
      /\ drain' = drain
  BY <1>1 DEF LaneGoesOn, LaneType
<1>3. /\ at \in {"first", "second", "last", "over"}
      /\ batch[b].st = "pending" /\ at = "over" => lane[b].at = "last"
  BY <1>2 DEF Following
<1>4. /\ lane'[b].at = at /\ (lane'[b].waits <=> at # "over")
      /\ \A c \in Batch : c # b => lane'[c] = lane[c]
  BY <1>1, <1>2 DEF LaneType
<1>5. CASE at = "over"
  <2>1. UNCHANGED <<batch, task>>
    BY <1>5 DEF LaneGoesOn
  <2> QED
    BY <1>2, <1>3, <1>4, <1>5, <2>1 DEF Tended, Pending, InFlight
<1>6. CASE at # "over"
  <2> DEFINE route == IF at = "last" THEN "requeue" ELSE batch[b].route
  <2>1. Start(b, route) /\ batch[b].st = "pending"
    BY <1>6 DEF LaneGoesOn
  <2>2. route \in {"teardown", "requeue"}
    BY <1>1, <2>1 DEF BatchType, SteerInv, BatchInv
  <2> HIDE DEF route
  <2>3. Started(b, route)
    BY <1>1, <2>1, <2>2, StartFacts
  <2>4. route = IF at = "last" THEN "requeue" ELSE batch[b].route
    BY DEF route
  <2> HIDE DEF at
  <2>5. \A c \in Batch : task[c] # "none" \/ c = b => task'[c] # "none"
    BY <2>2, <2>3 DEF Started
  <2>6. \A c \in Batch : /\ batch'[c].st = batch[c].st
                         /\ batch'[c].route = IF c = b THEN route ELSE batch[c].route
    BY <2>3 DEF Started
  <2> QED
    BY <1>2, <1>3, <1>4, <1>6, <2>4, <2>5, <2>6 DEF Tended, Pending, InFlight
<1> QED
  BY <1>5, <1>6

(* The drain awaits what it has started, or what is in flight.              *)
LEMMA DrainTends ==
  ASSUME SteerInv, Tended, DrainGoesOn
  PROVE  Tended'
<1>1. lane' = lane /\ batch \in BatchType /\ task \in TaskType
  BY Kinds DEF DrainGoesOn, SteerInv
<1>2. ASSUME NEW b \in Batch, NEW route \in {batch[b].route, "requeue"}, NEW pc, NEW todo,
             batch[b].st # "none", DrainBatch(b, route, pc, todo)
      PROVE  Tended'
  <2>1. route \in {"teardown", "requeue"}
    BY <1>1, <1>2 DEF BatchType, SteerInv, BatchInv
  <2>2. Started(b, route) /\ drain'.on = {b}
    BY <1>1, <1>2, <2>1, StartFacts DEF DrainBatch
  <2>3. \A c \in Batch : task[c] # "none" \/ c = b => task'[c] # "none"
    BY <2>1, <2>2 DEF Started
  <2>4. \A c \in Batch : /\ batch'[c].st = batch[c].st
                         /\ batch'[c].route \in {batch[c].route, "requeue"}
    BY <1>2, <2>2 DEF Started
  <2> QED
    BY <1>1, <2>2, <2>3, <2>4 DEF Tended, Pending, InFlight
<1>3. ASSUME drain'.on \in {{}, InFlight}, UNCHANGED <<batch, task>>
      PROVE  Tended'
  BY <1>1, <1>3 DEF Tended, Pending, InFlight
<1>4. ASSUME NEW todo \in Seq(Batch), DrainNext(todo),
             \A c \in Members(todo) : batch[c].st # "none"
      PROVE  Tended'
  <2>1. CASE todo # <<>>
    <3>1. Head(todo) \in Members(todo) /\ Head(todo) \in Batch
      BY <2>1, TodoFacts
    <3> QED
      BY <1>2, <1>4, <2>1, <3>1 DEF DrainNext
  <2>2. CASE todo = <<>>
    <3>1. drain'.on = InFlight /\ UNCHANGED <<batch, task>>
      BY <1>4, <2>2 DEF DrainNext
    <3> QED
      BY <1>3, <3>1
  <2> QED
    BY <2>1, <2>2
<1>5. CASE drain.pc = "flights" /\ \E todo \in DrainOrder : DrainNext(todo)
  <2>1. PICK todo \in DrainOrder : DrainNext(todo)
    BY <1>5
  <2>2. todo \in Seq(Batch) /\ \A c \in Members(todo) : batch[c].st # "none"
    BY DrainOrderType DEF Pending
  <2> QED
    BY <1>4, <2>1, <2>2
<1>6. ASSUME drain.pc \in {"tried", "again"}
      PROVE  /\ Head(drain.todo) \in Batch /\ Head(drain.todo) \in Members(drain.todo)
             /\ Tail(drain.todo) \in Seq(Batch)
             /\ \A c \in Members(drain.todo) : batch[c].st # "none"
             /\ \A c \in Members(Tail(drain.todo)) : batch[c].st # "none"
  <2>1. drain.todo \in Seq(Batch) /\ drain.todo # <<>>
    BY <1>6, Kinds DEF DrainType, SteerInv, BatchInv
  <2> QED
    BY <2>1, TodoFacts DEF SteerInv, BatchInv
<1>7. CASE drain.pc \in {"tried", "again"} /\ DrainNext(Tail(drain.todo))
  BY <1>4, <1>6, <1>7
<1>8. CASE drain.pc = "tried" /\ DrainBatch(Head(drain.todo), "requeue", "again", drain.todo)
  BY <1>2, <1>6, <1>8
<1>9. CASE /\ drain' = [pc |-> "done", todo |-> <<>>, on |-> {}]
           /\ UNCHANGED <<batch, task>>
  BY <1>3, <1>9
<1> QED
  BY <1>5, <1>7, <1>8, <1>9 DEF DrainGoesOn

(* The steps that discard messages.                                         *)
LEMMA DiscardsTend ==
  ASSUME SteerInv, Tended,
         \/ \E cause \in {"user-stop", "abort"} : Abort(cause)
         \/ Seal \/ Shutdown \/ TryClose \/ EndPoll
  PROVE  Tended'
<1>1. "left" \in Batch /\ "held" \in Batch
  BY DEF Batch
<1>2. ASSUME NEW cause, Discard("left", steering, cause), drain'.on \in {drain.on, InFlight}
      PROVE  Tended'
  BY <1>1, <1>2, LeftIsFree, DiscardTends
<1>3. CASE \E cause \in {"user-stop", "abort"} : Abort(cause)
  BY <1>2, <1>3 DEF Abort, AbortEntry
<1>4. CASE Seal
  BY <1>2, <1>4 DEF Seal
<1>5. CASE Shutdown
  <2>1. drain'.on = InFlight
    BY <1>5 DEF Shutdown
  <2>2. CASE UNCHANGED <<batch, task, lane>>
    BY <2>1, <2>2 DEF Tended, Pending, InFlight
  <2> QED
    BY <1>2, <1>5, <2>1, <2>2 DEF Shutdown, AbortEntry
<1>6. CASE TryClose
  <2>1. drain' = drain
    BY <1>6 DEF TryClose
  <2>2. CASE UNCHANGED <<batch, task, lane>>
    BY <2>1, <2>2, QuietTends
  <2>3. CASE Close
    BY <1>2, <2>1, <2>3 DEF Close
  <2> QED
    BY <1>6, <2>2, <2>3 DEF TryClose
<1>7. CASE EndPoll
  <2>1. PICK rest : Restore(rest) /\ rest \subseteq hands /\ drain' = drain
    BY <1>7 DEF EndPoll, Consume, PollThrows
  <2>2. CASE UNCHANGED <<batch, task, lane>>
    BY <2>1, <2>2, QuietTends
  <2>3. CASE Discard("held", rest, phase)
    <3>1. batch["held"].st = "none" \/ rest \cap User = {}
      BY <2>1 DEF SteerInv, PhaseInv
    <3> QED
      BY <1>1, <2>1, <2>3, <3>1, DiscardTends
  <2> QED
    BY <2>1, <2>2, <2>3 DEF Restore
<1> QED
  BY <1>3, <1>4, <1>5, <1>6, <1>7

(* The steps of an attempt.                                                 *)
LEMMA AttemptTends ==
  ASSUME SteerInv, Tended, NEW b \in Batch, Attempt(b)
  PROVE  Tended'
<1>1. batch \in BatchType /\ task \in TaskType
  BY Kinds DEF SteerInv
<1>2. CASE WriteRow(b)
  BY <1>2, QuietTends DEF WriteRow
<1>3. ASSUME NEW S \in SUBSET Batch, EndTeardown(S)
      PROVE  Tended'
  <2>1. EndAttempt(S)
    BY <1>3 DEF EndTeardown
  <2>2. \A c \in Batch : /\ batch'[c].route = batch[c].route
                         /\ batch'[c].st = "pending" => batch[c].st = "pending"
    BY <1>3 DEF EndTeardown
  <2> QED
    BY <2>1, <2>2, EndTends
<1>4. CASE WriteFails(b) \/ CommitDone(b)
  <2>1. Together(b) \in SUBSET Batch
    BY DEF Together
  <2> QED
    BY <1>3, <1>4, <2>1 DEF WriteFails, CommitDone
<1>5. ASSUME NEW ok \in BOOLEAN, EndRequeue(b, ok)
      PROVE  Tended'
  <2>1. EndAttempt({b})
    BY <1>5 DEF EndRequeue
  <2>2. \A c \in Batch : /\ batch'[c].route = batch[c].route
                         /\ batch'[c].st = "pending" => batch[c].st = "pending"
    BY <1>1, <1>5 DEF EndRequeue, BatchType
  <2> QED
    BY <2>1, <2>2, EndTends
<1>6. CASE task' = [task EXCEPT ![b] = "pause"] /\ UNCHANGED <<batch, lane, drain>>
  <2>1. InFlight \subseteq InFlight'
    BY <1>1, <1>6 DEF InFlight, TaskType
  <2> QED
    BY <1>6, <2>1 DEF Tended, Pending
<1>7. CASE Enqueue(b)
  BY <1>5, <1>6, <1>7 DEF Enqueue
<1>8. CASE EnqueueFails(b) \/ Pause(b) \/ PauseFails(b)
  BY <1>5, <1>8 DEF EnqueueFails, Pause, PauseFails
<1> QED
  BY <1>2, <1>4, <1>7, <1>8 DEF Attempt

LEMMA TendStep ==
  ASSUME SteerInv, Tended, [Next]_vars
  PROVE  Tended'
<1>1. CASE \/ (\E m \in Message : Steer(m)) \/ StartHost \/ FailStart
           \/ (\E atExit \in BOOLEAN : Poll(atExit))
           \/ (\E next \in {"work", "ended", "failing"} : AfterClose(next))
           \/ HostFails \/ Release \/ SettlementFails
           \/ (\E b \in Batch : Wake(b) \/ Take(b)) \/ Unpause \/ UNCHANGED vars
  <2>1. UNCHANGED <<batch, task, lane, drain>>
    BY <1>1 DEF Steer, StartHost, FailStart, Poll, AfterClose, HostFails, Release,
       SettlementFails, Wake, Take, Unpause, tracked, vars
  <2> QED
    BY <2>1, QuietTends
<1>2. CASE CommitBeforeRelease
  <2>1. UNCHANGED <<batch, lane, drain>> /\ InFlight \subseteq InFlight'
    BY <1>2 DEF CommitBeforeRelease, InFlight
  <2> QED
    BY <2>1 DEF Tended, Pending
<1>3. CASE \/ \E cause \in {"user-stop", "abort"} : Abort(cause)
           \/ Seal \/ Shutdown \/ TryClose \/ EndPoll
  BY <1>3, DiscardsTend
<1>4. CASE \E b \in Batch : Attempt(b) \/ LaneGoesOn(b)
  BY <1>4, AttemptTends, LaneTends
<1>5. CASE DrainGoesOn
  BY <1>5, DrainTends
<1> QED
  BY <1>1, <1>2, <1>3, <1>4, <1>5 DEF Next

(* No batch is left to nobody (steering-requeue.ts): it is given up only    *)
(* when its lane has come to the requeue, its last way, and whoever awaits  *)
(* an attempt awaits one that is in flight, however attempts are joined,    *)
(* merged and handed over. It is the safety that HandedOver rests on.       *)
THEOREM BatchesHaveATry == Spec => []BatchesAttended
<1>1. Init => Tended
  BY DEF Init, Tended, Pending, NoBatch
<1>2. SteerInv /\ Tended /\ [Next]_vars => Tended'
  BY TendStep
<1>3. Tended => BatchesAttended
  BY DEF Tended, BatchesAttended
<1> QED
  BY <1>1, <1>2, <1>3, Invariant, PTL DEF Spec

(* What the contract of a message allows of the places it is in.            *)
Whereabouts ==
  {{}, {"turn"}, {"read"}, {"turn", "fell"}, {"turn", "maybe"}, {"fell"},
   {"turn", "queue"}, {"queue"}, {"turn", "maybe", "queue"}, {"maybe", "queue"}}

LEMMA PlacesStay ==
  ASSUME NEW m \in User, place[m] \in Whereabouts, [Fate!Next]_(Fate!vars)
  PROVE  place'[m] \in Whereabouts
<1>1. CASE place' = place
  BY <1>1
<1>2. CASE Fate!Admitted(place[m], place'[m]) \/ Fate!Read(place[m], place'[m])
  BY <1>2 DEF Fate!Admitted, Fate!Read, Whereabouts
<1>3. CASE Fate!Falls(place[m], place'[m])
  BY <1>3 DEF Fate!Falls, Whereabouts
<1>4. CASE Fate!Forgotten(place[m], place'[m])
  BY <1>4 DEF Fate!Forgotten, Whereabouts
<1>5. CASE Fate!Returns(place[m], place'[m])
  <2>1. place[m] \in {{"turn"}, {"turn", "maybe"}, {"turn", "queue"},
                      {"turn", "maybe", "queue"}}
    BY <1>5 DEF Fate!Returns, Whereabouts
  <2>2. CASE place[m] \in {{"turn"}, {"turn", "queue"}}
    <3>1. /\ place[m] \cup {"queue"} = {"turn", "queue"}
          /\ (place[m] \ {"turn"}) \cup {"queue"} = {"queue"}
      BY <2>2
    <3> QED
      BY <1>5, <3>1 DEF Fate!Returns, Whereabouts
  <2>3. CASE place[m] \in {{"turn", "maybe"}, {"turn", "maybe", "queue"}}
    <3>1. /\ place[m] \cup {"queue"} = {"turn", "maybe", "queue"}
          /\ (place[m] \ {"turn"}) \cup {"queue"} = {"maybe", "queue"}
      BY <2>3
    <3> QED
      BY <1>5, <3>1 DEF Fate!Returns, Whereabouts
  <2> QED
    BY <2>1, <2>2, <2>3
<1> QED
  BY <1>1, <1>2, <1>3, <1>4, <1>5 DEF Fate!Next, Fate!vars

(* A user's message is never in two of the model's input, the conversation  *)
(* and the queue, and the model has not read what its Turn still holds.     *)
THEOREM MessagesHaveOnePlace == Spec => []Fate!OnePlace
<1> DEFINE Inv == \A m \in User : place[m] \in Whereabouts
<1>1. Fate!Init => Inv
  BY DEF Fate!Init, Whereabouts
<1>2. Inv /\ [Fate!Next]_(Fate!vars) => Inv'
  <2> SUFFICES ASSUME Inv, [Fate!Next]_(Fate!vars), NEW m \in User
               PROVE  place'[m] \in Whereabouts'
    OBVIOUS
  <2> QED
    BY PlacesStay DEF Whereabouts
<1>3. Inv => Fate!OnePlace
  BY DEF Whereabouts, Fate!OnePlace
<1> HIDE DEF Inv
<1>4. Fate!Spec => []Fate!OnePlace
  BY <1>1, <1>2, <1>3, PTL DEF Fate!Spec
<1> QED
  BY <1>4, ImplementsMessageFate, PTL DEF MessageFate

(* Only a Turn that failed before its host ran forgets a message of the     *)
(* user that it had accepted.                                               *)
THEOREM OnlyUnstartedTurnsForget == Spec => Fate!KeptUnlessUnstarted
<1>1. [Fate!Next]_(Fate!vars)
        => [\A m \in User : place[m] # {} /\ place'[m] = {}
                               => early']_(Fate!vars)
  BY DEF Fate!Next, Fate!vars, Fate!Admitted, Fate!Read, Fate!Falls, Fate!Returns,
         Fate!Forgotten
<1>2. Fate!Spec => Fate!KeptUnlessUnstarted
  BY <1>1, PTL DEF Fate!Spec, Fate!KeptUnlessUnstarted
<1> QED
  BY <1>2, ImplementsMessageFate, PTL DEF MessageFate

=============================================================================
