------------------------- MODULE SessionQueueProofs -------------------------
(* Proofs about SessionQueue, for every set of items, claims, turns and    *)
(* inputs. The invariants are proved together: each transaction hands its  *)
(* new rows, order, pause and facts to one lemma (TransactionKeeps), whose *)
(* premises are what the single operations have to establish.              *)
EXTENDS SessionQueue, FiniteSetTheorems, TLAPS

RowsOK(r) == r \in [Item -> Row] /\ \A i \in Item : RowOK(r[i])

AtMostOneClaimed(r) == \A i, j \in Claimed(r) : i = j

RequestsDiffer(r) ==
  \A i, j \in Present(r) : r[i].request = r[j].request /\ r[i].request # None => i = j

Distinct(r, order) == \A i, j \in Present(r) : order[i] = order[j] => i = j

(* What a transaction may commit: its rows, order, pause and facts.        *)
GoodTable(r, order) ==
  /\ RowsOK(r)
  /\ AtMostOneClaimed(r)
  /\ RequestsDiffer(r)
  /\ order \in [Item -> Nat]
  /\ Distinct(r, order)

(* Nothing but withdrawal: every row of r is a row of the table that is    *)
(* still the same request, and no more claimed than it was.                *)
Derived(r) ==
  /\ RowsOK(r)
  /\ Present(r) \subseteq Present(row)
  /\ Claimed(r) \subseteq Claimed(row)
  /\ \A i \in Present(r) : r[i].request = row[i].request

QueueInv == TypeOK /\ OneClaim /\ PauseNeedsWork /\ FactsTellTheQueue /\ RequestUnique

-----------------------------------------------------------------------------
(* The tables *)

(* Row ids are natural numbers below the number of items. *)
LEMMA SizeNat == Size \in Nat
  BY QueueAssumption, FS_CardinalityType DEF Size

(* A rank is a number of rows. *)
LEMMA RankedBound ==
  ASSUME NEW r, NEW order \in [Item -> Nat]
  PROVE  Ranked(r, order) \in [Item -> 0..Size]
<1> DEFINE Upto(i) == {j \in Present(r) : order[j] <= order[i]}
<1>1. ASSUME NEW i \in Item
      PROVE  Cardinality(Upto(i)) \in 0..Size
  <2>1. Upto(i) \in SUBSET Item
    BY DEF Present
  <2>2. IsFiniteSet(Upto(i)) /\ Cardinality(Upto(i)) <= Cardinality(Item)
    BY <2>1, QueueAssumption, FS_Subset
  <2>3. Cardinality(Upto(i)) \in Nat
    BY <2>2, FS_CardinalityType
  <2> QED BY <2>2, <2>3, SizeNat DEF Size
<1>2. \A i \in Item : Ranked(r, order)[i] = IF i \in Present(r) THEN Cardinality(Upto(i)) ELSE 0
  BY DEF Ranked
<1>3. \A i \in Item : Ranked(r, order)[i] \in 0..Size
  <2> HIDE DEF Upto
  <2> QED BY <1>1, <1>2, SizeNat
<1> QED BY <1>3 DEF Ranked

(* Ranking rows keeps their order: a row that is ahead has fewer rows up   *)
(* to it.                                                                  *)
LEMMA RankedOrders ==
  ASSUME NEW r, NEW order \in [Item -> Nat], NEW i \in Present(r), NEW j \in Present(r)
  PROVE  Ranked(r, order)[i] < Ranked(r, order)[j] <=> order[i] < order[j]
<1> DEFINE Upto(k) == {l \in Present(r) : order[l] <= order[k]}
<1>1. \A k \in Present(r) : k \in Item /\ order[k] \in Nat
  BY DEF Present
<1>2. ASSUME NEW k \in Present(r)
      PROVE  /\ IsFiniteSet(Upto(k)) /\ Cardinality(Upto(k)) \in Nat
             /\ Ranked(r, order)[k] = Cardinality(Upto(k))
  <2>1. Upto(k) \in SUBSET Item
    BY DEF Present
  <2> QED BY <1>1, <2>1, QueueAssumption, FS_Subset, FS_CardinalityType DEF Ranked
<1>3. ASSUME NEW k \in Present(r), NEW l \in Present(r), order[k] <= order[l]
      PROVE  Upto(k) \in SUBSET Upto(l) /\ Cardinality(Upto(k)) <= Cardinality(Upto(l))
  <2>1. Upto(k) \in SUBSET Upto(l)
    <3> SUFFICES ASSUME NEW m \in Present(r), order[m] <= order[k]
                 PROVE  order[m] <= order[l]
      OBVIOUS
    <3> QED BY <1>1, <1>3
  <2> QED BY <1>2, <2>1, FS_Subset
<1>4. CASE order[i] < order[j]
  <2>1. j \in Upto(j) /\ j \notin Upto(i) /\ order[i] <= order[j]
    BY <1>1, <1>4
  <2>2. Upto(i) \in SUBSET Upto(j) /\ Cardinality(Upto(i)) <= Cardinality(Upto(j))
    BY <1>3, <2>1
  <2>3. Cardinality(Upto(j)) = Cardinality(Upto(i)) => Upto(j) = Upto(i)
    BY <1>2, <2>2, FS_Subset
  <2>4. Cardinality(Upto(j)) # Cardinality(Upto(i))
    BY <2>1, <2>3
  <2> HIDE DEF Upto
  <2> QED BY <1>2, <1>4, <2>2, <2>4
<1>5. CASE ~(order[i] < order[j])
  <2>1. order[j] <= order[i]
    BY <1>1, <1>5
  <2>2. Cardinality(Upto(j)) <= Cardinality(Upto(i))
    BY <1>3, <2>1
  <2> HIDE DEF Upto
  <2> QED BY <1>2, <1>5, <2>2
<1> QED BY <1>4, <1>5

(* Ranking rows by distinct ids gives distinct ids again, within bounds. *)
LEMMA RankedKeeps ==
  ASSUME NEW r \in [Item -> Row], NEW order \in [Item -> Nat], Distinct(r, order)
  PROVE  Ranked(r, order) \in [Item -> 0..Size] /\ Distinct(r, Ranked(r, order))
<1>1. ASSUME NEW i \in Present(r), NEW j \in Present(r),
             Ranked(r, order)[i] = Ranked(r, order)[j]
      PROVE  i = j
  <2>1. i \in Item /\ j \in Item /\ order[i] \in Nat /\ order[j] \in Nat
    BY DEF Present
  <2>2. Ranked(r, order)[i] \in Nat /\ Ranked(r, order)[j] \in Nat
    BY <2>1, RankedBound, SizeNat
  <2>3. ~(order[i] < order[j]) /\ ~(order[j] < order[i])
    BY <1>1, <2>2, RankedOrders
  <2> QED BY <2>1, <2>3 DEF Distinct
<1> QED BY <1>1, RankedBound DEF Distinct

(* One lemma for every transaction: rows and order that are well formed, a *)
(* pause of the right type, and facts that tell of exactly the rows that   *)
(* came and went and of every change of the pause but its reconciliation.  *)
LEMMA TransactionKeeps ==
  ASSUME QueueInv, NEW r, NEW order, GoodTable(r, order),
         NEW token \in Token \cup {None}, NEW facts,
         facts.added \subseteq Item,
         (view.items \ facts.removed) \cup facts.added = Present(r),
         facts.news \in {"silent", "paused", "resumed"},
         facts.news = "silent" => token = pause,
         facts.news = "paused" => token # None /\ Present(r) # {},
         facts.news = "resumed" => token = None,
         Transaction(r, order, token, facts),
         usedClaims' \in SUBSET Claim, receipt' \in [Claim -> Turn \cup {None}]
  PROVE  QueueInv'
<1> USE DEF QueueInv, GoodTable
<1>1. row' = r /\ place' = Ranked(r, order)
  BY DEF Transaction
<1>2. place' \in [Item -> 0..Size] /\ Distinct(r, place')
  BY <1>1, RankedKeeps DEF RowsOK
<1>3. pause' \in Token \cup {None} /\ (pause' # None => Present(r) # {})
  BY DEF Transaction, Reconciled
<1>4. view'.items = Present(r) /\ view'.paused \in BOOLEAN
      /\ view' \in [items : SUBSET Item, paused : BOOLEAN]
  <2>1. Present(r) \subseteq Item
    BY DEF Present
  <2>2. view.paused \in BOOLEAN
    BY DEF TypeOK
  <2> QED BY <2>1, <2>2 DEF Transaction
<1>5. view'.paused = (pause' # None)
  BY DEF Transaction, Reconciled, FactsTellTheQueue
<1>6. TypeOK'
  BY <1>1, <1>2, <1>3, <1>4 DEF TypeOK, RowsOK, Distinct, Present
<1>7. OneClaim' /\ RequestUnique'
  BY <1>1 DEF OneClaim, RequestUnique, AtMostOneClaimed, RequestsDiffer, Claimed, Present
<1>8. PauseNeedsWork' /\ FactsTellTheQueue'
  BY <1>1, <1>3, <1>4, <1>5 DEF PauseNeedsWork, FactsTellTheQueue, Present
<1> QED BY <1>6, <1>7, <1>8

-----------------------------------------------------------------------------
(* The single operations *)

(* Withdrawing rows, or releasing them, spoils nothing. *)
LEMMA DerivedGood ==
  ASSUME QueueInv, NEW r, Derived(r)
  PROVE  GoodTable(r, place)
<1>1. RowsOK(r) /\ AtMostOneClaimed(r)
  BY DEF Derived, AtMostOneClaimed, QueueInv, OneClaim
<1>2. RequestsDiffer(r)
  BY DEF Derived, RequestsDiffer, QueueInv, RequestUnique
<1>3. place \in [Item -> Nat] /\ Distinct(r, place)
  BY SizeNat DEF Derived, QueueInv, TypeOK, Distinct
<1> QED BY <1>1, <1>2, <1>3 DEF GoodTable

(* Every operation starts from the unexpired rows. *)
LEMMA WithoutDerived ==
  ASSUME QueueInv, NEW gone \in SUBSET Item
  PROVE  /\ Derived(Without(row, gone))
         /\ Present(Without(row, gone)) = Present(row) \ gone
         /\ Queued(Without(row, gone)) = Queued(row) \ gone
         /\ Claimed(Without(row, gone)) = Claimed(row) \ gone
<1>1. NoRow \in Row /\ RowOK(NoRow)
  BY QueueAssumption DEF NoRow, Row, RowOK, NoAttempt, Attempt, Expiry
<1>2. \A i \in Item : Without(row, gone)[i] = IF i \in gone THEN NoRow ELSE row[i]
  BY DEF Without
<1>3. RowsOK(Without(row, gone))
  BY <1>1, <1>2 DEF RowsOK, QueueInv, TypeOK, Without
<1>4. /\ Present(Without(row, gone)) = Present(row) \ gone
      /\ Queued(Without(row, gone)) = Queued(row) \ gone
      /\ Claimed(Without(row, gone)) = Claimed(row) \ gone
  BY <1>2 DEF Present, Queued, Claimed, NoRow
<1>5. \A i \in Present(Without(row, gone)) : Without(row, gone)[i].request = row[i].request
  BY <1>2, <1>4 DEF Present
<1> QED BY <1>3, <1>4, <1>5 DEF Derived

\* The rows an enqueue keeps, those not expired, are a derived queue: nothing
\* new, nothing reordered.
LEMMA LiveDerived ==
  ASSUME QueueInv
  PROVE  /\ Derived(Live)
         /\ Present(Live) = Present(row) \ Expired(row)
         /\ Queued(Live) = Queued(row) \ Expired(row)
         /\ Claimed(Live) = Claimed(row)
         /\ \A i \in Present(Live) : Live[i] = row[i]
<1>1. Expired(row) \in SUBSET Item /\ Expired(row) \cap Claimed(row) = {}
  BY DEF Expired, Queued, Claimed
<1>2. \A i \in Present(Live) : Live[i] = row[i]
  BY DEF Live, Without, Present, NoRow
<1> QED BY <1>1, <1>2, WithoutDerived DEF Live

(* The rows an operation removes are told, and so are the expired ones. *)
LEMMA ToldRemoval ==
  ASSUME QueueInv, NEW r, NEW removed, NEW added, NEW news,
         Present(r) = (Present(row) \ (Expired(row) \cup removed)) \cup added
  PROVE  LET facts == Tell(removed, added, news)
         IN /\ (view.items \ facts.removed) \cup facts.added = Present(r)
            /\ facts.added = added
            /\ facts.news = news
  BY DEF Tell, QueueInv, FactsTellTheQueue

(* An operation that withdraws or releases rows and tells of it. *)
LEMMA RewriteKeeps ==
  ASSUME QueueInv, NEW r, Derived(r), NEW removed, NEW added \in SUBSET Item,
         Present(r) = (Present(row) \ (Expired(row) \cup removed)) \cup added,
         Rewrite(r, removed, added),
         receipt' \in [Claim -> Turn \cup {None}]
  PROVE  QueueInv'
<1> DEFINE facts == Tell(removed, added, "silent")
<1>1. GoodTable(r, place)
  BY DerivedGood
<1>2. /\ (view.items \ facts.removed) \cup facts.added = Present(r)
      /\ facts.added = added
      /\ facts.news = "silent"
  BY ToldRemoval
<1>3. Transaction(r, place, pause, facts) /\ usedClaims' = usedClaims
  BY DEF Rewrite
<1>4. usedClaims \in SUBSET Claim /\ pause \in Token \cup {None}
  BY DEF QueueInv, TypeOK
<1> HIDE DEF facts
<1> QED BY <1>1, <1>2, <1>3, <1>4, TransactionKeeps

(* An operation that changes order or pause, and keeps the unexpired rows. *)
LEMMA ReplaceKeeps ==
  ASSUME QueueInv, NEW order \in [Item -> Nat], Distinct(Live, order),
         NEW token \in Token \cup {None}, NEW news \in {"silent", "paused", "resumed"},
         news = "silent" => token = pause,
         news = "paused" => token # None /\ Present(Live) # {},
         news = "resumed" => token = None,
         Transaction(Live, order, token, Tell({}, {}, news)),
         UNCHANGED <<usedClaims, receipt>>
  PROVE  QueueInv'
<1> DEFINE facts == Tell({}, {}, news)
<1>1. GoodTable(Live, order)
  BY LiveDerived, DerivedGood DEF GoodTable
<1>2. /\ (view.items \ facts.removed) \cup facts.added = Present(Live)
      /\ facts.added = {}
      /\ facts.news = news
  BY LiveDerived, ToldRemoval
<1>3. usedClaims' \in SUBSET Claim /\ receipt' \in [Claim -> Turn \cup {None}]
  BY DEF QueueInv, TypeOK
<1> HIDE DEF facts
<1> QED BY <1>1, <1>2, <1>3, TransactionKeeps DEF facts

(* Moving one queued row to the front keeps the ids distinct: claimed rows *)
(* stay below Size, the row itself gets the next id, the others follow.    *)
LEMMA FrontDistinct ==
  ASSUME NEW r, NEW order, NEW i \in Item,
         order \in [Item -> Nat],
         \A j \in Item \ {i} : order[j] <= Size,
         \A j, k \in Present(r) \ {i} : order[j] = order[k] => j = k
  PROVE  Front(r, order, i) \in [Item -> Nat] /\ Distinct(r, Front(r, order, i))
<1> DEFINE F == Front(r, order, i)
<1>1. \A j \in Item : F[j] = IF j = i THEN Size + 1
                             ELSE IF j \in Queued(r) THEN order[j] + Size + 2
                             ELSE order[j]
  BY DEF Front
<1>2. F \in [Item -> Nat]
  BY SizeNat DEF Front
<1> HIDE DEF F
<1>3. ASSUME NEW j \in Present(r), NEW k \in Present(r), F[j] = F[k]
      PROVE  j = k
  <2>1. j \in Item /\ k \in Item
    BY DEF Present
  <2>2. order[j] \in Nat /\ order[k] \in Nat
    BY <2>1
  <2>3. (j # i => order[j] <= Size) /\ (k # i => order[k] <= Size)
    BY <2>1
  <2>4. F[j] = F[k] /\ j # i /\ k # i => order[j] = order[k]
    BY <1>1, <2>1, <2>2, <2>3, SizeNat
  <2>5. j = i <=> k = i
    BY <1>1, <1>3, <2>1, <2>2, <2>3, SizeNat
  <2> QED BY <1>3, <2>4, <2>5
<1> QED BY <1>2, <1>3 DEF Distinct, F

(* A claimed row is a queued row with a claim; one claim at most remains   *)
(* one, because nothing was claimed.                                       *)
LEMMA ClaimNextKeeps ==
  ASSUME QueueInv, NEW selection, NEW exclude, NEW i \in Item, NEW c \in Claim,
         ClaimNext(selection, exclude, i, c)
  PROVE  QueueInv'
<1> DEFINE r == [Live EXCEPT ![i].status = "claimed", ![i].claim = c]
           facts == Tell({}, {}, "silent")
<1>1. i \in Queued(Live) /\ Claimed(Live) = {}
  BY DEF ClaimNext, Claimable, Head
<1>2. Derived(Live) /\ GoodTable(Live, place)
  BY LiveDerived, DerivedGood
<1>3. Live \in [Item -> Row] /\ RowOK(Live[i])
  BY <1>2 DEF Derived, RowsOK
<1>4. c # None
  BY QueueAssumption
<1>5. r[i] = [Live[i] EXCEPT !.status = "claimed", !.claim = c]
      /\ \A j \in Item \ {i} : r[j] = Live[j]
  BY <1>3 DEF Row
<1> HIDE DEF r
<1>6. /\ r[i] \in Row /\ RowOK(r[i])
      /\ r[i].status = "claimed" /\ r[i].request = Live[i].request
  <2>1. Live[i] \in Row
    BY <1>3
  <2>2. r[i] \in Row /\ r[i].status = "claimed" /\ r[i].claim = c
        /\ r[i].request = Live[i].request
    BY <1>5, <2>1 DEF Row
  <2> QED BY <1>4, <2>2 DEF RowOK
<1>7. RowsOK(r)
  <2>1. r \in [Item -> Row]
    BY <1>3, <1>4, <1>5, <1>6 DEF r
  <2> QED BY <1>2, <1>5, <1>6, <2>1 DEF Derived, RowsOK
<1>8. Claimed(r) = {i} /\ Present(r) = Present(Live)
  <2>1. Live[i].status = "queued" /\ \A j \in Item : Live[j].status # "claimed"
    BY <1>1 DEF Claimed, Queued
  <2>2. \A j \in Item : r[j].status = IF j = i THEN "claimed" ELSE Live[j].status
    BY <1>5, <1>6
  <2> QED BY <2>1, <2>2 DEF Claimed, Present
<1>9. GoodTable(r, place)
  <2>1. AtMostOneClaimed(r)
    BY <1>8 DEF AtMostOneClaimed
  <2>2. RequestsDiffer(r)
    <3>1. \A j \in Item : r[j].request = Live[j].request
      BY <1>5, <1>6
    <3> QED BY <1>2, <1>8, <3>1 DEF RequestsDiffer, GoodTable, Present
  <2> QED BY <1>2, <1>7, <1>8, <2>1, <2>2 DEF GoodTable, Distinct
<1>10. /\ (view.items \ facts.removed) \cup facts.added = Present(r)
       /\ facts.added = {}
       /\ facts.news = "silent"
  BY <1>8, LiveDerived, ToldRemoval
<1>11. /\ Transaction(r, place, pause, facts)
       /\ usedClaims' = usedClaims \cup {c}
       /\ receipt' = receipt
  BY DEF ClaimNext, r
<1>12. usedClaims \in SUBSET Claim /\ pause \in Token \cup {None}
       /\ receipt \in [Claim -> Turn \cup {None}]
  BY DEF QueueInv, TypeOK
<1> HIDE DEF facts, r
<1> QED BY <1>9, <1>10, <1>11, <1>12, TransactionKeeps

(* Replaying an enqueue writes no row; to the front it moves a queued one. *)
LEMMA EnqueueReplayKeeps ==
  ASSUME QueueInv, NEW in \in Input, EnqueueReplay(in)
  PROVE  QueueInv'
<1>1. PICK i \in FoundByRequest(Live, in.request) :
        Transaction(Live, IF in.front THEN Front(Live, place, i) ELSE place,
                    pause, Tell({}, {}, "silent"))
  BY DEF EnqueueReplay
<1>2. place \in [Item -> Nat] /\ Distinct(Live, place)
  BY LiveDerived, DerivedGood DEF GoodTable
<1>3. Front(Live, place, i) \in [Item -> Nat] /\ Distinct(Live, Front(Live, place, i))
  <2>1. i \in Item
    BY DEF FoundByRequest, Present
  <2>2. \A j \in Item \ {i} : place[j] <= Size
    BY SizeNat DEF QueueInv, TypeOK
  <2> QED BY <1>2, <2>1, <2>2, FrontDistinct DEF Distinct
<1>4. pause \in Token \cup {None} /\ UNCHANGED <<usedClaims, receipt>>
  BY DEF EnqueueReplay, QueueInv, TypeOK
<1> QED BY <1>1, <1>2, <1>3, <1>4, ReplaceKeeps

(* A new row takes the place and the identity that enqueueing gives it;    *)
(* its request is in no other row, or the enqueue would be a replay.       *)
LEMMA EnqueueInsertKeeps ==
  ASSUME QueueInv, NEW in \in Input, EnqueueInsert(in)
  PROVE  QueueInv'
<1> DEFINE settled   == SettledMembers(in)
           displaced == Displaced(Without(Live, settled), in)
           kept      == Without(Live, settled \cup displaced)
           replaced  == FoundByKey(kept, in.key)
           removed   == settled \cup displaced \cup replaced
           rest      == Without(kept, replaced)
<1>1. PICK i \in Identities(kept, in) :
        LET r == [rest EXCEPT ![i] = MakeQueued(in)]
            order == [place EXCEPT ![i] = IF replaced = {} THEN Size + 1
                                          ELSE place[CHOOSE j \in replaced : TRUE]]
        IN Transaction(r, IF in.front THEN Front(r, order, i) ELSE order,
                       pause, Tell(removed, {i}, "silent"))
  BY DEF EnqueueInsert
<1> DEFINE r == [rest EXCEPT ![i] = MakeQueued(in)]
           order == [place EXCEPT ![i] = IF replaced = {} THEN Size + 1
                                         ELSE place[CHOOSE j \in replaced : TRUE]]
           final == IF in.front THEN Front(r, order, i) ELSE order
           facts == Tell(removed, {i}, "silent")
<1>2. in \in InputType
  BY QueueAssumption
<1>3. /\ settled \subseteq Item /\ displaced \subseteq Item /\ replaced \subseteq Item
      /\ Expired(row) \subseteq Item
  BY DEF SettledMembers, Displaced, Claimed, FoundByKey, Head, Queued, Expired
<1>4. /\ kept = Without(row, Expired(row) \cup settled \cup displaced)
      /\ rest = Without(row, Expired(row) \cup removed)
  BY <1>3 DEF Live, Without
<1>5. /\ Present(kept) = Present(row) \ (Expired(row) \cup settled \cup displaced)
      /\ Queued(kept) = Queued(row) \ (Expired(row) \cup settled \cup displaced)
      /\ Claimed(kept) = Claimed(row) \ (Expired(row) \cup settled \cup displaced)
  BY <1>3, <1>4, WithoutDerived
<1>6. Derived(rest) /\ Present(rest) = Present(row) \ (Expired(row) \cup removed)
  BY <1>3, <1>4, WithoutDerived
<1>7. i \in Item /\ i \notin Present(kept)
  <2>1. CASE in.item # None /\ in.item \notin Queued(kept)
    <3>1. i = in.item /\ i \in Item
      BY <1>2, <2>1 DEF Identities, InputType
    <3>2. i \notin Claimed(kept)
      <4>1. Claimed(Without(Live, settled)) = Claimed(row) \ (Expired(row) \cup settled)
        <5>1. Without(Live, settled) = Without(row, Expired(row) \cup settled)
          BY <1>3 DEF Live, Without
        <5> QED BY <1>3, <5>1, WithoutDerived
      <4>2. i \in Claimed(row) \ (Expired(row) \cup settled) => i \in displaced
        BY <3>1, <4>1 DEF Displaced
      <4> QED BY <1>5, <4>2
    <3>3. kept \in [Item -> Row]
      BY <1>3, <1>4, WithoutDerived DEF Derived, RowsOK
    <3> QED BY <2>1, <3>1, <3>2, <3>3 DEF Present, Queued, Claimed, Row
  <2>2. CASE ~(in.item # None /\ in.item \notin Queued(kept))
    BY <1>5, <2>2 DEF Identities
  <2> QED BY <2>1, <2>2
<1>8. Present(rest) = Present(kept) \ replaced /\ i \notin Present(rest)
  BY <1>5, <1>6, <1>7
<1>9. rest \in [Item -> Row] /\ \A j \in Item : RowOK(rest[j])
  BY <1>6 DEF Derived, RowsOK
<1>10. /\ MakeQueued(in) \in Row /\ RowOK(MakeQueued(in))
       /\ MakeQueued(in).status = "queued" /\ MakeQueued(in).request = in.request
  BY <1>2 DEF MakeQueued, InputType, Row, RowOK, NoAttempt, Attempt
<1>11. r[i] = MakeQueued(in) /\ \A j \in Item \ {i} : r[j] = rest[j]
  BY <1>7, <1>9
<1>12. RowsOK(r)
  BY <1>7, <1>9, <1>10, <1>11 DEF RowsOK
<1>13. Present(r) = Present(rest) \cup {i} /\ Claimed(r) \subseteq Claimed(rest)
  BY <1>7, <1>10, <1>11 DEF Present, Claimed
<1>14. AtMostOneClaimed(r)
  BY <1>6, <1>13, DerivedGood DEF GoodTable, AtMostOneClaimed
<1>15. RequestsDiffer(r)
  <2>1. ASSUME NEW j \in Present(rest), in.request # None
        PROVE  rest[j].request # in.request
    <3>1. EnqueueAnswer(in) = "inserted"
      BY DEF EnqueueInsert
    <3>2. FoundByRequest(Live, in.request) = {}
      BY <3>1 DEF EnqueueAnswer
    <3>3. j \in Present(Live) /\ Live[j] = row[j]
      BY <1>6, LiveDerived
    <3>4. rest[j].request = row[j].request
      BY <1>6 DEF Derived
    <3> QED BY <2>1, <3>2, <3>3, <3>4 DEF FoundByRequest
  <2>2. RequestsDiffer(rest)
    BY <1>6, DerivedGood DEF GoodTable
  <2>3. \A j \in Present(rest) : r[j] = rest[j]
    BY <1>8, <1>11 DEF Present
  <2> QED BY <1>10, <1>11, <1>13, <2>1, <2>2, <2>3 DEF RequestsDiffer
<1>16. /\ order \in [Item -> Nat]
       /\ \A j \in Item \ {i} : order[j] = place[j] /\ order[j] <= Size
       /\ Distinct(r, order)
  <2>1. place \in [Item -> 0..Size] /\ Distinct(row, place)
    BY DEF QueueInv, TypeOK, Distinct
  <2> DEFINE old == CHOOSE j \in replaced : TRUE
  <2>2. replaced # {} => old \in replaced
    OBVIOUS
  <2>3. replaced \subseteq Present(row)
    BY <1>5 DEF FoundByKey, Head, Queued, Present
  <2>4. order[i] = (IF replaced = {} THEN Size + 1 ELSE place[old])
        /\ \A j \in Item \ {i} : order[j] = place[j]
    BY <1>7, <2>1
  <2>5. order \in [Item -> Nat]
    BY <1>3, <1>7, <2>1, <2>2, SizeNat
  <2>6. \A j \in Item \ {i} : order[j] <= Size
    BY <2>1, <2>4, SizeNat
  <2> HIDE DEF old, order
  <2>7. ASSUME NEW j \in Present(rest) PROVE order[j] # order[i]
    <3>1. j \in Item \ {i} /\ j \in Present(row) /\ j \notin replaced
      BY <1>6, <1>8 DEF Present
    <3>2. order[j] = place[j] /\ place[j] \in 0..Size
      BY <2>1, <2>4, <3>1
    <3>3. CASE replaced = {}
      BY <2>4, <3>2, <3>3, SizeNat
    <3>4. CASE replaced # {}
      BY <2>1, <2>2, <2>3, <2>4, <3>1, <3>2, <3>4 DEF Distinct
    <3> QED BY <3>3, <3>4
  <2>8. \A j, k \in Present(rest) : order[j] = order[k] => j = k
    BY <1>6, <1>8, <2>1, <2>4 DEF Distinct, Present
  <2> QED BY <1>13, <2>4, <2>5, <2>6, <2>7, <2>8 DEF Distinct
<1>17. GoodTable(r, final)
  <2>1. Front(r, order, i) \in [Item -> Nat] /\ Distinct(r, Front(r, order, i))
    <3> HIDE DEF r, order
    <3> QED BY <1>7, <1>16, FrontDistinct DEF Distinct
  <2> QED BY <1>12, <1>14, <1>15, <1>16, <2>1 DEF GoodTable
<1>18. /\ (view.items \ facts.removed) \cup facts.added = Present(r)
       /\ facts.added = {i}
       /\ facts.news = "silent"
  <2>1. Present(r) = (Present(row) \ (Expired(row) \cup removed)) \cup {i}
    BY <1>6, <1>13
  <2> HIDE DEF r, removed
  <2> QED BY <2>1, ToldRemoval
<1>19. Transaction(r, final, pause, facts)
  BY <1>1
<1>20. UNCHANGED <<usedClaims, receipt>> /\ usedClaims \in SUBSET Claim
       /\ pause \in Token \cup {None} /\ receipt \in [Claim -> Turn \cup {None}]
  BY DEF EnqueueInsert, QueueInv, TypeOK
<1> HIDE DEF r, final, facts
<1> QED BY <1>7, <1>17, <1>18, <1>19, <1>20, TransactionKeeps


(* Withdrawing the rows of a set that are not expired. *)
LEMMA WithdrawKeeps ==
  ASSUME QueueInv, NEW gone \in SUBSET Item,
         Rewrite(Without(Live, gone), gone, {}),
         receipt' \in [Claim -> Turn \cup {None}]
  PROVE  QueueInv'
<1>1. Expired(row) \cup gone \in SUBSET Item
  BY DEF Expired, Queued
<1>2. Without(Live, gone) = Without(row, Expired(row) \cup gone)
  BY DEF Live, Without
<1>3. Derived(Without(Live, gone))
      /\ Present(Without(Live, gone)) = Present(row) \ (Expired(row) \cup gone)
  BY <1>1, <1>2, WithoutDerived
<1> QED BY <1>3, RewriteKeeps

(* Editing an unexpired row in a field no invariant speaks of. *)
LEMMA EditKeeps ==
  ASSUME QueueInv, NEW i \in Queued(Live), NEW w \in Row,
         w.status = "queued", w.claim = None, w.request = Live[i].request,
         Rewrite([Live EXCEPT ![i] = w], {}, {}), receipt' = receipt
  PROVE  QueueInv'
<1> DEFINE r == [Live EXCEPT ![i] = w]
<1>1. Derived(Live) /\ Live \in [Item -> Row] /\ i \in Item
  BY LiveDerived DEF Derived, RowsOK, Queued
<1>2. r[i] = w /\ (\A j \in Item \ {i} : r[j] = Live[j]) /\ r \in [Item -> Row]
  BY <1>1
<1>3. RowOK(w)
  BY DEF RowOK
<1> HIDE DEF r
<1>4. \A j \in Item : r[j].status = Live[j].status /\ r[j].request = Live[j].request
  BY <1>2 DEF Queued
<1>5. Present(r) = Present(Live) /\ Claimed(r) = Claimed(Live)
  BY <1>4 DEF Present, Claimed
<1>6. Derived(r)
  BY <1>1, <1>2, <1>3, <1>4, <1>5 DEF Derived, RowsOK, Present
<1>7. Present(r) = (Present(row) \ (Expired(row) \cup {})) \cup {}
  BY <1>5, LiveDerived
<1>8. Rewrite(r, {}, {})
  BY DEF r
<1>9. receipt' \in [Claim -> Turn \cup {None}]
  BY DEF QueueInv, TypeOK
<1> QED BY <1>6, <1>7, <1>8, <1>9, RewriteKeeps

(* Settling a claim withdraws its rows. *)
LEMMA RemoveClaimedKeeps ==
  ASSUME QueueInv, NEW c, RemoveClaimed(c), receipt' = receipt
  PROVE  QueueInv'
<1>1. ClaimRows(Live, c) \in SUBSET Item
  BY DEF ClaimRows, Claimed
<1>2. receipt' \in [Claim -> Turn \cup {None}]
  BY DEF QueueInv, TypeOK
<1> QED BY <1>1, <1>2, WithdrawKeeps DEF RemoveClaimed

(* Releasing a claim withdraws its rows that expired under it and returns  *)
(* the others to queued; a subscriber hears of both.                       *)
LEMMA ReleaseKeeps ==
  ASSUME QueueInv, NEW c, Release(c), receipt' = receipt
  PROVE  QueueInv'
<1> DEFINE mine == ClaimRows(Live, c)
           late == {i \in mine : row[i].expiry = "past"}
           r == [i \in Item |-> IF i \in late THEN NoRow
                                ELSE IF i \in mine THEN ReleasedRow(row[i])
                                ELSE Live[i]]
<1>1. Rewrite(r, late, mine \ late)
  BY DEF Release
<1>2. mine \subseteq Claimed(row) /\ late \subseteq mine /\ mine \subseteq Item
  BY LiveDerived DEF ClaimRows, Claimed
<1>3. row \in [Item -> Row] /\ Derived(Live) /\ Live \in [Item -> Row]
      /\ \A i \in Item : RowOK(Live[i])
  BY LiveDerived DEF QueueInv, TypeOK, Derived, RowsOK
<1>4. NoRow \in Row /\ RowOK(NoRow)
  BY QueueAssumption DEF NoRow, Row, RowOK, NoAttempt, Attempt, Expiry
<1>5. ASSUME NEW i \in mine
      PROVE  /\ ReleasedRow(row[i]) \in Row /\ RowOK(ReleasedRow(row[i]))
             /\ ReleasedRow(row[i]).status = "queued"
             /\ ReleasedRow(row[i]).request = row[i].request
  <2>1. row[i] \in Row
    BY <1>2, <1>3
  <2>2. /\ ReleasedRow(row[i]) \in Row
        /\ ReleasedRow(row[i]).status = "queued" /\ ReleasedRow(row[i]).claim = None
        /\ ReleasedRow(row[i]).request = row[i].request
    BY <2>1 DEF ReleasedRow, Row
  <2> QED BY <2>2 DEF RowOK
<1> HIDE DEF mine, late
<1>6. \A i \in Item : r[i] = IF i \in late THEN NoRow
                             ELSE IF i \in mine THEN ReleasedRow(row[i]) ELSE Live[i]
  OBVIOUS
<1>7. RowsOK(r)
  <2>1. \A i \in Item : (IF i \in late THEN NoRow ELSE IF i \in mine THEN ReleasedRow(row[i])
                         ELSE Live[i]) \in Row
    BY <1>3, <1>4, <1>5
  <2>2. r \in [Item -> Row]
    BY <2>1
  <2> HIDE DEF r
  <2> QED BY <1>3, <1>4, <1>5, <1>6, <2>2 DEF RowsOK
<1> HIDE DEF r
<1>8. late \subseteq Claimed(row) /\ mine \cap Expired(row) = {}
  BY <1>2 DEF Expired, Queued, Claimed
<1>9. Present(r) = (Present(row) \ (Expired(row) \cup late)) \cup (mine \ late)
  <2>1. \A i \in Item : (r[i].status = "absent") =
                          (i \in late \/ (i \notin mine /\ Live[i].status = "absent"))
    BY <1>2, <1>5, <1>6 DEF NoRow
  <2>2. Present(r) = {i \in Item : i \notin late /\ (i \in mine \/ i \in Present(Live))}
    BY <2>1 DEF Present
  <2>3. mine \subseteq Present(row)
    BY <1>2 DEF Claimed, Present
  <2> QED BY <1>2, <1>8, <2>2, <2>3, LiveDerived DEF Present
<1>10. Claimed(r) \subseteq Claimed(row)
  <2>1. \A i \in Item : r[i].status = "claimed" => Live[i].status = "claimed"
    BY <1>5, <1>6 DEF NoRow
  <2> QED BY <2>1, LiveDerived DEF Claimed
<1>11. \A i \in Present(r) : r[i].request = row[i].request
  <2>1. \A i \in Present(Live) : Live[i] = row[i]
    BY LiveDerived
  <2> QED BY <1>5, <1>6, <2>1 DEF Present, NoRow
<1>12. Derived(r)
  <2>1. Present(r) \subseteq Present(row)
    BY <1>2, <1>9 DEF Claimed, Present
  <2> QED BY <1>7, <1>10, <1>11, <2>1 DEF Derived
<1>13. mine \ late \in SUBSET Item
  BY <1>2
<1> QED BY <1>1, <1>9, <1>12, <1>13, RewriteKeeps DEF QueueInv, TypeOK

-----------------------------------------------------------------------------
(* The steps *)

\* The empty queue satisfies the invariant.
LEMMA InitInv == Init => QueueInv
<1> SUFFICES ASSUME Init PROVE QueueInv
  OBVIOUS
<1>1. NoRow \in Row /\ RowOK(NoRow) /\ NoRow.status = "absent"
  BY QueueAssumption DEF NoRow, Row, RowOK, NoAttempt, Attempt, Expiry
<1>2. \A i \in Item : row[i] = NoRow
  BY DEF Init
<1>3. Present(row) = {} /\ Claimed(row) = {}
  BY <1>1, <1>2 DEF Present, Claimed
<1>4. TypeOK
  BY <1>1, <1>2, <1>3, SizeNat DEF TypeOK, Init
<1> QED BY <1>3, <1>4 DEF QueueInv, Init, OneClaim, PauseNeedsWork, FactsTellTheQueue,
                          RequestUnique

(* A step that touches no row. *)
LEMMA PauseStepKeeps ==
  ASSUME QueueInv, UNCHANGED <<row, place, usedClaims>>,
         receipt' \in [Claim -> Turn \cup {None}],
         pause' \in Token \cup {None},
         pause' # None => Present(row) # {},
         view' \in [items : SUBSET Item, paused : BOOLEAN],
         view'.items = view.items, view'.paused = (pause' # None)
  PROVE  QueueInv'
<1>1. Present(row)' = Present(row) /\ Claimed(row)' = Claimed(row)
  BY DEF Present, Claimed
<1>2. TypeOK'
  BY <1>1 DEF QueueInv, TypeOK, RowOK
<1>3. OneClaim' /\ RequestUnique'
  BY <1>1 DEF QueueInv, OneClaim, RequestUnique
<1>4. PauseNeedsWork' /\ FactsTellTheQueue'
  BY <1>1 DEF QueueInv, PauseNeedsWork, FactsTellTheQueue
<1> QED BY <1>2, <1>3, <1>4 DEF QueueInv

(* A step that edits rows in place and nothing else. *)
LEMMA RowStepKeeps ==
  ASSUME QueueInv, UNCHANGED <<place, pause, usedClaims, receipt, view>>,
         row' \in [Item -> Row],
         \A i \in Item : /\ row'[i].status = row[i].status
                         /\ row'[i].request = row[i].request
                         /\ RowOK(row'[i])
  PROVE  QueueInv'
<1>1. Present(row)' = Present(row) /\ Claimed(row)' = Claimed(row)
  BY DEF Present, Claimed
<1>2. TypeOK'
  BY <1>1 DEF QueueInv, TypeOK, RowOK
<1>3. OneClaim' /\ RequestUnique'
  BY <1>1 DEF QueueInv, OneClaim, RequestUnique, Present
<1>4. PauseNeedsWork' /\ FactsTellTheQueue'
  BY <1>1 DEF QueueInv, PauseNeedsWork, FactsTellTheQueue
<1> QED BY <1>2, <1>3, <1>4 DEF QueueInv

\* Requests that add, edit, move or withdraw rows keep the invariant.
LEMMA MutateKeeps ==
  ASSUME QueueInv, Mutate
  PROVE  QueueInv'
<1>0. /\ Live \in [Item -> Row] /\ Queued(Live) \subseteq Item
      /\ receipt \in [Claim -> Turn \cup {None}] /\ pause \in Token \cup {None}
  BY LiveDerived DEF Derived, RowsOK, Queued, QueueInv, TypeOK
<1>1. ASSUME NEW i \in Item, UpdateQueued(i) PROVE QueueInv'
  <2> DEFINE w == [Live[i] EXCEPT !.expiry = "later"]
  <2>1. i \in Queued(Live) /\ Rewrite([Live EXCEPT ![i] = w], {}, {}) /\ receipt' = receipt
    BY <1>0, <1>1 DEF UpdateQueued
  <2>2. Live[i] \in Row /\ RowOK(Live[i]) /\ Live[i].status = "queued"
    BY <1>0, <2>1, LiveDerived DEF Queued, Derived, RowsOK
  <2>3. w \in Row /\ w.status = "queued" /\ w.claim = None /\ w.request = Live[i].request
    BY <2>2 DEF Row, RowOK, Expiry
  <2> HIDE DEF w
  <2> QED BY <2>1, <2>3, EditKeeps
<1>2. ASSUME NEW i \in Item, NEW s \in Source, PromoteQueuedSource(i, s) PROVE QueueInv'
  <2> DEFINE w == [Live[i] EXCEPT !.source = s]
  <2>1. i \in Queued(Live) /\ Rewrite([Live EXCEPT ![i] = w], {}, {}) /\ receipt' = receipt
    BY <1>0, <1>2 DEF PromoteQueuedSource
  <2>2. Live[i] \in Row /\ RowOK(Live[i]) /\ Live[i].status = "queued"
    BY <1>0, <2>1, LiveDerived DEF Queued, Derived, RowsOK
  <2>3. w \in Row /\ w.status = "queued" /\ w.claim = None /\ w.request = Live[i].request
    BY <2>2 DEF Row, RowOK
  <2> HIDE DEF w
  <2> QED BY <2>1, <2>3, EditKeeps
<1>3. ASSUME NEW i \in Item, Cancel(i) PROVE QueueInv'
  BY <1>0, <1>3, WithdrawKeeps DEF Cancel
<1>4. ASSUME ClearUserManageable PROVE QueueInv'
  <2>1. QueuedApi(Live) \in SUBSET Item
    BY <1>0 DEF QueuedApi
  <2> QED BY <1>0, <1>4, <2>1, WithdrawKeeps DEF ClearUserManageable
<1>5. ASSUME DrainComposerInjectable PROVE QueueInv'
  <2>1. PICK text \in SUBSET QueuedApi(Live) : Rewrite(Without(Live, text), text, {})
    BY <1>5 DEF DrainComposerInjectable
  <2>2. text \in SUBSET Item /\ receipt' = receipt
    BY <1>0, <1>5 DEF QueuedApi, DrainComposerInjectable
  <2> QED BY <1>0, <2>1, <2>2, WithdrawKeeps
<1>6. ASSUME NEW order \in [Item -> 1..Size], Reorder(order) PROVE QueueInv'
  <2>1. order \in [Item -> Nat]
    BY SizeNat
  <2>2. Present(Live) = Queued(Live)
    BY <1>0, <1>6 DEF Reorder, Present, Queued, Claimed, Row
  <2>3. Distinct(Live, order)
    BY <1>6, <2>2 DEF Reorder, Distinct
  <2>4. Transaction(Live, order, pause, Tell({}, {}, "silent")) /\ UNCHANGED <<usedClaims, receipt>>
    BY <1>6 DEF Reorder
  <2> QED BY <1>0, <2>1, <2>3, <2>4, ReplaceKeeps
<1> QED BY <1>1, <1>2, <1>3, <1>4, <1>5, <1>6 DEF Mutate

\* A dispatcher's claim, acknowledgement, release and recovery keep it.
LEMMA ClaimStepKeeps ==
  ASSUME QueueInv, ClaimStep
  PROVE  QueueInv'
<1>1. ASSUME NEW c \in Claim, NEW t \in Turn, PrepareDelivery(c, t) PROVE QueueInv'
  <2>1. row \in [Item -> Row] /\ \A i \in Item : RowOK(row[i])
    BY DEF QueueInv, TypeOK
  <2> DEFINE w(i) == [row[i] EXCEPT !.attempt = [claim |-> c, turn |-> t]]
  <2>2. ASSUME NEW i \in Item
        PROVE  /\ w(i) \in Row /\ w(i).status = row[i].status
               /\ w(i).request = row[i].request /\ w(i).claim = row[i].claim
    <3>1. row[i] \in Row
      BY <2>1
    <3> QED BY <3>1 DEF Row, Attempt
  <2> HIDE DEF w
  <2>3. row' = [i \in Item |-> IF i \in ClaimRows(row, c) THEN w(i) ELSE row[i]]
    BY <1>1 DEF PrepareDelivery, w
  <2>4. row' \in [Item -> Row]
    BY <2>1, <2>2, <2>3
  <2>5. ASSUME NEW i \in Item
        PROVE  /\ row'[i].status = row[i].status /\ row'[i].request = row[i].request
               /\ RowOK(row'[i])
    <3>1. CASE i \in ClaimRows(row, c)
      <4>1. row'[i] = w(i)
        BY <2>3, <3>1
      <4>2. row[i].status = "claimed"
        BY <3>1 DEF ClaimRows, Claimed
      <4> QED BY <2>1, <2>2, <4>1, <4>2 DEF RowOK
    <3>2. CASE i \notin ClaimRows(row, c)
      BY <2>1, <2>3, <3>2
    <3> QED BY <3>1, <3>2
  <2>6. UNCHANGED <<place, pause, usedClaims, receipt, view>>
    BY <1>1 DEF PrepareDelivery
  <2> QED BY <2>4, <2>5, <2>6, RowStepKeeps
<1>2. ASSUME NEW c \in Claim, NEW t \in Turn \cup {None}, AcknowledgeClaim(c, t)
      PROVE  QueueInv'
  BY <1>2, RemoveClaimedKeeps DEF AcknowledgeClaim
<1>3. ASSUME NEW c \in Claim, SettleClaim(c) \/ RecoverAcknowledges(c) PROVE QueueInv'
  BY <1>3, RemoveClaimedKeeps DEF SettleClaim, RecoverAcknowledges
<1>4. ASSUME NEW c \in Claim, ReleaseClaim(c) \/ RecoverReleases(c) PROVE QueueInv'
  BY <1>4, ReleaseKeeps DEF ReleaseClaim, RecoverReleases
<1> QED BY <1>1, <1>2, <1>3, <1>4, ClaimNextKeeps DEF ClaimStep

\* What Turn transactions do to the pause keeps it.
LEMMA TurnStepKeeps ==
  ASSUME QueueInv, TurnStep
  PROVE  QueueInv'
<1>0. /\ view \in [items : SUBSET Item, paused : BOOLEAN]
      /\ view.paused = (pause # None)
      /\ pause \in Token \cup {None} /\ receipt \in [Claim -> Turn \cup {None}]
      /\ pause # None => Present(row) # {}
      /\ Present(Live) \subseteq Present(row)
  BY LiveDerived DEF QueueInv, TypeOK, FactsTellTheQueue, PauseNeedsWork
<1>1. ASSUME NEW c \in Claim, NEW t \in Turn, NEW consumes \in BOOLEAN,
             TurnAccepted(c, t, consumes)
      PROVE  QueueInv'
  BY <1>0, <1>1, PauseStepKeeps DEF TurnAccepted
<1>2. ASSUME DirectTurnAccepted PROVE QueueInv'
  BY <1>0, <1>2, PauseStepKeeps DEF DirectTurnAccepted
<1>3. ASSUME NEW token \in Token, TurnSettled(token) PROVE QueueInv'
  BY <1>0, <1>3, QueueAssumption, PauseStepKeeps DEF TurnSettled
<1>4. ASSUME NEW c \in Claim, NEW token \in Token \cup {None}, TurnRevoked(c, token)
      PROVE  QueueInv'
  BY <1>0, <1>4, PauseStepKeeps DEF TurnRevoked
<1> QED BY <1>1, <1>2, <1>3, <1>4 DEF TurnStep

(* Every step of the queue keeps the invariant. *)
LEMMA NextKeeps == QueueInv /\ [Next]_vars => QueueInv'
<1> SUFFICES ASSUME QueueInv, [Next]_vars PROVE QueueInv'
  OBVIOUS
<1>0. /\ Derived(Live) /\ place \in [Item -> Nat] /\ Distinct(Live, place)
      /\ pause \in Token \cup {None} /\ receipt \in [Claim -> Turn \cup {None}]
  BY LiveDerived, DerivedGood DEF GoodTable, QueueInv, TypeOK
<1>1. CASE Sweep
  <2>1. Present(Live) = (Present(row) \ (Expired(row) \cup {})) \cup {}
    BY LiveDerived
  <2> QED BY <1>0, <1>1, <2>1, RewriteKeeps DEF Sweep
<1>2. CASE Enqueue
  BY <1>2, EnqueueReplayKeeps, EnqueueInsertKeeps DEF Enqueue
<1>3. CASE DeleteSession
  <2>1. Derived(Without(row, Item)) /\ Present(Without(row, Item)) = Present(row) \ Item
    BY WithoutDerived
  <2>2. Present(row) \ Item = {} /\ Present(Live) = Present(row) \ Expired(row)
    BY LiveDerived DEF Present
  <2>3. Present(Without(row, Item)) = (Present(row) \ (Expired(row) \cup Present(Live))) \cup {}
    BY <2>1, <2>2
  <2> QED BY <1>0, <1>3, <2>1, <2>3, RewriteKeeps DEF DeleteSession
<1>4. ASSUME NEW token \in Token, PauseIfPending(token) PROVE QueueInv'
  <2> DEFINE inserted == pause = None /\ Present(Live) # {}
             next == IF inserted THEN token ELSE pause
             news == IF inserted THEN "paused" ELSE "silent"
  <2>1. Transaction(Live, place, next, Tell({}, {}, news)) /\ UNCHANGED <<usedClaims, receipt>>
    BY <1>4 DEF PauseIfPending
  <2>2. /\ next \in Token \cup {None} /\ news \in {"silent", "paused", "resumed"}
        /\ news = "silent" => next = pause
        /\ news = "paused" => next # None /\ Present(Live) # {}
        /\ news # "resumed"
    BY <1>0, QueueAssumption
  <2> HIDE DEF next, news
  <2> QED BY <1>0, <2>1, <2>2, ReplaceKeeps
<1>5. ASSUME NEW expected \in Token \cup {None}, ContinueQueue(expected) PROVE QueueInv'
  <2> DEFINE deleted == pause # None /\ expected \in {None, pause}
             next == IF deleted THEN None ELSE pause
             news == IF deleted THEN "resumed" ELSE "silent"
  <2>1. Transaction(Live, place, next, Tell({}, {}, news)) /\ UNCHANGED <<usedClaims, receipt>>
    BY <1>5 DEF ContinueQueue
  <2>2. /\ next \in Token \cup {None} /\ news \in {"silent", "paused", "resumed"}
        /\ news = "silent" => next = pause
        /\ news = "resumed" => next = None
        /\ news # "paused"
    BY <1>0
  <2> HIDE DEF next, news
  <2> QED BY <1>0, <2>1, <2>2, ReplaceKeeps
<1>6. ASSUME NEW i \in Item, Passes(i) PROVE QueueInv'
  <2>1. row[i] \in Row /\ row \in [Item -> Row] /\ \A j \in Item : RowOK(row[j])
    BY DEF QueueInv, TypeOK
  <2> DEFINE w == [row[i] EXCEPT !.expiry = "past"]
  <2>2. /\ w \in Row /\ w.status = row[i].status /\ w.request = row[i].request
        /\ w.claim = row[i].claim
    BY <2>1 DEF Row, Expiry
  <2>3. row[i].status # "absent"
    BY <1>6, <2>1 DEF Passes, RowOK, NoRow
  <2>4. RowOK(w)
    BY <2>1, <2>2, <2>3 DEF RowOK
  <2>5. row' = [row EXCEPT ![i] = w] /\ UNCHANGED <<place, pause, usedClaims, receipt, view>>
    BY <1>6, <2>1 DEF Passes
  <2> HIDE DEF w
  <2> QED BY <2>1, <2>2, <2>4, <2>5, RowStepKeeps
<1>7. CASE UNCHANGED vars
  BY <1>7, RowStepKeeps DEF vars, QueueInv, TypeOK
<1> QED BY <1>1, <1>2, <1>3, <1>4, <1>5, <1>6, <1>7, MutateKeeps, ClaimStepKeeps,
           TurnStepKeeps DEF Next

-----------------------------------------------------------------------------
(* Theorems *)

(* The queue's invariants hold together, for any number of items, claims   *)
(* and turns and whatever inputs the callers submit.                       *)
THEOREM QueueInvariant == Spec => []QueueInv
  BY InitInv, NextKeeps, PTL DEF Spec

(* Whatever happens, the table is well formed. *)
THEOREM QueueTyped == Spec => []TypeOK
<1>1. QueueInv => TypeOK
  BY DEF QueueInv
<1> QED BY <1>1, QueueInvariant, PTL

(* At most one row of a session is ever claimed. *)
THEOREM QueueOneClaim == Spec => []OneClaim
<1>1. QueueInv => OneClaim
  BY DEF QueueInv
<1> QED BY <1>1, QueueInvariant, PTL

(* No pause outlives the last row. *)
THEOREM QueuePauseNeedsWork == Spec => []PauseNeedsWork
<1>1. QueueInv => PauseNeedsWork
  BY DEF QueueInv
<1> QED BY <1>1, QueueInvariant, PTL

(* The committed facts alone tell what is queued and whether it is paused. *)
THEOREM QueueFactsTell == Spec => []FactsTellTheQueue
<1>1. QueueInv => FactsTellTheQueue
  BY DEF QueueInv
<1> QED BY <1>1, QueueInvariant, PTL

(* No client request is in the queue twice. *)
THEOREM QueueRequestUnique == Spec => []RequestUnique
<1>1. QueueInv => RequestUnique
  BY DEF QueueInv
<1> QED BY <1>1, QueueInvariant, PTL

-----------------------------------------------------------------------------
(* The order of the queue *)

\* A step that ranks the rows it leaves by the order they had.
OrderKept == place' = place \/ place' = Ranked(row', place)

\* The requeue of a steering batch is the only input that restores an
\* identity, and it goes to the front (toRequeueInput).
RestoredToFront == \A in \in Input : in.item # None => in.front

(* The order after a step is the order it ranked the rows by.              *)
LEMMA OrderTold ==
  ASSUME NEW order \in [Item -> Nat], place' = Ranked(row', order),
         NEW i \in Survivors, NEW j \in Survivors
  PROVE  Ahead(place', i, j) <=> Ahead(order, i, j)
<1>1. i \in Present(row') /\ j \in Present(row')
  BY DEF Survivors, Present
<1>2. Ranked(row', order)[i] < Ranked(row', order)[j] <=> order[i] < order[j]
  BY <1>1, RankedOrders
<1> QED BY <1>2 DEF Ahead

(* So nobody changes places in a step that keeps the order.                *)
LEMMA KeptOrder ==
  ASSUME QueueInv, OrderKept, NEW i \in Survivors, NEW j \in Survivors
  PROVE  Ahead(place', i, j) <=> Ahead(place, i, j)
<1>1. place \in [Item -> Nat]
  BY SizeNat DEF QueueInv, TypeOK
<1> QED BY <1>1, OrderTold DEF OrderKept, Ahead

(* An operation that rewrites the table in its order keeps the order.      *)
LEMMA RewritesInOrder ==
  /\ Sweep \/ DeleteSession => OrderKept
  /\ \A token \in Token : PauseIfPending(token) => OrderKept
  /\ \A expected \in Token \cup {None} : ContinueQueue(expected) => OrderKept
  /\ ClaimStep => OrderKept
<1>1. \A c : RemoveClaimed(c) \/ Release(c) => OrderKept
  BY DEF RemoveClaimed, Release, Rewrite, Transaction, OrderKept
<1>2. \A selection, exclude, i, c : ClaimNext(selection, exclude, i, c) => OrderKept
  BY DEF ClaimNext, Transaction, OrderKept
<1>3. \A c, t : PrepareDelivery(c, t) => OrderKept
  BY DEF PrepareDelivery, OrderKept
<1>4. Sweep \/ DeleteSession => OrderKept
  BY DEF Sweep, DeleteSession, Rewrite, Transaction, OrderKept
<1>5. \A token : PauseIfPending(token) \/ ContinueQueue(token) => OrderKept
  BY DEF PauseIfPending, ContinueQueue, Transaction, OrderKept
<1>6. ClaimStep => OrderKept
  BY <1>1, <1>2, <1>3 DEF ClaimStep, AcknowledgeClaim, SettleClaim, ReleaseClaim,
     RecoverAcknowledges, RecoverReleases
<1> QED BY <1>4, <1>5, <1>6

(* Every step but a reorder and an enqueue keeps the order.                *)
LEMMA MostKeepOrder ==
  ASSUME [Next]_vars
  PROVE  \/ OrderKept
         \/ \E order \in [Item -> 1..Size] : Reorder(order)
         \/ Enqueue
<1>1. Mutate => OrderKept \/ \E order \in [Item -> 1..Size] : Reorder(order)
  BY DEF Mutate, UpdateQueued, PromoteQueuedSource, Cancel, ClearUserManageable,
     DrainComposerInjectable, Rewrite, Transaction, OrderKept
<1>2. TurnStep => OrderKept
  BY DEF TurnStep, TurnAccepted, DirectTurnAccepted, TurnSettled, TurnRevoked, OrderKept
<1>3. \A i \in Item : Passes(i) => OrderKept
  BY DEF Passes, OrderKept
<1>4. UNCHANGED vars => OrderKept
  BY DEF vars, OrderKept
<1> QED BY <1>1, <1>2, <1>3, <1>4, RewritesInOrder DEF Next

(* What an insertion ranks by: all rows but the new one are what and where *)
(* they were, and without an identity to restore the new one is new.       *)
LEMMA InsertedOrder ==
  ASSUME QueueInv, NEW in \in Input, EnqueueInsert(in)
  PROVE  \E i \in Item, order \in [Item -> Nat] :
           /\ \A j \in Item \ {i} : order[j] = place[j]
           /\ \A j \in Present(row') \ {i} : row'[j] = row[j]
           /\ in.item = None => i \notin Survivors
           /\ place' = Ranked(row', IF in.front THEN Front(row', order, i) ELSE order)
<1> DEFINE settled   == SettledMembers(in)
           displaced == Displaced(Without(Live, settled), in)
           kept      == Without(Live, settled \cup displaced)
           replaced  == FoundByKey(kept, in.key)
           rest      == Without(kept, replaced)
           order(i)  == [place EXCEPT ![i] = IF replaced = {} THEN Size + 1
                                             ELSE place[CHOOSE j \in replaced : TRUE]]
<1>1. PICK i \in Identities(kept, in) :
        /\ row' = [rest EXCEPT ![i] = MakeQueued(in)]
        /\ place' = Ranked(row', IF in.front THEN Front(row', order(i), i) ELSE order(i))
  BY DEF EnqueueInsert, Transaction
<1>2. in \in InputType /\ place \in [Item -> Nat]
  BY QueueAssumption, SizeNat DEF QueueInv, TypeOK
<1>3. replaced \subseteq Item
  BY DEF FoundByKey, Head, Queued
<1>4. i \in Item /\ (in.item = None => i \notin Survivors)
  BY <1>2 DEF Identities, InputType, Survivors
<1>5. order(i) \in [Item -> Nat] /\ \A j \in Item \ {i} : order(i)[j] = place[j]
  <2>1. (CHOOSE j \in replaced : TRUE) \in Item \/ replaced = {}
    BY <1>3
  <2> HIDE DEF replaced
  <2> QED BY <1>2, <1>4, <2>1, SizeNat
<1>6. \A j \in Present(row') \ {i} : row'[j] = row[j]
  <2>1. \A j \in Item : rest[j] \in {NoRow, row[j]}
    BY DEF Without, Live
  <2>2. rest \in [Item -> {rest[j] : j \in Item}]
    BY DEF Without
  <2> HIDE DEF rest
  <2>3. \A j \in Item \ {i} : row'[j] \in {NoRow, row[j]}
    BY <1>1, <2>1, <2>2
  <2> QED BY <2>3 DEF Present, NoRow
<1> HIDE DEF order
<1> QED BY <1>1, <1>4, <1>5, <1>6

(* An enqueue to the back leaves the order of the others alone.            *)
LEMMA BackKeepsOrder ==
  ASSUME QueueInv, NEW in \in Input, EnqueueReplay(in) \/ EnqueueInsert(in),
         ~in.front, in.item = None,
         NEW i \in Survivors, NEW j \in Survivors
  PROVE  Ahead(place', i, j) <=> Ahead(place, i, j)
<1>1. CASE EnqueueReplay(in)
  <2>1. OrderKept
    BY <1>1 DEF EnqueueReplay, Transaction, OrderKept
  <2> QED BY <2>1, KeptOrder
<1>2. CASE EnqueueInsert(in)
  <2>1. PICK k \in Item, order \in [Item -> Nat] :
           /\ \A l \in Item \ {k} : order[l] = place[l]
           /\ k \notin Survivors
           /\ place' = Ranked(row', order)
    BY <1>2, InsertedOrder
  <2>2. order[i] = place[i] /\ order[j] = place[j]
    BY <2>1 DEF Survivors, Present
  <2> QED BY <2>1, <2>2, OrderTold DEF Ahead
<1> QED BY <1>1, <1>2

(* Two places are never each ahead of the other.                           *)
LEMMA AheadAsymmetric ==
  ASSUME QueueInv, NEW i \in Survivors, NEW j \in Survivors, Ahead(place, i, j)
  PROVE  ~Ahead(place, j, i) /\ i # j
<1>1. place[i] \in Nat /\ place[j] \in Nat
  BY SizeNat DEF QueueInv, TypeOK, Survivors, Present
<1> QED BY <1>1 DEF Ahead

(* Only a reorder, a front placement or a restored identity changes the    *)
(* order of two items that stay, for any number of items.                  *)
THEOREM QueueOrderRequested == Spec => OrderOnlyOnRequest
<1>1. ASSUME QueueInv, [Next]_vars, NEW i \in Survivors, NEW j \in Survivors,
             Ahead(place, i, j), Ahead(place', j, i)
      PROVE  \/ \E order \in [Item -> 1..Size] : Reorder(order)
             \/ \E in \in Input : /\ in.front \/ in.item # None
                                  /\ EnqueueReplay(in) \/ EnqueueInsert(in)
  <2>1. ~Ahead(place, j, i)
    BY <1>1, AheadAsymmetric
  <2>2. CASE OrderKept
    BY <1>1, <2>1, <2>2, KeptOrder
  <2>3. CASE Enqueue
    <3>1. PICK in \in Input : EnqueueReplay(in) \/ EnqueueInsert(in)
      BY <2>3 DEF Enqueue
    <3>2. in.front \/ in.item # None
      BY <1>1, <2>1, <3>1, BackKeepsOrder
    <3> QED BY <3>1, <3>2
  <2> QED BY <1>1, <2>2, <2>3, MostKeepOrder
<1>2. QueueInv /\ [Next]_vars =>
        [(\E i, j \in Survivors : Ahead(place, i, j) /\ Ahead(place', j, i)) =>
           \/ \E order \in [Item -> 1..Size] : Reorder(order)
           \/ \E in \in Input : /\ in.front \/ in.item # None
                                /\ EnqueueReplay(in) \/ EnqueueInsert(in)]_vars
  BY <1>1
<1> QED BY <1>2, QueueInvariant, PTL DEF Spec, OrderOnlyOnRequest

(* What a front placement ranks first is still behind a claimed row.       *)
LEMMA FrontBehindClaim ==
  ASSUME QueueInv, NEW order \in [Item -> Nat], NEW k \in Item,
         \A l \in Item \ {k} : order[l] = place[l],
         \A l \in Present(row') \ {k} : row'[l] = row[l],
         place' = Ranked(row', Front(row', order, k)),
         NEW i \in Claimed(row), i \in Survivors, NEW j \in Survivors, Ahead(place, i, j)
  PROVE  Ahead(place', i, j)
<1> DEFINE F == Front(row', order, k)
<1>1. /\ i \in Item /\ j \in Item
      /\ i \in Present(row) /\ j \in Present(row)
      /\ i \in Present(row') /\ j \in Present(row')
  BY DEF Survivors, Present
<1>2. i # j
  BY AheadAsymmetric
<1>3. place[i] \in 0..Size /\ place[j] \in 0..Size /\ order \in [Item -> Nat] /\ Size \in Nat
  BY <1>1, SizeNat DEF QueueInv, TypeOK
<1>4. \A l \in Item : F[l] = IF l = k THEN Size + 1
                             ELSE IF l \in Queued(row') THEN order[l] + Size + 2
                             ELSE order[l]
  BY DEF Front
<1>5. F \in [Item -> Nat]
  BY SizeNat DEF Front
<1> HIDE DEF F
<1>6. F[i] < F[j]
  <2>1. CASE i = k
    <3>1. j \in Queued(row')
      <4>1. row'[j] = row[j] /\ row[j] \in Row
        BY <1>1, <1>2, <2>1 DEF QueueInv, TypeOK
      <4>2. j \notin Claimed(row)
        BY <1>2 DEF QueueInv, OneClaim
      <4> QED BY <1>1, <4>1, <4>2 DEF Present, Queued, Claimed, Row
    <3>2. F[i] = Size + 1 /\ F[j] = order[j] + Size + 2 /\ order[j] \in Nat
      BY <1>1, <1>2, <1>3, <1>4, <2>1, <3>1
    <3> QED BY <1>3, <3>2
  <2>2. CASE i # k
    <3>1. i \notin Queued(row')
      BY <1>1, <2>2 DEF Queued, Claimed
    <3>2. F[i] = place[i]
      BY <1>1, <1>4, <2>2, <3>1
    <3>3. j # k => order[j] = place[j]
      BY <1>1
    <3>4. F[j] \in {Size + 1, place[j] + Size + 2, place[j]}
      BY <1>1, <1>4, <3>3
    <3>5. place[i] < place[j]
      BY DEF Ahead
    <3> QED BY <1>3, <3>2, <3>4, <3>5
  <2> QED BY <2>1, <2>2
<1> QED BY <1>5, <1>6, OrderTold DEF Ahead, F

(* Nothing overtakes a claimed row, if restored identities go to the front *)
(* as steering-requeue.ts sends them: what was behind the claim stays      *)
(* behind it while the claim lasts and when it is released.                *)
THEOREM QueueClaimLeads == ASSUME RestoredToFront PROVE Spec => ClaimedNotOvertaken
<1>1. ASSUME QueueInv, [Next]_vars, NEW i \in Claimed(row) \cap Survivors,
             NEW j \in Survivors, Ahead(place, i, j)
      PROVE  Ahead(place', i, j)
  <2>1. place \in [Item -> Nat] /\ i \in Claimed(Live)
    BY <1>1, LiveDerived, SizeNat DEF QueueInv, TypeOK
  <2>2. CASE OrderKept
    BY <1>1, <2>2, KeptOrder
  <2>3. ASSUME NEW in \in Input, EnqueueReplay(in), in.front PROVE Ahead(place', i, j)
    <3>1. PICK k \in FoundByRequest(Live, in.request) :
            row' = Live /\ place' = Ranked(row', Front(row', place, k))
      BY <2>3 DEF EnqueueReplay, Transaction
    <3>2. k \in Item
      BY DEF FoundByRequest, Present
    <3>3. \A l \in Present(row') : row'[l] = row[l]
      BY <1>1, <3>1, LiveDerived
    <3> QED BY <1>1, <2>1, <3>1, <3>2, <3>3, FrontBehindClaim
  <2>4. ASSUME NEW in \in Input, EnqueueInsert(in), in.front PROVE Ahead(place', i, j)
    <3>1. PICK k \in Item, order \in [Item -> Nat] :
            /\ \A l \in Item \ {k} : order[l] = place[l]
            /\ \A l \in Present(row') \ {k} : row'[l] = row[l]
            /\ place' = Ranked(row', Front(row', order, k))
      BY <1>1, <2>4, InsertedOrder
    <3> QED BY <1>1, <3>1, FrontBehindClaim
  <2>5. CASE Enqueue
    <3>1. PICK in \in Input : EnqueueReplay(in) \/ EnqueueInsert(in)
      BY <2>5 DEF Enqueue
    <3>2. ~in.front => in.item = None
      BY DEF RestoredToFront
    <3> QED BY <1>1, <2>3, <2>4, <3>1, <3>2, BackKeepsOrder
  <2>6. ASSUME NEW order \in [Item -> 1..Size], Reorder(order) PROVE FALSE
    BY <2>1, <2>6 DEF Reorder
  <2> QED BY <1>1, <2>2, <2>5, <2>6, MostKeepOrder
<1>2. QueueInv /\ [Next]_vars =>
        [\A i \in Claimed(row) \cap Survivors, j \in Survivors :
           Ahead(place, i, j) => Ahead(place', i, j)]_vars
  BY <1>1
<1> QED BY <1>2, QueueInvariant, PTL DEF Spec, ClaimedNotOvertaken

-----------------------------------------------------------------------------
(* The table is a line of prompts *)

\* Deleted rows are gone, and the others are what they were.
LEMMA RowsWithout ==
  ASSUME NEW r, NEW gone
  PROVE  /\ Present(Without(r, gone)) = Present(r) \ gone
         /\ Claimed(Without(r, gone)) = Claimed(r) \ gone
<1>1. \A i \in Item : Without(r, gone)[i] = IF i \in gone THEN NoRow ELSE r[i]
  BY DEF Without
<1> QED BY <1>1 DEF Present, Claimed, NoRow

\* Who is in the line: the rows that have not expired, the claimed one with
\* them.
LEMMA LineRows ==
  ASSUME NEW r
  PROVE  /\ Present(Without(r, Expired(r))) = Present(r) \ Expired(r)
         /\ Claimed(r) \subseteq Present(r) \ Expired(r)
         /\ Present(r) \subseteq Item
         /\ Expired(r) \subseteq Queued(r)
<1>1. Claimed(r) \subseteq Present(r) \ Expired(r)
  BY DEF Claimed, Present, Expired, Queued
<1>2. Present(r) \subseteq Item /\ Expired(r) \subseteq Queued(r)
  BY DEF Present, Expired
<1> QED BY <1>1, <1>2, RowsWithout

\* The same of the line now and after a step.
LEMMA LineNow ==
  /\ here = Present(row) \ Expired(row) /\ held \subseteq here /\ here \subseteq Item
  /\ here' = Present(row') \ Expired(row') /\ held' = Claimed(row')
  /\ held' \subseteq here' /\ here' \subseteq Present(row') /\ here' \subseteq Item
<1>1. here = Present(Without(row, Expired(row))) /\ held = Claimed(row)
  BY DEF here, held, Live
<1>2. here' = Present(Without(row', Expired(row'))) /\ held' = Claimed(row')
  BY DEF here, held, Live, Expired, Queued, Claimed, Present, Without
<1> QED BY <1>1, <1>2, LineRows

\* The line after a transaction is the order the transaction ranked by.
LEMMA LineRanked ==
  ASSUME NEW order \in [Item -> Nat], place' = Ranked(row', order)
  PROVE  ahead' = {p \in here' \X here' : order[p[1]] < order[p[2]]}
<1>1. ahead' = {p \in here' \X here' : place'[p[1]] < place'[p[2]]}
  BY DEF ahead, Ahead
<1>2. ASSUME NEW p \in here' \X here'
      PROVE  place'[p[1]] < place'[p[2]] <=> order[p[1]] < order[p[2]]
  <2>1. p[1] \in Present(row') /\ p[2] \in Present(row')
    BY LineNow
  <2> QED BY <2>1, RankedOrders
<1> QED BY <1>1, <1>2

\* In a step that keeps the order and lets nobody in, those who stay keep
\* their order.
LEMMA LineKept ==
  ASSUME QueueInv, OrderKept, here' \subseteq here
  PROVE  ahead' = Line!Among(here')
<1>1. place \in [Item -> Nat]
  BY SizeNat DEF QueueInv, TypeOK
<1>2. ahead' = {p \in here' \X here' : place[p[1]] < place[p[2]]}
  <2>1. CASE place' = place
    BY <2>1 DEF ahead, Ahead
  <2>2. CASE place' = Ranked(row', place)
    BY <1>1, <2>2, LineRanked
  <2> QED BY <2>1, <2>2 DEF OrderKept
<1>3. {p \in here' \X here' : place[p[1]] < place[p[2]]}
        = {p \in here \X here : place[p[1]] < place[p[2]]} \cap (here' \X here')
  OBVIOUS
<1> QED BY <1>2, <1>3 DEF Line!Among, ahead, Ahead

\* A table with no row but unexpired ones of before, and no other claimed.
LEMMA TableLeaves ==
  ASSUME QueueInv, OrderKept, Present(row') \subseteq Present(row) \ Expired(row),
         Claimed(row') \subseteq Claimed(row)
  PROVE  Line!Leave
<1>1. here' \subseteq here /\ held' \subseteq held \cap here'
  BY LineNow DEF held
<1>2. ahead' = Line!Among(here')
  BY <1>1, LineKept
<1> QED BY <1>1, <1>2 DEF Line!Leave

\* A step that edits rows in place: at most, some expire.
LEMMA EditLeaves ==
  ASSUME QueueInv, place' = place,
         \A i \in Item : /\ row'[i].status = row[i].status
                         /\ row[i].expiry = "past" => row'[i].expiry = "past"
  PROVE  Line!Leave
<1>1. Present(row') = Present(row) /\ Claimed(row') = Claimed(row)
      /\ Expired(row) \subseteq Expired(row')
  BY DEF Present, Claimed, Expired, Queued
<1>2. here' \subseteq here /\ held' \subseteq held \cap here'
  BY <1>1, LineNow DEF held
<1>3. ahead' = Line!Among(here')
  BY <1>2, LineKept DEF OrderKept
<1> QED BY <1>2, <1>3 DEF Line!Leave

\* Withdrawing rows, and editing an unexpired queued one.
LEMMA WithdrawLeaves ==
  ASSUME QueueInv, NEW gone, row' = Without(Live, gone), OrderKept
  PROVE  Line!Leave
<1>1. Present(row') = Present(Live) \ gone /\ Claimed(row') = Claimed(Live) \ gone
  BY RowsWithout
<1> QED BY <1>1, LiveDerived, TableLeaves

LEMMA RewrittenLeaves ==
  ASSUME QueueInv, NEW i \in Queued(Live), NEW w, w.status = "queued",
         row' = [Live EXCEPT ![i] = w], OrderKept
  PROVE  Line!Leave
<1>1. Live \in [Item -> Row]
  BY LiveDerived DEF Derived, RowsOK
<1>2. \A j \in Item : row'[j].status = Live[j].status
  BY <1>1 DEF Queued
<1>3. Present(row') = Present(Live) /\ Claimed(row') = Claimed(Live)
  BY <1>2 DEF Present, Claimed
<1> QED BY <1>3, LiveDerived, TableLeaves

\* A released row is back in its place, or has left; a settled one has left.
LEMMA ReleaseLeaves ==
  ASSUME QueueInv, NEW c, Release(c) \/ RemoveClaimed(c)
  PROVE  Line!Leave
<1>1. OrderKept
  BY DEF RemoveClaimed, Release, Rewrite, Transaction, OrderKept
<1>2. CASE RemoveClaimed(c)
  <2>1. row' = Without(Live, ClaimRows(Live, c))
    BY <1>2 DEF RemoveClaimed, Rewrite, Transaction
  <2> QED BY <1>1, <2>1, WithdrawLeaves
<1>3. CASE Release(c)
  <2> DEFINE mine == ClaimRows(Live, c)
             late == {i \in mine : row[i].expiry = "past"}
  <2>1. row' = [i \in Item |-> IF i \in late THEN NoRow
                               ELSE IF i \in mine THEN ReleasedRow(row[i])
                               ELSE Live[i]]
    BY <1>3 DEF Release, Rewrite, Transaction
  <2>2. mine \subseteq Claimed(row) /\ mine \subseteq Present(Live)
        /\ row \in [Item -> Row] /\ Claimed(row) \subseteq Item
    BY LiveDerived DEF ClaimRows, Claimed, Present, QueueInv, TypeOK
  <2>3. \A i \in mine : ReleasedRow(row[i]).status = "queued"
    <3>1. \A i \in mine : row[i] \in Row
      BY <2>2
    <3> QED BY <3>1 DEF ReleasedRow, Row
  <2> HIDE DEF mine, late
  <2>4. \A i \in Item : \/ row'[i].status \in {"absent", "queued"} /\ i \in mine
                        \/ row'[i].status = "absent"
                        \/ row'[i] = Live[i]
    BY <2>1, <2>3 DEF NoRow
  <2>5. Present(row') \subseteq Present(Live) /\ Claimed(row') \subseteq Claimed(Live)
    BY <2>2, <2>4 DEF Present, Claimed
  <2> QED BY <1>1, <2>5, LiveDerived, TableLeaves
<1> QED BY <1>2, <1>3

\* A claim holds the prompt that was claimed, where it stood.
LEMMA ClaimHolds ==
  ASSUME QueueInv, NEW selection, NEW exclude, NEW i \in Item, NEW c \in Claim,
         ClaimNext(selection, exclude, i, c)
  PROVE  Line!Hold(i)
<1> DEFINE r == [Live EXCEPT ![i].status = "claimed", ![i].claim = c]
<1>1. i \in Queued(Live) /\ Claimed(Live) = {} /\ row' = r
  BY DEF ClaimNext, Claimable, Head, Transaction
<1>2. OrderKept
  BY DEF ClaimNext, Transaction, OrderKept
<1>3. Live \in [Item -> Row]
  BY LiveDerived DEF Derived, RowsOK
<1>4. /\ r[i] = [Live[i] EXCEPT !.status = "claimed", !.claim = c]
      /\ \A j \in Item \ {i} : r[j] = Live[j]
      /\ Live[i] \in Row
  <2> DEFINE marked == [Live EXCEPT ![i].status = "claimed"]
  <2>1. r = [marked EXCEPT ![i].claim = c]
    OBVIOUS
  <2>2. /\ marked[i] = [Live[i] EXCEPT !.status = "claimed"]
        /\ \A j \in Item \ {i} : marked[j] = Live[j]
        /\ DOMAIN marked = Item
    BY <1>3
  <2> HIDE DEF marked, r
  <2>3. r[i] = [marked[i] EXCEPT !.claim = c] /\ \A j \in Item \ {i} : r[j] = marked[j]
    BY <2>1, <2>2
  <2> QED BY <1>3, <2>2, <2>3
<1> HIDE DEF r
<1>5. r[i].status = "claimed"
  BY <1>4 DEF Row
<1>6. Claimed(row') = {i}
  <2>1. \A j \in Item : Live[j].status # "claimed"
    BY <1>1 DEF Claimed
  <2> QED BY <1>1, <1>4, <1>5, <2>1 DEF Claimed
<1>7. Present(row') = Present(Live)
  BY <1>1, <1>4, <1>5 DEF Present, Queued
<1>8. here' \subseteq here /\ held' = {i} /\ i \in here' /\ held = {}
  BY <1>1, <1>6, <1>7, LineNow, LiveDerived DEF held
<1>9. ahead' = Line!Among(here')
  BY <1>2, <1>8, LineKept
<1> QED BY <1>8, <1>9 DEF Line!Hold

\* A reorder puts the line in another order while nothing is held.
LEMMA ReorderShuffles ==
  ASSUME QueueInv, NEW order \in [Item -> 1..Size], Reorder(order)
  PROVE  Line!Shuffle
<1>1. /\ Claimed(Live) = {} /\ row' = Live /\ place' = Ranked(row', order)
      /\ \A i, j \in Queued(Live) : order[i] = order[j] => i = j
  BY DEF Reorder, Transaction
<1>2. order \in [Item -> Nat]
  BY SizeNat
<1>3. Live \in [Item -> Row]
  BY LiveDerived DEF Derived, RowsOK
<1>4. here' \subseteq here /\ held' = {} /\ held = {} /\ here' \subseteq Queued(Live)
  <2>1. Present(Live) \subseteq Queued(Live)
    BY <1>1, <1>3 DEF Present, Queued, Claimed, Row
  <2> QED BY <1>1, <2>1, LineNow, LiveDerived DEF held
<1>5. ahead' = {p \in here' \X here' : order[p[1]] < order[p[2]]}
  BY <1>1, <1>2, LineRanked
<1>6. \A i, j \in here' : /\ order[i] \in Nat /\ order[j] \in Nat
                          /\ order[i] = order[j] => i = j
                          /\ <<i, j>> \in ahead' <=> order[i] < order[j]
  BY <1>1, <1>2, <1>4, <1>5, LineNow
<1>7. Line!IsOrder(ahead', here')
  <2>1. ahead' \subseteq here' \X here'
    BY <1>5
  <2>2. ASSUME NEW i \in here', NEW j \in here'
        PROVE  <<i, j>> \in ahead' <=> i # j /\ <<j, i>> \notin ahead'
    <3>1. /\ <<i, j>> \in ahead' <=> order[i] < order[j]
          /\ <<j, i>> \in ahead' <=> order[j] < order[i]
          /\ order[i] \in Nat /\ order[j] \in Nat
          /\ i = j <=> order[i] = order[j]
      BY <1>6
    <3> QED BY <3>1
  <2>3. \A i, j, k \in here' : <<i, j>> \in ahead' /\ <<j, k>> \in ahead' => <<i, k>> \in ahead'
    BY <1>6
  <2> QED BY <2>1, <2>2, <2>3 DEF Line!IsOrder
<1> QED BY <1>4, <1>7 DEF Line!Shuffle

\* What an insertion leaves: everybody is what and where they were, but the
\* new one, who was not waiting; it is queued, behind all or in the place of
\* one that waited and is gone.
LEMMA InsertJoins ==
  ASSUME QueueInv, NEW in \in Input, EnqueueInsert(in)
  PROVE  \E i \in Item, order \in [Item -> Nat] :
           /\ i \in Queued(row') /\ ~Line!Waits(i) /\ Line!Joins(i)
           /\ \A j \in Item \ {i} : order[j] = place[j]
           /\ \/ order[i] = Size + 1
              \/ \E k \in Item : Line!Waits(k) /\ k \notin here' /\ order[i] = place[k]
           /\ place' = Ranked(row', IF in.front THEN Front(row', order, i) ELSE order)
<1> DEFINE settled   == SettledMembers(in)
           displaced == Displaced(Without(Live, settled), in)
           kept      == Without(Live, settled \cup displaced)
           replaced  == FoundByKey(kept, in.key)
           rest      == Without(kept, replaced)
           old       == CHOOSE j \in replaced : TRUE
           order(i)  == [place EXCEPT ![i] = IF replaced = {} THEN Size + 1 ELSE place[old]]
<1>1. PICK i \in Identities(kept, in) :
        /\ row' = [rest EXCEPT ![i] = MakeQueued(in)]
        /\ place' = Ranked(row', IF in.front THEN Front(row', order(i), i) ELSE order(i))
  BY DEF EnqueueInsert, Transaction
<1>2. in \in InputType /\ place \in [Item -> Nat]
  BY QueueAssumption, SizeNat DEF QueueInv, TypeOK
<1>3. /\ settled \subseteq Claimed(Live) /\ displaced \subseteq Claimed(Live)
      /\ replaced \subseteq Queued(kept)
  <2>1. Claimed(Without(Live, settled)) \subseteq Claimed(Live)
    BY RowsWithout
  <2> QED BY <2>1 DEF SettledMembers, Displaced, FoundByKey, Head
<1>4. /\ Present(kept) = Present(Live) \ (settled \cup displaced)
      /\ Claimed(kept) = Claimed(Live) \ (settled \cup displaced)
      /\ Present(rest) = Present(kept) \ replaced
      /\ Claimed(rest) = Claimed(kept) \ replaced
  BY RowsWithout
<1>5. i \in Item /\ i \notin Present(kept)
  <2>1. Live \in [Item -> Row] /\ NoRow \in Row
    BY LiveDerived, QueueAssumption DEF Derived, RowsOK, NoRow, Row, NoAttempt, Attempt, Expiry
  <2>2. kept \in [Item -> Row]
    BY <2>1 DEF Without
  <2>3. Present(kept) \subseteq Queued(kept) \cup Claimed(kept)
    BY <2>2 DEF Present, Queued, Claimed, Row
  <2>4. Claimed(Without(Live, settled)) = Claimed(Live) \ settled
    BY RowsWithout
  <2>5. in.item \notin Claimed(kept)
    BY <1>4, <2>4 DEF Displaced
  <2>6. in.item # None => in.item \in Item
    BY <1>2 DEF InputType
  <2>7. Present(kept) \subseteq Present(row)
    BY <1>4, LiveDerived
  <2> HIDE DEF kept
  <2> QED BY <2>3, <2>5, <2>6, <2>7 DEF Identities
<1>6. rest \in [Item -> {rest[j] : j \in Item}]
  BY DEF Without
<1>7. row'[i] = MakeQueued(in) /\ \A j \in Item \ {i} : row'[j] = rest[j]
  BY <1>1, <1>5, <1>6
<1>8. /\ order(i) \in [Item -> Nat] /\ \A j \in Item \ {i} : order(i)[j] = place[j]
      /\ replaced = {} => order(i)[i] = Size + 1
      /\ replaced # {} => old \in replaced /\ order(i)[i] = place[old]
  <2>1. old \in replaced \/ replaced = {}
    OBVIOUS
  <2>2. replaced \subseteq Item
    BY <1>3 DEF Queued
  <2> HIDE DEF replaced, old
  <2> QED BY <1>2, <1>5, <2>1, <2>2, SizeNat
<1> HIDE DEF settled, displaced, kept, replaced, rest, old, order
<1>9. in.expiry # "past"
  BY DEF EnqueueInsert, EnqueueAnswer
<1>10. /\ i \in Queued(row') /\ i \notin Expired(row')
       /\ Present(row') = Present(rest) \cup {i} /\ Claimed(row') = Claimed(rest) \ {i}
  BY <1>5, <1>7, <1>9 DEF MakeQueued, Present, Queued, Claimed, Expired
<1>11. here = Present(Live) /\ held = Claimed(Live) /\ held \subseteq here
  BY LineNow, LiveDerived DEF held
<1>12. ~Line!Waits(i)
  BY <1>3, <1>4, <1>5, <1>11 DEF Line!Waits
<1>13. Line!Joins(i)
  <2>1. i \in here' /\ held' = Claimed(rest) \ {i} /\ here' \ {i} \subseteq Present(rest)
    BY <1>10, LineNow, LineRows
  <2>2. Claimed(rest) = held \ ((settled \cup displaced) \cup replaced)
        /\ Present(rest) = here \ ((settled \cup displaced) \cup replaced)
    BY <1>4, <1>11
  <2>3. held' \subseteq here'
    BY LineNow
  <2> QED BY <2>1, <2>2, <2>3 DEF Line!Joins, Line!Others
<1>14. ASSUME replaced # {} PROVE Line!Waits(old) /\ old \notin here' /\ old \in Item
  <2>1. old \in Queued(kept) /\ Queued(kept) \cap Claimed(kept) = {}
        /\ Queued(kept) \subseteq Present(kept) /\ Present(kept) \subseteq Item
    BY <1>3, <1>8, <1>14 DEF Queued, Claimed, Present
  <2>2. Line!Waits(old)
    BY <1>4, <1>11, <2>1 DEF Line!Waits
  <2>3. old # i /\ old \notin Present(rest)
    BY <1>4, <1>5, <1>8, <1>14, <2>1
  <2> QED BY <1>10, <2>1, <2>2, <2>3, LineNow
<1> QED BY <1>1, <1>5, <1>8, <1>10, <1>12, <1>13, <1>14

\* Ranked first by an enqueue, a prompt is in front of all that wait, and they
\* are behind the one that is held.
LEMMA FrontJoins ==
  ASSUME QueueInv, NEW order \in [Item -> Nat], NEW i \in Item,
         i \in Queued(row'), Line!Joins(i),
         \A j \in Item \ {i} : order[j] = place[j],
         \A j \in here' : row'[j].status \in {"queued", "claimed"},
         place' = Ranked(row', Front(row', order, i))
  PROVE  Line!JoinFront(i)
<1> DEFINE F == Front(row', order, i)
           waiting == Line!Others(i) \ held'
<1>1. \A j \in Item : F[j] = IF j = i THEN Size + 1
                             ELSE IF j \in Queued(row') THEN order[j] + Size + 2
                             ELSE order[j]
  BY DEF Front
<1>2. F \in [Item -> Nat]
  BY SizeNat DEF Front
<1>3. place \in [Item -> 0..Size] /\ Size \in Nat
  BY SizeNat DEF QueueInv, TypeOK
<1>4. /\ here' \subseteq Item /\ i \in here' /\ waiting \subseteq here' \cap here
      /\ held' \subseteq here' /\ i \notin held' /\ here' = waiting \cup {i} \cup held'
      /\ held' \subseteq held
  BY LineNow DEF Line!Joins, Line!Others
<1>5. ahead' = {p \in here' \X here' : F[p[1]] < F[p[2]]}
  BY <1>2, LineRanked
<1>6. ASSUME NEW j \in waiting
      PROVE  F[j] = place[j] + Size + 2 /\ place[j] \in 0..Size
  <2>1. j \in Item /\ j # i /\ j \notin held' /\ j \in here'
    BY <1>4 DEF Line!Others
  <2>2. j \in Queued(row')
    BY <2>1, LineNow DEF Queued, Claimed
  <2> QED BY <1>1, <1>3, <2>1, <2>2
<1>7. ASSUME NEW j \in held'
      PROVE  F[j] = place[j] /\ place[j] \in 0..Size
  <2>1. j \in Item /\ j # i /\ j \notin Queued(row')
    BY <1>4, LineNow DEF Queued, Claimed
  <2> QED BY <1>1, <1>3, <2>1
<1>8. F[i] = Size + 1
  BY <1>1
<1>9. \A j, k \in held' : j = k
  BY <1>4 DEF QueueInv, OneClaim, held
<1>10. waiting \cap held' = {} /\ i \notin waiting
  BY DEF Line!Others
<1> HIDE DEF F, waiting
<1>11. ASSUME NEW j \in here', NEW k \in here'
       PROVE  F[j] < F[k] <=> \/ j \in waiting /\ k \in waiting /\ place[j] < place[k]
                              \/ j = i /\ k \in waiting
                              \/ j \in held' /\ k \in here' \ held'
  <2>1. CASE j \in waiting
    <3>1. F[j] = place[j] + Size + 2 /\ place[j] \in 0..Size
      BY <1>6, <2>1
    <3>2. j # i /\ j \notin held'
      BY <1>10, <2>1
    <3>3. CASE k \in waiting
      <4>1. F[k] = place[k] + Size + 2 /\ place[k] \in 0..Size
        BY <1>6, <3>3
      <4> QED BY <1>3, <2>1, <3>1, <3>2, <3>3, <4>1
    <3>4. CASE k = i
      BY <1>3, <1>8, <1>10, <3>1, <3>2, <3>4
    <3>5. CASE k \in held'
      <4>1. F[k] = place[k] /\ place[k] \in 0..Size
        BY <1>7, <3>5
      <4> QED BY <1>3, <1>10, <3>1, <3>2, <3>5, <4>1
    <3> QED BY <1>4, <3>3, <3>4, <3>5
  <2>2. CASE j = i
    <3>1. j \notin waiting /\ j \notin held'
      BY <1>4, <1>10, <2>2
    <3>2. CASE k \in waiting
      <4>1. F[k] = place[k] + Size + 2 /\ place[k] \in 0..Size
        BY <1>6, <3>2
      <4> QED BY <1>3, <1>8, <2>2, <3>2, <4>1
    <3>3. CASE k = i
      BY <1>3, <1>8, <1>10, <2>2, <3>1, <3>3
    <3>4. CASE k \in held'
      <4>1. F[k] = place[k] /\ place[k] \in 0..Size
        BY <1>7, <3>4
      <4> QED BY <1>3, <1>8, <1>10, <2>2, <3>1, <3>4, <4>1
    <3> QED BY <1>4, <3>2, <3>3, <3>4
  <2>3. CASE j \in held'
    <3>1. F[j] = place[j] /\ place[j] \in 0..Size
      BY <1>7, <2>3
    <3>2. j \notin waiting /\ j # i
      BY <1>4, <1>10, <2>3
    <3>3. CASE k \in waiting
      <4>1. F[k] = place[k] + Size + 2 /\ place[k] \in 0..Size
        BY <1>6, <3>3
      <4> QED BY <1>3, <1>10, <2>3, <3>1, <3>3, <4>1
    <3>4. CASE k = i
      BY <1>3, <1>4, <1>8, <2>3, <3>1, <3>4
    <3>5. CASE k \in held'
      <4>1. j = k
        BY <1>9, <2>3, <3>5
      <4> QED BY <1>3, <3>1, <3>2, <3>5, <4>1
    <3> QED BY <1>4, <3>3, <3>4, <3>5
  <2> QED BY <1>4, <2>1, <2>2, <2>3
<1>12. Line!Among(waiting) = {p \in waiting \X waiting : place[p[1]] < place[p[2]]}
  BY <1>4 DEF Line!Among, ahead, Ahead
<1>13. ahead' = Line!Among(waiting) \cup ({i} \X waiting) \cup (held' \X (here' \ held'))
  <2>1. \A p \in here' \X here' : p[1] \in here' /\ p[2] \in here' /\ p = <<p[1], p[2]>>
    OBVIOUS
  <2> QED BY <1>4, <1>5, <1>11, <1>12, <2>1
<1> QED BY <1>13 DEF Line!JoinFront, waiting

\* A new prompt joins at the end, in front, or in the place of another.
LEMMA InsertIsLine ==
  ASSUME QueueInv, NEW in \in Input, EnqueueInsert(in)
  PROVE  Line!Next
<1>1. PICK i \in Item, order \in [Item -> Nat] :
        /\ i \in Queued(row') /\ ~Line!Waits(i) /\ Line!Joins(i)
        /\ \A j \in Item \ {i} : order[j] = place[j]
        /\ \/ order[i] = Size + 1
           \/ \E k \in Item : Line!Waits(k) /\ k \notin here' /\ order[i] = place[k]
        /\ place' = Ranked(row', IF in.front THEN Front(row', order, i) ELSE order)
  BY InsertJoins
<1>2. /\ here' \subseteq Item /\ i \in here' /\ Line!Others(i) \subseteq here
      /\ Line!Others(i) \subseteq Item \ {i} /\ here' = Line!Others(i) \cup {i}
  BY <1>1, LineNow DEF Line!Joins, Line!Others
<1>3. /\ place \in [Item -> 0..Size] /\ Size \in Nat
      /\ \A j, k \in here : place[j] = place[k] => j = k
  BY SizeNat, LineNow DEF QueueInv, TypeOK
<1>4. CASE in.front
  <2>1. place' = Ranked(row', Front(row', order, i))
    BY <1>1, <1>4
  <2>2. \A j \in here' : row'[j].status \in {"queued", "claimed"}
    <3>1. QueueInv'
      BY NextKeeps DEF Next, Enqueue
    <3> QED BY <3>1, LineNow DEF QueueInv, TypeOK, Row, Present
  <2>3. Line!JoinFront(i)
    BY <1>1, <2>1, <2>2, FrontJoins
  <2> QED BY <2>3 DEF Line!Next
<1>5. CASE ~in.front
  <2>1. ahead' = {p \in here' \X here' : order[p[1]] < order[p[2]]}
    BY <1>1, <1>5, LineRanked
  <2>2. Line!Among(Line!Others(i))
          = {p \in Line!Others(i) \X Line!Others(i) : place[p[1]] < place[p[2]]}
    BY <1>2 DEF Line!Among, ahead, Ahead
  <2>3. ASSUME NEW j \in Line!Others(i)
        PROVE  j \in Item \ {i} /\ order[j] = place[j] /\ place[j] \in 0..Size
    BY <1>1, <1>2, <1>3
  <2>4. \A p \in here' \X here' : p[1] \in here' /\ p[2] \in here' /\ p = <<p[1], p[2]>>
    OBVIOUS
  <2>5. order[i] \in Nat
    BY <1>1
  <2>6. CASE order[i] = Size + 1
    <3>1. \A j \in Line!Others(i) : order[j] < order[i] /\ ~(order[i] < order[j])
      BY <1>3, <2>3, <2>6
    <3>2. ~(order[i] < order[i]) /\ i \notin Line!Others(i)
      BY <2>5 DEF Line!Others
    <3>3. ahead' = Line!Among(Line!Others(i)) \cup (Line!Others(i) \X {i})
      BY <1>2, <2>1, <2>2, <2>3, <2>4, <3>1, <3>2
    <3>4. Line!JoinEnd(i)
      BY <1>1, <3>3 DEF Line!JoinEnd
    <3> QED BY <3>4 DEF Line!Next
  <2>7. CASE order[i] # Size + 1
    <3>1. PICK k \in Item : Line!Waits(k) /\ k \notin here' /\ order[i] = place[k]
      BY <1>1, <2>7
    <3>2. k \in here
      BY <3>1 DEF Line!Waits
    <3>3. \A j \in Line!Others(i) : /\ order[j] < order[i] <=> <<j, k>> \in ahead
                                    /\ order[i] < order[j] <=> <<k, j>> \in ahead
      BY <1>2, <2>3, <3>1, <3>2 DEF ahead, Ahead
    <3>4. ~(order[i] < order[i]) /\ i \notin Line!Others(i)
      BY <2>5 DEF Line!Others
    <3>5. ahead' = Line!Among(Line!Others(i))
                     \cup {p \in Line!Others(i) \X {i} : <<p[1], k>> \in ahead}
                     \cup {p \in {i} \X Line!Others(i) : <<k, p[2]>> \in ahead}
      BY <1>2, <2>1, <2>2, <2>3, <2>4, <3>3, <3>4
    <3>6. Line!TakePlace(i, k)
      BY <1>1, <3>1, <3>5 DEF Line!TakePlace
    <3> QED BY <3>6 DEF Line!Next
  <2> QED BY <2>6, <2>7
<1> QED BY <1>4, <1>5

\* A replay changes nothing, or moves the prompt it found to the front.
LEMMA ReplayIsLine ==
  ASSUME QueueInv, NEW in \in Input, EnqueueReplay(in)
  PROVE  Line!Next
<1>1. PICK i \in FoundByRequest(Live, in.request) :
        row' = Live /\ place' = Ranked(row', IF in.front THEN Front(row', place, i) ELSE place)
  BY DEF EnqueueReplay, Transaction
<1>2. CASE ~in.front
  <2>1. OrderKept
    BY <1>1, <1>2 DEF OrderKept
  <2>2. Line!Leave
    BY <1>1, <2>1, LiveDerived, TableLeaves
  <2> QED BY <2>2 DEF Line!Next
<1>3. CASE in.front
  <2>1. i \in Item /\ i \in Present(Live) /\ i \notin Claimed(Live)
    BY <1>3 DEF EnqueueReplay, EnqueueAnswer, FoundByRequest, Present
  <2>2. Live \in [Item -> Row] /\ place \in [Item -> Nat]
    BY LiveDerived, SizeNat DEF Derived, RowsOK, QueueInv, TypeOK
  <2>3. /\ i \in Queued(row') /\ i \in Present(row) \ Expired(row)
        /\ \A j \in Present(row') : row'[j].status \in {"queued", "claimed"}
    BY <1>1, <2>1, <2>2, LiveDerived DEF Present, Queued, Claimed, Row
  <2>4. i \in here' /\ here' \subseteq here /\ held' = held /\ i \notin held
    <3>1. Expired(row') = {}
      <4>1. \A j \in Queued(Live) : Live[j] = row[j] /\ j \in Queued(row) \ Expired(row)
        BY LiveDerived DEF Queued, Present
      <4> QED BY <1>1, <4>1 DEF Expired
    <3> QED BY <1>1, <2>1, <3>1, LineNow, LiveDerived DEF held
  <2>5. Line!Joins(i)
    BY <2>4, LineNow DEF Line!Joins, Line!Others
  <2>6. Line!JoinFront(i)
    <3>1. \A j \in here' : row'[j].status \in {"queued", "claimed"}
      BY <2>3, LineNow
    <3>2. place' = Ranked(row', Front(row', place, i))
      BY <1>1, <1>3
    <3> QED BY <2>1, <2>2, <2>3, <2>5, <3>1, <3>2, FrontJoins
  <2> QED BY <2>1, <2>6 DEF Line!Next
<1> QED BY <1>2, <1>3

\* Every step of the queue is a step of the line.
LEMMA StepIsLine ==
  ASSUME QueueInv, [Next]_vars
  PROVE  [Line!Next]_Line!vars
<1>1. CASE Sweep
  <2>1. row' = Live /\ OrderKept
    BY <1>1, RewritesInOrder DEF Sweep, Rewrite, Transaction
  <2> QED BY <2>1, LiveDerived, TableLeaves DEF Line!Next
<1>2. CASE Enqueue
  BY <1>2, InsertIsLine, ReplayIsLine DEF Enqueue
<1>3. CASE Mutate
  <2>0. /\ Live \in [Item -> Row]
        /\ Mutate => OrderKept \/ \E order \in [Item -> 1..Size] : Reorder(order)
    BY LiveDerived DEF Derived, RowsOK, Mutate, UpdateQueued, PromoteQueuedSource, Cancel,
       ClearUserManageable, DrainComposerInjectable, Rewrite, Transaction, OrderKept
  <2>1. ASSUME NEW i \in Item, UpdateQueued(i) PROVE Line!Leave
    <3> DEFINE w == [Live[i] EXCEPT !.expiry = "later"]
    <3>1. /\ i \in Queued(Live) /\ row' = [Live EXCEPT ![i] = w] /\ OrderKept
      BY <2>0, <2>1 DEF UpdateQueued, Rewrite, Transaction, OrderKept
    <3>2. w.status = "queued"
      BY <2>0, <3>1 DEF Queued, Row
    <3> HIDE DEF w
    <3> QED BY <3>1, <3>2, RewrittenLeaves
  <2>2. ASSUME NEW i \in Item, NEW s \in Source, PromoteQueuedSource(i, s) PROVE Line!Leave
    <3> DEFINE w == [Live[i] EXCEPT !.source = s]
    <3>1. /\ i \in Queued(Live) /\ row' = [Live EXCEPT ![i] = w] /\ OrderKept
      BY <2>0, <2>2 DEF PromoteQueuedSource, Rewrite, Transaction, OrderKept
    <3>2. w.status = "queued"
      BY <2>0, <3>1 DEF Queued, Row
    <3> HIDE DEF w
    <3> QED BY <3>1, <3>2, RewrittenLeaves
  <2>3. ASSUME \/ \E i \in Item : Cancel(i)
               \/ ClearUserManageable \/ DrainComposerInjectable
        PROVE  Line!Leave
    <3>1. OrderKept /\ \E gone : row' = Without(Live, gone)
      BY <2>3 DEF Cancel, ClearUserManageable, DrainComposerInjectable, Rewrite, Transaction,
         OrderKept
    <3> QED BY <3>1, WithdrawLeaves
  <2> QED BY <1>3, <2>1, <2>2, <2>3, ReorderShuffles DEF Mutate, Line!Next
<1>4. CASE ClaimStep
  <2>1. ASSUME NEW c \in Claim, NEW t \in Turn, PrepareDelivery(c, t) PROVE Line!Leave
    <3>1. /\ place' = place
          /\ row' = [i \in Item |-> IF i \in ClaimRows(row, c)
                                    THEN [row[i] EXCEPT !.attempt = [claim |-> c, turn |-> t]]
                                    ELSE row[i]]
      BY <2>1 DEF PrepareDelivery
    <3>2. \A i \in Item : row[i] \in Row
      BY DEF QueueInv, TypeOK
    <3>3. \A i \in Item : row'[i].status = row[i].status /\ row'[i].expiry = row[i].expiry
      BY <3>1, <3>2 DEF Row
    <3> QED BY <3>1, <3>3, EditLeaves
  <2>2. ASSUME NEW c \in Claim,
               \/ \E t \in Turn \cup {None} : AcknowledgeClaim(c, t)
               \/ SettleClaim(c) \/ ReleaseClaim(c)
               \/ RecoverAcknowledges(c) \/ RecoverReleases(c)
        PROVE  Line!Leave
    BY <2>2, ReleaseLeaves DEF AcknowledgeClaim, SettleClaim, ReleaseClaim,
       RecoverAcknowledges, RecoverReleases
  <2> QED BY <1>4, <2>1, <2>2, ClaimHolds DEF ClaimStep, Line!Next
<1>5. CASE TurnStep
  <2>1. place' = place /\ row' = row
    BY <1>5 DEF TurnStep, TurnAccepted, DirectTurnAccepted, TurnSettled, TurnRevoked
  <2> QED BY <2>1, EditLeaves DEF Line!Next
<1>6. CASE DeleteSession
  <2>1. row' = Without(row, Item) /\ OrderKept
    BY <1>6, RewritesInOrder DEF DeleteSession, Rewrite, Transaction
  <2>2. Present(row') = {} /\ Claimed(row') = {}
    BY <2>1, RowsWithout, LineRows DEF Claimed
  <2> QED BY <2>1, <2>2, TableLeaves DEF Line!Next
<1>7. ASSUME \/ \E token \in Token : PauseIfPending(token)
             \/ \E expected \in Token \cup {None} : ContinueQueue(expected)
      PROVE  Line!Leave
  <2>1. row' = Live /\ OrderKept
    BY <1>7, RewritesInOrder DEF PauseIfPending, ContinueQueue, Transaction
  <2> QED BY <2>1, LiveDerived, TableLeaves
<1>8. ASSUME NEW i \in Item, Passes(i) PROVE Line!Leave
  <2>1. place' = place /\ row' = [row EXCEPT ![i].expiry = "past"]
    BY <1>8 DEF Passes
  <2>2. row \in [Item -> Row]
    BY DEF QueueInv, TypeOK
  <2>3. \A j \in Item : row'[j] = IF j = i THEN [row[i] EXCEPT !.expiry = "past"] ELSE row[j]
    BY <2>1, <2>2
  <2>4. [row[i] EXCEPT !.expiry = "past"].status = row[i].status
        /\ [row[i] EXCEPT !.expiry = "past"].expiry = "past"
    BY <2>2 DEF Row
  <2> QED BY <2>1, <2>3, <2>4, EditLeaves
<1>9. CASE UNCHANGED vars
  BY <1>9 DEF vars, Line!vars, here, held, ahead, Ahead, Live, Without, Expired, Queued,
     Claimed, Present
<1> QED BY <1>1, <1>2, <1>3, <1>4, <1>5, <1>6, <1>7, <1>8, <1>9 DEF Next, Line!Next

(* For any number of items, claims and inputs, the table is a line: who    *)
(* joins comes last, in front of all that wait or in another's place, one  *)
(* at a time is held and keeps its place, and nothing else moves.          *)
THEOREM ImplementsPromptLine == Spec => PromptLine
<1>1. Init => Line!Init
  <2> SUFFICES ASSUME Init PROVE Line!Init
    OBVIOUS
  <2>1. \A i \in Item : row[i].status = "absent"
    BY DEF Init, NoRow
  <2>2. Present(row) = {} /\ Claimed(row) = {}
    BY <2>1 DEF Present, Claimed
  <2>3. here = {} /\ held = {}
    BY <2>2, LineNow DEF held
  <2> QED BY <2>3 DEF Line!Init, ahead
<1>2. QueueInv /\ [Next]_vars => [Line!Next]_Line!vars
  BY StepIsLine
<1> QED BY <1>1, <1>2, QueueInvariant, PTL DEF Spec, PromptLine, Line!Spec

=============================================================================
