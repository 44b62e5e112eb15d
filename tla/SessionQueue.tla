---------------------------- MODULE SessionQueue ----------------------------
(***************************************************************************)
(* The durable prompt queue of one session: the repository                 *)
(*   packages/local-runtime-v2/src/service/session-system/queue/repo/      *)
(*   drizzle.ts                                                            *)
(* and the part of turn-priority-fence.ts that writes the queue's pause    *)
(* from inside a Turn's own transactions.                                  *)
(*                                                                         *)
(* Every action is one SQLite IMMEDIATE transaction; an operation that     *)
(* throws is rolled back and is therefore no step at all. Every query      *)
(* filters by session, so one session is modelled. Abstracted:             *)
(*  - the autoincrement row id that orders the queue is kept as the row's  *)
(*    rank among the rows present (place), so it stays bounded;            *)
(*  - wall-clock deadlines are the three values of Expiry, and Passes      *)
(*    moves one; whether a claim's lease has run out, its owner has died   *)
(*    or it predates this runtime (activeClaim) is the nondeterministic    *)
(*    choice of RecoverReleases and RecoverAcknowledges;                   *)
(*  - message bodies, models and routing are left out; a pause's           *)
(*    (cause, triggerTurnId, pausedAtMs) is one Token;                     *)
(*  - a mutation refused by the deletion gate changes nothing, and the     *)
(*    gate may refuse any of them, so it is not represented here.          *)
(* replaceSession (no caller) and the legacy row migration are left out.   *)
(***************************************************************************)
EXTENDS Naturals, FiniteSets

CONSTANTS Item,      \* queue item ids
          Claim,     \* claim ids; makeId never returns one twice
          Turn,      \* turn ids
          Token,     \* the pauses that can be recorded
          Request,   \* client request ids
          Key,       \* dedupe keys
          Source,    \* message sources
          None,      \* "no value" of every optional field
          Input      \* the enqueue inputs callers submit

Expiry == {"never", "later", "past"}

(* A batch member names the claimed row it was sent from (itemId) and,     *)
(* when the sender held it, the claim.                                     *)
Member == [item : Item, claim : Claim \cup {None}]

InputType == [item : Item \cup {None}, request : Request \cup {None},
              key : Key \cup {None}, source : Source, expiry : Expiry,
              front : BOOLEAN, member : Member \cup {None}]

ASSUME QueueAssumption ==
  /\ IsFiniteSet(Item)
  /\ "api" \in Source
  /\ Input \subseteq InputType
  /\ None \notin Item \cup Claim \cup Turn \cup Token \cup Request \cup Key
  /\ None \notin Member

Attempt == [claim : Claim \cup {None}, turn : Turn \cup {None}]
NoAttempt == [claim |-> None, turn |-> None]

Row == [status : {"absent", "queued", "claimed"}, source : Source \cup {None},
        expiry : Expiry, request : Request \cup {None}, key : Key \cup {None},
        claim : Claim \cup {None}, attempt : Attempt]

NoRow == [status |-> "absent", source |-> None, expiry |-> "never",
          request |-> None, key |-> None, claim |-> None,
          attempt |-> NoAttempt]

VARIABLES
  row,         \* the queue_items table
  place,       \* rank of a row's id among the rows present; 0 when absent
  pause,       \* the queue_pauses row
  usedClaims,  \* claim ids handed out so far
  receipt,     \* turn_ingress: the turn that accepted a claim
  view         \* what a subscriber who folds the committed facts believes

vars == <<row, place, pause, usedClaims, receipt, view>>

-----------------------------------------------------------------------------
(* Queries *)

Present(r) == {i \in Item : r[i].status # "absent"}
Queued(r)  == {i \in Item : r[i].status = "queued"}
Claimed(r) == {i \in Item : r[i].status = "claimed"}
Expired(r) == {i \in Queued(r) : r[i].expiry = "past"}

ClaimRows(r, c) == {i \in Claimed(r) : r[i].claim = c}

Without(r, gone) == [i \in Item |-> IF i \in gone THEN NoRow ELSE r[i]]

(* deleteExpired: the rows every operation starts from. *)
Live == Without(row, Expired(row))

(* Mutant: the replay lookup overlooks claimed rows. *)
FoundByRequestQueuedOnly(r, q) == {i \in Queued(r) : q # None /\ r[i].request = q}

FoundByRequest(r, q) == {i \in Present(r) : q # None /\ r[i].request = q}

(* The head of a set of rows: what ORDER BY id LIMIT 1 returns. *)
Head(S) == {i \in S : \A j \in S : place[i] <= place[j]}

FoundByKey(r, k) == Head({i \in Queued(r) : k # None /\ r[i].key = k})

-----------------------------------------------------------------------------
(* Writes *)

Size == Cardinality(Item)

(* Row ids, up to a renaming that keeps their order. *)
Ranked(r, order) ==
  [i \in Item |-> IF i \in Present(r)
                  THEN Cardinality({j \in Present(r) : order[j] <= order[i]})
                  ELSE 0]

(* Mutant: the claimed row is re-inserted with the others. *)
FrontOfAll(r, order, i) ==
  [j \in Item |-> IF j = i THEN Size + 1 ELSE order[j] + Size + 2]

(* Mutant: the other queued rows are inserted again last first.            *)
FrontReversed(r, order, i) ==
  [j \in Item |-> IF j = i THEN Size + 1
                  ELSE IF j \in Queued(r) THEN 3 * Size - order[j]
                  ELSE order[j]]

(* moveQueuedToFront deletes every queued row and inserts them again, i    *)
(* first: a claimed row keeps its id and is ahead of all of them.          *)
Front(r, order, i) ==
  [j \in Item |-> IF j = i THEN Size + 1
                  ELSE IF j \in Queued(r) THEN order[j] + Size + 2
                  ELSE order[j]]

ReleasedRow(w) == [w EXCEPT !.status = "queued", !.claim = None]

(* reconcilePause: no pause outlives the last row. *)
Reconciled(r, token) == IF Present(r) = {} THEN None ELSE token

(* The facts an operation commits: items removed, items enqueued or        *)
(* requeued, and what it says of the pause. The expired rows' removals are *)
(* among them in every operation.                                          *)
Tell(removed, added, news) ==
  [removed |-> Expired(row) \cup removed, added |-> added, news |-> news]

(* Mutant: nobody is told that the pause went with the last row. *)
TransactionSilent(r, order, token, facts) ==
  /\ row' = r
  /\ place' = Ranked(r, order)
  /\ pause' = Reconciled(r, token)
  /\ view' = [items |-> (view.items \ facts.removed) \cup facts.added,
              paused |-> IF facts.news = "silent" THEN view.paused
                         ELSE facts.news = "paused"]

(* The transaction wrapper: the operation's rows, order and pause, its     *)
(* facts, and withPauseRemovalFact, which adds the fact of a pause that    *)
(* reconcilePause took away.                                               *)
Transaction(r, order, token, facts) ==
  /\ row' = r
  /\ place' = Ranked(r, order)
  /\ pause' = Reconciled(r, token)
  /\ view' = [items |-> (view.items \ facts.removed) \cup facts.added,
              paused |-> IF pause # None /\ Reconciled(r, token) = None THEN FALSE
                         ELSE IF facts.news = "silent" THEN view.paused
                         ELSE facts.news = "paused"]

(* An operation that leaves order, pause and the claim ids alone. *)
Rewrite(r, removed, added) ==
  /\ Transaction(r, place, pause, Tell(removed, added, "silent"))
  /\ UNCHANGED usedClaims

-----------------------------------------------------------------------------
(* Reads, and every operation that is refused: only expired rows go. *)

Sweep ==
  /\ Rewrite(Live, {}, {})
  /\ UNCHANGED receipt

-----------------------------------------------------------------------------
(* Enqueue *)

(* What enqueueInTransaction answers to an input. A front placement        *)
(* without an identity yields to a claimed row; a request already in the   *)
(* queue is replayed, which re-inserts the row it found when it is to be   *)
(* moved to the front: if that row is claimed, it is still in the table    *)
(* and the UNIQUE(session, item) constraint fails the transaction.         *)
EnqueueAnswer(in) ==
  LET found == FoundByRequest(Live, in.request)
  IN IF in.expiry = "past" THEN "expired"
     ELSE IF in.front /\ in.item = None /\ Claimed(Live) # {} THEN "bounced"
     ELSE IF found = {} THEN "inserted"
     ELSE IF in.front /\ found \cap Claimed(Live) # {} THEN "throws"
     ELSE "replayed"

EnqueueReplay(in) ==
  /\ EnqueueAnswer(in) = "replayed"
  /\ \E i \in FoundByRequest(Live, in.request) :
       Transaction(Live, IF in.front THEN Front(Live, place, i) ELSE place,
                   pause, Tell({}, {}, "silent"))
  /\ UNCHANGED <<usedClaims, receipt>>

(* settleBatchMemberClaims: the claimed row a batch member came from. *)
SettledMembers(in) ==
  {i \in Claimed(Live) :
     /\ in.member # None
     /\ in.member.item = i
     /\ in.member.claim \in {None, Live[i].claim}}

MakeQueued(in) ==
  [status |-> "queued", source |-> in.source, expiry |-> in.expiry,
   request |-> in.request, key |-> in.key, claim |-> None,
   attempt |-> NoAttempt]

(* restorableIdentity: the id the caller asks for, unless queued work has  *)
(* it; a claimed row under that id is displaced. Otherwise a fresh id.     *)
Displaced(r, in) == Claimed(r) \cap {in.item}

Identities(r, in) ==
  IF in.item # None /\ in.item \notin Queued(r) THEN {in.item}
  ELSE Item \ Present(row)

EnqueueInsert(in) ==
  LET settled   == SettledMembers(in)
      displaced == Displaced(Without(Live, settled), in)
      kept      == Without(Live, settled \cup displaced)
      replaced  == FoundByKey(kept, in.key)
  IN /\ EnqueueAnswer(in) = "inserted"
     /\ \E i \in Identities(kept, in) :
          LET r == [Without(kept, replaced) EXCEPT ![i] = MakeQueued(in)]
              order == [place EXCEPT ![i] = IF replaced = {} THEN Size + 1
                                            ELSE place[CHOOSE j \in replaced : TRUE]]
          IN Transaction(r, IF in.front THEN Front(r, order, i) ELSE order,
                         pause, Tell(settled \cup displaced \cup replaced, {i}, "silent"))
     /\ UNCHANGED <<usedClaims, receipt>>

-----------------------------------------------------------------------------
(* User mutations *)

(* updateQueued: only queued api work is editable; a new deadline is in    *)
(* the future. An edit of the message alone is a Sweep here.               *)
UpdateQueued(i) ==
  /\ i \in Queued(Live)
  /\ row[i].source = "api"
  /\ Rewrite([Live EXCEPT ![i].expiry = "later"], {}, {})
  /\ UNCHANGED receipt

PromoteQueuedSource(i, s) ==
  /\ i \in Queued(Live)
  /\ Rewrite([Live EXCEPT ![i].source = s], {}, {})
  /\ UNCHANGED receipt

Cancel(i) ==
  /\ i \in Queued(Live)
  /\ Rewrite(Without(Live, {i}), {i}, {})
  /\ UNCHANGED receipt

QueuedApi(r) == {i \in Queued(r) : r[i].source = "api"}

ClearUserManageable ==
  /\ Rewrite(Without(Live, QueuedApi(Live)), QueuedApi(Live), {})
  /\ UNCHANGED receipt

(* drainComposerInjectable: the queued api rows that are plain text. Which *)
(* ones are is a matter of their content.                                  *)
DrainComposerInjectable ==
  /\ \E text \in SUBSET QueuedApi(Live) :
       Rewrite(Without(Live, text), text, {})
  /\ UNCHANGED receipt

(* reorder: a complete permutation of the queued rows, refused while a row *)
(* is claimed.                                                             *)
Reorder(order) ==
  /\ Claimed(Live) = {}
  /\ Queued(Live) # {}
  /\ \A i, j \in Queued(Live) : order[i] = order[j] => i = j
  /\ Transaction(Live, order, pause, Tell({}, {}, "silent"))
  /\ UNCHANGED <<usedClaims, receipt>>

-----------------------------------------------------------------------------
(* Pause *)

(* pauseIfPending: the first pause stays. *)
PauseIfPending(token) ==
  /\ LET inserted == pause = None /\ Present(Live) # {}
     IN Transaction(Live, place, IF inserted THEN token ELSE pause,
                    Tell({}, {}, IF inserted THEN "paused" ELSE "silent"))
  /\ UNCHANGED <<usedClaims, receipt>>

(* continueQueue: any pause, or only the one the caller saw. *)
ContinueQueue(expected) ==
  /\ LET deleted == pause # None /\ expected \in {None, pause}
     IN Transaction(Live, place, IF deleted THEN None ELSE pause,
                    Tell({}, {}, IF deleted THEN "resumed" ELSE "silent"))
  /\ UNCHANGED <<usedClaims, receipt>>

-----------------------------------------------------------------------------
(* Claims *)

(* Mutant: an exact claim does not look for a claimed row. *)
ClaimableBeside(selection, exclude, i) ==
  /\ selection = "fifo" => pause = None
  /\ selection # "exact" => Claimed(Live) = {}
  /\ i \in IF selection = "exact" THEN Queued(Live) ELSE Head(Queued(Live) \ exclude)

(* claimNext: an exact claim names the row; a fifo claim takes the first   *)
(* queued row the caller does not exclude. A pause stops a plain fifo      *)
(* claim only, and one claimed row stops them all.                         *)
Claimable(selection, exclude, i) ==
  /\ selection = "fifo" => pause = None
  /\ Claimed(Live) = {}
  /\ i \in IF selection = "exact" THEN Queued(Live) ELSE Head(Queued(Live) \ exclude)

ClaimNext(selection, exclude, i, c) ==
  /\ Claimable(selection, exclude, i)
  /\ c \notin usedClaims
  /\ usedClaims' = usedClaims \cup {c}
  /\ Transaction([Live EXCEPT ![i].status = "claimed", ![i].claim = c],
                 place, pause, Tell({}, {}, "silent"))
  /\ UNCHANGED receipt

(* prepareDelivery records the turn a claim is about to be offered to; it  *)
(* deletes nothing. Claim ids are unique, so only the last attempt counts. *)
PrepareDelivery(c, t) ==
  /\ ClaimRows(row, c) # {}
  /\ \A i \in ClaimRows(row, c) : row[i].attempt.claim = c => row[i].attempt.turn = t
  /\ row' = [i \in Item |-> IF i \in ClaimRows(row, c)
                            THEN [row[i] EXCEPT !.attempt = [claim |-> c, turn |-> t]]
                            ELSE row[i]]
  /\ UNCHANGED <<place, pause, usedClaims, receipt, view>>

RemoveClaimed(c) ==
  /\ ClaimRows(Live, c) # {}
  /\ Rewrite(Without(Live, ClaimRows(Live, c)), ClaimRows(Live, c), {})

(* acknowledgeClaim: the claim's turn was accepted, so the work leaves. *)
AcknowledgeClaim(c, t) ==
  /\ receipt[c] # None
  /\ t \in {None, receipt[c]}
  /\ RemoveClaimed(c)
  /\ UNCHANGED receipt

(* rejectClaim, cancelClaim and consumeClaim differ in the fact's reason. *)
SettleClaim(c) ==
  /\ RemoveClaimed(c)
  /\ UNCHANGED receipt

(* Mutant: a released row is inserted again, behind the others. *)
ReleaseToTheBack(c) ==
  LET mine == ClaimRows(Live, c)
      late == {i \in mine : row[i].expiry = "past"}
  IN /\ Transaction([i \in Item |-> IF i \in late THEN NoRow
                                     ELSE IF i \in mine THEN ReleasedRow(row[i])
                                     ELSE Live[i]],
                    [i \in Item |-> IF i \in mine THEN Size + 1 ELSE place[i]],
                    pause, Tell(late, mine \ late, "silent"))
     /\ UNCHANGED usedClaims

(* release: back to queued in the place it had, unless it expired while    *)
(* it was claimed.                                                         *)
Release(c) ==
  LET mine == ClaimRows(Live, c)
      late == {i \in mine : row[i].expiry = "past"}
  IN Rewrite([i \in Item |-> IF i \in late THEN NoRow
                             ELSE IF i \in mine THEN ReleasedRow(row[i])
                             ELSE Live[i]],
             late, mine \ late)

ReleaseClaim(c) ==
  /\ Release(c)
  /\ UNCHANGED receipt

(* recoverClaims, for a claim whose owner is taken for dead. A claim whose *)
(* delivery was prepared is released even if its turn was accepted: the    *)
(* turn starts only after the acknowledgement, so it has not run.          *)
PendingDelivery(c) == \E i \in ClaimRows(Live, c) : row[i].attempt.claim = c

RecoverAcknowledges(c) ==
  /\ ~PendingDelivery(c)
  /\ receipt[c] # None
  /\ RemoveClaimed(c)
  /\ UNCHANGED receipt

RecoverReleases(c) ==
  /\ ClaimRows(Live, c) # {}
  /\ PendingDelivery(c) \/ receipt[c] = None
  /\ Release(c)
  /\ UNCHANGED receipt

DeleteSession ==
  /\ Rewrite(Without(row, Item), Present(Live), {})
  /\ UNCHANGED receipt

-----------------------------------------------------------------------------
(* The Turn repository's transactions, as far as they touch the queue. *)

(* An admitted turn: the receipt of the claim it was offered, and a pause  *)
(* consumed if the turn is one that consumes it (acceptedInTransaction).   *)
TurnAccepted(c, t, consumes) ==
  /\ ClaimRows(row, c) # {}
  /\ receipt[c] = None
  /\ receipt' = [receipt EXCEPT ![c] = t]
  /\ pause' = IF consumes THEN None ELSE pause
  /\ view' = [view EXCEPT !.paused = @ /\ ~(consumes /\ pause # None)]
  /\ UNCHANGED <<row, place, usedClaims>>

DirectTurnAccepted ==
  /\ pause # None
  /\ pause' = None
  /\ view' = [view EXCEPT !.paused = FALSE]
  /\ UNCHANGED <<row, place, usedClaims, receipt>>

(* Mutant: the pause is recorded without asking for pending work. *)
TurnSettledAlways(token) ==
  /\ pause' = token
  /\ view' = [view EXCEPT !.paused = TRUE]
  /\ UNCHANGED <<row, place, usedClaims, receipt>>

(* settledInTransaction: a turn that was stopped or failed pauses the work *)
(* behind it, replacing the pause there was.                               *)
TurnSettled(token) ==
  /\ Present(Live) # {}
  /\ pause' = token
  /\ view' = [view EXCEPT !.paused = TRUE]
  /\ UNCHANGED <<row, place, usedClaims, receipt>>

(* revokeAdmission: the receipt goes, and the pause the turn consumed      *)
(* comes back (revokedInTransaction) if there is work and no newer pause.  *)
TurnRevoked(c, token) ==
  /\ receipt[c] # None
  /\ receipt' = [receipt EXCEPT ![c] = None]
  /\ LET restored == token # None /\ pause = None /\ Present(Live) # {}
     IN /\ pause' = IF restored THEN token ELSE pause
        /\ view' = [view EXCEPT !.paused = @ \/ restored]
  /\ UNCHANGED <<row, place, usedClaims>>

(* The clock: an item's deadline arrives. *)
Passes(i) ==
  /\ row[i].expiry = "later"
  /\ row' = [row EXCEPT ![i].expiry = "past"]
  /\ UNCHANGED <<place, pause, usedClaims, receipt, view>>

-----------------------------------------------------------------------------

Init ==
  /\ row = [i \in Item |-> NoRow]
  /\ place = [i \in Item |-> 0]
  /\ pause = None
  /\ usedClaims = {}
  /\ receipt = [c \in Claim |-> None]
  /\ view = [items |-> {}, paused |-> FALSE]

Enqueue == \E in \in Input : EnqueueReplay(in) \/ EnqueueInsert(in)

Mutate ==
  \/ \E i \in Item : UpdateQueued(i) \/ Cancel(i)
  \/ \E i \in Item, s \in Source : PromoteQueuedSource(i, s)
  \/ ClearUserManageable
  \/ DrainComposerInjectable
  \/ \E order \in [Item -> 1..Size] : Reorder(order)

ClaimStep ==
  \/ \E i \in Item, c \in Claim : ClaimNext("exact", {}, i, c)
  \/ \E selection \in {"fifo", "continued-fifo"}, exclude \in SUBSET Item,
        i \in Item, c \in Claim : ClaimNext(selection, exclude, i, c)
  \/ \E c \in Claim, t \in Turn : PrepareDelivery(c, t)
  \/ \E c \in Claim, t \in Turn \cup {None} : AcknowledgeClaim(c, t)
  \/ \E c \in Claim : SettleClaim(c) \/ ReleaseClaim(c)
  \/ \E c \in Claim : RecoverAcknowledges(c) \/ RecoverReleases(c)

TurnStep ==
  \/ \E c \in Claim, t \in Turn, consumes \in BOOLEAN : TurnAccepted(c, t, consumes)
  \/ DirectTurnAccepted
  \/ \E token \in Token : TurnSettled(token)
  \/ \E c \in Claim, token \in Token \cup {None} : TurnRevoked(c, token)

Next ==
  \/ Sweep \/ Enqueue \/ Mutate \/ ClaimStep \/ TurnStep \/ DeleteSession
  \/ \E token \in Token : PauseIfPending(token)
  \/ \E expected \in Token \cup {None} : ContinueQueue(expected)
  \/ \E i \in Item : Passes(i)

Spec == Init /\ [][Next]_vars

-----------------------------------------------------------------------------
(* Properties *)

(* The variables have their types; a row has a claim exactly while it is   *)
(* claimed, and no two rows have the same id.                              *)
RowOK(w) ==
  /\ (w.status = "claimed") = (w.claim # None)
  /\ w.status = "absent" => w = NoRow

TypeOK ==
  /\ row \in [Item -> Row]
  /\ \A i \in Item : RowOK(row[i])
  /\ place \in [Item -> 0..Size]
  /\ \A i, j \in Present(row) : place[i] = place[j] => i = j
  /\ pause \in Token \cup {None}
  /\ usedClaims \in SUBSET Claim
  /\ receipt \in [Claim -> Turn \cup {None}]
  /\ view \in [items : SUBSET Item, paused : BOOLEAN]

(* At most one row of a session is claimed, so at most one turn is being   *)
(* prepared from its queue, whoever claims, releases, requeues or recovers *)
(* (claimNext, releaseClaim, insertEnqueue, recoverClaims).                *)
OneClaim == \A i, j \in Claimed(row) : i = j

(* A pause never outlives the work it holds back: with the last row goes   *)
(* the pause, also when a turn's settlement or revocation writes it        *)
(* (reconcilePause, settledInTransaction, revokedInTransaction).           *)
PauseNeedsWork == pause # None => Present(row) # {}

(* A subscriber who folds the committed facts, and never reads the table,  *)
(* knows at every commit which items are in the queue and whether it is    *)
(* paused: no removal, requeue or lost pause goes untold                   *)
(* (removalFact, requeueFact, withPauseRemovalFact).                       *)
FactsTellTheQueue ==
  /\ view.items = Present(row)
  /\ view.paused = (pause # None)

(* A client request is in the queue at most once, although no index of the *)
(* table says so: a retried enqueue is replayed whether the first row is   *)
(* still queued or already claimed (findByClientRequest, replayEnqueue).   *)
RequestUnique ==
  \A i, j \in Present(row) :
    row[i].request = row[j].request /\ row[i].request # None => i = j

Ahead(order, i, j) == order[i] < order[j]

Survivors == Present(row) \cap Present(row)'

(* Two items change places only because someone asked for it: a reorder,   *)
(* or an enqueue that goes to the front or restores an identity. Claiming, *)
(* releasing, recovering, editing, expiring and coalescing keep every      *)
(* other item where it was.                                                *)
OrderOnlyOnRequest ==
  [][(\E i, j \in Survivors : Ahead(place, i, j) /\ Ahead(place', j, i)) =>
       \/ \E order \in [Item -> 1..Size] : Reorder(order)
       \/ \E in \in Input : /\ in.front \/ in.item # None
                            /\ EnqueueReplay(in) \/ EnqueueInsert(in)]_vars

(* Not even those overtake work that is claimed: as long as the claim      *)
(* lasts, and in the step that releases it, what was behind it stays       *)
(* behind it (moveQueuedToFront leaves claimed rows alone; release writes  *)
(* back in place).                                                         *)
ClaimedNotOvertaken ==
  [][\A i \in Claimed(row) \cap Survivors, j \in Survivors :
       Ahead(place, i, j) => Ahead(place', i, j)]_vars

(* The line of those who wait or are claimed (PromptLine); one that has     *)
(* expired has left it, and the next operation deletes its row.             *)
here == Present(Live)
held == Claimed(row)
ahead == {p \in here \X here : Ahead(place, p[1], p[2])}

Line == INSTANCE PromptLine

(* The table is a line: every operation adds at one place, takes out,      *)
(* holds one or reorders them all, and nothing else moves.                 *)
PromptLine == Line!Spec

=============================================================================
