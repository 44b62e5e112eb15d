# MiniMax Code: TLA+ models, checks and proofs

MiniMax Code is a terminal coding agent: a TUI, a headless command and an ACP
server in front of a local runtime that keeps the user's sessions, queues the
prompts they type, admits them as *Turns* and drives each Turn through an agent.
Several runtime processes may share one SQLite database. This directory is a
verification project for the part of that runtime where things go wrong between
two steps: the prompt queue, the dispatcher that brings a prompt from there to a
Turn, the ownership of a session, the operation gate, the way of a submission
from the gate to the end of its Turn, and the messages that reach a Turn while it
runs.

Paths below are relative to `src/packages/local-runtime-v2/src/service/` unless
they begin with another package.

Contents: [inventory](#inventory) · [modules](#modules-and-the-code) ·
[runs](#runs) · [fairness](#fairness) · [proofs](#proofs) ·
[findings](#findings) · [observations](#observations) · [what is not modelled](#what-is-not-modelled) ·
[plan](#plan)

## Inventory

### The way of a prompt

    front end / API / cron / goal / background task
       |  enqueue                                  stop, send-now, steer, delete
       v                                                      |
    SessionQueue  <--claim / ack / release-- QueueDispatch    |
    (two tables)                                  | submit    v
       ^ pause, requeue                           v
       |                       SessionOperationGate (in memory, per session)
       |                                  | permit or lease
       |                                  v
       +--- TurnSubmission: check, prepare, admit, commit, deliver, register,
       |        |           run, settle
       |        |                      \ the controller's entry (in memory)
       +--------|-------------- TurnSteering: accept, poll, close, abort, hand back
                | one transaction each
                v
       TurnLease: session_locks and turn_ingress (shared database)

### Components

| component | state | operations | what is hard |
|---|---|---|---|
| Session prompt queue, `session-system/queue` | tables `queue_items`, `queue_pauses` | enqueue (replay, restore, coalesce, front), edit, promote, cancel, clear, drain, reorder, claim, prepare delivery, acknowledge, settle, release, recover, pause, continue, delete; pause writes from Turn transactions | retries meeting claims, order under release and front moves, pauses that outlive their work, facts that miss a removal |
| Turn repository, `turn-system/persistence` | tables `session_locks`, `turn_ingress`; `pendingSettlements` in memory | admit, settle, revoke, renew, maintenance, expiry recovery, restart recovery, the steps of a deletion | several processes, crashes, leases that run out under a live owner, late settlements |
| Session deletion, `turn-system/lifecycle/session-turn-deletion.ts`, `session-system/sessions/lifecycle/deletion-gate.ts` | the in-memory gate, the lane | gate, block, quiesce, mark, check, erase, clean up, complete | it spans a dozen awaits and any number of processes |
| Operation gate, `turn-system/lifecycle/session-operation-gate.ts` | a map from session to a state object | permits, exclusive lease, drains, block, release, forgetting | promises resolved by whoever leaves last; holders of forgotten objects |
| Turn submission, `turn-system/execution` | `PendingSubmissions`, the controller's entry | submit, submitTrusted, requestCompaction, interrupting handoff, abort, settlement | a stop, a handoff or a deletion at every await; every call may fail |
| Queue dispatcher, `turn-system/queue.dispatcher.ts`, `queued-turn-completion.ts` | wake counters, blocked sessions, running drains, the registry of callers who wait | dispatch, continue, quiesce, recover, close; register, cancel, begin, settle | lost wakes, claims and waiters nobody settles, acknowledgements that fail twice, stops that come during a delivery |
| Steering, `turn-system/execution/turn-controller`, `.../steering`, `agent-host/execution/user-input-control.ts` | buffer, identities and claims of the entry; tracked batches, attempts in flight | accept, poll, acknowledge, restore, close, seal, abort; commit, requeue, retry, drain | each accepted message once, in order, across aborts, failing writes and a shutdown |
| Keyed operation lane, `packages/shared/src/keyed-operation-lane.ts` | tail promise per key | acquire, release | forgetting a key |
| Producers: cron, goals, background tasks, user-stop cascade | schedules, suppression windows | fire, deliver, suppress | delivery racing a stop |
| Infrastructure: runtime owner lease, event bus, SSE, scheduler, database | owner files, rings | acquire, renew, publish | process identity, slow subscribers |
| Everything else: agent core, tools, MCP, plugins, browser, OAuth, TUI | their own | their own | see [below](#what-is-not-modelled) |

What makes each of the first seven correct is stated in the comments of the
properties at the end of its module; the hazards behind them are listed, each at
its line, in `PROJECT.json`.

## Modules and the code

### SessionQueue

One session's rows in `queue/repo/drizzle.ts` (every query filters by session).
An action is one IMMEDIATE transaction, with all the side work the code does in
it: expired rows swept, the pause reconciled, the facts for subscribers
collected. An operation that throws rolls back and is no step.

| TLA+ | code |
|---|---|
| `row`, `place` | `local_runtime_queue_items`; the autoincrement id, kept as a rank so that it stays bounded |
| `pause` | `local_runtime_queue_pauses` (one `Token` for cause, turn and time) |
| `usedClaims` | that `makeId` returns no claim id twice |
| `receipt` | the rows of `turn_ingress` that name a claim, which recovery consults |
| `view` | a subscriber that folds the published facts and never reads the table |
| `EnqueueReplay`, `EnqueueInsert` | `enqueue`, split by whether `findByClientRequest` or the dedupe key finds a row |
| `ClaimNext(selection, exclude, i, c)` | `claimNext` with its three selections |
| `RecoverAcknowledges`, `RecoverReleases` | the two outcomes of `recoverClaims` for a claim that is not active |
| `TurnAccepted`, `DirectTurnAccepted`, `TurnSettled`, `TurnRevoked` | what `turn-priority-fence.ts` does to the pause inside a Turn's own transaction |
| `Passes` | a deadline passes |
| `here`, `held`, `ahead` | what a dispatcher knows of the rows: who waits or is claimed, who is claimed, who is in front of whom |

The abstract module `PromptLine` is the contract between the repository and its
dispatcher: a line that prompts join at the end, at the front or in the place of
another one, in which one at a time is held and keeps its place. `SessionQueue`
implements it under the mapping above, in which row ids, ranks, sweeps and
reinsertions are gone; `QueueDispatch` implements it with prompts that are numbered
in queue order.

### TurnLease

One session's lock and receipts under several runtime processes. A durable step
is one transaction of one runtime; what a runtime keeps in memory (`held`,
`stuck`, `pending`, `maint`, `gate`, `phase`) is lost with `Crash`. A restarted
process is another member of `Runtime`. The recoveries are functions on the pair
of stored lock and receipts (`AfterPending`, `AfterExpiry`,
`AfterDeletionExpiry`), composed as the repository composes them within one
transaction. `RenewLost` is the timer of an execution that outlives its lock: it may
renew after the lock became a deletion's, and gives that lock a deadline (see the
finding `fence`).

`TurnLeaseDeletion` says what a deletion may rely on in spite of it. It adds one
history variable to TurnLease: `undercut` remembers that a deletion's lock whose
deadline had passed was taken for over. Nothing is excluded: `DeletionIsQuiet` and
`NoOrphanTurnData` hold with late renewals, crashes and takeovers until that happens,
and promise nothing afterwards, since the code does not. `HalfErasedStaysShut` needs
no history; it is an action property and names the passed deadline itself.

The abstract module `SessionOwner` is what everybody else may know of the lock and
the receipts: a turn owns the session, or somebody who keeps turns out, or nobody;
the owner stays until it gives the session back or has *lapsed* (its lease has run
out, its process is gone, or its settlement failed), and a turn ends once.
`TurnLease` implements it under the mapping `owner`, `life`, `lapsed`, in which
processes, owner ids, deletion marks and pending settlements are gone.

### SessionOperationGate

`session-operation-gate.ts` with its state *objects* explicit: a permit and a
lease remember the object they were taken on, the map may forget it and create
another. Nothing in the model ties them together but the code's own steps;
`LeaseNotLost` and the invariant `HoldersShare` are what the order of those steps
achieves. The deletion lane is here as the gate sees it.

### TurnSubmission

EXTENDS the gate and adds the submissions of `turn-execution.service.ts`, the
settlement of `execution.coordinator.ts` and the entry of
`turn-controller/turn.controller.ts`. Every `await` ends a step, and a check and
the synchronous code after it are one step. `pc` names the await at which a
submission stands:

    new -> [handoff: fencing -> draining -> interrupting ->] checking -> preparing
        -> committing -> delivering -> held -> running -> settling -> settled -> over
    failures:  preparing -> refused | threw (the call rejects)
               committing, delivering -> revoking | failing
               delivering -> settling (the start of the registered turn throws)
               revoking -> refused | threw | failing
               failing -> failed | stranded (both settle attempts threw)
               settling -> unsettled (likewise)
               unsettled, stranded -> recovered (the next admission, or the
               deletion of the session, settles it)

The lock is its holder only: a submission, somebody else, or nobody; how it gets
there is TurnLease's subject, and `SessionOwner` is what the two have in common:
both implement it, so that the lock the submissions assume is the one the
repository gives. A submission's preparation is one participant: `none`, `ready`,
`committed`, `restored`, or `kept` when the rollback or the compensation threw. The
code folds a failed compensation into the turn's failure and does not try it again
(`compensateStartedPreparation`). A submission that prepares
nothing goes the way of one whose commit succeeds. `calls` are the submissions
whose call is inside its try/finally; `enrolled` are those of them that a stop finds.

The settlement of a stranded turn belongs to the next admission or deletion. One
that recovers it and is then refused all the same is in TurnLease only
(`AdmitRefused`).

**Composition.** `TurnSubmission` EXTENDS `SessionOperationGate` and acts on the gate
only through its actions, so that it implements `GateSpec` by its shape; the lemma
`ImplementsGate` says no more than that and serves to inherit the gate's theorems.
What is not there by shape is whether the *callers* keep their side: each must take
its permit or lease once and give it back once, on every path, and the gate cannot
see whether they do. That is `GateCountsCalls`: the gate's count is the number of open
calls of submissions and compactions, and its lease is that of the handoff whose call
is open and was not stopped. `HandoffIsAlone` and `DeletionDrainsSubmissions` need
both halves.

### QueueDispatch

How the prompts of one session get from the queue to a Turn. Two *flows* may hold
a claim: the drain, of which there is one at a time and which any number of
callers ask for, and a continued dispatch, which ignores a pause. Every `await`
of `queue.dispatcher.ts` between the claim and its settlement ends a step, and
`flow[f].pc` names it:

    idle -> [recover ->] claim -> got -> classify -> prepare -> admit -> deliver
         -> acked -> (next pass | ending -> idle)
    got, classify, prepare, admit, deliver -> write -> (next pass | ending | idle)

| TLA+ | code |
|---|---|
| `row`, `accepted`, `paused` | the queue's rows with their claims, the receipt of the present claim, the pause; SessionQueue has all of them |
| `flow`, `yielded`, `recover` | the drain and the continued dispatch in progress, the skipped rows of a pass, `recoverBeforeNextClaim` |
| `uncovered` | the callers whose wake is newer than the pass that started last: `startedWake < wake` without counters |
| `Ask`, `Resume`, `Await` | the loop of `dispatch` |
| `Pass`, `EndPass`, `Finish` | the loop of `drain`, and `drainAndRelease`, which clears `state.running` a moment later |
| `Claim`, `Got` | `claimNextIfOpen`, which looks again after the claim |
| `Classify`, `Prepare`, `Admit`, `Rejected` | `settleClassifiedClaim`, `executeClaim`, `settleExecutedClaim` and its helpers, with the admission's own look at the queue (`claimedQueueItemBlocks`) |
| `Acknowledge`, `Start` | the delivery behind the start fence (`user-message-turn-delivery.ts`) and the acknowledgement with its one retry |
| `Decide`, `Write` | what a flow has decided to do with its claim, and the write that does it or fails |
| `handle`, `cancel`, `told` | the entries of `queued-turn-completion.ts`; `told` is what the stop's caller was answered (`initialize.ts`) |
| `BeginDeletion`, `Erase`, `Close`, `Crash` | the deletion's block and quiescence, the shutdown, the end of the process |

A prompt's turn is one record (`fenced`, `doomed` by a stop, `running`, ...); what
happens in it is TurnSubmission's subject. Classification, policies and every
database write may answer or fail in any way the code allows for; whether a claim
outlives its 30 s lease is a choice. The quiescence of a deletion appears as the
guard of `Erase`. The outcomes a waiter may be given are one, `settled`.

Two abstract modules state what others rely on. `PromptDelivery` is the life of a
prompt as its sender sees it: waiting, offered by one dispatch at a time, taken by
a Turn, run at most once. `DrainWakes` is the contract of a dispatch call: it is
answered after a pass that was begun with the call known. `QueueDispatch`
implements both, under the mappings `prompt` and `call`. A third one, `PromptLine`,
states what `QueueDispatch` may ask of the queue, and SessionQueue implements it.

### TurnSteering

One running Turn, from the first message it accepts to the place where the last
one ends up. What a Turn leaves unread makes at most two batches: `left`, what
still waited when the Turn closed, was aborted or was sealed, and `held`, what the
host's last poll gave back after an abort.

| TLA+ | code |
|---|---|
| `phase`, `steering`, `accepted` | the controller's entry; the two reasons of an abort that matter later are phases |
| `host`, `hands`, `exit`, `refused` | the polls of `pi-turn-runner/events.ts` and `user-input-control.ts`; the claims of the entry are what the host has in its hands |
| `Steer`, `Poll`, `Restore`, `TryClose`, `Seal`, `AbortEntry` | `steer`, `drainSteering`, `restoreSteering`, `tryBeginClose`, `sealAbnormalTerminal`, `abortEntry` |
| `Consume`, `PollThrows` | `getSteeringMessages`, with the rule of the exit boundary |
| `coord` | `settleAndRelease`: pre-release commit, settlement, release |
| `batch`, `task`, `written` | `pending` and `inflight` of `createSteeringRequeue`; what the attempt in flight has reported committed |
| `WriteRow`, `WriteFails`, `CommitDone` | `steering-teardown-commit.ts`, message by message; a write may throw although it was made |
| `Enqueue`, `Pause` and their failures | `persistRequeue`: the row first, the pause after it. A row that was taken and consumed meanwhile is inserted again; on one that is only claimed the replay throws (`EnqueueFails`). `taken` is both, so the model allows more |
| `lane`, `LaneGoesOn` | the detached continuations started by `discard` |
| `Shutdown`, `DrainGoesOn` | `close` of the controller and `drain`, which begin in the same instant |
| `fell`, `unsure`, `row`, `paused`, `wake` | the conversation and the queue as far as they matter |

The abstract module `MessageFate` says what may become of a user's message: the
Turn holds it until it is read, in the conversation, or in the queue, and it gets
to one of these only, except that a write that does not tell whether it was made
may leave a duplicate. `TurnSteering` implements it under the mapping `place`.
Messages are numbered by the time they were sent; a steered batch of several
prompts is one message; a conversation row stands for its display and its
canonical part. Where several continuations wait for the same attempt the model
lets them go on in any order, which allows more than the microtask queue does.

## Runs

Each run is checked by `tlc -config <cfg> <module>`. Every property of a passing
run has a mutant in `PROJECT.json`: a plausible slip in a mapped definition under
which TLC finds that property violated with the run's own bounds. This is the
evidence that the bounds are large enough for the properties to bite.

| run | shows | bounds and why they suffice |
|---|---|---|
| `queue` | one claim, no pause without work, facts tell the table, one row per request, order changes only on request, nothing overtakes a claimed row, the table is a `PromptLine` | 3 items (an order needs two that stay and one that moves), 2 claims (an old and a new one), one request, one key, one pause token, messages that expire and that do not, front and back, requeues with and without a claim; items and claims symmetric |
| `lease` | lock and receipts together, the owner runs the accepted turn, live leases are safe, the lock and the receipts are a `SessionOwner` | 2 runtimes, 2 turns, two owner ids for one runtime and one for the other (an id in the lock, one that a lost execution still has, one to grant); ids are reused only when nothing refers to them (1.8 million states) |
| `deletion` | nothing is accepted between quiescence and the end of a deletion, no receipt survives, what is half erased stays shut (`MCTurnLeaseDeletion`) | 3 runtimes with an owner id each, so that two delete and a third admits, renews late or recovers. States in which a deletion was undercut are checked but not taken further (CONSTRAINT `Intact`): the two invariants are vacuous from there on, since `undercut` stays |
| `gate` | a drain means alone, no lease lost, no idle entry kept | 3 callers, 2 handoffs, 3 objects: an old object, the map's object and a fresh one |
| `submission` | the six safety properties of the submissions, `GateCountsCalls` and `SessionOwner` | one of each kind that behaves differently: a compaction (takes a permit, never enrolled), a handoff (takes the lease, enrolled), a trusted submission (past the gate, enrolled); stops, deletions and other owners any number of times (5.2 million states). An ordinary submission is what a compaction is to the gate and what a trusted one is to the rest; it is in `submission_live`. One object is enough: the gate's invariant proves that every holder's object is the map's |
| `submission_live` | every submission ends, every waiting deletion gets the gate | an ordinary submission and a handoff |
| `dispatch` | at most one offer and one run per prompt, no leaked claim, no forgotten waiter, an answered stop holds, the queue is used as a `PromptLine` | 2 prompts, one with a waiting caller (one that is skipped or stopped and one behind it), 1 asking caller, both flows; stops, failures, recoveries, crashes and shutdowns any number of times; runs counted up to 2, one more than allowed (1.5 million states) |
| `dispatch_wakes` | a dispatch call is covered by a pass, every call returns, rest is rest | 1 prompt, 2 callers: the second's wake meets the end of the drain the first asked for |
| `steering` | one fate per message, order, machine input read, stopped messages parked | 2 messages of the user, so that one can be restored behind a later one, and 1 of a machine (1.5 million states) |
| `steering_live` | every batch is saved or given up after every way failed | 2 messages of the user: two batches, one for each |
| `fence`, `steering_lost` | the disagreements under [findings](#findings), one property each | the smallest instance in which they occur |

The type invariants, `BlockedMeansIdle` and `TerminalIsFinal` (which `SessionOwner`
implies) are theorems; the runs leave them out.

Deadlock checking is off, except in the gate's run, because the modelled
system may stop: every runtime may be dead, every submission done, every claim id
used.

## Fairness

Three runs assume some; what may fail, stop or come from outside never has to.

`submission_live`: weak fairness of `Advance(s)` and `Return(s)`. The runtime
resumes a submission whose awaited promise has settled, repository calls settle,
the wait for a handoff's drain has a timeout (`waitForHandoffDrain`), a start
fence is released or failed, and a host run ends in an outcome. The event loop
gives the first; the others are what the awaited calls promise. Nothing is assumed
of stops, deletions or other runtimes.

`dispatch_wakes`: weak fairness of the drain's steps (`Dispatch("drain")`,
`RecoverPass`, `Finish`) and of each caller's `Resume`: each is the continuation
of an await of a call that settles, in success or in failure. That a drain ends at
all is not assumed: a pass is repeated only for a wake or after a row was taken
out or skipped. Deletions, shutdowns, stops and new calls are free.

`steering_live`: weak fairness of the host's steps, of the coordinator's, of each
attempt, lane and the drain, for the same reason; that the host notices an abort
(`Aborted /\ HostFails`), since its signal ends the model call; and strong fairness
of the last poll and of the end after a close, because stop hooks may make the
host go on only `MAX_PLUGIN_STOP_CONTINUATIONS` (8) times, which the model does
not count. Whether a write succeeds, and whether the repository settles the
Turn, is free: `HandedOver` allows for both.

Weak fairness is enough elsewhere because a step, once enabled, stays enabled
until it is taken or replaced by another of the same actor.

## Proofs

TLAPS proves the following for every value of the constants, from the named
assumptions of the modules only (finite sets of items and callers, `None`
outside the sets it stands beside, disjoint kinds of submissions).

**SessionQueueProofs** — `QueueTyped`, `QueueOneClaim`, `QueuePauseNeedsWork`,
`QueueFactsTell`, `QueueRequestUnique`, and the action properties
`QueueOrderRequested` and `QueueClaimLeads`, and the refinement
`ImplementsPromptLine`. The inductive invariant `QueueInv`
is the conjunction of the five invariants, which are proved together: the facts
tell the table only if the rows that expire, are displaced or are replaced are
known, and those are known from the well-formedness of the table before the
step. Every operation hands its new rows, order, pause and facts to one lemma,
`TransactionKeeps`; `Derived` says what the withdrawals, which all operations
share, may do to a table. For the order, `RankedOrders` shows that ranking rows
by an id keeps the id's order; all operations but a reorder and an enqueue rank
by the places there were (`OrderKept`), and `FrontBehindClaim` shows what a front
placement does to a claimed row. `QueueClaimLeads` assumes `RestoredToFront`:
the only caller that restores an identity, `toRequeueInput`, asks for the front.
The refinement needs no such assumption. It reasons about the order as a relation
among the rows that are left: `LineRanked` says that ranking does not change it,
`LineNow` what a transaction makes of it, and each operation is then shown to leave,
hold, join, take a place or shuffle (`TableLeaves`, `ClaimHolds`, `FrontJoins`,
`InsertJoins`, `ReorderShuffles`, ...).

**TurnLeaseProofs** — `TypeCorrect`, `LeaseAndTurnAgree`, `OwnerIsTheTurn`,
`EndedOnce`, `LiveTurnKept`, the refinement `ImplementsSessionOwner` with its
consequence `OwnerOwns`, and, of a deletion with late renewals, `QuietUntilErased`,
`NothingSurvives` and `FenceOutlastsTheData`. `IInv` says that the stored pair is `Good`, that the
memories have their types, and that the handle with the lock's id is the accepted
turn's. Because a recovery is a function of the stored pair, one relation,
`Recovered`, covers all of them: nothing changes, or no turn is accepted any
more. `DeletionInv` says that the fence is up from the
quiescence check until the session is gone, and the receipts are gone from the erase
on, unless the deletion was undercut; `FenceStep`, that a fence whose deadline has not
passed comes down by `completeSessionDeletion` alone; `CleanedInv`, what the runtime
that may do that has seen. Under the refinement, a recovery inside an admission is
one step of the contract: `Recovered` of the abstract module is what it leaves of
a lapsed owner's turn.

**SessionOperationGateProofs** — `GateTyped`, `BlockExcludes`, `DrainExcludes`,
`LeaseStays`, `NoIdleEntry`. `GateInv` says that all holders share the map's
object, that its `active` is the *cardinality* of the set of holders, that its
`mutation` is the held lease, and that the resolved promises tell the truth.
`WaitersHaveHolders` needs `Awaited` besides, which says it of the object's count
and token: whoever leaves last settles whoever waits.

**TurnSubmissionProofs** — `ImplementsSessionOwner` with `OwnerOwns`,
`GateCountsOpenCalls`, and the six safety properties of the run. `PlaceInv` says of every place in the code whether a submission that
stands there has the lock (exactly those in `Owning`), the entry and its
preparation; `HoldInv` says that whoever is under way holds its permit or lease.
With `GateInv`, inherited through the lemma `ImplementsGate`, `HandoffAlone` and
`DeletionAlone` follow. `CallInv` says that a permit is there exactly as long as its
call is open, and a lease exactly as long as its call is open and not stopped: one
step of the proof per way in and out. `GateCountsOpenCalls` follows from it and from
`GateInv`, which makes the count a cardinality; so does `WaitersHaveCalls`.

**QueueDispatchProofs** — `Typed`, `CancelledPromptsNeverStart`, `ClaimsAreHeld`,
`WaitersAreAttached`, the action property `QuietAfterStop`, and three refinements,
`ImplementsDrainWakes`, `ImplementsPromptDelivery` and `ImplementsPromptLine`, for
any set of numbered prompts and any callers. The inductive invariant `DispInv` (theorem `Invariant`)
adds to the promises what they hang on: `FlowInv`, what each flow holds at each
await; `OneClaim`, that one row is claimed; `RowInv`, which receipts and failed
writes a row can have; `TurnInv`, that a fenced Turn belongs to the flow that is
delivering it; `CancelInv`, that a recorded stop and an answered one agree until
the Turn is registered. At most one run needs all of them at once: a row that
went back to the queue while its Turn waited behind the fence would be run twice,
were that Turn not known to be the one the failing flow is about to fail. One
lemma per action shows that it keeps the invariant; a refinement has one more per
action, which names the abstract step it makes. For the line of prompts that is
nearly always `Leave` (`OnlyLeave`, `OthersOnlyLeave`); a new prompt joins the end
because prompts come in the order of their numbers (`PromptsNumbered`). The
contract's own promises are drawn from it: `PromptsRunOnce` and
`TakenPromptsStayAway`. `CallersHaveADrain` adds `AwaitDrain` to `DispInv`.

**TurnSteeringProofs** — `Typed`, `MachineMessagesAreRead`, `RowsKeepSendOrder`,
`StoppedMessagesArePaused` and the refinement `ImplementsMessageFate`, for any
sets of messages. `SteerInv` (theorem `Invariant`) has `HoldInv`, where a message
can be while the entry lives; `PhaseInv`, what host, entry and coordinator may be
at together; `BatchInv` and `AttemptInv`, what a batch's route, attempt and lane
say of each other; `MachineInv`; `OrderInv`, that what is written before the
release is older than everything a merged commit has left; and `ParkInv`, that an
enqueued row of a stopped message is settled only behind its pause. The order is
proved of sequences by their indices; nothing is folded. `MessagesHaveOnePlace`
and `OnlyUnstartedTurnsForget` are what the contract comes to: a message of the user
has one place, and the failure that the run `steering_lost` shows is the only way to
lose one. `BatchesHaveATry` is inductive as `Tended`: a lane that has come to its
last try has made the requeue the batch's way.

**Only model-checked**: the liveness properties `SubmissionEnds`, `BlockEnds`,
`WakesAnswered` and `HandedOver`, since liveness under fairness and ENABLED are
out of the prover's reach, and the findings. Their safety part is proved: nobody
waits for nobody (`WaitersHaveHolders`, `WaitersHaveCalls`, `CallersHaveADrain`,
`BatchesHaveATry`), so what is left to fairness is that a step which is there is
taken. What these four state, and the consequences `OwnerOwns`, `PromptsNumbered`,
`PromptsRunOnce`, `TakenPromptsStayAway`, `MessagesHaveOnePlace` and
`OnlyUnstartedTurnsForget`, no run checks: the runs check the contracts and the
liveness they belong to. No module
has a RECURSIVE operator, and nothing rests on an induction over data. Every
other property of a passing run is also a theorem.

## Findings

Each is a run with one property, taken from a sentence or an assertion of the
repository, that the modelled code violates. `PROJECT.json` has the details.

- `fence`: `renew` extends a lock whose owner id matches without looking at the
  owner kind. A deletion's lock promoted from a turn keeps the turn's id, so the
  renewal timer of a turn whose settlement failed twice gives it a deadline,
  although `DELETION_FENCE_EXPIRES_AT_MS` is the largest integer there is.
- `steering_lost`: a Turn accepts steering from its registration on, and its host
  starts only when the start fence opens. If the fence fails,
  `settlePreHostFailure` settles and releases the Turn without the host's seal,
  and `complete` clears the buffer without handing it over: a message that was
  answered "accepted" is gone, although "no admitted message is ever dropped"
  (`steering-requeue.ts:28`). `MessageFate` names this one way out (`Forgotten`).

## Observations

Behaviour of the code that the models have, that a reader may not expect, and that
no property claims or denies.

- A retried front requeue of a row that a dispatcher has claimed meanwhile is not
  absorbed, as the comment at `steering-requeue.ts:449` says, but fails its
  transaction on the unique index (`queue/repo/drizzle.ts:650`; the throwing case
  of `EnqueueReplay`).
- A turn whose start fence fails keeps the preparation that was committed for it,
  while one whose start throws compensates it (`execution.coordinator.ts:97`,
  `turn-execution.service.ts:704`). A compensation that throws itself is reported
  with the turn's failure and not tried again: the preparation is then still
  committed (`turn-execution.service.ts:716`; `kept`).
- The row of a stopped message whose pause failed on every try is in the queue all
  the same, unpaused, and the next wake dispatches it: its batch counts as not
  committed, and `StoppedStaysParked` is about batches that count as settled
  (`steering-requeue.ts:453`).
- A deletion that meets an expired, unmarked maintenance lock asks for an accepted
  turn, and the assertion that there is one fails (`turn.repository.ts:884`, 929;
  `NeedsTurn`).
- The contract of the restart recovery says a deletion is never resumed
  (`persistence/contracts.ts:141`); the recovery takes over a dead runtime's
  deletion lock and reports the session for resumption
  (`turn-lease-recovery.ts:133`; `RecoverProcessRestart`).
- The second deletion of an absent session opens the gate without having closed it
  (`session-turn-deletion.ts:35`), and the assertion at
  `session-operation-gate.ts:89` fires when a submission is inside (`DeleteAbsent`,
  `Busy`).
- A stop that names no turn waits for the cascade and then aborts whatever is
  registered, also a turn submitted after the stop (`turn-execution.service.ts:116`),
  although the comment at line 311 says the next request still starts
  (`StopAborts`).
- When both acknowledgements of a delivered row fail, its claim is settled like a
  thrown one: the row goes back to the queue and is delivered again, to another
  Turn, while the first one ends at its failed fence (`queue.dispatcher.ts:403`,
  571). The recovery that the drain asks for is its own: a continued dispatch may
  claim the row before it.
- A caller that was told "aborted" for a Turn that had just been accepted gets the
  prompt back uncancelled if that Turn's delivery fails before the acknowledgement:
  the registration has consumed the request (`told = "undone"`). The request is in
  memory only; a crash forgets it.
- A shutdown during a delivery lets the accepted row be consumed by a Turn that is
  refused at its registration (`turn.controller.ts:75`): the prompt is neither run
  nor kept.
- A waiter may be told that its Turn failed although its row went back to the
  queue and is run later, because the outcome belongs to the Turn and not to the
  prompt.
- `blockedSessions` of the dispatcher is never cleared: a session that is deleted
  once is never dispatched again by that process, also when its deletion failed.
- The shutdown's drain begins in the same instant as the aborts, and takes the
  batches that are pending by then. What the host still had in its hands is
  discarded later and only the commit before the release saves it.
- The drain goes through its snapshot of batches even when one was settled
  meanwhile, and writes or enqueues it again; identities in the conversation and in
  the queue absorb that as long as the row has not been taken.
- A Turn whose settlement fails keeps its batches pending until the shutdown.

## What is not modelled

- Within the modelled components: receipts of steering messages, lock owners of
  releases before runtime ids, `recoverExpired` (no caller by itself),
  `replaceSession` (no caller), one-time row migrations, `steerActiveTurn`, and
  the order in which several preparation participants commit and roll back.
- Of the dispatcher: send-now claims (the `exact` selection), whose workflow is
  its own, and a submission answered as a duplicate, for which one claim would
  have to be submitted twice. The recoveries that a quiescence waits for are not
  told apart from those it does not.
- Of steering: the tool-result tail, to which nothing steers, the order in which
  the buffer is given to the model, the promotion to foreground, and send-now rows
  whose claim the queue still holds. A crash forgets everything here by design.
- A turn that loses its lease while it runs is in TurnLease, not in
  TurnSubmission, whose lock changes hands only through its holder.
- SQLite itself: an IMMEDIATE transaction is one step, as the driver gives it.
  Disk loss and clock jumps are outside.
- Model calls, tools, MCP, plugins, browser, channels, TUI: each is an outcome
  to the parts modelled here, or does not touch their state. `PROJECT.json` lists
  all components, each with its reason. Vendored code (`third_party`) is not
  modelled.

- How much of the repository this is: about 0.5 % of its 671 000 lines. Two thirds
  of them are user interface, tools, configuration, protocol adapters and vendored
  code, and much of the rest reads, formats and forwards. The share that keeps
  state across awaits, processes and failures, which is what these models are
  about, is mostly `local-runtime-v2/src/service`, and within it the queue and Turn
  systems are the core.

## Plan

Done, in this order: SessionQueue, TurnLease, SessionOperationGate,
TurnSubmission, QueueDispatch, TurnSteering, each with its proofs.

1. `KeyedLane`: first come, first served; the assumption of the deletion lane
   discharged.
2. `MaintenanceLane` (`history-mutation-capability.ts`) over TurnLease's
   maintenance lock; the order of preparation participants.
3. The send-now workflow: exact claims, injection into a running Turn, and the
   fallback to the queue, which joins QueueDispatch and TurnSteering.
4. Producers and infrastructure: the user-stop cascade's suppression windows,
   the scheduler, the owner lease, the SSE ring.
5. Proofs: the contracts between the modules are proved on both sides for the gate,
   the ownership of a session and the line of prompts. Left are a contract for the
   delivery between QueueDispatch and TurnSubmission (a fenced Turn that is run or
   fails once), and one for the rows that TurnSteering gives back to the queue.
