---------------------------- MODULE TurnSteering ----------------------------
(***************************************************************************)
(* Messages for a Turn that is already running ("steering"), from their    *)
(* acceptance to the place they end in:                                    *)
(*   turn-controller/turn.controller.ts    the buffer and its closing      *)
(*   agent-host/execution/user-input-control.ts    the host's polls        *)
(*   execution/execution.coordinator.ts    settlement and release          *)
(*   execution/steering/steering-requeue.ts    what happens to the rest    *)
(* for one Turn of one session. A step runs from one await to the next.    *)
(*                                                                         *)
(* What a Turn leaves unread makes at most two batches: what still waited  *)
(* ("left") and what the host's last poll held and gave back after an      *)
(* abort ("held"). A batch is requeued, or written to the conversation     *)
(* and requeued only when that keeps failing. Abstracted:                  *)
(*  - messages are numbered by the time they were sent (createdAt); a      *)
(*    steered batch of several prompts is one message; the order in which  *)
(*    the buffer gives them to the model is left out;                      *)
(*  - the claims of a poll are the messages in the host's hands;           *)
(*  - a row of the conversation stands for its display and its canonical   *)
(*    part; the queue is the rows of the two batches and its pause.        *)
(* Left out: the tool-result tail, which nothing steers to, send-now rows  *)
(* the queue still holds a claim for, and a crash, after which nothing of  *)
(* this is recovered.                                                      *)
(***************************************************************************)
EXTENDS Naturals, Sequences, FiniteSets

CONSTANTS User,     \* messages of the user
          Machine   \* messages of other producers

ASSUME SteeringAssumption ==
  /\ User \subseteq Nat
  /\ Machine \subseteq Nat
  /\ User \cap Machine = {}

Message == User \cup Machine
Batch   == {"left", "held"}

VARIABLES
  phase,     \* of the controller's entry; "gone" once it is released
  steering,  \* entry.steering
  accepted,  \* entry.steeringIdentities
  host,      \* what the agent host is doing
  hands,     \* what its poll has claimed
  exit,      \* is that poll at the exit boundary
  refused,   \* has the close just been refused
  early,     \* the start fence failed: the host never ran
  coord,     \* settleAndRelease of the execution coordinator
  read,      \* messages the model has been given
  fell,      \* rows the teardown wrote to the conversation
  unsure,    \* those of them it was not told of
  batch,     \* TrackedDiscard, and whether it is pending
  task,      \* the attempt in flight for a batch
  written,   \* what the attempts in flight have reported
  lane,      \* the detached continuation of each batch
  drain,     \* the shutdown's drain
  row,       \* the queue row of each batch
  paused, lifted,  \* the queue's pause; has the user lifted it
  wake       \* the wake of the queue for each batch

entry   == <<phase, steering, accepted>>
runner  == <<host, hands, exit, refused, early>>
texts   == <<read, fell, unsure>>
tracked == <<batch, task, written, lane>>
queue   == <<row, paused, lifted, wake>>
vars    == <<entry, runner, coord, texts, tracked, drain, queue>>

Aborted == phase \in {"user-stop", "abort"}
Members(s) == {s[k] : k \in 1..Len(s)}

NoBatch == [st |-> "none", msgs |-> {}, cause |-> "none", route |-> "none"]

Init ==
  /\ phase = "running"
  /\ steering = {}
  /\ accepted = {}
  /\ host = "fence"
  /\ hands = {}
  /\ exit = FALSE
  /\ refused = FALSE
  /\ early = FALSE
  /\ coord = "host"
  /\ read = {}
  /\ fell = <<>>
  /\ unsure = {}
  /\ batch = [b \in Batch |-> NoBatch]
  /\ task = [b \in Batch |-> "none"]
  /\ written = {}
  /\ lane = [b \in Batch |-> [at |-> "none", waits |-> FALSE]]
  /\ drain = [pc |-> "no", todo |-> <<>>, on |-> {}]
  /\ row = [b \in Batch |-> "none"]
  /\ paused = FALSE
  /\ lifted = FALSE
  /\ wake = [b \in Batch |-> "none"]

-----------------------------------------------------------------------------
(* The controller's entry *)

(* Users' messages are tracked, others dropped. A requeue starts at once   *)
(* and its lane waits for it; a teardown waits for the coordinator.        *)
Discard(b, msgs, cause) ==
  LET users == msgs \cap User
      route == IF cause = "exit-close" THEN "requeue" ELSE "teardown"
  IN IF users = {}
     THEN UNCHANGED <<batch, task, lane>>
     ELSE /\ batch' = [batch EXCEPT ![b] =
                [st |-> "pending", msgs |-> users, cause |-> cause, route |-> route]]
          /\ task' = [task EXCEPT ![b] = IF route = "requeue" THEN route ELSE "none"]
          /\ lane' = [lane EXCEPT ![b] =
                [at |-> "parked", waits |-> route = "requeue"]]

(* A message whose identity the Turn knows is accepted without effect.     *)
Steer(m) ==
  /\ phase = "running"
  /\ m \notin accepted
  /\ steering' = steering \cup {m}
  /\ accepted' = accepted \cup {m}
  /\ UNCHANGED <<phase, runner, coord, texts, tracked, drain, queue>>

(* abortEntry: a user's stop, a lost lease or, in Shutdown, the runtime.   *)
AbortEntry(cause) ==
  /\ phase' = cause
  /\ Discard("left", steering, cause)
  /\ steering' = {}
  /\ UNCHANGED accepted

Abort(cause) ==
  /\ phase = "running"
  /\ AbortEntry(cause)
  /\ UNCHANGED <<runner, coord, texts, written, drain, queue>>

-----------------------------------------------------------------------------
(* The host *)

StartHost ==
  /\ host = "fence"
  /\ host' = IF Aborted THEN "ended" ELSE "work"
  /\ UNCHANGED <<entry, hands, exit, refused, early, coord, texts, tracked,
                 drain, queue>>

FailStart ==
  /\ host = "fence"
  /\ host' = "ended"
  /\ early' = TRUE
  /\ UNCHANGED <<entry, hands, exit, refused, coord, texts, tracked, drain, queue>>

(* A poll claims everything that waits, between two steps of the model or  *)
(* after the last one (exit).                                              *)
Poll(atExit) ==
  /\ host = "work"
  /\ ~Aborted
  /\ refused => atExit
  /\ host' = "poll"
  /\ exit' = atExit
  /\ hands' = steering
  /\ steering' = {}
  /\ UNCHANGED <<phase, accepted, refused, early, coord, texts, tracked, drain, queue>>

(* restoreSteering: back to the buffer, or handed over after an abort.     *)
Restore(rest) ==
  /\ hands' = {}
  /\ UNCHANGED <<phase, accepted>>
  /\ IF Aborted
     THEN Discard("held", rest, phase) /\ UNCHANGED steering
     ELSE steering' = steering \cup rest /\ UNCHANGED <<batch, task, lane>>

(* At the exit boundary users' messages are put back unread. A plugin that *)
(* stops the prompt puts everything back.                                  *)
Consume(stops) ==
  LET deferred == IF exit THEN User ELSE {}
      taken    == IF stops THEN {} ELSE hands \ deferred
  IN /\ host = "poll"
     /\ stops => hands \ deferred # {}
     /\ read' = read \cup taken
     /\ Restore(hands \ taken)
     /\ host' = IF exit /\ taken = {} THEN "answer" ELSE "work"
     /\ refused' = (refused /\ taken = {})
     /\ UNCHANGED <<exit, early, coord, fell, unsure, written, drain, queue>>

(* Preparing or recording a message throws: everything is put back.        *)
PollThrows ==
  /\ host = "poll"
  /\ Restore(hands)
  /\ host' = "failing"
  /\ UNCHANGED <<exit, refused, early, coord, texts, written, drain, queue>>

Close ==
  /\ phase' = "closing"
  /\ Discard("left", steering, "exit-close")
  /\ steering' = {}
  /\ host' = "closed"
  /\ UNCHANGED refused

(* Mutant: nothing holds the close. *)
NeverHeld == FALSE

(* Messages with no way back to the queue hold the close.                  *)
HoldsClose == steering \cap Machine # {}

(* tryBeginClose; a second refusal in a row fails the Turn.                *)
TryClose ==
  /\ host = "answer"
  /\ \/ /\ Aborted
        /\ host' = "failing"
        /\ UNCHANGED <<entry, refused, batch, task, lane>>
     \/ /\ ~Aborted
        /\ HoldsClose
        /\ host' = IF refused THEN "failing" ELSE "work"
        /\ refused' = TRUE
        /\ UNCHANGED <<entry, batch, task, lane>>
     \/ /\ ~Aborted
        /\ ~HoldsClose
        /\ Close
        /\ UNCHANGED accepted
  /\ UNCHANGED <<hands, exit, early, coord, texts, written, drain, queue>>

(* After the close: a stop hook lets the host go on, or the Turn completes *)
(* or fails at its end.                                                    *)
AfterClose(next) ==
  /\ host = "closed"
  /\ host' = next
  /\ refused' = FALSE
  /\ UNCHANGED <<entry, hands, exit, early, coord, texts, tracked, drain, queue>>

HostFails ==
  /\ host = "work"
  /\ host' = "failing"
  /\ UNCHANGED <<entry, hands, exit, refused, early, coord, texts, tracked, drain, queue>>

(* sealAbnormalTerminal, before the terminal event of a failed or aborted  *)
(* run is delivered.                                                       *)
Seal ==
  /\ host = "failing"
  /\ host' = "ended"
  /\ Discard("left", steering, IF Aborted THEN phase ELSE "abnormal-seal")
  /\ steering' = {}
  /\ phase' = IF Aborted THEN phase ELSE "closing"
  /\ UNCHANGED <<accepted, hands, exit, refused, early, coord, texts, written,
                 drain, queue>>

-----------------------------------------------------------------------------
(* Settlement: the batches of a teardown are committed as one, for at most *)
(* two seconds; then the repository settles the Turn and the controller    *)
(* drops the entry, or the settlement fails and the entry stays.           *)

Teardowns == {b \in Batch : batch[b].st = "pending" /\ batch[b].route = "teardown"}

CommitBeforeRelease ==
  /\ coord = "host"
  /\ host = "ended"
  /\ coord' = "commit"
  /\ task' = [b \in Batch |-> IF b \in Teardowns /\ task[b] = "none"
                              THEN "merged" ELSE task[b]]
  /\ UNCHANGED <<entry, runner, texts, batch, written, lane, drain, queue>>

Release ==
  /\ coord = "commit"
  /\ coord' = "done"
  /\ phase' = "gone"
  /\ steering' = {}
  /\ UNCHANGED <<accepted, runner, texts, tracked, drain, queue>>

SettlementFails ==
  /\ coord = "commit"
  /\ coord' = "stuck"
  /\ UNCHANGED <<entry, runner, texts, tracked, drain, queue>>

-----------------------------------------------------------------------------
(* Attempts to get rid of a batch *)

(* start(key): joins the attempt that runs, or begins one.                 *)
Start(b, route) ==
  /\ batch' = [batch EXCEPT ![b].route = route]
  /\ task' = [task EXCEPT ![b] = IF @ = "none" THEN route ELSE @]

(* The attempt for the batches in S ends and whoever awaits it goes on.    *)
EndAttempt(S) ==
  /\ task' = [b \in Batch |-> IF b \in S THEN "none" ELSE task[b]]
  /\ lane' = [b \in Batch |-> IF b \in S THEN [lane[b] EXCEPT !.waits = FALSE]
                                         ELSE lane[b]]
  /\ drain' = [drain EXCEPT !.on = @ \ S]

(* Mutant: a failed attempt leaves the batch as it was. *)
EndUntrimmed(S) ==
  /\ batch' = [b \in Batch |->
       IF b \notin S THEN batch[b]
       ELSE [st    |-> IF batch[b].msgs \subseteq written THEN "settled" ELSE batch[b].st,
             msgs  |-> batch[b].msgs,
             cause |-> batch[b].cause,
             route |-> batch[b].route]]
  /\ written' = written \ UNION {batch[b].msgs : b \in S}
  /\ EndAttempt(S)

(* The rows that were reported are trimmed; a batch without any other is   *)
(* settled.                                                                *)
EndTeardown(S) ==
  /\ batch' = [b \in Batch |->
       IF b \notin S THEN batch[b]
       ELSE [st    |-> IF batch[b].msgs \subseteq written THEN "settled" ELSE batch[b].st,
             msgs  |-> batch[b].msgs \ written,
             cause |-> batch[b].cause,
             route |-> batch[b].route]]
  /\ written' = written \ UNION {batch[b].msgs : b \in S}
  /\ EndAttempt(S)

Together(b) == IF task[b] = "merged" THEN {c \in Batch : task[c] = "merged"} ELSE {b}
Unwritten(b) == (UNION {batch[c].msgs : c \in Together(b)}) \ written
Oldest(S) == {m \in S : \A n \in S : m <= n}

(* Mutant: each batch in the order it was discarded. *)
NextRowAsDiscarded(b) ==
  LET left == batch["left"].msgs \cap Unwritten(b)
  IN IF left # {} THEN left ELSE Unwritten(b)

(* The merged commit goes by the time of sending, another by its batch.    *)
NextRow(b) == IF task[b] = "merged" THEN Oldest(Unwritten(b)) ELSE Unwritten(b)

Teardown(b) == task[b] \in {"teardown", "merged"}
InConversation(m) == m \in Members(fell)
Written(m) == fell' = IF InConversation(m) THEN fell ELSE Append(fell, m)

WriteRow(b) ==
  /\ Teardown(b)
  /\ \E m \in NextRow(b) :
       /\ Written(m)
       /\ unsure' = unsure \ {m}
       /\ written' = written \cup {m}
  /\ UNCHANGED <<entry, runner, coord, read, batch, task, lane, drain, queue>>

(* A write throws, made or not, and the attempt stops there.               *)
WriteFails(b) ==
  /\ Teardown(b)
  /\ \E m \in NextRow(b) :
       \/ UNCHANGED <<fell, unsure>>
       \/ /\ ~InConversation(m)
          /\ Written(m)
          /\ unsure' = unsure \cup {m}
  /\ EndTeardown(Together(b))
  /\ UNCHANGED <<entry, runner, coord, read, queue>>

CommitDone(b) ==
  /\ Teardown(b)
  /\ Unwritten(b) = {}
  /\ EndTeardown(Together(b))
  /\ UNCHANGED <<entry, runner, coord, texts, queue>>

(* A settled batch is forgotten; one handed back at a close wakes the      *)
(* queue once the Turn is released, one that was stopped stays parked.     *)
EndRequeue(b, ok) ==
  /\ batch' = [batch EXCEPT ![b].st = IF ok THEN "settled" ELSE @]
  /\ wake' = [wake EXCEPT ![b] = IF ok /\ batch[b].cause = "exit-close" /\ @ = "none"
                                 THEN "due" ELSE @]
  /\ EndAttempt({b})

(* The row of a user's stop is enqueued first and the queue paused then. A *)
(* row that was taken and consumed since the last try is inserted again;   *)
(* on one that is only claimed the replay throws (drizzle.ts:650), which   *)
(* EnqueueFails has. "taken" stands for both, so either may follow it.     *)
Enqueue(b) ==
  /\ task[b] = "requeue"
  /\ batch[b].msgs # {}
  /\ row' = [row EXCEPT ![b] = "queued"]
  /\ IF batch[b].cause = "user-stop"
     THEN /\ task' = [task EXCEPT ![b] = "pause"]
          /\ UNCHANGED <<batch, lane, drain, wake>>
     ELSE EndRequeue(b, TRUE)
  /\ UNCHANGED <<entry, runner, coord, texts, written, paused, lifted>>

EnqueueFails(b) ==
  /\ task[b] = "requeue"
  /\ EndRequeue(b, FALSE)
  /\ UNCHANGED <<entry, runner, coord, texts, written, row, paused, lifted>>

Pause(b) ==
  /\ task[b] = "pause"
  /\ paused' = (paused \/ \E c \in Batch : row[c] = "queued")
  /\ EndRequeue(b, TRUE)
  /\ UNCHANGED <<entry, runner, coord, texts, written, row, lifted>>

(* Mutant: the row is durable, so the failed pause is ignored. *)
PauseIgnored(b) ==
  /\ task[b] = "pause"
  /\ EndRequeue(b, TRUE)
  /\ UNCHANGED <<entry, runner, coord, texts, written, row, paused, lifted>>

PauseFails(b) ==
  /\ task[b] = "pause"
  /\ EndRequeue(b, FALSE)
  /\ UNCHANGED <<entry, runner, coord, texts, written, row, paused, lifted>>

-----------------------------------------------------------------------------
(* Who keeps trying *)

(* Mutant: after its teardowns the lane gives up. *)
FollowingTeardowns(b) ==
  CASE lane[b].at = "parked" ->
         IF batch[b].cause = "exit-close" THEN "last" ELSE "first"
    [] lane[b].at = "first"  -> "second"
    [] lane[b].at \in {"second", "last"} -> "over"

(* The detached lane of a batch: after the release it waits for a running  *)
(* attempt, tries a requeue once more, or two teardowns and then a         *)
(* requeue.                                                                *)
Following(b) ==
  CASE lane[b].at = "parked" ->
         IF batch[b].cause = "exit-close" THEN "last" ELSE "first"
    [] lane[b].at = "first"  -> "second"
    [] lane[b].at = "second" -> "last"
    [] lane[b].at = "last"   -> "over"

LaneGoesOn(b) ==
  /\ phase = "gone"
  /\ lane[b].at \notin {"none", "over"}
  /\ ~lane[b].waits
  /\ LET at == IF batch[b].st = "pending" THEN Following(b) ELSE "over"
     IN /\ lane' = [lane EXCEPT ![b] = [at |-> at, waits |-> at # "over"]]
        /\ IF at = "over"
           THEN UNCHANGED <<batch, task>>
           ELSE Start(b, IF at = "last" THEN "requeue" ELSE batch[b].route)
  /\ UNCHANGED <<entry, runner, coord, texts, written, drain, queue>>

(* The shutdown aborts the Turn and drains in the same instant: first what *)
(* runs, then the batches that are pending by then, in turn.               *)
InFlight == {b \in Batch : task[b] # "none"}

Shutdown ==
  /\ drain.pc = "no"
  /\ drain' = [pc |-> "flights", todo |-> <<>>, on |-> InFlight]
  /\ IF phase \in {"running", "closing"}
     THEN AbortEntry("abort")
     ELSE UNCHANGED <<entry, batch, task, lane>>
  /\ UNCHANGED <<runner, coord, texts, written, queue>>

Pending == {b \in Batch : batch[b].st = "pending"}

(* The batch with the earliest message goes first.                         *)
DrainOrder ==
  {s \in {<<>>, <<"left">>, <<"held">>, <<"left", "held">>, <<"held", "left">>} :
     /\ Members(s) = Pending
     /\ Len(s) = 2 => \E m \in batch[s[1]].msgs : \A n \in batch[s[2]].msgs : m <= n}

DrainBatch(b, route, pc, todo) ==
  /\ Start(b, route)
  /\ drain' = [pc |-> pc, todo |-> todo, on |-> {b}]

(* The next batch, as it is tracked now, even if it was settled since; or, *)
(* after the last, the attempts of the lanes.                              *)
DrainNext(todo) ==
  \/ todo # <<>> /\ DrainBatch(Head(todo), batch[Head(todo)].route, "tried", todo)
  \/ /\ todo = <<>>
     /\ drain' = [pc |-> "last", todo |-> <<>>, on |-> InFlight]
     /\ UNCHANGED <<batch, task>>

DrainGoesOn ==
  /\ drain.pc \notin {"no", "done"}
  /\ drain.on = {}
  /\ \/ drain.pc = "flights" /\ \E todo \in DrainOrder : DrainNext(todo)
     \/ /\ drain.pc = "tried"
        /\ IF Head(drain.todo) \in Teardowns
           THEN DrainBatch(Head(drain.todo), "requeue", "again", drain.todo)
           ELSE DrainNext(Tail(drain.todo))
     \/ drain.pc = "again" /\ DrainNext(Tail(drain.todo))
     \/ /\ drain.pc = "last"
        /\ drain' = [pc |-> "done", todo |-> <<>>, on |-> {}]
        /\ UNCHANGED <<batch, task>>
  /\ UNCHANGED <<entry, runner, coord, texts, written, lane, queue>>

-----------------------------------------------------------------------------
(* The queue, as far as it matters here: its dispatcher and its user *)

Wake(b) ==
  /\ wake[b] = "due"
  /\ phase = "gone"
  /\ wake' = [wake EXCEPT ![b] = "sent"]
  /\ UNCHANGED <<entry, runner, coord, texts, tracked, drain, row, paused, lifted>>

(* The dispatcher takes rows while no Turn runs, until the shutdown.       *)
Take(b) ==
  /\ phase = "gone"
  /\ drain.pc = "no"
  /\ row[b] = "queued"
  /\ ~paused
  /\ row' = [row EXCEPT ![b] = "taken"]
  /\ UNCHANGED <<entry, runner, coord, texts, tracked, drain, paused, lifted, wake>>

Unpause ==
  /\ paused
  /\ paused' = FALSE
  /\ lifted' = TRUE
  /\ UNCHANGED <<entry, runner, coord, texts, tracked, drain, row, wake>>

-----------------------------------------------------------------------------
EndPoll == (\E stops \in BOOLEAN : Consume(stops)) \/ PollThrows

Attempt(b) ==
  \/ WriteRow(b) \/ WriteFails(b) \/ CommitDone(b)
  \/ Enqueue(b) \/ EnqueueFails(b) \/ Pause(b) \/ PauseFails(b)

Next ==
  \/ \E m \in Message : Steer(m)
  \/ \E cause \in {"user-stop", "abort"} : Abort(cause)
  \/ StartHost \/ FailStart
  \/ \E atExit \in BOOLEAN : Poll(atExit)
  \/ EndPoll \/ TryClose
  \/ \E next \in {"work", "ended", "failing"} : AfterClose(next)
  \/ HostFails \/ Seal
  \/ CommitBeforeRelease \/ Release \/ SettlementFails
  \/ \E b \in Batch : Attempt(b) \/ LaneGoesOn(b)
  \/ Shutdown \/ DrainGoesOn
  \/ \E b \in Batch : Wake(b) \/ Take(b)
  \/ Unpause

Spec == Init /\ [][Next]_vars

-----------------------------------------------------------------------------
(* The state's types; a batch is in flight only with a route it has, and   *)
(* the host's hands are empty outside a poll.                              *)
SteeringTypeOK ==
  /\ phase \in {"running", "closing", "user-stop", "abort", "gone"}
  /\ steering \subseteq Message
  /\ accepted \subseteq Message
  /\ host \in {"fence", "work", "poll", "answer", "closed", "failing", "ended"}
  /\ hands \subseteq Message
  /\ host # "poll" => hands = {}
  /\ exit \in BOOLEAN /\ refused \in BOOLEAN /\ early \in BOOLEAN
  /\ coord \in {"host", "commit", "done", "stuck"}
  /\ read \subseteq Message
  /\ fell \in Seq(User)
  /\ unsure \subseteq Members(fell)
  /\ batch \in [Batch -> [st    : {"none", "pending", "settled"},
                          msgs  : SUBSET User,
                          cause : {"none", "user-stop", "abort", "abnormal-seal", "exit-close"},
                          route : {"none", "teardown", "requeue"}]]
  /\ task \in [Batch -> {"none", "teardown", "merged", "requeue", "pause"}]
  /\ \A b \in Batch : task[b] # "none" => batch[b].st # "none"
  /\ written \subseteq User
  /\ lane \in [Batch -> [at : {"none", "parked", "first", "second", "last", "over"},
                         waits : BOOLEAN]]
  /\ drain \in [pc : {"no", "flights", "tried", "again", "last", "done"},
                todo : Seq(Batch), on : SUBSET Batch]
  /\ row \in [Batch -> {"none", "queued", "taken"}]
  /\ paused \in BOOLEAN /\ lifted \in BOOLEAN
  /\ wake \in [Batch -> {"none", "due", "sent"}]

(* A Turn that ends its answer has read every machine message it accepted, *)
(* however often polls gave them back: these have no way to the queue.     *)
MachineInputRead ==
  host = "closed" => accepted \cap Machine \subseteq read

(* Rows that fall into the conversation before the Turn is released stand  *)
(* there in the order they were sent, though an abort discards what the    *)
(* host held after what came later, unless a shutdown drains meanwhile.    *)
SendOrder ==
  phase # "gone" /\ drain.pc = "no" =>
    \A j, k \in 1..Len(fell) : j < k => fell[j] < fell[k]

(* A batch of a stopped Turn counts as handed back only once its row waits *)
(* for the user: the queue is paused, or the user has lifted the pause,    *)
(* and nothing wakes the queue for it. Batches that are not settled are    *)
(* outside, and so is a row that is durable although its pause failed on   *)
(* every try: persistRequeue reports it as not committed.                  *)
StoppedStaysParked ==
  \A b \in Batch :
    batch[b].cause = "user-stop" /\ batch[b].st = "settled" =>
      /\ row[b] = "queued" => paused \/ lifted
      /\ wake[b] = "none"

(* Where a message is (MessageFate).                                       *)
InTurn == steering \cup hands \cup UNION {batch[b].msgs : b \in Pending}
InQueue == UNION {batch[b].msgs : b \in {c \in Batch : row[c] # "none"}}

place == [m \in User |->
  (IF m \in InTurn THEN {"turn"} ELSE {})
  \cup (IF m \in read THEN {"read"} ELSE {})
  \cup (IF InConversation(m) THEN {IF m \in unsure THEN "maybe" ELSE "fell"} ELSE {})
  \cup (IF m \in InQueue THEN {"queue"} ELSE {})]

Fate == INSTANCE MessageFate WITH unstarted <- early

(* Every accepted message of the user ends in one place, and is held until *)
(* it is there.                                                            *)
MessageFate == Fate!Spec

(* A pending batch is never left to nobody: its lane has not been through  *)
(* all its tries, an attempt is in flight, or the requeue, its last way,   *)
(* has been tried. Who awaits an attempt, a lane or the drain, awaits one  *)
(* that is in flight, though attempts are joined and merged.               *)
BatchesAttended ==
  /\ \A b \in Pending : lane[b].at # "none"
                      /\ (lane[b].at = "over" => batch[b].route = "requeue")
  /\ \A b \in Batch : lane[b].waits => b \in InFlight
  /\ drain.on \subseteq InFlight

(* steering-requeue.ts: "so no admitted message is ever dropped".          *)
NeverDropped == \A m \in accepted \cap User : place[m] # {}

(* What keeps going: awaits are answered, the host notices an abort, a     *)
(* host that has closed comes to an end, as MAX_PLUGIN_STOP_CONTINUATIONS  *)
(* makes it, and the coordinator settles what has ended.                   *)
FairSpec ==
  /\ Spec
  /\ WF_vars(StartHost) /\ WF_vars(EndPoll) /\ WF_vars(TryClose)
  /\ WF_vars(Aborted /\ HostFails) /\ WF_vars(Seal)
  /\ SF_vars(phase = "closing" /\ Poll(TRUE))
  /\ SF_vars(\E next \in {"ended", "failing"} : AfterClose(next))
  /\ WF_vars(CommitBeforeRelease) /\ WF_vars(Release \/ SettlementFails)
  /\ \A b \in Batch : WF_vars(Attempt(b)) /\ WF_vars(LaneGoesOn(b))
  /\ WF_vars(DrainGoesOn)

(* A batch does not stay pending unless every way was tried and failed, or *)
(* the Turn could not be settled and no shutdown has come.                 *)
GivenUp(b) == lane[b].at = "over" /\ batch[b].route = "requeue" /\ task[b] = "none"
HandedOver ==
  \A b \in Batch :
    batch[b].st = "pending" ~>
      batch[b].st = "settled" \/ GivenUp(b) \/ coord = "stuck"

=============================================================================
