---------------------------- MODULE UpdateQueue ----------------------------
(***************************************************************************)
(* The queue of task updates (MongoDB collection task_update_queue) and    *)
(* the goroutine that pushes them to Flamenco Server                       *)
(* (flamenco/task_updates.go).                                             *)
(*                                                                         *)
(* TaskLifecycle.tla is about the statuses the updates contain, and queues *)
(* and applies an update in one step.  Here these are the separate steps   *)
(* they are in QueueTaskUpdateWithExtra, each of which can fail, and an    *)
(* update is no more than the time it was received.                        *)
(***************************************************************************)
EXTENDS Naturals, FiniteSets

CONSTANTS
    Tasks,
    Writers,        \* goroutines that queue task updates
    MaxCount,       \* task_update_push_max_count
    MaxStamp,       \* bound on the number of updates
    Accepts,        \* what the Server handles of a batch, see AcceptKinds
    Overlap,        \* whether two writers may be busy with the same task
    Faults          \* what can go wrong, see FaultKinds

\* The Server handles the whole batch, the first part of it, or just some of it.
AcceptKinds == {"all", "prefix", "some"}

\* Errors of MongoDB, of the file system, or in the communication with the
\* Server, named after the step that fails; and crashes of the Manager.
FaultKinds == {"insert", "log", "count", "find", "send", "answer", "remove", "crash"}

ASSUME MaxCountAssumption == MaxCount \in Nat \ {0}
ASSUME MaxStampAssumption == MaxStamp \in Nat
ASSUME AcceptsAssumption == Accepts \in AcceptKinds
ASSUME OverlapAssumption == Overlap \in BOOLEAN
ASSUME FaultsAssumption == Faults \subseteq FaultKinds

VARIABLES
    clock,      \* the updates that were received so far
    inserted,   \* the updates that were inserted into the queue so far
    queue,      \* task_update_queue
    cache,      \* flamenco_tasks: last_updated, the update that was last applied
    writer,     \* QueueTaskUpdateWithExtra in each of the writers
    pusher,     \* the goroutine started by TaskUpdatePusher.Go
    kick,       \* whether there is something in kickChan
    asked,      \* history: a Kick was not followed by a look into the queue yet
    elapsed,    \* the configured intervals that have passed since the last push
    server,     \* the update of each task that the Server was last to handle
    handled     \* history: the updates the Server has handled

vars == <<clock, inserted, queue, cache, writer, pusher, kick, asked,
          elapsed, server, handled>>

Stamps == 0 .. MaxStamp

(***************************************************************************)
(* An update: when it was received (received_on_manager), the task, and    *)
(* its position in the natural order of the collection.                    *)
(***************************************************************************)
Updates == [stamp : Stamps, task : Tasks, pos : Nat]

IdleWriter(t) == [pc |-> "idle", stamp |-> 0, task |-> t]
WriterStates == [pc : {"idle", "insert", "apply"}, stamp : Stamps, task : Tasks]

IdlePusher == [pc |-> "idle", forced |-> FALSE, batch |-> {}]
PusherStates == [pc : {"idle", "count", "find", "send", "remove"},
                 forced : BOOLEAN, batch : SUBSET Updates]

\* task_update_push_max_interval and cancel_task_fetch_max_interval
Intervals == {"push", "cancel"}

TypeOK ==
    /\ clock \in Stamps
    /\ inserted \in Nat
    /\ queue \in SUBSET Updates
    /\ cache \in [Tasks -> Stamps]
    /\ writer \in [Writers -> WriterStates]
    /\ pusher \in PusherStates
    /\ kick \in BOOLEAN
    /\ asked \in BOOLEAN
    /\ elapsed \in SUBSET Intervals
    /\ server \in [Tasks -> Stamps]
    /\ handled \in SUBSET Updates

\* lastPush is zero, so every interval has passed.
Init ==
    /\ clock = 0
    /\ inserted = 0
    /\ queue = {}
    /\ cache = [t \in Tasks |-> 0]
    /\ \E t \in Tasks : writer = [w \in Writers |-> IdleWriter(t)]
    /\ pusher = IdlePusher
    /\ kick = FALSE
    /\ asked = FALSE
    /\ elapsed = Intervals
    /\ server = [t \in Tasks |-> 0]
    /\ handled = {}

queueVars == <<clock, inserted, cache, writer>>
pushVars == <<pusher, kick, asked, elapsed>>
serverVars == <<server, handled>>

-----------------------------------------------------------------------------
(* QueueTaskUpdateWithExtra *)

\* Mutant: the stamp skips one.
StampAhead(w, t) ==
    /\ writer[w].pc = "idle"
    /\ Overlap \/ \A v \in Writers : writer[v].pc = "idle" \/ writer[v].task # t
    /\ clock < MaxStamp
    /\ clock' = clock + 1
    /\ writer' = [writer EXCEPT ![w] = [pc |-> "insert", stamp |-> clock + 2, task |-> t]]
    /\ UNCHANGED <<inserted, queue, cache, pushVars, serverVars>>

\* The update gets its time of reception and its ID.
Stamp(w, t) ==
    /\ writer[w].pc = "idle"
    /\ Overlap \/ \A v \in Writers : writer[v].pc = "idle" \/ writer[v].task # t
    /\ clock < MaxStamp
    /\ clock' = clock + 1
    /\ writer' = [writer EXCEPT ![w] = [pc |-> "insert", stamp |-> clock + 1, task |-> t]]
    /\ UNCHANGED <<inserted, queue, cache, pushVars, serverVars>>

Insert(w) ==
    /\ writer[w].pc = "insert"
    /\ inserted' = inserted + 1
    /\ queue' = queue \cup {[stamp |-> writer[w].stamp, task |-> writer[w].task,
                             pos |-> inserted + 1]}
    /\ writer' = [writer EXCEPT ![w].pc = "apply"]
    /\ UNCHANGED <<clock, cache, pushVars, serverVars>>

\* Mutant: the error is logged and the update applied all the same.
InsertFailsSilently(w) ==
    /\ "insert" \in Faults
    /\ writer[w].pc = "insert"
    /\ writer' = [writer EXCEPT ![w].pc = "apply"]
    /\ UNCHANGED <<clock, inserted, queue, cache, pushVars, serverVars>>

\* The caller gets an error, and nothing was changed.
InsertFails(w) ==
    /\ "insert" \in Faults
    /\ writer[w].pc = "insert"
    /\ writer' = [writer EXCEPT ![w].pc = "idle"]
    /\ UNCHANGED <<clock, inserted, queue, cache, pushVars, serverVars>>

Apply(w) ==
    /\ writer[w].pc = "apply"
    /\ cache' = [cache EXCEPT ![writer[w].task] = writer[w].stamp]
    /\ writer' = [writer EXCEPT ![w].pc = "idle"]
    /\ UNCHANGED <<clock, inserted, queue, pushVars, serverVars>>

\* writeTaskLog or UpdateId fails: the update is queued but not applied.
ApplyFails(w) ==
    /\ "log" \in Faults
    /\ writer[w].pc = "apply"
    /\ writer' = [writer EXCEPT ![w].pc = "idle"]
    /\ UNCHANGED <<clock, inserted, queue, cache, pushVars, serverVars>>

-----------------------------------------------------------------------------
(* TaskUpdatePusher *)

\* kickChan holds one kick: the next ones are dropped until it is received.
Kick ==
    /\ kick' = TRUE
    /\ asked' = TRUE
    /\ UNCHANGED <<queueVars, queue, pusher, elapsed, serverVars>>

\* The select statement in Go.
WakeByTimer ==
    /\ pusher.pc = "idle"
    /\ pusher' = [IdlePusher EXCEPT !.pc = "count"]
    /\ UNCHANGED <<queueVars, queue, kick, asked, elapsed, serverVars>>

WakeByKick ==
    /\ pusher.pc = "idle"
    /\ kick
    /\ kick' = FALSE
    /\ pusher' = [IdlePusher EXCEPT !.pc = "count", !.forced = TRUE]
    /\ UNCHANGED <<queueVars, queue, asked, elapsed, serverVars>>

MayRegularPush(count) ==
    /\ count > 0
    /\ count >= MaxCount \/ "push" \in elapsed

MayEmptyPush == "cancel" \in elapsed

\* Mutant: an interval that has passed is no reason to push.
PushDueWhenFull(count) == pusher.forced \/ count >= MaxCount

\* Mutant: there is nothing to push when the queue is empty.
PushDueWithUpdates(count) ==
    count > 0 /\ (pusher.forced \/ MayRegularPush(count) \/ MayEmptyPush)

PushDue(count) == pusher.forced \/ MayRegularPush(count) \/ MayEmptyPush

\* Without a reason to push the pusher waits for the next tick or kick.
CheckQueue ==
    /\ pusher.pc = "count"
    /\ pusher' = IF PushDue(Cardinality(queue)) THEN [pusher EXCEPT !.pc = "find"]
                 ELSE IdlePusher
    /\ UNCHANGED <<queueVars, queue, kick, asked, elapsed, serverVars>>

CountFails ==
    /\ "count" \in Faults
    /\ pusher.pc = "count"
    /\ pusher' = IdlePusher
    /\ UNCHANGED <<queueVars, queue, kick, asked, elapsed, serverVars>>

\* The n updates that have been in the queue longest.
First(n) == {u \in queue : Cardinality({v \in queue : v.pos < u.pos}) < n}

Find ==
    /\ pusher.pc = "find"
    /\ pusher' = [pusher EXCEPT !.pc = "send", !.batch = First(MaxCount)]
    /\ asked' = FALSE
    /\ UNCHANGED <<queueVars, queue, kick, elapsed, serverVars>>

FindFails ==
    /\ "find" \in Faults
    /\ pusher.pc = "find"
    /\ pusher' = IdlePusher
    /\ UNCHANGED <<queueVars, queue, kick, asked, elapsed, serverVars>>

\* SendTaskUpdates cannot reach the Server.
SendFails ==
    /\ "send" \in Faults
    /\ pusher.pc = "send"
    /\ pusher' = IdlePusher
    /\ UNCHANGED <<queueVars, queue, kick, asked, elapsed, serverVars>>

(***************************************************************************)
(* The Server handles updates of the batch in their order, and answers     *)
(* with the IDs of those it has handled.  The answer can get lost.         *)
(***************************************************************************)
Prefixes(batch) ==
    {p \in SUBSET batch : \A u \in p, v \in batch : v.pos < u.pos => v \in p}

Handleable(batch) ==
    CASE Accepts = "all"    -> {batch}
      [] Accepts = "prefix" -> Prefixes(batch)
      [] Accepts = "some"   -> SUBSET batch

\* What the Server knows of task t after the last of these updates of it.
Learned(done, t) ==
    LET about == {u \in done : u.task = t}
    IN  IF about = {} THEN {server[t]}
        ELSE {u.stamp : u \in {v \in about : \A o \in about : o.pos <= v.pos}}

Handle(done) ==
    /\ handled' = handled \cup done
    /\ server' \in {s \in [Tasks -> Stamps] : \A t \in Tasks : s[t] \in Learned(done, t)}

\* Mutant: whatever was sent is going to be removed from the queue.
SendAll(done) ==
    /\ pusher.pc = "send"
    /\ Handle(done)
    /\ pusher' = [pusher EXCEPT !.pc = "remove"]
    /\ UNCHANGED <<queueVars, queue, kick, asked, elapsed>>

Send(done) ==
    /\ pusher.pc = "send"
    /\ Handle(done)
    /\ pusher' = [pusher EXCEPT !.pc = "remove", !.batch = done]
    /\ UNCHANGED <<queueVars, queue, kick, asked, elapsed>>

AnswerLost(done) ==
    /\ "answer" \in Faults
    /\ pusher.pc = "send"
    /\ Handle(done)
    /\ pusher' = IdlePusher
    /\ UNCHANGED <<queueVars, queue, kick, asked, elapsed>>

\* Mutant: the queue is emptied, with what was queued while the batch was sent.
RemoveAll ==
    /\ pusher.pc = "remove"
    /\ queue' = {}
    /\ pusher' = IdlePusher
    /\ elapsed' = {}
    /\ UNCHANGED <<queueVars, kick, asked, serverVars>>

\* The cancellations in the answer are handled next: PusherStep of TaskLifecycle.
Remove ==
    /\ pusher.pc = "remove"
    /\ queue' = queue \ pusher.batch
    /\ pusher' = IdlePusher
    /\ elapsed' = {}
    /\ UNCHANGED <<queueVars, kick, asked, serverVars>>

\* "Expect duplicates", and no change of lastPush.
RemoveFails ==
    /\ "remove" \in Faults
    /\ pusher.pc = "remove" /\ pusher.batch # {}
    /\ pusher' = IdlePusher
    /\ UNCHANGED <<queueVars, queue, kick, asked, elapsed, serverVars>>

-----------------------------------------------------------------------------
TimePasses(i) ==
    /\ i \notin elapsed
    /\ elapsed' = elapsed \cup {i}
    /\ UNCHANGED <<queueVars, queue, pusher, kick, asked, serverVars>>

\* The Manager is killed and started again: only the database remains.
Crash ==
    /\ "crash" \in Faults
    /\ writer' = [w \in Writers |-> [writer[w] EXCEPT !.pc = "idle"]]
    /\ pusher' = IdlePusher
    /\ kick' = FALSE
    /\ asked' = FALSE
    /\ elapsed' = Intervals
    /\ UNCHANGED <<clock, inserted, queue, cache, serverVars>>

WriterStep(w) == Insert(w) \/ InsertFails(w) \/ Apply(w) \/ ApplyFails(w)

SendBatch == \E done \in Handleable(pusher.batch) : Send(done)

PusherStep ==
    \/ WakeByTimer \/ WakeByKick
    \/ CheckQueue \/ CountFails \/ Find \/ FindFails
    \/ SendBatch \/ SendFails
    \/ \E done \in Handleable(pusher.batch) : AnswerLost(done)
    \/ Remove \/ RemoveFails

Next ==
    \/ \E w \in Writers : WriterStep(w) \/ \E t \in Tasks : Stamp(w, t)
    \/ Kick
    \/ PusherStep
    \/ \E i \in Intervals : TimePasses(i)
    \/ Crash

Spec == Init /\ [][Next]_vars

(***************************************************************************)
(* The timer ticks and goroutines run.  MongoDB and the Server work again  *)
(* after a while: what is tried again and again succeeds in the end.  No   *)
(* fairness for new updates, kicks, faults and crashes.                    *)
(***************************************************************************)
Fairness ==
    /\ \A w \in Writers : WF_vars(WriterStep(w))
    /\ WF_vars(PusherStep)
    /\ SF_vars(CheckQueue)
    /\ SF_vars(Find)
    /\ SF_vars(Send(pusher.batch))
    /\ SF_vars(pusher.batch # {} /\ Remove)
    /\ \A i \in Intervals : WF_vars(TimePasses(i))

FairSpec == Spec /\ Fairness

-----------------------------------------------------------------------------
(* Safety *)

(***************************************************************************)
(* Once in the queue, an update is not removed from it before the Server   *)
(* has handled it, whatever subset of a batch the Server accepts, which    *)
(* answers get lost, and where the Manager is killed.                      *)
(***************************************************************************)
Delivery == INSTANCE ReliableDelivery WITH pending <- queue, delivered <- handled

DeliverySpec == Delivery!Spec

(***************************************************************************)
(* The Manager never acts upon an update the Server is not going to hear   *)
(* of: what has been applied to the cache is in the queue, or was handled. *)
(***************************************************************************)
AppliedIsQueued ==
    \A t \in Tasks : cache[t] # 0 =>
        \E u \in queue \cup handled : u.task = t /\ u.stamp = cache[t]

(***************************************************************************)
(* What these two rest on; inductive together with TypeOK, see             *)
(* UpdateQueueProofs.tla.                                                  *)
(***************************************************************************)
\* The pusher sends what is queued, and removes what was handled.
BatchKnown ==
    /\ pusher.pc = "send" => pusher.batch \subseteq queue
    /\ pusher.pc = "remove" => pusher.batch \subseteq handled

\* No update has the position of an earlier one.
PositionsUsed == \A u \in queue \cup handled : u.pos <= inserted

\* A writer has queued the update it is going to apply.
QueuedFirst ==
    \A w \in Writers : writer[w].pc = "apply" =>
        \E u \in queue \cup handled : u.task = writer[w].task /\ u.stamp = writer[w].stamp

IInv == TypeOK /\ BatchKnown /\ PositionsUsed /\ QueuedFirst /\ AppliedIsQueued

(***************************************************************************)
(* With an empty queue the Server knows at least as much of a task as the  *)
(* cache, in spite of the batches that were sent twice.                    *)
(***************************************************************************)
ServerCaughtUp ==
    queue = {} => \A t \in Tasks : server[t] >= cache[t]

(***************************************************************************)
(* "For ensuring the ordering of updates" (task_updates.go:218), said of   *)
(* ReceivedOnManager: an update is not applied to the cache after an       *)
(* update that was received later.                                         *)
(***************************************************************************)
AppliedInOrder ==
    [][\A t \in Tasks : cache'[t] >= cache[t]]_vars

-----------------------------------------------------------------------------
(* Liveness *)

(***************************************************************************)
(* What is in the queue is handled by the Server in the end.               *)
(***************************************************************************)
AllDelivered ==
    \A s \in Stamps :
        (\E u \in queue : u.stamp = s) ~> (\E u \in handled : u.stamp = s)

(***************************************************************************)
(* A Kick is followed by a push that looks into the queue after it, also   *)
(* when the channel was full and when the queue is empty.                  *)
(***************************************************************************)
KickServed == asked ~> ~asked
=============================================================================
