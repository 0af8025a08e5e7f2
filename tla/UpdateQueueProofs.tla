------------------------- MODULE UpdateQueueProofs -------------------------
(***************************************************************************)
(* Theorems about UpdateQueue, for any number of tasks, writers and        *)
(* updates, any batch size, and whatever fails; the last one, for one      *)
(* writer and a Server that handles batches in order.                      *)
(***************************************************************************)
EXTENDS UpdateQueue, FiniteSetTheorems, TLAPS

(* The Server handles some of the updates it was sent, and no others. *)
LEMMA HandleableSubset ==
    ASSUME NEW batch, NEW done \in Handleable(batch)
    PROVE  done \subseteq batch
BY AcceptsAssumption DEF Handleable, Prefixes, AcceptKinds

(* The first updates of the queue are updates of the queue. *)
LEMMA FirstSubset == ASSUME NEW n PROVE First(n) \subseteq queue
BY DEF First

(* An idle writer, and an idle pusher. *)
LEMMA IdleTypes ==
    /\ \A t \in Tasks : IdleWriter(t) \in WriterStates
    /\ IdlePusher \in PusherStates
BY MaxStampAssumption DEF Stamps, IdleWriter, WriterStates, IdlePusher, PusherStates, Updates

-----------------------------------------------------------------------------
LEMMA InitInv == Init => IInv
<1> SUFFICES ASSUME Init PROVE IInv
  OBVIOUS
<1>1. 0 \in Stamps
  BY MaxStampAssumption DEF Stamps
<1>2. TypeOK
  BY <1>1, IdleTypes DEF Init, TypeOK
<1>3. BatchKnown /\ PositionsUsed /\ QueuedFirst /\ AppliedIsQueued
  BY DEF Init, BatchKnown, PositionsUsed, QueuedFirst, AppliedIsQueued, IdlePusher, IdleWriter
<1> QED  BY <1>2, <1>3 DEF IInv

-----------------------------------------------------------------------------
(***************************************************************************)
(* An update that is in the queue or was handled stays so.                 *)
(***************************************************************************)
LEMMA KnownStays ==
    ASSUME IInv, queue \cup handled \subseteq queue' \cup handled',
           UNCHANGED <<cache, writer>>
    PROVE  QueuedFirst' /\ AppliedIsQueued'
BY DEF IInv, QueuedFirst, AppliedIsQueued

(***************************************************************************)
(* A step of the pusher that only changes what the pusher knows, and the   *)
(* flags it is woken by.                                                   *)
(***************************************************************************)
LEMMA PusherOnly ==
    ASSUME IInv, UNCHANGED <<queueVars, queue, serverVars>>,
           pusher' \in PusherStates, kick' \in BOOLEAN, asked' \in BOOLEAN,
           elapsed' \in SUBSET Intervals, BatchKnown'
    PROVE  IInv'
<1>1. TypeOK'
  BY DEF IInv, TypeOK, queueVars, serverVars
<1>2. PositionsUsed'
  BY DEF IInv, PositionsUsed, queueVars, serverVars
<1>3. QueuedFirst' /\ AppliedIsQueued'
  BY KnownStays DEF queueVars, serverVars
<1> QED  BY <1>1, <1>2, <1>3 DEF IInv

LEMMA PusherIdle ==
    ASSUME IInv, UNCHANGED <<queueVars, queue, serverVars>>,
           pusher' = IdlePusher, kick' \in BOOLEAN, asked' \in BOOLEAN,
           elapsed' \in SUBSET Intervals
    PROVE  IInv'
<1>1. pusher' \in PusherStates
  BY IdleTypes
<1>2. BatchKnown'
  BY DEF BatchKnown, IdlePusher
<1> QED  BY <1>1, <1>2, PusherOnly

-----------------------------------------------------------------------------
(* The writers *)

LEMMA StampInv ==
    ASSUME IInv, NEW w \in Writers, NEW t \in Tasks, Stamp(w, t)
    PROVE  IInv'
<1>1. TypeOK'
  BY MaxStampAssumption
     DEF IInv, TypeOK, Stamp, WriterStates, Stamps, pushVars, serverVars
<1>2. BatchKnown' /\ PositionsUsed' /\ AppliedIsQueued'
  BY DEF IInv, BatchKnown, PositionsUsed, AppliedIsQueued, Stamp, pushVars, serverVars
<1>3. QueuedFirst'
  BY DEF IInv, TypeOK, QueuedFirst, Stamp, serverVars
<1> QED  BY <1>1, <1>2, <1>3 DEF IInv

LEMMA InsertInv ==
    ASSUME IInv, NEW w \in Writers, Insert(w)
    PROVE  IInv'
<1> DEFINE u == [stamp |-> writer[w].stamp, task |-> writer[w].task, pos |-> inserted + 1]
<1>1. /\ queue' = queue \cup {u} /\ inserted' = inserted + 1
      /\ writer' = [writer EXCEPT ![w].pc = "apply"]
      /\ UNCHANGED <<clock, cache, pusher, kick, asked, elapsed, server, handled>>
  BY DEF Insert, pushVars, serverVars
<1>2. u \in Updates /\ u.pos = inserted + 1
  BY DEF IInv, TypeOK, WriterStates, Updates
<1>3. TypeOK'
  BY <1>1, <1>2 DEF IInv, TypeOK, WriterStates
<1>4. BatchKnown'
  BY <1>1 DEF IInv, BatchKnown
<1>5. PositionsUsed'
  BY <1>1, <1>2 DEF IInv, TypeOK, Updates, PositionsUsed
<1>6. AppliedIsQueued'
  BY <1>1 DEF IInv, AppliedIsQueued
<1>7. QueuedFirst'
  <2> SUFFICES ASSUME NEW v \in Writers, writer'[v].pc = "apply"
               PROVE  \E x \in queue' \cup handled' :
                        x.task = writer'[v].task /\ x.stamp = writer'[v].stamp
    BY DEF QueuedFirst
  <2>1. CASE v = w
    <3>1. u.task = writer'[w].task /\ u.stamp = writer'[w].stamp /\ u \in queue'
      BY <1>1 DEF IInv, TypeOK, WriterStates
    <3> QED  BY <2>1, <3>1
  <2>2. CASE v # w
    <3>1. writer'[v] = writer[v]
      BY <1>1, <2>2 DEF IInv, TypeOK
    <3> QED  BY <1>1, <3>1 DEF IInv, QueuedFirst
  <2> QED  BY <2>1, <2>2
<1> QED  BY <1>3, <1>4, <1>5, <1>6, <1>7 DEF IInv

LEMMA WriterIdleInv ==
    ASSUME IInv, NEW w \in Writers, writer' = [writer EXCEPT ![w].pc = "idle"],
           UNCHANGED <<clock, inserted, queue, pushVars, serverVars>>,
           cache' \in [Tasks -> Stamps], AppliedIsQueued'
    PROVE  IInv'
<1>1. TypeOK'
  BY DEF IInv, TypeOK, WriterStates, pushVars, serverVars
<1>2. BatchKnown' /\ PositionsUsed' /\ QueuedFirst'
  BY DEF IInv, TypeOK, WriterStates, BatchKnown, PositionsUsed, QueuedFirst, pushVars, serverVars
<1> QED  BY <1>1, <1>2 DEF IInv

LEMMA InsertFailsInv == ASSUME IInv, NEW w \in Writers, InsertFails(w) PROVE IInv'
<1>1. cache' \in [Tasks -> Stamps] /\ AppliedIsQueued'
  BY DEF IInv, TypeOK, InsertFails, AppliedIsQueued, serverVars
<1> QED  BY <1>1, WriterIdleInv DEF InsertFails

LEMMA ApplyFailsInv == ASSUME IInv, NEW w \in Writers, ApplyFails(w) PROVE IInv'
<1>1. cache' \in [Tasks -> Stamps] /\ AppliedIsQueued'
  BY DEF IInv, TypeOK, ApplyFails, AppliedIsQueued, serverVars
<1> QED  BY <1>1, WriterIdleInv DEF ApplyFails

LEMMA ApplyInv == ASSUME IInv, NEW w \in Writers, Apply(w) PROVE IInv'
<1>1. /\ cache' = [cache EXCEPT ![writer[w].task] = writer[w].stamp]
      /\ UNCHANGED <<queue, handled>>
  BY DEF Apply, serverVars
<1>2. cache' \in [Tasks -> Stamps]
  BY <1>1 DEF IInv, TypeOK, WriterStates
<1>3. \E u \in queue \cup handled : u.task = writer[w].task /\ u.stamp = writer[w].stamp
  BY DEF IInv, QueuedFirst, Apply
<1>4. AppliedIsQueued'
  BY <1>1, <1>3 DEF IInv, TypeOK, AppliedIsQueued
<1> QED  BY <1>2, <1>4, WriterIdleInv DEF Apply

-----------------------------------------------------------------------------
(* The pusher *)

LEMMA WakeInv ==
    ASSUME IInv, WakeByTimer \/ WakeByKick \/ CheckQueue
    PROVE  IInv'
<1>1. /\ UNCHANGED <<queueVars, queue, asked, elapsed, serverVars>>
      /\ kick' \in BOOLEAN
  BY DEF IInv, TypeOK, WakeByTimer, WakeByKick, CheckQueue
<1>2. pusher' \in PusherStates /\ pusher'.pc \in {"idle", "count", "find"}
  BY IdleTypes DEF IInv, TypeOK, WakeByTimer, WakeByKick, CheckQueue, PusherStates, IdlePusher
<1>3. BatchKnown'
  BY <1>2 DEF BatchKnown
<1> QED  BY <1>1, <1>2, <1>3, PusherOnly DEF IInv, TypeOK

LEMMA FindInv == ASSUME IInv, Find PROVE IInv'
<1>1. UNCHANGED <<queueVars, queue, kick, elapsed, serverVars>> /\ asked' = FALSE
  BY DEF Find
<1>2. First(MaxCount) \in SUBSET Updates
  BY FirstSubset DEF IInv, TypeOK
<1>3. pusher' = [pusher EXCEPT !.pc = "send", !.batch = First(MaxCount)]
  BY DEF Find
<1>4. /\ pusher' \in PusherStates
      /\ pusher'.pc = "send" /\ pusher'.batch = First(MaxCount)
  BY <1>2, <1>3 DEF IInv, TypeOK, PusherStates
<1>5. BatchKnown'
  BY <1>1, <1>4, FirstSubset DEF BatchKnown
<1> QED  BY <1>1, <1>4, <1>5, PusherOnly DEF IInv, TypeOK

LEMMA PusherGivesUpInv ==
    ASSUME IInv, CountFails \/ FindFails \/ SendFails \/ RemoveFails
    PROVE  IInv'
BY PusherIdle DEF IInv, TypeOK, CountFails, FindFails, SendFails, RemoveFails

(* What the Server has handled came from the queue. *)
LEMMA HandledKnown ==
    ASSUME IInv, pusher.pc = "send", NEW done \in Handleable(pusher.batch), Handle(done),
           UNCHANGED <<queueVars, queue>>
    PROVE  /\ done \subseteq queue
           /\ handled' = handled \cup done
           /\ server' \in [Tasks -> Stamps] /\ handled' \in SUBSET Updates
           /\ PositionsUsed' /\ QueuedFirst' /\ AppliedIsQueued'
<1>1. done \subseteq queue
  BY HandleableSubset DEF IInv, BatchKnown
<1>2. handled' = handled \cup done /\ server' \in [Tasks -> Stamps]
  BY DEF Handle
<1>3. handled' \in SUBSET Updates
  BY <1>1, <1>2 DEF IInv, TypeOK
<1>4. PositionsUsed'
  BY <1>1, <1>2 DEF IInv, PositionsUsed, queueVars
<1>5. QueuedFirst' /\ AppliedIsQueued'
  BY <1>2, KnownStays DEF queueVars
<1> QED  BY <1>1, <1>2, <1>3, <1>4, <1>5

LEMMA SendInv ==
    ASSUME IInv, NEW done \in Handleable(pusher.batch), Send(done)
    PROVE  IInv'
<1>1. /\ UNCHANGED <<queueVars, queue, kick, asked, elapsed>>
      /\ pusher' = [pusher EXCEPT !.pc = "remove", !.batch = done]
  BY DEF Send
<1>2. /\ done \subseteq queue
      /\ handled' = handled \cup done
      /\ server' \in [Tasks -> Stamps] /\ handled' \in SUBSET Updates
      /\ PositionsUsed' /\ QueuedFirst' /\ AppliedIsQueued'
  BY HandledKnown DEF Send
<1>3. done \in SUBSET Updates
  BY <1>2 DEF IInv, TypeOK
<1>4. /\ pusher' \in PusherStates
      /\ pusher'.pc = "remove" /\ pusher'.batch = done
  BY <1>1, <1>3 DEF IInv, TypeOK, PusherStates
<1>5. TypeOK'
  BY <1>1, <1>2, <1>4 DEF IInv, TypeOK, queueVars
<1>6. BatchKnown'
  BY <1>2, <1>4 DEF BatchKnown
<1> QED  BY <1>2, <1>5, <1>6 DEF IInv

LEMMA AnswerLostInv ==
    ASSUME IInv, NEW done \in Handleable(pusher.batch), AnswerLost(done)
    PROVE  IInv'
<1>1. UNCHANGED <<queueVars, queue, kick, asked, elapsed>> /\ pusher' = IdlePusher
  BY DEF AnswerLost
<1>2. /\ server' \in [Tasks -> Stamps] /\ handled' \in SUBSET Updates
      /\ PositionsUsed' /\ QueuedFirst' /\ AppliedIsQueued'
  BY HandledKnown DEF AnswerLost
<1>3. TypeOK'
  BY <1>1, <1>2, IdleTypes DEF IInv, TypeOK, queueVars
<1>4. BatchKnown'
  BY <1>1 DEF BatchKnown, IdlePusher
<1> QED  BY <1>2, <1>3, <1>4 DEF IInv

LEMMA RemoveInv == ASSUME IInv, Remove PROVE IInv'
<1>1. /\ UNCHANGED <<queueVars, kick, asked, serverVars>>
      /\ queue' = queue \ pusher.batch /\ pusher' = IdlePusher /\ elapsed' = {}
      /\ pusher.batch \subseteq handled
  BY DEF IInv, BatchKnown, Remove
<1>2. TypeOK'
  BY <1>1, IdleTypes DEF IInv, TypeOK, queueVars, serverVars
<1>3. BatchKnown'
  BY <1>1 DEF BatchKnown, IdlePusher
<1>4. PositionsUsed'
  BY <1>1 DEF IInv, PositionsUsed, queueVars, serverVars
<1>5. QueuedFirst' /\ AppliedIsQueued'
  BY <1>1, KnownStays DEF queueVars, serverVars
<1> QED  BY <1>2, <1>3, <1>4, <1>5 DEF IInv

-----------------------------------------------------------------------------
(* The surroundings *)

LEMMA OtherInv ==
    ASSUME IInv, Kick \/ (\E i \in Intervals : TimePasses(i))
    PROVE  IInv'
<1>1. /\ UNCHANGED <<queueVars, queue, pusher, serverVars>>
      /\ kick' \in BOOLEAN /\ asked' \in BOOLEAN /\ elapsed' \in SUBSET Intervals
  BY DEF IInv, TypeOK, Kick, TimePasses
<1>2. BatchKnown'
  BY <1>1 DEF IInv, BatchKnown, serverVars
<1> QED  BY <1>1, <1>2, PusherOnly DEF IInv, TypeOK

LEMMA CrashInv == ASSUME IInv, Crash PROVE IInv'
<1>1. /\ UNCHANGED <<clock, inserted, queue, cache, serverVars>>
      /\ pusher' = IdlePusher /\ kick' = FALSE /\ asked' = FALSE /\ elapsed' = Intervals
      /\ writer' = [w \in Writers |-> [writer[w] EXCEPT !.pc = "idle"]]
  BY DEF Crash
<1>2. writer' \in [Writers -> WriterStates] /\ \A w \in Writers : writer'[w].pc = "idle"
  BY <1>1 DEF IInv, TypeOK, WriterStates
<1>3. TypeOK'
  BY <1>1, <1>2, IdleTypes DEF IInv, TypeOK, serverVars
<1>4. BatchKnown' /\ PositionsUsed' /\ QueuedFirst' /\ AppliedIsQueued'
  BY <1>1, <1>2
     DEF IInv, BatchKnown, PositionsUsed, QueuedFirst, AppliedIsQueued, IdlePusher, serverVars
<1> QED  BY <1>3, <1>4 DEF IInv

LEMMA StutterInv == ASSUME IInv, UNCHANGED vars PROVE IInv'
BY DEF IInv, TypeOK, BatchKnown, PositionsUsed, QueuedFirst, AppliedIsQueued, vars

LEMMA NextInv == IInv /\ [Next]_vars => IInv'
<1> SUFFICES ASSUME IInv, [Next]_vars PROVE IInv'
  OBVIOUS
<1>1. ASSUME NEW w \in Writers, WriterStep(w) \/ \E t \in Tasks : Stamp(w, t) PROVE IInv'
  BY <1>1, StampInv, InsertInv, InsertFailsInv, ApplyInv, ApplyFailsInv DEF WriterStep
<1>2. ASSUME PusherStep PROVE IInv'
  BY <1>2, WakeInv, FindInv, PusherGivesUpInv, SendInv, AnswerLostInv, RemoveInv
     DEF PusherStep, SendBatch
<1> QED  BY <1>1, <1>2, OtherInv, CrashInv, StutterInv DEF Next

THEOREM Invariant == Spec => []IInv
BY InitInv, NextInv, PTL DEF Spec

(* Type correctness. *)
THEOREM TypeCorrect == Spec => []TypeOK
<1>1. IInv => TypeOK
  BY DEF IInv
<1> QED  BY Invariant, <1>1, PTL

(***************************************************************************)
(* Whatever fails and wherever the Manager is killed, what was applied to  *)
(* the cache is known to the Server or going to be sent to it.             *)
(***************************************************************************)
THEOREM AppliedIsQueuedAlways == Spec => []AppliedIsQueued
<1>1. IInv => AppliedIsQueued
  BY DEF IInv
<1> QED  BY Invariant, <1>1, PTL

-----------------------------------------------------------------------------
(* A step of the queue is a step of ReliableDelivery, or stutters. *)
LEMMA StepRefines ==
    ASSUME IInv, [Next]_vars
    PROVE  [Delivery!Next]_<<queue, handled>>
<1> USE DEF Delivery!Next, Delivery!Submit, Delivery!Deliver, Delivery!Forget
<1>1. ASSUME NEW w \in Writers, Insert(w) PROVE Delivery!Submit
  <2> DEFINE u == [stamp |-> writer[w].stamp, task |-> writer[w].task, pos |-> inserted + 1]
  <2>1. queue' = queue \cup {u} /\ UNCHANGED handled
    BY <1>1 DEF Insert, serverVars
  <2>2. u \notin queue \cup handled
    BY DEF IInv, TypeOK, PositionsUsed
  <2> QED  BY <2>1, <2>2
<1>2. ASSUME NEW w \in Writers,
             InsertFails(w) \/ Apply(w) \/ ApplyFails(w) \/ \E t \in Tasks : Stamp(w, t)
      PROVE  UNCHANGED <<queue, handled>>
  BY <1>2 DEF InsertFails, Apply, ApplyFails, Stamp, serverVars
<1>3. ASSUME NEW done \in Handleable(pusher.batch), Send(done) \/ AnswerLost(done)
      PROVE  Delivery!Deliver
  <2>1. done \subseteq queue
    BY <1>3, HandleableSubset DEF IInv, BatchKnown, Send, AnswerLost
  <2>2. handled' = handled \cup done /\ UNCHANGED queue
    BY <1>3 DEF Send, AnswerLost, Handle
  <2> QED  BY <2>1, <2>2
<1>4. ASSUME Remove PROVE Delivery!Forget
  BY <1>4 DEF IInv, BatchKnown, Remove, serverVars
<1>5. ASSUME \/ WakeByTimer \/ WakeByKick \/ CheckQueue \/ CountFails \/ Find \/ FindFails
             \/ SendFails \/ RemoveFails \/ Kick \/ Crash
             \/ \E i \in Intervals : TimePasses(i)
      PROVE  UNCHANGED <<queue, handled>>
  BY <1>5 DEF WakeByTimer, WakeByKick, CheckQueue, CountFails, Find, FindFails, SendFails,
              RemoveFails, Kick, Crash, TimePasses, serverVars
<1>6. ASSUME UNCHANGED vars PROVE UNCHANGED <<queue, handled>>
  BY <1>6 DEF vars
<1> QED  BY <1>1, <1>2, <1>3, <1>4, <1>5, <1>6 DEF Next, WriterStep, PusherStep, SendBatch

(***************************************************************************)
(* The update queue delivers reliably: it implements ReliableDelivery.     *)
(***************************************************************************)
THEOREM ImplementsDelivery == Spec => DeliverySpec
<1>1. Init => Delivery!Init
  BY DEF Init, Delivery!Init
<1>2. IInv /\ [Next]_vars => [Delivery!Next]_<<queue, handled>>
  BY StepRefines
<1> QED  BY <1>1, <1>2, Invariant, PTL DEF Spec, DeliverySpec, Delivery!Spec

-----------------------------------------------------------------------------
(***************************************************************************)
(* What the Server knows, when updates are queued one after the other and  *)
(* the Server handles a batch in order and up to the first it refuses.     *)
(***************************************************************************)
InOrder == (\A w, v \in Writers : w = v) /\ Accepts \in {"all", "prefix"}

(* Later updates are in later positions, and what is about to be queued is later. *)
StampedInOrder ==
    /\ \A u, v \in queue \cup handled : u.pos <= v.pos => u.stamp <= v.stamp
    /\ \A u \in queue \cup handled : u.stamp <= clock
    /\ \A w \in Writers : writer[w].pc = "insert" =>
           /\ writer[w].stamp <= clock
           /\ \A u \in queue \cup handled : u.stamp <= writer[w].stamp

(* A batch is a first part of the queue, as is what was removed of it so far. *)
SentInOrder ==
    /\ \A u \in handled \ queue, v \in queue : u.pos <= v.pos
    /\ pusher.pc \in {"send", "remove"} => \A u \in pusher.batch, v \in queue \ pusher.batch : u.pos <= v.pos

(* The Server may forget what it knew when it gets a batch again, but nothing *)
(* of what is removed, or about to be.                                        *)
RemovedIsLearned ==
    /\ \A u \in handled \ queue : server[u.task] >= u.stamp
    /\ pusher.pc = "remove" => \A u \in pusher.batch : server[u.task] >= u.stamp

OrderInv == InOrder /\ IsFiniteSet(queue) /\ StampedInOrder /\ SentInOrder /\ RemovedIsLearned

LEMMA OrderInitially == InOrder /\ Init => OrderInv
<1> SUFFICES ASSUME InOrder, Init PROVE IsFiniteSet(queue) /\ StampedInOrder /\ SentInOrder /\ RemovedIsLearned
  BY DEF OrderInv
<1>1. IsFiniteSet(queue)
  BY FS_EmptySet DEF Init
<1> QED  BY <1>1 DEF Init, StampedInOrder, SentInOrder, RemovedIsLearned, IdlePusher, IdleWriter

(* Nothing is queued, sent or removed. *)
LEMMA OrderLeft ==
    ASSUME OrderInv, UNCHANGED <<clock, queue, serverVars>>,
           \A w \in Writers : writer'[w] = writer[w] \/ writer'[w].pc # "insert",
           pusher' = pusher \/ pusher'.pc \notin {"send", "remove"}
    PROVE  OrderInv'
BY DEF OrderInv, InOrder, StampedInOrder, SentInOrder, RemovedIsLearned, serverVars

(* The updates that were queued first come before the others. *)
LEMMA FirstInOrder ==
    ASSUME IsFiniteSet(queue), queue \subseteq Updates, NEW u \in First(MaxCount), NEW v \in queue \ First(MaxCount)
    PROVE  u.pos <= v.pos
<1>1. u \in queue /\ u.pos \in Nat /\ v.pos \in Nat
  BY FirstSubset DEF Updates
<1> SUFFICES ASSUME v.pos < u.pos PROVE FALSE
  BY <1>1
<1> DEFINE before(x) == {y \in queue : y.pos < x.pos}
<1>2. before(v) \subseteq before(u) /\ IsFiniteSet(before(u))
  <2>1. \A y \in queue : y.pos \in Nat
    BY DEF Updates
  <2> QED  BY <1>1, <2>1, FS_Subset
<1>3. Cardinality(before(v)) <= Cardinality(before(u)) /\ Cardinality(before(v)) \in Nat /\ Cardinality(before(u)) \in Nat
  BY <1>2, FS_Subset, FS_CardinalityType
<1>4. Cardinality(before(u)) < MaxCount /\ ~(Cardinality(before(v)) < MaxCount)
  BY <1>1 DEF First
<1> HIDE DEF before
<1> QED  BY <1>3, <1>4, MaxCountAssumption

(* What the Server knows after a first part of a batch. *)
LEMMA HandledInOrder ==
    ASSUME IInv, OrderInv, pusher.pc = "send", NEW done \in Handleable(pusher.batch), Handle(done)
    PROVE  /\ \A u \in done, v \in queue \ done : u.pos <= v.pos
           /\ \A u \in done \cup (handled \ queue) : server'[u.task] >= u.stamp
<1>1. done \subseteq pusher.batch /\ pusher.batch \subseteq queue /\ queue \subseteq Updates /\ handled \subseteq Updates
  BY HandleableSubset DEF IInv, BatchKnown, TypeOK
<1>2. \A u \in queue \cup handled : u.pos \in Nat /\ u.stamp \in Nat /\ u.task \in Tasks /\ server[u.task] \in Nat
  BY <1>1 DEF Updates, Stamps, IInv, TypeOK
<1>3. \A u \in done, v \in queue \ done : u.pos <= v.pos
  <2> SUFFICES ASSUME NEW u \in done, NEW v \in queue \ done PROVE u.pos <= v.pos
    OBVIOUS
  <2>1. CASE v \notin pusher.batch
    BY <1>1, <2>1 DEF OrderInv, SentInOrder
  <2>2. CASE v \in pusher.batch
    <3>1. done \in Prefixes(pusher.batch)
      BY <2>2 DEF Handleable, OrderInv, InOrder
    <3> QED  BY <1>1, <1>2, <2>2, <3>1 DEF Prefixes
  <2> QED  BY <2>1, <2>2
<1>4. ASSUME NEW u \in done \cup (handled \ queue) PROVE server'[u.task] >= u.stamp
  <2> DEFINE about == {o \in done : o.task = u.task}
  <2>0. server'[u.task] \in Learned(done, u.task) /\ u \in queue \cup handled
    BY <1>1, <1>2 DEF Handle
  <2>1. CASE about = {}
    BY <1>2, <2>0, <2>1 DEF Learned, OrderInv, RemovedIsLearned
  <2>2. CASE about # {}
    <3>1. PICK last \in about : server'[u.task] = last.stamp /\ \A o \in about : o.pos <= last.pos
      BY <2>0, <2>2 DEF Learned
    <3>2. u.pos <= last.pos
      BY <1>1, <3>1 DEF OrderInv, SentInOrder
    <3>3. u.stamp <= last.stamp
      BY <1>1, <2>0, <3>2 DEF OrderInv, StampedInOrder
    <3> QED  BY <1>1, <1>2, <2>0, <3>1, <3>3
  <2> QED  BY <2>1, <2>2
<1> QED  BY <1>3, <1>4

LEMMA OrderKept == IInv /\ OrderInv /\ [Next]_vars => OrderInv'
<1> SUFFICES ASSUME IInv, OrderInv, [Next]_vars PROVE OrderInv'
  OBVIOUS
<1>0. /\ \A u \in queue \cup handled : u.pos \in Nat /\ u.stamp \in Nat /\ u.task \in Tasks
      /\ clock \in Nat /\ inserted \in Nat /\ writer \in [Writers -> WriterStates]
      /\ \A w \in Writers : writer[w].stamp \in Nat
  BY DEF IInv, TypeOK, Updates, Stamps, WriterStates
<1>1. ASSUME NEW w \in Writers, NEW t \in Tasks, Stamp(w, t) PROVE OrderInv'
  <2>1. /\ clock' = clock + 1 /\ writer'[w].stamp = clock + 1 /\ \A v \in Writers : v = w
        /\ UNCHANGED <<queue, handled, server, pusher>>
    BY <1>0, <1>1 DEF Stamp, OrderInv, InOrder, pushVars, serverVars
  <2>2. \A u \in queue \cup handled : u.stamp <= clock + 1
    BY <1>0 DEF OrderInv, StampedInOrder
  <2>3. StampedInOrder'
    BY <1>0, <2>1, <2>2 DEF OrderInv, StampedInOrder
  <2> QED  BY <2>1, <2>3 DEF OrderInv, InOrder, SentInOrder, RemovedIsLearned
<1>2. ASSUME NEW w \in Writers, Insert(w) PROVE OrderInv'
  <2> DEFINE new == [stamp |-> writer[w].stamp, task |-> writer[w].task, pos |-> inserted + 1]
  <2>1. /\ queue' = queue \cup {new} /\ UNCHANGED <<clock, handled, server, pusher>>
        /\ \A v \in Writers : writer'[v].pc # "insert"
    BY <1>0, <1>2 DEF Insert, pushVars, serverVars, OrderInv, InOrder, WriterStates
  <2>2. \A u \in queue \cup handled : u.pos < new.pos /\ u.stamp <= new.stamp
    BY <1>0, <1>2 DEF IInv, PositionsUsed, OrderInv, StampedInOrder, Insert
  <2>3. new.stamp <= clock /\ new.stamp \in Nat /\ new.pos \in Nat
    BY <1>0, <1>2 DEF OrderInv, StampedInOrder, Insert
  <2>4. IsFiniteSet(queue')
    BY <2>1, FS_AddElement DEF OrderInv
  <2>5. new \notin queue \cup handled
    BY <1>0, <2>2, <2>3
  <2> HIDE DEF new
  <2>6. StampedInOrder'
    BY <1>0, <2>1, <2>2, <2>3 DEF OrderInv, StampedInOrder
  <2>7. SentInOrder'
    <3>1. pusher.pc \in {"send", "remove"} => pusher.batch \subseteq queue \cup handled
      BY DEF IInv, BatchKnown
    <3> QED  BY <1>0, <2>1, <2>2, <2>3, <3>1 DEF OrderInv, SentInOrder
  <2>8. RemovedIsLearned'
    BY <2>1 DEF OrderInv, RemovedIsLearned
  <2> QED  BY <2>4, <2>6, <2>7, <2>8 DEF OrderInv, InOrder
<1>3. ASSUME NEW w \in Writers, InsertFails(w) \/ Apply(w) \/ ApplyFails(w) PROVE OrderInv'
  <2>1. \A v \in Writers : writer'[v] = writer[v] \/ writer'[v].pc # "insert"
    BY <1>0, <1>3 DEF InsertFails, Apply, ApplyFails, WriterStates
  <2> QED  BY <1>3, <2>1, OrderLeft DEF InsertFails, Apply, ApplyFails, pushVars
<1>4. CASE Find
  <2>1. pusher'.pc = "send" /\ pusher'.batch = First(MaxCount) /\ UNCHANGED <<queue, queueVars, serverVars>>
    BY <1>4 DEF Find, IInv, TypeOK, PusherStates
  <2>2. \A u \in First(MaxCount), v \in queue \ First(MaxCount) : u.pos <= v.pos
    BY FirstInOrder DEF OrderInv, IInv, TypeOK
  <2>3. SentInOrder'
    BY <2>1, <2>2 DEF OrderInv, SentInOrder, serverVars
  <2> QED  BY <2>1, <2>3 DEF OrderInv, InOrder, StampedInOrder, RemovedIsLearned, queueVars, serverVars
<1>5. ASSUME NEW done \in Handleable(pusher.batch), Send(done) \/ AnswerLost(done) PROVE OrderInv'
  <2>1. pusher.pc = "send" /\ Handle(done) /\ UNCHANGED <<queue, queueVars>>
    BY <1>5 DEF Send, AnswerLost
  <2>2. done \subseteq queue /\ handled' = handled \cup done
    BY <2>1, HandledKnown
  <2>3. /\ \A u \in done, v \in queue \ done : u.pos <= v.pos
        /\ \A u \in done \cup (handled \ queue) : server'[u.task] >= u.stamp
    BY <2>1, HandledInOrder
  <2>4. pusher'.pc = "idle" \/ (pusher'.pc = "remove" /\ pusher'.batch = done)
    <3>1. CASE Send(done)
      <4>1. pusher' = [pusher EXCEPT !.pc = "remove", !.batch = done] /\ pusher \in PusherStates
        BY <3>1 DEF Send, IInv, TypeOK
      <4> QED  BY <4>1 DEF PusherStates
    <3>2. CASE AnswerLost(done)
      BY <3>2 DEF AnswerLost, IdlePusher
    <3> QED  BY <1>5, <3>1, <3>2
  <2>5. queue \cup handled = queue' \cup handled' /\ handled' \ queue' = handled \ queue
    BY <2>1, <2>2
  <2>6. StampedInOrder'
    BY <2>1, <2>5 DEF OrderInv, StampedInOrder, queueVars
  <2>7. SentInOrder'
    BY <2>1, <2>3, <2>4, <2>5 DEF OrderInv, SentInOrder
  <2>8. RemovedIsLearned'
    BY <2>3, <2>4, <2>5 DEF RemovedIsLearned
  <2> QED  BY <2>1, <2>6, <2>7, <2>8 DEF OrderInv, InOrder
<1>6. CASE Remove
  <2>1. /\ pusher.pc = "remove" /\ queue' = queue \ pusher.batch /\ pusher'.pc = "idle"
        /\ UNCHANGED <<queueVars, serverVars>> /\ pusher.batch \subseteq handled
    BY <1>6 DEF Remove, IdlePusher, IInv, BatchKnown
  <2>2. IsFiniteSet(queue')
    BY <2>1, FS_Subset DEF OrderInv
  <2>3. handled' \ queue' = (handled \ queue) \cup pusher.batch /\ queue' \cup handled' = queue \cup handled
    BY <2>1 DEF serverVars
  <2>4. StampedInOrder'
    BY <2>1, <2>3 DEF OrderInv, StampedInOrder, queueVars
  <2>5. SentInOrder'
    BY <2>1, <2>3 DEF OrderInv, SentInOrder
  <2>6. RemovedIsLearned'
    BY <2>1, <2>3 DEF OrderInv, RemovedIsLearned, serverVars
  <2> QED  BY <2>2, <2>4, <2>5, <2>6 DEF OrderInv, InOrder
<1>7. CASE WakeByTimer \/ WakeByKick \/ CheckQueue \/ CountFails \/ FindFails \/ SendFails \/ RemoveFails
  <2>1. pusher'.pc \in {"idle", "count", "find"}
    <3>1. CASE WakeByTimer \/ WakeByKick \/ CheckQueue
      <4>1. CASE CheckQueue
        <5>1. [pusher EXCEPT !.pc = "find"].pc = "find"
          BY DEF IInv, TypeOK, PusherStates
        <5> QED  BY <4>1, <5>1 DEF CheckQueue, IdlePusher
      <4> QED  BY <3>1, <4>1 DEF WakeByTimer, WakeByKick, IdlePusher
    <3>2. CASE CountFails \/ FindFails \/ SendFails \/ RemoveFails
      BY <3>2 DEF CountFails, FindFails, SendFails, RemoveFails, IdlePusher
    <3> QED  BY <1>7, <3>1, <3>2
  <2>2. UNCHANGED <<clock, writer, queue, serverVars>>
    BY <1>7 DEF WakeByTimer, WakeByKick, CheckQueue, CountFails, FindFails, SendFails, RemoveFails, queueVars
  <2> QED  BY <2>1, <2>2, OrderLeft
<1>8. CASE Crash
  <2>1. pusher'.pc = "idle" /\ \A w \in Writers : writer'[w].pc = "idle"
    BY <1>0, <1>8 DEF Crash, IdlePusher, WriterStates
  <2> QED  BY <1>8, <2>1, OrderLeft DEF Crash
<1>9. CASE Kick \/ (\E i \in Intervals : TimePasses(i)) \/ UNCHANGED vars
  BY <1>9, OrderLeft DEF Kick, TimePasses, vars, queueVars, serverVars
<1> QED  BY <1>1, <1>2, <1>3, <1>4, <1>5, <1>6, <1>7, <1>8, <1>9 DEF Next, WriterStep, PusherStep, SendBatch

(***************************************************************************)
(* When the queue is empty the Server knows all that was applied to the    *)
(* cache, whatever was sent twice, lost or cut short: if updates of a task *)
(* are queued in the order of their stamps, and the Server keeps to it.    *)
(***************************************************************************)
THEOREM ServerCaughtUpAlways == InOrder /\ Spec => []ServerCaughtUp
<1>1. IInv /\ OrderInv => ServerCaughtUp
  <2> SUFFICES ASSUME IInv, OrderInv, queue = {}, NEW t \in Tasks PROVE server[t] >= cache[t]
    BY DEF ServerCaughtUp
  <2>1. server[t] \in Nat /\ cache[t] \in Nat
    BY DEF IInv, TypeOK, Stamps
  <2>2. CASE cache[t] = 0
    BY <2>1, <2>2
  <2>3. CASE cache[t] # 0
    <3>1. PICK u \in handled \ queue : u.task = t /\ u.stamp = cache[t]
      BY <2>3 DEF IInv, AppliedIsQueued
    <3> QED  BY <3>1 DEF OrderInv, RemovedIsLearned
  <2> QED  BY <2>2, <2>3
<1> QED  BY <1>1, Invariant, OrderInitially, OrderKept, PTL DEF Spec
=============================================================================
