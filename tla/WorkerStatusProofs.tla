------------------------- MODULE WorkerStatusProofs -------------------------
(* Theorems about the statuses of workers, for any workers, requests,         *)
(* schedules and times, any length of day and week, and whatever interleaves  *)
(* with the handlers and the loops: the next check of a schedule with a start *)
(* and an end is never too late; the types; a request is kept until its       *)
(* worker is told of it; and a worker that sleeps gets no task.               *)
EXTENDS WorkerStatus, TLAPS

-----------------------------------------------------------------------------
(* Times of day. *)

(* A schedule as users set it, with a start and an end or with neither. *)
Complete(schedule) ==
    /\ schedule.start \in TimesOfDay \cup {None}
    /\ schedule.end \in TimesOfDay \cup {None}
    /\ (schedule.start = None) <=> (schedule.end = None)

(* From a moment on, what comes before the next time of day comes before that time. *)
LEMMA UntilNext ==
    ASSUME NEW moment \in Moments, NEW tod \in TimesOfDay, NEW m \in Moments,
           ~Before(m, moment), Before(m, CalcNext(tod, moment)), Before(m, NextDay(moment))
    PROVE  m.day = moment.day /\ (m.tod < tod <=> moment.tod < tod)
<1>1. /\ m.day \in Nat /\ moment.day \in Nat
      /\ m.tod \in Nat /\ moment.tod \in Nat /\ m.tod < Hours /\ moment.tod < Hours
      /\ tod \in Nat /\ Hours \in Nat
  BY SleepScheduleAssumption DEF Moments, TimesOfDay
<1>2. m.day = moment.day /\ moment.tod <= m.tod
  BY <1>1 DEF Before, NextDay
<1>3. CASE tod = Hours
  BY <1>1, <1>2, <1>3
<1>4. CASE tod # Hours
  <2>1. CalcNext(tod, moment) = [day |-> IF tod <= moment.tod THEN moment.day + 1 ELSE moment.day, tod |-> tod]
    BY <1>4 DEF CalcNext
  <2> QED  BY <1>1, <1>2, <2>1 DEF Before
<1> QED  BY <1>3, <1>4

LEMMA NextTyped ==
    ASSUME NEW moment \in Moments, NEW tod \in TimesOfDay
    PROVE  CalcNext(tod, moment) \in Moments /\ NextDay(moment) \in Moments
BY SleepScheduleAssumption DEF CalcNext, NextDay, Moments, TimesOfDay

LEMMA BeforeEarliest ==
    ASSUME NEW m \in Moments, NEW a \in Moments, NEW b \in Moments, Before(m, Earliest(a, b))
    PROVE  Before(m, a) /\ Before(m, b)
<1>1. /\ m.day \in Nat /\ a.day \in Nat /\ b.day \in Nat
      /\ m.tod \in Int /\ a.tod \in Int /\ b.tod \in Int
  BY SleepScheduleAssumption DEF Moments
<1> QED  BY <1>1 DEF Before, Earliest

LEMMA EarliestTyped ==
    ASSUME NEW a \in Moments, NEW b \in Moments
    PROVE  Earliest(a, b) \in Moments
BY DEF Earliest

LEMMA Midnight ==
    ASSUME NEW moment
    PROVE  CalcNext(Hours, moment) = NextDay(moment)
BY DEF CalcNext

(* Until the next check a complete schedule wants what it wanted at the moment of the last one. *)
LEMMA WantedUntilNextCheck ==
    ASSUME NEW schedule, Complete(schedule), NEW moment \in Moments, NEW m \in Moments,
           ~Before(m, moment), Before(m, NextCheck(schedule, moment))
    PROVE  ScheduledStatus(schedule, m) = ScheduledStatus(schedule, moment)
<1>0. NextDay(moment) \in Moments
  BY NextTyped, SleepScheduleAssumption DEF TimesOfDay
<1>1. CASE schedule.start = None
  <2>1. Before(m, NextDay(moment)) /\ schedule.end = None
    BY <1>1, Midnight DEF NextCheck, Complete
  <2>2. m.day = moment.day
    BY <2>1, SleepScheduleAssumption DEF Before, NextDay, Moments
  <2>3. Weekday(m) = Weekday(moment)
    BY <2>2 DEF Weekday
  <2> QED  BY <1>1, <2>1, <2>3 DEF ScheduledStatus
<1>2. CASE schedule.start # None
  <2>1. schedule.start \in TimesOfDay /\ schedule.end \in TimesOfDay
    BY <1>2 DEF Complete
  <2> DEFINE a == CalcNext(schedule.start, moment)
             b == CalcNext(schedule.end, moment)
  <2>2. a \in Moments /\ b \in Moments /\ Earliest(a, b) \in Moments
    BY <2>1, NextTyped, EarliestTyped
  <2>3. NextCheck(schedule, moment) = Earliest(Earliest(a, b), NextDay(moment))
    BY <1>2, <2>1, Midnight, SleepScheduleAssumption DEF NextCheck, TimesOfDay
  <2> HIDE DEF a, b
  <2>4. Before(m, a) /\ Before(m, b) /\ Before(m, NextDay(moment))
    BY <1>0, <2>2, <2>3, BeforeEarliest
  <2>5. /\ m.day = moment.day
        /\ m.tod < schedule.start <=> moment.tod < schedule.start
        /\ m.tod < schedule.end <=> moment.tod < schedule.end
    BY <2>1, <2>4, UntilNext DEF a, b
  <2>6. Weekday(m) = Weekday(moment)
    BY <2>5 DEF Weekday
  <2>7. m.tod >= schedule.end <=> moment.tod >= schedule.end
    BY <2>1, <2>5, SleepScheduleAssumption DEF Moments, TimesOfDay
  <2> QED  BY <2>5, <2>6, <2>7 DEF ScheduledStatus
<1> QED  BY <1>1, <1>2

-----------------------------------------------------------------------------
(* The schedules of the system. *)

(* Every schedule that users set has a start and an end, or neither. *)
WholeSchedules == \A start \in Starts, end \in Ends : (start = None) <=> (end = None)

Schedules == {schedule \in ScheduleType : Complete(schedule)}

(* A schedule that a handler has in its hands. *)
CallsTyped ==
    /\ DOMAIN call = Handlers
    /\ \A h \in Handlers : call[h] # NoCall =>
           /\ {"kind", "worker", "schedule"} \subseteq DOMAIN call[h]
           /\ call[h].worker \in Workers
           /\ call[h].kind = "schedule" => call[h].schedule \in Schedules

(* Those that are stored, and those that the loop has found. *)
SchedulesTyped ==
    /\ sched \in [Workers -> Schedules]
    /\ now \in Moments
    /\ \A w \in Workers : refresh[w] # None => refresh[w].sched \in Schedules
    /\ DOMAIN followed = Workers

(* Nothing changes for a schedule between now and its next check. *)
FollowedUntilNext ==
    \A w \in Workers : sched[w].active =>
        \A m \in Moments : ~Before(m, now) /\ Before(m, sched[w].next) => ScheduledStatus(sched[w], m) = followed[w]

IInv == WholeSchedules /\ CallsTyped /\ SchedulesTyped /\ FollowedUntilNext

LEMMA IInvInitially == WholeSchedules /\ Init => IInv
<1> SUFFICES ASSUME WholeSchedules, Init PROVE IInv
  OBVIOUS
<1>1. [day |-> 0, tod |-> 0] \in Moments
  BY SleepScheduleAssumption DEF Moments
<1>2. NoSchedule \in Schedules
  BY <1>1 DEF NoSchedule, Schedules, ScheduleType, Complete
<1>3. NoSchedule.active = FALSE
  BY DEF NoSchedule
<1> HIDE DEF NoSchedule
<1>4. SchedulesTyped
  BY <1>1, <1>2 DEF Init, SchedulesTyped
<1>5. FollowedUntilNext
  BY <1>3 DEF Init, FollowedUntilNext
<1> QED  BY <1>4, <1>5 DEF Init, IInv, CallsTyped

-----------------------------------------------------------------------------
(* Calls that arrive, go on and end. *)

LEMMA ArriveKept ==
    ASSUME CallsTyped, NEW h \in Handlers, NEW kind, NEW w \in Workers, NEW copy, NEW status, NEW schedule,
           kind = "schedule" => schedule \in Schedules, Arrive(h, kind, w, copy, status, schedule)
    PROVE  CallsTyped'
<1> DEFINE arrived == [step |-> "copied", kind |-> kind, worker |-> w, copy |-> copy, status |-> status, schedule |-> schedule]
<1>1. call' = [call EXCEPT ![h] = arrived]
  BY DEF Arrive
<1>2. {"kind", "worker", "schedule"} \subseteq DOMAIN arrived /\ arrived.kind = kind /\ arrived.worker = w /\ arrived.schedule = schedule
  OBVIOUS
<1> HIDE DEF arrived
<1> QED  BY <1>1, <1>2 DEF CallsTyped

LEMMA GoOnKept ==
    ASSUME CallsTyped, NEW h \in Handlers, call[h] # NoCall, NEW step, GoOn(h, step)
    PROVE  CallsTyped'
<1>1. call' = [call EXCEPT ![h] = [call[h] EXCEPT !.step = step]]
  BY DEF GoOn, CallsTyped
<1> DEFINE next == [call[h] EXCEPT !.step = step]
<1>2. /\ DOMAIN next = DOMAIN call[h]
      /\ {"kind", "worker", "schedule"} \subseteq DOMAIN call[h]
      /\ next.kind = call[h].kind /\ next.worker = call[h].worker /\ next.schedule = call[h].schedule
  BY DEF CallsTyped
<1> HIDE DEF next
<1>3. call' = [call EXCEPT ![h] = next]
  BY <1>1 DEF next
<1> QED  BY <1>2, <1>3 DEF CallsTyped

LEMMA EndKept ==
    ASSUME CallsTyped, NEW h \in Handlers, call' = [call EXCEPT ![h] = NoCall]
    PROVE  CallsTyped'
BY DEF CallsTyped

(* What does not touch the schedules, nor the time. *)
LEMMA SchedulesKept ==
    ASSUME SchedulesTyped, FollowedUntilNext, UNCHANGED <<schedulers, now>>
    PROVE  SchedulesTyped' /\ FollowedUntilNext'
BY DEF SchedulesTyped, FollowedUntilNext, schedulers

(* A schedule is stored with its next check, from a handler or from the loop. *)
LEMMA StoreKept ==
    ASSUME SchedulesTyped, FollowedUntilNext, NEW w \in Workers, NEW schedule \in Schedules,
           StoreSchedule(w, schedule), UNCHANGED <<now, refresh>>
    PROVE  SchedulesTyped' /\ FollowedUntilNext'
<1> DEFINE stored == [schedule EXCEPT !.next = NextCheck(schedule, now)]
<1>1. now \in Moments /\ schedule \in ScheduleType /\ Complete(schedule)
  BY DEF SchedulesTyped, Schedules
<1>2. NextCheck(schedule, now) \in Moments
  <2>1. \A tod \in TimesOfDay : CalcNext(tod, now) \in Moments
    BY <1>1, NextTyped
  <2>2. Hours \in TimesOfDay
    BY SleepScheduleAssumption DEF TimesOfDay
  <2>3. CASE schedule.start = None
    BY <1>1, <2>1, <2>2, <2>3 DEF NextCheck, Complete
  <2>4. CASE schedule.start # None
    <3>1. schedule.start \in TimesOfDay /\ schedule.end \in TimesOfDay /\ schedule.end # None
      BY <1>1, <2>4 DEF Complete
    <3> QED  BY <2>1, <2>2, <2>4, <3>1, EarliestTyped DEF NextCheck
  <2> QED  BY <2>3, <2>4
<1>3. /\ stored \in ScheduleType /\ stored.next = NextCheck(schedule, now)
      /\ stored.active = schedule.active /\ stored.days = schedule.days
      /\ stored.start = schedule.start /\ stored.end = schedule.end
  BY <1>1, <1>2 DEF ScheduleType
<1>4. sched' = [sched EXCEPT ![w] = stored] /\ followed' = [followed EXCEPT ![w] = ScheduledStatus(schedule, now)]
  BY DEF StoreSchedule
<1> HIDE DEF stored
<1>5. stored \in Schedules
  BY <1>1, <1>3 DEF Schedules, Complete
<1>6. SchedulesTyped'
  BY <1>4, <1>5 DEF SchedulesTyped
<1>7. ASSUME NEW m \in Moments, ~Before(m, now), Before(m, stored.next)
      PROVE  ScheduledStatus(stored, m) = ScheduledStatus(schedule, now)
  <2>1. ScheduledStatus(schedule, m) = ScheduledStatus(schedule, now)
    BY <1>1, <1>3, <1>7, WantedUntilNextCheck
  <2>2. ScheduledStatus(stored, m) = ScheduledStatus(schedule, m)
    BY <1>3 DEF ScheduledStatus
  <2> QED  BY <2>1, <2>2
<1>8. /\ sched'[w] = stored /\ followed'[w] = ScheduledStatus(schedule, now)
      /\ \A v \in Workers \ {w} : sched'[v] = sched[v] /\ followed'[v] = followed[v]
  BY <1>4 DEF SchedulesTyped
<1>9. FollowedUntilNext'
  BY <1>7, <1>8 DEF FollowedUntilNext
<1> QED  BY <1>6, <1>9

-----------------------------------------------------------------------------
LEMMA IInvKept == IInv /\ [Next]_vars => IInv'
<1> SUFFICES ASSUME IInv, [Next]_vars PROVE CallsTyped' /\ SchedulesTyped' /\ FollowedUntilNext'
  BY DEF IInv, WholeSchedules
<1> USE DEF IInv
<1>1. ASSUME UNCHANGED <<call, schedulers, now>> PROVE CallsTyped' /\ SchedulesTyped' /\ FollowedUntilNext'
  BY <1>1, SchedulesKept DEF CallsTyped
<1>2. ASSUME NEW w \in Workers, NEW h \in Handlers,
             \/ SignOn(w, h) \/ AskTask(w, h) \/ AskMayRun(w, h) \/ AskStatus(w, h)
             \/ Acknowledge(w, h) \/ ShutDown(w, h) \/ Leave(w, h) \/ AckTimeout(w, h)
      PROVE  CallsTyped' /\ SchedulesTyped' /\ FollowedUntilNext'
  <2>1. \E kind \in Kinds \ {"schedule"} : \E copy, status, schedule : Arrive(h, kind, w, copy, status, schedule)
    BY <1>2 DEF SignOn, AskTask, AskMayRun, AskStatus, Acknowledge, ShutDown, Leave, Leaving, AckTimeout, Ask, Kinds
  <2>2. UNCHANGED <<schedulers, now>>
    BY <1>2 DEF SignOn, AskTask, AskMayRun, AskStatus, Acknowledge, ShutDown, Leave, AckTimeout
  <2> QED  BY <2>1, <2>2, ArriveKept, SchedulesKept
(* What users set is whole, and has this moment as its next check until it is stored. *)
<1>3. ASSUME NEW w \in Workers, NEW h \in Handlers, SetSchedule(w, h)
      PROVE  CallsTyped' /\ SchedulesTyped' /\ FollowedUntilNext'
  <2>1. PICK active \in BOOLEAN, days \in DaySets, start \in Starts, end \in Ends :
            Arrive(h, "schedule", w, CopyOf(w), None,
                   [active |-> active, days |-> days, start |-> start, end |-> end, next |-> now])
    BY <1>3 DEF SetSchedule
  <2> DEFINE schedule == [active |-> active, days |-> days, start |-> start, end |-> end, next |-> now]
  <2>2. schedule \in ScheduleType
    BY WorkerStatusAssumption DEF ScheduleType, SchedulesTyped
  <2>3. Complete(schedule)
    BY WorkerStatusAssumption DEF Complete, WholeSchedules
  <2>4. schedule \in Schedules
    BY <2>2, <2>3 DEF Schedules
  <2> HIDE DEF schedule
  <2>5. Arrive(h, "schedule", w, CopyOf(w), None, schedule)
    BY <2>1 DEF schedule
  <2>6. UNCHANGED <<schedulers, now>>
    BY <1>3 DEF SetSchedule
  <2> QED  BY <2>4, <2>5, <2>6, ArriveKept, SchedulesKept
<1>4. ASSUME NEW h \in Handlers,
             \/ HandleSignOn(h) \/ HandleTask(h) \/ HandleMayRun(h) \/ HandleGetStatus(h) \/ HandleAck(h)
             \/ RequestSleepAgain(h) \/ HandleAckTimeout(h) \/ HandleScheduleStored(h)
      PROVE  CallsTyped' /\ SchedulesTyped' /\ FollowedUntilNext'
  <2>1. call' = [call EXCEPT ![h] = NoCall]
    BY <1>4 DEF HandleSignOn, HandleTask, HandleMayRun, HandleGetStatus, HandleAck, RequestSleepAgain, HandleAckTimeout,
                HandleScheduleStored, Answered
  <2>2. UNCHANGED <<schedulers, now>>
    BY <1>4 DEF HandleSignOn, HandleTask, HandleMayRun, HandleGetStatus, HandleAck, RequestSleepAgain, HandleAckTimeout,
                HandleScheduleStored
  <2> QED  BY <2>1, <2>2, EndKept, SchedulesKept
<1>5. ASSUME NEW h \in Handlers, SetAwake(h) \/ HandleSignOff(h)
      PROVE  CallsTyped' /\ SchedulesTyped' /\ FollowedUntilNext'
  <2>1. call[h] # NoCall
    BY <1>5 DEF SetAwake, HandleSignOff, At
  <2>2. (\E step : GoOn(h, step)) \/ call' = [call EXCEPT ![h] = NoCall]
    BY <1>5 DEF SetAwake, HandleSignOff, Answered
  <2>3. UNCHANGED <<schedulers, now>>
    BY <1>5 DEF SetAwake, HandleSignOff
  <2> QED  BY <2>1, <2>2, <2>3, GoOnKept, EndKept, SchedulesKept
<1>6. ASSUME NEW h \in Handlers, HandleSchedule(h)
      PROVE  CallsTyped' /\ SchedulesTyped' /\ FollowedUntilNext'
  <2>1. call[h] # NoCall /\ call[h].worker \in Workers /\ call[h].schedule \in Schedules
    BY <1>6 DEF HandleSchedule, At, CallsTyped
  <2>2. StoreSchedule(call[h].worker, call[h].schedule) /\ GoOn(h, "stored") /\ UNCHANGED <<now, refresh>>
    BY <1>6 DEF HandleSchedule
  <2> QED  BY <2>1, <2>2, GoOnKept, StoreKept
<1>7. CASE RefreshAllWorkers
  <2>1. \A w \in Workers : refresh'[w] # None => refresh'[w].sched = sched[w]
    BY <1>7 DEF RefreshAllWorkers
  <2>2. UNCHANGED <<sched, now, call, followed>>
    BY <1>7 DEF RefreshAllWorkers
  <2> QED  BY <2>1, <2>2 DEF CallsTyped, SchedulesTyped, FollowedUntilNext
<1>8. ASSUME NEW w \in Workers, RefreshWorker(w)
      PROVE  CallsTyped' /\ SchedulesTyped' /\ FollowedUntilNext'
  <2>1. refresh[w].sched \in Schedules
    BY <1>8 DEF RefreshWorker, SchedulesTyped
  <2>2. StoreSchedule(w, refresh[w].sched) /\ UNCHANGED <<now, call, refresh>>
    BY <1>8 DEF RefreshWorker
  <2> QED  BY <2>1, <2>2, StoreKept DEF CallsTyped
<1>9. ASSUME NEW w \in Workers, RefreshRequest(w)
      PROVE  CallsTyped' /\ SchedulesTyped' /\ FollowedUntilNext'
  <2>1. UNCHANGED <<sched, now, call, followed>> /\ refresh' = [refresh EXCEPT ![w] = None]
    BY <1>9 DEF RefreshRequest
  <2>2. \A v \in Workers : refresh'[v] # None => refresh'[v].sched \in Schedules
    BY <2>1 DEF SchedulesTyped
  <2> QED  BY <2>1, <2>2 DEF CallsTyped, SchedulesTyped, FollowedUntilNext
(* Later there are fewer moments before the next check. *)
<1>10. CASE TimePasses
  <2>1. now' \in Moments
    BY <1>10, SleepScheduleAssumption DEF TimePasses, NextDay, SchedulesTyped, Moments
  <2>2. \A m \in Moments : Before(m, now) => Before(m, now')
    BY <1>10, SleepScheduleAssumption DEF TimePasses, NextDay, SchedulesTyped, Moments, Before
  <2>3. UNCHANGED <<sched, call, refresh, followed>>
    BY <1>10 DEF TimePasses, schedulers
  <2> QED  BY <2>1, <2>2, <2>3 DEF CallsTyped, SchedulesTyped, FollowedUntilNext
<1>11. ASSUME NEW w \in Workers,
              \/ FinishTask(w) \/ Kill(w) \/ FallSilent(w) \/ CheckTask(w) \/ Timeout(w) \/ RemoveWorker(w) \/ ForgetWorker(w)
              \/ \E status \in Requestable, lazy \in BOOLEAN : RequestStatusChange(w, status, lazy)
       PROVE  UNCHANGED <<call, schedulers, now>>
  BY <1>11 DEF FinishTask, Kill, FallSilent, CheckTask, Timeout, RemoveWorker, ForgetWorker, RequestStatusChange
<1>12. CASE CheckWorkers \/ CleanupWorkers
  BY <1>1, <1>12 DEF CheckWorkers, CleanupWorkers
<1>13. CASE UNCHANGED vars
  BY <1>1, <1>13 DEF vars, schedulers
<1> QED
  BY <1>1, <1>2, <1>3, <1>4, <1>5, <1>6, <1>7, <1>8, <1>9, <1>10, <1>11, <1>12, <1>13 DEF Next, Asks, Handle

(* Until the next check nothing changes for a schedule, also when it was set, *)
(* refreshed or forgotten meanwhile.                                          *)
THEOREM Invariant == WholeSchedules /\ Spec => []IInv
<1> QED  BY IInvInitially, IInvKept, PTL DEF Spec

(* The next check of a schedule is never too late, if schedules have a start  *)
(* and an end, or neither.                                                    *)
THEOREM NextCheckInTimeAlways == WholeSchedules /\ Spec => []NextCheckInTime
<1>1. IInv => NextCheckInTime
  <2> SUFFICES ASSUME IInv, NEW w \in Workers, db[w].status # "gone", sched[w].active, ~Due(w)
               PROVE  ScheduledStatus(sched[w], now) = followed[w]
    BY DEF NextCheckInTime
  <2>1. Before(now, sched[w].next)
    BY DEF Due
  <2>2. now \in Moments /\ ~Before(now, now)
    BY SleepScheduleAssumption DEF IInv, SchedulesTyped, Moments, Before
  <2> QED  BY <2>1, <2>2 DEF IInv, FollowedUntilNext
<1> QED  BY <1>1, Invariant, PTL
-----------------------------------------------------------------------------
(* Types. *)

(* Workers acknowledge a status they can have. *)
AckStatus ==
    \A h \in Handlers : call[h] # NoCall /\ call[h].kind = "ack" => call[h].status \in {"awake", "asleep"}

(* The worker that is being refreshed is one of those that the query has found. *)
RefreshingFound == refreshing # None => refresh[refreshing] # None

WorkersTyped ==
    /\ db \in [Workers -> WorkerType]
    /\ client \in [Workers -> ClientType]
    /\ kept \in [Workers -> Requestable \cup {None}]
    /\ sleeps \in [Workers -> BOOLEAN]
    /\ events \in 0 .. MaxEvents

RequestsTyped == call \in [Handlers -> {NoCall} \cup CallType] /\ AckStatus

LoopsTyped ==
    /\ sched \in [Workers -> ScheduleType]
    /\ now \in Moments
    /\ refresh \in [Workers -> {None} \cup [copy : CopyType, sched : ScheduleType]]
    /\ refreshing \in Workers \cup {None}
    /\ checker \in [Workers -> {None} \cup CopyType]
    /\ remover \in SUBSET Workers
    /\ followed \in [Workers -> {"awake", "asleep", None}]
    /\ RefreshingFound

TInv == WorkersTyped /\ RequestsTyped /\ LoopsTyped

LEMMA TInvInitially == Init => TInv
<1> SUFFICES ASSUME Init PROVE TInv
  OBVIOUS
<1>1. [day |-> 0, tod |-> 0] \in Moments
  BY SleepScheduleAssumption DEF Moments
<1>2. NoSchedule \in ScheduleType
  BY <1>1 DEF NoSchedule, ScheduleType
<1>3. WorkersTyped
  BY WorkerStatusAssumption DEF Init, WorkersTyped, WorkerType, ClientType, Statuses, Requests, Silences
<1>4. RequestsTyped
  BY DEF Init, RequestsTyped, AckStatus
<1>5. LoopsTyped
  BY <1>1, <1>2 DEF Init, LoopsTyped, RefreshingFound
<1> QED  BY <1>3, <1>4, <1>5 DEF TInv

LEMMA WriteTyped ==
    ASSUME db \in [Workers -> WorkerType], NEW w \in Workers, NEW worker \in WorkerType, Write(w, worker)
    PROVE  db' \in [Workers -> WorkerType]
BY DEF Write

LEMMA CopyTyped ==
    ASSUME WorkersTyped
    PROVE  NoCopy \in CopyType /\ \A w \in Workers : CopyOf(w) \in CopyType
BY DEF WorkersTyped, NoCopy, CopyOf, CopyType, WorkerType, Requests

LEMMA ArriveTyped ==
    ASSUME RequestsTyped, NEW h \in Handlers, NEW kind \in Kinds, NEW w \in Workers, NEW copy \in CopyType,
           NEW status \in Requests, NEW schedule \in ScheduleType, Arrive(h, kind, w, copy, status, schedule),
           kind = "ack" => status \in {"awake", "asleep"}
    PROVE  RequestsTyped'
<1> DEFINE arrived == [step |-> "copied", kind |-> kind, worker |-> w, copy |-> copy, status |-> status, schedule |-> schedule]
<1>1. arrived \in CallType /\ arrived.kind = kind /\ arrived.status = status
  BY DEF CallType
<1>2. call' = [call EXCEPT ![h] = arrived]
  BY DEF Arrive
<1> HIDE DEF arrived
<1> QED  BY <1>1, <1>2 DEF RequestsTyped, AckStatus

LEMMA AtTyped ==
    ASSUME RequestsTyped, NEW h \in Handlers, NEW kinds, NEW step, At(h, kinds, step)
    PROVE  call[h] \in CallType /\ call[h].worker \in Workers /\ Copy(h) \in CopyType
BY DEF RequestsTyped, At, CallType, Copy

LEMMA GoOnTyped ==
    ASSUME RequestsTyped, NEW h \in Handlers, call[h] \in CallType, NEW step \in {"copied", "awake", "stored", "off"},
           GoOn(h, step)
    PROVE  RequestsTyped'
<1> DEFINE next == [call[h] EXCEPT !.step = step]
<1>1. next \in CallType /\ next.kind = call[h].kind /\ next.status = call[h].status
  BY DEF CallType
<1>2. call' = [call EXCEPT ![h] = next] /\ call[h] # NoCall
  BY DEF GoOn, RequestsTyped, CallType, NoCall
<1> HIDE DEF next
<1> QED  BY <1>1, <1>2 DEF RequestsTyped, AckStatus

LEMMA EndTyped ==
    ASSUME RequestsTyped, NEW h \in Handlers, call' = [call EXCEPT ![h] = NoCall]
    PROVE  RequestsTyped'
BY DEF RequestsTyped, AckStatus

LEMMA AnsweredTyped ==
    ASSUME WorkersTyped, RequestsTyped, NEW h \in Handlers, call[h].worker \in Workers, NEW told \in Requests,
           NEW worker \in ClientType, Answered(h, told, worker)
    PROVE  /\ client' \in [Workers -> ClientType]
           /\ kept' \in [Workers -> Requestable \cup {None}]
           /\ RequestsTyped'
<1>1. [worker EXCEPT !.call = None, !.told = told] \in ClientType
  BY DEF ClientType
<1>2. client' \in [Workers -> ClientType]
  BY <1>1 DEF Answered, WorkersTyped
<1> QED  BY <1>2, EndTyped DEF Answered, WorkersTyped

LEMMA ScheduleTyped ==
    ASSUME LoopsTyped, NEW schedule \in ScheduleType
    PROVE  /\ [schedule EXCEPT !.next = NextCheck(schedule, now)] \in ScheduleType
           /\ ScheduledStatus(schedule, now) \in {"awake", "asleep", None}
<1>1. \A tod \in TimesOfDay : CalcNext(tod, now) \in Moments
  BY NextTyped DEF LoopsTyped
<1>2. Hours \in TimesOfDay
  BY SleepScheduleAssumption DEF TimesOfDay
<1>3. (schedule.start # None => schedule.start \in TimesOfDay) /\ (schedule.end # None => schedule.end \in TimesOfDay)
  BY DEF ScheduleType
<1>4. NextCheck(schedule, now) \in Moments
  BY <1>1, <1>2, <1>3, EarliestTyped DEF NextCheck
<1>5. ScheduledStatus(schedule, now) \in {"awake", "asleep", None}
  BY DEF ScheduledStatus
<1> QED  BY <1>4, <1>5 DEF ScheduleType

LEMMA StoreTyped ==
    ASSUME LoopsTyped, NEW w \in Workers, NEW schedule \in ScheduleType, StoreSchedule(w, schedule)
    PROVE  sched' \in [Workers -> ScheduleType] /\ followed' \in [Workers -> {"awake", "asleep", None}]
<1> DEFINE stored == [schedule EXCEPT !.next = NextCheck(schedule, now)]
           status == ScheduledStatus(schedule, now)
<1>1. sched' = [sched EXCEPT ![w] = stored] /\ followed' = [followed EXCEPT ![w] = status]
  BY DEF StoreSchedule
<1>2. stored \in ScheduleType /\ status \in {"awake", "asleep", None}
  BY ScheduleTyped
<1> HIDE DEF stored, status
<1> QED  BY <1>1, <1>2 DEF LoopsTyped

LEMMA RequestTyped ==
    ASSUME WorkersTyped, LoopsTyped, NEW w \in Workers, NEW copy, NEW schedule \in ScheduleType,
           RequestWorkerStatus(w, copy, schedule), UNCHANGED <<client, events>>
    PROVE  WorkersTyped'
<1> DEFINE status == ScheduledStatus(schedule, now)
<1>1. status \in {"awake", "asleep", None}
  BY ScheduleTyped
<1>2. \/ UNCHANGED <<db, kept, sleeps>>
      \/ /\ Write(w, Requested(w, status, FALSE))
         /\ kept' = [kept EXCEPT ![w] = None]
         /\ sleeps' = [sleeps EXCEPT ![w] = @ /\ status # "awake"]
  BY DEF RequestWorkerStatus
<1> HIDE DEF status
<1>3. Requested(w, status, FALSE) \in WorkerType
  BY <1>1 DEF Requested, WorkersTyped, WorkerType, Requests, Requestable
<1> QED  BY <1>2, <1>3, WriteTyped DEF WorkersTyped

(* A step of a worker that asks something. *)
LEMMA AskTyped ==
    ASSUME TInv, NEW w \in Workers, NEW h \in Handlers,
           \/ SignOn(w, h) \/ AskTask(w, h) \/ AskMayRun(w, h) \/ AskStatus(w, h)
           \/ Acknowledge(w, h) \/ ShutDown(w, h) \/ Leave(w, h)
    PROVE  TInv'
<1>1. UNCHANGED <<db, sched, now, refresh, refreshing, checker, remover, sleeps, followed>>
  BY DEF SignOn, AskTask, AskMayRun, AskStatus, Acknowledge, ShutDown, Leave, schedulers, loops
<1>2. LoopsTyped'
  BY <1>1 DEF TInv, LoopsTyped, RefreshingFound
<1>3. events' \in 0 .. MaxEvents
  BY WorkerStatusAssumption DEF SignOn, AskTask, AskMayRun, AskStatus, Acknowledge, ShutDown, Leave, Event, TInv, WorkersTyped
<1>4. kept' \in [Workers -> Requestable \cup {None}]
  BY DEF SignOn, AskTask, AskMayRun, AskStatus, Acknowledge, ShutDown, Leave, Leaving, TInv, WorkersTyped
<1>5. client' \in [Workers -> ClientType]
  <2>1. PICK c \in ClientType : client' = [client EXCEPT ![w] = c]
    <3>1. client[w] \in ClientType /\ client \in [Workers -> ClientType] /\ None \in Requests
      BY DEF TInv, WorkersTyped, Requests
    <3>2. CASE SignOn(w, h)
      BY <3>1, <3>2 DEF SignOn, ClientType
    <3>3. CASE AskTask(w, h) \/ AskMayRun(w, h) \/ AskStatus(w, h)
      BY <3>1, <3>3 DEF AskTask, AskMayRun, AskStatus, ClientType
    <3>4. CASE Acknowledge(w, h)
      BY <3>1, <3>4 DEF Acknowledge, ClientType
    <3>5. CASE ShutDown(w, h) \/ Leave(w, h)
      BY <3>1, <3>5 DEF ShutDown, Leave, Leaving, ClientType
    <3> QED  BY <3>2, <3>3, <3>4, <3>5
  <2> QED  BY <2>1 DEF TInv, WorkersTyped
<1>6. NoSchedule \in ScheduleType
  BY SleepScheduleAssumption DEF NoSchedule, ScheduleType, Moments
<1>7. PICK kind \in Kinds, copy \in CopyType, status \in Requests :
          Arrive(h, kind, w, copy, status, NoSchedule) /\ (kind = "ack" => status \in {"awake", "asleep"})
  <2>1. "signon" \in Kinds /\ "task" \in Kinds /\ "mayrun" \in Kinds /\ "getstatus" \in Kinds /\ "signoff" \in Kinds
    BY DEF Kinds
  <2>2. None \in Requests /\ NoCopy \in CopyType /\ CopyOf(w) \in CopyType
    BY CopyTyped DEF Requests, TInv
  <2>3. CASE Acknowledge(w, h)
    BY <2>2, <2>3 DEF Acknowledge, Ask, Kinds, Requests, Requestable
  <2>4. CASE SignOn(w, h) \/ AskTask(w, h) \/ AskMayRun(w, h) \/ AskStatus(w, h) \/ ShutDown(w, h) \/ Leave(w, h)
    BY <2>1, <2>2, <2>4 DEF SignOn, AskTask, AskMayRun, AskStatus, ShutDown, Leave, Leaving, Ask
  <2> QED  BY <2>3, <2>4
<1>8. RequestsTyped'
  BY <1>6, <1>7, ArriveTyped DEF TInv
<1> QED  BY <1>1, <1>2, <1>3, <1>4, <1>5, <1>8 DEF TInv, WorkersTyped

LEMMA UserTyped ==
    ASSUME TInv, NEW w \in Workers, NEW h \in Handlers, AckTimeout(w, h) \/ SetSchedule(w, h)
    PROVE  TInv'
<1>1. LoopsTyped'
  BY DEF AckTimeout, SetSchedule, schedulers, loops, TInv, LoopsTyped, RefreshingFound
<1>2. WorkersTyped'
  BY WorkerStatusAssumption DEF AckTimeout, SetSchedule, Event, TInv, WorkersTyped
<1>3. "acktimeout" \in Kinds /\ "schedule" \in Kinds /\ None \in Requests /\ NoCopy \in CopyType /\ CopyOf(w) \in CopyType
  BY CopyTyped DEF Kinds, Requests, TInv
<1>4. CASE AckTimeout(w, h)
  <2>1. NoSchedule \in ScheduleType
    BY SleepScheduleAssumption DEF NoSchedule, ScheduleType, Moments
  <2>2. RequestsTyped'
    BY <1>3, <1>4, <2>1, ArriveTyped DEF AckTimeout, TInv
  <2> QED  BY <1>1, <1>2, <2>2 DEF TInv
<1>5. CASE SetSchedule(w, h)
  <2>1. PICK active \in BOOLEAN, days \in DaySets, start \in Starts, end \in Ends :
            Arrive(h, "schedule", w, CopyOf(w), None,
                   [active |-> active, days |-> days, start |-> start, end |-> end, next |-> now])
    BY <1>5 DEF SetSchedule
  <2> DEFINE schedule == [active |-> active, days |-> days, start |-> start, end |-> end, next |-> now]
  <2>2. schedule \in ScheduleType
    BY WorkerStatusAssumption DEF ScheduleType, TInv, LoopsTyped
  <2> HIDE DEF schedule
  <2>3. Arrive(h, "schedule", w, CopyOf(w), None, schedule)
    BY <2>1 DEF schedule
  <2>4. RequestsTyped'
    BY <1>3, <2>2, <2>3, ArriveTyped DEF TInv
  <2> QED  BY <1>1, <1>2, <2>4 DEF TInv
<1> QED  BY <1>4, <1>5

(* The handler of a request writes what it may of the worker, and ends or goes on. *)
LEMMA HandleTyped ==
    ASSUME TInv, NEW h \in Handlers, Handle(h)
    PROVE  TInv'
<1> DEFINE w == call[h].worker
<1> USE DEF TInv
<1>1. call[h] \in CallType /\ w \in Workers /\ Copy(h) \in CopyType /\ call[h] # NoCall
  BY AtTyped DEF Handle, HandleSignOn, SetAwake, HandleTask, HandleMayRun, HandleGetStatus, HandleAck, HandleSignOff,
     RequestSleepAgain, HandleAckTimeout, HandleSchedule, HandleScheduleStored, At
<1>2. /\ db[w] \in WorkerType /\ client[w] \in ClientType /\ call[h].schedule \in ScheduleType
      /\ None \in Requests /\ Copy(h).requested \in Requests
  BY <1>1 DEF WorkersTyped, CallType, CopyType, Requests
<1>3. ASSUME NEW worker \in WorkerType, Write(w, worker), NEW told \in Requests, NEW c \in ClientType,
             Answered(h, told, c), UNCHANGED <<schedulers, now, loops, events>>, sleeps' \in [Workers -> BOOLEAN]
      PROVE  TInv'
  BY <1>1, <1>3, WriteTyped, AnsweredTyped DEF schedulers, loops, WorkersTyped, LoopsTyped, RefreshingFound
<1>4. sleeps \in [Workers -> BOOLEAN]
  BY DEF WorkersTyped
<1>5. CASE HandleSignOn(h)
  <2>1. [db[w] EXCEPT !.status = "starting", !.silence = "seen"] \in WorkerType
    BY <1>2 DEF WorkerType, Statuses, Silences
  <2>2. [client[w] EXCEPT !.mode = "awake"] \in ClientType
    BY <1>2 DEF ClientType
  <2> QED  BY <1>2, <1>3, <1>4, <1>5, <2>1, <2>2 DEF HandleSignOn
<1>6. CASE SetAwake(h)
  <2>1. db' \in [Workers -> WorkerType]
    <3>1. [db[w] EXCEPT !.status = "awake"] \in WorkerType
      BY <1>2 DEF WorkerType, Statuses
    <3> QED  BY <1>1, <1>6, <3>1, WriteTyped DEF SetAwake, SetStatus, WorkersTyped
  <2>2. RequestsTyped'
    BY <1>1, <1>6, GoOnTyped DEF SetAwake
  <2> QED  BY <1>6, <2>1, <2>2 DEF SetAwake, schedulers, loops, WorkersTyped, LoopsTyped, RefreshingFound
<1>7. CASE HandleTask(h)
  <2>1. PICK given \in BOOLEAN :
            /\ Write(w, [db[w] EXCEPT !.silence = "seen", !.task = @ \/ given])
            /\ Answered(h, Copy(h).requested, [client[w] EXCEPT !.working = given])
    BY <1>7 DEF HandleTask
  <2>2. [db[w] EXCEPT !.silence = "seen", !.task = @ \/ given] \in WorkerType
    BY <1>2 DEF WorkerType, Silences
  <2>3. [client[w] EXCEPT !.working = given] \in ClientType
    BY <1>2 DEF ClientType
  <2> QED  BY <1>2, <1>3, <1>4, <1>7, <2>1, <2>2, <2>3 DEF HandleTask
<1>8. CASE HandleMayRun(h) \/ HandleGetStatus(h)
  <2>1. [db[w] EXCEPT !.silence = "seen"] \in WorkerType
    BY <1>2 DEF WorkerType, Silences
  <2>2. [client[w] EXCEPT !.working = FALSE] \in ClientType
    BY <1>2 DEF ClientType
  <2>3. Write(w, [db[w] EXCEPT !.silence = "seen"]) /\ UNCHANGED <<schedulers, now, loops, sleeps, events>>
    BY <1>8 DEF HandleMayRun, HandleGetStatus, Seen
  <2>4. \E told \in Requests, c \in ClientType : Answered(h, told, c)
    BY <1>2, <1>8, <2>2 DEF HandleMayRun, HandleGetStatus
  <2> QED  BY <1>3, <1>4, <2>1, <2>3, <2>4
<1>9. CASE HandleAck(h)
  <2>1. call[h].status \in Statuses
    BY <1>1, <1>9 DEF HandleAck, At, RequestsTyped, AckStatus, Statuses
  <2>2. Acknowledged(w, call[h].status) \in WorkerType
    BY <1>2, <2>1 DEF Acknowledged, WorkerType
  <2>3. sleeps' \in [Workers -> BOOLEAN]
    <3> DEFINE b == call[h].status = "asleep" /\ client[w].call = h /\ Alone(h)
    <3>1. sleeps' = [sleeps EXCEPT ![w] = b] /\ b \in BOOLEAN
      BY <1>9 DEF HandleAck
    <3> HIDE DEF b
    <3> QED  BY <1>4, <3>1
  <2> QED  BY <1>2, <1>3, <1>9, <2>2, <2>3 DEF HandleAck
<1>10. CASE HandleSignOff(h)
  <2> DEFINE worker == [Acknowledged(w, "offline") EXCEPT !.task = FALSE]
             b == sleeps[w] /\ Copy(h).requested # "asleep"
  <2>1. worker \in WorkerType
    BY <1>2 DEF Acknowledged, WorkerType, Statuses
  <2>2. sleeps' \in [Workers -> BOOLEAN]
    <3>1. sleeps' = [sleeps EXCEPT ![w] = b] /\ b \in BOOLEAN
      BY <1>4, <1>10 DEF HandleSignOff
    <3> HIDE DEF b
    <3> QED  BY <1>4, <3>1
  <2>3. Write(w, worker) /\ UNCHANGED <<schedulers, now, loops, events>>
    BY <1>10 DEF HandleSignOff
  <2> HIDE DEF worker
  <2>4. CASE RemainsAsleep(Copy(h))
    <3>1. GoOn(h, "off") /\ UNCHANGED <<client, kept>>
      BY <1>10, <2>4 DEF HandleSignOff
    <3>2. RequestsTyped'
      BY <1>1, <3>1, GoOnTyped
    <3> QED  BY <1>1, <2>1, <2>2, <2>3, <3>1, <3>2, WriteTyped DEF schedulers, loops, WorkersTyped, LoopsTyped, RefreshingFound
  <2>5. CASE ~RemainsAsleep(Copy(h))
    <3>1. Answered(h, None, [client[w] EXCEPT !.mode = "off"])
      BY <1>10, <2>5 DEF HandleSignOff
    <3>2. [client[w] EXCEPT !.mode = "off"] \in ClientType
      BY <1>2 DEF ClientType
    <3> QED  BY <1>2, <1>3, <2>1, <2>2, <2>3, <3>1, <3>2
  <2> QED  BY <2>4, <2>5
<1>11. CASE RequestSleepAgain(h)
  <2>1. Requested(w, "asleep", FALSE) \in WorkerType
    BY <1>2 DEF Requested, WorkerType, Requests, Requestable
  <2>2. [client[w] EXCEPT !.mode = "off"] \in ClientType
    BY <1>2 DEF ClientType
  <2> QED  BY <1>2, <1>3, <1>4, <1>11, <2>1, <2>2 DEF RequestSleepAgain
<1>12. CASE HandleAckTimeout(h)
  <2>1. [db[w] EXCEPT !.status = "offline"] \in WorkerType
    BY <1>2 DEF WorkerType, Statuses
  <2>2. db' \in [Workers -> WorkerType]
    BY <1>1, <1>12, <2>1, WriteTyped DEF HandleAckTimeout, SetStatus, WorkersTyped
  <2> QED  BY <1>12, <2>2, EndTyped DEF HandleAckTimeout, schedulers, loops, WorkersTyped, LoopsTyped, RefreshingFound
<1>13. CASE HandleSchedule(h)
  <2>1. RequestsTyped'
    BY <1>1, <1>13, GoOnTyped DEF HandleSchedule
  <2>2. sched' \in [Workers -> ScheduleType] /\ followed' \in [Workers -> {"awake", "asleep", None}]
    BY <1>1, <1>2, <1>13, StoreTyped DEF HandleSchedule
  <2> QED  BY <1>13, <2>1, <2>2 DEF HandleSchedule, loops, WorkersTyped, LoopsTyped, RefreshingFound
<1>14. CASE HandleScheduleStored(h)
  <2>1. RequestsTyped'
    BY <1>14, EndTyped DEF HandleScheduleStored
  <2>2. WorkersTyped'
    BY <1>1, <1>2, <1>14, RequestTyped DEF HandleScheduleStored
  <2> QED  BY <1>14, <2>1, <2>2 DEF HandleScheduleStored, schedulers, loops, LoopsTyped, RefreshingFound
<1> QED
  BY <1>5, <1>6, <1>7, <1>8, <1>9, <1>10, <1>11, <1>12, <1>13, <1>14 DEF Handle

LEMMA LoopTyped ==
    ASSUME TInv,
           \/ \E w \in Workers : RefreshWorker(w) \/ RefreshRequest(w) \/ CheckTask(w) \/ Timeout(w) \/ RemoveWorker(w)
           \/ RefreshAllWorkers \/ TimePasses \/ CheckWorkers \/ CleanupWorkers
    PROVE  TInv'
<1> USE DEF TInv
<1>1. ASSUME NEW w \in Workers, RefreshWorker(w) PROVE TInv'
  <2>1. refresh[w] \in [copy : CopyType, sched : ScheduleType] /\ refresh[w].sched \in ScheduleType
    BY <1>1 DEF RefreshWorker, LoopsTyped
  <2>2. sched' \in [Workers -> ScheduleType] /\ followed' \in [Workers -> {"awake", "asleep", None}]
    BY <1>1, <2>1, StoreTyped DEF RefreshWorker
  <2> QED  BY <1>1, <2>2 DEF RefreshWorker, loops, WorkersTyped, RequestsTyped, AckStatus, LoopsTyped, RefreshingFound
<1>2. ASSUME NEW w \in Workers, RefreshRequest(w) PROVE TInv'
  <2>1. refresh[w] # None
    BY <1>2, WorkerStatusAssumption DEF RefreshRequest, LoopsTyped, RefreshingFound
  <2>2. refresh[w].sched \in ScheduleType
    BY <2>1 DEF LoopsTyped
  <2>3. WorkersTyped'
    BY <1>2, <2>2, RequestTyped DEF RefreshRequest
  <2> QED  BY <1>2, <2>3 DEF RefreshRequest, loops, RequestsTyped, AckStatus, LoopsTyped, RefreshingFound
<1>3. ASSUME NEW w \in Workers, CheckTask(w) PROVE TInv'
  BY <1>3, CopyTyped DEF CheckTask, schedulers, WorkersTyped, RequestsTyped, AckStatus, LoopsTyped, RefreshingFound
<1>4. ASSUME NEW w \in Workers, Timeout(w) PROVE TInv'
  <2> DEFINE worker == [db[w] EXCEPT !.status = "timeout", !.task = FALSE,
                              !.requested = IF checker[w].requested = None THEN checker[w].status ELSE @]
  <2>1. checker[w] \in CopyType /\ db[w] \in WorkerType
    BY <1>4 DEF Timeout, LoopsTyped, WorkersTyped
  <2>2. worker \in WorkerType
    BY <2>1 DEF CopyType, WorkerType, Requests, Statuses
  <2>3. Write(w, worker)
    BY <1>4 DEF Timeout
  <2> HIDE DEF worker
  <2>4. db' \in [Workers -> WorkerType]
    BY <2>2, <2>3, WriteTyped DEF WorkersTyped
  <2> QED  BY <1>4, <2>4 DEF Timeout, schedulers, WorkersTyped, RequestsTyped, AckStatus, LoopsTyped, RefreshingFound
<1>5. ASSUME NEW w \in Workers, RemoveWorker(w) PROVE TInv'
  <2>1. [db[w] EXCEPT !.status = "gone", !.task = FALSE, !.requested = None] \in WorkerType
    BY DEF WorkersTyped, WorkerType, Statuses, Requests
  <2>2. db' \in [Workers -> WorkerType]
    BY <1>5, <2>1, WriteTyped DEF RemoveWorker, Gone, WorkersTyped
  <2> QED  BY <1>5, <2>2 DEF RemoveWorker, schedulers, WorkersTyped, RequestsTyped, AckStatus, LoopsTyped, RefreshingFound
<1>6. CASE RefreshAllWorkers
  <2>1. \A w \in Workers : [copy |-> CopyOf(w), sched |-> sched[w]] \in [copy : CopyType, sched : ScheduleType]
    BY CopyTyped DEF LoopsTyped
  <2>2. refresh' \in [Workers -> {None} \cup [copy : CopyType, sched : ScheduleType]]
    BY <1>6, <2>1 DEF RefreshAllWorkers
  <2>3. refreshing = None
    BY <1>6 DEF RefreshAllWorkers, LoopsTyped, RefreshingFound
  <2> QED  BY <1>6, <2>2, <2>3 DEF RefreshAllWorkers, loops, WorkersTyped, RequestsTyped, AckStatus, LoopsTyped, RefreshingFound
<1>7. CASE TimePasses
  <2>1. now' \in Moments
    BY <1>7, SleepScheduleAssumption DEF TimePasses, NextDay, LoopsTyped, Moments
  <2> QED  BY <1>7, <2>1 DEF TimePasses, schedulers, loops, WorkersTyped, RequestsTyped, AckStatus, LoopsTyped, RefreshingFound
<1>8. CASE CheckWorkers
  <2>1. \A w \in Workers : [CopyOf(w) EXCEPT !.requested = None, !.lazy = FALSE] \in CopyType
    BY CopyTyped DEF CopyType, Requests
  <2>2. checker' \in [Workers -> {None} \cup CopyType] /\ kept' \in [Workers -> Requestable \cup {None}]
    BY <1>8, <2>1 DEF CheckWorkers, WorkersTyped
  <2> QED  BY <1>8, <2>2 DEF CheckWorkers, schedulers, WorkersTyped, RequestsTyped, AckStatus, LoopsTyped, RefreshingFound
<1>9. CASE CleanupWorkers
  BY <1>9 DEF CleanupWorkers, schedulers, WorkersTyped, RequestsTyped, AckStatus, LoopsTyped, RefreshingFound
<1> QED  BY <1>1, <1>2, <1>3, <1>4, <1>5, <1>6, <1>7, <1>8, <1>9

(* What else happens to a worker. *)
LEMMA WorkerTyped ==
    ASSUME TInv, NEW w \in Workers,
           \/ FinishTask(w) \/ Kill(w) \/ FallSilent(w) \/ ForgetWorker(w)
           \/ \E status \in Requestable, lazy \in BOOLEAN : RequestStatusChange(w, status, lazy)
    PROVE  TInv'
<1> USE DEF TInv
<1>1. LoopsTyped' /\ RequestsTyped'
  BY DEF FinishTask, Kill, FallSilent, ForgetWorker, RequestStatusChange, schedulers, loops, RequestsTyped, AckStatus,
         LoopsTyped, RefreshingFound
<1>2. db[w] \in WorkerType /\ client[w] \in ClientType
  BY DEF WorkersTyped
<1>3. events' \in 0 .. MaxEvents
  BY WorkerStatusAssumption DEF FinishTask, Kill, FallSilent, ForgetWorker, RequestStatusChange, Event, WorkersTyped
<1>4. CASE FinishTask(w)
  <2>1. [db[w] EXCEPT !.task = FALSE] \in WorkerType /\ [client[w] EXCEPT !.working = FALSE] \in ClientType
    BY <1>2 DEF WorkerType, ClientType
  <2> QED  BY <1>1, <1>3, <1>4, <2>1, WriteTyped DEF FinishTask, WorkersTyped
<1>5. CASE Kill(w)
  <2>1. [mode |-> "off", working |-> FALSE, told |-> None, call |-> None] \in ClientType
    BY DEF ClientType, Requests
  <2> QED  BY <1>1, <1>3, <1>5, <2>1 DEF Kill, WorkersTyped
<1>6. CASE FallSilent(w)
  <2>1. [db[w] EXCEPT !.silence = IF @ = "seen" THEN "silent" ELSE "old"] \in WorkerType
    BY <1>2 DEF WorkerType, Silences
  <2> QED  BY <1>1, <1>3, <1>6, <2>1, WriteTyped DEF FallSilent, WorkersTyped
<1>7. CASE ForgetWorker(w)
  <2>1. [db[w] EXCEPT !.status = "gone", !.task = FALSE, !.requested = None] \in WorkerType
    BY <1>2 DEF WorkerType, Statuses, Requests
  <2> QED  BY <1>1, <1>3, <1>7, <2>1, WriteTyped DEF ForgetWorker, Gone, WorkersTyped
<1>8. ASSUME NEW status \in Requestable, NEW lazy \in BOOLEAN, RequestStatusChange(w, status, lazy) PROVE TInv'
  <2>1. Requested(w, status, lazy) \in WorkerType
    BY <1>2 DEF Requested, WorkerType, Requests
  <2>2. db' \in [Workers -> WorkerType] /\ kept' \in [Workers -> Requestable \cup {None}]
    BY <1>8, <2>1, WriteTyped DEF RequestStatusChange, WorkersTyped
  <2>3. sleeps' \in [Workers -> BOOLEAN]
    BY <1>8 DEF RequestStatusChange, WorkersTyped
  <2> QED  BY <1>1, <1>3, <1>8, <2>2, <2>3 DEF RequestStatusChange, WorkersTyped
<1> QED  BY <1>4, <1>5, <1>6, <1>7, <1>8

LEMMA TInvKept == TInv /\ [Next]_vars => TInv'
<1> SUFFICES ASSUME TInv, [Next]_vars PROVE TInv'
  OBVIOUS
<1>1. CASE UNCHANGED vars
  BY <1>1 DEF vars, TInv, WorkersTyped, RequestsTyped, AckStatus, LoopsTyped, RefreshingFound
<1> QED  BY <1>1, AskTyped, UserTyped, HandleTyped, LoopTyped, WorkerTyped DEF Next, Asks

(* Type correctness, for any workers, requests, schedules and times. *)
THEOREM TypeCorrect == Spec => []TypeOK
<1>1. TInv => TypeOK
  BY DEF TInv, WorkersTyped, RequestsTyped, LoopsTyped, TypeOK
<1> QED  BY <1>1, TInvInitially, TInvKept, PTL DEF Spec

-----------------------------------------------------------------------------
(* Requests that are kept, and workers that sleep. *)

HandledFor(h, w) == call[h] # NoCall /\ call[h].worker = w

(* From a request that nothing interferes with until its worker is told, *)
(* nothing is under way that would remove it.                            *)
KeptUntilTold(w) ==
    kept[w] # None /\ db[w].status # "gone" =>
        /\ db[w].requested = kept[w]
        /\ client[w].told = None
        /\ \A h \in Handlers : HandledFor(h, w) => call[h].kind \notin {"ack", "signoff"}
        /\ checker[w] # None => checker[w].requested # None

(* A worker waits for the answer to its own request. *)
WaitsForAnswer(w) ==
    client[w].call # None =>
        /\ client[w].call \in Handlers
        /\ HandledFor(client[w].call, w)
        /\ call[client[w].call].kind \notin {"schedule", "acktimeout"}
        /\ call[client[w].call].kind = "ack" => client[w].mode = call[client[w].call].status

(* What may be requested of a worker that sleeps. *)
Drowsy == {None, "asleep", "shutdown"}

(* What a worker that sleeps may have asked, and what was read for the answer. *)
DozingCall(h, w) ==
    /\ client[w].call = h
    /\ call[h].kind # "acktimeout"
    /\ call[h].kind \in {"task", "mayrun"} => client[w].mode = "awake" /\ Copy(h).requested = "asleep"
    /\ call[h].kind = "signon" => client[w].mode = "starting"
    /\ call[h].kind = "getstatus" => client[w].mode = "asleep" /\ Copy(h).requested \in Drowsy
    /\ call[h].kind = "ack" => client[w].mode = "asleep" /\ call[h].status = "asleep"
    /\ call[h].kind = "signoff" =>
           /\ client[w].mode = "leaving"
           /\ call[h].step = "copied" => Copy(h).requested = "asleep" \/ RemainsAsleep(Copy(h))
           /\ call[h].step = "off" /\ db[w].status # "gone" => db[w].status # "asleep"

(* A worker that sleeps either does, or was started again with the request to sleep. *)
DozingWorker(w) ==
    /\ client[w].told \in Drowsy
    /\ client[w].mode = "leaving" => client[w].told = None
    /\ client[w].mode \in {"off", "starting", "awake"} => client[w].told # "shutdown"
    /\ db[w].status # "gone" =>
           /\ db[w].requested \in Drowsy /\ db[w].status # "timeout"
           /\ client[w].mode \in {"off", "starting", "awake"} => db[w].requested = "asleep" /\ db[w].status # "asleep"
           /\ /\ client[w].mode = "asleep"
              /\ \A h \in Handlers : HandledFor(h, w) => call[h].kind # "ack"
              => db[w].status = "asleep"

Dozing(w) == DozingWorker(w) /\ \A h \in Handlers : HandledFor(h, w) => call[h].kind = "schedule" \/ DozingCall(h, w)

SInv == \A w \in Workers : KeptUntilTold(w) /\ WaitsForAnswer(w) /\ (sleeps[w] => Dozing(w))

LEMMA SInvInitially == Init => SInv
BY DEF Init, SInv, KeptUntilTold, WaitsForAnswer

(* What the parts of the steps do, for who reads their outcome. *)
LEMMA WriteEffect ==
    ASSUME TInv, NEW w \in Workers, NEW worker, Write(w, worker)
    PROVE  /\ \A v \in Workers \ {w} : db'[v] = db[v]
           /\ db[w].status = "gone" => db'[w] = db[w]
           /\ db[w].status # "gone" => db'[w] = worker
BY DEF Write, TInv, WorkersTyped

LEMMA ArriveEffect ==
    ASSUME TInv, NEW h \in Handlers, NEW kind, NEW w \in Workers, NEW copy, NEW status, NEW schedule,
           Arrive(h, kind, w, copy, status, schedule)
    PROVE  /\ call[h] = NoCall /\ call'[h] # NoCall
           /\ call'[h].kind = kind /\ call'[h].worker = w /\ call'[h].copy = copy
           /\ call'[h].status = status /\ call'[h].step = "copied"
           /\ \A g \in Handlers \ {h} : call'[g] = call[g]
<1> DEFINE arrived == [step |-> "copied", kind |-> kind, worker |-> w, copy |-> copy, status |-> status, schedule |-> schedule]
<1>1. /\ arrived # NoCall /\ arrived.kind = kind /\ arrived.worker = w /\ arrived.copy = copy
      /\ arrived.status = status /\ arrived.step = "copied"
  BY DEF NoCall
<1>2. call[h] = NoCall /\ call' = [call EXCEPT ![h] = arrived]
  BY DEF Arrive
<1> HIDE DEF arrived
<1> QED  BY <1>1, <1>2 DEF TInv, RequestsTyped

LEMMA GoOnEffect ==
    ASSUME TInv, NEW h \in Handlers, call[h] \in CallType, NEW step, GoOn(h, step)
    PROVE  /\ call'[h] # NoCall
           /\ call'[h].kind = call[h].kind /\ call'[h].worker = call[h].worker /\ call'[h].copy = call[h].copy
           /\ call'[h].status = call[h].status /\ call'[h].step = step
           /\ \A g \in Handlers \ {h} : call'[g] = call[g]
<1> DEFINE next == [call[h] EXCEPT !.step = step]
<1>1. /\ next.kind = call[h].kind /\ next.worker = call[h].worker /\ next.copy = call[h].copy
      /\ next.status = call[h].status /\ next.step = step
      /\ DOMAIN next = DOMAIN call[h]
  BY DEF CallType
<1>2. next # NoCall
  <2>1. "kind" \in DOMAIN call[h] /\ "kind" \notin DOMAIN NoCall
    BY DEF CallType, NoCall
  <2> QED  BY <1>1, <2>1
<1>3. call' = [call EXCEPT ![h] = next]
  BY DEF GoOn, TInv, RequestsTyped
<1> HIDE DEF next
<1> QED  BY <1>1, <1>2, <1>3 DEF TInv, RequestsTyped

LEMMA AnsweredEffect ==
    ASSUME TInv, NEW h \in Handlers, NEW w \in Workers, w = call[h].worker, NEW told, NEW worker \in ClientType,
           Answered(h, told, worker)
    PROVE  /\ call'[h] = NoCall /\ \A g \in Handlers \ {h} : call'[g] = call[g]
           /\ \A v \in Workers \ {w} : client'[v] = client[v]
           /\ client[w].call # h => client'[w] = client[w]
           /\ client[w].call = h =>
                  /\ client'[w].call = None /\ client'[w].told = told
                  /\ client'[w].mode = worker.mode /\ client'[w].working = worker.working
                  /\ told # None => kept'[w] = None
           /\ \A v \in Workers : kept'[v] \in {None, kept[v]}
<1> DEFINE c == [worker EXCEPT !.call = None, !.told = told]
<1>1. c.call = None /\ c.told = told /\ c.mode = worker.mode /\ c.working = worker.working
  BY DEF ClientType
<1>2. client' = IF client[w].call = h THEN [client EXCEPT ![w] = c] ELSE client
  BY DEF Answered
<1> HIDE DEF c
<1>3. call'[h] = NoCall /\ \A g \in Handlers \ {h} : call'[g] = call[g]
  BY DEF Answered, TInv, RequestsTyped
<1>4. /\ client[w].call = h => client'[w] = c
      /\ client[w].call # h => client'[w] = client[w]
      /\ \A v \in Workers \ {w} : client'[v] = client[v]
  BY <1>2 DEF TInv, WorkersTyped
<1>5. /\ \A v \in Workers : kept'[v] \in {None, kept[v]}
      /\ client[w].call = h /\ told # None => kept'[w] = None
  BY DEF Answered, TInv, WorkersTyped
<1> QED  BY <1>1, <1>3, <1>4, <1>5

LEMMA RequestEffect ==
    ASSUME TInv, NEW w \in Workers, NEW copy, NEW schedule \in ScheduleType, RequestWorkerStatus(w, copy, schedule)
    PROVE  /\ \A v \in Workers \ {w} : db'[v] = db[v] /\ kept'[v] = kept[v] /\ sleeps'[v] = sleeps[v]
           /\ db'[w].status = db[w].status
           /\ \/ UNCHANGED <<db, kept, sleeps>>
              \/ /\ kept'[w] = None
                 /\ sleeps'[w] => sleeps[w] /\ (db[w].status = "gone" \/ db'[w].requested = "asleep")
<1> DEFINE status == ScheduledStatus(schedule, now)
<1>1. status \in {"awake", "asleep", None}
  BY ScheduleTyped DEF TInv
<1>2. \/ UNCHANGED <<db, kept, sleeps>>
      \/ /\ status # None /\ Write(w, Requested(w, status, FALSE))
         /\ kept' = [kept EXCEPT ![w] = None]
         /\ sleeps' = [sleeps EXCEPT ![w] = @ /\ status # "awake"]
  BY DEF RequestWorkerStatus
<1> HIDE DEF status
<1>3. CASE UNCHANGED <<db, kept, sleeps>>
  BY <1>3
<1>4. CASE ~UNCHANGED <<db, kept, sleeps>>
  <2>1. Requested(w, status, FALSE).requested = status /\ Requested(w, status, FALSE).status = db[w].status
    BY DEF Requested, TInv, WorkersTyped, WorkerType
  <2>2. /\ \A v \in Workers \ {w} : db'[v] = db[v]
        /\ db[w].status = "gone" => db'[w] = db[w]
        /\ db[w].status # "gone" => db'[w] = Requested(w, status, FALSE)
    BY <1>2, <1>4, WriteEffect
  <2>3. /\ kept'[w] = None /\ sleeps'[w] = (sleeps[w] /\ status # "awake") /\ status # None
        /\ \A v \in Workers \ {w} : kept'[v] = kept[v] /\ sleeps'[v] = sleeps[v]
    BY <1>2, <1>4 DEF TInv, WorkersTyped
  <2> QED  BY <1>1, <2>1, <2>2, <2>3
<1> QED  BY <1>3, <1>4

-----------------------------------------------------------------------------
(* What keeps the parts of the invariant. *)

(* A worker about which no more is kept, and of which not more is under way. *)
LEMMA KeptStays ==
    ASSUME SInv, NEW v \in Workers,
           \/ kept'[v] = None
           \/ /\ kept'[v] = kept[v]
              /\ db'[v].status # "gone" => db[v].status # "gone" /\ db'[v].requested = db[v].requested
              /\ client'[v].told \in {None, client[v].told}
              /\ \A h \in Handlers : HandledFor(h, v)' /\ call'[h].kind \in {"ack", "signoff"} =>
                     HandledFor(h, v) /\ call[h].kind = call'[h].kind
              /\ checker'[v] \in {None, checker[v]}
    PROVE  KeptUntilTold(v)'
BY DEF SInv, KeptUntilTold

(* A worker that does nothing, and for which nothing is done but by its schedule. *)
LEMMA DozesOn ==
    ASSUME SInv, NEW v \in Workers, sleeps'[v] => sleeps[v],
           client'[v].call = client[v].call, client'[v].told = client[v].told, client'[v].mode = client[v].mode,
           \A h \in Handlers : HandledFor(h, v)' /\ call'[h].kind # "schedule" => call'[h] = call[h],
           \A h \in Handlers :
               HandledFor(h, v) /\ call[h].kind \notin {"schedule", "acktimeout"} => call'[h] = call[h],
           db'[v].status # "gone" =>
               /\ db'[v].status = db[v].status
               /\ sleeps'[v] => db'[v].requested \in {db[v].requested, "asleep"}
    PROVE  WaitsForAnswer(v)' /\ (sleeps'[v] => Dozing(v)')
<1>1. WaitsForAnswer(v)'
  BY DEF SInv, WaitsForAnswer, HandledFor
<1>2. ASSUME sleeps'[v] PROVE DozingWorker(v)'
  <2>1. DozingWorker(v)
    BY <1>2 DEF SInv, Dozing
  <2>2. ASSUME \A h \in Handlers : HandledFor(h, v)' => call'[h].kind # "ack"
        PROVE  \A h \in Handlers : HandledFor(h, v) => call[h].kind # "ack"
    BY <2>2 DEF HandledFor
  <2>3. db'[v].status # "gone" => db'[v].requested \in {db[v].requested, "asleep"} /\ db'[v].status = db[v].status
    BY <1>2
  <2> QED  BY <2>1, <2>2, <2>3 DEF DozingWorker, Drowsy
<1>3. ASSUME sleeps'[v], NEW h \in Handlers, HandledFor(h, v)', call'[h].kind # "schedule" PROVE DozingCall(h, v)'
  <2>1. call'[h] = call[h]
    BY <1>3
  <2>2. DozingCall(h, v)
    BY <1>3, <2>1 DEF SInv, Dozing, HandledFor
  <2> QED  BY <2>1, <2>2 DEF DozingCall, Copy
<1> QED  BY <1>1, <1>2, <1>3 DEF Dozing

(* A step that changes a worker's record, its schedule or what is read of it only. *)
LEMMA WorkerOnly ==
    ASSUME SInv, NEW v \in Workers, UNCHANGED call,
           client'[v].call = client[v].call, client'[v].told = client[v].told, client'[v].mode = client[v].mode,
           kept'[v] \in {None, kept[v]}, sleeps'[v] => sleeps[v], checker'[v] \in {None, checker[v]},
           db'[v].status # "gone" =>
               /\ db'[v].status = db[v].status
               /\ kept'[v] # None => db'[v].requested = db[v].requested
               /\ sleeps'[v] => db'[v].requested \in {db[v].requested, "asleep"}
    PROVE  KeptUntilTold(v)' /\ WaitsForAnswer(v)' /\ (sleeps'[v] => Dozing(v)')
<1>1. KeptUntilTold(v)'
  BY KeptStays DEF HandledFor
<1> QED  BY <1>1, DozesOn

(* A step about one worker and one of its calls is not about the others. *)
LEMMA OthersKept ==
    ASSUME SInv, NEW w \in Workers, NEW v \in Workers \ {w}, NEW h \in Handlers,
           call[h] = NoCall \/ call[h].worker = w, call'[h] = NoCall \/ call'[h].worker = w,
           \A g \in Handlers \ {h} : call'[g] = call[g],
           client'[v] = client[v], db'[v] = db[v], checker'[v] = checker[v],
           kept'[v] \in {None, kept[v]}, sleeps'[v] = sleeps[v]
    PROVE  KeptUntilTold(v)' /\ WaitsForAnswer(v)' /\ (sleeps'[v] => Dozing(v)')
<1>1. \A g \in Handlers : (HandledFor(g, v)' <=> HandledFor(g, v)) /\ (HandledFor(g, v) => call'[g] = call[g])
  BY DEF HandledFor
<1>2. KeptUntilTold(v)'
  BY <1>1, KeptStays
<1>3. WaitsForAnswer(v)' /\ (sleeps'[v] => Dozing(v)')
  BY <1>1, DozesOn
<1> QED  BY <1>2, <1>3

(* A worker that sleeps and asks has nothing else under way but its schedule. *)
LEMMA AskDozes ==
    ASSUME TInv, SInv, NEW w \in Workers, client[w].call = None, sleeps[w],
           NEW g \in Handlers, HandledFor(g, w)
    PROVE  call[g].kind = "schedule"
BY WorkerStatusAssumption DEF SInv, Dozing, DozingCall

(* What a worker asks, what is read for the answer, and how it waits for it. *)
Asked(w, h, kind, copy, status, c) ==
    /\ Arrive(h, kind, w, copy, status, NoSchedule)
    /\ client' = [client EXCEPT ![w] = c]
    /\ c.call = h
    /\ kind \notin {"schedule", "acktimeout"}
    /\ kind \in {"task", "mayrun", "getstatus"} =>
           /\ copy = CopyOf(w) /\ c.mode = client[w].mode /\ c.told = client[w].told
           /\ c.mode = IF kind = "getstatus" THEN "asleep" ELSE "awake"
    /\ kind = "signon" => client[w].mode = "off" /\ c.mode = "starting" /\ c.told = client[w].told
    /\ kind = "ack" => client[w].told = status /\ status \in {"awake", "asleep"} /\ c.mode = status /\ c.told = None
    /\ kind = "signoff" =>
           /\ copy = CopyOf(w) /\ c.mode = "leaving" /\ c.told = None /\ kept'[w] = None
           /\ client[w].mode \in {"awake", "asleep"} \/ client[w].told = "shutdown"

LEMMA AskAsked ==
    ASSUME TInv, NEW w \in Workers, NEW h \in Handlers,
           \/ SignOn(w, h) \/ AskTask(w, h) \/ AskMayRun(w, h) \/ AskStatus(w, h)
           \/ Acknowledge(w, h) \/ ShutDown(w, h) \/ Leave(w, h)
    PROVE  \E kind, copy, status, c : kind \in Kinds /\ Asked(w, h, kind, copy, status, c)
<1>1. client[w] \in ClientType /\ Kinds = {"signon", "signoff", "task", "mayrun", "getstatus", "ack", "acktimeout", "schedule"}
  BY DEF TInv, WorkersTyped, Kinds
<1>2. CASE SignOn(w, h)
  <2> DEFINE c == [client[w] EXCEPT !.mode = "starting", !.call = h]
  <2>1. client' = [client EXCEPT ![w] = c]
    BY <1>2 DEF SignOn
  <2>2. c.mode = "starting" /\ c.call = h /\ c.told = client[w].told
    BY <1>1 DEF ClientType
  <2> HIDE DEF c
  <2>3. Asked(w, h, "signon", NoCopy, None, c)
    BY <1>2, <2>1, <2>2 DEF SignOn, Ask, Asked
  <2> QED  BY <1>1, <2>3
<1>3. CASE AskTask(w, h) \/ AskMayRun(w, h) \/ AskStatus(w, h)
  <2> DEFINE c == [client[w] EXCEPT !.call = h]
  <2>1. client' = [client EXCEPT ![w] = c]
    BY <1>3 DEF AskTask, AskMayRun, AskStatus, TInv, WorkersTyped
  <2>2. c.mode = client[w].mode /\ c.call = h /\ c.told = client[w].told
    BY <1>1 DEF ClientType
  <2> HIDE DEF c
  <2>3. \/ Asked(w, h, "task", CopyOf(w), None, c)
        \/ Asked(w, h, "mayrun", CopyOf(w), None, c)
        \/ Asked(w, h, "getstatus", CopyOf(w), None, c)
    BY <1>3, <2>1, <2>2 DEF AskTask, AskMayRun, AskStatus, Ask, Asked
  <2> QED  BY <1>1, <2>3
<1>4. CASE Acknowledge(w, h)
  <2> DEFINE c == [client[w] EXCEPT !.mode = client[w].told, !.told = None, !.call = h]
  <2>1. client' = [client EXCEPT ![w] = c]
    BY <1>4 DEF Acknowledge
  <2>2. c.mode = client[w].told /\ c.call = h /\ c.told = None
    BY <1>1 DEF ClientType
  <2> HIDE DEF c
  <2>3. Asked(w, h, "ack", NoCopy, client[w].told, c)
    BY <1>4, <2>1, <2>2 DEF Acknowledge, Ask, Asked
  <2> QED  BY <1>1, <2>3
<1>5. CASE ShutDown(w, h) \/ Leave(w, h)
  <2> DEFINE c == [mode |-> "leaving", working |-> FALSE, told |-> None, call |-> h]
  <2>1. client' = [client EXCEPT ![w] = c] /\ c.mode = "leaving" /\ c.call = h /\ c.told = None
    BY <1>5 DEF ShutDown, Leave, Leaving
  <2> HIDE DEF c
  <2>2. kept'[w] = None
    BY <1>5 DEF ShutDown, Leave, Leaving, TInv, WorkersTyped
  <2>3. Asked(w, h, "signoff", CopyOf(w), None, c)
    BY <1>5, <2>1, <2>2 DEF ShutDown, Leave, Leaving, Ask, Asked
  <2> QED  BY <1>1, <2>3
<1> QED  BY <1>2, <1>3, <1>4, <1>5

LEMMA AskSleep ==
    ASSUME TInv, SInv, NEW w \in Workers, NEW h \in Handlers,
           \/ SignOn(w, h) \/ AskTask(w, h) \/ AskMayRun(w, h) \/ AskStatus(w, h)
           \/ Acknowledge(w, h) \/ ShutDown(w, h) \/ Leave(w, h)
    PROVE  SInv'
<1>0. /\ UNCHANGED <<db, checker, sleeps>> /\ \A v \in Workers : kept'[v] \in {None, kept[v]}
  BY DEF SignOn, AskTask, AskMayRun, AskStatus, Acknowledge, ShutDown, Leave, Leaving, loops, TInv, WorkersTyped
<1>1. db[w].status # "gone" /\ client[w].call = None
  BY DEF SignOn, AskTask, AskMayRun, AskStatus, Acknowledge, ShutDown, Leave, Leaving, Ask
<1>2. PICK kind, copy, status, c : kind \in Kinds /\ Asked(w, h, kind, copy, status, c)
  BY AskAsked
<1> USE DEF Asked
<1>9. kind \in {"signon", "signoff", "task", "mayrun", "getstatus", "ack"}
  BY <1>2 DEF Kinds
<1>3. /\ call[h] = NoCall /\ call'[h] # NoCall
      /\ call'[h].kind = kind /\ call'[h].worker = w /\ call'[h].copy = copy
      /\ call'[h].status = status /\ call'[h].step = "copied"
      /\ \A g \in Handlers \ {h} : call'[g] = call[g]
  BY <1>2, ArriveEffect
<1>4. client'[w] = c /\ \A v \in Workers \ {w} : client'[v] = client[v]
  BY <1>2 DEF TInv, WorkersTyped
<1>5. ASSUME NEW v \in Workers \ {w} PROVE KeptUntilTold(v)' /\ WaitsForAnswer(v)' /\ (sleeps'[v] => Dozing(v)')
  BY <1>0, <1>3, <1>4, OthersKept
<1>6. KeptUntilTold(w)'
  <2>1. kind \in {"ack", "signoff"} => kept'[w] = None
    BY <1>0, <1>1, <1>2, StatusAssumption DEF SInv, KeptUntilTold, Requestable
  <2>2. \A g \in Handlers : HandledFor(g, w)' /\ call'[g].kind \in {"ack", "signoff"} /\ kept'[w] # None =>
            HandledFor(g, w) /\ call[g].kind = call'[g].kind
    BY <1>3, <2>1 DEF HandledFor
  <2>3. client'[w].told \in {None, client[w].told}
    BY <1>2, <1>4, <1>9
  <2> QED  BY <1>0, <2>2, <2>3, KeptStays
<1>7. WaitsForAnswer(w)'
  BY <1>2, <1>3, <1>4 DEF WaitsForAnswer, HandledFor
<1>8. ASSUME sleeps'[w] PROVE Dozing(w)'
  <2>1. sleeps[w] /\ DozingWorker(w) /\ \A g \in Handlers : HandledFor(g, w) => call[g].kind = "schedule"
    BY <1>0, <1>1, <1>8, AskDozes DEF SInv, Dozing
  <2>2. CopyOf(w).status = db[w].status /\ CopyOf(w).requested = db[w].requested
    BY DEF CopyOf
  <2>3. \A g \in Handlers \ {h} : HandledFor(g, w)' => call'[g].kind = "schedule"
    BY <1>3, <2>1 DEF HandledFor
  <2>4. DozingCall(h, w)'
    <3>1. client'[w].call = h /\ kind # "acktimeout"
      BY <1>2, <1>4
    <3>2. kind \in {"task", "mayrun"} => client'[w].mode = "awake" /\ copy.requested = "asleep"
      BY <1>1, <1>2, <1>4, <2>1, <2>2 DEF DozingWorker
    <3>3. kind = "signon" => client'[w].mode = "starting"
      BY <1>2, <1>4
    <3>4. kind = "getstatus" => client'[w].mode = "asleep" /\ copy.requested \in Drowsy
      BY <1>1, <1>2, <1>4, <2>1, <2>2 DEF DozingWorker
    <3>5. kind = "ack" => client'[w].mode = "asleep" /\ status = "asleep"
      BY <1>2, <1>4, <2>1, StatusAssumption DEF DozingWorker, Drowsy, Requestable
    <3>6. kind = "signoff" => client'[w].mode = "leaving" /\ (copy.requested = "asleep" \/ RemainsAsleep(copy))
      <4> SUFFICES ASSUME kind = "signoff" PROVE copy.requested = "asleep" \/ RemainsAsleep(copy)
        BY <1>2, <1>4
      <4>1. copy = CopyOf(w) /\ (client[w].mode \in {"awake", "asleep"} \/ client[w].told = "shutdown")
        BY <1>2
      <4>2. client[w].mode \in {"off", "starting", "awake", "asleep", "leaving"}
        BY DEF TInv, WorkersTyped, ClientType
      <4>3. client[w].mode # "leaving"
        BY <4>1, <2>1, StatusAssumption DEF DozingWorker, Requestable
      <4>4. CASE client[w].mode = "asleep"
        <5>1. db[w].status = "asleep" /\ db[w].requested \in Drowsy
          BY <1>1, <2>1, <4>4 DEF DozingWorker
        <5> QED  BY <4>1, <5>1, <2>2 DEF RemainsAsleep, Drowsy
      <4>5. CASE client[w].mode \in {"off", "starting", "awake"}
        BY <1>1, <2>1, <2>2, <4>1, <4>5 DEF DozingWorker
      <4> QED  BY <4>2, <4>3, <4>4, <4>5
    <3> QED  BY <1>3, <3>1, <3>2, <3>3, <3>4, <3>5, <3>6 DEF DozingCall, Copy, RemainsAsleep
  <2>5. DozingWorker(w)'
    <3>1. \A g \in Handlers : HandledFor(g, w) => call[g].kind # "ack"
      BY <2>1
    <3>2. kind = "ack" => ~\A g \in Handlers : HandledFor(g, w)' => call'[g].kind # "ack"
      BY <1>3 DEF HandledFor
    <3>3. kind = "ack" => client'[w].mode = "asleep"
      BY <2>4, <1>3 DEF DozingCall
    <3>4. client'[w].told \in Drowsy
      BY <1>2, <1>4, <1>9, <2>1 DEF DozingWorker, Drowsy
    <3>5. kind # "ack" => \/ client'[w].mode = client[w].mode /\ client'[w].told = client[w].told
                          \/ client'[w].mode = "starting" /\ client[w].mode = "off" /\ client'[w].told = client[w].told
                          \/ client'[w].mode = "leaving" /\ client'[w].told = None
      BY <1>2, <1>4, <1>9
    <3> QED  BY <1>0, <2>1, <3>1, <3>2, <3>3, <3>4, <3>5 DEF DozingWorker
  <2> QED  BY <2>3, <2>4, <2>5 DEF Dozing
<1> QED  BY <1>5, <1>6, <1>7, <1>8 DEF SInv

LEMMA UserSleep ==
    ASSUME TInv, SInv, NEW w \in Workers, NEW h \in Handlers, AckTimeout(w, h) \/ SetSchedule(w, h)
    PROVE  SInv'
<1>1. UNCHANGED <<db, checker, sleeps, kept, client>>
  BY DEF AckTimeout, SetSchedule, loops
<1>2. PICK kind, copy, schedule :
          /\ kind \in {"acktimeout", "schedule"} /\ Arrive(h, kind, w, copy, None, schedule)
          /\ kind = "acktimeout" => db[w].status = "timeout"
  <2>1. CASE AckTimeout(w, h)
    BY <2>1 DEF AckTimeout
  <2>2. CASE SetSchedule(w, h)
    <3>1. \E schedule : Arrive(h, "schedule", w, CopyOf(w), None, schedule)
      BY <2>2 DEF SetSchedule
    <3> QED  BY <3>1
  <2> QED  BY <2>1, <2>2
<1>3. /\ call[h] = NoCall /\ call'[h] # NoCall /\ call'[h].kind = kind /\ call'[h].worker = w
      /\ kind \in {"acktimeout", "schedule"}
      /\ \A g \in Handlers \ {h} : call'[g] = call[g]
  BY <1>2, ArriveEffect
<1>4. ASSUME NEW v \in Workers \ {w} PROVE KeptUntilTold(v)' /\ WaitsForAnswer(v)' /\ (sleeps'[v] => Dozing(v)')
  BY <1>1, <1>3, OthersKept
<1>5. KeptUntilTold(w)'
  BY <1>1, <1>3, KeptStays DEF HandledFor
<1>6. kind = "acktimeout" => ~sleeps[w]
  BY <1>2 DEF SInv, Dozing, DozingWorker
<1>7. WaitsForAnswer(w)'
  BY <1>1, <1>3 DEF SInv, WaitsForAnswer, HandledFor
<1>8. sleeps'[w] => Dozing(w)'
  BY <1>1, <1>3, <1>6, DozesOn DEF HandledFor
<1> QED  BY <1>4, <1>5, <1>7, <1>8 DEF SInv

(* A worker that sleeps has one request under way, besides its schedule. *)
LEMMA OneDozingCall ==
    ASSUME SInv, NEW h \in Handlers, NEW w \in Workers, HandledFor(h, w), call[h].kind # "schedule", sleeps[w]
    PROVE  /\ DozingCall(h, w) /\ DozingWorker(w)
           /\ \A g \in Handlers \ {h} : HandledFor(g, w) => call[g].kind = "schedule"
BY DEF SInv, Dozing, DozingCall

(* The handler of a worker's request answers it. *)
LEMMA AnswerSleep ==
    ASSUME TInv, SInv, NEW h \in Handlers, NEW w \in Workers, HandledFor(h, w),
           NEW told, NEW worker \in ClientType, Answered(h, told, worker), UNCHANGED checker,
           \A v \in Workers \ {w} : db'[v] = db[v] /\ sleeps'[v] = sleeps[v],
           db[w].status = "gone" => db'[w].status = "gone",
           kept[w] # None /\ db[w].status # "gone" => db'[w].requested = db[w].requested,
           sleeps'[w] =>
               /\ client[w].call = h
               /\ \A g \in Handlers \ {h} : HandledFor(g, w) => call[g].kind = "schedule"
               /\ told \in Drowsy /\ worker.mode # "leaving"
               /\ worker.mode \in {"off", "starting", "awake"} => told # "shutdown"
               /\ db'[w].status # "gone" =>
                      /\ db'[w].requested \in Drowsy /\ db'[w].status # "timeout"
                      /\ worker.mode \in {"off", "starting", "awake"} => db'[w].requested = "asleep" /\ db'[w].status # "asleep"
                      /\ worker.mode = "asleep" => db'[w].status = "asleep"
    PROVE  SInv'
<1>1. /\ call'[h] = NoCall /\ \A g \in Handlers \ {h} : call'[g] = call[g]
      /\ \A v \in Workers \ {w} : client'[v] = client[v]
      /\ client[w].call # h => client'[w] = client[w]
      /\ client[w].call = h =>
             /\ client'[w].call = None /\ client'[w].told = told /\ client'[w].mode = worker.mode
             /\ told # None => kept'[w] = None
      /\ \A v \in Workers : kept'[v] \in {None, kept[v]}
  BY AnsweredEffect DEF HandledFor
<1>2. ASSUME NEW v \in Workers \ {w} PROVE KeptUntilTold(v)' /\ WaitsForAnswer(v)' /\ (sleeps'[v] => Dozing(v)')
  BY <1>1, OthersKept DEF HandledFor
<1>3. KeptUntilTold(w)'
  <2>1. \A g \in Handlers : HandledFor(g, w)' => HandledFor(g, w) /\ call'[g] = call[g]
    BY <1>1 DEF HandledFor
  <2>2. CASE kept[w] # None /\ db[w].status # "gone"
    BY <1>1, <2>1, <2>2, KeptStays
  <2>3. CASE ~(kept[w] # None /\ db[w].status # "gone")
    BY <1>1, <2>3 DEF KeptUntilTold
  <2> QED  BY <2>2, <2>3
<1>4. WaitsForAnswer(w)'
  BY <1>1 DEF SInv, WaitsForAnswer, HandledFor
<1>5. ASSUME sleeps'[w] PROVE Dozing(w)'
  <2>1. \A g \in Handlers : HandledFor(g, w)' => call'[g].kind = "schedule"
    BY <1>1, <1>5 DEF HandledFor
  <2>2. DozingWorker(w)'
    BY <1>1, <1>5 DEF DozingWorker
  <2> QED  BY <2>1, <2>2 DEF Dozing
<1> QED  BY <1>2, <1>3, <1>4, <1>5 DEF SInv

(* The handler of a worker's request goes on. *)
LEMMA GoOnSleep ==
    ASSUME TInv, SInv, NEW h \in Handlers, NEW w \in Workers, HandledFor(h, w), NEW step, GoOn(h, step),
           UNCHANGED <<client, kept, checker>>,
           \A v \in Workers \ {w} : db'[v] = db[v] /\ sleeps'[v] = sleeps[v],
           db[w].status = "gone" => db'[w].status = "gone",
           kept[w] # None /\ db[w].status # "gone" => db'[w].requested = db[w].requested,
           sleeps'[w] =>
               /\ sleeps[w] /\ call[h].kind \notin {"ack", "schedule"}
               /\ call[h].kind = "signoff" => step = "off" /\ db'[w].status # "asleep"
               /\ client[w].mode # "asleep"
               /\ db'[w].status # "gone" =>
                      /\ db'[w].requested \in {None, db[w].requested} /\ db'[w].status # "timeout"
                      /\ client[w].mode \in {"off", "starting", "awake"} =>
                             db'[w].requested = db[w].requested /\ db'[w].status # "asleep"
    PROVE  SInv'
<1>1. /\ call'[h] # NoCall
      /\ call'[h].kind = call[h].kind /\ call'[h].worker = call[h].worker /\ call'[h].copy = call[h].copy
      /\ call'[h].status = call[h].status /\ call'[h].step = step
      /\ \A g \in Handlers \ {h} : call'[g] = call[g]
  BY GoOnEffect DEF HandledFor, TInv, RequestsTyped
<1>2. ASSUME NEW v \in Workers \ {w} PROVE KeptUntilTold(v)' /\ WaitsForAnswer(v)' /\ (sleeps'[v] => Dozing(v)')
  BY <1>1, <1>2, OthersKept DEF HandledFor
<1>3. KeptUntilTold(w)'
  <2>1. \A g \in Handlers : HandledFor(g, w)' => HandledFor(g, w) /\ call'[g].kind = call[g].kind
    BY <1>1 DEF HandledFor
  <2>2. CASE kept[w] # None /\ db[w].status # "gone"
    BY <2>1, <2>2, KeptStays
  <2>3. CASE ~(kept[w] # None /\ db[w].status # "gone")
    BY <2>3 DEF KeptUntilTold
  <2> QED  BY <2>2, <2>3
<1>4. WaitsForAnswer(w)'
  BY <1>1 DEF SInv, WaitsForAnswer, HandledFor
<1>5. ASSUME sleeps'[w] PROVE Dozing(w)'
  <2>1. /\ DozingCall(h, w) /\ DozingWorker(w)
        /\ \A g \in Handlers \ {h} : HandledFor(g, w) => call[g].kind = "schedule"
    BY <1>5, OneDozingCall
  <2>2. \A g \in Handlers \ {h} : HandledFor(g, w)' => call'[g].kind = "schedule"
    BY <1>1, <2>1 DEF HandledFor
  <2>3. DozingCall(h, w)'
    BY <1>1, <1>5, <2>1 DEF DozingCall, Copy
  <2>4. DozingWorker(w)'
    BY <1>5, <2>1 DEF DozingWorker, Drowsy
  <2> QED  BY <2>2, <2>3, <2>4 DEF Dozing
<1> QED  BY <1>2, <1>3, <1>4, <1>5 DEF SInv

LEMMA HandleSleep ==
    ASSUME TInv, SInv, NEW h \in Handlers, NEW w \in Workers, w = call[h].worker, Handle(h)
    PROVE  SInv'
<1>1. call[h] \in CallType /\ HandledFor(h, w)
  BY AtTyped DEF Handle, HandleSignOn, SetAwake, HandleTask, HandleMayRun, HandleGetStatus, HandleAck, HandleSignOff,
     RequestSleepAgain, HandleAckTimeout, HandleSchedule, HandleScheduleStored, At, HandledFor, TInv
<1>2. /\ client[w] \in ClientType /\ db[w] \in WorkerType /\ call[h].schedule \in ScheduleType
  BY <1>1 DEF TInv, WorkersTyped, CallType
<1>3. \A mode \in {"off", "awake"} :
          /\ [client[w] EXCEPT !.mode = mode] \in ClientType
          /\ [client[w] EXCEPT !.mode = mode].mode = mode
  BY <1>2 DEF ClientType
<1>4. \A given \in BOOLEAN :
          /\ [client[w] EXCEPT !.working = given] \in ClientType
          /\ [client[w] EXCEPT !.working = given].mode = client[w].mode
  BY <1>2 DEF ClientType
<1>5. ASSUME NEW worker, Write(w, worker)
      PROVE  /\ \A v \in Workers \ {w} : db'[v] = db[v]
             /\ db[w].status = "gone" => db'[w] = db[w]
             /\ db[w].status # "gone" => db'[w] = worker
  BY <1>1, <1>5, WriteEffect
<1>6. ASSUME call[h].kind # "schedule", sleeps[w]
      PROVE  /\ DozingCall(h, w) /\ DozingWorker(w) /\ client[w].call = h
             /\ \A g \in Handlers \ {h} : HandledFor(g, w) => call[g].kind = "schedule"
  BY <1>1, <1>6, OneDozingCall DEF DozingCall
<1>7. CASE HandleSignOn(h)
  <2> DEFINE worker == [db[w] EXCEPT !.status = "starting", !.silence = "seen"]
             c == [client[w] EXCEPT !.mode = "awake"]
  <2>1. /\ call[h].kind = "signon" /\ Write(w, worker) /\ Answered(h, None, c) /\ UNCHANGED <<sleeps, checker>>
    BY <1>7 DEF HandleSignOn, At, loops
  <2>2. worker.requested = db[w].requested /\ worker.status = "starting" /\ c.mode = "awake" /\ c \in ClientType
    BY <1>2, <1>3 DEF WorkerType
  <2> HIDE DEF worker, c
  <2>3. sleeps[w] => client[w].mode = "starting" /\ DozingWorker(w)
    BY <1>6, <2>1 DEF DozingCall
  <2> QED  BY <1>1, <1>5, <1>6, <2>1, <2>2, <2>3, AnswerSleep, StatusAssumption DEF DozingWorker, Drowsy, Requestable
<1>8. CASE SetAwake(h)
  <2>1. /\ call[h].kind \in {"task", "mayrun"} /\ GoOn(h, "awake") /\ UNCHANGED <<client, kept, checker, sleeps>>
        /\ UNCHANGED db \/ Write(w, [db[w] EXCEPT !.status = "awake"])
    BY <1>8 DEF SetAwake, At, SetStatus, loops
  <2>2. [db[w] EXCEPT !.status = "awake"].requested = db[w].requested /\ [db[w] EXCEPT !.status = "awake"].status = "awake"
    BY <1>2 DEF WorkerType
  <2>3. /\ \A v \in Workers \ {w} : db'[v] = db[v]
        /\ db[w].status = "gone" => db'[w].status = "gone"
        /\ db[w].status # "gone" => db'[w].requested = db[w].requested /\ db'[w].status \in {"awake", db[w].status}
    BY <1>5, <2>1, <2>2
  <2>4. sleeps[w] => client[w].mode = "awake" /\ DozingWorker(w)
    BY <1>6, <2>1 DEF DozingCall
  <2> QED  BY <1>1, <2>1, <2>3, <2>4, GoOnSleep DEF DozingWorker
<1>9. CASE HandleTask(h)
  <2>1. PICK given \in BOOLEAN :
            /\ Write(w, [db[w] EXCEPT !.silence = "seen", !.task = @ \/ given])
            /\ Answered(h, Copy(h).requested, [client[w] EXCEPT !.working = given])
    BY <1>9 DEF HandleTask
  <2> DEFINE worker == [db[w] EXCEPT !.silence = "seen", !.task = @ \/ given]
             c == [client[w] EXCEPT !.working = given]
  <2>2. worker.requested = db[w].requested /\ worker.status = db[w].status /\ c \in ClientType /\ c.mode = client[w].mode
    BY <1>2, <1>4 DEF WorkerType
  <2>3. Write(w, worker) /\ Answered(h, Copy(h).requested, c)
    BY <2>1
  <2>4. call[h].kind = "task" /\ UNCHANGED <<sleeps, checker>>
    BY <1>9 DEF HandleTask, At, loops
  <2> HIDE DEF worker, c
  <2>5. sleeps[w] => client[w].mode = "awake" /\ Copy(h).requested = "asleep" /\ DozingWorker(w)
    BY <1>6, <2>4 DEF DozingCall
  <2> QED  BY <1>1, <1>5, <1>6, <2>2, <2>3, <2>4, <2>5, AnswerSleep DEF DozingWorker, Drowsy
<1>10. CASE HandleMayRun(h)
  <2> DEFINE worker == [db[w] EXCEPT !.silence = "seen"]
             c == [client[w] EXCEPT !.working = FALSE]
  <2>1. worker.requested = db[w].requested /\ worker.status = db[w].status /\ c \in ClientType /\ c.mode = client[w].mode
    BY <1>2, <1>4 DEF WorkerType
  <2>2. Write(w, worker) /\ (Answered(h, None, client[w]) \/ Answered(h, Copy(h).requested, c))
    BY <1>10 DEF HandleMayRun, Seen
  <2>3. call[h].kind = "mayrun" /\ UNCHANGED <<sleeps, checker>>
    BY <1>10 DEF HandleMayRun, At, loops
  <2> HIDE DEF worker, c
  <2>4. sleeps[w] => client[w].mode = "awake" /\ Copy(h).requested = "asleep" /\ DozingWorker(w)
    BY <1>6, <2>3 DEF DozingCall
  <2>5. PICK told \in {None, Copy(h).requested}, d \in {c, client[w]} : Answered(h, told, d)
    BY <2>2
  <2>6. /\ \A v \in Workers \ {w} : db'[v] = db[v]
        /\ db[w].status = "gone" => db'[w].status = "gone"
        /\ db[w].status # "gone" => db'[w].requested = db[w].requested /\ db'[w].status = db[w].status
    BY <1>5, <2>1, <2>2
  <2>7. d \in ClientType /\ d.mode = client[w].mode
    BY <1>2, <2>1, <2>5
  <2>8. sleeps[w] => told \in {None, "asleep"}
    BY <2>4, <2>5
  <2> QED  BY <1>1, <1>6, <2>3, <2>4, <2>5, <2>6, <2>7, <2>8, AnswerSleep, StatusAssumption DEF DozingWorker, Drowsy, Requestable
<1>11. CASE HandleGetStatus(h)
  <2> DEFINE worker == [db[w] EXCEPT !.silence = "seen"]
  <2>1. worker.requested = db[w].requested /\ worker.status = db[w].status
    BY <1>2 DEF WorkerType
  <2>2. Write(w, worker) /\ Answered(h, Copy(h).requested, client[w])
    BY <1>11 DEF HandleGetStatus, Seen
  <2>3. call[h].kind = "getstatus" /\ UNCHANGED <<sleeps, checker>>
    BY <1>11 DEF HandleGetStatus, At, loops
  <2> HIDE DEF worker
  <2>4. sleeps[w] => /\ client[w].mode = "asleep" /\ Copy(h).requested \in Drowsy /\ DozingWorker(w)
                     /\ db[w].status # "gone" => db[w].status = "asleep"
    <3> SUFFICES ASSUME sleeps[w] PROVE client[w].mode = "asleep" /\ Copy(h).requested \in Drowsy /\ DozingWorker(w)
                                        /\ (db[w].status # "gone" => db[w].status = "asleep")
      OBVIOUS
    <3>1. client[w].mode = "asleep" /\ Copy(h).requested \in Drowsy /\ DozingWorker(w)
      BY <1>6, <2>3 DEF DozingCall
    <3>2. \A g \in Handlers : HandledFor(g, w) => call[g].kind # "ack"
      BY <1>6, <2>3
    <3> QED  BY <3>1, <3>2 DEF DozingWorker
  <2>5. /\ \A v \in Workers \ {w} : db'[v] = db[v]
        /\ db[w].status = "gone" => db'[w].status = "gone"
        /\ db[w].status # "gone" => db'[w].requested = db[w].requested /\ db'[w].status = db[w].status
    BY <1>5, <2>1, <2>2
  <2> QED  BY <1>1, <1>2, <1>6, <2>2, <2>3, <2>4, <2>5, AnswerSleep DEF DozingWorker
<1>12. CASE HandleAck(h)
  <2> DEFINE worker == Acknowledged(w, call[h].status)
  <2>1. worker.requested = None /\ worker.status = call[h].status
    BY <1>2 DEF WorkerType, Acknowledged
  <2>2. call[h].kind = "ack" /\ Write(w, worker) /\ Answered(h, None, client[w]) /\ UNCHANGED checker
    BY <1>12 DEF HandleAck, At, loops
  <2>3. /\ sleeps'[w] => call[h].status = "asleep" /\ client[w].call = h /\ Alone(h)
        /\ \A v \in Workers \ {w} : sleeps'[v] = sleeps[v]
    BY <1>1, <1>12 DEF HandleAck, TInv, WorkersTyped
  <2> HIDE DEF worker
  <2>4. sleeps'[w] => client[w].mode = "asleep" /\ \A g \in Handlers \ {h} : ~HandledFor(g, w)
    BY <1>1, <2>2, <2>3, WorkerStatusAssumption DEF SInv, WaitsForAnswer, Alone, HandledFor
  <2>5. ~(kept[w] # None /\ db[w].status # "gone")
    BY <1>1, <2>2 DEF SInv, KeptUntilTold
  <2>6. /\ \A v \in Workers \ {w} : db'[v] = db[v]
        /\ db[w].status = "gone" => db'[w].status = "gone"
        /\ db[w].status # "gone" => db'[w].requested = None /\ db'[w].status = call[h].status
    BY <1>5, <2>1, <2>2
  <2>7. None \in Drowsy
    BY DEF Drowsy
  <2> QED  BY <1>1, <1>2, <2>2, <2>3, <2>4, <2>5, <2>6, <2>7, AnswerSleep
<1>13. CASE HandleSignOff(h)
  <2> DEFINE worker == [Acknowledged(w, "offline") EXCEPT !.task = FALSE]
             c == [client[w] EXCEPT !.mode = "off"]
  <2>1. worker.requested = None /\ worker.status = "offline" /\ c \in ClientType /\ c.mode = "off"
    BY <1>2, <1>3 DEF WorkerType, Acknowledged
  <2>2. /\ call[h].kind = "signoff" /\ call[h].step = "copied" /\ Write(w, worker) /\ UNCHANGED checker
        /\ \/ RemainsAsleep(Copy(h)) /\ GoOn(h, "off") /\ UNCHANGED <<client, kept>>
           \/ ~RemainsAsleep(Copy(h)) /\ Answered(h, None, c)
    BY <1>13 DEF HandleSignOff, At, loops
  <2>3. /\ sleeps'[w] => sleeps[w] /\ Copy(h).requested # "asleep"
        /\ \A v \in Workers \ {w} : sleeps'[v] = sleeps[v]
    BY <1>1, <1>13 DEF HandleSignOff, TInv, WorkersTyped
  <2> HIDE DEF worker, c
  <2>4. sleeps'[w] => RemainsAsleep(Copy(h)) /\ client[w].mode = "leaving" /\ DozingWorker(w)
    BY <1>6, <2>2, <2>3 DEF DozingCall
  <2>5. ~(kept[w] # None /\ db[w].status # "gone")
    BY <1>1, <2>2 DEF SInv, KeptUntilTold
  <2>6. /\ \A v \in Workers \ {w} : db'[v] = db[v]
        /\ db[w].status = "gone" => db'[w].status = "gone"
        /\ db[w].status # "gone" => db'[w].requested = None /\ db'[w].status = "offline"
    BY <1>5, <2>1, <2>2
  <2>7. CASE RemainsAsleep(Copy(h))
    <3>1. GoOn(h, "off") /\ UNCHANGED <<client, kept>> /\ (sleeps'[w] => db'[w].status # "asleep")
      BY <2>2, <2>4, <2>6, <2>7, <1>6
    <3> QED  BY <1>1, <2>2, <2>3, <2>4, <2>5, <2>6, <3>1, GoOnSleep
  <2>8. CASE ~RemainsAsleep(Copy(h))
    BY <1>1, <2>1, <2>2, <2>3, <2>4, <2>5, <2>6, <2>8, AnswerSleep
  <2> QED  BY <2>7, <2>8
<1>14. CASE RequestSleepAgain(h)
  <2> DEFINE worker == Requested(w, "asleep", FALSE)
             c == [client[w] EXCEPT !.mode = "off"]
  <2>1. worker.requested = "asleep" /\ worker.status = db[w].status /\ c \in ClientType /\ c.mode = "off"
    BY <1>2, <1>3 DEF WorkerType, Requested
  <2>2. /\ call[h].kind = "signoff" /\ call[h].step = "off" /\ Write(w, worker) /\ Answered(h, None, c)
        /\ UNCHANGED <<sleeps, checker>>
    BY <1>14 DEF RequestSleepAgain, At, loops
  <2> HIDE DEF worker, c
  <2>3. sleeps[w] => DozingWorker(w) /\ (db[w].status # "gone" => db[w].status # "asleep")
    BY <1>6, <2>2 DEF DozingCall
  <2>4. ~(kept[w] # None /\ db[w].status # "gone")
    BY <1>1, <2>2 DEF SInv, KeptUntilTold
  <2>5. /\ \A v \in Workers \ {w} : db'[v] = db[v]
        /\ db[w].status = "gone" => db'[w].status = "gone"
        /\ db[w].status # "gone" => db'[w].requested = "asleep" /\ db'[w].status = db[w].status
    BY <1>5, <2>1, <2>2
  <2>6. None \in Drowsy /\ "asleep" \in Drowsy /\ None # "shutdown"
    BY StatusAssumption DEF Drowsy, Requestable
  <2> QED  BY <1>1, <1>6, <2>1, <2>2, <2>3, <2>4, <2>5, <2>6, AnswerSleep DEF DozingWorker
<1>15. CASE HandleAckTimeout(h)
  <2>1. /\ call[h].kind = "acktimeout" /\ Write(w, [db[w] EXCEPT !.status = "offline"])
        /\ call' = [call EXCEPT ![h] = NoCall] /\ UNCHANGED <<client, kept, sleeps, checker>>
    BY <1>15 DEF HandleAckTimeout, At, SetStatus, loops
  <2>2. [db[w] EXCEPT !.status = "offline"].requested = db[w].requested /\ [db[w] EXCEPT !.status = "offline"].status = "offline"
    BY <1>2 DEF WorkerType
  <2>3. call'[h] = NoCall /\ \A g \in Handlers \ {h} : call'[g] = call[g]
    BY <2>1 DEF TInv, RequestsTyped
  <2>4. /\ \A v \in Workers \ {w} : db'[v] = db[v]
        /\ db[w].status = "gone" => db'[w].status = "gone"
        /\ db[w].status # "gone" => db'[w].requested = db[w].requested
    BY <1>5, <2>1, <2>2
  <2>5. ASSUME NEW v \in Workers \ {w} PROVE KeptUntilTold(v)' /\ WaitsForAnswer(v)' /\ (sleeps'[v] => Dozing(v)')
    BY <1>1, <2>1, <2>3, <2>4, OthersKept DEF HandledFor
  <2>6. ~sleeps'[w]
    BY <1>1, <1>6, <2>1 DEF DozingCall
  <2>7. KeptUntilTold(w)'
    <3>1. \A g \in Handlers : HandledFor(g, w)' => HandledFor(g, w) /\ call'[g] = call[g]
      BY <2>3 DEF HandledFor
    <3> QED  BY <1>1, <2>1, <2>4, <3>1, KeptStays
  <2>8. WaitsForAnswer(w)'
    BY <1>1, <2>1, <2>3 DEF SInv, WaitsForAnswer, HandledFor
  <2> QED  BY <2>5, <2>6, <2>7, <2>8 DEF SInv
<1>16. CASE HandleSchedule(h)
  <2>1. call[h].kind = "schedule" /\ GoOn(h, "stored") /\ UNCHANGED <<db, client, checker, kept, sleeps>>
    BY <1>16 DEF HandleSchedule, At, loops
  <2>2. /\ call'[h] # NoCall /\ call'[h].kind = "schedule" /\ call'[h].worker = w
        /\ \A g \in Handlers \ {h} : call'[g] = call[g]
    BY <1>1, <2>1, GoOnEffect
  <2>3. ASSUME NEW v \in Workers \ {w} PROVE KeptUntilTold(v)' /\ WaitsForAnswer(v)' /\ (sleeps'[v] => Dozing(v)')
    BY <1>1, <2>1, <2>2, OthersKept DEF HandledFor
  <2>4. KeptUntilTold(w)'
    <3>1. \A g \in Handlers : HandledFor(g, w)' => HandledFor(g, w) /\ call'[g].kind = call[g].kind
      BY <1>1, <2>1, <2>2 DEF HandledFor
    <3> QED  BY <1>1, <2>1, <3>1, KeptStays
  <2>5. WaitsForAnswer(w)' /\ (sleeps'[w] => Dozing(w)')
    <3>1. \A g \in Handlers : HandledFor(g, w)' /\ call'[g].kind # "schedule" => call'[g] = call[g]
      BY <2>2
    <3>2. \A g \in Handlers : HandledFor(g, w) /\ call[g].kind \notin {"schedule", "acktimeout"} => call'[g] = call[g]
      BY <2>1, <2>2
    <3> QED  BY <1>1, <2>1, <3>1, <3>2, DozesOn
  <2> QED  BY <2>3, <2>4, <2>5 DEF SInv
<1>17. CASE HandleScheduleStored(h)
  <2>1. /\ call[h].kind = "schedule" /\ RequestWorkerStatus(w, Copy(h), call[h].schedule)
        /\ call' = [call EXCEPT ![h] = NoCall] /\ UNCHANGED <<client, checker>>
    BY <1>17 DEF HandleScheduleStored, At, loops
  <2>2. call'[h] = NoCall /\ \A g \in Handlers \ {h} : call'[g] = call[g]
    BY <2>1 DEF TInv, RequestsTyped
  <2>3. /\ \A v \in Workers \ {w} : db'[v] = db[v] /\ kept'[v] = kept[v] /\ sleeps'[v] = sleeps[v]
        /\ db'[w].status = db[w].status
        /\ \/ UNCHANGED <<db, kept, sleeps>>
           \/ /\ kept'[w] = None
              /\ sleeps'[w] => sleeps[w] /\ (db[w].status = "gone" \/ db'[w].requested = "asleep")
    BY <1>1, <1>2, <2>1, RequestEffect
  <2>4. ASSUME NEW v \in Workers \ {w} PROVE KeptUntilTold(v)' /\ WaitsForAnswer(v)' /\ (sleeps'[v] => Dozing(v)')
    BY <1>1, <2>1, <2>2, <2>3, OthersKept DEF HandledFor
  <2>5. \A g \in Handlers : HandledFor(g, w)' => HandledFor(g, w) /\ call'[g] = call[g]
    BY <2>2 DEF HandledFor
  <2>6. KeptUntilTold(w)'
    BY <1>1, <2>1, <2>3, <2>5, KeptStays
  <2>7. WaitsForAnswer(w)' /\ (sleeps'[w] => Dozing(w)')
    <3>1. \A g \in Handlers : HandledFor(g, w) /\ call[g].kind \notin {"schedule", "acktimeout"} => call'[g] = call[g]
      BY <2>1, <2>2
    <3> QED  BY <1>1, <2>1, <2>3, <2>5, <3>1, DozesOn
  <2> QED  BY <2>4, <2>6, <2>7 DEF SInv
<1> QED
  BY <1>7, <1>8, <1>9, <1>10, <1>11, <1>12, <1>13, <1>14, <1>15, <1>16, <1>17 DEF Handle

(* The loops: the sleep scheduler, the timeout checker and the worker remover. *)
LEMMA RefreshSleep ==
    ASSUME TInv, SInv, NEW w \in Workers, RefreshWorker(w) \/ RefreshRequest(w)
    PROVE  SInv'
<1> SUFFICES ASSUME NEW v \in Workers PROVE KeptUntilTold(v)' /\ WaitsForAnswer(v)' /\ (sleeps'[v] => Dozing(v)')
  BY DEF SInv
<1>1. CASE RefreshWorker(w)
  BY <1>1, WorkerOnly DEF RefreshWorker, loops
<1>2. CASE RefreshRequest(w)
  <2>1. refresh[w] # None /\ refresh[w] \in {None} \cup [copy : CopyType, sched : ScheduleType]
    BY <1>2, WorkerStatusAssumption DEF RefreshRequest, TInv, LoopsTyped, RefreshingFound
  <2>2. refresh[w].sched \in ScheduleType
    BY <2>1
  <2>3. /\ \A u \in Workers \ {w} : db'[u] = db[u] /\ kept'[u] = kept[u] /\ sleeps'[u] = sleeps[u]
        /\ db'[w].status = db[w].status
        /\ \/ UNCHANGED <<db, kept, sleeps>>
           \/ /\ kept'[w] = None
              /\ sleeps'[w] => sleeps[w] /\ (db[w].status = "gone" \/ db'[w].requested = "asleep")
    BY <1>2, <2>2, RequestEffect DEF RefreshRequest
  <2>4. UNCHANGED <<call, client, checker>>
    BY <1>2 DEF RefreshRequest, loops
  <2>5. CASE v = w
    BY <2>3, <2>4, <2>5, WorkerOnly
  <2>6. CASE v # w
    BY <2>3, <2>4, <2>6, WorkerOnly
  <2> QED  BY <2>5, <2>6
<1> QED  BY <1>1, <1>2

LEMMA CheckerSleep ==
    ASSUME TInv, SInv, CheckWorkers \/ \E w \in Workers : CheckTask(w)
    PROVE  SInv'
<1> SUFFICES ASSUME NEW v \in Workers PROVE KeptUntilTold(v)' /\ WaitsForAnswer(v)' /\ (sleeps'[v] => Dozing(v)')
  BY DEF SInv
<1>1. CASE CheckWorkers
  <2>1. kept'[v] = None \/ (kept'[v] = kept[v] /\ checker'[v] = None)
    BY <1>1 DEF CheckWorkers
  <2>2. UNCHANGED <<db, client, call, sleeps>>
    BY <1>1 DEF CheckWorkers
  <2>3. KeptUntilTold(v)'
    BY <2>1, <2>2, KeptStays DEF HandledFor
  <2> QED  BY <2>2, <2>3, DozesOn
<1>2. ASSUME NEW w \in Workers, CheckTask(w) PROVE KeptUntilTold(v)' /\ WaitsForAnswer(v)' /\ (sleeps'[v] => Dozing(v)')
  <2>1. checker' = [checker EXCEPT ![w] = CopyOf(w)] /\ UNCHANGED <<db, client, call, kept, sleeps>>
    BY <1>2 DEF CheckTask
  <2>2. checker'[v] = checker[v] \/ (v = w /\ checker'[v] = CopyOf(v))
    BY <2>1 DEF TInv, LoopsTyped
  <2>3. CopyOf(v).requested = db[v].requested
    BY DEF CopyOf
  <2>4. KeptUntilTold(v)'
    BY <2>1, <2>2, <2>3 DEF SInv, KeptUntilTold, HandledFor
  <2> QED  BY <2>1, <2>4, DozesOn
<1> QED  BY <1>1, <1>2

LEMMA TimeoutSleep ==
    ASSUME TInv, SInv, NEW w \in Workers, Timeout(w)
    PROVE  SInv'
<1> DEFINE worker == [db[w] EXCEPT !.status = "timeout", !.task = FALSE,
                          !.requested = IF checker[w].requested = None THEN checker[w].status ELSE @]
<1>1. /\ checker[w] # None /\ Write(w, worker) /\ checker' = [checker EXCEPT ![w] = None]
      /\ sleeps' = [sleeps EXCEPT ![w] = FALSE] /\ UNCHANGED <<client, call, kept>>
  BY DEF Timeout
<1>2. checker[w].requested # None => worker.requested = db[w].requested
  BY DEF TInv, WorkersTyped, WorkerType
<1> HIDE DEF worker
<1>3. /\ \A v \in Workers \ {w} : db'[v] = db[v]
      /\ db[w].status = "gone" => db'[w] = db[w]
      /\ db[w].status # "gone" => db'[w] = worker
  BY <1>1, WriteEffect
<1>4. /\ ~sleeps'[w] /\ checker'[w] = None
      /\ \A v \in Workers \ {w} : sleeps'[v] = sleeps[v] /\ checker'[v] = checker[v]
  BY <1>1 DEF TInv, WorkersTyped, LoopsTyped
<1>5. ASSUME NEW v \in Workers \ {w} PROVE KeptUntilTold(v)' /\ WaitsForAnswer(v)' /\ (sleeps'[v] => Dozing(v)')
  BY <1>1, <1>3, <1>4, WorkerOnly
<1>6. WaitsForAnswer(w)'
  BY <1>1 DEF SInv, WaitsForAnswer, HandledFor
<1>7. KeptUntilTold(w)'
  BY <1>1, <1>2, <1>3, <1>4 DEF SInv, KeptUntilTold, HandledFor
<1> QED  BY <1>4, <1>5, <1>6, <1>7 DEF SInv

(* A worker is removed: nothing is promised of it any more. *)
LEMMA GoneSleep ==
    ASSUME TInv, SInv, NEW w \in Workers, RemoveWorker(w) \/ ForgetWorker(w)
    PROVE  SInv'
<1>1. /\ Write(w, [db[w] EXCEPT !.status = "gone", !.task = FALSE, !.requested = None])
      /\ UNCHANGED <<client, call, checker, kept, sleeps>>
  BY DEF RemoveWorker, ForgetWorker, Gone, loops
<1>2. [db[w] EXCEPT !.status = "gone", !.task = FALSE, !.requested = None].status = "gone"
  BY DEF TInv, WorkersTyped, WorkerType
<1>3. db'[w].status = "gone" /\ \A v \in Workers \ {w} : db'[v] = db[v]
  BY <1>1, <1>2, WriteEffect
<1> SUFFICES ASSUME NEW v \in Workers PROVE KeptUntilTold(v)' /\ WaitsForAnswer(v)' /\ (sleeps'[v] => Dozing(v)')
  BY DEF SInv
<1>4. CASE v = w
  BY <1>1, <1>3, <1>4, WorkerOnly
<1>5. CASE v # w
  BY <1>1, <1>3, <1>5, WorkerOnly
<1> QED  BY <1>4, <1>5

(* The worker itself, and the users. *)
LEMMA ClientSleep ==
    ASSUME TInv, SInv, NEW w \in Workers, FinishTask(w) \/ FallSilent(w)
    PROVE  SInv'
<1>1. PICK worker :
          /\ Write(w, worker) /\ worker.status = db[w].status /\ worker.requested = db[w].requested
          /\ UNCHANGED <<call, checker, kept, sleeps>>
  <2>1. db[w] \in WorkerType
    BY DEF TInv, WorkersTyped
  <2>2. CASE FinishTask(w)
    <3>1. /\ [db[w] EXCEPT !.task = FALSE].status = db[w].status
          /\ [db[w] EXCEPT !.task = FALSE].requested = db[w].requested
      BY <2>1 DEF WorkerType
    <3> QED  BY <2>2, <3>1 DEF FinishTask, loops
  <2>3. CASE FallSilent(w)
    <3>1. /\ [db[w] EXCEPT !.silence = IF @ = "seen" THEN "silent" ELSE "old"].status = db[w].status
          /\ [db[w] EXCEPT !.silence = IF @ = "seen" THEN "silent" ELSE "old"].requested = db[w].requested
      BY <2>1 DEF WorkerType
    <3> QED  BY <2>3, <3>1 DEF FallSilent, loops
  <2> QED  BY <2>2, <2>3
<1>2. \A v \in Workers : client'[v].call = client[v].call /\ client'[v].told = client[v].told /\ client'[v].mode = client[v].mode
  BY DEF FinishTask, FallSilent, TInv, WorkersTyped, ClientType
<1>3. \A v \in Workers : db'[v].status = db[v].status /\ db'[v].requested = db[v].requested
  BY <1>1, WriteEffect
<1> SUFFICES ASSUME NEW v \in Workers PROVE KeptUntilTold(v)' /\ WaitsForAnswer(v)' /\ (sleeps'[v] => Dozing(v)')
  BY DEF SInv
<1> QED  BY <1>1, <1>2, <1>3, WorkerOnly

LEMMA KillSleep ==
    ASSUME TInv, SInv, NEW w \in Workers, Kill(w)
    PROVE  SInv'
<1>1. /\ client'[w].call = None /\ client'[w].told = None /\ ~sleeps'[w]
      /\ \A v \in Workers \ {w} : client'[v] = client[v] /\ sleeps'[v] = sleeps[v]
      /\ UNCHANGED <<db, call, checker, kept>>
  BY DEF Kill, loops, TInv, WorkersTyped
<1>2. ASSUME NEW v \in Workers \ {w} PROVE KeptUntilTold(v)' /\ WaitsForAnswer(v)' /\ (sleeps'[v] => Dozing(v)')
  BY <1>1, WorkerOnly
<1>3. WaitsForAnswer(w)'
  BY <1>1 DEF WaitsForAnswer
<1>4. KeptUntilTold(w)'
  BY <1>1, KeptStays DEF HandledFor
<1> QED  BY <1>1, <1>2, <1>3, <1>4 DEF SInv

LEMMA RequestSleep ==
    ASSUME TInv, SInv, NEW w \in Workers, NEW status \in Requestable, NEW lazy \in BOOLEAN,
           RequestStatusChange(w, status, lazy)
    PROVE  SInv'
<1>1. db[w].status # "gone" /\ Write(w, Requested(w, status, lazy)) /\ UNCHANGED <<client, call, checker>>
  BY DEF RequestStatusChange, loops
<1>2. Requested(w, status, lazy).requested = status /\ Requested(w, status, lazy).status = db[w].status
  BY DEF Requested, TInv, WorkersTyped, WorkerType
<1>3. db'[w].requested = status /\ db'[w].status = db[w].status /\ \A v \in Workers \ {w} : db'[v] = db[v]
  BY <1>1, <1>2, WriteEffect
<1>4. /\ kept'[w] # None => kept'[w] = status /\ Undisturbed(w)
      /\ \A v \in Workers \ {w} : kept'[v] = kept[v] /\ sleeps'[v] = sleeps[v]
      /\ sleeps'[w] => sleeps[w] /\ (status = "asleep" \/ (status = "shutdown" /\ db[w].status = "asleep"))
  BY DEF RequestStatusChange, TInv, WorkersTyped
<1>5. ASSUME NEW v \in Workers \ {w} PROVE KeptUntilTold(v)' /\ WaitsForAnswer(v)' /\ (sleeps'[v] => Dozing(v)')
  BY <1>1, <1>3, <1>4, WorkerOnly
<1>6. KeptUntilTold(w)'
  BY <1>1, <1>3, <1>4 DEF KeptUntilTold, Undisturbed, HandledFor
<1>7. WaitsForAnswer(w)'
  BY <1>1 DEF SInv, WaitsForAnswer, HandledFor
<1>8. ASSUME sleeps'[w] PROVE Dozing(w)'
  <2>1. DozingWorker(w) /\ \A g \in Handlers : HandledFor(g, w) => call[g].kind = "schedule" \/ DozingCall(g, w)
    BY <1>4, <1>8 DEF SInv, Dozing
  <2>2. client'[w] = client[w] /\ db'[w].requested \in Drowsy /\ (db'[w].requested = "asleep" \/ db[w].status = "asleep")
    BY <1>1, <1>3, <1>4, <1>8 DEF Drowsy
  <2>3. (\A g \in Handlers : HandledFor(g, w)' => call'[g].kind # "ack") => \A g \in Handlers : HandledFor(g, w) => call[g].kind # "ack"
    BY <1>1 DEF HandledFor
  <2>4. DozingWorker(w)'
    BY <1>1, <1>3, <2>1, <2>2, <2>3 DEF DozingWorker
  <2>5. \A g \in Handlers : HandledFor(g, w)' => call'[g].kind = "schedule" \/ DozingCall(g, w)'
    BY <1>1, <1>3, <2>1, <2>2 DEF DozingCall, HandledFor, Copy
  <2> QED  BY <2>4, <2>5 DEF Dozing
<1> QED  BY <1>5, <1>6, <1>7, <1>8 DEF SInv

LEMMA SInvKept == TInv /\ SInv /\ [Next]_vars => SInv'
<1> SUFFICES ASSUME TInv, SInv, [Next]_vars PROVE SInv'
  OBVIOUS
<1>1. CASE UNCHANGED vars \/ RefreshAllWorkers \/ TimePasses \/ CleanupWorkers
  <2>1. UNCHANGED <<db, client, call, checker, kept, sleeps>>
    BY <1>1 DEF vars, RefreshAllWorkers, TimePasses, CleanupWorkers, loops
  <2>2. \A v \in Workers : KeptUntilTold(v)' /\ WaitsForAnswer(v)' /\ (sleeps'[v] => Dozing(v)')
    BY <2>1, WorkerOnly
  <2> QED  BY <2>2 DEF SInv
<1>2. CASE \E w \in Workers, h \in Handlers : SignOn(w, h) \/ Leave(w, h) \/ AckTimeout(w, h) \/ SetSchedule(w, h)
  BY <1>2, AskSleep, UserSleep
<1>3. CASE \E w \in Workers : Asks(w) \/ FinishTask(w) \/ Kill(w) \/ FallSilent(w)
  BY <1>3, AskSleep, ClientSleep, KillSleep DEF Asks
<1>4. CASE \E w \in Workers, status \in Requestable, lazy \in BOOLEAN : RequestStatusChange(w, status, lazy)
  BY <1>4, RequestSleep
<1>5. CASE \E w \in Workers : RefreshWorker(w) \/ RefreshRequest(w)
  BY <1>5, RefreshSleep
<1>6. CASE CheckWorkers \/ \E w \in Workers : CheckTask(w)
  BY <1>6, CheckerSleep
<1>7. CASE \E w \in Workers : Timeout(w) \/ RemoveWorker(w) \/ ForgetWorker(w)
  BY <1>7, TimeoutSleep, GoneSleep
<1>8. CASE \E h \in Handlers : Handle(h)
  <2>1. \A h \in Handlers : Handle(h) => call[h].worker \in Workers
    BY AtTyped DEF TInv, Handle, HandleSignOn, SetAwake, HandleTask, HandleMayRun, HandleGetStatus, HandleAck, HandleSignOff,
       RequestSleepAgain, HandleAckTimeout, HandleSchedule, HandleScheduleStored
  <2> QED  BY <1>8, <2>1, HandleSleep
<1> QED  BY <1>1, <1>2, <1>3, <1>4, <1>5, <1>6, <1>7, <1>8 DEF Next

(* A request is kept until its worker is told, for any workers, requests and  *)
(* schedules, whatever is acknowledged, timed out or refreshed meanwhile.     *)
THEOREM RequestKeptAlways == Spec => []RequestKept
<1>1. SInv => RequestKept
  BY DEF SInv, KeptUntilTold, RequestKept
<1> QED  BY <1>1, TInvInitially, TInvKept, SInvInitially, SInvKept, PTL DEF Spec

(* Only the handler of its request for a task makes a worker work. *)
LEMMA GetsTask ==
    ASSUME TInv, [Next]_vars, NEW w \in Workers, client'[w].working, ~client[w].working
    PROVE  \E h \in Handlers : /\ HandleTask(h) /\ call[h].worker = w /\ client[w].call = h
                               /\ Copy(h).requested = None
<1> SUFFICES ASSUME \A h \in Handlers : ~(HandleTask(h) /\ call[h].worker = w /\ client[w].call = h /\ Copy(h).requested = None)
             PROVE  FALSE
  OBVIOUS
<1>1. client \in [Workers -> ClientType] /\ client[w] \in ClientType /\ client' # client
  BY DEF TInv, WorkersTyped
<1>2. ASSUME NEW v \in Workers, NEW h \in Handlers,
             \/ SignOn(v, h) \/ AskTask(v, h) \/ AskMayRun(v, h) \/ AskStatus(v, h)
             \/ Acknowledge(v, h) \/ ShutDown(v, h) \/ Leave(v, h)
      PROVE  FALSE
  <2>1. client[v] \in ClientType
    BY <1>1
  <2>2. \E c : client' = [client EXCEPT ![v] = c] /\ (c.working => client[v].working)
    <3>1. CASE SignOn(v, h)
      BY <1>1, <2>1, <3>1 DEF SignOn, ClientType
    <3>2. CASE AskTask(v, h) \/ AskMayRun(v, h) \/ AskStatus(v, h)
      <4> DEFINE c == [client[v] EXCEPT !.call = h]
      <4>1. client' = [client EXCEPT ![v] = c]
        BY <1>1, <3>2 DEF AskTask, AskMayRun, AskStatus
      <4>2. c.working = client[v].working
        BY <2>1 DEF ClientType
      <4> QED  BY <4>1, <4>2
    <3>3. CASE Acknowledge(v, h)
      BY <1>1, <2>1, <3>3 DEF Acknowledge, ClientType
    <3>4. CASE ShutDown(v, h) \/ Leave(v, h)
      BY <3>4 DEF ShutDown, Leave, Leaving
    <3> QED  BY <1>2, <3>1, <3>2, <3>3, <3>4
  <2> QED  BY <1>1, <2>2
<1>3. ASSUME NEW v \in Workers, FinishTask(v) \/ Kill(v) PROVE FALSE
  BY <1>1, <1>3 DEF FinishTask, Kill, ClientType
<1>4. ASSUME NEW h \in Handlers, Handle(h) PROVE FALSE
  <2>1. call[h].worker \in Workers
    BY <1>4, AtTyped DEF TInv, Handle, HandleSignOn, SetAwake, HandleTask, HandleMayRun, HandleGetStatus, HandleAck,
       HandleSignOff, RequestSleepAgain, HandleAckTimeout, HandleSchedule, HandleScheduleStored
  <2>2. PICK u \in Workers : u = call[h].worker
    BY <2>1
  <2>3. client[u] \in ClientType
    BY <1>1
  <2>4. /\ \A mode \in {"off", "awake"} :
               /\ [client[u] EXCEPT !.mode = mode] \in ClientType
               /\ [client[u] EXCEPT !.mode = mode].working = client[u].working
        /\ \A given \in BOOLEAN :
               /\ [client[u] EXCEPT !.working = given] \in ClientType
               /\ [client[u] EXCEPT !.working = given].working = given
    BY <2>3 DEF ClientType
  <2>5. ASSUME NEW told, NEW c \in ClientType, Answered(h, told, c)
        PROVE  w = u /\ client[w].call = h /\ c.working
    BY <2>2, <2>5, AnsweredEffect
  <2>6. CASE HandleTask(h)
    <3>1. PICK given \in BOOLEAN :
              /\ given => Copy(h).requested = None
              /\ Answered(h, Copy(h).requested, [client[u] EXCEPT !.working = given])
      BY <2>2, <2>6 DEF HandleTask
    <3> QED  BY <2>2, <2>4, <2>5, <2>6, <3>1
  <2>7. CASE HandleSignOn(h) \/ HandleSignOff(h) \/ RequestSleepAgain(h)
    <3>1. Answered(h, None, [client[u] EXCEPT !.mode = "awake"]) \/ Answered(h, None, [client[u] EXCEPT !.mode = "off"])
      BY <1>1, <2>2, <2>7 DEF HandleSignOn, HandleSignOff, RequestSleepAgain
    <3> QED  BY <2>4, <2>5, <3>1
  <2>8. CASE HandleMayRun(h) \/ HandleGetStatus(h) \/ HandleAck(h)
    <3>1. \E told : Answered(h, told, client[u]) \/ Answered(h, told, [client[u] EXCEPT !.working = FALSE])
      BY <2>2, <2>8 DEF HandleMayRun, HandleGetStatus, HandleAck
    <3> QED  BY <2>3, <2>4, <2>5, <3>1
  <2> QED
    BY <1>1, <1>4, <2>6, <2>7, <2>8 DEF Handle, SetAwake, HandleAckTimeout, HandleSchedule, HandleScheduleStored
<1>5. ASSUME NEW v \in Workers, NEW h \in Handlers, AckTimeout(v, h) \/ SetSchedule(v, h) PROVE FALSE
  BY <1>1, <1>5 DEF AckTimeout, SetSchedule
<1>6. ASSUME NEW v \in Workers,
             \/ FallSilent(v) \/ RefreshWorker(v) \/ RefreshRequest(v) \/ CheckTask(v) \/ Timeout(v)
             \/ RemoveWorker(v) \/ ForgetWorker(v)
             \/ \E status \in Requestable, lazy \in BOOLEAN : RequestStatusChange(v, status, lazy)
      PROVE  FALSE
  BY <1>1, <1>6 DEF FallSilent, RefreshWorker, RefreshRequest, CheckTask, Timeout, RemoveWorker, ForgetWorker, RequestStatusChange
<1>7. ~(UNCHANGED vars \/ RefreshAllWorkers \/ TimePasses \/ CheckWorkers \/ CleanupWorkers)
  BY <1>1 DEF vars, RefreshAllWorkers, TimePasses, CheckWorkers, CleanupWorkers
<1> QED  BY <1>2, <1>3, <1>4, <1>5, <1>6, <1>7 DEF Next, Asks

(* Who sleeps gets no task, also after it was shut down and started again. *)
THEOREM SleeperGetsNoTaskAlways == Spec => SleeperGetsNoTask
<1>1. ASSUME TInv, SInv, [Next]_vars, NEW w \in Workers, client'[w].working, ~client[w].working
      PROVE  ~sleeps'[w]
  <2>1. PICK h \in Handlers : /\ HandleTask(h) /\ call[h].worker = w /\ client[w].call = h
                              /\ Copy(h).requested = None
    BY <1>1, GetsTask
  <2>2. HandledFor(h, w) /\ call[h].kind = "task" /\ UNCHANGED sleeps
    BY <2>1 DEF HandleTask, At, HandledFor
  <2>3. None # "asleep"
    BY StatusAssumption DEF Requestable
  <2> QED  BY <1>1, <2>1, <2>2, <2>3, OneDozingCall DEF DozingCall
<1>2. TInv /\ SInv /\ [Next]_vars =>
          [\A w \in Workers : client'[w].working /\ ~client[w].working => ~sleeps'[w]]_vars
  BY <1>1
<1> QED  BY <1>2, TInvInitially, TInvKept, SInvInitially, SInvKept, PTL DEF Spec, SleeperGetsNoTask
=============================================================================
