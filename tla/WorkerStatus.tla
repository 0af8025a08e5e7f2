---------------------------- MODULE WorkerStatus ----------------------------
(* The statuses of workers and the requests to change them: sign-on and     *)
(* sign-off, asking for tasks, acknowledgements, the timeout checker, the   *)
(* sleep scheduler, the removal of old workers, and what users do on the    *)
(* dashboard (workers.go, scheduler.go, timeout_checker.go,                 *)
(* sleep_scheduler.go, worker_remover.go, dashboard.go in src/flamenco).    *)
(* Each handler reads the worker from the database and writes it later,     *)
(* from its copy, and no lock is held meanwhile.                            *)
EXTENDS SleepSchedule

CONSTANTS
    Workers,
    Handlers,       \* names for the requests being handled
    Starts, Ends,   \* the start and end times of the schedules users set
    DaySets,        \* and their days
    Env,            \* what may happen: see EnvKinds
    MaxDay,         \* bound: the day on which time stops
    MaxEvents       \* bound: requests, schedules, workers stopped, killed and forgotten

(* "request":  a user requests a status;                                    *)
(* "schedule": a user sets a sleep schedule;                                *)
(* "leave":    a worker signs off of its own;                               *)
(* "kill":     a worker is killed;                                          *)
(* "task":     a task times out while its worker is up again;               *)
(* "remove":   workers that were gone for long are removed, or forgotten;   *)
(* "ack":      a user acknowledges a timeout.                               *)
EnvKinds == {"request", "schedule", "leave", "kill", "task", "remove", "ack"}

ASSUME WorkerStatusAssumption ==
    /\ Env \subseteq EnvKinds
    /\ Starts \subseteq TimesOfDay \cup {None} /\ Ends \subseteq TimesOfDay \cup {None}
    /\ DaySets \subseteq SUBSET Days
    /\ None \notin Workers \cup Handlers
    /\ MaxDay \in Nat
    /\ MaxEvents \in Nat

VARIABLES
    db,         \* the workers in the database
    sched,      \* their sleep schedules, with the time of the next check
    now,        \* the time
    client,     \* the workers themselves
    call,       \* requests being handled
    refresh,    \* RefreshAllWorkers: what its query found and it has yet to handle
    refreshing, \* the worker it is handling, or None
    checker,    \* TimeoutChecker: the workers that its query found
    remover,    \* WorkerRemover: the workers that its query found
    kept,       \* history: a request that nothing should have removed yet
    sleeps,     \* history: a worker that was sent to sleep and not woken up
    followed,   \* history: what the schedule wanted when its next check was set
    events      \* how often a user or a worker did something

vars == <<db, sched, now, client, call, refresh, refreshing, checker, remover, kept, sleeps, followed, events>>

\* "gone" stands for a worker that was removed from the database.
Statuses == {"starting", "offline", "awake", "asleep", "timeout", "gone"}

Requestable == {"asleep", "awake", "shutdown"}

ASSUME StatusAssumption == None \notin Statuses \cup Requestable

Requests == Requestable \cup Statuses \cup {None}

Silences == {"seen", "silent", "old"}   \* last_activity, against the two thresholds

WorkerType == [status : Statuses, requested : Requests, lazy : BOOLEAN, silence : Silences, task : BOOLEAN]

ScheduleType ==
    [active : BOOLEAN, days : SUBSET Days, start : TimesOfDay \cup {None}, end : TimesOfDay \cup {None}, next : Moments]

ClientType ==
    [mode : {"off", "starting", "awake", "asleep", "leaving"}, working : BOOLEAN,
     told : Requests, call : Handlers \cup {None}]

\* What a handler or a loop has read of a worker.
CopyType == [status : Statuses \cup {None}, requested : Requests, lazy : BOOLEAN]

Kinds == {"signon", "signoff", "task", "mayrun", "getstatus", "ack", "acktimeout", "schedule"}

\* A request: its worker, the step it has got to, its copy of the worker, and
\* the status it acknowledges or the schedule it sets.
NoCall == [step |-> "idle"]

CallType ==
    [step : {"copied", "awake", "stored", "off"}, kind : Kinds, worker : Workers,
     copy : CopyType, status : Requests, schedule : ScheduleType]

TypeOK ==
    /\ db \in [Workers -> WorkerType]
    /\ sched \in [Workers -> ScheduleType]
    /\ now \in Moments
    /\ client \in [Workers -> ClientType]
    /\ call \in [Handlers -> {NoCall} \cup CallType]
    /\ refresh \in [Workers -> {None} \cup [copy : CopyType, sched : ScheduleType]]
    /\ refreshing \in Workers \cup {None}
    /\ checker \in [Workers -> {None} \cup CopyType]
    /\ remover \in SUBSET Workers
    /\ kept \in [Workers -> Requestable \cup {None}]
    /\ sleeps \in [Workers -> BOOLEAN]
    /\ followed \in [Workers -> {"awake", "asleep", None}]
    /\ events \in 0 .. MaxEvents

NoSchedule == [active |-> FALSE, days |-> {}, start |-> None, end |-> None, next |-> [day |-> 0, tod |-> 0]]

Init ==
    /\ db = [w \in Workers |-> [status |-> "offline", requested |-> None, lazy |-> FALSE, silence |-> "seen", task |-> FALSE]]
    /\ sched = [w \in Workers |-> NoSchedule]
    /\ now = [day |-> 0, tod |-> 0]
    /\ client = [w \in Workers |-> [mode |-> "off", working |-> FALSE, told |-> None, call |-> None]]
    /\ call = [h \in Handlers |-> NoCall]
    /\ refresh = [w \in Workers |-> None]
    /\ refreshing = None
    /\ checker = [w \in Workers |-> None]
    /\ remover = {}
    /\ kept = [w \in Workers |-> None]
    /\ sleeps = [w \in Workers |-> FALSE]
    /\ followed = [w \in Workers |-> None]
    /\ events = 0

----------------------------------------------------------------------------
(* Writing to the database: what was removed stays so.                     *)

Write(w, worker) == db' = IF db[w].status = "gone" THEN db ELSE [db EXCEPT ![w] = worker]

SetStatus(w, status) == Write(w, [db[w] EXCEPT !.status = status])

Requested(w, status, lazy) == [db[w] EXCEPT !.requested = status, !.lazy = lazy]

\* AckStatusChange: whatever is requested by now is no longer.
Acknowledged(w, status) == [db[w] EXCEPT !.status = status, !.requested = None]

Seen(w) == Write(w, [db[w] EXCEPT !.silence = "seen"])

----------------------------------------------------------------------------
(* Requests.                                                               *)

Event == events < MaxEvents /\ events' = events + 1

CopyOf(w) == [status |-> db[w].status, requested |-> db[w].requested, lazy |-> db[w].lazy]

\* What is read is left out where nothing depends on it.
NoCopy == [status |-> None, requested |-> None, lazy |-> FALSE]

\* A request arrives, and its handler reads the worker.
Arrive(h, kind, w, copy, status, schedule) ==
    /\ call[h] = NoCall
    /\ call' = [call EXCEPT ![h] = [step |-> "copied", kind |-> kind, worker |-> w, copy |-> copy,
                                   status |-> status, schedule |-> schedule]]

\* The worker makes a request, and waits for the answer.  One that was removed
\* is refused.
Ask(h, kind, w, copy, status) ==
    /\ db[w].status # "gone"
    /\ client[w].call = None
    /\ Arrive(h, kind, w, copy, status, NoSchedule)

At(h, kinds, step) == call[h] # NoCall /\ call[h].kind \in kinds /\ call[h].step = step

GoOn(h, step) == call' = [call EXCEPT ![h].step = step]

\* The handler ends; its answer gets to the worker, unless that was killed.
Answered(h, told, worker) ==
    LET w == call[h].worker
    IN  /\ call' = [call EXCEPT ![h] = NoCall]
        /\ client' = IF client[w].call = h THEN [client EXCEPT ![w] = [worker EXCEPT !.call = None, !.told = told]] ELSE client
        /\ kept' = IF client[w].call = h /\ told # None THEN [kept EXCEPT ![w] = None] ELSE kept

schedulers == <<sched, refresh, refreshing, followed>>

loops == <<checker, remover>>

----------------------------------------------------------------------------
(* The worker.                                                             *)

\* It starts, and signs on.
SignOn(w, h) ==
    /\ client[w].mode = "off"
    /\ Ask(h, "signon", w, NoCopy, None)
    /\ client' = [client EXCEPT ![w] = [@ EXCEPT !.mode = "starting", !.call = h]]
    /\ UNCHANGED <<db, schedulers, now, loops, kept, sleeps, events>>

\* It asks for a task.
AskTask(w, h) ==
    /\ client[w].mode = "awake" /\ ~client[w].working /\ client[w].told = None
    /\ Ask(h, "task", w, CopyOf(w), None)
    /\ client' = [client EXCEPT ![w].call = h]
    /\ UNCHANGED <<db, schedulers, now, loops, kept, sleeps, events>>

\* It asks whether it may go on with its task.
AskMayRun(w, h) ==
    /\ client[w].mode = "awake" /\ client[w].working
    /\ Ask(h, "mayrun", w, CopyOf(w), None)
    /\ client' = [client EXCEPT ![w].call = h]
    /\ UNCHANGED <<db, schedulers, now, loops, kept, sleeps, events>>

\* Asleep, it asks whether its status should change.
AskStatus(w, h) ==
    /\ client[w].mode = "asleep" /\ client[w].told = None
    /\ Ask(h, "getstatus", w, CopyOf(w), None)
    /\ client' = [client EXCEPT ![w].call = h]
    /\ UNCHANGED <<db, schedulers, now, loops, kept, sleeps, events>>

\* It was told to change its status, does so and says so.
Acknowledge(w, h) ==
    /\ client[w].told \in {"awake", "asleep"}
    /\ Ask(h, "ack", w, NoCopy, client[w].told)
    /\ client' = [client EXCEPT ![w] = [@ EXCEPT !.mode = client[w].told, !.told = None, !.call = h]]
    /\ UNCHANGED <<db, schedulers, now, loops, kept, sleeps, events>>

Leaving(w, h) ==
    /\ Ask(h, "signoff", w, CopyOf(w), None)
    /\ client' = [client EXCEPT ![w] = [mode |-> "leaving", working |-> FALSE, told |-> None, call |-> h]]
    /\ kept' = [kept EXCEPT ![w] = None]

\* It was told to shut down.
ShutDown(w, h) ==
    /\ client[w].told = "shutdown"
    /\ Leaving(w, h)
    /\ UNCHANGED <<db, schedulers, now, loops, sleeps, events>>

\* It is stopped by whoever sits at the machine.
Leave(w, h) ==
    /\ "leave" \in Env /\ Event
    /\ client[w].mode \in {"awake", "asleep"}
    /\ Leaving(w, h)
    /\ UNCHANGED <<db, schedulers, now, loops, sleeps>>

\* Its task ends.
FinishTask(w) ==
    /\ client[w].working /\ client[w].call = None /\ db[w].status # "gone"
    /\ client' = [client EXCEPT ![w].working = FALSE]
    /\ Write(w, [db[w] EXCEPT !.task = FALSE])
    /\ UNCHANGED <<schedulers, now, call, loops, kept, sleeps, events>>

\* It is killed; what it asked for is handled all the same.
Kill(w) ==
    /\ "kill" \in Env /\ Event
    /\ client[w].mode # "off" /\ db[w].status # "gone"
    /\ client' = [client EXCEPT ![w] = [mode |-> "off", working |-> FALSE, told |-> None, call |-> None]]
    /\ sleeps' = [sleeps EXCEPT ![w] = FALSE]
    /\ UNCHANGED <<db, schedulers, now, call, loops, kept>>

\* It has not been heard of for some time, and then for a long time.
FallSilent(w) ==
    /\ client[w].mode = "off" /\ db[w].silence # "old"
    /\ Write(w, [db[w] EXCEPT !.silence = IF @ = "seen" THEN "silent" ELSE "old"])
    /\ UNCHANGED <<schedulers, now, client, call, loops, kept, sleeps, events>>

----------------------------------------------------------------------------
(* Handling what the worker asks.                                          *)

Copy(h) == call[h].copy

\* WorkerSignOn.
HandleSignOn(h) ==
    LET w == call[h].worker
    IN  /\ At(h, {"signon"}, "copied")
        /\ Write(w, [db[w] EXCEPT !.status = "starting", !.silence = "seen"])
        /\ Answered(h, None, [client[w] EXCEPT !.mode = "awake"])
        /\ UNCHANGED <<schedulers, now, loops, sleeps, events>>

\* SetAwake, for who asks for a task or whether it may go on with one.
SetAwake(h) ==
    /\ At(h, {"task", "mayrun"}, "copied")
    /\ IF Copy(h).status = "awake" THEN UNCHANGED db ELSE SetStatus(call[h].worker, "awake")
    /\ GoOn(h, "awake")
    /\ UNCHANGED <<schedulers, now, client, loops, kept, sleeps, events>>

\* ScheduleTask: whose status is to change gets no task.
HandleTask(h) ==
    LET w == call[h].worker
    IN  /\ At(h, {"task"}, "awake")
        /\ \E given \in BOOLEAN :
               /\ given => Copy(h).requested = None /\ Copy(h).status # "gone"
               /\ Write(w, [db[w] EXCEPT !.silence = "seen", !.task = @ \/ given])
               /\ Answered(h, Copy(h).requested, [client[w] EXCEPT !.working = given])
        /\ UNCHANGED <<schedulers, now, loops, sleeps, events>>

\* Mutant: every status may be changed to after the task.
MayKeepRunningLazily(worker, copy) == worker.task

\* WorkerMayRunTask: no, when the task was taken from it, or when its status is
\* to change immediately to one in which it does not run tasks.
MayKeepRunning(worker, copy) ==
    worker.task /\ (copy.requested \in {None, "awake"} \/ copy.lazy)

HandleMayRun(h) ==
    LET w == call[h].worker
    IN  /\ At(h, {"mayrun"}, "awake")
        /\ Seen(w)
        /\ IF MayKeepRunning(db[w], Copy(h))
           THEN Answered(h, None, client[w])
           ELSE Answered(h, Copy(h).requested, [client[w] EXCEPT !.working = FALSE])
        /\ UNCHANGED <<schedulers, now, loops, sleeps, events>>

\* WorkerGetStatusChange.
HandleGetStatus(h) ==
    LET w == call[h].worker
    IN  /\ At(h, {"getstatus"}, "copied")
        /\ Seen(w)
        /\ Answered(h, Copy(h).requested, client[w])
        /\ UNCHANGED <<schedulers, now, loops, sleeps, events>>

\* Nothing that the worker asked for before it was killed is still being handled.
Alone(h) == \A g \in Handlers \ {h} : call[g] = NoCall \/ call[g].worker # call[h].worker

\* WorkerAckStatusChange.
HandleAck(h) ==
    LET w == call[h].worker
    IN  /\ At(h, {"ack"}, "copied")
        /\ Write(w, Acknowledged(w, call[h].status))
        /\ sleeps' = [sleeps EXCEPT ![w] = call[h].status = "asleep" /\ client[w].call = h /\ Alone(h)]
        /\ Answered(h, None, client[w])
        /\ UNCHANGED <<schedulers, now, loops, events>>

\* Mutant: only when nothing is requested.
RemainsAsleepUnasked(copy) == copy.status = "asleep" /\ copy.requested = None

\* "Make sure that the worker remains asleep, even after signing on again."
RemainsAsleep(copy) == copy.status = "asleep" /\ copy.requested \in {None, "shutdown"}

\* WorkerSignOff: the tasks are returned, signing off acknowledges a shutdown,
\* and a worker that sleeps is requested to do so again.
HandleSignOff(h) ==
    LET w == call[h].worker
    IN  /\ At(h, {"signoff"}, "copied")
        /\ Write(w, [Acknowledged(w, "offline") EXCEPT !.task = FALSE])
        /\ IF RemainsAsleep(Copy(h))
           THEN GoOn(h, "off") /\ UNCHANGED <<client, kept>>
           ELSE Answered(h, None, [client[w] EXCEPT !.mode = "off"])
        /\ sleeps' = [sleeps EXCEPT ![w] = @ /\ Copy(h).requested # "asleep"]
        /\ UNCHANGED <<schedulers, now, loops, events>>

RequestSleepAgain(h) ==
    LET w == call[h].worker
    IN  /\ At(h, {"signoff"}, "off")
        /\ Write(w, Requested(w, "asleep", FALSE))
        /\ Answered(h, None, [client[w] EXCEPT !.mode = "off"])
        /\ UNCHANGED <<schedulers, now, loops, sleeps, events>>

----------------------------------------------------------------------------
(* The dashboard.                                                          *)

\* Nothing is on its way that was read, or told, before this moment.
Undisturbed(w) ==
    /\ client[w].call = None /\ client[w].told = None
    /\ \A h \in Handlers : call[h] = NoCall \/ call[h].worker # w
    /\ refresh[w] = None /\ checker[w] = None

\* A user requests a status; waking up is not lazy.
RequestStatusChange(w, status, lazy) ==
    /\ "request" \in Env /\ Event
    /\ db[w].status # "gone"
    /\ status = "awake" => ~lazy
    /\ Write(w, Requested(w, status, lazy))
    /\ kept' = [kept EXCEPT ![w] = IF Undisturbed(w) THEN status ELSE None]
    /\ sleeps' = [sleeps EXCEPT ![w] = @ /\ (status = "asleep" \/ (status = "shutdown" /\ db[w].status = "asleep"))]
    /\ UNCHANGED <<schedulers, now, client, call, loops>>

\* A user acknowledges a timeout.
AckTimeout(w, h) ==
    /\ "ack" \in Env
    /\ db[w].status = "timeout"
    /\ Arrive(h, "acktimeout", w, NoCopy, None, NoSchedule)
    /\ UNCHANGED <<db, schedulers, now, client, loops, kept, sleeps, events>>

\* Mutant: the timeout is acknowledged like a change of status.
HandleAckTimeoutLikeAck(h) ==
    /\ At(h, {"acktimeout"}, "copied")
    /\ Write(call[h].worker, Acknowledged(call[h].worker, "offline"))
    /\ call' = [call EXCEPT ![h] = NoCall]
    /\ UNCHANGED <<schedulers, now, client, loops, kept, sleeps, events>>

HandleAckTimeout(h) ==
    /\ At(h, {"acktimeout"}, "copied")
    /\ SetStatus(call[h].worker, "offline")
    /\ call' = [call EXCEPT ![h] = NoCall]
    /\ UNCHANGED <<schedulers, now, client, loops, kept, sleeps, events>>

\* A user sets a sleep schedule.
SetSchedule(w, h) ==
    /\ "schedule" \in Env /\ Event
    /\ db[w].status # "gone"
    /\ \E active \in BOOLEAN, days \in DaySets, start \in Starts, end \in Ends :
           Arrive(h, "schedule", w, CopyOf(w), None,
                  [active |-> active, days |-> days, start |-> start, end |-> end, next |-> now])
    /\ UNCHANGED <<db, schedulers, now, client, loops, kept, sleeps>>

----------------------------------------------------------------------------
(* The sleep scheduler.                                                    *)

\* SetSleepSchedule, first half: the schedule is stored with its next check.
StoreSchedule(w, schedule) ==
    /\ sched' = [sched EXCEPT ![w] = [schedule EXCEPT !.next = NextCheck(schedule, now)]]
    /\ followed' = [followed EXCEPT ![w] = ScheduledStatus(schedule, now)]

\* RequestWorkerStatus: requests what the schedule wants, unless the worker,
\* as it was read, has that status or was requested to.
RequestWorkerStatus(w, copy, schedule) ==
    LET status == ScheduledStatus(schedule, now)
    IN  IF status \in {None, copy.status, copy.requested}
        THEN UNCHANGED <<db, kept, sleeps>>
        ELSE /\ Write(w, Requested(w, status, FALSE))
             /\ kept' = [kept EXCEPT ![w] = None]
             /\ sleeps' = [sleeps EXCEPT ![w] = @ /\ status # "awake"]

HandleSchedule(h) ==
    /\ At(h, {"schedule"}, "copied")
    /\ StoreSchedule(call[h].worker, call[h].schedule)
    /\ GoOn(h, "stored")
    /\ UNCHANGED <<db, refresh, refreshing, now, client, loops, kept, sleeps, events>>

HandleScheduleStored(h) ==
    /\ At(h, {"schedule"}, "stored")
    /\ RequestWorkerStatus(call[h].worker, Copy(h), call[h].schedule)
    /\ call' = [call EXCEPT ![h] = NoCall]
    /\ UNCHANGED <<schedulers, now, client, loops, events>>

Due(w) == sched[w].active /\ db[w].status # "gone" /\ ~Before(now, sched[w].next)

\* RefreshAllWorkers, every minute: the query.
RefreshAllWorkers ==
    /\ \A w \in Workers : refresh[w] = None
    /\ \E w \in Workers : Due(w)
    /\ refresh' = [w \in Workers |-> IF Due(w) THEN [copy |-> CopyOf(w), sched |-> sched[w]] ELSE None]
    /\ UNCHANGED <<db, sched, now, client, call, refreshing, loops, kept, sleeps, followed, events>>

\* One of the workers it found.
RefreshWorker(w) ==
    /\ refreshing = None /\ refresh[w] # None
    /\ StoreSchedule(w, refresh[w].sched)
    /\ refreshing' = w
    /\ UNCHANGED <<db, now, client, call, refresh, loops, kept, sleeps, events>>

RefreshRequest(w) ==
    /\ refreshing = w
    /\ RequestWorkerStatus(w, refresh[w].copy, refresh[w].sched)
    /\ refreshing' = None
    /\ refresh' = [refresh EXCEPT ![w] = None]
    /\ UNCHANGED <<sched, now, client, call, loops, followed, events>>

TimePasses ==
    /\ now.day < MaxDay
    /\ now' = IF now.tod + 1 = Hours THEN NextDay(now) ELSE [now EXCEPT !.tod = @ + 1]
    /\ UNCHANGED <<db, schedulers, client, call, loops, kept, sleeps, events>>

----------------------------------------------------------------------------
(* Timeouts and removal.                                                   *)

\* checkWorkers: awake workers that have not been seen.  The query does not
\* fetch what is requested of them.
CheckWorkers ==
    LET silent == {w \in Workers : db[w].status = "awake" /\ db[w].silence # "seen"}
    IN  /\ \A w \in Workers : checker[w] = None
        /\ silent # {}
        /\ checker' = [w \in Workers |-> IF w \in silent THEN [CopyOf(w) EXCEPT !.requested = None, !.lazy = FALSE] ELSE None]
        /\ kept' = [w \in Workers |-> IF w \in silent THEN None ELSE kept[w]]
        /\ UNCHANGED <<db, schedulers, now, client, call, remover, sleeps, events>>

\* timeoutTask: the worker of a task that has not been pinged.
CheckTask(w) ==
    /\ "task" \in Env
    /\ \A v \in Workers : checker[v] = None
    /\ db[w].task /\ ~client[w].working
    /\ checker' = [checker EXCEPT ![w] = CopyOf(w)]
    /\ UNCHANGED <<db, schedulers, now, client, call, remover, kept, sleeps, events>>

\* setTimeoutStatus: the worker is requested to go back to the status it has
\* in the copy, and its tasks are returned.
Timeout(w) ==
    /\ checker[w] # None
    /\ Write(w, [db[w] EXCEPT !.status = "timeout", !.task = FALSE,
                              !.requested = IF checker[w].requested = None THEN checker[w].status ELSE @])
    /\ checker' = [checker EXCEPT ![w] = None]
    /\ sleeps' = [sleeps EXCEPT ![w] = FALSE]
    /\ UNCHANGED <<schedulers, now, client, call, remover, kept, events>>

\* cleanupWorkers: workers that have been offline for long.
CleanupWorkers ==
    LET old == {w \in Workers : db[w].status = "offline" /\ db[w].silence = "old"}
    IN  /\ "remove" \in Env
        /\ remover = {} /\ old # {}
        /\ remover' = old
        /\ UNCHANGED <<db, schedulers, now, client, call, checker, kept, sleeps, events>>

Gone(w) == Write(w, [db[w] EXCEPT !.status = "gone", !.task = FALSE, !.requested = None])

\* One of the workers it found.
RemoveWorker(w) ==
    /\ w \in remover
    /\ Gone(w)
    /\ remover' = remover \ {w}
    /\ UNCHANGED <<schedulers, now, client, call, checker, kept, sleeps, events>>

\* A user forgets the worker.
ForgetWorker(w) ==
    /\ "remove" \in Env /\ Event
    /\ Gone(w)
    /\ UNCHANGED <<schedulers, now, client, call, loops, kept, sleeps>>

----------------------------------------------------------------------------

Asks(w) == \E h \in Handlers : AskTask(w, h) \/ AskMayRun(w, h) \/ AskStatus(w, h) \/ Acknowledge(w, h) \/ ShutDown(w, h)

Handle(h) ==
    \/ HandleSignOn(h) \/ SetAwake(h) \/ HandleTask(h) \/ HandleMayRun(h) \/ HandleGetStatus(h) \/ HandleAck(h)
    \/ HandleSignOff(h) \/ RequestSleepAgain(h) \/ HandleAckTimeout(h) \/ HandleSchedule(h) \/ HandleScheduleStored(h)

Next ==
    \/ \E w \in Workers, h \in Handlers : SignOn(w, h) \/ Leave(w, h) \/ AckTimeout(w, h) \/ SetSchedule(w, h)
    \/ \E w \in Workers :
           \/ Asks(w) \/ FinishTask(w) \/ Kill(w) \/ FallSilent(w)
           \/ \E status \in Requestable, lazy \in BOOLEAN : RequestStatusChange(w, status, lazy)
           \/ RefreshWorker(w) \/ RefreshRequest(w)
           \/ CheckTask(w) \/ Timeout(w) \/ RemoveWorker(w) \/ ForgetWorker(w)
    \/ \E h \in Handlers : Handle(h)
    \/ RefreshAllWorkers \/ TimePasses \/ CheckWorkers \/ CleanupWorkers

Spec == Init /\ [][Next]_vars

\* Handlers end, the loops go on, and a worker that is up asks.  A task need
\* not end, a worker need not start, and nothing is assumed of users.
Fairness ==
    /\ \A h \in Handlers : WF_vars(Handle(h))
    /\ \A w \in Workers : WF_vars(Asks(w)) /\ WF_vars(RefreshWorker(w) \/ RefreshRequest(w)) /\ WF_vars(Timeout(w))

FairSpec == Spec /\ Fairness

----------------------------------------------------------------------------
(* Properties.                                                             *)

\* The next check of a schedule is never too late: until then the schedule
\* wants what it wanted when the check was set, at any time of any day.
NextCheckInTime ==
    \A w \in Workers :
        db[w].status # "gone" /\ sched[w].active /\ ~Due(w) => ScheduledStatus(sched[w], now) = followed[w]

\* A request that was made while nothing of the worker was being handled stays
\* until the worker is told of it, whatever is acknowledged, timed out,
\* refreshed or signed on meanwhile (workers.go:107).  Three things are
\* excepted: signing off, which acknowledges everything; the timeout of the
\* worker; and the schedule, which overrules users.
RequestKept == \A w \in Workers : kept[w] # None /\ db[w].status # "gone" => db[w].requested = kept[w]

\* "Make sure that the worker remains asleep, even after signing on again"
\* (workers.go:476): who sleeps gets no task before a user, the schedule or a
\* timeout wakes it up, also when it was shut down and started again.  Two cases
\* are excepted: late calls of a worker that was killed, and that of SleepsOn.
SleeperGetsNoTask ==
    [][\A w \in Workers : client'[w].working /\ ~client[w].working => ~sleeps'[w]]_vars

\* An immediate request is answered by a worker that stays up, also by one
\* whose task never ends and by one that sleeps, unless it was told a status
\* that cannot be requested (see OnlyRequestable) and waits for ever.
RequestAnswered ==
    \A w \in Workers :
        client[w].mode # "off" /\ db[w].requested \in {"asleep", "shutdown"} /\ ~db[w].lazy
        ~> \/ client[w].mode = "off" \/ db[w].status = "gone" \/ client[w].told \notin Requestable \cup {None}
           \/ db[w].requested \notin {"asleep", "shutdown"} \/ db[w].lazy

\* The exact promise of RequestStatusChange, "so that it gets picked up by the
\* worker the next time it asks for it" (workers.go:106): what is requested
\* only goes away when it is overruled or acknowledged.  It fails: when the
\* worker acknowledges an earlier request, or signs off, a later one goes too.
RequestPickedUp ==
    [][\A w \in Workers, h \in Handlers :
           /\ At(h, {"ack", "signoff"}, "copied") /\ call[h].worker = w
           /\ call'[h] # call[h] /\ db[w].requested # None
           => db[w].requested \in {call[h].status, Copy(h).requested, db'[w].requested}]_vars

\* SleeperGetsNoTask without its exception: a worker that sleeps is requested to
\* do so again whenever it signs off, unless it was to wake up.  It fails: not
\* when it was just requested to sleep again, which signing off acknowledges.
SleepsOn ==
    [][\A h \in Handlers :
           /\ At(h, {"signoff"}, "copied") /\ call'[h] # call[h]
           /\ Copy(h).status = "asleep" /\ Copy(h).requested # "awake"
           => call'[h].step = "off"]_vars

\* Only what users can request is requested.  It fails: a worker whose task
\* times out is requested to go back to the status it has, also to "starting".
OnlyRequestable == \A w \in Workers : db[w].requested \in Requestable \cup {None}

\* "The worker is allowed to sleep between the schedule's start and end time.
\* Those times default to respectively the start and end of the day."
\* (README.md:215-216): NextCheckInTime for every schedule.  It fails without
\* an end: the next check is at midnight, and the start passes unnoticed.
SleepsAtStart == NextCheckInTime

\* A refresh leaves the schedule as users set it.  It fails: it writes back
\* what its query found, over what a user has set since.
ScheduleKept ==
    [][\A w \in Workers : refreshing = None /\ refreshing' = w =>
           sched'[w] = [sched[w] EXCEPT !.next = sched'[w].next]]_vars

\* A worker is removed only while it has not been heard of for long.  It fails:
\* it may have signed on since the query.
OldRemoved == [][\A w \in Workers : w \in remover \ remover' => db[w].silence = "old"]_vars

\* A timeout does not replace what was requested.  It fails: the query does not
\* fetch it, so that it looks as if nothing was.
TimeoutKeepsRequest ==
    [][\A w \in Workers : checker[w] # None /\ checker'[w] = None /\ db[w].requested # None =>
           db'[w].requested \in {db[w].requested, None}]_vars
============================================================================
