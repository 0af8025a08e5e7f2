--------------------------- MODULE TaskLifecycle ---------------------------
(***************************************************************************)
(* The task cache of Flamenco Manager (MongoDB collection flamenco_tasks)  *)
(* and every goroutine that changes the status or the worker of a task in  *)
(* it: the HTTP handlers of the workers (flamenco/scheduler.go, workers.go *)
(* and task_updates.go), the task update pusher handling the cancellations *)
(* it receives, the timeout checker, and the task downloader.              *)
(*                                                                         *)
(* A step is one database operation (mgo has no transactions), together    *)
(* with the computation that precedes it in its goroutine.  What a         *)
(* goroutine has read and still uses is kept in its own record, so that it *)
(* may be stale when used.  Only ScheduleTask, ReturnTask and              *)
(* WorkerMayRunTask take the mutex of the TaskScheduler.  Inserting into   *)
(* the update queue is merged with the local update that follows it:       *)
(* UpdateQueue.tla takes the two apart.                                    *)
(***************************************************************************)
EXTENDS Naturals

CONSTANTS
    Tasks,       \* tasks in the cache
    Workers,     \* registered workers
    Requests,    \* slots for HTTP requests being handled: bounds concurrency
    None,        \* no task, no worker, no request
    Reports,     \* what workers report about a task
    FromServer,  \* the statuses the Server answers with when asked about a task
    Env          \* what the surroundings do, see EnvKinds

(***************************************************************************)
(* "overlap": a worker has several requests in flight, or reports on tasks *)
(*            that are not (any more) its own, such as late log lines;     *)
(* "timeout": tasks and workers can be out of touch for too long;          *)
(* "requeue": the Server sends tasks anew that are known to the Manager,   *)
(*            with "overlap" also while a request is about them;           *)
(* "cancel":  somebody cancels tasks on the Server;                        *)
(* "silence": workers stop talking to the Manager for good;                *)
(* "crash":   the Manager stops and is started again.                      *)
(***************************************************************************)
EnvKinds == {"overlap", "timeout", "requeue", "cancel", "silence", "crash"}

-----------------------------------------------------------------------------
(* Task statuses, documents.go and scheduler.go. *)

Schedulable == {"queued", "claimed-by-manager", "soft-failed"}
Runnable    == {"active"}
Final       == {"completed", "failed", "canceled"}
Statuses    == Schedulable \cup Runnable \cup Final \cup {"cancel-requested"}

\* Statuses in which the task may still be executing on a worker.
OnWorker == {"active", "cancel-requested"}

ASSUME NoneAssumption == None \notin Tasks \cup Workers \cup Requests
ASSUME EnvAssumption == Env \subseteq EnvKinds
ASSUME FromServerAssumption == FromServer \subseteq Statuses
\* A report without a status is just activity and log lines.
ASSUME ReportsAssumption ==
    Reports \subseteq {"active", "completed", "failed", "canceled", "none"}

MaxAttempts == 3

VARIABLES
    status,       \* flamenco_tasks.status
    assignee,     \* flamenco_tasks.worker_id
    recent,       \* whether last_worker_ping is within the timeout interval
    mutex,        \* TaskScheduler.mutex: the request that holds it
    call,         \* the requests being handled
    pusher,       \* what TaskUpdatePusher.handleIncomingCancelRequests is doing
    checker,      \* what the TimeoutChecker is doing
    serverCancel, \* whether the Server wants a task canceled
    silent,       \* workers that have stopped talking to the Manager
    handedTo      \* history: the worker the scheduler gave a task to, until
                  \* the task is given a status that takes it off the worker

vars == <<status, assignee, recent, mutex, call, pusher, checker,
          serverCancel, silent, handedTo>>

taskVars == <<status, assignee, recent, serverCancel, handedTo>>

WorkerOrNone == Workers \cup {None}

IdleCall == [pc |-> "idle", worker |-> None, tasks |-> {}, seen |-> "queued",
             new |-> "none", attempt |-> 0]

Calls == [pc : {"idle", "ping", "apply", "fetch", "refetch", "assign", "reply",
                "return", "pong"},
          worker : WorkerOrNone, tasks : SUBSET Tasks, seen : Statuses,
          new : Statuses \cup {"none"}, attempt : 0 .. MaxAttempts]

IdlePusher == [cancel |-> {}, mark |-> {}]
Pushers == [cancel : SUBSET Tasks, mark : SUBSET Tasks]

IdleChecker == [due |-> {}, returning |-> {}, failing |-> None]
Checkers == [due : SUBSET (Tasks \X WorkerOrNone), returning : SUBSET Tasks,
             failing : Tasks \cup {None}]

TypeOK ==
    /\ status \in [Tasks -> Statuses]
    /\ assignee \in [Tasks -> WorkerOrNone]
    /\ recent \in [Tasks -> BOOLEAN]
    /\ mutex \in Requests \cup {None}
    /\ call \in [Requests -> Calls]
    /\ pusher \in Pushers
    /\ checker \in Checkers
    /\ serverCancel \in [Tasks -> {"no", "wanted", "answered"}]
    /\ silent \in SUBSET Workers
    /\ handedTo \in [Tasks -> WorkerOrNone]

Init ==
    /\ status = [t \in Tasks |-> "queued"]
    /\ assignee = [t \in Tasks |-> None]
    /\ recent = [t \in Tasks |-> FALSE]
    /\ mutex = None
    /\ call = [r \in Requests |-> IdleCall]
    /\ pusher = IdlePusher
    /\ checker = IdleChecker
    /\ serverCancel = [t \in Tasks |-> "no"]
    /\ silent = {}
    /\ handedTo = [t \in Tasks |-> None]

-----------------------------------------------------------------------------
(* Helpers *)

\* Mutant: the query forgets whose tasks it is about.
ActiveTasksOfAnybody(w) == {t \in Tasks : status[t] \in Runnable}

ActiveTasksOf(w) == {t \in Tasks : status[t] \in Runnable /\ assignee[t] = w}

(***************************************************************************)
(* QueueTaskUpdateWithExtra applied to the cache.  `seen` is the status in *)
(* the copy of the task the caller holds, which is what the transition     *)
(* check is given.  A final status answers a cancellation by the Server,   *)
(* which learns of it with the next push.                                  *)
(***************************************************************************)
TransitionValid(seen, new) == new \in Final \/ seen # "cancel-requested"

Applied(t, seen, new) == IF TransitionValid(seen, new) THEN new ELSE status[t]

SetStatus(t, s) ==
    /\ status' = [status EXCEPT ![t] = s]
    /\ handedTo' = [handedTo EXCEPT ![t] = IF s \in OnWorker THEN @ ELSE None]

QueueTaskUpdate(t, seen, new) ==
    /\ SetStatus(t, Applied(t, seen, new))
    /\ serverCancel' = [serverCancel EXCEPT ![t] =
            IF @ = "wanted" /\ new \in Final THEN "answered" ELSE @]

(***************************************************************************)
(* Whether worker w can send a request now.  Without "overlap" it waits    *)
(* for the response to its previous request.                               *)
(***************************************************************************)
MaySend(r, w) ==
    /\ call[r] = IdleCall
    /\ w \notin silent
    /\ "overlap" \in Env \/ \A q \in Requests : call[q].worker # w

\* Whether worker w can send a request that is about task t.
MaySendAbout(r, w, t) ==
    /\ MaySend(r, w)
    /\ "overlap" \in Env \/ handedTo[t] = w

\* What remains of call c once it is done with task t.
WithoutTask(c, t) == IF c.tasks = {t} THEN IdleCall ELSE [c EXCEPT !.tasks = @ \ {t}]

Answer(r) == call' = [call EXCEPT ![r] = IdleCall]

-----------------------------------------------------------------------------
(* POST /tasks/{id}/update: QueueTaskUpdateFromWorker, no mutex *)

\* Reads the task; a task of another worker is refused.  The failure of a task
\* without a worker gets no further than the ping: maybeBlacklistWorker panics.
UpdateRead(r, w, t, report) ==
    /\ MaySendAbout(r, w, t)
    /\ assignee[t] \in {None, w}
    /\ LET accepted == IF report = "failed" /\ assignee[t] = None THEN "none" ELSE report
       IN  call' = [call EXCEPT ![r] =
            [IdleCall EXCEPT !.pc = "ping", !.worker = w, !.tasks = {t},
                             !.seen = status[t], !.new = accepted]]
    /\ UNCHANGED <<taskVars, mutex, pusher, checker, silent>>

(***************************************************************************)
(* WorkerPingedTask, and the decision what to do with the reported status. *)
(* The report is dropped when the task was not runnable.  A failure is     *)
(* made soft or hard by onTaskFailed (SoftFail.tla); when it blacklists    *)
(* the worker and no other is left, the tasks that soft-failed on this     *)
(* worker go along.                                                        *)
(***************************************************************************)
UpdatePing(r) ==
    /\ call[r].pc = "ping"
    /\ \E t \in call[r].tasks :
        /\ assignee' = [assignee EXCEPT ![t] = call[r].worker]
        /\ recent' = [recent EXCEPT ![t] = TRUE]
        /\ \/ /\ call[r].seen \notin Runnable \/ call[r].new = "none"
              /\ Answer(r)
           \/ /\ call[r].seen \in Runnable
              /\ call[r].new \notin {"none", "failed"}
              /\ call' = [call EXCEPT ![r].pc = "apply"]
           \/ /\ call[r].seen \in Runnable /\ call[r].new = "failed"
              /\ call' = [call EXCEPT ![r].pc = "apply", ![r].new = "soft-failed"]
           \/ /\ call[r].seen \in Runnable /\ call[r].new = "failed"
              /\ \E others \in SUBSET {u \in Tasks : /\ status[u] = "soft-failed"
                                                    /\ assignee[u] = call[r].worker} :
                    call' = [call EXCEPT ![r].pc = "apply", ![r].tasks = others \cup {t}]
    /\ UNCHANGED <<status, serverCancel, handedTo, mutex, pusher, checker, silent>>

UpdateApply(r) ==
    /\ call[r].pc = "apply"
    /\ \E t \in call[r].tasks :
        /\ QueueTaskUpdate(t, call[r].seen, call[r].new)
        /\ call' = [call EXCEPT ![r] = WithoutTask(@, t)]
    /\ UNCHANGED <<assignee, recent, mutex, pusher, checker, silent>>

-----------------------------------------------------------------------------
(* POST /task: ScheduleTask, with the mutex *)

\* The tasks fetchTaskFromQueueOrManager can return for worker w.
Candidates(w) ==
    IF ActiveTasksOf(w) # {} THEN ActiveTasksOf(w)
    ELSE {t \in Tasks : status[t] \in Schedulable}

\* Without a candidate the answer is 204 and nothing changes.
Fetch(r, w, attempt) ==
    \E t \in Candidates(w) :
        call' = [call EXCEPT ![r] =
            [IdleCall EXCEPT !.pc = "refetch", !.worker = w, !.tasks = {t},
                             !.seen = status[t], !.attempt = attempt]]

\* Mutant: the scheduler does not wait for its mutex.
ScheduleUnlocked(r, w) ==
    /\ MaySend(r, w)
    /\ mutex' = r
    /\ Fetch(r, w, 1)
    /\ UNCHANGED <<taskVars, pusher, checker, silent>>

ScheduleLock(r, w) ==
    /\ MaySend(r, w)
    /\ mutex = None
    /\ mutex' = r
    /\ Fetch(r, w, 1)
    /\ UNCHANGED <<taskVars, pusher, checker, silent>>

\* RefetchTask: the task is still the same on the Server, or that cannot be found out.
RefetchSame(r) ==
    /\ call[r].pc = "refetch"
    /\ call' = [call EXCEPT ![r].pc = "assign"]
    /\ UNCHANGED <<taskVars, mutex, pusher, checker, silent>>

\* RefetchTask: the task was changed or is gone, and the cache is updated.
RefetchChanged(r, s) ==
    /\ call[r].pc = "refetch"
    /\ \E t \in call[r].tasks : SetStatus(t, s)
    /\ call' = [call EXCEPT ![r].pc = "fetch"]
    /\ UNCHANGED <<assignee, recent, serverCancel, mutex, pusher, checker, silent>>

\* Mutant: one attempt too many.
FetchOnceMore(r) ==
    /\ call[r].pc = "fetch"
    /\ Fetch(r, call[r].worker, call[r].attempt + 1)
    /\ UNCHANGED <<taskVars, mutex, pusher, checker, silent>>

\* After a change the queue is examined again, three times in all.
FetchAgain(r) ==
    /\ call[r].pc = "fetch"
    /\ \/ /\ call[r].attempt < MaxAttempts
          /\ Fetch(r, call[r].worker, call[r].attempt + 1)
          /\ UNCHANGED mutex
       \/ /\ call[r].attempt = MaxAttempts \/ Candidates(call[r].worker) = {}
          /\ Answer(r)
          /\ mutex' = None
    /\ UNCHANGED <<taskVars, pusher, checker, silent>>

\* assignTaskToWorker.
Assign(r) ==
    /\ call[r].pc = "assign"
    /\ \E t \in call[r].tasks :
        /\ status' = [status EXCEPT ![t] = "active"]
        /\ assignee' = [assignee EXCEPT ![t] = call[r].worker]
        /\ recent' = [recent EXCEPT ![t] = TRUE]
        /\ handedTo' = [handedTo EXCEPT ![t] = call[r].worker]
    /\ call' = [call EXCEPT ![r].pc = "reply"]
    /\ UNCHANGED <<serverCancel, mutex, pusher, checker, silent>>

\* The task is sent to the worker.
Reply(r) ==
    /\ call[r].pc = "reply"
    /\ Answer(r)
    /\ mutex' = None
    /\ UNCHANGED <<taskVars, pusher, checker, silent>>

\* Mutant: the error path returns without unlocking.
ReplyFailsLocked(r) ==
    /\ call[r].pc = "reply"
    /\ \E t \in call[r].tasks : QueueTaskUpdate(t, "active", "claimed-by-manager")
    /\ Answer(r)
    /\ UNCHANGED <<assignee, recent, mutex, pusher, checker, silent>>

\* The task cannot be sent: unassignTaskFromWorker.
ReplyFails(r) ==
    /\ call[r].pc = "reply"
    /\ \E t \in call[r].tasks : QueueTaskUpdate(t, "active", "claimed-by-manager")
    /\ Answer(r)
    /\ mutex' = None
    /\ UNCHANGED <<assignee, recent, pusher, checker, silent>>

-----------------------------------------------------------------------------
(***************************************************************************)
(* POST /tasks/{id}/return (ReturnTaskFromWorker) reads one task,          *)
(* POST /sign-off (WorkerSignOff) all active tasks of the worker.  Then    *)
(* ReturnTask takes the mutex for each of them, looks at the copy that was *)
(* read before, and re-queues the task.                                    *)
(***************************************************************************)
ReturnRead(r, w, t) ==
    /\ MaySendAbout(r, w, t)
    /\ assignee[t] \in {None, w} /\ status[t] \in Runnable
    /\ call' = [call EXCEPT ![r] =
            [IdleCall EXCEPT !.pc = "return", !.worker = w, !.tasks = {t}]]
    /\ UNCHANGED <<taskVars, mutex, pusher, checker, silent>>

SignOff(r, w) ==
    /\ MaySend(r, w)
    /\ ActiveTasksOf(w) # {}
    /\ call' = [call EXCEPT ![r] =
            [IdleCall EXCEPT !.pc = "return", !.worker = w, !.tasks = ActiveTasksOf(w)]]
    /\ UNCHANGED <<taskVars, mutex, pusher, checker, silent>>

\* The status of the copy is overwritten before the transition check sees it.
ReturnTask(t) ==
    /\ mutex = None
    /\ QueueTaskUpdate(t, "claimed-by-manager", "claimed-by-manager")

ReturnOne(r) ==
    /\ call[r].pc = "return"
    /\ \E t \in call[r].tasks :
        /\ ReturnTask(t)
        /\ call' = [call EXCEPT ![r] = WithoutTask(@, t)]
    /\ UNCHANGED <<assignee, recent, mutex, pusher, checker, silent>>

-----------------------------------------------------------------------------
(* GET /may-i-run/{id}: WorkerMayRunTask.  A refusal changes nothing. *)

MayRunCheck(r, w, t) ==
    /\ MaySendAbout(r, w, t)
    /\ mutex = None
    /\ assignee[t] \in {None, w} /\ status[t] \in Runnable
    /\ mutex' = r
    /\ call' = [call EXCEPT ![r] =
            [IdleCall EXCEPT !.pc = "pong", !.worker = w, !.tasks = {t}]]
    /\ UNCHANGED <<taskVars, pusher, checker, silent>>

MayRunPing(r) ==
    /\ call[r].pc = "pong"
    /\ \E t \in call[r].tasks :
        /\ assignee' = [assignee EXCEPT ![t] = call[r].worker]
        /\ recent' = [recent EXCEPT ![t] = TRUE]
    /\ Answer(r)
    /\ mutex' = None
    /\ UNCHANGED <<status, serverCancel, handedTo, pusher, checker, silent>>

-----------------------------------------------------------------------------
\* Mutant: a task that was marked before is not looked at again.
PushMarksOnce ==
    /\ pusher = IdlePusher
    /\ \E t \in Tasks : serverCancel[t] # "no"
    /\ LET wanted == {t \in Tasks : /\ serverCancel[t] = "wanted"
                                   /\ status[t] # "cancel-requested"}
           running == {t \in wanted : status[t] \in Runnable}
       IN  pusher' = [cancel |-> wanted \ running, mark |-> running]
    /\ serverCancel' = [t \in Tasks |->
            IF serverCancel[t] = "answered" THEN "no" ELSE serverCancel[t]]
    /\ UNCHANGED <<status, assignee, recent, handedTo, mutex, call, checker, silent>>

(***************************************************************************)
(* TaskUpdatePusher.push: the Server has got the queued updates, and       *)
(* answers with the tasks it still wants canceled.                         *)
(***************************************************************************)
Push ==
    /\ pusher = IdlePusher
    /\ \E t \in Tasks : serverCancel[t] # "no"
    /\ LET wanted == {t \in Tasks : serverCancel[t] = "wanted"}
           running == {t \in wanted : status[t] \in Runnable}
       IN  pusher' = [cancel |-> wanted \ running, mark |-> running]
    /\ serverCancel' = [t \in Tasks |->
            IF serverCancel[t] = "answered" THEN "no" ELSE serverCancel[t]]
    /\ UNCHANGED <<status, assignee, recent, handedTo, mutex, call, checker, silent>>

\* Tasks that were not running are canceled here and now, whatever their status is.
PushCancel ==
    /\ \E t \in pusher.cancel :
        /\ QueueTaskUpdate(t, "queued", "canceled")
        /\ pusher' = [pusher EXCEPT !.cancel = @ \ {t}]
    /\ UNCHANGED <<assignee, recent, mutex, call, checker, silent>>

\* The worker has to cancel the others: one UpdateAll.
PushMark ==
    /\ pusher.cancel = {} /\ pusher.mark # {}
    /\ status' = [t \in Tasks |-> IF t \in pusher.mark THEN "cancel-requested" ELSE status[t]]
    /\ pusher' = IdlePusher
    /\ UNCHANGED <<assignee, recent, serverCancel, handedTo, mutex, call, checker, silent>>

-----------------------------------------------------------------------------
(* The TimeoutChecker: checkTasks, then checkWorkers *)

\* Mutant: the comparison with the threshold is the wrong way around.
CheckTouchedTasks ==
    /\ checker = IdleChecker
    /\ LET late == {t \in Tasks : status[t] \in Runnable /\ recent[t]}
       IN  /\ late # {}
           /\ checker' = [checker EXCEPT !.due = {<<t, assignee[t]>> : t \in late}]
    /\ UNCHANGED <<taskVars, mutex, call, pusher, silent>>

CheckTasks ==
    /\ checker = IdleChecker
    /\ LET late == {t \in Tasks : status[t] \in Runnable /\ ~recent[t]}
       IN  /\ late # {}
           /\ checker' = [checker EXCEPT !.due = {<<t, assignee[t]>> : t \in late}]
    /\ UNCHANGED <<taskVars, mutex, call, pusher, silent>>

\* timeoutTask: the worker times out, so all its tasks are to be returned.
TimeoutTask ==
    /\ checker.failing = None /\ checker.returning = {}
    /\ \E d \in checker.due :
        checker' = [due |-> checker.due \ {d}, failing |-> d[1],
                    returning |-> IF d[2] = None THEN {} ELSE ActiveTasksOf(d[2])]
    /\ UNCHANGED <<taskVars, mutex, call, pusher, silent>>

\* checkWorkers, for a worker that was not seen for too long.
TimeoutWorker(w) ==
    /\ checker = IdleChecker
    /\ "timeout" \in Env \/ w \in silent
    /\ ActiveTasksOf(w) # {}
    /\ checker' = [checker EXCEPT !.returning = ActiveTasksOf(w)]
    /\ UNCHANGED <<taskVars, mutex, call, pusher, silent>>

\* returnAllTasks of the worker that timed out.
CheckerReturn ==
    /\ \E t \in checker.returning :
        /\ ReturnTask(t)
        /\ checker' = [checker EXCEPT !.returning = @ \ {t}]
    /\ UNCHANGED <<assignee, recent, mutex, call, pusher, silent>>

\* Last step of timeoutTask, which does not know the status of the task.
CheckerFail ==
    /\ checker.returning = {} /\ checker.failing # None
    /\ QueueTaskUpdate(checker.failing, "queued", "failed")
    /\ checker' = [checker EXCEPT !.failing = None]
    /\ UNCHANGED <<assignee, recent, mutex, call, pusher, silent>>

-----------------------------------------------------------------------------
(* The surroundings *)

\* The task downloader replaces the document of a task the Server re-queued.
Download(t) ==
    /\ "requeue" \in Env
    /\ "overlap" \in Env \/ \A r \in Requests : t \notin call[r].tasks
    /\ SetStatus(t, "queued")
    /\ assignee' = [assignee EXCEPT ![t] = None]
    /\ recent' = [recent EXCEPT ![t] = FALSE]
    /\ UNCHANGED <<serverCancel, mutex, call, pusher, checker, silent>>

\* Somebody cancels the task on the Server.
ServerCancels(t) ==
    /\ "cancel" \in Env
    /\ serverCancel[t] = "no" /\ status[t] \notin Final
    /\ serverCancel' = [serverCancel EXCEPT ![t] = "wanted"]
    /\ UNCHANGED <<status, assignee, recent, handedTo, mutex, call, pusher, checker, silent>>

\* Time passes without a ping for the task.
Expire(t) ==
    /\ recent[t]
    /\ "timeout" \in Env \/ assignee[t] \in silent
    /\ recent' = [recent EXCEPT ![t] = FALSE]
    /\ UNCHANGED <<status, assignee, serverCancel, handedTo, mutex, call, pusher, checker, silent>>

\* The machine of a worker is switched off.
WorkerStops(w) ==
    /\ "silence" \in Env
    /\ w \notin silent
    /\ silent' = silent \cup {w}
    /\ UNCHANGED <<taskVars, mutex, call, pusher, checker>>

\* The Manager process ends and is started again: only the database remains.
Crash ==
    /\ "crash" \in Env
    /\ mutex' = None
    /\ call' = [r \in Requests |-> IdleCall]
    /\ pusher' = IdlePusher
    /\ checker' = IdleChecker
    /\ UNCHANGED <<taskVars, silent>>

-----------------------------------------------------------------------------
HandleRequest(r) ==
    \/ UpdatePing(r) \/ UpdateApply(r)
    \/ RefetchSame(r) \/ FetchAgain(r) \/ Assign(r) \/ Reply(r) \/ ReplyFails(r)
    \/ \E s \in FromServer : RefetchChanged(r, s)
    \/ ReturnOne(r)
    \/ MayRunPing(r)

NewRequest(r, w) ==
    \/ ScheduleLock(r, w)
    \/ SignOff(r, w)
    \/ \E t \in Tasks :
        \/ \E report \in Reports : UpdateRead(r, w, t, report)
        \/ ReturnRead(r, w, t)
        \/ MayRunCheck(r, w, t)

PusherStep == Push \/ PushCancel \/ PushMark

CheckerStep ==
    \/ CheckTasks \/ TimeoutTask \/ CheckerReturn \/ CheckerFail
    \/ \E w \in Workers : TimeoutWorker(w)

Surroundings ==
    \/ \E t \in Tasks : Download(t) \/ ServerCancels(t) \/ Expire(t)
    \/ \E w \in Workers : WorkerStops(w)
    \/ Crash

Next ==
    \/ \E r \in Requests : HandleRequest(r)
    \/ \E r \in Requests, w \in Workers : NewRequest(r, w)
    \/ PusherStep
    \/ CheckerStep
    \/ Surroundings

Spec == Init /\ [][Next]_vars

(***************************************************************************)
(* The Go scheduler runs every goroutine that can run, the pusher and the  *)
(* checker are driven by tickers, and the clock advances.                  *)
(***************************************************************************)
Fairness ==
    /\ \A r \in Requests : WF_vars(HandleRequest(r))
    /\ WF_vars(PusherStep)
    /\ WF_vars(CheckTasks) /\ WF_vars(TimeoutTask) /\ WF_vars(CheckerFail)
    /\ SF_vars(CheckerReturn)
    /\ \A r \in Requests : SF_vars(ReturnOne(r))
    /\ \A t \in Tasks : WF_vars(Expire(t))

FairSpec == Spec /\ Fairness

-----------------------------------------------------------------------------
(* Safety *)

(***************************************************************************)
(* "This prevents multiple workers from getting assigned the same task"    *)
(* (scheduler.go:123): whatever the other goroutines do to the task while  *)
(* the scheduler checks it with the Server, a task taken from the queue is *)
(* not with any worker by the time it is assigned.                         *)
(***************************************************************************)
FromQueueUnheld ==
    \A r \in Requests : call[r].pc = "assign" /\ call[r].seen \in Schedulable =>
        \A t \in call[r].tasks : handedTo[t] = None

(***************************************************************************)
(* What the previous invariant rests on, in parts.  Together with TypeOK   *)
(* they are inductive, see TaskLifecycleProofs.tla.                        *)
(***************************************************************************)
\* The answer to a report always has a status to write.
ApplyHasStatus == \A r \in Requests : call[r].pc = "apply" => call[r].new # "none"

\* A task that is not on a worker has been taken off it.
QueuedIsUnheld == \A t \in Tasks : status[t] \notin OnWorker => handedTo[t] = None

\* The scheduler works with its mutex locked.
SchedulerLocked ==
    \A r \in Requests :
        call[r].pc \in {"fetch", "refetch", "assign", "reply", "pong"} => mutex = r

\* What was taken from the queue stays off the workers until it is assigned.
ExaminedUnheld ==
    \A r \in Requests :
        call[r].pc \in {"refetch", "assign"} /\ call[r].seen \in Schedulable =>
            \A t \in call[r].tasks : handedTo[t] = None

IInv == TypeOK /\ ApplyHasStatus /\ QueuedIsUnheld /\ SchedulerLocked /\ ExaminedUnheld

(***************************************************************************)
(* As long as workers wait for the answer to each request and only report  *)
(* on the task they were given, the cache obeys TaskLease: an active task  *)
(* does not change hands without having been taken back first.             *)
(***************************************************************************)
Lease == INSTANCE TaskLease WITH
    holder <- [t \in Tasks |-> IF status[t] \in Runnable THEN assignee[t] ELSE None]

LeaseSpec == Lease!Spec

-----------------------------------------------------------------------------
(* Liveness *)

\* From some moment on the workers leave the Manager alone.
QuietEventually == <>[](\A r \in Requests : call[r] = IdleCall)

\* No request keeps the mutex of the scheduler forever.
MutexReleased == mutex # None ~> mutex = None

(***************************************************************************)
(* A cancellation by the Server is answered in the end with a final status *)
(* of the task, even when the first reaction to it was lost because the    *)
(* task was just being assigned or updated.                                *)
(***************************************************************************)
CancelAnswered ==
    QuietEventually =>
        \A t \in Tasks : serverCancel[t] = "wanted" ~> serverCancel[t] # "wanted"

(***************************************************************************)
(* The task of a worker that was switched off does not remain with it: the *)
(* TimeoutChecker returns it to the queue or fails it.                     *)
(***************************************************************************)
SilentWorkerReleased ==
    \A t \in Tasks, w \in Workers :
        (w \in silent /\ t \in ActiveTasksOf(w)) ~> t \notin ActiveTasksOf(w)

-----------------------------------------------------------------------------
(* What the source says of itself, and does not hold *)

(***************************************************************************)
(* "These statuses can never be overwritten by a worker"                   *)
(* (task_updates.go:136), said of the statuses that are not runnable.      *)
(* UpdateApply relies on the status UpdateRead has seen.                   *)
(***************************************************************************)
WorkerCannotRevive ==
    [][\A r \in Requests : UpdateApply(r) =>
        \A t \in Tasks : status[t] \in Final => status'[t] = status[t]]_vars

(***************************************************************************)
(* "This prevents a task being reported active on the worker from          *)
(* overwriting the cancel-requested state we received from the Server"     *)
(* (task_updates.go:239).  The check is done on the copy of the task.      *)
(***************************************************************************)
CancelRequestKept ==
    [][\A r \in Requests : UpdateApply(r) =>
        \A t \in Tasks :
            status[t] = "cancel-requested" => status'[t] # "active"]_vars

(***************************************************************************)
(* "An update by worker 2 should fail. [...] The task should still be      *)
(* assigned to worker 1" (task_updates_test.go:200-203).  The ping writes  *)
(* worker_id after the check, whoever has the task by then.                *)
(***************************************************************************)
UpdateKeepsWorker ==
    [][\A r \in Requests : UpdatePing(r) =>
        \A t \in Tasks : assignee[t] # None => assignee'[t] = assignee[t]]_vars

(***************************************************************************)
(* "This prevents multiple workers from getting assigned the same task"    *)
(* (scheduler.go:123), for every answer of ScheduleTask: also for a task   *)
(* that is handed out because it is already active on the worker.          *)
(***************************************************************************)
NoSecondWorker ==
    [][\A t \in Tasks : handedTo[t] # None => handedTo'[t] \in {None, handedTo[t]}]_vars

(***************************************************************************)
(* "Lock the task scheduler so that tasks don't get reassigned while we    *)
(* perform our checks" (scheduler.go:440): unless it is in the queue       *)
(* already, what ReturnTask re-queues is active on the worker returning it *)
(* (and not running on another worker, or finished).                       *)
(***************************************************************************)
ReturnsOwnTask ==
    [][\A r \in Requests : ReturnOne(r) =>
        \A t \in Tasks : status[t] \notin Schedulable /\ status'[t] # status[t] =>
            t \in ActiveTasksOf(call[r].worker)]_vars

(***************************************************************************)
(* "Failing all active tasks that have not been touched since"             *)
(* (timeout_checker.go:90): the checker fails no task that is being worked *)
(* on.                                                                     *)
(***************************************************************************)
FailsUntouchedOnly ==
    [][CheckerFail => \A t \in Tasks : status'[t] # status[t] => ~recent[t]]_vars

(***************************************************************************)
(* "This needs to be canceled through the worker, and thus go to           *)
(* cancel-requested" (task_updates.go:807), said of active tasks.  The     *)
(* tasks are marked by id, whatever became of them.                        *)
(***************************************************************************)
MarksRunningOnly ==
    [][PushMark => \A t \in Tasks : status'[t] # status[t] => status[t] \in Runnable]_vars
=============================================================================
