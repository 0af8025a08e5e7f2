------------------------------ MODULE SoftFail ------------------------------
(***************************************************************************)
(* What becomes of a task that fails on a worker (onTaskFailed and         *)
(* maybeBlacklistWorker in flamenco/task_updates.go, with the blacklist of *)
(* flamenco/blacklist.go).  The task soft-fails, and is retried by another *)
(* worker, until TaskFailAfterSoftFailCount workers have failed it or no   *)
(* worker is left.  A worker with BlacklistThreshold failures is put on    *)
(* the blacklist.                                                          *)
(*                                                                         *)
(* The tasks are those of one task type of one job, and the workers those  *)
(* that support the task type: all queries filter on these.  The report of *)
(* a failure is handled without a lock, one database operation per step;   *)
(* the requests of TaskLifecycle.tla are single steps here.                *)
(***************************************************************************)
EXTENDS Naturals, FiniteSets, Sequences, Functions

CONSTANTS
    Tasks, Workers, Requests, \* Requests bounds the reports handled at a time
    None,
    BlacklistThreshold, TaskFailAfterSoftFailCount,
    Env         \* what the surroundings do, see EnvKinds

(***************************************************************************)
(* "resend":  a worker sends the report of a failure twice;                *)
(* "timeout": active tasks are taken back from their workers;              *)
(* "forget":  workers are erased from the database;                        *)
(* "pardon":  blacklist entries are removed, or expire;                    *)
(* "overlap": timeouts and pardons also happen while a failure they are    *)
(*            about is being handled.                                      *)
(***************************************************************************)
EnvKinds == {"resend", "timeout", "forget", "pardon", "overlap"}

ASSUME NoneAssumption == None \notin Tasks \cup Workers
ASSUME LimitsAssumption ==
    BlacklistThreshold \in Nat \ {0} /\ TaskFailAfterSoftFailCount \in Nat \ {0}
ASSUME EnvAssumption == Env \subseteq EnvKinds

VARIABLES
    status,     \* flamenco_tasks.status
    assignee,   \* flamenco_tasks.worker_id
    failedBy,   \* flamenco_tasks.failed_by_workers
    registered, \* flamenco_workers
    blacklist,  \* workers in worker_blacklist
    call        \* the failure reports being handled

vars == <<status, assignee, failedBy, registered, blacklist, call>>

Statuses == {"queued", "claimed-by-manager", "soft-failed", "active", "completed", "failed"}
Schedulable == {"queued", "claimed-by-manager", "soft-failed"}
Final == {"completed", "failed"}

IdleCall == [pc |-> "idle", worker |-> None, task |-> None,
             seen |-> <<>>, left |-> {}, found |-> {}]

Calls == [pc : {"idle", "blacklisted", "workers", "count", "ban", "find", "sweep", "apply"},
          worker : Workers \cup {None}, task : Tasks \cup {None},
          seen : Seq(Workers), left : SUBSET Workers, found : SUBSET Tasks]

TypeOK ==
    /\ status \in [Tasks -> Statuses]
    /\ assignee \in [Tasks -> Workers \cup {None}]
    /\ failedBy \in [Tasks -> Seq(Workers)]
    /\ registered \in SUBSET Workers
    /\ blacklist \in SUBSET Workers
    /\ call \in [Requests -> Calls]
    /\ \A r \in Requests :
        /\ call[r].pc # "idle" => call[r].worker # None /\ call[r].task # None
        /\ call[r].found # {} => call[r].pc = "sweep"

Init ==
    /\ status = [t \in Tasks |-> "queued"]
    /\ assignee = [t \in Tasks |-> None]
    /\ failedBy = [t \in Tasks |-> <<>>]
    /\ registered = Workers
    /\ blacklist = {}
    /\ call = [r \in Requests |-> IdleCall]

-----------------------------------------------------------------------------
ActiveTasksOf(w) == {t \in Tasks : status[t] = "active" /\ assignee[t] = w}

\* The tasks maybeBlacklistWorker's query finds with one of these statuses.
TasksOf(w, statuses) == {t \in Tasks : status[t] \in statuses /\ assignee[t] = w}

\* A worker without "resend" waits for the answer to its report.
Waiting(w) == "resend" \notin Env /\ \E r \in Requests : call[r].worker = w

Continue(r, pc) == call' = [call EXCEPT ![r].pc = pc]

-----------------------------------------------------------------------------
(* POST /tasks/{id}/update with status "failed" *)

\* QueueTaskUpdateFromWorker reads the task.
ReportFailure(r, w, t) ==
    /\ call[r].pc = "idle" /\ ~Waiting(w)
    /\ w \in registered /\ t \in ActiveTasksOf(w)
    /\ call' = [call EXCEPT ![r] =
            [IdleCall EXCEPT !.pc = "blacklisted", !.worker = w, !.task = t,
                             !.seen = failedBy[t]]]
    /\ UNCHANGED <<status, assignee, failedBy, registered, blacklist>>

\* WorkersLeft, first query: who is blacklisted.
ReadBlacklist(r) ==
    /\ call[r].pc = "blacklisted"
    /\ call' = [call EXCEPT ![r].pc = "workers", ![r].left = Workers \ blacklist]
    /\ UNCHANGED <<status, assignee, failedBy, registered, blacklist>>

\* WorkersLeft, second query: the workers that are not, this one excepted.
ReadWorkers(r) ==
    /\ call[r].pc = "workers"
    /\ call' = [call EXCEPT ![r].pc = "count",
                            ![r].left = (@ \cap registered) \ {call[r].worker}]
    /\ UNCHANGED <<status, assignee, failedBy, registered, blacklist>>

\* The failure being handled is not in the database yet and counts too.
CountFailures(r) ==
    /\ call[r].pc = "count"
    /\ LET failed == Cardinality(TasksOf(call[r].worker, {"failed", "soft-failed"})) + 1
       IN  Continue(r, IF failed < BlacklistThreshold THEN "apply" ELSE "ban")
    /\ UNCHANGED <<status, assignee, failedBy, registered, blacklist>>

\* blacklist.Add.
Ban(r) ==
    /\ call[r].pc = "ban"
    /\ blacklist' = blacklist \cup {call[r].worker}
    /\ Continue(r, IF call[r].left = {} THEN "find" ELSE "apply")
    /\ UNCHANGED <<status, assignee, failedBy, registered>>

\* Mutant: what soft-failed on this worker is found and not failed.
FindForNothing(r) ==
    /\ call[r].pc = "find"
    /\ call' = [call EXCEPT ![r].pc = "apply", ![r].found = TasksOf(call[r].worker, {"soft-failed"})]
    /\ UNCHANGED <<status, assignee, failedBy, registered, blacklist>>

\* Nobody is left: find what soft-failed on this worker.
FindSoftFailed(r) ==
    /\ call[r].pc = "find"
    /\ LET found == TasksOf(call[r].worker, {"soft-failed"})
       IN  call' = [call EXCEPT ![r].pc = IF found = {} THEN "apply" ELSE "sweep",
                                ![r].found = found]
    /\ UNCHANGED <<status, assignee, failedBy, registered, blacklist>>

\* And fail it, one task at a time.
HardFailOne(r) ==
    /\ call[r].pc = "sweep"
    /\ \E t \in call[r].found :
        /\ status' = [status EXCEPT ![t] = "failed"]
        /\ call' = [call EXCEPT ![r].found = @ \ {t},
                                ![r].pc = IF call[r].found = {t} THEN "apply" ELSE "sweep"]
    /\ UNCHANGED <<assignee, failedBy, registered, blacklist>>

(***************************************************************************)
(* onTaskFailed decides with the task as it was read, including the        *)
(* failure being handled; the update pushes the worker onto the list that  *)
(* is in the database by now.                                              *)
(***************************************************************************)
Decision(failures, left) ==
    IF Len(failures) >= TaskFailAfterSoftFailCount \/ left \subseteq Range(failures)
    THEN "failed" ELSE "soft-failed"

Store(r, decision) ==
    LET t == call[r].task
    IN  /\ status' = [status EXCEPT ![t] = decision]
        /\ failedBy' = [failedBy EXCEPT ![t] = Append(@, call[r].worker)]
        /\ call' = [call EXCEPT ![r] = IdleCall]

\* Mutant: addWorkerToFailedList is called after the decision.
ApplyBeforeAdding(r) ==
    /\ call[r].pc = "apply"
    /\ Store(r, Decision(call[r].seen, call[r].left))
    /\ UNCHANGED <<assignee, registered, blacklist>>

\* Mutant: off by one.
ApplyTooSoon(r) ==
    /\ call[r].pc = "apply"
    /\ Store(r, Decision(call[r].seen \o <<call[r].worker, call[r].worker>>, call[r].left))
    /\ UNCHANGED <<assignee, registered, blacklist>>

\* Mutant: the worker is not put on the list in the database.
ApplyForgetsWorker(r) ==
    /\ call[r].pc = "apply"
    /\ status' = [status EXCEPT ![call[r].task] = Decision(Append(call[r].seen, call[r].worker), call[r].left)]
    /\ call' = [call EXCEPT ![r] = IdleCall]
    /\ UNCHANGED <<assignee, failedBy, registered, blacklist>>

Apply(r) ==
    /\ call[r].pc = "apply"
    /\ Store(r, Decision(Append(call[r].seen, call[r].worker), call[r].left))
    /\ UNCHANGED <<assignee, registered, blacklist>>

-----------------------------------------------------------------------------
(* Other requests and other goroutines *)

FailureHandled(t) == \A r \in Requests : call[r].task # t

\* ScheduleTask gives a task to a worker without an active one.
Schedule(w, t) ==
    /\ w \in registered /\ ~Waiting(w)
    /\ ActiveTasksOf(w) = {}
    /\ status[t] \in Schedulable
    /\ w \notin blacklist /\ w \notin Range(failedBy[t])
    /\ status' = [status EXCEPT ![t] = "active"]
    /\ assignee' = [assignee EXCEPT ![t] = w]
    /\ UNCHANGED <<failedBy, registered, blacklist, call>>

\* The worker completes the task.
Complete(w, t) ==
    /\ w \in registered /\ ~Waiting(w)
    /\ t \in ActiveTasksOf(w)
    /\ status' = [status EXCEPT ![t] = "completed"]
    /\ UNCHANGED <<assignee, failedBy, registered, blacklist, call>>

\* The worker is considered timed out, and ReturnTask re-queues its task.
TakeBack(t) ==
    /\ "timeout" \in Env
    /\ "overlap" \in Env \/ FailureHandled(t)
    /\ status[t] = "active"
    /\ status' = [status EXCEPT ![t] = "claimed-by-manager"]
    /\ UNCHANGED <<assignee, failedBy, registered, blacklist, call>>

\* forgetWorker, from the dashboard.
Forget(w) ==
    /\ "forget" \in Env
    /\ registered' = registered \ {w}
    /\ UNCHANGED <<status, assignee, failedBy, blacklist, call>>

\* RemoveLine, from the dashboard, or MongoDB after seven days.
Pardon(w) ==
    /\ "pardon" \in Env
    /\ "overlap" \in Env \/ \A r \in Requests : call[r] = IdleCall
    /\ blacklist' = blacklist \ {w}
    /\ UNCHANGED <<status, assignee, failedBy, registered, call>>

-----------------------------------------------------------------------------
HandleReport(r) ==
    \/ ReadBlacklist(r) \/ ReadWorkers(r) \/ CountFailures(r) \/ Ban(r)
    \/ FindSoftFailed(r) \/ HardFailOne(r) \/ Apply(r)

Schedules(w) == \E t \in Tasks : Schedule(w, t)

Finishes(w) ==
    \E t \in Tasks : Complete(w, t) \/ \E r \in Requests : ReportFailure(r, w, t)

Surroundings ==
    \/ \E t \in Tasks : TakeBack(t)
    \/ \E w \in Workers : Forget(w) \/ Pardon(w)

Next ==
    \/ \E r \in Requests : HandleReport(r)
    \/ \E w \in Workers : Schedules(w) \/ Finishes(w)
    \/ Surroundings

Spec == Init /\ [][Next]_vars

\* The workers keep asking for tasks and finish them, one way or the other.
Fairness ==
    /\ \A r \in Requests : WF_vars(HandleReport(r))
    /\ \A w \in Workers : SF_vars(Schedules(w)) /\ SF_vars(Finishes(w))

FairSpec == Spec /\ Fairness

-----------------------------------------------------------------------------
(* Properties *)

\* The workers that could still be given task t.
Left(t) == (registered \ blacklist) \ Range(failedBy[t])

(***************************************************************************)
(* A task only becomes hard-failed for a reason that is true at that very  *)
(* moment, whichever reports are handled at the same time:                 *)
(* TaskFailAfterSoftFailCount different workers failed it, or no worker is *)
(* left for it (onTaskFailed, task_updates.go:180-207).                    *)
(***************************************************************************)
JustlyFailed ==
    [][\A t \in Tasks : status[t] # "failed" /\ status'[t] = "failed" =>
        \/ Cardinality(Range(failedBy'[t])) >= TaskFailAfterSoftFailCount
        \/ Left(t)' = {}]_vars

(***************************************************************************)
(* "When this many workers have tried the task and failed, it will be      *)
(* hard-failed" (settings.go:236): it is not retried by yet another.       *)
(***************************************************************************)
RetriesLimited ==
    \A t \in Tasks : status[t] \notin Final =>
        Cardinality(Range(failedBy[t])) < TaskFailAfterSoftFailCount

(***************************************************************************)
(* "No more workers left, so hard-fail all previously soft-failed tasks"   *)
(* (task_updates.go:515): a soft-failed task never waits for a worker when *)
(* there is none that may run it.                                          *)
(***************************************************************************)
SomebodyLeft ==
    (\A r \in Requests : call[r] = IdleCall) =>
        \A t \in Tasks : status[t] = "soft-failed" => Left(t) # {}

(***************************************************************************)
(* "This many failures (on a given job+task type combination) will ban a   *)
(* worker from that task type on that job" (settings.go:232).              *)
(***************************************************************************)
BannedAtThreshold ==
    \A w \in Workers :
        /\ \A r \in Requests : call[r].worker # w
        /\ Cardinality({t \in Tasks : w \in Range(failedBy[t])}) >= BlacklistThreshold
        => w \in blacklist

(***************************************************************************)
(* No task is retried forever, or waits for a retry forever, unless a      *)
(* worker is put on the blacklist or forgotten.                            *)
(***************************************************************************)
TaskEnds ==
    \A t \in Tasks : <>(status[t] \in Final \/ blacklist # {} \/ registered # Workers)
=============================================================================
