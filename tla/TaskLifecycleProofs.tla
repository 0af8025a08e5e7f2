------------------------ MODULE TaskLifecycleProofs ------------------------
(***************************************************************************)
(* Theorems about TaskLifecycle, for any number of tasks, workers and      *)
(* concurrent requests, and whatever the surroundings do; the last of them *)
(* for workers that wait for answers and stay in touch (Patient).          *)
(***************************************************************************)
EXTENDS TaskLifecycle, TLAPS

(* Whatever the caller has seen, the cache gets a proper status. *)
LEMMA AppliedType ==
    ASSUME TypeOK, NEW t \in Tasks, NEW seen, NEW new \in Statuses
    PROVE  Applied(t, seen, new) \in Statuses
BY DEF Applied, TypeOK

(* A status update keeps the types of what it changes. *)
LEMMA SetStatusType ==
    ASSUME TypeOK, NEW t \in Tasks, NEW s \in Statuses, SetStatus(t, s)
    PROVE  /\ status' \in [Tasks -> Statuses]
           /\ handedTo' \in [Tasks -> WorkerOrNone]
BY DEF TypeOK, SetStatus, WorkerOrNone

LEMMA QueueTaskUpdateType ==
    ASSUME TypeOK, NEW t \in Tasks, NEW seen, NEW new \in Statuses,
           QueueTaskUpdate(t, seen, new)
    PROVE  /\ status' \in [Tasks -> Statuses]
           /\ handedTo' \in [Tasks -> WorkerOrNone]
           /\ serverCancel' \in [Tasks -> {"no", "wanted", "answered"}]
<1>1. SetStatus(t, Applied(t, seen, new))
  BY DEF QueueTaskUpdate
<1>2. Applied(t, seen, new) \in Statuses
  BY AppliedType
<1>3. /\ status' \in [Tasks -> Statuses]
      /\ handedTo' \in [Tasks -> WorkerOrNone]
  BY <1>1, <1>2, SetStatusType
<1>4. serverCancel' \in [Tasks -> {"no", "wanted", "answered"}]
  BY DEF TypeOK, QueueTaskUpdate
<1> QED  BY <1>3, <1>4

(***************************************************************************)
(* A status update takes a task off its worker at most: it gives it to     *)
(* nobody, and it keeps QueuedIsUnheld.                                    *)
(***************************************************************************)
LEMMA SetStatusUnheld ==
    ASSUME TypeOK, QueuedIsUnheld, NEW t \in Tasks, NEW s, SetStatus(t, s)
    PROVE  /\ QueuedIsUnheld'
           /\ \A u \in Tasks : handedTo[u] = None => handedTo'[u] = None
BY DEF TypeOK, QueuedIsUnheld, SetStatus

LEMMA QueueTaskUpdateUnheld ==
    ASSUME TypeOK, QueuedIsUnheld, NEW t \in Tasks, NEW seen, NEW new,
           QueueTaskUpdate(t, seen, new)
    PROVE  /\ QueuedIsUnheld'
           /\ \A u \in Tasks : handedTo[u] = None => handedTo'[u] = None
BY SetStatusUnheld DEF QueueTaskUpdate

-----------------------------------------------------------------------------
(* The inductive invariant holds initially. *)
LEMMA InitInv == Init => IInv
<1> SUFFICES ASSUME Init PROVE IInv
  OBVIOUS
<1> USE DEF Init
<1>1. IdleCall \in Calls
  BY DEF IdleCall, Calls, Statuses, Schedulable, WorkerOrNone, MaxAttempts
<1>2. IdlePusher \in Pushers /\ IdleChecker \in Checkers
  BY DEF IdlePusher, Pushers, IdleChecker, Checkers
<1>3. TypeOK
  BY <1>1, <1>2 DEF TypeOK, Statuses, Schedulable, WorkerOrNone
<1>4. \A r \in Requests : call[r].pc = "idle"
  BY DEF IdleCall
<1>5. QueuedIsUnheld
  BY DEF QueuedIsUnheld
<1> QED  BY <1>3, <1>4, <1>5 DEF IInv, ApplyHasStatus, SchedulerLocked, ExaminedUnheld

-----------------------------------------------------------------------------
(***************************************************************************)
(* Most actions are a step in the handling of one request.  The next lemma *)
(* says what is to be shown for such a step when it hands no task to a     *)
(* worker.                                                                 *)
(***************************************************************************)
LockedPcs == {"fetch", "refetch", "assign", "reply", "pong"}

TypeOfOthers ==
    /\ status \in [Tasks -> Statuses]
    /\ assignee \in [Tasks -> WorkerOrNone]
    /\ recent \in [Tasks -> BOOLEAN]
    /\ mutex \in Requests \cup {None}
    /\ pusher \in Pushers
    /\ checker \in Checkers
    /\ serverCancel \in [Tasks -> {"no", "wanted", "answered"}]
    /\ silent \in SUBSET Workers
    /\ handedTo \in [Tasks -> WorkerOrNone]

LEMMA CallReplaced ==
    ASSUME IInv, NEW r \in Requests, NEW c \in Calls,
           call' = [call EXCEPT ![r] = c],
           TypeOfOthers', QueuedIsUnheld',
           \A u \in Tasks : handedTo[u] = None => handedTo'[u] = None,
           \A q \in Requests : q # r /\ mutex = q => mutex' = q,
           c.pc = "apply" => c.new # "none",
           c.pc \in LockedPcs => mutex' = r,
           c.pc \in {"refetch", "assign"} /\ c.seen \in Schedulable =>
                \A t \in c.tasks : handedTo'[t] = None
    PROVE  IInv'
<1>1. call' \in [Requests -> Calls] /\ call'[r] = c
      /\ \A q \in Requests : q # r => call'[q] = call[q]
  BY DEF IInv, TypeOK
<1>2. TypeOK'
  BY <1>1 DEF TypeOK, TypeOfOthers
<1>3. ApplyHasStatus'
  BY <1>1 DEF IInv, ApplyHasStatus
<1>4. SchedulerLocked'
  BY <1>1 DEF IInv, SchedulerLocked, LockedPcs
<1>5. ExaminedUnheld'
  <2> SUFFICES ASSUME NEW q \in Requests, call'[q].pc \in {"refetch", "assign"},
                      call'[q].seen \in Schedulable, NEW t \in call'[q].tasks
               PROVE  handedTo'[t] = None
    BY DEF ExaminedUnheld
  <2>1. CASE q = r
    BY <1>1, <2>1
  <2>2. CASE q # r
    <3>1. call'[q] = call[q] /\ t \in Tasks
      BY <1>1, <2>2 DEF IInv, TypeOK, Calls
    <3> QED  BY <3>1 DEF IInv, ExaminedUnheld
  <2> QED  BY <2>1, <2>2
<1> QED  BY <1>2, <1>3, <1>4, <1>5 DEF IInv

(* The request is answered. *)
LEMMA IdleCallType == IdleCall \in Calls /\ IdleCall.pc = "idle"
BY DEF IdleCall, Calls, Statuses, Schedulable, WorkerOrNone, MaxAttempts

(* The request goes on with the other tasks, or is answered. *)
LEMMA WithoutTaskType ==
    ASSUME NEW c \in Calls, NEW t \in Tasks
    PROVE  /\ WithoutTask(c, t) \in Calls
           /\ \/ WithoutTask(c, t).pc = "idle"
              \/ WithoutTask(c, t).pc = c.pc /\ WithoutTask(c, t).new = c.new
<1>1. CASE c.tasks = {t}
  BY <1>1, IdleCallType DEF WithoutTask
<1>2. CASE c.tasks # {t}
  BY <1>2 DEF WithoutTask, Calls
<1> QED  BY <1>1, <1>2

(* A task taken from the queue, or active on the worker, is to be examined. *)
LEMMA FetchType ==
    ASSUME IInv, NEW r \in Requests, NEW w \in WorkerOrNone, NEW attempt \in 0 .. MaxAttempts,
           Fetch(r, w, attempt)
    PROVE  \E c \in Calls :
            /\ call' = [call EXCEPT ![r] = c]
            /\ c.pc = "refetch"
            /\ c.seen \in Schedulable => \A t \in c.tasks : handedTo[t] = None
<1>1. PICK t \in Tasks :
        call' = [call EXCEPT ![r] =
            [IdleCall EXCEPT !.pc = "refetch", !.worker = w, !.tasks = {t},
                             !.seen = status[t], !.attempt = attempt]]
  BY DEF Fetch, Candidates, ActiveTasksOf
<1> DEFINE c == [IdleCall EXCEPT !.pc = "refetch", !.worker = w, !.tasks = {t},
                                 !.seen = status[t], !.attempt = attempt]
<1>2. status[t] \in Statuses
  BY DEF IInv, TypeOK
<1>3. c \in Calls
  BY <1>2 DEF Calls, IdleCall, WorkerOrNone, Statuses
<1>4. c.pc = "refetch" /\ c.seen = status[t] /\ c.tasks = {t}
  BY DEF IdleCall
<1>5. c.seen \in Schedulable => \A u \in c.tasks : handedTo[u] = None
  BY <1>4 DEF IInv, QueuedIsUnheld, Schedulable, OnWorker
<1>6. call' = [call EXCEPT ![r] = c]
  BY <1>1
<1> HIDE DEF c
<1> QED  BY <1>3, <1>4, <1>5, <1>6

LEMMA UpdateReadInv ==
    ASSUME IInv, NEW r \in Requests, NEW w \in Workers, NEW t \in Tasks,
           NEW report \in Reports, UpdateRead(r, w, t, report)
    PROVE  IInv'
<1> DEFINE new == IF report = "failed" /\ assignee[t] = None THEN "none" ELSE report
           c == [IdleCall EXCEPT !.pc = "ping", !.worker = w, !.tasks = {t},
                                 !.seen = status[t], !.new = new]
<1>1. call' = [call EXCEPT ![r] = c]
  BY DEF UpdateRead
<1>2. UNCHANGED <<taskVars, mutex, pusher, checker, silent>>
  BY DEF UpdateRead
<1>3. c \in Calls /\ c.pc = "ping"
  <2>1. new \in Statuses \cup {"none"}
    BY ReportsAssumption DEF Statuses, Runnable, Final
  <2>2. status[t] \in Statuses
    BY DEF IInv, TypeOK
  <2> HIDE DEF new
  <2> QED  BY <2>1, <2>2, IdleCallType DEF Calls, WorkerOrNone
<1>4. TypeOfOthers' /\ QueuedIsUnheld'
  BY <1>2 DEF IInv, TypeOK, TypeOfOthers, QueuedIsUnheld, taskVars
<1> HIDE DEF c
<1> QED  BY <1>1, <1>2, <1>3, <1>4, CallReplaced DEF taskVars, LockedPcs

LEMMA UpdatePingInv ==
    ASSUME IInv, NEW r \in Requests, UpdatePing(r)
    PROVE  IInv'
<1> USE DEF IInv, TypeOK, Calls
<1>1. PICK c \in Calls : /\ call' = [call EXCEPT ![r] = c]
                         /\ \/ c = IdleCall
                            \/ c.pc = "apply" /\ c.new # "none"
  <2>1. CASE Answer(r)
    BY <2>1, IdleCallType DEF Answer
  <2>2. CASE /\ call[r].new \notin {"none", "failed"}
             /\ call' = [call EXCEPT ![r].pc = "apply"]
    <3> WITNESS [call[r] EXCEPT !.pc = "apply"] \in Calls
    <3> QED  BY <2>2
  <2>3. CASE call' = [call EXCEPT ![r].pc = "apply", ![r].new = "soft-failed"]
    <3> DEFINE c == [call[r] EXCEPT !.pc = "apply", !.new = "soft-failed"]
    <3>1. c \in Calls
      BY DEF Statuses, Schedulable
    <3>2. call' = [call EXCEPT ![r] = c]
      BY <2>3
    <3> QED  BY <3>1, <3>2
  <2>4. ASSUME call[r].new = "failed", NEW u \in Tasks, NEW others \in SUBSET Tasks,
               call' = [call EXCEPT ![r].pc = "apply", ![r].tasks = others \cup {u}]
        PROVE  \E c \in Calls : /\ call' = [call EXCEPT ![r] = c]
                                /\ c.pc = "apply" /\ c.new # "none"
    <3> DEFINE c == [call[r] EXCEPT !.pc = "apply", !.tasks = others \cup {u}]
    <3>1. c \in Calls
      OBVIOUS
    <3>2. call' = [call EXCEPT ![r] = c]
      BY <2>4
    <3> QED  BY <2>4, <3>1, <3>2
  <2> QED  BY <2>1, <2>2, <2>3, <2>4 DEF UpdatePing
<1>2. /\ UNCHANGED <<status, serverCancel, handedTo, mutex, pusher, checker, silent>>
      /\ TypeOfOthers' /\ QueuedIsUnheld'
  BY DEF UpdatePing, TypeOfOthers, QueuedIsUnheld
<1>3. (c.pc = "apply" /\ c.new # "none") \/ c.pc = "idle"
  BY <1>1, IdleCallType
<1> QED  BY <1>1, <1>2, <1>3, CallReplaced DEF LockedPcs

LEMMA UpdateApplyInv ==
    ASSUME IInv, NEW r \in Requests, UpdateApply(r)
    PROVE  IInv'
<1>1. PICK t \in call[r].tasks :
        /\ QueueTaskUpdate(t, call[r].seen, call[r].new)
        /\ call' = [call EXCEPT ![r] = WithoutTask(call[r], t)]
  BY DEF UpdateApply
<1>2. UNCHANGED <<assignee, recent, mutex, pusher, checker, silent>>
  BY DEF UpdateApply
<1>3. /\ t \in Tasks /\ call[r] \in Calls
      /\ call[r].new \in Statuses
  BY DEF UpdateApply, IInv, TypeOK, Calls, ApplyHasStatus, Statuses, Schedulable
<1>4. /\ QueuedIsUnheld'
      /\ \A u \in Tasks : handedTo[u] = None => handedTo'[u] = None
  BY <1>1, <1>3, QueueTaskUpdateUnheld DEF IInv
<1>5. TypeOfOthers'
  BY <1>1, <1>2, <1>3, QueueTaskUpdateType DEF IInv, TypeOK, TypeOfOthers
<1> DEFINE c == WithoutTask(call[r], t)
<1>6. call' = [call EXCEPT ![r] = c]
  BY <1>1
<1>7. c \in Calls /\ (c.pc = "idle" \/ (c.pc = call[r].pc /\ c.new = call[r].new))
  BY <1>3, WithoutTaskType
<1>8. call[r].pc = "apply" /\ (call[r].pc = "apply" => call[r].new # "none")
  BY DEF UpdateApply, IInv, ApplyHasStatus
<1> HIDE DEF c
<1> QED  BY <1>2, <1>4, <1>5, <1>6, <1>7, <1>8, CallReplaced DEF LockedPcs

LEMMA ScheduleLockInv ==
    ASSUME IInv, NEW r \in Requests, NEW w \in Workers, ScheduleLock(r, w)
    PROVE  IInv'
<1>1. PICK c \in Calls :
        /\ call' = [call EXCEPT ![r] = c]
        /\ c.pc = "refetch"
        /\ c.seen \in Schedulable => \A t \in c.tasks : handedTo[t] = None
  BY FetchType DEF ScheduleLock, MaxAttempts, WorkerOrNone
<1>2. /\ mutex = None /\ mutex' = r
      /\ UNCHANGED <<status, assignee, recent, serverCancel, handedTo,
                     pusher, checker, silent>>
  BY DEF ScheduleLock, taskVars
<1>3. TypeOfOthers' /\ QueuedIsUnheld'
  BY <1>2 DEF IInv, TypeOK, TypeOfOthers, QueuedIsUnheld
<1> QED  BY <1>1, <1>2, <1>3, CallReplaced, NoneAssumption

LEMMA RefetchSameInv ==
    ASSUME IInv, NEW r \in Requests, RefetchSame(r)
    PROVE  IInv'
<1> USE DEF IInv, RefetchSame, taskVars
<1>1. TypeOK'
  BY DEF TypeOK, Calls, Statuses, Schedulable, Runnable, Final, WorkerOrNone, IdleCall, Answer, MaxAttempts
<1>2. ApplyHasStatus'
  BY DEF ApplyHasStatus, TypeOK, Calls, IdleCall, Answer
<1>3. QueuedIsUnheld'
  BY DEF QueuedIsUnheld, TypeOK
<1>4. SchedulerLocked'
  BY DEF SchedulerLocked, TypeOK, Calls, IdleCall, Answer
<1>5. ExaminedUnheld'
  BY DEF ExaminedUnheld, SchedulerLocked, TypeOK, Calls, IdleCall, Answer
<1> QED  BY <1>1, <1>2, <1>3, <1>4, <1>5 DEF IInv

LEMMA RefetchChangedInv ==
    ASSUME IInv, NEW r \in Requests, NEW s \in FromServer, RefetchChanged(r, s)
    PROVE  IInv'
<1> USE DEF IInv, RefetchChanged
<1>1. TypeOK'
  BY FromServerAssumption, SetStatusType DEF TypeOK, Calls, Statuses, Schedulable, Runnable, Final, WorkerOrNone, IdleCall, Answer, MaxAttempts
<1>2. ApplyHasStatus'
  BY DEF ApplyHasStatus, TypeOK, Calls, IdleCall, Answer
<1>3. QueuedIsUnheld'
  BY SetStatusUnheld DEF QueuedIsUnheld, TypeOK, Calls
<1>4. SchedulerLocked'
  BY DEF SchedulerLocked, TypeOK, Calls, IdleCall, Answer
<1>5. ExaminedUnheld'
  BY SetStatusUnheld DEF ExaminedUnheld, SchedulerLocked, TypeOK, Calls, IdleCall, Answer
<1> QED  BY <1>1, <1>2, <1>3, <1>4, <1>5 DEF IInv

LEMMA FetchAgainInv ==
    ASSUME IInv, NEW r \in Requests, FetchAgain(r)
    PROVE  IInv'
<1>1. /\ mutex = r
      /\ UNCHANGED <<status, assignee, recent, serverCancel, handedTo,
                     pusher, checker, silent>>
  BY DEF FetchAgain, IInv, SchedulerLocked, taskVars
<1>2. mutex' \in {mutex, None} /\ TypeOfOthers' /\ QueuedIsUnheld'
  BY <1>1 DEF FetchAgain, IInv, TypeOK, TypeOfOthers, QueuedIsUnheld
<1>3. CASE /\ call[r].attempt < MaxAttempts
           /\ Fetch(r, call[r].worker, call[r].attempt + 1)
           /\ UNCHANGED mutex
  <2>1. call[r].attempt + 1 \in 0 .. MaxAttempts /\ call[r].worker \in WorkerOrNone
    BY <1>3 DEF IInv, TypeOK, Calls, MaxAttempts
  <2>2. PICK c \in Calls :
          /\ call' = [call EXCEPT ![r] = c]
          /\ c.pc = "refetch"
          /\ c.seen \in Schedulable => \A t \in c.tasks : handedTo[t] = None
    BY <1>3, <2>1, FetchType
  <2> QED  BY <1>1, <1>2, <1>3, <2>2, CallReplaced
<1>4. CASE Answer(r)
  BY <1>1, <1>2, <1>4, IdleCallType, CallReplaced DEF Answer, LockedPcs
<1> QED  BY <1>3, <1>4 DEF FetchAgain

LEMMA AssignInv ==
    ASSUME IInv, NEW r \in Requests, Assign(r)
    PROVE  IInv'
<1> USE DEF IInv, Assign
<1>1. TypeOK'
  BY DEF TypeOK, Calls, Statuses, Schedulable, Runnable, Final, WorkerOrNone, IdleCall, Answer, MaxAttempts
<1>2. ApplyHasStatus'
  BY DEF ApplyHasStatus, TypeOK, Calls, IdleCall, Answer
<1>3. QueuedIsUnheld'
  BY DEF QueuedIsUnheld, OnWorker, TypeOK, Calls
<1>4. SchedulerLocked'
  BY DEF SchedulerLocked, TypeOK, Calls, IdleCall, Answer
<1>5. ExaminedUnheld'
  BY DEF ExaminedUnheld, SchedulerLocked, TypeOK, Calls, IdleCall, Answer
<1> QED  BY <1>1, <1>2, <1>3, <1>4, <1>5 DEF IInv

LEMMA ReplyInv ==
    ASSUME IInv, NEW r \in Requests, Reply(r)
    PROVE  IInv'
<1> USE DEF IInv, Reply, taskVars
<1>1. TypeOK'
  BY DEF TypeOK, Calls, Statuses, Schedulable, Runnable, Final, WorkerOrNone, IdleCall, Answer, MaxAttempts
<1>2. ApplyHasStatus'
  BY DEF ApplyHasStatus, TypeOK, Calls, IdleCall, Answer
<1>3. QueuedIsUnheld'
  BY DEF QueuedIsUnheld, TypeOK
<1>4. SchedulerLocked'
  BY DEF SchedulerLocked, TypeOK, Calls, IdleCall, Answer
<1>5. ExaminedUnheld'
  BY DEF ExaminedUnheld, SchedulerLocked, TypeOK, Calls, IdleCall, Answer
<1> QED  BY <1>1, <1>2, <1>3, <1>4, <1>5 DEF IInv

LEMMA ReplyFailsInv ==
    ASSUME IInv, NEW r \in Requests, ReplyFails(r)
    PROVE  IInv'
<1> USE DEF IInv, ReplyFails
<1>1. TypeOK'
  BY QueueTaskUpdateType DEF TypeOK, Calls, Statuses, Schedulable, Runnable, Final, WorkerOrNone, IdleCall, Answer, MaxAttempts
<1>2. ApplyHasStatus'
  BY DEF ApplyHasStatus, TypeOK, Calls, IdleCall, Answer
<1>3. QueuedIsUnheld'
  BY QueueTaskUpdateUnheld DEF QueuedIsUnheld, TypeOK, Calls
<1>4. SchedulerLocked'
  BY DEF SchedulerLocked, TypeOK, Calls, IdleCall, Answer
<1>5. ExaminedUnheld'
  BY QueueTaskUpdateUnheld DEF ExaminedUnheld, SchedulerLocked, TypeOK, Calls, IdleCall, Answer
<1> QED  BY <1>1, <1>2, <1>3, <1>4, <1>5 DEF IInv

LEMMA ReturnReadInv ==
    ASSUME IInv, NEW r \in Requests, NEW w \in Workers, NEW t \in Tasks, ReturnRead(r, w, t)
    PROVE  IInv'
<1> USE DEF IInv, ReturnRead, MaySendAbout, MaySend, taskVars
<1>1. TypeOK'
  BY DEF TypeOK, Calls, Statuses, Schedulable, Runnable, Final, WorkerOrNone, IdleCall, Answer, MaxAttempts
<1>2. ApplyHasStatus'
  BY DEF ApplyHasStatus, TypeOK, Calls, IdleCall, Answer
<1>3. QueuedIsUnheld'
  BY DEF QueuedIsUnheld, TypeOK
<1>4. SchedulerLocked'
  BY DEF SchedulerLocked, TypeOK, Calls, IdleCall, Answer
<1>5. ExaminedUnheld'
  BY DEF ExaminedUnheld, SchedulerLocked, TypeOK, Calls, IdleCall, Answer
<1> QED  BY <1>1, <1>2, <1>3, <1>4, <1>5 DEF IInv

LEMMA SignOffInv ==
    ASSUME IInv, NEW r \in Requests, NEW w \in Workers, SignOff(r, w)
    PROVE  IInv'
<1> USE DEF IInv, SignOff, MaySend, ActiveTasksOf, taskVars
<1>1. TypeOK'
  BY DEF TypeOK, Calls, Statuses, Schedulable, Runnable, Final, WorkerOrNone, IdleCall, Answer, MaxAttempts
<1>2. ApplyHasStatus'
  BY DEF ApplyHasStatus, TypeOK, Calls, IdleCall, Answer
<1>3. QueuedIsUnheld'
  BY DEF QueuedIsUnheld, TypeOK
<1>4. SchedulerLocked'
  BY DEF SchedulerLocked, TypeOK, Calls, IdleCall, Answer
<1>5. ExaminedUnheld'
  BY DEF ExaminedUnheld, SchedulerLocked, TypeOK, Calls, IdleCall, Answer
<1> QED  BY <1>1, <1>2, <1>3, <1>4, <1>5 DEF IInv

LEMMA ReturnOneInv ==
    ASSUME IInv, NEW r \in Requests, ReturnOne(r)
    PROVE  IInv'
<1>1. PICK t \in call[r].tasks :
        /\ QueueTaskUpdate(t, "claimed-by-manager", "claimed-by-manager")
        /\ call' = [call EXCEPT ![r] = WithoutTask(call[r], t)]
  BY DEF ReturnOne, ReturnTask
<1>2. UNCHANGED <<assignee, recent, mutex, pusher, checker, silent>>
  BY DEF ReturnOne
<1>3. /\ t \in Tasks /\ call[r] \in Calls
      /\ "claimed-by-manager" \in Statuses
  BY DEF ReturnOne, IInv, TypeOK, Calls, ApplyHasStatus, Statuses, Schedulable
<1>4. /\ QueuedIsUnheld'
      /\ \A u \in Tasks : handedTo[u] = None => handedTo'[u] = None
  BY <1>1, <1>3, QueueTaskUpdateUnheld DEF IInv
<1>5. TypeOfOthers'
  BY <1>1, <1>2, <1>3, QueueTaskUpdateType DEF IInv, TypeOK, TypeOfOthers
<1> DEFINE c == WithoutTask(call[r], t)
<1>6. call' = [call EXCEPT ![r] = c]
  BY <1>1
<1>7. c \in Calls /\ (c.pc = "idle" \/ (c.pc = call[r].pc /\ c.new = call[r].new))
  BY <1>3, WithoutTaskType
<1>8. call[r].pc = "return" /\ (call[r].pc = "apply" => call[r].new # "none")
  BY DEF ReturnOne, IInv, ApplyHasStatus
<1> HIDE DEF c
<1> QED  BY <1>2, <1>4, <1>5, <1>6, <1>7, <1>8, CallReplaced DEF LockedPcs

LEMMA MayRunCheckInv ==
    ASSUME IInv, NEW r \in Requests, NEW w \in Workers, NEW t \in Tasks, MayRunCheck(r, w, t)
    PROVE  IInv'
<1> USE DEF IInv, MayRunCheck, MaySendAbout, MaySend, taskVars
<1>1. TypeOK'
  BY DEF TypeOK, Calls, Statuses, Schedulable, Runnable, Final, WorkerOrNone, IdleCall, Answer, MaxAttempts
<1>2. ApplyHasStatus'
  BY DEF ApplyHasStatus, TypeOK, Calls, IdleCall, Answer
<1>3. QueuedIsUnheld'
  BY DEF QueuedIsUnheld, TypeOK
<1>4. SchedulerLocked'
  BY NoneAssumption DEF SchedulerLocked, TypeOK, Calls, IdleCall, Answer
<1>5. ExaminedUnheld'
  BY NoneAssumption DEF ExaminedUnheld, SchedulerLocked, TypeOK, Calls, IdleCall, Answer
<1> QED  BY <1>1, <1>2, <1>3, <1>4, <1>5 DEF IInv

LEMMA MayRunPingInv ==
    ASSUME IInv, NEW r \in Requests, MayRunPing(r)
    PROVE  IInv'
<1> USE DEF IInv, MayRunPing
<1>1. TypeOK'
  BY DEF TypeOK, Calls, Statuses, Schedulable, Runnable, Final, WorkerOrNone, IdleCall, Answer, MaxAttempts
<1>2. ApplyHasStatus'
  BY DEF ApplyHasStatus, TypeOK, Calls, IdleCall, Answer
<1>3. QueuedIsUnheld'
  BY DEF QueuedIsUnheld, TypeOK
<1>4. SchedulerLocked'
  BY DEF SchedulerLocked, TypeOK, Calls, IdleCall, Answer
<1>5. ExaminedUnheld'
  BY DEF ExaminedUnheld, SchedulerLocked, TypeOK, Calls, IdleCall, Answer
<1> QED  BY <1>1, <1>2, <1>3, <1>4, <1>5 DEF IInv

-----------------------------------------------------------------------------
(* The steps that are not part of a request, and hand no task to a worker. *)
LEMMA CallsUnchanged ==
    ASSUME IInv, UNCHANGED <<mutex, call>>, TypeOfOthers', QueuedIsUnheld',
           \A u \in Tasks : handedTo[u] = None => handedTo'[u] = None
    PROVE  IInv'
<1>1. TypeOK' /\ ApplyHasStatus' /\ SchedulerLocked'
  BY DEF IInv, TypeOK, TypeOfOthers, ApplyHasStatus, SchedulerLocked
<1>2. ExaminedUnheld'
  BY DEF IInv, TypeOK, Calls, ExaminedUnheld
<1> QED  BY <1>1, <1>2 DEF IInv

LEMMA PushInv ==
    ASSUME IInv, Push
    PROVE  IInv'
<1>1. UNCHANGED <<mutex, call>>
  BY DEF Push
<1>2. TypeOfOthers'
  BY DEF IInv, TypeOK, TypeOfOthers, Push, Pushers
<1>3. /\ QueuedIsUnheld'
      /\ \A u \in Tasks : handedTo[u] = None => handedTo'[u] = None
  BY DEF IInv, TypeOK, QueuedIsUnheld, Push, Pushers
<1> QED  BY <1>1, <1>2, <1>3, CallsUnchanged

LEMMA PushCancelInv ==
    ASSUME IInv, PushCancel
    PROVE  IInv'
<1>1. UNCHANGED <<mutex, call>>
  BY DEF PushCancel
<1>2. TypeOfOthers'
  BY QueueTaskUpdateType DEF IInv, TypeOK, TypeOfOthers, Statuses, Schedulable, Final, Runnable, PushCancel, Pushers
<1>3. /\ QueuedIsUnheld'
      /\ \A u \in Tasks : handedTo[u] = None => handedTo'[u] = None
  BY QueueTaskUpdateUnheld DEF IInv, TypeOK, PushCancel, Pushers
<1> QED  BY <1>1, <1>2, <1>3, CallsUnchanged

LEMMA PushMarkInv ==
    ASSUME IInv, PushMark
    PROVE  IInv'
<1>1. UNCHANGED <<mutex, call>>
  BY DEF PushMark
<1>2. TypeOfOthers'
  BY DEF IInv, TypeOK, TypeOfOthers, Statuses, PushMark, Pushers, IdlePusher
<1>3. /\ QueuedIsUnheld'
      /\ \A u \in Tasks : handedTo[u] = None => handedTo'[u] = None
  BY DEF IInv, TypeOK, QueuedIsUnheld, OnWorker, PushMark
<1> QED  BY <1>1, <1>2, <1>3, CallsUnchanged

LEMMA CheckTasksInv ==
    ASSUME IInv, CheckTasks
    PROVE  IInv'
<1>1. UNCHANGED <<mutex, call>>
  BY DEF CheckTasks, taskVars
<1>2. TypeOfOthers'
  BY DEF IInv, TypeOK, TypeOfOthers, CheckTasks, Checkers, IdleChecker, taskVars
<1>3. /\ QueuedIsUnheld'
      /\ \A u \in Tasks : handedTo[u] = None => handedTo'[u] = None
  BY DEF IInv, TypeOK, QueuedIsUnheld, CheckTasks, Checkers, IdleChecker, taskVars
<1> QED  BY <1>1, <1>2, <1>3, CallsUnchanged

LEMMA TimeoutTaskInv ==
    ASSUME IInv, TimeoutTask
    PROVE  IInv'
<1>1. UNCHANGED <<mutex, call>>
  BY DEF TimeoutTask, taskVars
<1>2. TypeOfOthers'
  BY DEF IInv, TypeOK, TypeOfOthers, TimeoutTask, Checkers, ActiveTasksOf, taskVars
<1>3. /\ QueuedIsUnheld'
      /\ \A u \in Tasks : handedTo[u] = None => handedTo'[u] = None
  BY DEF IInv, TypeOK, QueuedIsUnheld, TimeoutTask, Checkers, ActiveTasksOf, taskVars
<1> QED  BY <1>1, <1>2, <1>3, CallsUnchanged

LEMMA TimeoutWorkerInv ==
    ASSUME IInv, NEW w \in Workers, TimeoutWorker(w)
    PROVE  IInv'
<1>1. UNCHANGED <<mutex, call>>
  BY DEF TimeoutWorker, taskVars
<1>2. TypeOfOthers'
  BY DEF IInv, TypeOK, TypeOfOthers, TimeoutWorker, Checkers, ActiveTasksOf, taskVars
<1>3. /\ QueuedIsUnheld'
      /\ \A u \in Tasks : handedTo[u] = None => handedTo'[u] = None
  BY DEF IInv, TypeOK, QueuedIsUnheld, TimeoutWorker, Checkers, ActiveTasksOf, taskVars
<1> QED  BY <1>1, <1>2, <1>3, CallsUnchanged

LEMMA CheckerReturnInv ==
    ASSUME IInv, CheckerReturn
    PROVE  IInv'
<1>1. UNCHANGED <<mutex, call>>
  BY DEF CheckerReturn, ReturnTask
<1>2. TypeOfOthers'
  BY QueueTaskUpdateType DEF IInv, TypeOK, TypeOfOthers, Statuses, Schedulable, Final, Runnable, CheckerReturn, ReturnTask, Checkers
<1>3. /\ QueuedIsUnheld'
      /\ \A u \in Tasks : handedTo[u] = None => handedTo'[u] = None
  BY QueueTaskUpdateUnheld DEF IInv, TypeOK, CheckerReturn, ReturnTask, Checkers
<1> QED  BY <1>1, <1>2, <1>3, CallsUnchanged

LEMMA CheckerFailInv ==
    ASSUME IInv, CheckerFail
    PROVE  IInv'
<1>1. UNCHANGED <<mutex, call>>
  BY DEF CheckerFail
<1>2. TypeOfOthers'
  BY QueueTaskUpdateType DEF IInv, TypeOK, TypeOfOthers, Statuses, Schedulable, Final, Runnable, CheckerFail, Checkers
<1>3. /\ QueuedIsUnheld'
      /\ \A u \in Tasks : handedTo[u] = None => handedTo'[u] = None
  BY QueueTaskUpdateUnheld DEF IInv, TypeOK, CheckerFail, Checkers
<1> QED  BY <1>1, <1>2, <1>3, CallsUnchanged

LEMMA DownloadInv ==
    ASSUME IInv, NEW t \in Tasks, Download(t)
    PROVE  IInv'
<1>1. UNCHANGED <<mutex, call>>
  BY DEF Download
<1>2. TypeOfOthers'
  BY SetStatusType DEF IInv, TypeOK, TypeOfOthers, Statuses, Schedulable, WorkerOrNone, Download
<1>3. /\ QueuedIsUnheld'
      /\ \A u \in Tasks : handedTo[u] = None => handedTo'[u] = None
  BY SetStatusUnheld DEF IInv, Download
<1> QED  BY <1>1, <1>2, <1>3, CallsUnchanged

LEMMA ServerCancelsInv ==
    ASSUME IInv, NEW t \in Tasks, ServerCancels(t)
    PROVE  IInv'
<1>1. UNCHANGED <<mutex, call>>
  BY DEF ServerCancels
<1>2. TypeOfOthers'
  BY DEF IInv, TypeOK, TypeOfOthers, ServerCancels
<1>3. /\ QueuedIsUnheld'
      /\ \A u \in Tasks : handedTo[u] = None => handedTo'[u] = None
  BY DEF IInv, TypeOK, QueuedIsUnheld, ServerCancels
<1> QED  BY <1>1, <1>2, <1>3, CallsUnchanged

LEMMA ExpireInv ==
    ASSUME IInv, NEW t \in Tasks, Expire(t)
    PROVE  IInv'
<1>1. UNCHANGED <<mutex, call>>
  BY DEF Expire
<1>2. TypeOfOthers'
  BY DEF IInv, TypeOK, TypeOfOthers, Expire
<1>3. /\ QueuedIsUnheld'
      /\ \A u \in Tasks : handedTo[u] = None => handedTo'[u] = None
  BY DEF IInv, TypeOK, QueuedIsUnheld, Expire
<1> QED  BY <1>1, <1>2, <1>3, CallsUnchanged

LEMMA WorkerStopsInv ==
    ASSUME IInv, NEW w \in Workers, WorkerStops(w)
    PROVE  IInv'
<1>1. UNCHANGED <<mutex, call>>
  BY DEF WorkerStops, taskVars
<1>2. TypeOfOthers'
  BY DEF IInv, TypeOK, TypeOfOthers, WorkerStops, taskVars
<1>3. /\ QueuedIsUnheld'
      /\ \A u \in Tasks : handedTo[u] = None => handedTo'[u] = None
  BY DEF IInv, TypeOK, QueuedIsUnheld, WorkerStops, taskVars
<1> QED  BY <1>1, <1>2, <1>3, CallsUnchanged

LEMMA CrashInv == ASSUME IInv, Crash PROVE IInv'
<1>1. call' = [r \in Requests |-> IdleCall] /\ \A r \in Requests : call'[r].pc = "idle"
  BY IdleCallType DEF Crash
<1>2. TypeOK'
  BY <1>1, IdleCallType
     DEF IInv, TypeOK, Crash, taskVars, Pushers, IdlePusher, Checkers, IdleChecker
<1>3. QueuedIsUnheld'
  BY DEF IInv, QueuedIsUnheld, Crash, taskVars
<1> QED  BY <1>1, <1>2, <1>3 DEF IInv, ApplyHasStatus, SchedulerLocked, ExaminedUnheld

LEMMA StutterInv == ASSUME IInv, UNCHANGED vars PROVE IInv'
<1>1. /\ UNCHANGED <<mutex, call>>
      /\ TypeOfOthers' /\ QueuedIsUnheld'
      /\ \A u \in Tasks : handedTo[u] = None => handedTo'[u] = None
  BY DEF IInv, TypeOK, TypeOfOthers, QueuedIsUnheld, vars
<1> QED  BY <1>1, CallsUnchanged

-----------------------------------------------------------------------------
(* Every step keeps the inductive invariant. *)
LEMMA NextInv == IInv /\ [Next]_vars => IInv'
<1> SUFFICES ASSUME IInv, [Next]_vars PROVE IInv'
  OBVIOUS
<1>1. ASSUME NEW r \in Requests, HandleRequest(r) PROVE IInv'
  BY <1>1, UpdatePingInv, UpdateApplyInv, RefetchSameInv, RefetchChangedInv, FetchAgainInv,
     AssignInv, ReplyInv, ReplyFailsInv, ReturnOneInv, MayRunPingInv DEF HandleRequest
<1>2. ASSUME NEW r \in Requests, NEW w \in Workers, NewRequest(r, w) PROVE IInv'
  BY <1>2, UpdateReadInv, ScheduleLockInv, ReturnReadInv, SignOffInv, MayRunCheckInv
     DEF NewRequest
<1>3. ASSUME PusherStep PROVE IInv'
  BY <1>3, PushInv, PushCancelInv, PushMarkInv DEF PusherStep
<1>4. ASSUME CheckerStep PROVE IInv'
  BY <1>4, CheckTasksInv, TimeoutTaskInv, TimeoutWorkerInv, CheckerReturnInv, CheckerFailInv
     DEF CheckerStep
<1>5. ASSUME Surroundings PROVE IInv'
  BY <1>5, DownloadInv, ServerCancelsInv, ExpireInv, WorkerStopsInv, CrashInv DEF Surroundings
<1> QED  BY <1>1, <1>2, <1>3, <1>4, <1>5, StutterInv DEF Next

THEOREM Invariant == Spec => []IInv
BY InitInv, NextInv, PTL DEF Spec

(***************************************************************************)
(* Type correctness, for any number of tasks, workers and requests.        *)
(***************************************************************************)
THEOREM TypeCorrect == Spec => []TypeOK
<1>1. IInv => TypeOK
  BY DEF IInv
<1> QED  BY Invariant, <1>1, PTL

(***************************************************************************)
(* The scheduler never assigns a task it took from the queue while some    *)
(* worker has it, whatever the other goroutines, the Server, the clock and *)
(* crashes of the Manager do meanwhile.                                    *)
(***************************************************************************)
THEOREM FromQueueUnheldAlways == Spec => []FromQueueUnheld
<1>1. IInv => FromQueueUnheld
  BY DEF IInv, ExaminedUnheld, FromQueueUnheld
<1> QED  BY Invariant, <1>1, PTL

-----------------------------------------------------------------------------
(***************************************************************************)
(* That the cache implements TaskLease, for workers that wait for answers  *)
(* and do not go out of touch, and a Server that does not say that a task  *)
(* is active when it is not.                                               *)
(***************************************************************************)
Patient == Env \cap {"overlap", "timeout", "silence"} = {} /\ FromServer \cap Runnable = {}

(* A request that is about a task of its worker. *)
Claims(c, t) ==
    /\ t \in c.tasks
    /\ \/ c.pc \in {"ping", "pong", "return", "reply"}
       \/ c.pc = "apply" /\ c.new # "failed"
       \/ c.pc \in {"refetch", "assign"} /\ c.seen \notin Schedulable

(* A request that is about a task from the queue. *)
Examines(c, t) == t \in c.tasks /\ c.pc \in {"refetch", "assign"} /\ c.seen \in Schedulable

NobodyTimesOut == silent = {} /\ checker = IdleChecker

OneRequestEach ==
    \A r \in Requests :
        /\ call[r].worker = None => call[r].pc = "idle"
        /\ \A q \in Requests \ {r} : call[q].worker # call[r].worker \/ call[r].worker = None

OneTaskEach ==
    \A r \in Requests : call[r].pc \in {"ping", "pong", "refetch", "assign", "reply"} =>
        \A t, u \in call[r].tasks : t = u

HeldByAssignee == \A t \in Tasks : handedTo[t] \in {None, assignee[t]}

ActiveIsRecent == \A t \in Tasks : status[t] = "active" => recent[t]

(* While a request is about its task, a worker keeps it out of the queue. *)
ClaimsHold ==
    \A r \in Requests, t \in Tasks : Claims(call[r], t) =>
        /\ assignee[t] = call[r].worker
        /\ status[t] \notin Schedulable
        /\ call[r].pc = "apply" => recent[t]

(* Nobody else is about the task that the scheduler has taken from the queue. *)
ExaminedIsFree ==
    \A r \in Requests, t \in Tasks : Examines(call[r], t) =>
        /\ status[t] # "active"
        /\ \A q \in Requests : ~Claims(call[q], t)

LeaseInv ==
    /\ Patient
    /\ NobodyTimesOut /\ OneRequestEach /\ OneTaskEach
    /\ HeldByAssignee /\ ActiveIsRecent /\ ClaimsHold /\ ExaminedIsFree

LEMMA LeaseInitially == Patient /\ Init => LeaseInv
BY DEF Init, LeaseInv, NobodyTimesOut, OneRequestEach, OneTaskEach, HeldByAssignee, ActiveIsRecent,
       ClaimsHold, Claims, ExaminedIsFree, Examines, IdleCall

(* Two requests do not claim the same task. *)
LEMMA ClaimedOnce ==
    ASSUME LeaseInv, NEW r \in Requests, NEW q \in Requests \ {r}, NEW t \in Tasks, Claims(call[r], t)
    PROVE  ~Claims(call[q], t)
<1>1. call[r].worker # None
  BY DEF LeaseInv, OneRequestEach, Claims
<1>2. call[q].worker # call[r].worker
  BY <1>1 DEF LeaseInv, OneRequestEach
<1> QED  BY <1>2 DEF LeaseInv, ClaimsHold

(* What is to be shown for a step of one request. *)
LEMMA RequestStep ==
    ASSUME IInv, LeaseInv, NEW r \in Requests, NEW c,
           call' = [call EXCEPT ![r] = c], UNCHANGED <<silent, checker>>,
           c = IdleCall \/ c.worker = call[r].worker \/ \A q \in Requests : call[q].worker # c.worker,
           c.worker = None => c.pc = "idle",
           c.pc \in {"ping", "pong", "refetch", "assign", "reply"} => \A t, u \in c.tasks : t = u,
           HeldByAssignee', ActiveIsRecent',
           \A t \in Tasks : Claims(c, t) =>
               /\ assignee'[t] = c.worker /\ status'[t] \notin Schedulable /\ (c.pc = "apply" => recent'[t])
               /\ \A q \in Requests \ {r} : ~Examines(call[q], t),
           \A t \in Tasks : Examines(c, t) =>
               status'[t] # "active" /\ \A q \in Requests \ {r} : ~Claims(call[q], t),
           \A q \in Requests \ {r}, t \in Tasks : Claims(call[q], t) =>
               assignee'[t] = assignee[t] /\ status'[t] \notin Schedulable /\ (recent[t] => recent'[t]),
           \A q \in Requests \ {r}, t \in Tasks : Examines(call[q], t) => status'[t] # "active"
    PROVE  LeaseInv'
<1>1. call'[r] = c /\ \A q \in Requests \ {r} : call'[q] = call[q]
  BY DEF IInv, TypeOK
<1>2. NobodyTimesOut'
  BY DEF LeaseInv, NobodyTimesOut
<1>3. OneRequestEach' /\ OneTaskEach'
  BY <1>1, IdleCallType DEF LeaseInv, OneRequestEach, OneTaskEach, IdleCall
<1>4. ClaimsHold'
  BY <1>1 DEF LeaseInv, ClaimsHold
<1>5. ExaminedIsFree'
  <2> SUFFICES ASSUME NEW q \in Requests, NEW t \in Tasks, Examines(call'[q], t)
               PROVE  status'[t] # "active" /\ \A p \in Requests : ~Claims(call'[p], t)
    BY DEF ExaminedIsFree
  <2>1. ~Claims(call'[q], t)
    BY DEF Claims, Examines
  <2> QED  BY <1>1, <2>1 DEF LeaseInv, ExaminedIsFree
<1> QED  BY <1>2, <1>3, <1>4, <1>5 DEF LeaseInv, Patient

(* A step of one request that changes no task. *)
LEMMA RequestOnly ==
    ASSUME IInv, LeaseInv, NEW r \in Requests, NEW c,
           call' = [call EXCEPT ![r] = c], UNCHANGED <<status, assignee, recent, handedTo, silent, checker>>,
           c = IdleCall \/ c.worker = call[r].worker \/ \A q \in Requests : call[q].worker # c.worker,
           c.worker = None => c.pc = "idle",
           c.pc \in {"ping", "pong", "refetch", "assign", "reply"} => \A t, u \in c.tasks : t = u,
           \A t \in Tasks : Claims(c, t) =>
               /\ assignee[t] = c.worker /\ status[t] \notin Schedulable /\ (c.pc = "apply" => recent[t])
               /\ \A q \in Requests \ {r} : ~Examines(call[q], t),
           \A t \in Tasks : Examines(c, t) =>
               status[t] # "active" /\ \A q \in Requests \ {r} : ~Claims(call[q], t)
    PROVE  LeaseInv'
<1>1. HeldByAssignee' /\ ActiveIsRecent'
  BY DEF LeaseInv, HeldByAssignee, ActiveIsRecent
<1>2. \A q \in Requests, t \in Tasks : Claims(call[q], t) => status[t] \notin Schedulable
  BY DEF LeaseInv, ClaimsHold
<1>3. \A q \in Requests, t \in Tasks : Examines(call[q], t) => status[t] # "active"
  BY DEF LeaseInv, ExaminedIsFree
<1> QED  BY <1>1, <1>2, <1>3, RequestStep

(* A new request about one task, which is with the worker that sends it. *)
LEMMA NewClaim ==
    ASSUME IInv, LeaseInv, NEW r \in Requests, NEW w \in Workers, MaySend(r, w), NEW c \in Calls,
           call' = [call EXCEPT ![r] = c], UNCHANGED <<status, assignee, recent, handedTo, silent, checker>>,
           c.worker = w, c.pc \in {"ping", "pong", "return"},
           \A t \in c.tasks : assignee[t] = w /\ (handedTo[t] = w \/ status[t] = "active"),
           c.pc # "return" => \A t, u \in c.tasks : t = u
    PROVE  LeaseInv'
<1>1. \A q \in Requests : call[q].worker # w
  BY DEF MaySend, LeaseInv, Patient
<1>2. w # None
  BY NoneAssumption
<1>3. \A t \in c.tasks : t \in Tasks /\ status[t] \in OnWorker /\ (handedTo[t] # None \/ status[t] = "active")
  BY <1>2 DEF Calls, IInv, QueuedIsUnheld, OnWorker
<1>4. \A t \in c.tasks : \A q \in Requests : ~Examines(call[q], t)
  BY <1>3 DEF IInv, ExaminedUnheld, LeaseInv, ExaminedIsFree, Examines
<1>5. \A t \in c.tasks : status[t] \notin Schedulable
  BY <1>3 DEF OnWorker, Schedulable
<1>6. \A t \in Tasks : ~Examines(c, t) /\ (Claims(c, t) => t \in c.tasks) /\ c.pc # "apply"
  BY DEF Examines, Claims
<1>7. c.worker # None /\ c.pc # "idle" /\ (c.pc \in {"ping", "pong", "refetch", "assign", "reply"} => \A t, u \in c.tasks : t = u)
  BY <1>2
<1> QED  BY <1>1, <1>4, <1>5, <1>6, <1>7, RequestOnly

LEMMA UpdateReadLease ==
    ASSUME IInv, LeaseInv, NEW r \in Requests, NEW w \in Workers, NEW t \in Tasks, NEW report \in Reports,
           UpdateRead(r, w, t, report)
    PROVE  LeaseInv'
<1> DEFINE new == IF report = "failed" /\ assignee[t] = None THEN "none" ELSE report
           c == [IdleCall EXCEPT !.pc = "ping", !.worker = w, !.tasks = {t}, !.seen = status[t], !.new = new]
<1>1. call' = [call EXCEPT ![r] = c] /\ UNCHANGED <<taskVars, mutex, pusher, checker, silent>>
  BY DEF UpdateRead
<1>2. c \in Calls
  <2>1. new \in Statuses \cup {"none"} /\ status[t] \in Statuses
    BY ReportsAssumption DEF Statuses, Runnable, Final, IInv, TypeOK
  <2> HIDE DEF new
  <2> QED  BY <2>1, IdleCallType DEF Calls, WorkerOrNone
<1>3. c.pc = "ping" /\ c.worker = w /\ c.tasks = {t}
  BY DEF IdleCall
<1>4. MaySend(r, w) /\ handedTo[t] = w
  BY DEF UpdateRead, MaySendAbout, LeaseInv, Patient
<1>5. assignee[t] = w
  BY <1>4, NoneAssumption DEF LeaseInv, HeldByAssignee
<1> HIDE DEF c
<1> QED  BY <1>1, <1>2, <1>3, <1>4, <1>5, NewClaim DEF taskVars

LEMMA ReturnReadLease ==
    ASSUME IInv, LeaseInv, NEW r \in Requests, NEW w \in Workers, NEW t \in Tasks,
           ReturnRead(r, w, t) \/ MayRunCheck(r, w, t)
    PROVE  LeaseInv'
<1>1. PICK pc \in {"return", "pong"} :
          call' = [call EXCEPT ![r] = [IdleCall EXCEPT !.pc = pc, !.worker = w, !.tasks = {t}]]
  BY DEF ReturnRead, MayRunCheck
<1> DEFINE c == [IdleCall EXCEPT !.pc = pc, !.worker = w, !.tasks = {t}]
<1>2. c \in Calls /\ c.pc = pc /\ c.worker = w /\ c.tasks = {t}
  BY IdleCallType DEF Calls, WorkerOrNone
<1>3. MaySend(r, w) /\ handedTo[t] = w /\ UNCHANGED <<taskVars, checker, silent>>
  BY DEF ReturnRead, MayRunCheck, MaySendAbout, LeaseInv, Patient
<1>4. assignee[t] = w
  BY <1>3, NoneAssumption DEF LeaseInv, HeldByAssignee
<1>5. call' = [call EXCEPT ![r] = c]
  BY <1>1
<1> HIDE DEF c
<1> QED  BY <1>2, <1>3, <1>4, <1>5, NewClaim DEF taskVars

LEMMA SignOffLease ==
    ASSUME IInv, LeaseInv, NEW r \in Requests, NEW w \in Workers, SignOff(r, w)
    PROVE  LeaseInv'
<1> DEFINE c == [IdleCall EXCEPT !.pc = "return", !.worker = w, !.tasks = ActiveTasksOf(w)]
<1>1. call' = [call EXCEPT ![r] = c] /\ MaySend(r, w) /\ UNCHANGED <<taskVars, checker, silent>>
  BY DEF SignOff
<1>2. c \in Calls /\ c.pc = "return" /\ c.worker = w /\ c.tasks = ActiveTasksOf(w)
  BY IdleCallType DEF Calls, WorkerOrNone, ActiveTasksOf
<1>3. \A t \in c.tasks : assignee[t] = w /\ status[t] = "active"
  BY <1>2 DEF ActiveTasksOf, Runnable
<1> HIDE DEF c
<1> QED  BY <1>1, <1>2, <1>3, NewClaim DEF taskVars

(* The scheduler takes a task that is active on the worker, or one from the queue. *)
LEMMA FetchLease ==
    ASSUME IInv, LeaseInv, NEW r \in Requests, NEW w \in Workers, NEW attempt, Fetch(r, w, attempt),
           UNCHANGED <<status, assignee, recent, handedTo, silent, checker>>,
           w = call[r].worker \/ \A q \in Requests : call[q].worker # w,
           \A q \in Requests \ {r} : call[q].pc \notin {"refetch", "assign"}
    PROVE  LeaseInv'
<1>1. PICK t \in Candidates(w) :
          call' = [call EXCEPT ![r] = [IdleCall EXCEPT !.pc = "refetch", !.worker = w, !.tasks = {t},
                                                       !.seen = status[t], !.attempt = attempt]]
  BY DEF Fetch
<1> DEFINE c == [IdleCall EXCEPT !.pc = "refetch", !.worker = w, !.tasks = {t}, !.seen = status[t], !.attempt = attempt]
<1>2. c.pc = "refetch" /\ c.worker = w /\ c.tasks = {t} /\ c.seen = status[t] /\ call' = [call EXCEPT ![r] = c]
  BY <1>1 DEF IdleCall
<1>3. t \in Tasks /\ w # None
  BY NoneAssumption DEF Candidates, ActiveTasksOf
<1>4. status[t] \in Schedulable \/ (status[t] = "active" /\ assignee[t] = w)
  BY DEF Candidates, ActiveTasksOf, Runnable
<1>5. \A q \in Requests, u \in Tasks : Claims(call[q], u) => status[u] \notin Schedulable
  BY DEF LeaseInv, ClaimsHold
<1>6. \A q \in Requests \ {r}, u \in Tasks : ~Examines(call[q], u)
  BY DEF Examines
<1>7. \A u \in Tasks : Claims(c, u) => u = t /\ status[t] \notin Schedulable
  BY <1>2 DEF Claims
<1>8. \A u \in Tasks : Examines(c, u) => u = t /\ status[t] \in Schedulable
  BY <1>2 DEF Examines
<1>9. status[t] \in Schedulable => status[t] # "active"
  BY DEF Schedulable
<1> HIDE DEF c
<1>10. \A u \in Tasks : Claims(c, u) =>
          /\ assignee[u] = c.worker /\ status[u] \notin Schedulable /\ (c.pc = "apply" => recent[u])
          /\ \A q \in Requests \ {r} : ~Examines(call[q], u)
  BY <1>2, <1>4, <1>6, <1>7
<1>11. \A u \in Tasks : Examines(c, u) => status[u] # "active" /\ \A q \in Requests \ {r} : ~Claims(call[q], u)
  BY <1>5, <1>8, <1>9
<1>12. /\ c.worker = None => c.pc = "idle"
       /\ c.worker = call[r].worker \/ \A q \in Requests : call[q].worker # c.worker
       /\ c.pc \in {"ping", "pong", "refetch", "assign", "reply"} => \A u, v \in c.tasks : u = v
  BY <1>2, <1>3
<1>13. call' = [call EXCEPT ![r] = c]
  BY <1>2
<1> QED  BY <1>13, <1>10, <1>11, <1>12, RequestOnly

LEMMA ScheduleLockLease ==
    ASSUME IInv, LeaseInv, NEW r \in Requests, NEW w \in Workers, ScheduleLock(r, w)
    PROVE  LeaseInv'
<1>1. \A q \in Requests : call[q].worker # w
  BY DEF ScheduleLock, MaySend, LeaseInv, Patient
<1>2. \A q \in Requests : call[q].pc \notin {"refetch", "assign"}
  BY NoneAssumption DEF ScheduleLock, IInv, SchedulerLocked
<1> QED  BY <1>1, <1>2, FetchLease DEF ScheduleLock, taskVars

LEMMA FetchAgainLease ==
    ASSUME IInv, LeaseInv, NEW r \in Requests, FetchAgain(r)
    PROVE  LeaseInv'
<1>1. UNCHANGED <<status, assignee, recent, handedTo, silent, checker>> /\ mutex = r
  BY DEF FetchAgain, taskVars, IInv, SchedulerLocked
<1>2. \A q \in Requests \ {r} : call[q].pc \notin {"refetch", "assign"}
  BY <1>1 DEF IInv, SchedulerLocked
<1>3. call[r].worker \in Workers
  BY DEF FetchAgain, LeaseInv, OneRequestEach, IInv, TypeOK, Calls, WorkerOrNone
<1>4. CASE Fetch(r, call[r].worker, call[r].attempt + 1)
  BY <1>1, <1>2, <1>3, <1>4, FetchLease
<1>5. CASE Answer(r)
  BY <1>1, <1>5, RequestOnly, IdleCallType DEF Answer, Claims, Examines
<1> QED  BY <1>4, <1>5 DEF FetchAgain

LEMMA RefetchSameLease ==
    ASSUME IInv, LeaseInv, NEW r \in Requests, RefetchSame(r)
    PROVE  LeaseInv'
<1> DEFINE c == [call[r] EXCEPT !.pc = "assign"]
<1>1. call' = [call EXCEPT ![r] = c] /\ UNCHANGED <<status, assignee, recent, handedTo, silent, checker>>
  BY DEF RefetchSame, taskVars
<1>2. call[r].pc = "refetch" /\ call[r] \in Calls
  BY DEF RefetchSame, IInv, TypeOK
<1>3. c.pc = "assign" /\ c.worker = call[r].worker /\ c.tasks = call[r].tasks /\ c.seen = call[r].seen
  BY <1>2 DEF Calls
<1> HIDE DEF c
<1>4. \A t \in Tasks : (Claims(c, t) <=> Claims(call[r], t)) /\ (Examines(c, t) <=> Examines(call[r], t))
  BY <1>2, <1>3 DEF Claims, Examines
<1>5. call[r].worker # None /\ \A t, u \in c.tasks : t = u
  BY <1>2, <1>3 DEF LeaseInv, OneRequestEach, OneTaskEach
<1>6. \A t \in Tasks, q \in Requests : ~(Claims(call[r], t) /\ Examines(call[q], t))
  BY DEF LeaseInv, ExaminedIsFree
<1> QED  BY <1>1, <1>2, <1>3, <1>4, <1>5, <1>6, RequestOnly DEF LeaseInv, ClaimsHold, ExaminedIsFree

LEMMA ReplyLease ==
    ASSUME IInv, LeaseInv, NEW r \in Requests, Reply(r)
    PROVE  LeaseInv'
BY RequestOnly, IdleCallType DEF Reply, Answer, Claims, Examines, taskVars

(* A task gets another status in a request that is then done with it. *)
LEMMA SetStatusLease ==
    ASSUME IInv, LeaseInv, NEW r \in Requests, NEW t \in call[r].tasks, NEW s, SetStatus(t, s),
           UNCHANGED <<assignee, recent, silent, checker>>,
           s = "active" \/ s \in Schedulable => Claims(call[r], t) \/ (Examines(call[r], t) /\ s # "active"),
           s = "active" => recent[t],
           NEW c, call' = [call EXCEPT ![r] = c],
           c = IdleCall \/ (c.worker = call[r].worker /\ c.worker # None),
           c.pc \in {"idle", "fetch", "apply", "return"},
           \A u \in Tasks : Claims(c, u) => Claims(call[r], u) /\ u # t /\ c.pc = call[r].pc
    PROVE  LeaseInv'
<1>1. t \in Tasks /\ status'[t] = s /\ \A u \in Tasks \ {t} : status'[u] = status[u]
  BY DEF SetStatus, IInv, TypeOK, Calls
<1>2. \A u \in Tasks : handedTo'[u] \in {None, handedTo[u]}
  BY DEF SetStatus, IInv, TypeOK
<1>3. HeldByAssignee' /\ ActiveIsRecent'
  BY <1>1, <1>2 DEF LeaseInv, HeldByAssignee, ActiveIsRecent
<1>4. \A u \in Tasks : ~Examines(c, u)
  BY DEF Examines
<1>5. \A u \in Tasks : Claims(c, u) => \A q \in Requests \ {r} : ~Examines(call[q], u)
  BY DEF LeaseInv, ExaminedIsFree
<1>6. \A u \in Tasks : Claims(c, u) =>
          assignee'[u] = c.worker /\ status'[u] \notin Schedulable /\ (c.pc = "apply" => recent'[u])
  BY <1>1, IdleCallType DEF LeaseInv, ClaimsHold, Claims, IdleCall
<1>7. \A q \in Requests \ {r}, u \in Tasks : Claims(call[q], u) => status'[u] \notin Schedulable
  <2> SUFFICES ASSUME NEW q \in Requests \ {r}, Claims(call[q], t), s \in Schedulable PROVE FALSE
    BY <1>1 DEF LeaseInv, ClaimsHold
  <2>1. ~Claims(call[r], t)
    BY <1>1, ClaimedOnce
  <2> QED  BY <1>1, <2>1 DEF LeaseInv, ExaminedIsFree
<1>8. \A q \in Requests \ {r}, u \in Tasks : Examines(call[q], u) => status'[u] # "active"
  <2> SUFFICES ASSUME NEW q \in Requests \ {r}, Examines(call[q], t), s = "active" PROVE FALSE
    BY <1>1 DEF LeaseInv, ExaminedIsFree
  <2> QED  BY <1>1 DEF LeaseInv, ExaminedIsFree
<1>9. /\ c = IdleCall \/ c.worker = call[r].worker \/ \A q \in Requests : call[q].worker # c.worker
      /\ c.worker = None => c.pc = "idle"
      /\ c.pc \in {"ping", "pong", "refetch", "assign", "reply"} => \A u, v \in c.tasks : u = v
  BY IdleCallType
<1> QED  BY <1>3, <1>4, <1>5, <1>6, <1>7, <1>8, <1>9, RequestStep

(* What remains of a request that is done with a task. *)
LEMMA WithoutTaskClaims ==
    ASSUME NEW c \in Calls, NEW t \in Tasks, c.pc \in {"apply", "return"}, c.worker # None
    PROVE  /\ WithoutTask(c, t) = IdleCall \/ (WithoutTask(c, t).worker = c.worker /\ WithoutTask(c, t).worker # None)
           /\ WithoutTask(c, t).pc \in {"idle", "fetch", "apply", "return"}
           /\ \A u \in Tasks : Claims(WithoutTask(c, t), u) => Claims(c, u) /\ u # t /\ WithoutTask(c, t).pc = c.pc
<1>1. CASE c.tasks = {t}
  BY <1>1, IdleCallType DEF WithoutTask, Claims
<1>2. CASE c.tasks # {t}
  <2> DEFINE d == [c EXCEPT !.tasks = c.tasks \ {t}]
  <2>1. WithoutTask(c, t) = d
    BY <1>2 DEF WithoutTask
  <2>2. d.worker = c.worker /\ d.pc = c.pc /\ d.new = c.new /\ d.tasks = c.tasks \ {t}
    BY DEF Calls
  <2> HIDE DEF d
  <2> QED  BY <2>1, <2>2 DEF Claims
<1> QED  BY <1>1, <1>2

LEMMA UpdateApplyLease ==
    ASSUME IInv, LeaseInv, NEW r \in Requests, UpdateApply(r)
    PROVE  LeaseInv'
<1>1. PICK t \in call[r].tasks :
        /\ QueueTaskUpdate(t, call[r].seen, call[r].new)
        /\ call' = [call EXCEPT ![r] = WithoutTask(call[r], t)]
  BY DEF UpdateApply
<1>2. call[r].pc = "apply" /\ call[r] \in Calls /\ t \in Tasks /\ UNCHANGED <<assignee, recent, silent, checker>>
  BY DEF UpdateApply, IInv, TypeOK, Calls
<1>3. call[r].worker # None
  BY <1>2 DEF LeaseInv, OneRequestEach
<1> DEFINE s == Applied(t, call[r].seen, call[r].new)
           c == WithoutTask(call[r], t)
<1>4. SetStatus(t, s) /\ call' = [call EXCEPT ![r] = c]
  BY <1>1 DEF QueueTaskUpdate
<1>0. /\ c = IdleCall \/ (c.worker = call[r].worker /\ c.worker # None)
      /\ c.pc \in {"idle", "fetch", "apply", "return"}
      /\ \A u \in Tasks : Claims(c, u) => Claims(call[r], u) /\ u # t /\ c.pc = call[r].pc
  BY <1>2, <1>3, WithoutTaskClaims
<1>5. CASE call[r].new = "failed"
  <2>1. s = "failed"
    BY <1>5 DEF Applied, TransitionValid, Final
  <2>2. s # "active" /\ s \notin Schedulable
    BY <2>1 DEF Schedulable
  <2> HIDE DEF s, c
  <2> QED  BY <1>2, <1>4, <1>0, <2>2, SetStatusLease
<1>6. CASE call[r].new # "failed"
  <2>1. Claims(call[r], t)
    BY <1>2, <1>6 DEF Claims
  <2>2. recent[t]
    BY <1>2, <2>1 DEF LeaseInv, ClaimsHold
  <2> HIDE DEF s, c
  <2> QED  BY <1>2, <1>4, <1>0, <2>1, <2>2, SetStatusLease
<1> QED  BY <1>5, <1>6

LEMMA ReturnOneLease ==
    ASSUME IInv, LeaseInv, NEW r \in Requests, ReturnOne(r)
    PROVE  LeaseInv'
<1>1. PICK t \in call[r].tasks :
        /\ QueueTaskUpdate(t, "claimed-by-manager", "claimed-by-manager")
        /\ call' = [call EXCEPT ![r] = WithoutTask(call[r], t)]
  BY DEF ReturnOne, ReturnTask
<1>2. call[r].pc = "return" /\ call[r] \in Calls /\ t \in Tasks /\ UNCHANGED <<assignee, recent, silent, checker>>
  BY DEF ReturnOne, IInv, TypeOK, Calls
<1>3. call[r].worker # None /\ Claims(call[r], t)
  BY <1>2 DEF LeaseInv, OneRequestEach, Claims
<1> DEFINE c == WithoutTask(call[r], t)
<1>4. SetStatus(t, "claimed-by-manager") /\ call' = [call EXCEPT ![r] = c]
  BY <1>1 DEF QueueTaskUpdate, Applied, TransitionValid
<1>5. /\ c = IdleCall \/ (c.worker = call[r].worker /\ c.worker # None)
      /\ c.pc \in {"idle", "fetch", "apply", "return"}
      /\ \A u \in Tasks : Claims(c, u) => Claims(call[r], u) /\ u # t /\ c.pc = call[r].pc
  BY <1>2, <1>3, WithoutTaskClaims
<1> HIDE DEF c
<1> QED  BY <1>2, <1>3, <1>4, <1>5, SetStatusLease

LEMMA ReplyFailsLease ==
    ASSUME IInv, LeaseInv, NEW r \in Requests, ReplyFails(r)
    PROVE  LeaseInv'
<1>1. PICK t \in call[r].tasks : SetStatus(t, "claimed-by-manager")
  BY DEF ReplyFails, QueueTaskUpdate, Applied, TransitionValid
<1>2. call' = [call EXCEPT ![r] = IdleCall] /\ Claims(call[r], t) /\ UNCHANGED <<assignee, recent, silent, checker>>
  BY DEF ReplyFails, Answer, Claims
<1>3. \A u \in Tasks : ~Claims(IdleCall, u)
  BY IdleCallType DEF Claims
<1> QED  BY <1>1, <1>2, <1>3, IdleCallType, SetStatusLease

LEMMA RefetchChangedLease ==
    ASSUME IInv, LeaseInv, NEW r \in Requests, NEW s \in FromServer, RefetchChanged(r, s)
    PROVE  LeaseInv'
<1> DEFINE c == [call[r] EXCEPT !.pc = "fetch"]
<1>1. PICK t \in call[r].tasks : SetStatus(t, s)
  BY DEF RefetchChanged
<1>2. call' = [call EXCEPT ![r] = c] /\ call[r].pc = "refetch" /\ UNCHANGED <<assignee, recent, silent, checker>>
  BY DEF RefetchChanged
<1>3. c.pc = "fetch" /\ c.worker = call[r].worker /\ call[r].worker # None
  BY <1>2 DEF IInv, TypeOK, Calls, LeaseInv, OneRequestEach
<1>4. Claims(call[r], t) \/ Examines(call[r], t)
  BY <1>2 DEF Claims, Examines
<1>5. s # "active"
  BY DEF LeaseInv, Patient, Runnable
<1> HIDE DEF c
<1>6. \A u \in Tasks : ~Claims(c, u)
  BY <1>3 DEF Claims
<1> QED  BY <1>1, <1>2, <1>3, <1>4, <1>5, <1>6, SetStatusLease

(* A ping says that the worker that has a task is still on it. *)
LEMMA PingedTask ==
    ASSUME IInv, LeaseInv, NEW r \in Requests, call[r].pc \in {"ping", "pong"}, NEW t \in call[r].tasks,
           assignee' = [assignee EXCEPT ![t] = call[r].worker], recent' = [recent EXCEPT ![t] = TRUE]
    PROVE  /\ t \in Tasks /\ Claims(call[r], t)
           /\ assignee' = assignee
           /\ \A u \in Tasks : recent[u] => recent'[u]
           /\ recent'[t] /\ status[t] \notin Schedulable
<1>1. t \in Tasks /\ Claims(call[r], t)
  BY DEF IInv, TypeOK, Calls, Claims
<1>2. assignee[t] = call[r].worker /\ status[t] \notin Schedulable
  BY <1>1 DEF LeaseInv, ClaimsHold
<1> QED  BY <1>1, <1>2 DEF IInv, TypeOK

LEMMA UpdatePingLease ==
    ASSUME IInv, LeaseInv, NEW r \in Requests, UpdatePing(r)
    PROVE  LeaseInv'
<1>1. PICK t \in call[r].tasks :
        /\ assignee' = [assignee EXCEPT ![t] = call[r].worker]
        /\ recent' = [recent EXCEPT ![t] = TRUE]
        /\ \/ call' = [call EXCEPT ![r] = IdleCall]
           \/ call[r].new # "failed" /\ call' = [call EXCEPT ![r].pc = "apply"]
           \/ call' = [call EXCEPT ![r].pc = "apply", ![r].new = "soft-failed"]
           \/ /\ call[r].new = "failed"
              /\ \E others \in SUBSET Tasks : call' = [call EXCEPT ![r].pc = "apply", ![r].tasks = others \cup {t}]
  BY DEF UpdatePing, Answer
<1>2. call[r].pc = "ping" /\ call[r] \in Calls /\ UNCHANGED <<status, handedTo, silent, checker>>
  BY DEF UpdatePing, IInv, TypeOK
<1>3. /\ t \in Tasks /\ Claims(call[r], t) /\ assignee' = assignee /\ recent'[t]
      /\ \A u \in Tasks : recent[u] => recent'[u]
  BY <1>1, <1>2, PingedTask
<1>4. call[r].worker # None /\ call[r].tasks = {t}
  BY <1>2 DEF LeaseInv, OneRequestEach, OneTaskEach
<1>5. PICK c : /\ call' = [call EXCEPT ![r] = c]
               /\ c = IdleCall \/ (c.worker = call[r].worker /\ c.pc = "apply" /\ (c.tasks = {t} \/ c.new = "failed"))
  <2>1. CASE call' = [call EXCEPT ![r] = IdleCall]
    BY <2>1
  <2>2. CASE call' = [call EXCEPT ![r].pc = "apply"]
    <3> WITNESS [call[r] EXCEPT !.pc = "apply"]
    <3> QED  BY <2>2, <1>2, <1>4 DEF Calls
  <2>3. CASE call' = [call EXCEPT ![r].pc = "apply", ![r].new = "soft-failed"]
    <3> WITNESS [call[r] EXCEPT !.pc = "apply", !.new = "soft-failed"]
    <3> QED  BY <2>3, <1>2, <1>4 DEF Calls
  <2>4. ASSUME call[r].new = "failed", NEW others \in SUBSET Tasks,
               call' = [call EXCEPT ![r].pc = "apply", ![r].tasks = others \cup {t}]
        PROVE  \E c : /\ call' = [call EXCEPT ![r] = c]
                      /\ c = IdleCall \/ (c.worker = call[r].worker /\ c.pc = "apply" /\ (c.tasks = {t} \/ c.new = "failed"))
    <3> WITNESS [call[r] EXCEPT !.pc = "apply", !.tasks = others \cup {t}]
    <3> QED  BY <2>4, <1>2, <1>4 DEF Calls
  <2> QED  BY <1>1, <2>1, <2>2, <2>3, <2>4
<1>6. \A u \in Tasks : ~Examines(c, u) /\ (Claims(c, u) => u = t)
  BY <1>5, IdleCallType DEF Examines, Claims
<1>7. HeldByAssignee' /\ ActiveIsRecent'
  BY <1>2, <1>3 DEF LeaseInv, HeldByAssignee, ActiveIsRecent
<1>8. Claims(c, t) => c.worker = call[r].worker
  BY <1>5, IdleCallType DEF Claims
<1>9. \A u \in Tasks : Claims(c, u) =>
          /\ assignee'[u] = c.worker /\ status'[u] \notin Schedulable /\ (c.pc = "apply" => recent'[u])
          /\ \A q \in Requests \ {r} : ~Examines(call[q], u)
  BY <1>2, <1>3, <1>6, <1>8 DEF LeaseInv, ClaimsHold, ExaminedIsFree
<1>10. \A q \in Requests \ {r}, u \in Tasks : Claims(call[q], u) =>
          assignee'[u] = assignee[u] /\ status'[u] \notin Schedulable /\ (recent[u] => recent'[u])
  BY <1>2, <1>3 DEF LeaseInv, ClaimsHold
<1>11. \A q \in Requests \ {r}, u \in Tasks : Examines(call[q], u) => status'[u] # "active"
  BY <1>2 DEF LeaseInv, ExaminedIsFree
<1>12. /\ c = IdleCall \/ c.worker = call[r].worker \/ \A q \in Requests : call[q].worker # c.worker
       /\ c.worker = None => c.pc = "idle"
       /\ c.pc \in {"ping", "pong", "refetch", "assign", "reply"} => \A u, v \in c.tasks : u = v
  BY <1>4, <1>5, IdleCallType
<1>13. call' = [call EXCEPT ![r] = c] /\ UNCHANGED <<silent, checker>>
  BY <1>2, <1>5
<1> HIDE DEF Claims, Examines
<1> QED  BY <1>6, <1>7, <1>9, <1>10, <1>11, <1>12, <1>13, RequestStep

LEMMA MayRunPingLease ==
    ASSUME IInv, LeaseInv, NEW r \in Requests, MayRunPing(r)
    PROVE  LeaseInv'
<1>1. PICK t \in call[r].tasks :
        assignee' = [assignee EXCEPT ![t] = call[r].worker] /\ recent' = [recent EXCEPT ![t] = TRUE]
  BY DEF MayRunPing
<1>2. call[r].pc = "pong" /\ call' = [call EXCEPT ![r] = IdleCall] /\ UNCHANGED <<status, handedTo, silent, checker>>
  BY DEF MayRunPing, Answer
<1>3. assignee' = assignee /\ \A u \in Tasks : recent[u] => recent'[u]
  BY <1>1, <1>2, PingedTask
<1>4. HeldByAssignee' /\ ActiveIsRecent'
  BY <1>2, <1>3 DEF LeaseInv, HeldByAssignee, ActiveIsRecent
<1>5. \A u \in Tasks : ~Claims(IdleCall, u) /\ ~Examines(IdleCall, u)
  BY IdleCallType DEF Claims, Examines
<1>6. \A q \in Requests \ {r}, u \in Tasks : Claims(call[q], u) =>
          assignee'[u] = assignee[u] /\ status'[u] \notin Schedulable /\ (recent[u] => recent'[u])
  BY <1>2, <1>3 DEF LeaseInv, ClaimsHold
<1>7. \A q \in Requests \ {r}, u \in Tasks : Examines(call[q], u) => status'[u] # "active"
  BY <1>2 DEF LeaseInv, ExaminedIsFree
<1>8. IdleCall.worker = None /\ IdleCall.pc = "idle"
  BY DEF IdleCall
<1>9. UNCHANGED <<silent, checker>>
  BY <1>2
<1> HIDE DEF Claims, Examines
<1> QED  BY <1>2, <1>4, <1>5, <1>6, <1>7, <1>8, <1>9, RequestStep

LEMMA AssignLease ==
    ASSUME IInv, LeaseInv, NEW r \in Requests, Assign(r)
    PROVE  LeaseInv'
<1> DEFINE c == [call[r] EXCEPT !.pc = "reply"]
<1>1. PICK t \in call[r].tasks :
        /\ status' = [status EXCEPT ![t] = "active"]
        /\ assignee' = [assignee EXCEPT ![t] = call[r].worker]
        /\ recent' = [recent EXCEPT ![t] = TRUE]
        /\ handedTo' = [handedTo EXCEPT ![t] = call[r].worker]
  BY DEF Assign
<1>2. /\ call[r].pc = "assign" /\ call[r] \in Calls /\ t \in Tasks
      /\ call' = [call EXCEPT ![r] = c] /\ UNCHANGED <<silent, checker>>
  BY DEF Assign, IInv, TypeOK, Calls
<1>3. call[r].worker # None /\ call[r].tasks = {t}
  BY <1>2 DEF LeaseInv, OneRequestEach, OneTaskEach
<1>4. c.pc = "reply" /\ c.worker = call[r].worker /\ c.tasks = {t}
  BY <1>2, <1>3 DEF Calls
<1> HIDE DEF c
<1>5. \A q \in Requests \ {r} : ~Claims(call[q], t)
  BY <1>2, <1>3, ClaimedOnce DEF Claims, Examines, LeaseInv, ExaminedIsFree
<1>6. \A q \in Requests \ {r}, u \in Tasks : ~Examines(call[q], u)
  BY <1>2 DEF IInv, SchedulerLocked, Examines
<1>7. /\ status'[t] = "active" /\ assignee'[t] = call[r].worker /\ recent'[t] /\ handedTo'[t] = call[r].worker
      /\ \A u \in Tasks \ {t} : status'[u] = status[u] /\ assignee'[u] = assignee[u] /\ recent'[u] = recent[u]
                                /\ handedTo'[u] = handedTo[u]
  BY <1>1, <1>2 DEF IInv, TypeOK
<1>8. HeldByAssignee' /\ ActiveIsRecent'
  BY <1>7 DEF LeaseInv, HeldByAssignee, ActiveIsRecent
<1>9. \A u \in Tasks : ~Examines(c, u) /\ (Claims(c, u) => u = t)
  BY <1>4 DEF Examines, Claims
<1>10. "active" \notin Schedulable
  BY DEF Schedulable
<1>11. \A q \in Requests \ {r}, u \in Tasks : Claims(call[q], u) =>
          assignee'[u] = assignee[u] /\ status'[u] \notin Schedulable /\ (recent[u] => recent'[u])
  BY <1>5, <1>7 DEF LeaseInv, ClaimsHold
<1>12. \A u \in Tasks : Claims(c, u) =>
          /\ assignee'[u] = c.worker /\ status'[u] \notin Schedulable /\ (c.pc = "apply" => recent'[u])
          /\ \A q \in Requests \ {r} : ~Examines(call[q], u)
  BY <1>4, <1>6, <1>7, <1>9, <1>10
<1>13. c.worker = call[r].worker /\ c.worker # None /\ \A u, v \in c.tasks : u = v
  BY <1>3, <1>4
<1> QED  BY <1>2, <1>6, <1>8, <1>9, <1>11, <1>12, <1>13, RequestStep

(* A step of the surroundings or of the pusher keeps the requests. *)
LEMMA RequestsKept ==
    ASSUME IInv, LeaseInv, UNCHANGED <<call, silent, checker>>,
           \A t \in Tasks :
               /\ handedTo'[t] \in {None, assignee'[t]}
               /\ status'[t] = "active" => status[t] = "active" /\ recent'[t]
               /\ (\E r \in Requests : Claims(call[r], t)) =>
                     assignee'[t] = assignee[t] /\ recent'[t] = recent[t] /\ status'[t] \notin Schedulable
    PROVE  LeaseInv'
<1>1. NobodyTimesOut' /\ OneRequestEach' /\ OneTaskEach'
  BY DEF LeaseInv, NobodyTimesOut, OneRequestEach, OneTaskEach
<1>2. HeldByAssignee' /\ ActiveIsRecent'
  BY DEF HeldByAssignee, ActiveIsRecent
<1>3. ClaimsHold'
  BY DEF LeaseInv, ClaimsHold, Claims
<1>4. ExaminedIsFree'
  BY DEF LeaseInv, ExaminedIsFree, Examines, Claims
<1> QED  BY <1>1, <1>2, <1>3, <1>4 DEF LeaseInv, Patient

(* What the pusher does to a task takes it off its worker, if it changes it at all. *)
LEMMA PusherLease ==
    ASSUME IInv, LeaseInv, PusherStep
    PROVE  LeaseInv'
<1>1. UNCHANGED <<assignee, recent, call, silent, checker>>
  BY DEF PusherStep, Push, PushCancel, PushMark
<1>2. \A t \in Tasks : handedTo'[t] \in {None, handedTo[t]}
  BY DEF PusherStep, Push, PushCancel, PushMark, QueueTaskUpdate, SetStatus, IInv, TypeOK
<1>3. \A t \in Tasks : status'[t] \in {status[t], "canceled", "cancel-requested"}
  BY DEF PusherStep, Push, PushCancel, PushMark, QueueTaskUpdate, SetStatus, Applied, TransitionValid,
         Final, IInv, TypeOK
<1>4. \A t \in Tasks : status'[t] = "active" => status[t] = "active" /\ recent'[t]
  BY <1>1, <1>3 DEF LeaseInv, ActiveIsRecent
<1>5. \A t \in Tasks : handedTo'[t] \in {None, assignee'[t]}
  BY <1>1, <1>2 DEF LeaseInv, HeldByAssignee
<1>6. \A t \in Tasks : (\E r \in Requests : Claims(call[r], t)) => status'[t] \notin Schedulable
  BY <1>3 DEF LeaseInv, ClaimsHold, Schedulable
<1> QED  BY <1>1, <1>4, <1>5, <1>6, RequestsKept

(* A task that the Server re-queues is in no request. *)
LEMMA DownloadLease ==
    ASSUME IInv, LeaseInv, NEW t \in Tasks, Download(t)
    PROVE  LeaseInv'
<1>1. \A r \in Requests : ~Claims(call[r], t)
  BY DEF Download, LeaseInv, Patient, Claims
<1>2. UNCHANGED <<call, silent, checker>>
  BY DEF Download
<1>3. status'[t] = "queued" /\ handedTo'[t] = None
  BY DEF Download, SetStatus, OnWorker, IInv, TypeOK
<1>4. \A u \in Tasks \ {t} : /\ status'[u] = status[u] /\ assignee'[u] = assignee[u]
                             /\ recent'[u] = recent[u] /\ handedTo'[u] = handedTo[u]
  BY DEF Download, SetStatus, IInv, TypeOK
<1> QED  BY <1>1, <1>2, <1>3, <1>4, RequestsKept DEF LeaseInv, HeldByAssignee, ActiveIsRecent, ClaimsHold

LEMMA ServerCancelsLease ==
    ASSUME IInv, LeaseInv, NEW t \in Tasks, ServerCancels(t)
    PROVE  LeaseInv'
BY RequestsKept DEF ServerCancels, LeaseInv, HeldByAssignee, ActiveIsRecent, ClaimsHold

(* Nobody is out of touch, so nothing times out. *)
LEMMA NothingTimesOut ==
    ASSUME IInv, LeaseInv
    PROVE  /\ ~CheckerStep
           /\ \A t \in Tasks : ~Expire(t)
           /\ \A w \in Workers : ~WorkerStops(w)
<1>1. silent = {} /\ checker = IdleChecker /\ "timeout" \notin Env /\ "silence" \notin Env
  BY DEF LeaseInv, NobodyTimesOut, Patient
<1>2. \A t \in Tasks : status[t] \in Runnable => recent[t]
  BY DEF LeaseInv, ActiveIsRecent, Runnable
<1>3. ~CheckerStep
  BY <1>1, <1>2, NoneAssumption DEF CheckerStep, CheckTasks, TimeoutTask, TimeoutWorker, CheckerReturn,
     CheckerFail, IdleChecker
<1> QED  BY <1>1, <1>3 DEF Expire, WorkerStops

LEMMA CrashLease ==
    ASSUME IInv, LeaseInv, Crash
    PROVE  LeaseInv'
<1>1. \A r \in Requests : call'[r] = IdleCall
  BY DEF Crash
<1>2. UNCHANGED <<status, assignee, recent, handedTo, silent>> /\ checker' = IdleChecker
  BY DEF Crash, taskVars
<1> QED  BY <1>1, <1>2, IdleCallType DEF LeaseInv, Patient, NobodyTimesOut, OneRequestEach, OneTaskEach, IdleCall,
            HeldByAssignee, ActiveIsRecent, ClaimsHold, Claims, ExaminedIsFree, Examines

LEMMA LeaseStutter == ASSUME IInv, LeaseInv, UNCHANGED vars PROVE LeaseInv'
BY RequestsKept DEF vars, LeaseInv, HeldByAssignee, ActiveIsRecent, ClaimsHold

LEMMA LeaseNext == IInv /\ LeaseInv /\ [Next]_vars => LeaseInv'
<1> SUFFICES ASSUME IInv, LeaseInv, [Next]_vars PROVE LeaseInv'
  OBVIOUS
<1>1. ASSUME NEW r \in Requests, HandleRequest(r) PROVE LeaseInv'
  BY <1>1, UpdatePingLease, UpdateApplyLease, RefetchSameLease, RefetchChangedLease, FetchAgainLease,
     AssignLease, ReplyLease, ReplyFailsLease, ReturnOneLease, MayRunPingLease DEF HandleRequest
<1>2. ASSUME NEW r \in Requests, NEW w \in Workers, NewRequest(r, w) PROVE LeaseInv'
  BY <1>2, UpdateReadLease, ScheduleLockLease, ReturnReadLease, SignOffLease DEF NewRequest
<1>3. ASSUME Surroundings PROVE LeaseInv'
  BY <1>3, DownloadLease, ServerCancelsLease, NothingTimesOut, CrashLease DEF Surroundings
<1> QED  BY <1>1, <1>2, <1>3, PusherLease, NothingTimesOut, LeaseStutter DEF Next

-----------------------------------------------------------------------------
(* A step of the cache is a step of TaskLease, or stutters. *)
Holder == [t \in Tasks |-> IF status[t] \in Runnable THEN assignee[t] ELSE None]

(* Steps that at most take tasks back. *)
LEMMA TakesBack ==
    ASSUME \A t \in Tasks : Holder'[t] \in {None, Holder[t]}
    PROVE  [Lease!Next]_Holder
<1> DEFINE ts == {t \in Tasks : Holder'[t] # Holder[t]}
<1>1. \A t \in ts : Holder[t] # None
  OBVIOUS
<1>2. Holder' = [t \in Tasks |-> IF t \in ts THEN None ELSE Holder[t]]
  <2>1. \A t \in Tasks : Holder'[t] = IF t \in ts THEN None ELSE Holder[t]
    OBVIOUS
  <2>2. Holder' = [t \in Tasks |-> Holder'[t]]
    BY DEF Holder
  <2> HIDE DEF ts, Holder
  <2> QED  BY <2>1, <2>2
<1>3. ts \in SUBSET Tasks
  OBVIOUS
<1> HIDE DEF ts
<1>4. Lease!Next
  BY <1>1, <1>2, <1>3, Zenon DEF Lease!Next, Lease!TakeBackAll, Holder
<1> QED  BY <1>4

(* Steps that change the holder of one task, which nobody has or nobody gets. *)
LEMMA GivesOrTakesBack ==
    ASSUME NEW t \in Tasks, \A u \in Tasks \ {t} : Holder'[u] = Holder[u],
           Holder'[t] \in WorkerOrNone, Holder[t] = None \/ Holder'[t] \in {None, Holder[t]}
    PROVE  [Lease!Next]_Holder
<1>1. CASE \A u \in Tasks : Holder'[u] \in {None, Holder[u]}
  BY <1>1, TakesBack
<1>2. CASE Holder[t] = None /\ Holder'[t] \in Workers
  <2>1. Holder' = [u \in Tasks |-> Holder'[u]] /\ Holder = [u \in Tasks |-> Holder[u]]
    BY DEF Holder
  <2> DEFINE w == Holder'[t]
  <2>2. w \in Workers
    BY <1>2
  <2>3. Holder' = [Holder EXCEPT ![t] = w]
    <3> HIDE DEF Holder
    <3> QED  BY <2>1
  <2> HIDE DEF w
  <2>4. Lease!Next
    BY <1>2, <2>2, <2>3, Zenon DEF Lease!Next, Lease!Give, Holder
  <2> QED  BY <2>4
<1> QED  BY <1>1, <1>2 DEF WorkerOrNone

LEMMA LeaseStep ==
    ASSUME IInv, LeaseInv, [Next]_vars
    PROVE  [Lease!Next]_Holder
<1>1. ASSUME UNCHANGED <<status, assignee>> PROVE [Lease!Next]_Holder
  BY <1>1 DEF Holder
<1>2. ASSUME NEW t \in Tasks, NEW s, SetStatus(t, s), UNCHANGED assignee, s # "active" PROVE [Lease!Next]_Holder
  <2>1. \A u \in Tasks : Holder'[u] \in {None, Holder[u]}
    BY <1>2 DEF Holder, Runnable, SetStatus, IInv, TypeOK
  <2> QED  BY <2>1, TakesBack
<1>3. ASSUME NEW r \in Requests, UpdatePing(r) \/ MayRunPing(r) PROVE [Lease!Next]_Holder
  <2>1. call[r].pc \in {"ping", "pong"} /\ UNCHANGED status
    BY <1>3 DEF UpdatePing, MayRunPing
  <2>2. \E t \in call[r].tasks :
            assignee' = [assignee EXCEPT ![t] = call[r].worker] /\ recent' = [recent EXCEPT ![t] = TRUE]
    BY <1>3 DEF UpdatePing, MayRunPing
  <2> QED  BY <1>1, <2>1, <2>2, PingedTask
<1>4. ASSUME NEW r \in Requests, UpdateApply(r) PROVE [Lease!Next]_Holder
  <2>1. PICK t \in call[r].tasks : QueueTaskUpdate(t, call[r].seen, call[r].new)
    BY <1>4 DEF UpdateApply
  <2>2. t \in Tasks /\ UNCHANGED assignee
    BY <1>4 DEF UpdateApply, IInv, TypeOK, Calls
  <2>3. \A u \in Tasks \ {t} : Holder'[u] = Holder[u]
    BY <2>1, <2>2 DEF Holder, QueueTaskUpdate, SetStatus, IInv, TypeOK
  <2>4. Holder'[t] \in WorkerOrNone /\ (Holder[t] = None \/ Holder'[t] \in {None, Holder[t]})
    BY <2>2 DEF Holder, IInv, TypeOK, WorkerOrNone
  <2> QED  BY <2>2, <2>3, <2>4, GivesOrTakesBack
<1>5. ASSUME NEW r \in Requests, Assign(r) PROVE [Lease!Next]_Holder
  <2>1. PICK t \in call[r].tasks :
            status' = [status EXCEPT ![t] = "active"] /\ assignee' = [assignee EXCEPT ![t] = call[r].worker]
    BY <1>5 DEF Assign
  <2>2. t \in Tasks /\ call[r].pc = "assign" /\ call[r].worker \in WorkerOrNone
    BY <1>5 DEF Assign, IInv, TypeOK, Calls
  <2>3. Claims(call[r], t) \/ Examines(call[r], t)
    BY <2>2 DEF Claims, Examines
  <2>4. status[t] = "active" => assignee[t] = call[r].worker
    BY <2>2, <2>3 DEF LeaseInv, ClaimsHold, ExaminedIsFree
  <2>5. \A u \in Tasks \ {t} : Holder'[u] = Holder[u]
    BY <2>1 DEF Holder, IInv, TypeOK
  <2>6. Holder'[t] = call[r].worker /\ Holder[t] \in {None, call[r].worker}
    BY <2>1, <2>2, <2>4 DEF Holder, Runnable, IInv, TypeOK
  <2> QED  BY <2>2, <2>5, <2>6, GivesOrTakesBack
<1>6. ASSUME NEW r \in Requests, HandleRequest(r) PROVE [Lease!Next]_Holder
  <2>1. CASE ReturnOne(r) \/ ReplyFails(r)
    <3>1. PICK t \in call[r].tasks : SetStatus(t, "claimed-by-manager")
      BY <2>1 DEF ReturnOne, ReturnTask, ReplyFails, QueueTaskUpdate, Applied, TransitionValid
    <3>2. t \in Tasks /\ UNCHANGED assignee
      BY <2>1 DEF ReturnOne, ReplyFails, IInv, TypeOK, Calls
    <3> QED  BY <1>2, <3>1, <3>2
  <2>2. ASSUME NEW s \in FromServer, RefetchChanged(r, s) PROVE [Lease!Next]_Holder
    <3>1. s # "active"
      BY DEF LeaseInv, Patient, Runnable
    <3>2. PICK t \in call[r].tasks : SetStatus(t, s)
      BY <2>2 DEF RefetchChanged
    <3>3. t \in Tasks /\ UNCHANGED assignee
      BY <2>2 DEF RefetchChanged, IInv, TypeOK, Calls
    <3> QED  BY <1>2, <3>1, <3>2, <3>3
  <2>3. CASE RefetchSame(r) \/ FetchAgain(r) \/ Reply(r)
    BY <1>1, <2>3 DEF RefetchSame, FetchAgain, Reply, taskVars
  <2> QED  BY <1>3, <1>4, <1>5, <1>6, <2>1, <2>2, <2>3 DEF HandleRequest
<1>7. ASSUME NEW r \in Requests, NEW w \in Workers, NewRequest(r, w) PROVE [Lease!Next]_Holder
  BY <1>1, <1>7 DEF NewRequest, ScheduleLock, SignOff, UpdateRead, ReturnRead, MayRunCheck, taskVars
<1>8. ASSUME PusherStep PROVE [Lease!Next]_Holder
  <2>1. CASE Push
    BY <1>1, <2>1 DEF Push
  <2>2. CASE PushCancel
    <3>1. PICK t \in pusher.cancel : SetStatus(t, "canceled")
      BY <2>2 DEF PushCancel, QueueTaskUpdate, Applied, TransitionValid, Final
    <3>2. t \in Tasks /\ UNCHANGED assignee
      BY <2>2 DEF PushCancel, IInv, TypeOK, Pushers
    <3> QED  BY <1>2, <3>1, <3>2
  <2>3. CASE PushMark
    <3>1. \A t \in Tasks : Holder'[t] \in {None, Holder[t]}
      BY <2>3 DEF PushMark, Holder, Runnable
    <3> QED  BY <3>1, TakesBack
  <2> QED  BY <1>8, <2>1, <2>2, <2>3 DEF PusherStep
<1>9. ASSUME Surroundings PROVE [Lease!Next]_Holder
  <2>1. ASSUME NEW t \in Tasks, Download(t) PROVE [Lease!Next]_Holder
    <3>1. \A u \in Tasks : Holder'[u] \in {None, Holder[u]}
      BY <2>1 DEF Download, SetStatus, Holder, Runnable, IInv, TypeOK
    <3> QED  BY <3>1, TakesBack
  <2>2. ASSUME NEW t \in Tasks, ServerCancels(t) PROVE [Lease!Next]_Holder
    BY <1>1, <2>2 DEF ServerCancels
  <2>3. CASE Crash
    BY <1>1, <2>3 DEF Crash, taskVars
  <2> QED  BY <1>9, <2>1, <2>2, <2>3, NothingTimesOut DEF Surroundings
<1>10. CASE UNCHANGED vars
  BY <1>1, <1>10 DEF vars
<1> QED  BY <1>6, <1>7, <1>8, <1>9, <1>10, NothingTimesOut DEF Next

(***************************************************************************)
(* While workers wait for the answer to each request, report only on the   *)
(* task they were given and stay in touch, an active task is taken off its *)
(* worker before another one gets it, whatever else the Server, crashes of *)
(* the Manager and failing answers do: the cache implements TaskLease.     *)
(***************************************************************************)
THEOREM ImplementsLease == Patient /\ Spec => LeaseSpec
<1>1. Init => Lease!Init
  BY NoneAssumption DEF Init, Lease!Init, Runnable
<1>2. IInv /\ LeaseInv /\ [Next]_vars => [Lease!Next]_Holder
  BY LeaseStep
<1>3. Patient /\ Init => LeaseInv
  BY LeaseInitially
<1>4. IInv /\ LeaseInv /\ [Next]_vars => LeaseInv'
  BY LeaseNext
<1> QED  BY <1>1, <1>2, <1>3, <1>4, Invariant, PTL DEF Spec, LeaseSpec, Lease!Spec, Holder
=============================================================================
