---------------------------- MODULE SoftFailProofs ----------------------------
(***************************************************************************)
(* Theorems about SoftFail, for any number of tasks, workers and reports   *)
(* and any limits: types, whatever the surroundings do; and that tasks are *)
(* hard-failed for a reason only, and retried as often as the limit says.  *)
(***************************************************************************)
EXTENDS SoftFail, FiniteSetTheorems, TLAPS

-----------------------------------------------------------------------------
(* Types. *)

LEMMA CallsAreTyped ==
    ASSUME TypeOK, NEW r \in Requests
    PROVE  /\ call[r] \in Calls /\ IdleCall \in Calls
           /\ call[r].pc # "idle" => call[r].worker \in Workers /\ call[r].task \in Tasks
BY NoneAssumption DEF TypeOK, Calls, IdleCall

(* The handler of a report goes on, with what it has read by now. *)
LEMMA CallTyped ==
    ASSUME TypeOK, NEW r \in Requests, NEW c \in Calls, call' = [call EXCEPT ![r] = c],
           c.pc # "idle" => c.worker # None /\ c.task # None,
           c.found # {} => c.pc = "sweep"
    PROVE  /\ call' \in [Requests -> Calls]
           /\ \A q \in Requests :
               /\ call'[q].pc # "idle" => call'[q].worker # None /\ call'[q].task # None
               /\ call'[q].found # {} => call'[q].pc = "sweep"
BY DEF TypeOK

(* What a step of a report being handled, that is not its last, makes of it. *)
Goes(r, c) ==
    /\ call[r].pc # "idle" /\ c.pc # "idle"
    /\ c \in Calls /\ call' = [call EXCEPT ![r] = c]
    /\ c.worker = call[r].worker /\ c.task = call[r].task /\ c.seen = call[r].seen
    /\ c.found # {} => c.pc = "sweep"

LEMMA GoesTyped ==
    ASSUME TypeOK, NEW r \in Requests, NEW c, Goes(r, c)
    PROVE  /\ call' \in [Requests -> Calls]
           /\ \A q \in Requests :
               /\ call'[q].pc # "idle" => call'[q].worker # None /\ call'[q].task # None
               /\ call'[q].found # {} => call'[q].pc = "sweep"
BY CallsAreTyped, CallTyped, NoneAssumption DEF Goes

LEMMA ReadBlacklistGoes ==
    ASSUME TypeOK, NEW r \in Requests, ReadBlacklist(r)
    PROVE  \E c : Goes(r, c) /\ c.pc = "workers" /\ c.left = Workers \ blacklist /\ c.found = {}
<1> DEFINE c == [call[r] EXCEPT !.pc = "workers", !.left = Workers \ blacklist]
<1>1. call[r] \in Calls /\ call[r].found = {} /\ call[r].pc # "idle" /\ call' = [call EXCEPT ![r] = c]
  BY CallsAreTyped DEF ReadBlacklist, TypeOK
<1>2. /\ c \in Calls /\ c.pc = "workers" /\ c.left = Workers \ blacklist /\ c.found = call[r].found
      /\ c.worker = call[r].worker /\ c.task = call[r].task /\ c.seen = call[r].seen
  BY <1>1 DEF Calls
<1> HIDE DEF c
<1> QED  BY <1>1, <1>2 DEF Goes

LEMMA ReadWorkersGoes ==
    ASSUME TypeOK, NEW r \in Requests, ReadWorkers(r)
    PROVE  \E c : Goes(r, c) /\ c.pc = "count" /\ c.left = (call[r].left \cap registered) \ {call[r].worker} /\ c.found = {}
<1> DEFINE left == (call[r].left \cap registered) \ {call[r].worker}
           c == [call[r] EXCEPT !.pc = "count", !.left = left]
<1>1. call[r] \in Calls /\ call[r].found = {} /\ call[r].pc # "idle" /\ call' = [call EXCEPT ![r] = c] /\ left \subseteq Workers
  BY CallsAreTyped DEF ReadWorkers, TypeOK, Calls
<1> HIDE DEF left
<1>2. /\ c \in Calls /\ c.pc = "count" /\ c.left = left /\ c.found = call[r].found
      /\ c.worker = call[r].worker /\ c.task = call[r].task /\ c.seen = call[r].seen
  BY <1>1 DEF Calls
<1> HIDE DEF c
<1> QED  BY <1>1, <1>2 DEF Goes, left

LEMMA ContinueGoes ==
    ASSUME TypeOK, NEW r \in Requests, call[r].pc \notin {"idle", "sweep"},
           NEW pc \in {"count", "ban", "find", "sweep", "apply"}, Continue(r, pc)
    PROVE  \E c : Goes(r, c) /\ c.pc = pc /\ c.left = call[r].left /\ c.found = {}
<1> DEFINE c == [call[r] EXCEPT !.pc = pc]
<1>1. call[r] \in Calls /\ call[r].found = {} /\ call' = [call EXCEPT ![r] = c]
  BY CallsAreTyped DEF Continue, TypeOK
<1>2. /\ c \in Calls /\ c.pc = pc /\ c.left = call[r].left /\ c.found = call[r].found
      /\ c.worker = call[r].worker /\ c.task = call[r].task /\ c.seen = call[r].seen
  BY <1>1 DEF Calls
<1> HIDE DEF c
<1> QED  BY <1>1, <1>2 DEF Goes

LEMMA FindGoes ==
    ASSUME TypeOK, NEW r \in Requests, FindSoftFailed(r)
    PROVE  \E c : /\ Goes(r, c) /\ c.pc \in {"apply", "sweep"} /\ c.left = call[r].left
                  /\ c.found = TasksOf(call[r].worker, {"soft-failed"})
<1> DEFINE found == TasksOf(call[r].worker, {"soft-failed"})
           c == [call[r] EXCEPT !.pc = IF found = {} THEN "apply" ELSE "sweep", !.found = found]
<1>1. call[r] \in Calls /\ call[r].pc # "idle" /\ call' = [call EXCEPT ![r] = c] /\ found \subseteq Tasks
  BY CallsAreTyped DEF FindSoftFailed, TypeOK, TasksOf
<1> HIDE DEF found
<1>2. /\ c \in Calls /\ c.pc = (IF found = {} THEN "apply" ELSE "sweep") /\ c.left = call[r].left /\ c.found = found
      /\ c.worker = call[r].worker /\ c.task = call[r].task /\ c.seen = call[r].seen
  BY <1>1 DEF Calls
<1> HIDE DEF c
<1> QED  BY <1>1, <1>2 DEF Goes, found

LEMMA HardFailGoes ==
    ASSUME TypeOK, NEW r \in Requests, HardFailOne(r)
    PROVE  \E t \in call[r].found : \E c :
               /\ Goes(r, c) /\ c.pc \in {"apply", "sweep"} /\ c.left = call[r].left
               /\ c.found = call[r].found \ {t} /\ status' = [status EXCEPT ![t] = "failed"]
<1>1. PICK t \in call[r].found :
          /\ status' = [status EXCEPT ![t] = "failed"]
          /\ call' = [call EXCEPT ![r].found = @ \ {t}, ![r].pc = IF call[r].found = {t} THEN "apply" ELSE "sweep"]
  BY DEF HardFailOne
<1> DEFINE c == [call[r] EXCEPT !.found = @ \ {t}, !.pc = IF call[r].found = {t} THEN "apply" ELSE "sweep"]
<1>2. call[r] \in Calls /\ call[r].pc = "sweep" /\ call' = [call EXCEPT ![r] = c]
  BY <1>1, CallsAreTyped DEF HardFailOne, TypeOK
<1>3. /\ c \in Calls /\ c.left = call[r].left /\ c.found = call[r].found \ {t}
      /\ c.pc = IF call[r].found = {t} THEN "apply" ELSE "sweep"
      /\ c.worker = call[r].worker /\ c.task = call[r].task /\ c.seen = call[r].seen
  BY <1>2 DEF Calls
<1> HIDE DEF c
<1>4. Goes(r, c)
  BY <1>2, <1>3 DEF Goes
<1> QED  BY <1>1, <1>3, <1>4

(* The answer to a report. *)
LEMMA StoreTyped ==
    ASSUME TypeOK, NEW r \in Requests, call[r].pc # "idle", NEW decision \in Statuses, Store(r, decision)
    PROVE  /\ status' \in [Tasks -> Statuses] /\ failedBy' \in [Tasks -> Seq(Workers)]
           /\ call' = [call EXCEPT ![r] = IdleCall]
<1> DEFINE t == call[r].task
           w == call[r].worker
<1>1. t \in Tasks /\ w \in Workers
  BY CallsAreTyped
<1>2. failedBy[t] \in Seq(Workers) /\ Append(failedBy[t], w) \in Seq(Workers)
  BY <1>1 DEF TypeOK
<1> QED  BY <1>2 DEF TypeOK, Store

LEMMA ReportGoes ==
    ASSUME TypeOK, NEW r \in Requests, NEW w \in Workers, NEW t \in Tasks, ReportFailure(r, w, t)
    PROVE  \E c \in Calls : /\ call' = [call EXCEPT ![r] = c] /\ c.pc = "blacklisted" /\ c.worker = w /\ c.task = t
                            /\ c.seen = failedBy[t] /\ c.found = {}
<1> DEFINE c == [IdleCall EXCEPT !.pc = "blacklisted", !.worker = w, !.task = t, !.seen = failedBy[t]]
<1>1. failedBy[t] \in Seq(Workers) /\ IdleCall \in Calls
  BY CallsAreTyped DEF TypeOK
<1>2. /\ c \in Calls /\ c.pc = "blacklisted" /\ c.worker = w /\ c.task = t
      /\ c.seen = failedBy[t] /\ c.found = {}
  BY <1>1 DEF Calls, IdleCall
<1> QED  BY <1>2 DEF ReportFailure

LEMMA HandleTyped ==
    ASSUME TypeOK, NEW r \in Requests, HandleReport(r)
    PROVE  TypeOK'
<1>1. CASE ReadBlacklist(r)
  BY <1>1, ReadBlacklistGoes, GoesTyped DEF ReadBlacklist, TypeOK
<1>2. CASE ReadWorkers(r)
  BY <1>2, ReadWorkersGoes, GoesTyped DEF ReadWorkers, TypeOK
<1>3. CASE CountFailures(r)
  <2>1. \E pc \in {"apply", "ban"} : Continue(r, pc)
    BY <1>3 DEF CountFailures
  <2> QED  BY <1>3, <2>1, ContinueGoes, GoesTyped DEF CountFailures, TypeOK
<1>4. CASE Ban(r)
  <2>1. \E pc \in {"find", "apply"} : Continue(r, pc)
    BY <1>4 DEF Ban
  <2>2. call[r].worker \in Workers
    BY <1>4, CallsAreTyped DEF Ban
  <2> QED  BY <1>4, <2>1, <2>2, ContinueGoes, GoesTyped DEF Ban, TypeOK
<1>5. CASE FindSoftFailed(r)
  BY <1>5, FindGoes, GoesTyped DEF FindSoftFailed, TypeOK
<1>6. CASE HardFailOne(r)
  <2>1. status' \in [Tasks -> Statuses]
    BY <1>6, HardFailGoes DEF TypeOK, Statuses
  <2> QED  BY <1>6, <2>1, HardFailGoes, GoesTyped DEF HardFailOne, TypeOK
<1>7. CASE Apply(r)
  <2>1. Store(r, Decision(Append(call[r].seen, call[r].worker), call[r].left)) /\ call[r].pc # "idle"
    BY <1>7 DEF Apply
  <2>2. Decision(Append(call[r].seen, call[r].worker), call[r].left) \in Statuses
    BY DEF Decision, Statuses
  <2>3. IdleCall \in Calls /\ IdleCall.pc = "idle" /\ IdleCall.found = {}
    BY CallsAreTyped DEF IdleCall
  <2> QED  BY <1>7, <2>1, <2>2, <2>3, StoreTyped, CallTyped DEF Apply, TypeOK
<1> QED  BY <1>1, <1>2, <1>3, <1>4, <1>5, <1>6, <1>7 DEF HandleReport

LEMMA TypeInitially == Init => TypeOK
BY DEF Init, TypeOK, Statuses, IdleCall, Calls

LEMMA TypeKept == TypeOK /\ [Next]_vars => TypeOK'
<1> SUFFICES ASSUME TypeOK, [Next]_vars PROVE TypeOK'
  OBVIOUS
<1>1. ASSUME NEW w \in Workers, NEW t \in Tasks, NEW r \in Requests, ReportFailure(r, w, t) PROVE TypeOK'
  <2>1. PICK c \in Calls : /\ call' = [call EXCEPT ![r] = c] /\ c.pc = "blacklisted" /\ c.worker = w /\ c.task = t
                           /\ c.found = {}
    BY <1>1, ReportGoes
  <2> QED  BY <1>1, <2>1, CallTyped, NoneAssumption DEF ReportFailure, TypeOK
<1>2. ASSUME NEW w \in Workers, NEW t \in Tasks, Schedule(w, t) \/ Complete(w, t) \/ TakeBack(t) PROVE TypeOK'
  BY <1>2 DEF Schedule, Complete, TakeBack, TypeOK, Statuses
<1>3. ASSUME NEW w \in Workers, Forget(w) \/ Pardon(w) PROVE TypeOK'
  BY <1>3 DEF Forget, Pardon, TypeOK
<1>4. ASSUME NEW t \in Tasks, TakeBack(t) PROVE TypeOK'
  BY <1>4 DEF TakeBack, TypeOK, Statuses
<1>5. CASE UNCHANGED vars
  BY <1>5 DEF vars, TypeOK
<1> QED  BY <1>1, <1>2, <1>3, <1>4, <1>5, HandleTyped DEF Next, Schedules, Finishes, Surroundings

(***************************************************************************)
(* Type correctness, whatever the surroundings do: what a handler has read *)
(* and found is what there is, up to its last step.                        *)
(***************************************************************************)
THEOREM TypeCorrect == Spec => []TypeOK
BY TypeInitially, TypeKept, PTL DEF Spec

-----------------------------------------------------------------------------
(***************************************************************************)
(* That tasks are only hard-failed for a reason, and not retried for too   *)
(* long, for workers that wait for the answer to a report, and tasks and   *)
(* blacklists that are left alone while failures of theirs are handled.    *)
(***************************************************************************)
Calm == Env \cap {"resend", "overlap"} = {}

(* A worker reports one failure at a time. *)
OneReport ==
    \A r \in Requests :
        /\ call[r].pc = "idle" <=> call[r].worker = None
        /\ \A q \in Requests \ {r} : call[r].worker = None \/ call[q].worker # call[r].worker

(* Until its failure is handled, the worker has the task, as it was read. *)
StillActive ==
    \A r \in Requests : call[r].pc # "idle" =>
        LET t == call[r].task
        IN  status[t] = "active" /\ assignee[t] = call[r].worker /\ call[r].seen = failedBy[t]

(* Who may run tasks has been found when the report was handled. *)
LeftCovers ==
    \A r \in Requests :
        /\ call[r].pc = "workers" => registered \ blacklist \subseteq call[r].left
        /\ call[r].pc \in {"count", "ban", "find", "sweep", "apply"} =>
               registered \ blacklist \subseteq call[r].left \cup {call[r].worker}

(* Tasks that had soft-failed are hard-failed when nobody can take them any more. *)
FoundAreStuck ==
    \A r \in Requests :
        /\ call[r].pc \in {"find", "sweep"} => registered \ blacklist = {}
        /\ \A t \in call[r].found : status[t] = "soft-failed" /\ assignee[t] = call[r].worker

(* Nobody gets a task again that failed on it. *)
FailedOnce ==
    \A t \in Tasks :
        /\ IsFiniteSet(Range(failedBy[t])) /\ Cardinality(Range(failedBy[t])) = Len(failedBy[t])
        /\ status[t] = "active" => assignee[t] \in Workers \ Range(failedBy[t])

FewFailures == \A t \in Tasks : status[t] \notin Final => Len(failedBy[t]) < TaskFailAfterSoftFailCount

IInv ==
    /\ Calm /\ TypeOK
    /\ OneReport /\ StillActive /\ LeftCovers /\ FoundAreStuck /\ FailedOnce /\ FewFailures

LEMMA IInvInitially == Calm /\ Init => IInv
<1> SUFFICES ASSUME Calm, Init PROVE IInv
  OBVIOUS
<1>1. Range(<<>>) = {} /\ Len(<<>>) = 0
  BY DEF Range
<1>2. FailedOnce /\ FewFailures
  BY <1>1, FS_EmptySet, LimitsAssumption DEF Init, FailedOnce, FewFailures, Final
<1>3. OneReport /\ StillActive /\ LeftCovers /\ FoundAreStuck
  BY DEF Init, OneReport, StillActive, LeftCovers, FoundAreStuck, IdleCall
<1> QED  BY <1>2, <1>3, TypeInitially DEF IInv

(* One more failure, of a worker that has not failed the task before. *)
LEMMA OneMoreFailure ==
    ASSUME NEW failures \in Seq(Workers), NEW w \in Workers \ Range(failures),
           IsFiniteSet(Range(failures)), Cardinality(Range(failures)) = Len(failures)
    PROVE  LET more == Append(failures, w)
           IN  /\ more \in Seq(Workers) /\ Range(more) = Range(failures) \cup {w} /\ Len(more) = Len(failures) + 1
               /\ IsFiniteSet(Range(more)) /\ Cardinality(Range(more)) = Len(more)
<1> DEFINE more == Append(failures, w)
<1>1. /\ more \in Seq(Workers) /\ Len(more) = Len(failures) + 1 /\ Len(failures) \in Nat
      /\ DOMAIN more = 1 .. Len(failures) + 1 /\ DOMAIN failures = 1 .. Len(failures)
      /\ \A i \in 1 .. Len(failures) : more[i] = failures[i]
      /\ more[Len(failures) + 1] = w
  OBVIOUS
<1> HIDE DEF more
<1>2. Range(more) = Range(failures) \cup {w}
  <2>1. Range(failures) = {failures[i] : i \in 1 .. Len(failures)} /\ Range(more) = {more[i] : i \in 1 .. Len(failures) + 1}
    BY <1>1 DEF Range
  <2>2. \A x : x \in Range(more) => x \in Range(failures) \cup {w}
    <3> SUFFICES ASSUME NEW i \in 1 .. Len(failures) + 1 PROVE more[i] \in Range(failures) \cup {w}
      BY <2>1
    <3>1. CASE i = Len(failures) + 1
      BY <1>1, <3>1
    <3>2. CASE i # Len(failures) + 1
      <4>1. i \in 1 .. Len(failures) /\ more[i] = failures[i]
        BY <1>1, <3>2
      <4> QED  BY <2>1, <4>1
    <3> QED  BY <3>1, <3>2
  <2>3. \A x : x \in Range(failures) \cup {w} => x \in Range(more)
    <3>1. \A i \in 1 .. Len(failures) : i \in 1 .. Len(failures) + 1 /\ more[i] = failures[i]
      BY <1>1
    <3>2. Len(failures) + 1 \in 1 .. Len(failures) + 1
      BY <1>1
    <3> QED  BY <1>1, <2>1, <3>1, <3>2
  <2> QED  BY <2>2, <2>3
<1>3. IsFiniteSet(Range(more)) /\ Cardinality(Range(more)) = Cardinality(Range(failures)) + 1
  BY <1>2, FS_AddElement
<1> QED  BY <1>1, <1>2, <1>3 DEF more

-----------------------------------------------------------------------------
(* The handling of a report. *)

(* A report being handled goes on, and nothing but the blacklist changes. *)
LEMMA GoesKept ==
    ASSUME IInv, TypeOK', NEW r \in Requests, NEW c, Goes(r, c),
           UNCHANGED <<status, assignee, failedBy, registered>>, blacklist \subseteq blacklist',
           c.pc # "blacklisted",
           c.pc = "workers" => registered \ blacklist' \subseteq c.left,
           c.pc \in {"count", "ban", "find", "sweep", "apply"} => registered \ blacklist' \subseteq c.left \cup {c.worker},
           c.pc \in {"find", "sweep"} => registered \ blacklist' = {},
           \A t \in c.found : status[t] = "soft-failed" /\ assignee[t] = c.worker
    PROVE  IInv'
<1>1. call'[r] = c /\ \A q \in Requests \ {r} : call'[q] = call[q]
  BY DEF Goes, IInv, TypeOK
<1>2. c.worker = call[r].worker /\ c.task = call[r].task /\ c.seen = call[r].seen /\ call[r].pc # "idle" /\ c.pc # "idle"
  BY DEF Goes
<1>3. OneReport'
  BY <1>1, <1>2 DEF IInv, OneReport
<1>4. StillActive'
  BY <1>1, <1>2 DEF IInv, StillActive
<1>5. LeftCovers'
  BY <1>1, <1>2 DEF IInv, LeftCovers
<1>6. FoundAreStuck'
  BY <1>1, <1>2 DEF IInv, FoundAreStuck
<1> QED  BY <1>3, <1>4, <1>5, <1>6 DEF IInv, Calm, FailedOnce, FewFailures

LEMMA HandleKept ==
    ASSUME IInv, NEW r \in Requests, HandleReport(r)
    PROVE  IInv'
<1>0. TypeOK /\ TypeOK'
  BY HandleTyped DEF IInv
<1>1. CASE ReadBlacklist(r)
  <2>1. PICK c : Goes(r, c) /\ c.pc = "workers" /\ c.left = Workers \ blacklist /\ c.found = {}
    BY <1>0, <1>1, ReadBlacklistGoes
  <2>2. registered \ blacklist \subseteq c.left
    BY <1>0, <2>1 DEF TypeOK
  <2> QED  BY <1>0, <1>1, <2>1, <2>2, GoesKept DEF ReadBlacklist
<1>2. CASE ReadWorkers(r)
  <2>1. PICK c : Goes(r, c) /\ c.pc = "count" /\ c.left = (call[r].left \cap registered) \ {call[r].worker} /\ c.found = {}
    BY <1>0, <1>2, ReadWorkersGoes
  <2>2. registered \ blacklist \subseteq c.left \cup {c.worker}
    BY <1>2, <2>1 DEF ReadWorkers, IInv, LeftCovers, Goes
  <2> QED  BY <1>0, <1>2, <2>1, <2>2, GoesKept DEF ReadWorkers
<1>3. CASE CountFailures(r)
  <2>1. PICK pc \in {"apply", "ban"} : Continue(r, pc)
    BY <1>3 DEF CountFailures
  <2>2. PICK c : Goes(r, c) /\ c.pc = pc /\ c.left = call[r].left /\ c.found = {}
    BY <1>0, <1>3, <2>1, ContinueGoes DEF CountFailures
  <2>3. registered \ blacklist \subseteq c.left \cup {c.worker}
    BY <1>3, <2>2 DEF CountFailures, IInv, LeftCovers, Goes
  <2> QED  BY <1>0, <1>3, <2>1, <2>2, <2>3, GoesKept DEF CountFailures
<1>4. CASE Ban(r)
  <2>1. PICK pc \in {"find", "apply"} : Continue(r, pc) /\ (pc = "find" => call[r].left = {})
    BY <1>4 DEF Ban
  <2>2. PICK c : Goes(r, c) /\ c.pc = pc /\ c.left = call[r].left /\ c.found = {}
    BY <1>0, <1>4, <2>1, ContinueGoes DEF Ban
  <2>3. registered \ blacklist \subseteq c.left \cup {c.worker} /\ blacklist' = blacklist \cup {c.worker}
    BY <1>4, <2>2 DEF Ban, IInv, LeftCovers, Goes
  <2>4. pc = "find" => registered \ blacklist' = {}
    BY <2>1, <2>2, <2>3
  <2> QED  BY <1>0, <1>4, <2>1, <2>2, <2>3, <2>4, GoesKept DEF Ban
<1>5. CASE FindSoftFailed(r)
  <2>1. PICK c : /\ Goes(r, c) /\ c.pc \in {"apply", "sweep"} /\ c.left = call[r].left
                 /\ c.found = TasksOf(call[r].worker, {"soft-failed"})
    BY <1>0, <1>5, FindGoes
  <2>2. registered \ blacklist = {}
    BY <1>5 DEF FindSoftFailed, IInv, FoundAreStuck
  <2>3. \A t \in c.found : status[t] = "soft-failed" /\ assignee[t] = c.worker
    BY <2>1 DEF TasksOf, Goes
  <2> QED  BY <1>0, <1>5, <2>1, <2>2, <2>3, GoesKept DEF FindSoftFailed
<1>6. CASE HardFailOne(r)
  <2>1. PICK t \in call[r].found : \E c :
            /\ Goes(r, c) /\ c.pc \in {"apply", "sweep"} /\ c.left = call[r].left
            /\ c.found = call[r].found \ {t} /\ status' = [status EXCEPT ![t] = "failed"]
    BY <1>0, <1>6, HardFailGoes
  <2>2. PICK c :
            /\ Goes(r, c) /\ c.pc \in {"apply", "sweep"} /\ c.left = call[r].left
            /\ c.found = call[r].found \ {t} /\ status' = [status EXCEPT ![t] = "failed"]
    BY <2>1
  <2>3. /\ t \in Tasks /\ status[t] = "soft-failed" /\ assignee[t] = call[r].worker
        /\ registered \ blacklist = {} /\ call[r].pc = "sweep"
    BY <1>0, <1>6, CallsAreTyped DEF HardFailOne, IInv, FoundAreStuck, Calls
  <2>4. /\ call'[r] = c /\ \A q \in Requests \ {r} : call'[q] = call[q]
        /\ c.worker = call[r].worker /\ c.task = call[r].task /\ c.seen = call[r].seen /\ c.pc # "idle"
    BY <1>0, <2>2 DEF Goes, TypeOK
  <2>5. UNCHANGED <<assignee, failedBy, registered, blacklist>>
    BY <1>6 DEF HardFailOne
  <2>6. status'[t] = "failed" /\ \A u \in Tasks \ {t} : status'[u] = status[u]
    BY <1>0, <2>2, <2>3 DEF TypeOK
  <2>7. OneReport' /\ LeftCovers'
    BY <2>2, <2>3, <2>4, <2>5 DEF IInv, OneReport, LeftCovers
  <2>8. StillActive'
    <3> SUFFICES ASSUME NEW q \in Requests, call'[q].pc # "idle"
                 PROVE  /\ status'[call'[q].task] = "active" /\ assignee'[call'[q].task] = call'[q].worker
                        /\ call'[q].seen = failedBy'[call'[q].task]
      BY DEF StillActive
    <3>1. /\ call[q].pc # "idle" /\ call'[q].task = call[q].task
          /\ call'[q].worker = call[q].worker /\ call'[q].seen = call[q].seen
      BY <2>3, <2>4
    <3>2. call[q].task \in Tasks
      BY <1>0, <3>1, CallsAreTyped
    <3>3. /\ status[call[q].task] = "active" /\ assignee[call[q].task] = call[q].worker
          /\ call[q].seen = failedBy[call[q].task]
      BY <3>1 DEF IInv, StillActive
    <3> QED  BY <2>3, <2>5, <2>6, <3>1, <3>2, <3>3
  <2>9. FoundAreStuck'
    <3>1. \A q \in Requests : call'[q].pc \in {"find", "sweep"} => registered \ blacklist = {}
      BY <2>3
    <3>2. ASSUME NEW q \in Requests, NEW u \in call'[q].found
          PROVE  status'[u] = "soft-failed" /\ assignee'[u] = call'[q].worker
      <4>1. u \in call[q].found /\ call'[q].worker = call[q].worker /\ u \in Tasks
        BY <1>0, <2>2, <2>4, <3>2, CallsAreTyped DEF Calls
      <4>2. status[u] = "soft-failed" /\ assignee[u] = call[q].worker
        BY <4>1 DEF IInv, FoundAreStuck
      <4>3. u # t
        <5>1. CASE q = r
          BY <2>2, <2>4, <3>2, <5>1
        <5>2. CASE q # r
          <6>1. call[r].worker # None /\ call[q].worker # call[r].worker
            BY <2>3, <5>2 DEF IInv, OneReport
          <6> QED  BY <2>3, <4>2, <6>1
        <5> QED  BY <5>1, <5>2
      <4> QED  BY <2>5, <2>6, <4>1, <4>2, <4>3
    <3> QED  BY <2>5, <3>1, <3>2 DEF FoundAreStuck
  <2>10. FailedOnce' /\ FewFailures'
    BY <2>5, <2>6 DEF IInv, FailedOnce, FewFailures, Final
  <2> QED  BY <1>0, <2>7, <2>8, <2>9, <2>10 DEF IInv, Calm
<1>7. CASE Apply(r)
  <2> DEFINE t == call[r].task
             w == call[r].worker
             decision == Decision(Append(call[r].seen, call[r].worker), call[r].left)
  <2>1. PICK u \in Tasks, v \in Workers : u = call[r].task /\ v = call[r].worker
    BY <1>0, <1>7, CallsAreTyped DEF Apply
  <2>2. status[u] = "active" /\ assignee[u] = v /\ call[r].seen = failedBy[u] /\ call[r].pc = "apply"
    BY <1>7, <2>1 DEF Apply, IInv, StillActive
  <2> DEFINE more == Append(failedBy[u], v)
  <2>3. PICK d \in {"failed", "soft-failed"} :
            /\ d = "soft-failed" => ~(Len(more) >= TaskFailAfterSoftFailCount)
            /\ status' = [status EXCEPT ![u] = d]
            /\ failedBy' = [failedBy EXCEPT ![u] = more]
            /\ call' = [call EXCEPT ![r] = IdleCall]
    BY <1>7, <2>1, <2>2 DEF Apply, Store, Decision
  <2>4. /\ Len(more) = Len(failedBy[u]) + 1 /\ Len(failedBy[u]) \in Nat
        /\ IsFiniteSet(Range(more)) /\ Cardinality(Range(more)) = Len(more)
    <3>1. failedBy[u] \in Seq(Workers) /\ v \in Workers \ Range(failedBy[u])
          /\ IsFiniteSet(Range(failedBy[u])) /\ Cardinality(Range(failedBy[u])) = Len(failedBy[u])
      BY <1>0, <2>1, <2>2 DEF IInv, FailedOnce, TypeOK
    <3> QED  BY <3>1, OneMoreFailure
  <2> HIDE DEF more
  <2>5. /\ status'[u] = d /\ failedBy'[u] = more /\ call'[r] = IdleCall
        /\ \A s \in Tasks \ {u} : status'[s] = status[s] /\ failedBy'[s] = failedBy[s]
        /\ \A q \in Requests \ {r} : call'[q] = call[q]
    BY <1>0, <2>3 DEF TypeOK
  <2>6. UNCHANGED <<assignee, registered, blacklist>>
    BY <1>7 DEF Apply
  <2>7. IdleCall.pc = "idle" /\ IdleCall.worker = None /\ IdleCall.found = {}
    BY DEF IdleCall
  <2>8. OneReport' /\ LeftCovers'
    BY <2>5, <2>6, <2>7 DEF IInv, OneReport, LeftCovers
  <2>9. StillActive'
    <3> SUFFICES ASSUME NEW q \in Requests, call'[q].pc # "idle"
                 PROVE  /\ status'[call'[q].task] = "active" /\ assignee'[call'[q].task] = call'[q].worker
                        /\ call'[q].seen = failedBy'[call'[q].task]
      BY DEF StillActive
    <3>1. q # r /\ call'[q] = call[q]
      BY <2>5, <2>7
    <3>2. call[q].task \in Tasks
      BY <1>0, <3>1, CallsAreTyped
    <3>3. /\ status[call[q].task] = "active" /\ assignee[call[q].task] = call[q].worker
          /\ call[q].seen = failedBy[call[q].task]
      BY <3>1 DEF IInv, StillActive
    <3>4. call[q].task # u
      <4>1. call[q].worker # v
        BY <2>1, <3>1, NoneAssumption DEF IInv, OneReport
      <4> QED  BY <2>2, <3>3, <4>1
    <3> QED  BY <2>5, <2>6, <3>1, <3>2, <3>3, <3>4
  <2>10. FoundAreStuck'
    <3>1. \A q \in Requests : call'[q].pc \in {"find", "sweep"} => registered \ blacklist = {}
      BY <2>5, <2>7 DEF IInv, FoundAreStuck
    <3>2. ASSUME NEW q \in Requests, NEW s \in call'[q].found
          PROVE  status'[s] = "soft-failed" /\ assignee'[s] = call'[q].worker
      <4>1. call'[q] = call[q] /\ s \in Tasks
        BY <1>0, <2>5, <2>7, <3>2, CallsAreTyped DEF Calls
      <4>2. status[s] = "soft-failed" /\ assignee[s] = call[q].worker
        BY <3>2, <4>1 DEF IInv, FoundAreStuck
      <4> QED  BY <2>2, <2>5, <2>6, <4>1, <4>2
    <3> QED  BY <2>6, <3>1, <3>2 DEF FoundAreStuck
  <2>11. FailedOnce'
    BY <2>4, <2>5, <2>6 DEF IInv, FailedOnce
  <2>12. FewFailures'
    BY <2>3, <2>4, <2>5, LimitsAssumption DEF IInv, FewFailures, Final
  <2> QED  BY <1>0, <2>8, <2>9, <2>10, <2>11, <2>12 DEF IInv, Calm
<1> QED  BY <1>1, <1>2, <1>3, <1>4, <1>5, <1>6, <1>7 DEF HandleReport

-----------------------------------------------------------------------------
(* The workers and the surroundings. *)

LEMMA ReportKept ==
    ASSUME IInv, NEW r \in Requests, NEW w \in Workers, NEW t \in Tasks, ReportFailure(r, w, t)
    PROVE  IInv'
<1>0. TypeOK /\ TypeOK'
  BY TypeKept DEF IInv, Next, Finishes
<1>1. PICK c \in Calls : /\ call' = [call EXCEPT ![r] = c] /\ c.pc = "blacklisted" /\ c.worker = w /\ c.task = t
                         /\ c.seen = failedBy[t] /\ c.found = {}
  BY <1>0, ReportGoes
<1>2. call'[r] = c /\ \A q \in Requests \ {r} : call'[q] = call[q]
  BY <1>0, <1>1 DEF TypeOK
<1>3. /\ call[r].pc = "idle" /\ status[t] = "active" /\ assignee[t] = w
      /\ \A q \in Requests : call[q].worker # w
      /\ UNCHANGED <<status, assignee, failedBy, registered, blacklist>>
  BY DEF ReportFailure, ActiveTasksOf, Waiting, IInv, Calm
<1>4. OneReport'
  BY <1>1, <1>2, <1>3, NoneAssumption DEF IInv, OneReport
<1>5. StillActive' /\ LeftCovers' /\ FoundAreStuck'
  BY <1>1, <1>2, <1>3 DEF IInv, StillActive, LeftCovers, FoundAreStuck
<1> QED  BY <1>0, <1>3, <1>4, <1>5 DEF IInv, Calm, FailedOnce, FewFailures

(* A task that no handler of a failure is about changes its status. *)
LEMMA TaskKept ==
    ASSUME IInv, TypeOK', NEW t \in Tasks, NEW s \in Statuses, UNCHANGED <<failedBy, registered, blacklist, call>>,
           status' = [status EXCEPT ![t] = s],
           \A u \in Tasks \ {t} : assignee'[u] = assignee[u],
           \A r \in Requests : call[r].pc # "idle" => call[r].task # t /\ t \notin call[r].found,
           s = "active" => assignee'[t] \in Workers \ Range(failedBy[t]),
           s \notin Final => status[t] \notin Final
    PROVE  IInv'
<1>0. TypeOK
  BY DEF IInv
<1>1. status'[t] = s /\ \A u \in Tasks \ {t} : status'[u] = status[u]
  BY <1>0 DEF TypeOK
<1>2. OneReport' /\ LeftCovers'
  BY DEF IInv, OneReport, LeftCovers
<1>3. StillActive'
  BY <1>0, <1>1, CallsAreTyped DEF IInv, StillActive
<1>4. FoundAreStuck'
  <2>1. ASSUME NEW r \in Requests, NEW u \in call[r].found
        PROVE  status'[u] = "soft-failed" /\ assignee'[u] = call[r].worker
    <3>1. u \in Tasks /\ call[r].pc # "idle"
      BY <1>0, <2>1, CallsAreTyped DEF Calls, TypeOK
    <3>2. status[u] = "soft-failed" /\ assignee[u] = call[r].worker
      BY DEF IInv, FoundAreStuck
    <3> QED  BY <1>1, <2>1, <3>1, <3>2
  <2> QED  BY <2>1 DEF IInv, FoundAreStuck
<1>5. FailedOnce' /\ FewFailures'
  BY <1>1 DEF IInv, FailedOnce, FewFailures
<1> QED  BY <1>2, <1>3, <1>4, <1>5 DEF IInv, Calm

LEMMA ScheduleKept ==
    ASSUME IInv, NEW w \in Workers, NEW t \in Tasks, Schedule(w, t)
    PROVE  IInv'
<1>1. TypeOK /\ TypeOK'
  BY TypeKept DEF IInv, Next, Schedules
<1>2. /\ status' = [status EXCEPT ![t] = "active"] /\ UNCHANGED <<failedBy, registered, blacklist, call>>
      /\ assignee'[t] = w /\ \A u \in Tasks \ {t} : assignee'[u] = assignee[u]
  BY <1>1 DEF Schedule, TypeOK
<1>3. \A r \in Requests : call[r].pc # "idle" => call[r].task # t /\ t \notin call[r].found
  <2> SUFFICES ASSUME NEW r \in Requests, call[r].pc # "idle" PROVE call[r].task # t /\ t \notin call[r].found
    OBVIOUS
  <2>1. call[r].task # t
    BY DEF Schedule, Schedulable, IInv, StillActive
  <2>2. call[r].pc \notin {"find", "sweep"}
    BY DEF Schedule, IInv, FoundAreStuck
  <2>3. call[r].found = {}
    BY <1>1, <2>2 DEF TypeOK
  <2> QED  BY <2>1, <2>3
<1>4. w \in Workers \ Range(failedBy[t]) /\ status[t] \notin Final /\ "active" \in Statuses
  BY DEF Schedule, Schedulable, Final, Statuses
<1> QED  BY <1>1, <1>2, <1>3, <1>4, TaskKept

LEMMA LeavesKept ==
    ASSUME IInv, NEW t \in Tasks, TakeBack(t) \/ \E w \in Workers : Complete(w, t)
    PROVE  IInv'
<1>1. TypeOK /\ TypeOK'
  BY TypeKept DEF IInv, Next, Finishes, Surroundings
<1>2. PICK s \in {"completed", "claimed-by-manager"} :
          status' = [status EXCEPT ![t] = s] /\ UNCHANGED <<assignee, failedBy, registered, blacklist, call>>
  BY DEF TakeBack, Complete
<1>3. status[t] = "active"
  BY DEF TakeBack, Complete, ActiveTasksOf
<1>4. \A r \in Requests : call[r].pc # "idle" => call[r].task # t /\ t \notin call[r].found
  <2> SUFFICES ASSUME NEW r \in Requests, call[r].pc # "idle" PROVE call[r].task # t /\ t \notin call[r].found
    OBVIOUS
  <2>1. t \notin call[r].found
    BY <1>3 DEF IInv, FoundAreStuck
  <2>2. call[r].task # t
    <3>1. CASE TakeBack(t)
      BY <3>1 DEF TakeBack, FailureHandled, IInv, Calm
    <3>2. CASE \E w \in Workers : Complete(w, t)
      <4>1. PICK w \in Workers : Complete(w, t)
        BY <3>2
      <4>2. assignee[t] = w /\ call[r].worker # w
        BY <4>1 DEF Complete, ActiveTasksOf, Waiting, IInv, Calm
      <4> QED  BY <4>2 DEF IInv, StillActive
    <3> QED  BY <3>1, <3>2
  <2> QED  BY <2>1, <2>2
<1>5. s \in Statuses /\ status[t] \notin Final
  BY <1>3 DEF Statuses, Final
<1> QED  BY <1>1, <1>2, <1>4, <1>5, TaskKept

LEMMA WorkersKept ==
    ASSUME IInv, NEW w \in Workers, Forget(w) \/ Pardon(w)
    PROVE  IInv'
<1>1. TypeOK'
  BY TypeKept DEF IInv, Next, Surroundings
<1>2. CASE Forget(w)
  <2>1. registered' \subseteq registered /\ UNCHANGED <<status, assignee, failedBy, blacklist, call>>
    BY <1>2 DEF Forget
  <2> QED  BY <1>1, <2>1 DEF IInv, Calm, OneReport, StillActive, LeftCovers, FoundAreStuck, FailedOnce, FewFailures
<1>3. CASE Pardon(w)
  <2>1. UNCHANGED <<status, assignee, failedBy, registered, call>> /\ \A r \in Requests : call[r] = IdleCall
    BY <1>3 DEF Pardon, IInv, Calm
  <2>2. IdleCall.pc = "idle" /\ IdleCall.found = {}
    BY DEF IdleCall
  <2> QED  BY <1>1, <2>1, <2>2 DEF IInv, Calm, OneReport, StillActive, LeftCovers, FoundAreStuck, FailedOnce, FewFailures
<1> QED  BY <1>2, <1>3

LEMMA IInvKept == IInv /\ [Next]_vars => IInv'
<1> SUFFICES ASSUME IInv, [Next]_vars PROVE IInv'
  OBVIOUS
<1>1. CASE UNCHANGED vars
  <2>1. TypeOK'
    BY <1>1, TypeKept DEF IInv
  <2> QED  BY <1>1, <2>1 DEF vars, IInv, Calm, OneReport, StillActive, LeftCovers, FoundAreStuck, FailedOnce, FewFailures
<1> QED
  BY <1>1, HandleKept, ReportKept, ScheduleKept, LeavesKept, WorkersKept DEF Next, Schedules, Finishes, Surroundings

(***************************************************************************)
(* What is true while failures are handled, for any number of them at the  *)
(* same time, and any limits.                                              *)
(***************************************************************************)
THEOREM Invariant == Calm /\ Spec => []IInv
BY IInvInitially, IInvKept, PTL DEF Spec

(***************************************************************************)
(* A task is not retried once as many workers failed it as the limit says. *)
(***************************************************************************)
THEOREM RetriesLimitedAlways == Calm /\ Spec => []RetriesLimited
<1>1. IInv => RetriesLimited
  BY DEF IInv, FailedOnce, FewFailures, RetriesLimited
<1> QED  BY <1>1, Invariant, PTL

(***************************************************************************)
(* A task is hard-failed only when that many workers failed it, or nobody  *)
(* is left who may run it, at that very moment and whatever other reports  *)
(* are being handled.                                                      *)
(***************************************************************************)
THEOREM JustlyFailedAlways == Calm /\ Spec => JustlyFailed
<1>1. ASSUME IInv, [Next]_vars, NEW t \in Tasks, status[t] # "failed", status'[t] = "failed"
      PROVE  Cardinality(Range(failedBy'[t])) >= TaskFailAfterSoftFailCount \/ Left(t)' = {}
  <2>0. TypeOK /\ IInv'
    BY <1>1, IInvKept DEF IInv
  <2>1. PICK r \in Requests : HardFailOne(r) \/ (Apply(r) /\ t = call[r].task)
    <3>1. ASSUME NEW r \in Requests, Apply(r) PROVE t = call[r].task
      BY <1>1, <2>0, <3>1 DEF Apply, Store, TypeOK
    <3>2. ASSUME NEW u \in Tasks, NEW w \in Workers, Schedule(w, u) \/ Complete(w, u) \/ TakeBack(u) PROVE FALSE
      BY <1>1, <2>0, <3>2 DEF Schedule, Complete, TakeBack, TypeOK
    <3>3. ASSUME NEW u \in Tasks, TakeBack(u) PROVE FALSE
      BY <1>1, <2>0, <3>3 DEF TakeBack, TypeOK
    <3>4. status' # status
      BY <1>1
    <3> QED
      BY <1>1, <3>1, <3>2, <3>3, <3>4 DEF Next, vars, HandleReport, ReadBlacklist, ReadWorkers, CountFailures, Ban, FindSoftFailed,
         Schedules, Finishes, ReportFailure, Surroundings, Forget, Pardon
  <2>2. CASE HardFailOne(r)
    <3>1. registered \ blacklist = {} /\ UNCHANGED <<registered, blacklist>>
      BY <1>1, <2>2 DEF HardFailOne, IInv, FoundAreStuck
    <3> QED  BY <3>1 DEF Left
  <2>3. CASE Apply(r) /\ t = call[r].task
    <3>1. /\ call[r].pc = "apply" /\ call[r].worker \in Workers /\ UNCHANGED <<registered, blacklist>>
          /\ Store(r, Decision(Append(call[r].seen, call[r].worker), call[r].left))
      BY <2>0, <2>3, CallsAreTyped DEF Apply
    <3>2. PICK w \in Workers : w = call[r].worker
      BY <3>1
    <3>3. call[r].seen = failedBy[t] /\ status[t] = "active" /\ assignee[t] = w
      BY <1>1, <2>3, <3>1, <3>2 DEF IInv, StillActive
    <3> DEFINE more == Append(failedBy[t], w)
    <3>4. failedBy'[t] = more
      BY <2>0, <2>3, <3>1, <3>2 DEF Store, TypeOK
    <3>5. Range(more) = Range(failedBy[t]) \cup {w} /\ Cardinality(Range(more)) = Len(more)
      <4>1. /\ failedBy[t] \in Seq(Workers) /\ w \in Workers \ Range(failedBy[t])
            /\ IsFiniteSet(Range(failedBy[t])) /\ Cardinality(Range(failedBy[t])) = Len(failedBy[t])
        BY <1>1, <2>0, <3>3 DEF IInv, FailedOnce, TypeOK
      <4> QED  BY <4>1, OneMoreFailure
    <3>6. Len(more) >= TaskFailAfterSoftFailCount \/ call[r].left \subseteq Range(more)
      <4>1. status'[t] = Decision(more, call[r].left)
        BY <2>0, <2>3, <3>1, <3>2, <3>3 DEF Store, TypeOK
      <4> HIDE DEF more
      <4> QED  BY <1>1, <4>1 DEF Decision
    <3>7. registered \ blacklist \subseteq call[r].left \cup {w}
      BY <1>1, <3>1, <3>2 DEF IInv, LeftCovers
    <3> HIDE DEF more
    <3> QED  BY <3>1, <3>4, <3>5, <3>6, <3>7 DEF Left
  <2> QED  BY <2>1, <2>2, <2>3
<1>2. IInv /\ [Next]_vars =>
          [\A t \in Tasks : status[t] # "failed" /\ status'[t] = "failed" =>
              \/ Cardinality(Range(failedBy'[t])) >= TaskFailAfterSoftFailCount
              \/ Left(t)' = {}]_vars
  BY <1>1
<1> QED  BY <1>2, IInvInitially, IInvKept, PTL DEF Spec, JustlyFailed
=============================================================================
