---------------------------- MODULE LogUploader ----------------------------
(***************************************************************************)
(* The goroutine that compresses task logs and uploads them to Flamenco    *)
(* Server, and the goroutines that queue logs for it, one for every push   *)
(* of task updates (flamenco/task_log_uploader.go).                        *)
(*                                                                         *)
(* Logs are uploaded at the Server's request.  Nothing is persisted: the   *)
(* Server asks again with every push until it has the log.  The contents   *)
(* of a log stand for the time of the last write they include.             *)
(***************************************************************************)
EXTENDS Naturals, Sequences, FiniteSets

CONSTANTS
    Logs,        \* JobTask: (Job ID, Task ID)
    Requesters,  \* goroutines of QueueAll
    QueueSize,   \* taskLogUploadQueueSize
    MaxTime,     \* bound on the number of times files are written
    Faults       \* what may go wrong, see FaultKinds

FaultKinds == {"append",  \* a log is written to while it is compressed
               "copy",    \* a log cannot be compressed completely
               "upload",  \* the Server cannot be reached or answers with an error
               "close",   \* the Manager is shut down
               "crash"}   \* the Manager is killed

ASSUME QueueSizeAssumption == QueueSize \in Nat \ {0}
ASSUME MaxTimeAssumption == MaxTime \in Nat \ {0}
ASSUME FaultsAssumption == Faults \subseteq FaultKinds

VARIABLES
    wanted,    \* Server: the logs it asks for
    manager,   \* whether the queue is open, closed, or the Manager panicked
    call,      \* the calls of QueueAll
    marked,    \* alreadyQueued
    queue,     \* the channel
    uploader,  \* the goroutine of Go
    now,       \* the time of the last write to any file
    text,      \* when each log was written last, 0 when the file is not there
    gz,        \* each compressed log
    spoiled    \* history: the logs with a compressed file that was not
               \* finished, or whose text was written to meanwhile

vars == <<wanted, manager, call, marked, queue, uploader, now, text, gz, spoiled>>
fileVars == <<now, text, gz, spoiled>>

Times == 0 .. MaxTime

\* has: the last write it includes.  time: when it was written itself.
NoFile == [has |-> 0, whole |-> FALSE, time |-> 0]
Files == [has : Times, whole : BOOLEAN, time : Times]

Idle == [pc |-> "idle", todo |-> {}]

\* log: what is uploaded.  open: the file that is read, as it is now.
\* had: a history, what the log was at os.Stat.
Waiting == [pc |-> "wait"]

TypeOK ==
    /\ wanted \in SUBSET Logs
    /\ manager \in {"up", "closing", "panicked"}
    /\ call \in [Requesters -> [pc : {"idle", "check"}, todo : SUBSET Logs] \cup
                               [pc : {"mark", "put"}, todo : SUBSET Logs, log : Logs]]
    /\ marked \in SUBSET Logs
    /\ queue \in Seq(Logs) /\ Len(queue) <= QueueSize
    /\ uploader \in [pc : {"wait", "done"}] \cup
                    [pc : {"compress", "copy", "finish", "upload", "unmark"},
                     log : Logs, open : Times, had : Times]
    /\ now \in Times
    /\ text \in [Logs -> Times]
    /\ gz \in [Logs -> Files]
    /\ spoiled \in SUBSET Logs

Init ==
    /\ wanted = {}
    /\ manager = "up"
    /\ call = [r \in Requesters |-> Idle]
    /\ marked = {}
    /\ queue = <<>>
    /\ uploader = Waiting
    /\ now = 0
    /\ text = [l \in Logs |-> 0]
    /\ gz = [l \in Logs |-> NoFile]
    /\ spoiled = {}

-----------------------------------------------------------------------------
(* QueueAll *)

\* The response to a push has the logs that the Server asks for.
QueueAll(r) ==
    /\ manager = "up"
    /\ call[r].pc = "idle" /\ wanted # {}
    /\ call' = [call EXCEPT ![r] = [pc |-> "check", todo |-> wanted]]
    /\ UNCHANGED <<wanted, manager, marked, queue, uploader, fileVars>>

\* Where the call goes with `rest` still to be queued.
Continue(rest) == IF rest = {} THEN Idle ELSE [pc |-> "check", todo |-> rest]

Skip(r, l) ==
    /\ manager # "panicked"
    /\ call[r].pc = "check" /\ l \in call[r].todo
    /\ l \in marked
    /\ call' = [call EXCEPT ![r] = Continue(@.todo \ {l})]
    /\ UNCHANGED <<wanted, manager, marked, queue, uploader, fileVars>>

\* Released the lock between isAlreadyQueued and markAlreadyQueued.
Check(r, l) ==
    /\ manager # "panicked"
    /\ call[r].pc = "check" /\ l \in call[r].todo
    /\ l \notin marked
    /\ call' = [call EXCEPT ![r] = [pc |-> "mark", todo |-> @.todo \ {l}, log |-> l]]
    /\ UNCHANGED <<wanted, manager, marked, queue, uploader, fileVars>>

\* Mutant: queues without marking.
MarkNothing(r) ==
    /\ manager # "panicked"
    /\ call[r].pc = "mark"
    /\ call' = [call EXCEPT ![r].pc = "put"]
    /\ UNCHANGED <<wanted, manager, marked, queue, uploader, fileVars>>

Mark(r) ==
    /\ manager # "panicked"
    /\ call[r].pc = "mark"
    /\ marked' = marked \cup {call[r].log}
    /\ call' = [call EXCEPT ![r].pc = "put"]
    /\ UNCHANGED <<wanted, manager, queue, uploader, fileVars>>

\* Mutant: a queue that takes one more.
PutOneMore(r) ==
    /\ manager = "up"
    /\ call[r].pc = "put"
    /\ Len(queue) <= QueueSize
    /\ queue' = Append(queue, call[r].log)
    /\ call' = [call EXCEPT ![r] = Continue(@.todo)]
    /\ UNCHANGED <<wanted, manager, marked, uploader, fileVars>>

Put(r) ==
    /\ manager = "up"
    /\ call[r].pc = "put"
    /\ Len(queue) < QueueSize
    /\ queue' = Append(queue, call[r].log)
    /\ call' = [call EXCEPT ![r] = Continue(@.todo)]
    /\ UNCHANGED <<wanted, manager, marked, uploader, fileVars>>

\* Gives up on this log, which stays marked, and on the rest.
QueueFull(r) ==
    /\ manager = "up"
    /\ call[r].pc = "put"
    /\ Len(queue) = QueueSize
    /\ call' = [call EXCEPT ![r] = Idle]
    /\ UNCHANGED <<wanted, manager, marked, queue, uploader, fileVars>>

\* Sending on a closed channel panics, in a goroutine where nothing recovers.
PutPanics(r) ==
    /\ manager = "closing"
    /\ call[r].pc = "put"
    /\ manager' = "panicked"
    /\ UNCHANGED <<wanted, call, marked, queue, uploader, fileVars>>

-----------------------------------------------------------------------------
(* Go, compressAndUpload *)

Goto(pc) == uploader' = [uploader EXCEPT !.pc = pc]
At(pc) == manager # "panicked" /\ uploader.pc = pc
Tick == now < MaxTime /\ now' = now + 1

\* The log that is being compressed now.
Compressing == IF uploader.pc \in {"copy", "finish"} THEN {uploader.log} ELSE {}

Take ==
    /\ At("wait") /\ queue # <<>>
    /\ queue' = Tail(queue)
    /\ uploader' = [pc |-> "compress", log |-> Head(queue), open |-> 0, had |-> 0]
    /\ UNCHANGED <<wanted, manager, call, marked, fileVars>>

\* The compressed file is there, and as new as the log if that is there.
UpToDate(l) == gz[l] # NoFile /\ (text[l] = 0 \/ text[l] < gz[l].time)

\* Mutant: does not look at which of the files is newer.
CompressOnce ==
    /\ At("compress") /\ gz[uploader.log] # NoFile
    /\ uploader' = [uploader EXCEPT !.pc = "upload", !.had = text[uploader.log]]
    /\ UNCHANGED <<wanted, manager, call, marked, queue, fileVars>>

NeedNotCompress ==
    /\ At("compress") /\ UpToDate(uploader.log)
    /\ uploader' = [uploader EXCEPT !.pc = "upload", !.had = text[uploader.log]]
    /\ UNCHANGED <<wanted, manager, call, marked, queue, fileVars>>

\* A log that is not there is made up, so that there is something to upload.
\* The compressed file is created, or truncated.
Compress ==
    LET l == uploader.log IN
    /\ At("compress") /\ ~UpToDate(l)
    /\ Tick
    /\ text' = [text EXCEPT ![l] = IF @ = 0 THEN now' ELSE @]
    /\ gz' = [gz EXCEPT ![l] = [NoFile EXCEPT !.time = now']]
    /\ spoiled' = spoiled \ {l}
    /\ uploader' = [uploader EXCEPT !.pc = "copy", !.open = text'[l], !.had = text'[l]]
    /\ UNCHANGED <<wanted, manager, call, marked, queue>>

\* Up to the end of the open file as it is now.
Copy ==
    /\ At("copy")
    /\ gz' = [gz EXCEPT ![uploader.log].has = uploader.open]
    /\ Goto("finish")
    /\ UNCHANGED <<wanted, manager, call, marked, queue, now, text, spoiled>>

\* What was written of the compressed file stays.
CompressFails ==
    /\ "copy" \in Faults
    /\ At("copy") \/ (At("compress") /\ ~UpToDate(uploader.log))
    /\ Goto("unmark")
    /\ spoiled' = spoiled \cup Compressing
    /\ UNCHANGED <<wanted, manager, call, marked, queue, now, text, gz>>

\* gzWriter.Close, gzFile.Close
FinishCompressed ==
    /\ At("finish")
    /\ Tick
    /\ gz' = [gz EXCEPT ![uploader.log].whole = TRUE, ![uploader.log].time = now']
    /\ Goto("upload")
    /\ UNCHANGED <<wanted, manager, call, marked, queue, text, spoiled>>

\* The Server needs not ask for this log any more.
Upload ==
    /\ At("upload")
    /\ wanted' = wanted \ {uploader.log}
    /\ Goto("unmark")
    /\ UNCHANGED <<manager, call, marked, queue, fileVars>>

UploadFails ==
    /\ "upload" \in Faults
    /\ At("upload")
    /\ Goto("unmark")
    /\ UNCHANGED <<wanted, manager, call, marked, queue, fileVars>>

\* Mutant: forgets to unmark.
UnmarkNothing ==
    /\ At("unmark")
    /\ uploader' = Waiting
    /\ UNCHANGED <<wanted, manager, call, marked, queue, fileVars>>

Unmark ==
    /\ At("unmark")
    /\ marked' = marked \ {uploader.log}
    /\ uploader' = Waiting
    /\ UNCHANGED <<wanted, manager, call, queue, fileVars>>

\* The channel is closed and empty.
GoEnds ==
    /\ At("wait") /\ manager = "closing" /\ queue = <<>>
    /\ Goto("done")
    /\ UNCHANGED <<wanted, manager, call, marked, queue, fileVars>>

-----------------------------------------------------------------------------
(* The surroundings *)

Close ==
    /\ "close" \in Faults
    /\ manager = "up"
    /\ manager' = "closing"
    /\ UNCHANGED <<wanted, call, marked, queue, uploader, fileVars>>

\* After the Manager was shut down, has panicked, or was killed.
Restart ==
    /\ \/ uploader.pc = "done" \/ manager = "panicked"
       \/ "crash" \in Faults
    /\ manager' = "up"
    /\ call' = [r \in Requesters |-> Idle]
    /\ marked' = {}
    /\ queue' = <<>>
    /\ uploader' = Waiting
    /\ spoiled' = spoiled \cup Compressing
    /\ UNCHANGED <<wanted, now, text, gz>>

ServerAsks(l) ==
    /\ l \notin wanted
    /\ wanted' = wanted \cup {l}
    /\ UNCHANGED <<manager, call, marked, queue, uploader, fileVars>>

\* Bounds the clock such that every log can still be compressed.
Room == now + 1 + 2 * Cardinality(Logs) <= MaxTime

\* LogTaskActivity and the log of a task update.  The file that is being
\* compressed has the time of the log, unless it was renamed meanwhile.
Write(l) ==
    /\ "append" \in Faults \/ l \notin Compressing
    /\ Room
    /\ Tick
    /\ text' = [text EXCEPT ![l] = now']
    /\ spoiled' = spoiled \cup (Compressing \cap {l})
    /\ uploader' = IF l \in Compressing /\ uploader.open = text[l]
                   THEN [uploader EXCEPT !.open = now'] ELSE uploader
    /\ UNCHANGED <<wanted, manager, call, marked, queue, gz>>

\* The task is started again, and its log file renamed.
Rotate(l) ==
    /\ text[l] # 0
    /\ text' = [text EXCEPT ![l] = 0]
    /\ UNCHANGED <<wanted, manager, call, marked, queue, uploader, now, gz, spoiled>>

UploaderStep ==
    \/ Take
    \/ NeedNotCompress \/ Compress \/ Copy \/ CompressFails \/ FinishCompressed
    \/ Upload \/ UploadFails \/ Unmark \/ GoEnds

QueueStep(r) ==
    \/ \E l \in Logs : Skip(r, l) \/ Check(r, l)
    \/ Mark(r) \/ Put(r) \/ QueueFull(r) \/ PutPanics(r)

Next ==
    \/ UploaderStep
    \/ \E r \in Requesters : QueueAll(r) \/ QueueStep(r)
    \/ \E l \in Logs : ServerAsks(l) \/ Write(l) \/ Rotate(l)
    \/ Close \/ Restart

Spec == Init /\ [][Next]_vars

(***************************************************************************)
(* Goroutines run, the Manager pushes again and again, and the Server can  *)
(* be reached again and again.                                             *)
(***************************************************************************)
FairSpec ==
    /\ Spec
    /\ WF_vars(UploaderStep) /\ SF_vars(Upload)
    /\ \A r \in Requesters : WF_vars(QueueAll(r)) /\ WF_vars(QueueStep(r))

-----------------------------------------------------------------------------
(* Safety *)

(***************************************************************************)
(* "If the tuple is already queued, queueing is a no-op, even when         *)
(* uploading is already in progress" (task_log_uploader.go:43): a log is   *)
(* queued once, and not while it is being uploaded.  It holds for one call *)
(* of QueueAll at a time only; every push starts one of its own.           *)
(***************************************************************************)
QueuedOnce ==
    /\ \A i, j \in DOMAIN queue : i # j => queue[i] # queue[j]
    /\ uploader.pc \notin {"wait", "done"} =>
        \A i \in DOMAIN queue : queue[i] # uploader.log

WholeLog == gz[uploader.log].whole /\ gz[uploader.log].has >= uploader.had

(***************************************************************************)
(* What is uploaded has the whole log, as it was when the uploader looked  *)
(* at it to compress it, or more: after rotation, failed uploads, restarts *)
(* and writes to the log.  It does not hold for the compressed file of a   *)
(* log that is `spoiled`, which is newer than the log and not made again.  *)
(***************************************************************************)
UploadsWholeLog ==
    uploader.pc = "upload" /\ uploader.log \notin spoiled => WholeLog

(***************************************************************************)
(* "assert.Equal(t, payload, decomp)" (task_log_uploader_test.go:98), with *)
(* no exception: contradicted by a log that cannot be compressed           *)
(* completely the first time.                                              *)
(***************************************************************************)
UploadsOnlyWholeLogs == uploader.pc = "upload" => WholeLog

(***************************************************************************)
(* "Close gracefully shuts down the task uploader goroutine"               *)
(* (task_log_uploader.go:122).  A call of QueueAll that is still going on  *)
(* ends the program.                                                       *)
(***************************************************************************)
ClosesGracefully == manager # "panicked"

-----------------------------------------------------------------------------
(* Liveness *)

(***************************************************************************)
(* "This function will keep getting called with tasks until those tasks    *)
(* have had their logfile uploaded to the Server"                          *)
(* (task_log_uploader.go:93).  The log that finds the queue full stays     *)
(* marked, and is skipped from then on.                                    *)
(***************************************************************************)
LogsArrive == \A l \in Logs : l \in wanted ~> l \notin wanted
=============================================================================
