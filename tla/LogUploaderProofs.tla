------------------------- MODULE LogUploaderProofs --------------------------
(* Theorems about LogUploader, for any logs, length of the queue and faults:  *)
(* what is uploaded is the whole log, and with one call of QueueAll at a time *)
(* no log is queued twice.                                                    *)
EXTENDS LogUploader, SequenceTheorems, TLAPS

Calls == [pc : {"idle", "check"}, todo : SUBSET Logs] \cup [pc : {"mark", "put"}, todo : SUBSET Logs, log : Logs]

BusyUploader == [pc : {"compress", "copy", "finish", "upload", "unmark"}, log : Logs, open : Times, had : Times]

LEMMA TimesAreNat ==
    /\ 0 \in Times
    /\ \A time \in Times : time \in Nat /\ time <= MaxTime
    /\ \A time \in Times : time < MaxTime => time + 1 \in Times
BY MaxTimeAssumption DEF Times

(* The kinds of calls and of uploaders. *)
LEMMA CallsAreTyped ==
    ASSUME TypeOK, NEW r \in Requesters
    PROVE  /\ call \in [Requesters -> Calls] /\ call[r] \in Calls
           /\ call[r].todo \in SUBSET Logs
           /\ call[r].pc \in {"mark", "put"} => call[r].log \in Logs
BY DEF TypeOK, Calls

LEMMA UploaderIsTyped ==
    ASSUME TypeOK, uploader.pc \notin {"wait", "done"}
    PROVE  uploader \in BusyUploader /\ uploader.log \in Logs
BY DEF TypeOK, BusyUploader

(* Where the uploader goes with the log it has. *)
LEMMA GotoTyped ==
    ASSUME TypeOK, NEW pc \in {"finish", "upload", "unmark"}, uploader.pc \notin {"wait", "done"}, Goto(pc)
    PROVE  /\ uploader' \in BusyUploader
           /\ uploader'.pc = pc /\ uploader'.log = uploader.log /\ uploader'.had = uploader.had /\ uploader'.open = uploader.open
BY UploaderIsTyped DEF Goto, BusyUploader

LEMMA ContinueTyped ==
    ASSUME NEW rest \in SUBSET Logs
    PROVE  Continue(rest) \in Calls /\ Continue(rest).pc \in {"idle", "check"}
BY DEF Continue, Idle, Calls

LEMMA FilesTyped ==
    /\ NoFile \in Files
    /\ \A time \in Times : [NoFile EXCEPT !.time = time] \in Files
BY TimesAreNat DEF NoFile, Files

LEMMA TypeInitially == Init => TypeOK
<1> SUFFICES ASSUME Init PROVE TypeOK
  OBVIOUS
<1>1. <<>> \in Seq(Logs) /\ Len(<<>>) = 0
  OBVIOUS
<1> QED  BY <1>1, TimesAreNat, FilesTyped, QueueSizeAssumption DEF Init, TypeOK, Idle, Waiting

LEMMA TypeKept == TypeOK /\ [Next]_vars => TypeOK'
<1> SUFFICES ASSUME TypeOK, [Next]_vars PROVE TypeOK'
  OBVIOUS
<1>1. ASSUME NEW r \in Requesters, QueueAll(r) PROVE TypeOK'
  <2>1. [pc |-> "check", todo |-> wanted] \in Calls
    BY DEF Calls, TypeOK
  <2> QED  BY <1>1, <2>1 DEF QueueAll, TypeOK, Calls, fileVars
<1>2. ASSUME NEW r \in Requesters, NEW l \in Logs, Skip(r, l) PROVE TypeOK'
  <2>1. Continue(call[r].todo \ {l}) \in Calls
    BY CallsAreTyped, ContinueTyped
  <2> QED  BY <1>2, <2>1 DEF Skip, TypeOK, Calls, fileVars
<1>3. ASSUME NEW r \in Requesters, NEW l \in Logs, Check(r, l) PROVE TypeOK'
  <2>1. [pc |-> "mark", todo |-> call[r].todo \ {l}, log |-> l] \in Calls
    BY CallsAreTyped DEF Calls
  <2> QED  BY <1>3, <2>1 DEF Check, TypeOK, Calls, fileVars
<1>4. ASSUME NEW r \in Requesters, Mark(r) PROVE TypeOK'
  <2>1. [call[r] EXCEPT !.pc = "put"] \in Calls /\ call[r].log \in Logs
    BY <1>4, CallsAreTyped DEF Calls, Mark
  <2> QED  BY <1>4, <2>1 DEF Mark, TypeOK, Calls, fileVars
<1>5. ASSUME NEW r \in Requesters, Put(r) PROVE TypeOK'
  <2>1. Continue(call[r].todo) \in Calls /\ call[r].log \in Logs
    BY <1>5, CallsAreTyped, ContinueTyped DEF Put
  <2>2. queue' \in Seq(Logs) /\ Len(queue') <= QueueSize
    BY <1>5, <2>1, QueueSizeAssumption DEF Put, TypeOK
  <2> QED  BY <1>5, <2>1, <2>2 DEF Put, TypeOK, Calls, fileVars
<1>6. ASSUME NEW r \in Requesters, QueueFull(r) PROVE TypeOK'
  <2>1. Idle \in Calls
    BY DEF Idle, Calls
  <2> QED  BY <1>6, <2>1 DEF QueueFull, TypeOK, Calls, fileVars
<1>7. ASSUME NEW r \in Requesters, PutPanics(r) PROVE TypeOK'
  BY <1>7 DEF PutPanics, TypeOK, fileVars
<1>8. CASE Take
  <2>1. queue' \in Seq(Logs) /\ Len(queue') <= QueueSize /\ Head(queue) \in Logs
    BY <1>8, QueueSizeAssumption DEF Take, TypeOK
  <2>2. uploader' \in BusyUploader
    BY <1>8, <2>1, TimesAreNat DEF Take, BusyUploader
  <2> QED  BY <1>8, <2>1, <2>2 DEF Take, TypeOK, BusyUploader, fileVars
<1>9. CASE NeedNotCompress
  <2>1. uploader' \in BusyUploader
    BY <1>9, UploaderIsTyped DEF NeedNotCompress, At, BusyUploader, TypeOK
  <2> QED  BY <1>9, <2>1 DEF NeedNotCompress, TypeOK, BusyUploader, fileVars
<1>10. CASE Compress
  <2>1. uploader \in BusyUploader /\ now' \in Times
    BY <1>10, UploaderIsTyped, TimesAreNat DEF Compress, At, Tick, TypeOK
  <2>2. text' \in [Logs -> Times]
    BY <1>10, <2>1 DEF Compress, TypeOK
  <2>3. gz' \in [Logs -> Files]
    BY <1>10, <2>1, FilesTyped DEF Compress, TypeOK
  <2>4. uploader' \in BusyUploader
    BY <1>10, <2>1, <2>2 DEF Compress, BusyUploader
  <2> QED  BY <1>10, <2>1, <2>2, <2>3, <2>4 DEF Compress, TypeOK, BusyUploader
<1>11. CASE Copy
  <2>1. uploader \in BusyUploader /\ uploader' \in BusyUploader
    BY <1>11, UploaderIsTyped, GotoTyped DEF Copy, At
  <2>2. gz' \in [Logs -> Files]
    BY <1>11, <2>1 DEF Copy, TypeOK, Files, BusyUploader
  <2> QED  BY <1>11, <2>1, <2>2 DEF Copy, TypeOK, BusyUploader
<1>12. CASE CompressFails
  <2>1. uploader \in BusyUploader /\ uploader' \in BusyUploader
    BY <1>12, UploaderIsTyped, GotoTyped DEF CompressFails, At
  <2> QED  BY <1>12, <2>1 DEF CompressFails, Compressing, TypeOK, BusyUploader
<1>13. CASE FinishCompressed
  <2>1. uploader \in BusyUploader /\ uploader' \in BusyUploader /\ now' \in Times
    BY <1>13, UploaderIsTyped, GotoTyped, TimesAreNat DEF FinishCompressed, At, Tick, TypeOK
  <2>2. gz' \in [Logs -> Files]
    BY <1>13, <2>1 DEF FinishCompressed, TypeOK, Files, BusyUploader
  <2> QED  BY <1>13, <2>1, <2>2 DEF FinishCompressed, TypeOK, BusyUploader
<1>14. CASE Upload \/ UploadFails
  <2>1. uploader' \in BusyUploader
    BY <1>14, GotoTyped DEF Upload, UploadFails, At
  <2> QED  BY <1>14, <2>1 DEF Upload, UploadFails, TypeOK, BusyUploader, fileVars
<1>15. CASE Unmark
  BY <1>15 DEF Unmark, Waiting, TypeOK, fileVars
<1>16. CASE GoEnds
  <2>1. uploader' \in [pc : {"wait", "done"}]
    BY <1>16 DEF GoEnds, At, Goto, TypeOK
  <2> QED  BY <1>16, <2>1 DEF GoEnds, TypeOK, fileVars
<1>17. CASE Close
  BY <1>17 DEF Close, TypeOK, fileVars
<1>18. CASE Restart
  <2>1. Idle \in Calls /\ <<>> \in Seq(Logs) /\ Len(<<>>) <= QueueSize /\ Compressing \subseteq Logs
    BY QueueSizeAssumption, UploaderIsTyped DEF Idle, Calls, Compressing
  <2> QED  BY <1>18, <2>1 DEF Restart, TypeOK, Waiting, Calls
<1>19. ASSUME NEW l \in Logs, ServerAsks(l) PROVE TypeOK'
  BY <1>19 DEF ServerAsks, TypeOK, fileVars
<1>20. ASSUME NEW l \in Logs, Write(l) PROVE TypeOK'
  <2>1. now' \in Times
    BY <1>20, TimesAreNat DEF Write, Tick, TypeOK
  <2>2. uploader' = uploader \/ (uploader \in BusyUploader /\ uploader' = [uploader EXCEPT !.open = now'])
    BY <1>20, UploaderIsTyped DEF Write, Compressing
  <2>3. uploader' = uploader \/ uploader' \in BusyUploader
    BY <2>1, <2>2 DEF BusyUploader
  <2> QED  BY <1>20, <2>1, <2>3 DEF Write, TypeOK, BusyUploader
<1>21. ASSUME NEW l \in Logs, Rotate(l) PROVE TypeOK'
  BY <1>21, TimesAreNat DEF Rotate, TypeOK
<1>22. CASE UNCHANGED vars
  BY <1>22 DEF vars, TypeOK
<1> QED
  BY <1>1, <1>2, <1>3, <1>4, <1>5, <1>6, <1>7, <1>8, <1>9, <1>10, <1>11, <1>12, <1>13, <1>14, <1>15, <1>16, <1>17,
     <1>18, <1>19, <1>20, <1>21, <1>22 DEF Next, UploaderStep, QueueStep

(* Type correctness of the files, the queue and the goroutines. *)
THEOREM TypeCorrect == Spec => []TypeOK
<1> QED  BY TypeInitially, TypeKept, PTL DEF Spec

-----------------------------------------------------------------------------
(* The whole log.                                                              *)

(* No file is from the future. *)
InThePast == \A l \in Logs : text[l] <= now /\ gz[l].time <= now

(* A compressed file that was finished is whole, and has all of the log that   *)
(* is not newer than it.                                                       *)
FinishedIsWhole ==
    \A l \in Logs \ (spoiled \cup Compressing) : gz[l] # NoFile =>
        gz[l].whole /\ (text[l] < gz[l].time => gz[l].has >= text[l])

(* The file that is compressed stays what it was at os.Stat, but for rotation. *)
CompressesWhatWas ==
    uploader.pc \in {"copy", "finish"} /\ uploader.log \notin spoiled =>
        /\ uploader.open = uploader.had
        /\ text[uploader.log] \in {0, uploader.open}
        /\ uploader.pc = "finish" => gz[uploader.log].has = uploader.open

IInv == TypeOK /\ InThePast /\ FinishedIsWhole /\ CompressesWhatWas /\ UploadsWholeLog

LEMMA IInvInitially == Init => IInv
<1> SUFFICES ASSUME Init PROVE IInv
  OBVIOUS
<1>1. TypeOK
  BY TypeInitially
<1>2. InThePast
  BY DEF Init, InThePast, NoFile
<1> QED  BY <1>1, <1>2 DEF Init, IInv, FinishedIsWhole, CompressesWhatWas, UploadsWholeLog, Waiting

(* What changes no files, and brings no log to where it is compressed or uploaded. *)
LEMMA FilesLeft ==
    ASSUME IInv, UNCHANGED fileVars,
           uploader' = uploader \/ uploader'.pc \in {"wait", "done", "compress", "unmark"},
           uploader.pc \in {"copy", "finish"} => uploader' = uploader
    PROVE  InThePast' /\ FinishedIsWhole' /\ CompressesWhatWas' /\ UploadsWholeLog'
<1>1. Compressing' = Compressing
  BY DEF Compressing
<1> QED  BY <1>1 DEF IInv, fileVars, InThePast, FinishedIsWhole, CompressesWhatWas, UploadsWholeLog, WholeLog

LEMMA IInvKept == IInv /\ [Next]_vars => IInv'
<1> SUFFICES ASSUME IInv, [Next]_vars PROVE InThePast' /\ FinishedIsWhole' /\ CompressesWhatWas' /\ UploadsWholeLog'
  BY TypeKept DEF IInv
<1>0. /\ TypeOK
      /\ now \in Nat /\ text \in [Logs -> Nat] /\ gz \in [Logs -> Files]
      /\ \A l \in Logs : gz[l].time \in Nat /\ gz[l].has \in Nat /\ gz[l] \in Files
  BY TimesAreNat DEF IInv, TypeOK, Files
<1>1. CASE UNCHANGED <<fileVars, uploader>>
  BY <1>1, FilesLeft DEF IInv
<1>2. CASE Take \/ Upload \/ UploadFails \/ Unmark \/ GoEnds
  <2>1. UNCHANGED fileVars /\ uploader.pc \in {"wait", "upload", "unmark"}
    BY <1>2 DEF Take, Upload, UploadFails, Unmark, GoEnds, At
  <2>2. uploader'.pc \in {"compress", "unmark", "wait", "done"}
    <3>1. CASE Upload \/ UploadFails
      BY <1>0, <3>1, GotoTyped DEF Upload, UploadFails, At
    <3>2. CASE GoEnds
      BY <1>0, <3>2 DEF GoEnds, At, Goto, TypeOK
    <3> QED  BY <1>2, <3>1, <3>2 DEF Take, Unmark, Waiting
  <2> QED  BY <2>1, <2>2, FilesLeft
(* A file that is up to date was finished, or is spoiled. *)
<1>3. CASE NeedNotCompress
  <2>1. uploader.log \in Logs /\ uploader \in BusyUploader /\ uploader.pc = "compress"
    BY <1>0, <1>3, UploaderIsTyped DEF NeedNotCompress, At
  <2>2. uploader'.pc = "upload" /\ uploader'.log = uploader.log /\ uploader'.had = text[uploader.log]
    BY <1>3, <2>1 DEF NeedNotCompress, BusyUploader
  <2>3. Compressing = {} /\ Compressing' = {}
    BY <2>1, <2>2 DEF Compressing
  <2>4. InThePast' /\ FinishedIsWhole' /\ CompressesWhatWas'
    BY <1>3, <2>2, <2>3 DEF NeedNotCompress, fileVars, IInv, InThePast, FinishedIsWhole, CompressesWhatWas
  <2>5. uploader.log \notin spoiled => WholeLog'
    BY <1>0, <1>3, <2>1, <2>2, <2>3 DEF NeedNotCompress, fileVars, UpToDate, WholeLog, IInv, FinishedIsWhole
  <2> QED  BY <1>3, <2>2, <2>4, <2>5 DEF NeedNotCompress, fileVars, UploadsWholeLog
<1>4. CASE Compress
  <2> DEFINE l == uploader.log
  <2>1. l \in Logs /\ uploader \in BusyUploader /\ uploader.pc = "compress" /\ now' = now + 1
    BY <1>0, <1>4, UploaderIsTyped DEF Compress, At, Tick
  <2>2. /\ uploader'.pc = "copy" /\ uploader'.log = l
        /\ uploader'.open = text'[l] /\ uploader'.had = text'[l]
    BY <1>4, <2>1 DEF Compress, BusyUploader
  <2>3. Compressing = {} /\ Compressing' = {l}
    BY <2>1, <2>2 DEF Compressing
  <2>4. \A m \in Logs \ {l} : text'[m] = text[m] /\ gz'[m] = gz[m]
    BY <1>0, <1>4 DEF Compress
  <2>5. text'[l] \in {text[l], now'} /\ gz'[l].time = now'
    BY <1>0, <1>4, <2>1 DEF Compress, NoFile
  <2>6. spoiled' = spoiled \ {l}
    BY <1>4 DEF Compress
  <2>7. InThePast'
    BY <1>0, <2>1, <2>4, <2>5 DEF IInv, InThePast
  <2>8. FinishedIsWhole'
    BY <2>3, <2>4, <2>6 DEF IInv, FinishedIsWhole
  <2>9. CompressesWhatWas' /\ UploadsWholeLog'
    BY <2>2 DEF CompressesWhatWas, UploadsWholeLog
  <2> QED  BY <2>7, <2>8, <2>9
<1>5. CASE Copy
  <2> DEFINE l == uploader.log
  <2>1. l \in Logs /\ uploader.pc = "copy" /\ Goto("finish")
    BY <1>0, <1>5, UploaderIsTyped DEF Copy, At
  <2>2. uploader'.pc = "finish" /\ uploader'.log = l /\ uploader'.open = uploader.open /\ uploader'.had = uploader.had
    BY <1>0, <2>1, GotoTyped
  <2>3. Compressing = {l} /\ Compressing' = {l}
    BY <2>1, <2>2 DEF Compressing
  <2>4. /\ \A m \in Logs \ {l} : gz'[m] = gz[m]
        /\ gz'[l].has = uploader.open /\ gz'[l].time = gz[l].time
        /\ UNCHANGED <<now, text, spoiled>>
    BY <1>0, <1>5, <2>1 DEF Copy, Files
  <2>5. InThePast' /\ FinishedIsWhole'
    BY <2>3, <2>4 DEF IInv, InThePast, FinishedIsWhole
  <2> QED  BY <2>1, <2>2, <2>4, <2>5 DEF IInv, CompressesWhatWas, UploadsWholeLog
<1>6. CASE CompressFails
  <2>1. uploader.pc \in {"compress", "copy"} /\ Goto("unmark")
    BY <1>6 DEF CompressFails, At
  <2>2. uploader'.pc = "unmark"
    BY <1>0, <2>1, GotoTyped
  <2>3. UNCHANGED <<now, text, gz>> /\ spoiled' = spoiled \cup Compressing
    BY <1>6 DEF CompressFails
  <2> QED  BY <2>2, <2>3 DEF IInv, InThePast, FinishedIsWhole, CompressesWhatWas, UploadsWholeLog
(* The file is finished with all of the log that was found at os.Stat. *)
<1>7. CASE FinishCompressed
  <2> DEFINE l == uploader.log
  <2>1. l \in Logs /\ uploader \in BusyUploader /\ uploader.pc = "finish" /\ Goto("upload") /\ now' = now + 1
    BY <1>0, <1>7, UploaderIsTyped DEF FinishCompressed, At, Tick
  <2>2. uploader'.pc = "upload" /\ uploader'.log = l /\ uploader'.had = uploader.had /\ uploader.had \in Nat
    BY <1>0, <2>1, GotoTyped, TimesAreNat DEF BusyUploader
  <2>3. Compressing = {l} /\ Compressing' = {}
    BY <2>1, <2>2 DEF Compressing
  <2>4. /\ \A m \in Logs \ {l} : gz'[m] = gz[m]
        /\ gz'[l].has = gz[l].has /\ gz'[l].time = now' /\ gz'[l].whole
        /\ UNCHANGED <<text, spoiled>>
    BY <1>0, <1>7, <2>1 DEF FinishCompressed, Files
  <2>5. InThePast'
    BY <1>0, <2>1, <2>4 DEF IInv, InThePast
  <2>6. l \notin spoiled => gz'[l].has = uploader.had /\ text[l] \in {0, uploader.had}
    BY <2>1, <2>4 DEF IInv, CompressesWhatWas
  <2>7. FinishedIsWhole'
    BY <1>0, <2>2, <2>3, <2>4, <2>6 DEF IInv, FinishedIsWhole
  <2>8. UploadsWholeLog'
    BY <2>2, <2>4, <2>6 DEF UploadsWholeLog, WholeLog
  <2> QED  BY <2>2, <2>5, <2>7, <2>8 DEF CompressesWhatWas
<1>8. CASE Restart
  <2>1. uploader'.pc = "wait" /\ UNCHANGED <<now, text, gz>> /\ spoiled' = spoiled \cup Compressing
    BY <1>8 DEF Restart, Waiting
  <2> QED  BY <2>1 DEF IInv, InThePast, FinishedIsWhole, CompressesWhatWas, UploadsWholeLog
(* A log that is written to is newer than its compressed file. *)
<1>9. ASSUME NEW l \in Logs, Write(l) PROVE InThePast' /\ FinishedIsWhole' /\ CompressesWhatWas' /\ UploadsWholeLog'
  <2>1. now' = now + 1 /\ UNCHANGED gz /\ text'[l] = now' /\ \A m \in Logs \ {l} : text'[m] = text[m]
    BY <1>0, <1>9 DEF Write, Tick
  <2>2. spoiled' = spoiled \cup (Compressing \cap {l})
    BY <1>9 DEF Write
  <2>3. uploader' = uploader \/ (l \in Compressing /\ uploader' = [uploader EXCEPT !.open = now'])
    BY <1>9 DEF Write
  <2>4. uploader'.pc = uploader.pc /\ (uploader' # uploader => l = uploader.log /\ uploader'.log = l /\ l \in Compressing)
    BY <1>0, <2>3, UploaderIsTyped DEF Compressing, BusyUploader
  <2>5. Compressing' = Compressing
    BY <2>4 DEF Compressing
  <2>6. InThePast'
    BY <1>0, <2>1 DEF IInv, InThePast
  <2>7. FinishedIsWhole'
    BY <1>0, <2>1, <2>2, <2>5 DEF IInv, InThePast, FinishedIsWhole
  <2>8. CompressesWhatWas'
    <3>1. CASE uploader.pc \in {"copy", "finish"} /\ uploader.log # l
      <4>1. uploader.log \in Logs \ {l} /\ uploader' = uploader
        BY <1>0, <2>4, <3>1, UploaderIsTyped
      <4> QED  BY <2>1, <2>2, <4>1 DEF IInv, CompressesWhatWas
    <3>2. CASE uploader.pc \in {"copy", "finish"} /\ uploader.log = l
      BY <2>2, <2>4, <3>2 DEF CompressesWhatWas, Compressing
    <3> QED  BY <2>4, <3>1, <3>2 DEF CompressesWhatWas
  <2>9. UploadsWholeLog'
    <3>1. uploader.pc = "upload" => uploader' = uploader
      BY <2>3 DEF Compressing
    <3> QED  BY <2>1, <2>2, <2>4, <3>1 DEF IInv, UploadsWholeLog, WholeLog
  <2> QED  BY <2>6, <2>7, <2>8, <2>9
<1>10. ASSUME NEW l \in Logs, Rotate(l) PROVE InThePast' /\ FinishedIsWhole' /\ CompressesWhatWas' /\ UploadsWholeLog'
  <2>1. text'[l] = 0 /\ (\A m \in Logs \ {l} : text'[m] = text[m]) /\ UNCHANGED <<uploader, now, gz, spoiled>>
    BY <1>0, <1>10 DEF Rotate
  <2>2. Compressing' = Compressing
    BY <2>1 DEF Compressing
  <2>3. InThePast' /\ FinishedIsWhole'
    BY <1>0, <2>1, <2>2 DEF IInv, InThePast, FinishedIsWhole
  <2>4. CompressesWhatWas'
    <3>1. uploader.pc \in {"copy", "finish"} => uploader.log \in Logs
      BY <1>0, UploaderIsTyped
    <3> QED  BY <2>1, <3>1 DEF IInv, CompressesWhatWas
  <2> QED  BY <2>1, <2>3, <2>4 DEF IInv, UploadsWholeLog, WholeLog
<1>11. ASSUME NEW r \in Requesters, QueueAll(r) \/ QueueStep(r) PROVE UNCHANGED <<fileVars, uploader>>
  BY <1>11 DEF QueueAll, QueueStep, Skip, Check, Mark, Put, QueueFull, PutPanics
<1>12. ASSUME NEW l \in Logs, ServerAsks(l) PROVE UNCHANGED <<fileVars, uploader>>
  BY <1>12 DEF ServerAsks
<1>13. ASSUME Close PROVE UNCHANGED <<fileVars, uploader>>
  BY <1>13 DEF Close
<1>14. ASSUME UNCHANGED vars PROVE UNCHANGED <<fileVars, uploader>>
  BY <1>14 DEF vars, fileVars
<1> QED
  BY <1>1, <1>2, <1>3, <1>4, <1>5, <1>6, <1>7, <1>8, <1>9, <1>10, <1>11, <1>12, <1>13, <1>14 DEF Next, UploaderStep

(* The invariant of the files: what is not spoiled is whole. *)
THEOREM Invariant == Spec => []IInv
<1> QED  BY IInvInitially, IInvKept, PTL DEF Spec

(* What is uploaded is the whole log of when the uploader looked at it,        *)
(* unless its compressed file is spoiled, for any faults.                      *)
THEOREM UploadsWholeLogAlways == Spec => []UploadsWholeLog
<1>1. IInv => UploadsWholeLog
  BY DEF IInv
<1> QED  BY <1>1, Invariant, PTL

-----------------------------------------------------------------------------
(* The queue, for one call of QueueAll at a time.                              *)

OneCall == \A r, s \in Requesters : r = s

Busy == uploader.pc \notin {"wait", "done"}

(* What is in the queue or with the uploader is marked; what is not marked may *)
(* be marked and put, which nobody else does meanwhile.                        *)
Marked ==
    /\ \A i \in DOMAIN queue : queue[i] \in marked
    /\ Busy => uploader.log \in marked
    /\ \A r \in Requesters :
           /\ call[r].pc = "mark" => call[r].log \notin marked
           /\ call[r].pc = "put" =>
                  /\ call[r].log \in marked
                  /\ \A i \in DOMAIN queue : queue[i] # call[r].log
                  /\ Busy => uploader.log # call[r].log

QInv == OneCall /\ TypeOK /\ Marked /\ QueuedOnce

LEMMA QInvInitially == OneCall /\ Init => QInv
<1> SUFFICES ASSUME OneCall, Init PROVE Marked /\ QueuedOnce
  BY TypeInitially DEF QInv
<1>1. queue = <<>> /\ DOMAIN queue = {}
  BY DEF Init
<1> QED  BY <1>1 DEF Init, Marked, QueuedOnce, Busy, Waiting, Idle

(* The uploader goes on with its log, or a call with none. *)
LEMMA QueueLeft ==
    ASSUME QInv, UNCHANGED <<queue, marked>>,
           Busy' => Busy /\ uploader'.log = uploader.log,
           \A r \in Requesters : call'[r] = call[r] \/ call'[r].pc \in {"idle", "check"}
    PROVE  Marked' /\ QueuedOnce'
BY DEF QInv, Marked, QueuedOnce, Busy

LEMMA QInvKept == QInv /\ [Next]_vars => QInv'
<1> SUFFICES ASSUME QInv, [Next]_vars PROVE Marked' /\ QueuedOnce'
  BY TypeKept DEF QInv, OneCall
<1>0. TypeOK /\ queue \in Seq(Logs) /\ DOMAIN queue = 1 .. Len(queue) /\ Len(queue) \in Nat
  BY DEF QInv, TypeOK
<1>1. ASSUME NEW r \in Requesters, QueueAll(r) PROVE Marked' /\ QueuedOnce'
  <2>1. \A s \in Requesters : call'[s] = call[s] \/ call'[s].pc \in {"idle", "check"}
    BY <1>0, <1>1, CallsAreTyped DEF QueueAll
  <2> QED  BY <1>1, <2>1, QueueLeft DEF QueueAll, Busy
<1>2. ASSUME NEW r \in Requesters, NEW l \in Logs, Skip(r, l) PROVE Marked' /\ QueuedOnce'
  <2>1. Continue(call[r].todo \ {l}).pc \in {"idle", "check"}
    BY <1>0, CallsAreTyped, ContinueTyped
  <2>2. \A s \in Requesters : call'[s] = call[s] \/ call'[s].pc \in {"idle", "check"}
    BY <1>0, <1>2, <2>1, CallsAreTyped DEF Skip
  <2> QED  BY <1>2, <2>2, QueueLeft DEF Skip, Busy
<1>3. ASSUME NEW r \in Requesters, NEW l \in Logs, Check(r, l) PROVE Marked' /\ QueuedOnce'
  <2>1. call'[r].pc = "mark" /\ call'[r].log = l /\ l \notin marked /\ \A s \in Requesters : s = r
    BY <1>0, <1>3, CallsAreTyped DEF Check, QInv, OneCall
  <2> QED  BY <1>3, <2>1 DEF Check, QInv, Marked, QueuedOnce, Busy
<1>4. ASSUME NEW r \in Requesters, Mark(r) PROVE Marked' /\ QueuedOnce'
  <2>1. call[r].pc = "mark" /\ call[r].log \notin marked /\ \A s \in Requesters : s = r
    BY <1>4 DEF Mark, QInv, OneCall, Marked
  <2>2. call'[r].pc = "put" /\ call'[r].log = call[r].log
    BY <1>0, <1>4, CallsAreTyped DEF Mark, Calls
  <2>3. marked' = marked \cup {call[r].log} /\ UNCHANGED <<queue, uploader>>
    BY <1>4 DEF Mark
  <2> QED  BY <2>1, <2>2, <2>3 DEF QInv, Marked, QueuedOnce, Busy
<1>5. ASSUME NEW r \in Requesters, Put(r) PROVE Marked' /\ QueuedOnce'
  <2>1. /\ call[r].pc = "put" /\ call[r].log \in marked /\ call[r].log \in Logs
        /\ \A i \in DOMAIN queue : queue[i] # call[r].log
        /\ Busy => uploader.log # call[r].log
        /\ \A s \in Requesters : s = r
    BY <1>0, <1>5, CallsAreTyped DEF Put, QInv, OneCall, Marked
  <2>2. Continue(call[r].todo).pc \in {"idle", "check"}
    BY <1>0, CallsAreTyped, ContinueTyped
  <2>3. call'[r].pc \in {"idle", "check"} /\ UNCHANGED <<marked, uploader>>
    BY <1>0, <1>5, <2>2, CallsAreTyped DEF Put
  <2>4. /\ DOMAIN queue' = 1 .. Len(queue) + 1
        /\ \A i \in 1 .. Len(queue) : queue'[i] = queue[i]
        /\ queue'[Len(queue) + 1] = call[r].log
    BY <1>0, <1>5, <2>1 DEF Put
  <2>5. \A i \in DOMAIN queue' : i \in DOMAIN queue \/ i = Len(queue) + 1
    BY <1>0, <2>4
  <2>6. Marked'
    BY <1>0, <2>1, <2>3, <2>4, <2>5 DEF QInv, Marked, Busy
  <2>7. QueuedOnce'
    BY <1>0, <2>1, <2>3, <2>4, <2>5 DEF QInv, QueuedOnce, Busy
  <2> QED  BY <2>6, <2>7
<1>6. ASSUME NEW r \in Requesters, QueueFull(r) PROVE Marked' /\ QueuedOnce'
  <2>1. \A s \in Requesters : call'[s] = call[s] \/ call'[s].pc \in {"idle", "check"}
    BY <1>0, <1>6, CallsAreTyped DEF QueueFull, Idle
  <2> QED  BY <1>6, <2>1, QueueLeft DEF QueueFull, Busy
<1>7. ASSUME NEW r \in Requesters, PutPanics(r) PROVE Marked' /\ QueuedOnce'
  BY <1>7, QueueLeft DEF PutPanics, Busy
(* The log that is taken leaves the queue, where it was once. *)
<1>8. CASE Take
  <2>1. uploader.pc = "wait" /\ queue # <<>> /\ queue' = Tail(queue) /\ UNCHANGED <<marked, call>>
    BY <1>8 DEF Take, At
  <2>2. uploader'.log = queue[1] /\ Busy' /\ 1 \in DOMAIN queue
    BY <1>0, <1>8, <2>1 DEF Take, Busy
  <2>3. \A i \in DOMAIN queue' : i + 1 \in DOMAIN queue /\ i # 0 /\ i \in Nat /\ queue'[i] = queue[i + 1]
    BY <1>0, <2>1
  <2>4. Marked'
    BY <2>1, <2>2, <2>3 DEF QInv, Marked, Busy
  <2>5. \A i, j \in DOMAIN queue' : i # j => i + 1 # j + 1
    BY <2>3
  <2>6. \A i \in DOMAIN queue' : i + 1 # 1
    BY <2>3
  <2>7. QueuedOnce'
    BY <2>1, <2>2, <2>3, <2>5, <2>6 DEF QInv, QueuedOnce
  <2> QED  BY <2>4, <2>7
<1>9. CASE NeedNotCompress \/ Compress
  <2>1. uploader \in BusyUploader /\ Busy
    BY <1>0, <1>9, UploaderIsTyped DEF NeedNotCompress, Compress, At, Busy
  <2>2. uploader'.log = uploader.log
    BY <1>9, <2>1 DEF NeedNotCompress, Compress, BusyUploader
  <2> QED  BY <1>9, <2>1, <2>2, QueueLeft DEF NeedNotCompress, Compress
<1>10. CASE Copy \/ CompressFails \/ FinishCompressed \/ Upload \/ UploadFails
  <2>1. Busy /\ uploader'.log = uploader.log
    BY <1>0, <1>10, GotoTyped DEF Copy, CompressFails, FinishCompressed, Upload, UploadFails, At, Busy
  <2> QED  BY <1>10, <2>1, QueueLeft DEF Copy, CompressFails, FinishCompressed, Upload, UploadFails
(* Only the log that was uploaded is not marked any more. *)
<1>11. CASE Unmark
  <2>1. Busy /\ ~Busy' /\ marked' = marked \ {uploader.log} /\ UNCHANGED <<queue, call>>
    BY <1>11 DEF Unmark, At, Busy, Waiting
  <2>2. \A i \in DOMAIN queue : queue[i] # uploader.log
    BY <2>1 DEF QInv, QueuedOnce, Busy
  <2> QED  BY <2>1, <2>2 DEF QInv, Marked, QueuedOnce, Busy
<1>12. CASE GoEnds
  <2>1. ~Busy'
    BY <1>0, <1>12 DEF GoEnds, At, Goto, TypeOK, Busy
  <2> QED  BY <1>12, <2>1, QueueLeft DEF GoEnds
<1>13. CASE Restart
  <2>1. queue' = <<>> /\ DOMAIN queue' = {} /\ ~Busy' /\ \A r \in Requesters : call'[r].pc = "idle"
    BY <1>13 DEF Restart, Busy, Waiting, Idle
  <2> QED  BY <2>1 DEF Marked, QueuedOnce, Busy
<1>14. ASSUME NEW l \in Logs, Write(l) PROVE Marked' /\ QueuedOnce'
  <2>1. uploader' = uploader \/ (l \in Compressing /\ uploader' = [uploader EXCEPT !.open = now'])
    BY <1>14 DEF Write
  <2>2. uploader'.pc = uploader.pc /\ (Busy => uploader'.log = uploader.log)
    BY <1>0, <2>1, UploaderIsTyped DEF Compressing, BusyUploader, Busy
  <2> QED  BY <1>14, <2>2, QueueLeft DEF Write, Busy
<1>15. ASSUME NEW l \in Logs, ServerAsks(l) \/ Rotate(l) PROVE Marked' /\ QueuedOnce'
  BY <1>15, QueueLeft DEF ServerAsks, Rotate, Busy
<1>16. CASE Close \/ UNCHANGED vars
  BY <1>16, QueueLeft DEF Close, vars, Busy
<1> QED
  BY <1>1, <1>2, <1>3, <1>4, <1>5, <1>6, <1>7, <1>8, <1>9, <1>10, <1>11, <1>12, <1>13, <1>14, <1>15, <1>16
     DEF Next, UploaderStep, QueueStep

(* With one call of QueueAll at a time, no log is in the queue twice or while  *)
(* it is being uploaded (task_log_uploader.go:43).                             *)
THEOREM QueuedOnceAlways == OneCall /\ Spec => []QueuedOnce
<1>1. QInv => QueuedOnce
  BY DEF QInv
<1> QED  BY <1>1, QInvInitially, QInvKept, PTL DEF Spec
=============================================================================
