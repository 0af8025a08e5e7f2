------------------------ MODULE TaskDownloaderProofs ------------------------
(***************************************************************************)
(* Theorems about TaskDownloader, for any number of tasks, kickers and     *)
(* changes, and whatever fails.                                            *)
(***************************************************************************)
EXTENDS TaskDownloader, TLAPS

(* Versions are natural numbers. *)
LEMMA VersionsAreNat ==
    /\ 0 \in Versions
    /\ \A v \in Versions : v \in Nat /\ v <= MaxVersion
    /\ \A v \in Versions : v < MaxVersion => v + 1 \in Versions
BY MaxVersionAssumption DEF Versions

(* A version of a task is a pair. *)
LEMMA ItemsArePairs ==
    /\ \A item \in Items :
        /\ item[1] \in Tasks /\ item[2] \in Versions
        /\ item = <<item[1], item[2]>>
    /\ \A t \in Tasks, v \in Versions : <<t, v>> \in Items
BY DEF Items

(* A call of KickDownloader that goes on. *)
LEMMA KickerMoves ==
    ASSUME TypeOK, NEW k \in Kickers,
           NEW pc \in {"idle", "kick", "kick and wait", "wait"}
    PROVE  [kicker EXCEPT ![k].pc = pc] \in [Kickers -> KickerStates]
<1>1. kicker \in [Kickers -> KickerStates]
  BY DEF TypeOK
<1>2. [kicker[k] EXCEPT !.pc = pc] \in KickerStates
  BY <1>1 DEF KickerStates
<1> QED  BY <1>1, <1>2

(* Where the loop goes after a download. *)
LEMMA DownloadedType ==
    ASSUME loop \in LoopStates
    PROVE  Downloaded \in LoopStates /\ Downloaded.pc \notin {"store", "save"}
BY VersionsAreNat DEF Downloaded, IdleLoop, LoopStates

(* What is news is the version of a task that was changed. *)
LEMMA NewsType ==
    ASSUME TypeOK
    PROVE  /\ News \in SUBSET Items
           /\ \A t \in Tasks : version[t] > since => <<t, version[t]>> \in News
           /\ \A item \in News : item[2] = version[item[1]]
BY ItemsArePairs DEF TypeOK, News

-----------------------------------------------------------------------------
LEMMA InitInv == Init => IInv
<1> SUFFICES ASSUME Init PROVE IInv
  OBVIOUS
<1>1. 0 \in Versions
  BY VersionsAreNat
<1>2. TypeOK
  BY <1>1 DEF Init, TypeOK, IdleLoop, LoopStates, IdleKicker, KickerStates
<1>3. NothingSkipped /\ InThePast /\ DownloadComplete /\ SavedWhenStored
  BY DEF Init, NothingSkipped, InThePast, DownloadComplete, SavedWhenStored, IdleLoop
<1> QED  BY <1>2, <1>3 DEF IInv

-----------------------------------------------------------------------------
(***************************************************************************)
(* A step that leaves the Server and the database alone, and after which   *)
(* the loop is not storing tasks, or is where it was.                      *)
(***************************************************************************)
LEMMA ControlOnly ==
    ASSUME IInv, TypeOK', UNCHANGED <<serverVars, cached, since, missed>>,
           refetch' \in {refetch, {}},
           loop' = loop \/ loop'.pc \notin {"store", "save"}
    PROVE  IInv'
<1>1. NothingSkipped'
  BY DEF IInv, NothingSkipped, serverVars
<1>2. InThePast'
  BY DEF IInv, InThePast, serverVars
<1>3. DownloadComplete' /\ SavedWhenStored'
  <2>1. CASE loop' = loop
    BY <2>1 DEF IInv, DownloadComplete, SavedWhenStored, serverVars
  <2>2. CASE loop'.pc \notin {"store", "save"}
    BY <2>2 DEF DownloadComplete, SavedWhenStored
  <2> QED  BY <2>1, <2>2
<1> QED  BY <1>1, <1>2, <1>3 DEF IInv

(* The steps of the timer, the kickers, Close, and a restart. *)
LEMMA TimerInv == ASSUME IInv, TimerStep PROVE IInv'
<1>1. TypeOK' /\ UNCHANGED <<serverVars, dbVars, loop>>
  BY DEF IInv, TimerStep, TimerFires, TimerSends, TimerStops, TypeOK, serverVars, dbVars
<1> QED  BY <1>1, ControlOnly DEF dbVars

LEMMA KickerInv ==
    ASSUME IInv, NEW k \in Kickers,
           KickStep(k) \/ KickStart(k, "kick") \/ KickStart(k, "kick and wait")
    PROVE  IInv'
<1>1. UNCHANGED <<serverVars, dbVars, timer, tick, loop, closer>>
  BY DEF KickStep, KickStart, KickPanics, KickAborted
<1>2. kicker' \in [Kickers -> KickerStates]
  <2>1. CASE KickStep(k)
    BY <2>1, KickerMoves DEF IInv, KickStep, KickPanics, KickAborted
  <2>2. ASSUME NEW pc \in {"kick", "kick and wait"}, KickStart(k, pc)
        PROVE  kicker' \in [Kickers -> KickerStates]
    BY <2>2 DEF IInv, TypeOK, KickStart, KickerStates
  <2> QED  BY <2>1, <2>2
<1>3. TypeOK'
  BY <1>1, <1>2 DEF IInv, TypeOK, serverVars, dbVars
<1> QED  BY <1>1, <1>3, ControlOnly DEF dbVars

LEMMA CloseInv ==
    ASSUME IInv, CloseKick \/ CloseDone \/ CloseFinishes
    PROVE  IInv'
<1>1. TypeOK' /\ UNCHANGED <<serverVars, dbVars, loop>>
  BY DEF IInv, TypeOK, CloseKick, CloseDone, CloseFinishes, serverVars, dbVars
<1> QED  BY <1>1, ControlOnly DEF dbVars

LEMMA RestartInv == ASSUME IInv, Restart PROVE IInv'
<1>1. 0 \in Versions
  BY VersionsAreNat
<1>2. IdleLoop \in LoopStates /\ IdleLoop.pc \notin {"store", "save"}
  BY <1>1 DEF IdleLoop, LoopStates
<1>3. TypeOK'
  BY <1>1, <1>2 DEF IInv, TypeOK, Restart, IdleKicker, KickerStates, serverVars
<1> QED  BY <1>2, <1>3, ControlOnly DEF Restart

-----------------------------------------------------------------------------
(* The steps of the loop. *)

LEMMA LoopControlInv ==
    ASSUME IInv,
           \/ LoopStops \/ LoopTick \/ GetNothing \/ GetFails
           \/ \E k \in Kickers : LoopKick(k) \/ Pingback(k)
    PROVE  IInv'
<1> USE DEF IInv
<1>1. UNCHANGED <<serverVars, dbVars, timer, closer>>
  BY DEF LoopStops, LoopTick, LoopKick, GetNothing, GetFails, Pingback
<1>2. loop' \in LoopStates /\ loop'.pc \notin {"store", "save"}
  <2>1. CASE LoopStops \/ LoopTick \/ \E k \in Kickers : LoopKick(k)
    BY <2>1 DEF TypeOK, LoopStops, LoopTick, LoopKick, LoopStates
  <2>2. CASE GetNothing \/ GetFails
    BY <2>2, DownloadedType DEF TypeOK, GetNothing, GetFails
  <2>3. CASE \E k \in Kickers : Pingback(k)
    BY <2>3, VersionsAreNat DEF Pingback, IdleLoop, LoopStates
  <2> QED  BY <2>1, <2>2, <2>3
<1>3. tick' \in BOOLEAN /\ kicker' \in [Kickers -> KickerStates]
  <2>1. ASSUME NEW k \in Kickers, LoopKick(k) \/ Pingback(k)
        PROVE  tick' \in BOOLEAN /\ kicker' \in [Kickers -> KickerStates]
    <3>1. tick' = tick
      BY <2>1 DEF LoopKick, Pingback
    <3>2. PICK pc \in {"idle", "wait"} : kicker' = [kicker EXCEPT ![k].pc = pc]
      BY <2>1 DEF LoopKick, Pingback
    <3>3. kicker' \in [Kickers -> KickerStates]
      BY <3>2, KickerMoves
    <3> QED  BY <3>1, <3>3 DEF TypeOK
  <2>2. CASE LoopStops \/ LoopTick \/ GetNothing
    BY <2>2 DEF TypeOK, LoopStops, LoopTick, GetNothing
  <2>3. CASE GetFails
    <3>1. ASSUME NEW k \in Kickers
          PROVE  [kicker[k] EXCEPT !.asked = 0] \in KickerStates
      BY VersionsAreNat DEF TypeOK, KickerStates
    <3> QED  BY <2>3, <3>1 DEF TypeOK, GetFails
  <2> QED  BY <2>1, <2>2, <2>3
<1>4. TypeOK'
  BY <1>1, <1>2, <1>3 DEF TypeOK, serverVars, dbVars
<1> QED  BY <1>1, <1>2, <1>4, ControlOnly DEF dbVars

(* What was changed up to now is in the cache already, or news. *)
LEMMA GetInv == ASSUME IInv, Get PROVE IInv'
<1> USE DEF IInv, Get, serverVars, dbVars
<1>1. loop' = [loop EXCEPT !.pc = "store", !.news = News, !.upto = now]
  OBVIOUS
<1>2. loop'.pc = "store" /\ loop'.news = News /\ loop'.upto = now
  BY <1>1 DEF TypeOK, LoopStates
<1>3. TypeOK'
  <2>1. loop' \in LoopStates
    BY <1>1, NewsType DEF TypeOK, LoopStates
  <2> QED  BY <2>1 DEF TypeOK
<1>4. NothingSkipped' /\ InThePast' /\ SavedWhenStored'
  BY <1>2 DEF NothingSkipped, InThePast, SavedWhenStored
<1>5. DownloadComplete'
  <2>1. since <= now
    BY DEF InThePast
  <2>2. ASSUME NEW t \in Tasks
        PROVE  cached[t] = version[t] \/ <<t, version[t]>> \in missed \cup News
    <3>1. CASE version[t] <= since
      BY <3>1 DEF NothingSkipped
    <3>2. CASE version[t] > since
      BY <3>2, NewsType
    <3>3. version[t] \in Nat /\ since \in Nat
      BY VersionsAreNat DEF TypeOK
    <3> QED  BY <3>1, <3>2, <3>3
  <2>3. \A item \in News : item[2] = version[item[1]]
    BY NewsType
  <2>4. now \in Nat
    BY VersionsAreNat DEF TypeOK
  <2> QED  BY <1>2, <2>1, <2>2, <2>3, <2>4 DEF DownloadComplete
<1> QED  BY <1>3, <1>4, <1>5

(* An outdated version is only stored of tasks that will be asked for again. *)
LEMMA StoreInv == ASSUME IInv, Store PROVE IInv'
<1> USE DEF IInv, serverVars
<1>1. PICK item \in loop.news :
        /\ loop' = [loop EXCEPT !.news = @ \ {item},
                                !.pc = IF loop.news = {item} THEN "save" ELSE @]
        /\ \/ /\ cached' = [cached EXCEPT ![item[1]] = item[2]]
              /\ UNCHANGED missed
           \/ /\ "upsert" \in Faults
              /\ missed' = missed \cup {item}
              /\ UNCHANGED cached
  BY DEF Store
<1>2. UNCHANGED <<serverVars, since, refetch, timer, tick, kicker, closer>>
  BY DEF Store
<1>3. loop.pc = "store"
  BY DEF Store
<1>4. PICK t \in Tasks, v \in Versions : item = <<t, v>>
  <2>1. item \in Items
    BY DEF TypeOK, LoopStates
  <2> QED  BY <2>1, ItemsArePairs
<1>5. /\ loop'.news = loop.news \ {item} /\ loop'.upto = loop.upto
      /\ loop'.pc = "save" => loop'.news = {}
  BY <1>1, <1>3 DEF TypeOK, LoopStates
<1>6. TypeOK'
  <2>1. loop' \in LoopStates
    BY <1>1 DEF TypeOK, LoopStates
  <2>2. cached' \in [Tasks -> Versions] /\ missed' \in SUBSET Items
    BY <1>1, <1>4, ItemsArePairs DEF TypeOK
  <2> QED  BY <1>2, <2>1, <2>2 DEF TypeOK
<1>7. /\ since \in Nat /\ loop.upto \in Nat /\ now \in Nat
      /\ \A u \in Tasks : version[u] \in Nat
  BY VersionsAreNat DEF TypeOK, LoopStates
<1>8. /\ since <= loop.upto /\ loop.upto <= now
      /\ v = version[t] \/ version[t] > loop.upto
  BY <1>3, <1>4 DEF DownloadComplete
<1>9. ASSUME NEW u \in Tasks, version[u] <= loop.upto,
             \/ cached[u] = version[u]
             \/ <<u, version[u]>> \in missed \cup loop.news
      PROVE  \/ cached'[u] = version[u]
             \/ <<u, version[u]>> \in missed' \cup loop'.news
  <2>1. CASE u = t
    <3>1. v = version[t]
      BY <1>7, <1>8, <1>9, <2>1
    <3>2. CASE cached' = [cached EXCEPT ![item[1]] = item[2]]
      BY <1>4, <2>1, <3>1, <3>2 DEF TypeOK
    <3>3. CASE missed' = missed \cup {item}
      BY <1>4, <2>1, <3>1, <3>3
    <3> QED  BY <1>1, <3>2, <3>3
  <2>2. CASE u # t
    <3>1. cached'[u] = cached[u] /\ missed \subseteq missed'
      BY <1>1, <1>4, <2>2 DEF TypeOK
    <3> QED  BY <1>4, <1>5, <1>9, <2>2, <3>1
  <2> QED  BY <2>1, <2>2
<1>10. DownloadComplete'
  <2>1. ASSUME NEW u \in Tasks, version[u] <= loop.upto
        PROVE  \/ cached'[u] = version[u]
               \/ <<u, version[u]>> \in missed' \cup loop'.news
    BY <1>3, <1>9, <2>1 DEF DownloadComplete
  <2>2. \A i \in loop'.news : i[2] = version[i[1]] \/ version[i[1]] > loop.upto
    BY <1>3, <1>5 DEF DownloadComplete
  <2> QED  BY <1>2, <1>5, <1>8, <2>1, <2>2 DEF DownloadComplete
<1>11. NothingSkipped'
  <2> SUFFICES ASSUME NEW u \in Tasks, version[u] <= since
               PROVE  cached'[u] = version[u] \/ <<u, version[u]>> \in missed'
    BY <1>2 DEF NothingSkipped
  <2>1. cached[u] = version[u] \/ <<u, version[u]>> \in missed
    BY DEF NothingSkipped
  <2>2. CASE u = t
    <3>1. v = version[t]
      BY <1>7, <1>8, <2>2
    <3> QED  BY <1>1, <1>4, <2>1, <2>2, <3>1 DEF TypeOK
  <2>3. CASE u # t
    <3>1. cached'[u] = cached[u] /\ missed \subseteq missed'
      BY <1>1, <1>4, <2>3 DEF TypeOK
    <3> QED  BY <2>1, <3>1
  <2> QED  BY <2>2, <2>3
<1>12. InThePast' /\ SavedWhenStored'
  BY <1>2, <1>5 DEF InThePast, SavedWhenStored
<1> QED  BY <1>6, <1>10, <1>11, <1>12

(* All that was downloaded is stored when the time of the download is saved. *)
LEMMA SaveInv == ASSUME IInv, Save PROVE IInv'
<1> USE DEF IInv, Save, serverVars
<1>1. loop' \in LoopStates /\ loop'.pc \notin {"store", "save"}
  BY DownloadedType DEF TypeOK
<1>2. loop.upto \in Versions
  BY DEF TypeOK, LoopStates
<1>3. TypeOK'
  BY <1>1, <1>2 DEF TypeOK
<1>4. NothingSkipped'
  BY DEF NothingSkipped, DownloadComplete, SavedWhenStored
<1>5. InThePast'
  BY DEF InThePast, DownloadComplete
<1>6. DownloadComplete' /\ SavedWhenStored'
  BY <1>1 DEF DownloadComplete, SavedWhenStored
<1> QED  BY <1>3, <1>4, <1>5, <1>6

-----------------------------------------------------------------------------
LEMMA RefetchGetInv ==
    ASSUME IInv, NEW t \in Tasks, RefetchGet(t)
    PROVE  IInv'
<1> USE DEF IInv, RefetchGet, serverVars
<1>1. TypeOK'
  BY ItemsArePairs DEF TypeOK
<1>2. NothingSkipped' /\ DownloadComplete' /\ SavedWhenStored'
  BY DEF NothingSkipped, DownloadComplete, SavedWhenStored
<1>3. InThePast'
  <2>1. version[t] \in Nat
    BY VersionsAreNat DEF TypeOK
  <2>2. refetch' = {<<t, version[t]>>}
    OBVIOUS
  <2>3. \A item \in refetch' : item[2] <= version[item[1]]
    BY <2>1, <2>2
  <2> QED  BY <2>3 DEF InThePast
<1> QED  BY <1>1, <1>2, <1>3

(* What it overwrites is either outdated as well, or missed from now on. *)
LEMMA RefetchStoreInv == ASSUME IInv, RefetchStore PROVE IInv'
<1> USE DEF IInv, serverVars
<1>1. PICK item \in refetch :
        /\ cached' = [cached EXCEPT ![item[1]] = item[2]]
        /\ missed' = IF cached[item[1]] > item[2]
                     THEN missed \cup {<<item[1], cached[item[1]]>>}
                     ELSE missed
  BY DEF RefetchStore
<1>2. refetch' = {} /\ UNCHANGED <<serverVars, since, timer, tick, loop, kicker, closer>>
  BY DEF RefetchStore
<1>3. PICK t \in Tasks, v \in Versions : item = <<t, v>>
  BY ItemsArePairs DEF TypeOK
<1>4. v \in Nat /\ \A u \in Tasks : version[u] \in Nat /\ cached[u] \in Nat
  BY VersionsAreNat DEF TypeOK
<1>5. v <= version[t]
  BY <1>3 DEF InThePast
<1>6. TypeOK'
  <2>1. cached' \in [Tasks -> Versions] /\ missed' \in SUBSET Items
    BY <1>1, <1>3, ItemsArePairs DEF TypeOK
  <2> QED  BY <1>2, <2>1 DEF TypeOK
<1>7. missed \subseteq missed'
  BY <1>1
<1>8. ASSUME NEW u \in Tasks, cached[u] = version[u]
      PROVE  cached'[u] = version[u] \/ <<u, version[u]>> \in missed'
  <2>1. CASE u # t
    BY <1>1, <1>3, <1>8, <2>1 DEF TypeOK
  <2>2. CASE u = t /\ v = version[t]
    BY <1>1, <1>3, <2>2 DEF TypeOK
  <2>3. CASE u = t /\ v # version[t]
    <3>1. cached[t] > v
      BY <1>4, <1>5, <1>8, <2>3
    <3> QED  BY <1>1, <1>3, <1>8, <2>3, <3>1
  <2> QED  BY <2>1, <2>2, <2>3
<1>9. NothingSkipped'
  BY <1>2, <1>7, <1>8 DEF NothingSkipped
<1>10. DownloadComplete'
  BY <1>2, <1>7, <1>8 DEF DownloadComplete
<1>11. InThePast' /\ SavedWhenStored'
  BY <1>2 DEF InThePast, SavedWhenStored
<1> QED  BY <1>6, <1>9, <1>10, <1>11

(* A change is newer than all that was saved or downloaded. *)
LEMMA ServerChangesInv ==
    ASSUME IInv, NEW t \in Tasks, ServerChanges(t)
    PROVE  IInv'
<1> USE DEF IInv, ServerChanges, dbVars
<1>1. now' = now + 1 /\ now + 1 \in Versions
  BY VersionsAreNat DEF TypeOK
<1>2. version' = [version EXCEPT ![t] = now + 1]
  OBVIOUS
<1>3. TypeOK'
  BY <1>1, <1>2 DEF TypeOK
<1>4. /\ now \in Nat /\ since \in Nat /\ loop.upto \in Nat
      /\ \A u \in Tasks : version[u] \in Nat
  BY VersionsAreNat DEF TypeOK, LoopStates
<1>5. version'[t] = now + 1 /\ \A u \in Tasks : u # t => version'[u] = version[u]
  BY <1>2 DEF TypeOK
<1>6. since <= now /\ \A u \in Tasks : version[u] <= now
  BY DEF InThePast
<1>7. NothingSkipped'
  BY <1>4, <1>5, <1>6 DEF NothingSkipped
<1>8. InThePast'
  <2>1. ASSUME NEW item \in refetch PROVE item[2] <= version'[item[1]]
    <3>1. item[1] \in Tasks /\ item[2] \in Nat
      BY VersionsAreNat, ItemsArePairs DEF TypeOK
    <3>2. item[2] <= version[item[1]]
      BY DEF InThePast
    <3> QED  BY <1>4, <1>5, <1>6, <3>1, <3>2
  <2> QED  BY <1>1, <1>4, <1>5, <1>6, <2>1 DEF InThePast
<1>9. DownloadComplete'
  <2> SUFFICES ASSUME loop.pc \in {"store", "save"}
               PROVE  /\ loop.upto <= now + 1
                      /\ \A u \in Tasks : version'[u] <= loop.upto =>
                           \/ cached[u] = version'[u]
                           \/ <<u, version'[u]>> \in missed \cup loop.news
                      /\ \A item \in loop.news :
                           item[2] = version'[item[1]] \/ version'[item[1]] > loop.upto
    BY <1>1 DEF DownloadComplete
  <2>1. loop.upto <= now
    BY DEF DownloadComplete
  <2>2. \A u \in Tasks : version'[u] <= loop.upto =>
           \/ cached[u] = version'[u]
           \/ <<u, version'[u]>> \in missed \cup loop.news
    BY <1>4, <1>5, <2>1 DEF DownloadComplete
  <2>3. \A item \in loop.news :
           item[2] = version'[item[1]] \/ version'[item[1]] > loop.upto
    <3>1. \A item \in loop.news : item[1] \in Tasks
      BY ItemsArePairs DEF TypeOK, LoopStates
    <3> QED  BY <1>4, <1>5, <2>1, <3>1 DEF DownloadComplete
  <2> QED  BY <1>4, <2>1, <2>2, <2>3
<1>10. SavedWhenStored'
  BY DEF SavedWhenStored
<1> QED  BY <1>3, <1>7, <1>8, <1>9, <1>10

-----------------------------------------------------------------------------
LEMMA NextInv == IInv /\ [Next]_vars => IInv'
<1> SUFFICES ASSUME IInv, [Next]_vars PROVE IInv'
  OBVIOUS
<1>1. CASE LoopStep
  BY <1>1, LoopControlInv, GetInv, StoreInv, SaveInv DEF LoopStep
<1>2. CASE UNCHANGED vars
  BY <1>2 DEF vars, IInv, TypeOK, NothingSkipped, InThePast, DownloadComplete, SavedWhenStored
<1> QED
  BY <1>1, <1>2, TimerInv, KickerInv, CloseInv, RestartInv, RefetchGetInv, RefetchStoreInv,
     ServerChangesInv DEF Next

(* The inductive invariant. *)
THEOREM Invariant == Spec => []IInv
BY InitInv, NextInv, PTL DEF Spec

(* Type correctness. *)
THEOREM TypeCorrect == Spec => []TypeOK
<1>1. IInv => TypeOK
  BY DEF IInv
<1> QED  BY Invariant, <1>1, PTL

(***************************************************************************)
(* Whatever fails and wherever the Manager is killed, a change the Manager *)
(* will not ask for again is in its cache, unless MongoDB did not store it *)
(* or RefetchTask overwrote it.                                            *)
(***************************************************************************)
THEOREM NothingSkippedEver == Spec => []NothingSkipped
<1>1. IInv => NothingSkipped
  BY DEF IInv
<1> QED  BY Invariant, <1>1, PTL

-----------------------------------------------------------------------------
(***************************************************************************)
(* Calls of KickDownloader that wait for the download they asked for.      *)
(***************************************************************************)
Known(t) == cached[t] = version[t] \/ <<t, version[t]>> \in missed

(* The loop works for whoever waits: for one at a time, from its kick to its pingback. *)
WorkedFor ==
    \A k \in Kickers : kicker[k].pc = "wait" => loop.kicker = k /\ loop.pc \in {"get", "store", "save", "pingback"}

(* A download has the changes of before the call, and so has the cache after it. *)
FreshFor(k) ==
    /\ loop.pc \in {"store", "save"} => kicker[k].asked <= loop.upto
    /\ loop.pc = "pingback" => \A t \in Tasks : version[t] <= kicker[k].asked => Known(t)

WaitInv ==
    /\ \A k \in Kickers : kicker[k].asked <= now
    /\ WorkedFor
    /\ \A k \in Kickers : kicker[k].pc = "wait" => FreshFor(k)

LEMMA WaitInitially == Init => WaitInv
BY VersionsAreNat DEF Init, WaitInv, WorkedFor, IdleKicker

(* A step that leaves the Server and the loop alone, and what is known. *)
LEMMA WaitLeft ==
    ASSUME WaitInv, UNCHANGED <<serverVars, loop>>,
           \A k \in Kickers : kicker'[k].asked <= now /\ (kicker'[k].pc = "wait" => kicker'[k] = kicker[k]),
           \A t \in Tasks : Known(t) => Known(t)'
    PROVE  WaitInv'
BY DEF WaitInv, WorkedFor, FreshFor, serverVars

(* What KickDownloader starts with. *)
LEMMA KickRecord ==
    ASSUME NEW r, NEW n, r = [pc |-> "kick", asked |-> n] \/ r = [pc |-> "kick and wait", asked |-> n]
    PROVE  r.pc # "wait" /\ r.asked = n
<1>1. CASE r = [pc |-> "kick", asked |-> n]
  BY <1>1
<1>2. CASE r = [pc |-> "kick and wait", asked |-> n]
  BY <1>2
<1> QED  BY <1>1, <1>2

LEMMA WaitKept == IInv /\ WaitInv /\ [Next]_vars => WaitInv'
<1> SUFFICES ASSUME IInv, WaitInv, [Next]_vars PROVE WaitInv'
  OBVIOUS
<1>0. /\ kicker \in [Kickers -> KickerStates] /\ loop \in LoopStates
      /\ now \in Nat /\ since \in Nat /\ loop.upto \in Nat
      /\ \A k \in Kickers : kicker[k].asked \in Nat
      /\ \A t \in Tasks : version[t] \in Nat /\ cached[t] \in Nat
  BY VersionsAreNat DEF IInv, TypeOK, KickerStates, LoopStates
<1>1. ASSUME UNCHANGED <<serverVars, cached, missed, loop, kicker>> PROVE WaitInv'
  BY <1>1, WaitLeft DEF WaitInv, Known, serverVars
<1>2. ASSUME NEW k \in Kickers, KickStep(k) \/ KickStart(k, "kick") \/ KickStart(k, "kick and wait") PROVE WaitInv'
  <2>1. \A j \in Kickers : kicker'[j].asked <= now /\ (kicker'[j].pc = "wait" => kicker'[j] = kicker[j])
    <3>1. CASE KickStep(k)
      <4>1. kicker' = [kicker EXCEPT ![k].pc = "idle"]
        BY <3>1 DEF KickStep, KickPanics, KickAborted
      <4>2. \A j \in Kickers : kicker'[j].asked = kicker[j].asked /\ (kicker'[j].pc = "idle" \/ kicker'[j] = kicker[j])
        BY <1>0, <4>1 DEF KickerStates
      <4> QED  BY <4>2 DEF WaitInv
    <3>2. CASE KickStart(k, "kick") \/ KickStart(k, "kick and wait")
      <4>1. \/ kicker' = [kicker EXCEPT ![k] = [pc |-> "kick", asked |-> now]]
            \/ kicker' = [kicker EXCEPT ![k] = [pc |-> "kick and wait", asked |-> now]]
        BY <3>2 DEF KickStart
      <4>2. \A j \in Kickers : kicker'[j] = kicker[j] \/ (kicker'[j].pc # "wait" /\ kicker'[j].asked = now)
        <5>1. \A j \in Kickers : j # k => kicker'[j] = kicker[j]
          BY <1>0, <4>1
        <5>2. kicker'[k] = [pc |-> "kick", asked |-> now] \/ kicker'[k] = [pc |-> "kick and wait", asked |-> now]
          BY <1>0, <4>1
        <5>3. kicker'[k].pc # "wait" /\ kicker'[k].asked = now
          BY <5>2, KickRecord
        <5> QED  BY <5>1, <5>3
      <4>3. \A j \in Kickers : kicker[j].asked <= now
        BY DEF WaitInv
      <4> QED  BY <1>0, <4>2, <4>3
    <3> QED  BY <1>2, <3>1, <3>2
  <2>2. UNCHANGED <<serverVars, cached, missed, loop>>
    BY <1>2 DEF KickStep, KickPanics, KickAborted, KickStart, dbVars
  <2> QED  BY <2>1, <2>2, WaitLeft DEF Known, serverVars
<1>3. CASE LoopStops \/ LoopTick
  <2>1. loop.pc = "select" /\ \A k \in Kickers : kicker'[k] = kicker[k] /\ kicker[k].pc # "wait"
    BY <1>3 DEF LoopStops, LoopTick, WaitInv, WorkedFor
  <2>2. UNCHANGED serverVars
    BY <1>3 DEF LoopStops, LoopTick
  <2> QED  BY <2>1, <2>2 DEF WaitInv, WorkedFor, serverVars
<1>4. ASSUME NEW k \in Kickers, LoopKick(k) PROVE WaitInv'
  <2>1. \A j \in Kickers : kicker[j].pc # "wait"
    BY <1>4 DEF LoopKick, WaitInv, WorkedFor
  <2>2. \A j \in Kickers : kicker'[j].asked = kicker[j].asked /\ (kicker'[j].pc = "wait" => j = k /\ loop'.kicker = k)
    <3>1. CASE kicker[k].pc = "kick"
      <4>1. kicker' = [kicker EXCEPT ![k].pc = "idle"]
        BY <1>4, <3>1 DEF LoopKick
      <4> QED  BY <1>0, <2>1, <4>1 DEF KickerStates
    <3>2. CASE kicker[k].pc = "kick and wait"
      <4>1. kicker' = [kicker EXCEPT ![k].pc = "wait"] /\ loop' = [loop EXCEPT !.pc = "get", !.kicker = k]
        BY <1>4, <3>2 DEF LoopKick
      <4>2. loop'.kicker = k
        BY <1>0, <4>1 DEF LoopStates
      <4> QED  BY <1>0, <2>1, <4>1, <4>2 DEF KickerStates
    <3> QED  BY <1>4, <3>1, <3>2 DEF LoopKick
  <2>3. loop'.pc = "get" /\ UNCHANGED serverVars
    BY <1>0, <1>4 DEF LoopKick, LoopStates
  <2> QED  BY <2>2, <2>3 DEF WaitInv, WorkedFor, FreshFor, serverVars
<1>5. CASE Get
  <2>1. /\ loop.pc = "get" /\ loop'.pc = "store" /\ loop'.kicker = loop.kicker /\ loop'.upto = now
        /\ UNCHANGED <<serverVars, kicker>>
    BY <1>0, <1>5 DEF Get, LoopStates
  <2> QED  BY <2>1 DEF WaitInv, WorkedFor, FreshFor, serverVars
(* Back in the loop, whoever waits is told, and all it asked for is known. *)
<1>6. ASSUME loop' = Downloaded, loop.pc # "select", loop.pc # "pingback", UNCHANGED <<serverVars, cached, missed>>,
             \A k \in Kickers : kicker'[k].pc = kicker[k].pc /\ kicker'[k].asked \in {0, kicker[k].asked},
             \A k \in Kickers : kicker[k].pc = "wait" =>
                 \A t \in Tasks : version[t] <= kicker'[k].asked => Known(t)
      PROVE  WaitInv'
  <2>1. ASSUME NEW k \in Kickers, kicker[k].pc = "wait" PROVE loop'.kicker = k /\ loop'.pc = "pingback"
    <3>1. loop.kicker = k /\ k # None
      BY <2>1, NoneAssumption DEF WaitInv, WorkedFor
    <3> QED  BY <1>6, <3>1 DEF Downloaded
  <2>2. \A k \in Kickers : kicker'[k].asked <= now
    BY <1>0, <1>6 DEF WaitInv
  <2>3. \A t \in Tasks : Known(t)' <=> Known(t)
    BY <1>6 DEF Known, serverVars
  <2> QED  BY <1>6, <2>1, <2>2, <2>3 DEF WaitInv, WorkedFor, FreshFor, serverVars
<1>7. CASE GetNothing
  <2>1. \A t \in Tasks : version[t] <= since
    BY <1>0, <1>7, NewsType DEF GetNothing, IInv
  <2>2. \A t \in Tasks : Known(t)
    BY <2>1 DEF IInv, NothingSkipped, Known
  <2> QED  BY <1>6, <1>7, <2>2 DEF GetNothing, dbVars
<1>8. CASE GetFails
  <2>1. \A k \in Kickers : kicker'[k].pc = kicker[k].pc /\ kicker'[k].asked = IF k = loop.kicker THEN 0 ELSE kicker[k].asked
    BY <1>0, <1>8 DEF GetFails, KickerStates
  <2>2. ASSUME NEW k \in Kickers, kicker[k].pc = "wait", NEW t \in Tasks, version[t] <= kicker'[k].asked PROVE Known(t)
    <3>1. version[t] <= since
      BY <1>0, <2>1, <2>2 DEF WaitInv, WorkedFor
    <3> QED  BY <3>1 DEF IInv, NothingSkipped, Known
  <2> QED  BY <1>6, <1>8, <2>1, <2>2 DEF GetFails, dbVars
<1>9. CASE Store
  <2>1. /\ loop.pc = "store" /\ loop'.pc \in {"store", "save"} /\ loop'.kicker = loop.kicker /\ loop'.upto = loop.upto
        /\ UNCHANGED <<serverVars, kicker>>
    BY <1>0, <1>9 DEF Store, LoopStates
  <2> QED  BY <2>1 DEF WaitInv, WorkedFor, FreshFor, serverVars
<1>10. CASE Save
  <2>1. ASSUME NEW k \in Kickers, kicker[k].pc = "wait", NEW t \in Tasks, version[t] <= kicker[k].asked PROVE Known(t)
    <3>1. loop.pc = "save" /\ loop.news = {} /\ kicker[k].asked <= loop.upto
      BY <1>10, <2>1 DEF Save, WaitInv, FreshFor, IInv, SavedWhenStored
    <3>2. version[t] <= loop.upto
      BY <1>0, <2>1, <3>1
    <3> QED  BY <3>1, <3>2 DEF IInv, DownloadComplete, Known
  <2> QED  BY <1>6, <1>10, <2>1 DEF Save
<1>11. ASSUME NEW k \in Kickers, Pingback(k) PROVE WaitInv'
  <2>1. loop.kicker = k /\ \A j \in Kickers : kicker'[j].pc # "wait" /\ kicker'[j].asked = kicker[j].asked
    BY <1>0, <1>11 DEF Pingback, WaitInv, WorkedFor, KickerStates
  <2> QED  BY <1>11, <2>1 DEF Pingback, WaitInv, WorkedFor, serverVars
(* A version that is overwritten is older than one that was missed by it. *)
<1>12. CASE RefetchStore
  <2>1. PICK item \in refetch :
            /\ cached' = [cached EXCEPT ![item[1]] = item[2]]
            /\ missed' = IF cached[item[1]] > item[2] THEN missed \cup {<<item[1], cached[item[1]]>>} ELSE missed
    BY <1>12 DEF RefetchStore
  <2>2. item[1] \in Tasks /\ item[2] \in Nat /\ item[2] <= version[item[1]]
    BY ItemsArePairs, VersionsAreNat DEF IInv, TypeOK, InThePast
  <2>3. UNCHANGED <<serverVars, loop, kicker>>
    BY <1>12 DEF RefetchStore
  <2>4. ASSUME NEW t \in Tasks, Known(t) PROVE Known(t)'
    <3>1. version'[t] = version[t]
      BY <2>3 DEF serverVars
    <3>2. CASE t # item[1]
      BY <2>1, <2>4, <3>1, <3>2 DEF Known, IInv, TypeOK
    <3>3. CASE t = item[1] /\ cached[t] = version[t]
      <4>1. cached'[t] = item[2]
        BY <2>1, <2>2, <3>3 DEF IInv, TypeOK
      <4>2. CASE cached[t] > item[2]
        BY <2>1, <3>1, <3>3, <4>2 DEF Known
      <4>3. CASE ~(cached[t] > item[2])
        BY <1>0, <2>2, <3>1, <3>3, <4>1, <4>3 DEF Known
      <4> QED  BY <4>2, <4>3
    <3>4. CASE <<t, version[t]>> \in missed
      BY <2>1, <3>1, <3>4 DEF Known
    <3> QED  BY <2>4, <3>2, <3>3, <3>4 DEF Known
  <2> QED  BY <2>3, <2>4, WaitLeft DEF WaitInv
(* A change of now is newer than every call. *)
<1>13. ASSUME NEW u \in Tasks, ServerChanges(u) PROVE WaitInv'
  <2>1. now' = now + 1 /\ version' = [version EXCEPT ![u] = now + 1] /\ UNCHANGED <<cached, missed, loop, kicker>>
    BY <1>13 DEF ServerChanges, dbVars
  <2>2. \A k \in Kickers : kicker[k].asked <= now' /\ ~(version'[u] <= kicker[k].asked)
    <3>1. version'[u] = now + 1
      BY <2>1 DEF IInv, TypeOK
    <3>2. \A k \in Kickers : kicker[k].asked <= now
      BY DEF WaitInv
    <3> QED  BY <1>0, <2>1, <3>1, <3>2
  <2>3. \A t \in Tasks \ {u} : version'[t] = version[t] /\ (Known(t)' <=> Known(t))
    BY <2>1 DEF IInv, TypeOK, Known
  <2>4. ASSUME NEW k \in Kickers, kicker'[k].pc = "wait" PROVE FreshFor(k)'
    <3>1. FreshFor(k)
      BY <2>1, <2>4 DEF WaitInv
    <3> QED  BY <2>1, <2>2, <2>3, <3>1 DEF FreshFor
  <2> QED  BY <2>1, <2>2, <2>4 DEF WaitInv, WorkedFor
<1>14. CASE Restart
  BY <1>0, <1>14, VersionsAreNat DEF Restart, WaitInv, WorkedFor, IdleKicker, serverVars
<1>15. CASE TimerStep \/ CloseKick \/ CloseDone \/ CloseFinishes \/ (\E t \in Tasks : RefetchGet(t)) \/ UNCHANGED vars
  <2>1. UNCHANGED <<serverVars, cached, missed, loop, kicker>>
    BY <1>15 DEF TimerStep, TimerFires, TimerSends, TimerStops, CloseKick, CloseDone, CloseFinishes, RefetchGet, vars,
                 serverVars, dbVars
  <2> QED  BY <1>1, <2>1
<1> QED
  BY <1>2, <1>3, <1>4, <1>5, <1>7, <1>8, <1>9, <1>10, <1>11, <1>12, <1>13, <1>14, <1>15 DEF Next, LoopStep

(***************************************************************************)
(* Whoever waited for a download has all changes of before its call,       *)
(* unless the download failed or the Manager was shut down meanwhile.      *)
(***************************************************************************)
THEOREM KickIsFreshAlways == Spec => KickIsFresh
<1> DEFINE Fresh ==
        \A k \in Kickers :
            loop.pc = "pingback" /\ kicker[k].pc = "wait" /\ kicker'[k].pc = "idle" /\ ~DoneClosed =>
                \A t \in Tasks : version[t] <= kicker[k].asked =>
                    cached[t] = version[t] \/ <<t, version[t]>> \in missed
<1>1. WaitInv => Fresh
  BY DEF WaitInv, FreshFor, Known
<1> QED  BY <1>1, Invariant, WaitInitially, WaitKept, PTL DEF Spec, KickIsFresh
=============================================================================
