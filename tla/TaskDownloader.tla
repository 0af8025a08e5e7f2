--------------------------- MODULE TaskDownloader ---------------------------
(***************************************************************************)
(* The goroutine that downloads tasks from Flamenco Server into the cache, *)
(* the timer that drives it, the HTTP handlers that kick it, and how it is *)
(* shut down (flamenco/upstream.go, timer.go and closable.go).             *)
(*                                                                         *)
(* The channels are Go's: downloadKick and the pingback channels are       *)
(* unbuffered, so sending and receiving is one step of both sides;         *)
(* timerChan holds one tick.  A download, or a task that is refetched, is  *)
(* the version of the task: what the Server changed it to last when it     *)
(* answered.                                                               *)
(***************************************************************************)
EXTENDS Naturals

CONSTANTS
    Tasks,
    Kickers,     \* goroutines that call KickDownloader
    None,
    MaxVersion,  \* bound on the number of changes on the Server
    MayClose,    \* whether the Manager is shut down
    Faults       \* what may go wrong, see FaultKinds

FaultKinds == {"get",      \* the Server cannot be reached or answers with an error
               "header",   \* its answer says nothing of when tasks were last changed
               "upsert",   \* MongoDB does not store a task
               "refetch",  \* the scheduler refetches tasks at the same time
               "crash"}    \* the Manager is killed, or panics as settings are not saved

ASSUME NoneAssumption == None \notin Kickers
ASSUME MaxVersionAssumption == MaxVersion \in Nat
ASSUME MayCloseAssumption == MayClose \in BOOLEAN
ASSUME FaultsAssumption == Faults \subseteq FaultKinds

VARIABLES
    now,      \* Server: its clock, which ticks with every change of a task
    version,  \* Server: when each task was last changed, 0 for unknown tasks
    cached,   \* flamenco_tasks: the version of each task in the cache
    since,    \* settings.depsgraph_last_modified
    timer,    \* the goroutine of Timer
    tick,     \* whether there is a tick in timerChan
    refetch,  \* RefetchTask: the Server's answer, not stored yet
    missed,   \* history: the versions of tasks that got lost in the Manager
    loop,     \* the goroutine of downloadTaskLoop
    kicker,   \* the calls of KickDownloader
    closer    \* UpstreamConnection.Close

vars == <<now, version, cached, since, refetch, missed, timer, tick, loop, kicker, closer>>

serverVars == <<now, version>>
dbVars == <<cached, since, refetch, missed>>

Versions == 0 .. MaxVersion
Items == Tasks \X Versions

IdleLoop == [pc |-> "select", kicker |-> None, news |-> {}, upto |-> 0]
LoopStates == [pc : {"select", "get", "store", "save", "pingback", "done"},
               kicker : Kickers \cup {None}, news : SUBSET Items,
               upto : Versions]

\* `asked` is a history: the Server's clock when the call was made, or 0 when
\* the download the call waits for has failed.
IdleKicker == [pc |-> "idle", asked |-> 0]
KickerStates == [pc : {"idle", "kick", "kick and wait", "wait"}, asked : Versions]

TypeOK ==
    /\ now \in Versions
    /\ version \in [Tasks -> Versions]
    /\ cached \in [Tasks -> Versions]
    /\ since \in Versions
    /\ refetch \in SUBSET Items
    /\ missed \in SUBSET Items
    /\ timer \in {"sleep", "send", "done"}
    /\ tick \in BOOLEAN
    /\ loop \in LoopStates
    /\ kicker \in [Kickers -> KickerStates]
    /\ closer \in {"open", "kick closed", "waiting", "finished"}

Init ==
    /\ now = 0
    /\ version = [t \in Tasks |-> 0]
    /\ cached = [t \in Tasks |-> 0]
    /\ since = 0
    /\ refetch = {}
    /\ missed = {}
    /\ timer = "sleep"
    /\ tick = FALSE
    /\ loop = IdleLoop
    /\ kicker = [k \in Kickers |-> IdleKicker]
    /\ closer = "open"

KickClosed == closer # "open"                       \* downloadKick is closed
DoneClosed == closer \in {"waiting", "finished"}    \* doneChan is closed

-----------------------------------------------------------------------------
(* Timer *)

\* The time for the next tick has come.
TimerFires ==
    /\ timer = "sleep" /\ ~DoneClosed
    /\ timer' = "send"
    /\ UNCHANGED <<serverVars, dbVars, tick, loop, kicker, closer>>

TimerSends ==
    /\ timer = "send" /\ ~tick
    /\ timer' = "sleep"
    /\ tick' = TRUE
    /\ UNCHANGED <<serverVars, dbVars, loop, kicker, closer>>

\* Seen between sleeps only.
TimerStops ==
    /\ timer = "sleep" /\ DoneClosed
    /\ timer' = "done"
    /\ UNCHANGED <<serverVars, dbVars, tick, loop, kicker, closer>>

-----------------------------------------------------------------------------
(* KickDownloader *)

KickStart(k, pc) ==
    /\ kicker[k].pc = "idle"
    /\ kicker' = [kicker EXCEPT ![k] = [pc |-> pc, asked |-> now]]
    /\ UNCHANGED <<serverVars, dbVars, timer, tick, loop, closer>>

\* Sending on a closed channel panics, and net/http recovers from it.
KickPanics(k) ==
    /\ kicker[k].pc \in {"kick", "kick and wait"} /\ KickClosed
    /\ kicker' = [kicker EXCEPT ![k].pc = "idle"]
    /\ UNCHANGED <<serverVars, dbVars, timer, tick, loop, closer>>

KickAborted(k) ==
    /\ kicker[k].pc = "wait" /\ DoneClosed
    /\ kicker' = [kicker EXCEPT ![k].pc = "idle"]
    /\ UNCHANGED <<serverVars, dbVars, timer, tick, loop, closer>>

-----------------------------------------------------------------------------
(* The select statement of downloadTaskLoop *)

LoopStops ==
    /\ loop.pc = "select"
    /\ DoneClosed \/ KickClosed \/ (timer = "done" /\ ~tick)
    /\ loop' = [loop EXCEPT !.pc = "done"]
    /\ UNCHANGED <<serverVars, dbVars, timer, tick, kicker, closer>>

LoopTick ==
    /\ loop.pc = "select" /\ tick
    /\ tick' = FALSE
    /\ loop' = [loop EXCEPT !.pc = "get"]
    /\ UNCHANGED <<serverVars, dbVars, timer, kicker, closer>>

\* Mutant: a kick joins the download that is going on already.
LoopKickJoins(k) ==
    /\ loop.pc \in {"select", "store"} /\ ~KickClosed
    /\ kicker[k].pc = "kick and wait" /\ loop.kicker = None
    /\ loop' = [loop EXCEPT !.kicker = k, !.pc = IF @ = "select" THEN "get" ELSE @]
    /\ kicker' = [kicker EXCEPT ![k].pc = "wait"]
    /\ UNCHANGED <<serverVars, dbVars, timer, tick, closer>>

LoopKick(k) ==
    /\ loop.pc = "select" /\ ~KickClosed
    /\ \/ /\ kicker[k].pc = "kick"
          /\ loop' = [loop EXCEPT !.pc = "get"]
          /\ kicker' = [kicker EXCEPT ![k].pc = "idle"]
       \/ /\ kicker[k].pc = "kick and wait"
          /\ loop' = [loop EXCEPT !.pc = "get", !.kicker = k]
          /\ kicker' = [kicker EXCEPT ![k].pc = "wait"]
    /\ UNCHANGED <<serverVars, dbVars, timer, tick, closer>>

-----------------------------------------------------------------------------
(* downloadTasksFromUpstream *)

\* Back in downloadTaskLoop.
Downloaded == IF loop.kicker = None THEN IdleLoop
              ELSE [pc |-> "pingback", kicker |-> loop.kicker, news |-> {}, upto |-> 0]

\* Mutant: tasks that were changed right after the last download are skipped.
NewsSkipped == {<<t, version[t]>> : t \in {u \in Tasks : version[u] > since + 1}}

\* What the Server answers when asked for changes since the last download.
News == {<<t, version[t]>> : t \in {u \in Tasks : version[u] > since}}

\* Mutant: takes the time of the next change for that of the last one.
GetAhead ==
    /\ loop.pc = "get"
    /\ News # {}
    /\ loop' = [loop EXCEPT !.pc = "store", !.news = News, !.upto = now + 1]
    /\ UNCHANGED <<serverVars, dbVars, timer, tick, kicker, closer>>

Get ==
    /\ loop.pc = "get"
    /\ News # {}
    /\ loop' = [loop EXCEPT !.pc = "store", !.news = News, !.upto = now]
    /\ UNCHANGED <<serverVars, dbVars, timer, tick, kicker, closer>>

\* Mutant: whoever waits is forgotten when there is nothing to download.
GetNothingReturns ==
    /\ loop.pc = "get"
    /\ News = {}
    /\ loop' = IdleLoop
    /\ UNCHANGED <<serverVars, dbVars, timer, tick, kicker, closer>>

\* 204 or 304.
GetNothing ==
    /\ loop.pc = "get"
    /\ News = {}
    /\ loop' = Downloaded
    /\ UNCHANGED <<serverVars, dbVars, timer, tick, kicker, closer>>

GetFails ==
    /\ "get" \in Faults
    /\ loop.pc = "get"
    /\ loop' = Downloaded
    /\ kicker' = [k \in Kickers |-> IF k = loop.kicker THEN [kicker[k] EXCEPT !.asked = 0]
                                   ELSE kicker[k]]
    /\ UNCHANGED <<serverVars, dbVars, timer, tick, closer>>

\* One task after the other, in any order.  A task that is not stored is
\* logged and skipped.
Store ==
    /\ loop.pc = "store"
    /\ \E item \in loop.news :
        /\ loop' = [loop EXCEPT !.news = @ \ {item},
                                !.pc = IF loop.news = {item} THEN "save" ELSE @]
        /\ \/ /\ cached' = [cached EXCEPT ![item[1]] = item[2]]
              /\ UNCHANGED missed
           \/ /\ "upsert" \in Faults
              /\ missed' = missed \cup {item}
              /\ UNCHANGED cached
    /\ UNCHANGED <<serverVars, since, refetch, timer, tick, kicker, closer>>

\* Mutant: saves the time of saving.
SaveNow ==
    /\ loop.pc = "save"
    /\ since' = now
    /\ loop' = Downloaded
    /\ UNCHANGED <<serverVars, cached, refetch, missed, timer, tick, kicker, closer>>

Save ==
    /\ loop.pc = "save"
    /\ \/ since' = loop.upto
       \/ "header" \in Faults /\ UNCHANGED since
    /\ loop' = Downloaded
    /\ UNCHANGED <<serverVars, cached, refetch, missed, timer, tick, kicker, closer>>

\* Both sides of the pingback channel have to be there.
Pingback(k) ==
    /\ loop.pc = "pingback" /\ loop.kicker = k
    /\ kicker[k].pc = "wait"
    /\ kicker' = [kicker EXCEPT ![k].pc = "idle"]
    /\ loop' = IdleLoop
    /\ UNCHANGED <<serverVars, dbVars, timer, tick, closer>>

-----------------------------------------------------------------------------
(* RefetchTask *)

\* Called with the scheduler's mutex locked, so that there is one at a time.
\* A task that did not change (304) is not stored.
RefetchGet(t) ==
    /\ "refetch" \in Faults
    /\ refetch = {}
    /\ cached[t] \notin {0, version[t]}
    /\ refetch' = {<<t, version[t]>>}
    /\ UNCHANGED <<serverVars, cached, since, missed, timer, tick, loop, kicker, closer>>

\* The downloader may have stored a newer version since.
RefetchStore ==
    /\ \E item \in refetch :
        /\ cached' = [cached EXCEPT ![item[1]] = item[2]]
        /\ missed' = IF cached[item[1]] > item[2]
                     THEN missed \cup {<<item[1], cached[item[1]]>>}
                     ELSE missed
    /\ refetch' = {}
    /\ UNCHANGED <<serverVars, since, timer, tick, loop, kicker, closer>>

-----------------------------------------------------------------------------
(* Close *)

CloseKick ==
    /\ MayClose
    /\ closer = "open"
    /\ closer' = "kick closed"
    /\ UNCHANGED <<serverVars, dbVars, timer, tick, loop, kicker>>

CloseDone ==
    /\ closer = "kick closed"
    /\ closer' = "waiting"
    /\ UNCHANGED <<serverVars, dbVars, timer, tick, loop, kicker>>

\* What has registered with closableAdd: the timer, the loop and who waits.
CloseFinishes ==
    /\ closer = "waiting"
    /\ timer = "done" /\ loop.pc = "done"
    /\ \A k \in Kickers : kicker[k].pc # "wait"
    /\ closer' = "finished"
    /\ UNCHANGED <<serverVars, dbVars, timer, tick, loop, kicker>>

-----------------------------------------------------------------------------
(* The surroundings *)

ServerChanges(t) ==
    /\ now < MaxVersion
    /\ now' = now + 1
    /\ version' = [version EXCEPT ![t] = now + 1]
    /\ UNCHANGED <<dbVars, timer, tick, loop, kicker, closer>>

\* The Manager is killed and started again, or starts again after Close.
Restart ==
    /\ "crash" \in Faults \/ closer = "finished"
    /\ timer' = "sleep"
    /\ tick' = FALSE
    /\ loop' = IdleLoop
    /\ kicker' = [k \in Kickers |-> IdleKicker]
    /\ closer' = "open"
    /\ refetch' = {}
    /\ UNCHANGED <<serverVars, cached, since, missed>>

TimerStep == TimerFires \/ TimerSends \/ TimerStops

LoopStep ==
    \/ LoopStops \/ LoopTick \/ \E k \in Kickers : LoopKick(k) \/ Pingback(k)
    \/ Get \/ GetNothing \/ GetFails \/ Store \/ Save

KickStep(k) == KickPanics(k) \/ KickAborted(k)

Next ==
    \/ TimerStep
    \/ LoopStep
    \/ \E k \in Kickers :
        KickStep(k) \/ KickStart(k, "kick") \/ KickStart(k, "kick and wait")
    \/ CloseKick \/ CloseDone \/ CloseFinishes
    \/ RefetchStore
    \/ \E t \in Tasks : RefetchGet(t) \/ ServerChanges(t)
    \/ Restart

Spec == Init /\ [][Next]_vars

(***************************************************************************)
(* Goroutines run, the clock of the timer advances, and the Server can be  *)
(* reached again and again.  A select statement picks any of the cases     *)
(* that are ready, so that none of them loses every time.                  *)
(***************************************************************************)
Fairness ==
    /\ WF_vars(TimerStep)
    /\ WF_vars(LoopStep)
    /\ SF_vars(LoopStops) /\ SF_vars(LoopTick)
    /\ \A k \in Kickers : SF_vars(LoopKick(k)) /\ WF_vars(KickStep(k))
    /\ SF_vars(Get)
    /\ WF_vars(CloseDone) /\ WF_vars(CloseFinishes)

FairSpec == Spec /\ Fairness

-----------------------------------------------------------------------------
(* Safety *)

(***************************************************************************)
(* A change of a task that the Manager is not going to ask for any more is *)
(* in the cache, wherever downloads fail or the Manager is killed.  It     *)
(* gets lost in two ways only: MongoDB did not store it (upstream.go:226), *)
(* or RefetchTask overwrote it with what the Server answered before.       *)
(***************************************************************************)
NothingSkipped ==
    \A t \in Tasks :
        version[t] <= since => cached[t] = version[t] \/ <<t, version[t]>> \in missed

(* What NothingSkipped rests on. *)
InThePast ==
    /\ since <= now
    /\ \A t \in Tasks : version[t] <= now
    /\ \A item \in refetch : item[2] <= version[item[1]]

\* The download that is going on has all changes up to `upto`, and no outdated
\* version of a task that would be asked for no more.
DownloadComplete ==
    loop.pc \in {"store", "save"} =>
        /\ since <= loop.upto /\ loop.upto <= now
        /\ \A t \in Tasks : version[t] <= loop.upto =>
            \/ cached[t] = version[t]
            \/ <<t, version[t]>> \in missed \cup loop.news
        /\ \A item \in loop.news :
            item[2] = version[item[1]] \/ version[item[1]] > loop.upto

SavedWhenStored == loop.pc = "save" => loop.news = {}

IInv == TypeOK /\ NothingSkipped /\ InThePast /\ DownloadComplete /\ SavedWhenStored

(***************************************************************************)
(* When KickDownloader returns after waiting, and neither because of a     *)
(* shutdown nor after a download that failed, no change from before the    *)
(* call is missing: the download it waited for did not start before it     *)
(* (scheduler.go:164, "Fetch updates to runnable tasks").                  *)
(***************************************************************************)
KickIsFresh ==
    [][\A k \in Kickers :
        loop.pc = "pingback" /\ kicker[k].pc = "wait" /\ kicker'[k].pc = "idle" /\ ~DoneClosed =>
            \A t \in Tasks : version[t] <= kicker[k].asked =>
                cached[t] = version[t] \/ <<t, version[t]>> \in missed]_vars

-----------------------------------------------------------------------------
(* Liveness *)

(***************************************************************************)
(* Every change of a task gets into the cache, wherever downloads fail or  *)
(* the Manager is killed, unless it is being shut down, or the change is   *)
(* one that NothingSkipped knows to be lost.                               *)
(***************************************************************************)
ChangesArrive ==
    \A t \in Tasks : cached[t] # version[t] ~>
        (cached[t] = version[t] \/ <<t, version[t]>> \in missed \/ closer # "open")

(***************************************************************************)
(* KickDownloader, which the scheduler calls with its mutex locked, always *)
(* returns, also when the Manager is shut down meanwhile.                  *)
(***************************************************************************)
KickReturns ==
    \A k \in Kickers : kicker[k].pc # "idle" ~> kicker[k].pc = "idle"

-----------------------------------------------------------------------------
(* What the source says of itself, and does not hold *)

(***************************************************************************)
(* "don't let the timer block" (timer.go:36), said of timerChan: the timer *)
(* of a component that is closed ends.  Two ticks during one download and  *)
(* it is blocked when the loop leaves through doneChan.                    *)
(***************************************************************************)
TimerEnds == closer = "waiting" ~> timer = "done"

(***************************************************************************)
(* "Close gracefully closes the upstream connection by stopping all        *)
(* upload/download loops" (upstream.go:66).  When the handler that waits   *)
(* for the pingback has left, nobody receives it.                          *)
(***************************************************************************)
DownloadLoopEnds == closer = "waiting" ~> loop.pc = "done"
=============================================================================
