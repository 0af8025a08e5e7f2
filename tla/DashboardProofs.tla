-------------------------- MODULE DashboardProofs ---------------------------
(* Theorems about Dashboard, for any workers, any number of polls in flight,  *)
(* and whatever goes wrong: the page never stops polling, and its selection   *)
(* and the checkbox above the table agree with what it shows.                 *)
EXTENDS Dashboard, FiniteSetTheorems, TLAPS

LEMMA CallsAreTyped ==
    ASSUME TypeOK, NEW r \in Requests
    PROVE  /\ polls \in [Requests -> PollType] /\ polls[r] \in PollType
           /\ polls[r].stage \in {"idle", "sent", "answered"}
           /\ polls[r].stage = "answered" /\ polls[r].answer = "report" =>
                  polls[r].version \in 0 .. MaxVersion /\ polls[r].workers \in SUBSET Workers
BY DEF TypeOK, PollType, NoPoll

LEMMA OpenTyped ==
    ASSUME NEW fresh \in BOOLEAN, NEW first \in FirstPolls(fresh)
    PROVE  first \in [Requests -> PollType] /\ \E r \in Requests : first[r] = [stage |-> "sent", fresh |-> fresh]
<1>1. PICK r \in Requests : first = [q \in Requests |-> IF q = r THEN [stage |-> "sent", fresh |-> fresh] ELSE NoPoll]
  BY DEF FirstPolls
<1>2. [stage |-> "sent", fresh |-> fresh] \in PollType /\ NoPoll \in PollType
  BY DEF PollType
<1> QED  BY <1>1, <1>2

(* A poll that is sent, answered or finished. *)
LEMMA PollTyped ==
    ASSUME TypeOK, NEW r \in Requests, NEW poll \in PollType
    PROVE  [polls EXCEPT ![r] = poll] \in [Requests -> PollType]
BY DEF TypeOK

-----------------------------------------------------------------------------
(* Type correctness. *)
LEMMA TypeInitially == Init => TypeOK
<1> SUFFICES ASSUME Init PROVE TypeOK
  OBVIOUS
<1>1. 0 \in 0 .. MaxVersion /\ 0 \in 0 .. MaxEvents
  BY DashboardAssumption
<1>2. polls \in [Requests -> PollType]
  BY OpenTyped DEF Init, Open
<1>3. /\ manager \in [version : 0 .. MaxVersion, workers : SUBSET Workers, secure : BOOLEAN]
      /\ shown \in [version : 0 .. MaxVersion, workers : SUBSET Workers, loaded : BOOLEAN]
  BY <1>1 DEF Init, Open
<1> QED  BY <1>1, <1>2, <1>3 DEF Init, Open, TypeOK

LEMMA TypeKept == TypeOK /\ [Next]_vars => TypeOK'
<1> SUFFICES ASSUME TypeOK, [Next]_vars PROVE TypeOK'
  OBVIOUS
<1> USE DashboardAssumption
<1>20. Event => events' \in 0 .. MaxEvents
  BY DEF Event, TypeOK
<1>1. CASE ManagerChanges
  <2>1. manager' \in [version : 0 .. MaxVersion, workers : SUBSET Workers, secure : BOOLEAN]
    <3>1. PICK W \in SUBSET Workers : manager' = [manager EXCEPT !.version = @ + 1, !.workers = W]
      BY <1>1 DEF ManagerChanges
    <3>2. manager.version + 1 \in 0 .. MaxVersion
      BY <1>1 DEF ManagerChanges, TypeOK
    <3> QED  BY <3>1, <3>2 DEF TypeOK
  <2> QED  BY <1>1, <2>1 DEF ManagerChanges, TypeOK
<1>2. CASE TokenExpires
  <2>1. [stage |-> "sent", fresh |-> FALSE] \in PollType
    BY DEF PollType
  <2>2. polls' \in [Requests -> PollType]
    <3>1. \A r \in Requests : polls[r] \in PollType
      BY DEF TypeOK
    <3> DEFINE expired == [r \in Requests |-> IF polls[r].stage = "sent" THEN [stage |-> "sent", fresh |-> FALSE] ELSE polls[r]]
    <3>2. expired \in [Requests -> PollType]
      BY <2>1, <3>1
    <3>3. polls' = expired
      BY <1>2 DEF TokenExpires
    <3> HIDE DEF expired
    <3> QED  BY <3>2, <3>3
  <2> QED  BY <1>2, <1>20, <2>2 DEF TokenExpires, TypeOK
<1>3. CASE DisableSecurity
  <2>1. manager' \in [version : 0 .. MaxVersion, workers : SUBSET Workers, secure : BOOLEAN]
    BY <1>3 DEF DisableSecurity, TypeOK
  <2> QED  BY <1>3, <2>1 DEF DisableSecurity, Event, TypeOK
<1>4. ASSUME NEW r \in Requests, sendStatusReport(r) PROVE TypeOK'
  <2>1. Report \in PollType /\ Refused \in PollType
    BY DEF Report, Refused, PollType, TypeOK
  <2>2. polls' \in [Requests -> PollType]
    BY <1>4, <2>1, PollTyped DEF sendStatusReport, Answered
  <2> QED  BY <1>4, <2>2 DEF sendStatusReport, TypeOK
<1>5. ASSUME NEW r \in Requests, ReportFails(r) PROVE TypeOK'
  <2>1. [stage |-> "answered", answer |-> "empty"] \in PollType
    BY DEF PollType
  <2>2. polls' \in [Requests -> PollType]
    BY <1>5, <2>1, PollTyped DEF ReportFails, Answered
  <2> QED  BY <1>5, <2>2 DEF ReportFails, Event, TypeOK
<1>6. ASSUME NEW r \in Requests, PollLost(r) PROVE TypeOK'
  <2>1. [stage |-> "answered", answer |-> "error"] \in PollType
    BY DEF PollType
  <2>2. polls' \in [Requests -> PollType]
    BY <1>6, <2>1, PollTyped DEF PollLost, Answered
  <2> QED  BY <1>6, <2>2 DEF PollLost, Event, TypeOK
<1>0. NoPoll \in PollType /\ [stage |-> "sent", fresh |-> valid] \in PollType
  BY DEF PollType, TypeOK
<1>7. ASSUME NEW r \in Requests, PollDone(r) PROVE TypeOK'
  <2>1. polls' \in [Requests -> PollType]
    BY <1>0, <1>7, PollTyped DEF PollDone
  <2>2. shown' \in [version : 0 .. MaxVersion, workers : SUBSET Workers, loaded : BOOLEAN]
    <3>1. CASE polls[r].answer = "report"
      BY <1>7, <3>1, CallsAreTyped DEF PollDone
    <3>2. CASE polls[r].answer # "report"
      BY <1>7, <3>2 DEF PollDone, TypeOK
    <3> QED  BY <3>1, <3>2
  <2> QED  BY <1>7, <2>1, <2>2 DEF PollDone, Select, TypeOK
<1>8. ASSUME NEW r \in Requests, PollDenied(r) PROVE TypeOK'
  <2>1. polls' \in [Requests -> PollType]
    BY <1>0, <1>8, PollTyped DEF PollDenied
  <2> QED  BY <1>8, <2>1 DEF PollDenied, obtainJWTToken, TypeOK
<1>9. ASSUME NEW r \in Requests, PollFails(r) PROVE TypeOK'
  <2>1. polls' \in [Requests -> PollType]
    BY <1>0, <1>9, PollTyped DEF PollFails
  <2> QED  BY <1>9, <2>1 DEF PollFails, TypeOK
<1>10. loadWorkers => polls' \in [Requests -> PollType] /\ timer' = FALSE
  BY <1>0, PollTyped DEF loadWorkers
<1>11. CASE TimerFires
  BY <1>10, <1>11 DEF TimerFires, TypeOK
<1>12. CASE ActionAnswered
  BY <1>10, <1>12, <1>20 DEF ActionAnswered, TypeOK
<1>13. CASE UrlsAnswered \/ UrlsNotFound \/ TokenAnswered
  BY <1>13 DEF UrlsAnswered, UrlsNotFound, TokenAnswered, TypeOK
<1>14. CASE ObtainFails \/ TokenForbidden
  BY <1>14, <1>20 DEF ObtainFails, TokenForbidden, TypeOK
<1>15. CASE ImageOpens \/ ImageDenied \/ ImageBreaks
  BY <1>15 DEF ImageOpens, ImageDenied, ImageBreaks, obtainJWTToken, Event, TypeOK
<1>16. CASE toggleSelectAllWorkers
  BY <1>16 DEF toggleSelectAllWorkers, Select, Event, TypeOK
<1>17. ASSUME NEW w \in Workers, onWorkerSelected(w) PROVE TypeOK'
  BY <1>17 DEF onWorkerSelected, Select, Event, TypeOK
<1>18. CASE Reload
  <2>1. polls' \in [Requests -> PollType]
    BY <1>18, OpenTyped DEF Reload, TypeOK
  <2>2. shown' \in [version : 0 .. MaxVersion, workers : SUBSET Workers, loaded : BOOLEAN]
    <3>1. 0 \in 0 .. MaxVersion
      OBVIOUS
    <3>2. [version |-> 0, workers |-> {}, loaded |-> FALSE]
              \in [version : 0 .. MaxVersion, workers : SUBSET Workers, loaded : BOOLEAN]
      BY <3>1
    <3>3. shown' = [version |-> 0, workers |-> {}, loaded |-> FALSE]
      BY <1>18 DEF Reload
    <3> QED  BY <3>2, <3>3
  <2>3. events' \in 0 .. MaxEvents
    BY <1>18, <1>20 DEF Reload, TypeOK
  <2> QED  BY <1>18, <2>1, <2>2, <2>3 DEF Reload, TypeOK
<1>19. CASE UNCHANGED vars
  BY <1>19 DEF vars, TypeOK
<1> QED
  BY <1>1, <1>2, <1>3, <1>4, <1>5, <1>6, <1>7, <1>8, <1>9, <1>11, <1>12, <1>13, <1>14, <1>15, <1>16, <1>17, <1>18, <1>19
     DEF Next

(* Type correctness of the page, and of what it sees of the Manager and the Server. *)
THEOREM TypeCorrect == Spec => []TypeOK
<1> QED  BY TypeInitially, TypeKept, PTL DEF Spec

-----------------------------------------------------------------------------
(* Polling.                                                                    *)

(* While security is disabled no poll is refused and no token is asked for, so *)
(* that the page does not depend on the event that a token sends.              *)
OpenWithoutSecurity ==
    ~manager.secure /\ ~disabled =>
        /\ obtain # "token"
        /\ \A r \in Requests : polls[r].stage = "answered" => polls[r].answer # "denied"
        /\ page = "open" => timer \/ \E r \in Requests : Polling(r)

IInv == TypeOK /\ OpenWithoutSecurity /\ PollingGoesOn


LEMMA IInvInitially == Init => IInv
<1> SUFFICES ASSUME Init PROVE IInv
  OBVIOUS
<1>1. PICK r \in Requests : polls[r] = [stage |-> "sent", fresh |-> valid]
  BY OpenTyped DEF Init, Open
<1>2. ASSUME NEW q \in Requests PROVE polls[q].stage # "answered"
  BY DEF Init, Open, FirstPolls, NoPoll
<1>3. Polling(r)
  BY <1>1 DEF Polling
<1> QED  BY <1>2, <1>3, TypeInitially DEF Init, Open, IInv, OpenWithoutSecurity, PollingGoesOn

LEMMA IInvKept == IInv /\ [Next]_vars => IInv'
<1> SUFFICES ASSUME IInv, [Next]_vars PROVE OpenWithoutSecurity' /\ PollingGoesOn'
  BY TypeKept DEF IInv
<1> USE DEF IInv, OpenWithoutSecurity, PollingGoesOn
<1>0. polls \in [Requests -> PollType] /\ TypeOK
  BY DEF TypeOK
<1>1. CASE ManagerChanges
  BY <1>1 DEF ManagerChanges, Polling, TypeOK
<1>2. CASE TokenExpires
  <2>1. \A r \in Requests : /\ polls'[r].stage = polls[r].stage
                            /\ polls[r].stage # "sent" => polls'[r] = polls[r]
    BY <1>2 DEF TokenExpires
  <2> QED  BY <1>2, <2>1 DEF TokenExpires, Polling
<1>3. CASE DisableSecurity
  BY <1>3 DEF DisableSecurity
(* A poll that the Manager answers, or that gets lost, is still in flight for the page. *)
<1>4. ASSUME NEW r \in Requests, NEW answer, polls' = [polls EXCEPT ![r] = answer], answer.stage = "answered",
             ~manager.secure /\ ~disabled => answer.answer # "denied",
             UNCHANGED <<manager, timer, obtain, page, disabled>>
      PROVE  OpenWithoutSecurity' /\ PollingGoesOn'
  <2>1. polls'[r] = answer /\ \A q \in Requests \ {r} : polls'[q] = polls[q]
    BY <1>0, <1>4
  <2>2. Polling(r)'
    BY <1>4, <2>1 DEF Polling
  <2> QED  BY <1>4, <2>1, <2>2
<1>5. ASSUME NEW r \in Requests, sendStatusReport(r) PROVE OpenWithoutSecurity' /\ PollingGoesOn'
  <2> DEFINE answer == IF manager.secure /\ ~polls[r].fresh THEN Refused ELSE Report
  <2>1. /\ polls' = [polls EXCEPT ![r] = answer]
        /\ UNCHANGED <<manager, timer, obtain, page, disabled>>
    BY <1>5 DEF sendStatusReport, Answered
  <2>2. answer.stage = "answered" /\ (~manager.secure => answer.answer # "denied")
    BY DEF Refused, Report
  <2> HIDE DEF answer
  <2> QED  BY <1>4, <2>1, <2>2
<1>6. ASSUME NEW r \in Requests, ReportFails(r) \/ PollLost(r) PROVE OpenWithoutSecurity' /\ PollingGoesOn'
  <2>1. PICK kind \in {"empty", "error"} : polls' = [polls EXCEPT ![r] = [stage |-> "answered", answer |-> kind]]
    BY <1>6 DEF ReportFails, PollLost, Answered
  <2>2. UNCHANGED <<manager, timer, obtain, page, disabled>>
    BY <1>6 DEF ReportFails, PollLost
  <2> DEFINE answer == [stage |-> "answered", answer |-> kind]
  <2>3. answer.stage = "answered" /\ answer.answer # "denied"
    OBVIOUS
  <2>4. polls' = [polls EXCEPT ![r] = answer]
    BY <2>1
  <2> HIDE DEF answer
  <2> QED  BY <1>4, <2>2, <2>3, <2>4
(* Whatever a poll ends with sets the timer, or gets a token. *)
<1>7. ASSUME NEW r \in Requests, PollDone(r) \/ PollFails(r) PROVE OpenWithoutSecurity' /\ PollingGoesOn'
  <2>1. timer' /\ UNCHANGED <<manager, obtain, disabled>> /\ polls' = [polls EXCEPT ![r] = NoPoll]
    BY <1>7 DEF PollDone, PollFails
  <2>2. \A q \in Requests : polls'[q].stage = "answered" => polls'[q] = polls[q]
    BY <1>0, <2>1 DEF NoPoll
  <2> QED  BY <2>1, <2>2
<1>8. ASSUME NEW r \in Requests, PollDenied(r) PROVE OpenWithoutSecurity' /\ PollingGoesOn'
  <2>1. obtain' # "none" /\ UNCHANGED <<manager, disabled>>
    BY <1>0, <1>8 DEF PollDenied, obtainJWTToken, TypeOK
  <2>2. manager.secure \/ disabled
    BY <1>8 DEF PollDenied
  <2> QED  BY <2>1, <2>2
<1>9. ASSUME loadWorkers, UNCHANGED <<manager, obtain, page, disabled>> PROVE OpenWithoutSecurity' /\ PollingGoesOn'
  <2>1. PICK r \in Requests : polls' = [polls EXCEPT ![r] = [stage |-> "sent", fresh |-> valid]]
    BY <1>9 DEF loadWorkers
  <2>2. Polling(r)'
    BY <1>0, <2>1 DEF Polling
  <2>3. \A q \in Requests : polls'[q].stage = "answered" => polls'[q] = polls[q]
    BY <1>0, <2>1
  <2> QED  BY <1>9, <2>2, <2>3
<1>10. CASE TimerFires
  BY <1>9, <1>10 DEF TimerFires
<1>11. CASE ActionAnswered
  BY <1>9, <1>11 DEF ActionAnswered
<1>12. CASE UrlsAnswered
  BY <1>12 DEF UrlsAnswered
(* Without security the page does not wait for what it asks for now. *)
<1>13. CASE UrlsNotFound
  BY <1>13 DEF UrlsNotFound, Polling
<1>14. CASE ObtainFails
  BY <1>14 DEF ObtainFails, Polling
<1>15. CASE TokenAnswered
  BY <1>15 DEF TokenAnswered
<1>16. CASE TokenForbidden
  BY <1>16 DEF TokenForbidden
<1>17. CASE ImageOpens
  BY <1>17 DEF ImageOpens, Polling
<1>18. CASE ImageDenied \/ ImageBreaks
  <2>1. UNCHANGED <<manager, polls, timer, page, disabled>> /\ obtain' = IF obtain = "none" THEN "urls" ELSE obtain
    BY <1>18 DEF ImageDenied, ImageBreaks, obtainJWTToken
  <2> QED  BY <2>1 DEF Polling
<1>19. CASE toggleSelectAllWorkers \/ \E w \in Workers : onWorkerSelected(w)
  <2>1. UNCHANGED <<manager, polls, timer, obtain, page, disabled>>
    BY <1>19 DEF toggleSelectAllWorkers, onWorkerSelected
  <2> QED  BY <2>1 DEF Polling
<1>20. CASE Reload
  <2>1. PICK r \in Requests : polls'[r] = [stage |-> "sent", fresh |-> valid]
    BY <1>0, <1>20, OpenTyped DEF Reload, TypeOK
  <2>2. \A q \in Requests : polls'[q].stage # "answered"
    BY <1>20 DEF Reload, FirstPolls, NoPoll
  <2>3. Polling(r)'
    BY <2>1 DEF Polling
  <2> QED  BY <1>20, <2>2, <2>3 DEF Reload
<1>21. CASE UNCHANGED vars
  BY <1>21 DEF vars, Polling
<1> QED
  BY <1>1, <1>2, <1>3, <1>5, <1>6, <1>7, <1>8, <1>10, <1>11, <1>12, <1>13, <1>14, <1>15, <1>16, <1>17, <1>18, <1>19,
     <1>20, <1>21 DEF Next

(* The strengthening: while security is disabled, the timer or a poll keeps the page going. *)
THEOREM Invariant == Spec => []IInv
<1> QED  BY IInvInitially, IInvKept, PTL DEF Spec

(* An open page never stops polling, whatever is refused, lost or overtaken. *)
THEOREM PollingGoesOnAlways == Spec => []PollingGoesOn
<1>1. IInv => PollingGoesOn
  BY DEF IInv
<1> QED  BY <1>1, Invariant, PTL

-----------------------------------------------------------------------------
(* The selection. *)

(* The checkbox of the table compares lengths, which is enough. *)
LEMMA AllSelected ==
    ASSUME TypeOK, selected \subseteq shown.workers, all_workers_selected
    PROVE  selected = shown.workers
<1>1. shown.workers \subseteq Workers
  BY DEF TypeOK
<1>2. IsFiniteSet(shown.workers)
  BY <1>1, FS_Subset, DashboardAssumption
<1> QED  BY <1>2, FS_Subset DEF all_workers_selected

(* Whatever is selected is shown, and is what survives a reload. *)
SelectedShown == (shown.loaded => selected \subseteq shown.workers) /\ stored = selected /\ (~shown.loaded => shown.workers = {})

THEOREM SelectedExistAlways == Spec => []SelectedExist
<1>1. Init => SelectedShown
  BY DEF Init, Open, SelectedShown
<1>2. TypeOK /\ SelectedShown /\ [Next]_vars => SelectedShown'
  <2> SUFFICES ASSUME TypeOK, SelectedShown, [Next]_vars PROVE SelectedShown'
    OBVIOUS
  <2> USE DEF SelectedShown
  <2>1. ASSUME NEW r \in Requests, PollDone(r) PROVE SelectedShown'
    <3>1. shown'.loaded
      BY <2>1 DEF PollDone, TypeOK
    <3>2. selected' = selected \cap shown'.workers /\ stored' = selected'
      BY <2>1 DEF PollDone, Select
    <3> QED  BY <3>1, <3>2
  <2>2. ASSUME NEW w \in Workers, onWorkerSelected(w) PROVE SelectedShown'
    <3>1. /\ shown' = shown /\ w \in shown.workers /\ stored' = selected'
          /\ selected' \subseteq selected \cup {w}
      BY <2>2 DEF onWorkerSelected, Select
    <3> QED  BY <3>1
  <2>3. CASE toggleSelectAllWorkers
    <3>1. shown' = shown /\ stored' = selected' /\ selected' \subseteq shown.workers
      BY <2>3 DEF toggleSelectAllWorkers, Select
    <3> QED  BY <3>1
  <2>4. CASE Reload
    BY <2>4 DEF Reload
  <2>5. CASE UNCHANGED <<shown, selected, stored>>
    BY <2>5
  <2> QED
    BY <2>1, <2>2, <2>3, <2>4, <2>5
       DEF Next, vars, ManagerChanges, TokenExpires, DisableSecurity, sendStatusReport, ReportFails, PollLost, PollDenied,
           PollFails, TimerFires, ActionAnswered, UrlsAnswered, UrlsNotFound, ObtainFails, TokenAnswered, TokenForbidden,
           ImageOpens, ImageDenied, ImageBreaks
<1>3. TypeOK /\ SelectedShown => SelectedExist
  BY AllSelected DEF SelectedShown, SelectedExist
<1> QED  BY <1>1, <1>2, <1>3, TypeCorrect, PTL DEF Spec
=============================================================================
