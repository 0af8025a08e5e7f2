----------------------------- MODULE Dashboard -----------------------------
(* One browser page that shows the dashboard (src/static/dashboard.js, with *)
(* jwtauth.js and imagewatch.js), and what it sees of the Manager and of    *)
(* the Server that hands out the JWT tokens.  The page is one thread: every *)
(* action below is a callback that runs to its end.  Several polls may be   *)
(* in flight at once, because a worker action, a new token and the timer    *)
(* all start one, and the browser may deliver their answers in any order.   *)
EXTENDS Naturals, FiniteSets

CONSTANTS
    Workers,        \* the workers of the Manager
    Requests,       \* names for the polls that are in flight
    Env,            \* what may go wrong: see EnvKinds
    MaxVersion,     \* bound: how often the Manager's state changes
    MaxEvents       \* bound: faults and actions of the user

EnvKinds == {"expire", "unreachable", "database", "login", "disable"}

ASSUME DashboardAssumption ==
    /\ IsFiniteSet(Workers)
    /\ Env \subseteq EnvKinds
    /\ MaxVersion \in Nat
    /\ MaxEvents \in Nat

VARIABLES
    manager,        \* the Manager: its version, the workers it knows, whether it asks for a token
    valid,          \* the page's token is accepted by the Manager
    polls,          \* the GETs of /as-json
    timer,          \* load_workers_timeout_handle is set
    obtain,         \* what jwtTokenObtainingPromise waits for, if it is there
    image,          \* readyState of latestImageSource
    page,           \* the page is open, or the browser went to the Server's login page
    shown,          \* what the last answer left on the page
    selected,       \* selected_worker_ids
    stored,         \* selected_worker_ids in the local storage of the browser
    errormsg,       \* an error is shown
    disabled,       \* history: security was disabled after this page was opened
    events          \* faults and actions of the user so far

vars == <<manager, valid, polls, timer, obtain, image, page, shown, selected, stored, errormsg, disabled, events>>

NoPoll == [stage |-> "idle"]

\* A poll carries the cookie of the moment it is sent: "fresh" says that the
\* Manager still accepts it.
PollType ==
    {NoPoll}
    \cup [stage : {"sent"}, fresh : BOOLEAN]
    \cup [stage : {"answered"}, answer : {"report"}, version : 0 .. MaxVersion, workers : SUBSET Workers]
    \cup [stage : {"answered"}, answer : {"empty", "denied", "error"}]

TypeOK ==
    /\ manager \in [version : 0 .. MaxVersion, workers : SUBSET Workers, secure : BOOLEAN]
    /\ valid \in BOOLEAN
    /\ polls \in [Requests -> PollType]
    /\ timer \in BOOLEAN
    /\ obtain \in {"none", "urls", "token"}
    /\ image \in {"connecting", "open", "closed"}
    /\ page \in {"open", "left"}
    /\ shown \in [version : 0 .. MaxVersion, workers : SUBSET Workers, loaded : BOOLEAN]
    /\ selected \in SUBSET Workers
    /\ stored \in SUBSET Workers
    /\ errormsg \in BOOLEAN
    /\ disabled \in BOOLEAN
    /\ events \in 0 .. MaxEvents

Polling(r) == polls[r].stage # "idle"

FirstPolls(fresh) ==
    {[q \in Requests |-> IF q = r THEN [stage |-> "sent", fresh |-> fresh] ELSE NoPoll] : r \in Requests}

\* Opening the page: the application is created and polls, and when the
\* document is ready the image is followed and a token is asked for.
Open ==
    /\ polls \in FirstPolls(valid)
    /\ timer = FALSE
    /\ obtain = "urls"
    /\ image = "connecting"
    /\ page = "open"
    /\ shown = [version |-> 0, workers |-> {}, loaded |-> FALSE]
    /\ selected = stored
    /\ errormsg = FALSE
    /\ disabled = FALSE

Init ==
    /\ manager \in [version : {0}, workers : {Workers}, secure : BOOLEAN]
    /\ valid \in BOOLEAN
    /\ stored \in SUBSET Workers
    /\ events = 0
    /\ Open

----------------------------------------------------------------------------
(* The Manager and the Server.                                             *)

Event == events < MaxEvents /\ events' = events + 1

\* Workers come, go, and become active again after more than two weeks.
ManagerChanges ==
    /\ manager.version < MaxVersion
    /\ \E W \in SUBSET Workers \ {manager.workers} :
           manager' = [manager EXCEPT !.version = @ + 1, !.workers = W]
    /\ UNCHANGED <<valid, polls, timer, obtain, image, page, shown, selected, stored, errormsg, disabled, events>>

\* The page's token expires, also for the polls that are on their way.
TokenExpires ==
    /\ "expire" \in Env /\ Event /\ valid
    /\ valid' = FALSE
    /\ polls' = [r \in Requests |-> IF polls[r].stage = "sent" THEN [stage |-> "sent", fresh |-> FALSE] ELSE polls[r]]
    /\ UNCHANGED <<manager, timer, obtain, image, page, shown, selected, stored, errormsg, disabled>>

\* The Manager restarts with security disabled in its settings.
DisableSecurity ==
    /\ "disable" \in Env /\ Event /\ manager.secure
    /\ manager' = [manager EXCEPT !.secure = FALSE]
    /\ disabled' = TRUE
    /\ UNCHANGED <<valid, polls, timer, obtain, image, page, shown, selected, stored, errormsg>>

Answered(r, record) == polls' = [polls EXCEPT ![r] = record]

Report == [stage |-> "answered", answer |-> "report", version |-> manager.version, workers |-> manager.workers]

Refused == [stage |-> "answered", answer |-> "denied"]

\* The Manager answers with what it knows now, or refuses the token.
sendStatusReport(r) ==
    /\ polls[r].stage = "sent"
    /\ Answered(r, IF manager.secure /\ ~polls[r].fresh THEN Refused ELSE Report)
    /\ UNCHANGED <<manager, valid, timer, obtain, image, page, shown, selected, stored, errormsg, disabled, events>>

\* A query fails: the handler returns, which answers with an empty 200.
ReportFails(r) ==
    /\ "database" \in Env /\ Event
    /\ polls[r].stage = "sent"
    /\ manager.secure => polls[r].fresh
    /\ Answered(r, [stage |-> "answered", answer |-> "empty"])
    /\ UNCHANGED <<manager, valid, timer, obtain, image, page, shown, selected, stored, errormsg, disabled>>

\* The Manager cannot be reached.
PollLost(r) ==
    /\ "unreachable" \in Env /\ Event
    /\ polls[r].stage = "sent"
    /\ Answered(r, [stage |-> "answered", answer |-> "error"])
    /\ UNCHANGED <<manager, valid, timer, obtain, image, page, shown, selected, stored, errormsg, disabled>>

----------------------------------------------------------------------------
(* Polling.                                                                *)

\* loadWorkers: clears the timer and sends another GET.
loadWorkers ==
    \E r \in Requests :
        /\ ~Polling(r)
        /\ polls' = [polls EXCEPT ![r] = [stage |-> "sent", fresh |-> valid]]
        /\ timer' = FALSE

TimerFires ==
    /\ page = "open" /\ timer
    /\ loadWorkers
    /\ UNCHANGED <<manager, valid, obtain, image, page, shown, selected, stored, errormsg, disabled, events>>

\* A worker action, a schedule or a pool resize of the user was answered.
ActionAnswered ==
    /\ page = "open" /\ Event
    /\ loadWorkers
    /\ UNCHANGED <<manager, valid, obtain, image, page, shown, selected, stored, errormsg, disabled>>

Select(S) == selected' = S /\ stored' = S

\* Mutant: the selection is left as it is.
PollDoneSelectionLeft(r) ==
    /\ page = "open"
    /\ polls[r].stage = "answered" /\ polls[r].answer \in {"report", "empty"}
    /\ shown' = IF polls[r].answer = "report"
                THEN [version |-> polls[r].version, workers |-> polls[r].workers, loaded |-> TRUE]
                ELSE [shown EXCEPT !.workers = {}, !.loaded = TRUE]
    /\ errormsg' = FALSE
    /\ timer' = TRUE
    /\ polls' = [polls EXCEPT ![r] = NoPoll]
    /\ UNCHANGED <<manager, valid, obtain, image, page, selected, stored, disabled, events>>

\* Mutant: an answer without workers leaves the page with something else.
PollDoneUndefined(r) ==
    /\ page = "open"
    /\ polls[r].stage = "answered" /\ polls[r].answer \in {"report", "empty"}
    /\ shown' = IF polls[r].answer = "report"
                THEN [version |-> polls[r].version, workers |-> polls[r].workers, loaded |-> TRUE]
                ELSE [shown EXCEPT !.workers = {"undefined"}, !.loaded = TRUE]
    /\ Select(selected \cap shown'.workers)
    /\ errormsg' = FALSE
    /\ timer' = TRUE
    /\ polls' = [polls EXCEPT ![r] = NoPoll]
    /\ UNCHANGED <<manager, valid, obtain, image, page, disabled, events>>

\* Mutant: the list of workers is not emptied before they are listed.
PollDoneListGrows(r) ==
    /\ page = "open"
    /\ polls[r].stage = "answered" /\ polls[r].answer \in {"report", "empty"}
    /\ shown' = IF polls[r].answer = "report"
                THEN [version |-> polls[r].version, workers |-> shown.workers \cup polls[r].workers, loaded |-> TRUE]
                ELSE [shown EXCEPT !.loaded = TRUE]
    /\ Select(selected \cap shown'.workers)
    /\ errormsg' = FALSE
    /\ timer' = TRUE
    /\ polls' = [polls EXCEPT ![r] = NoPoll]
    /\ UNCHANGED <<manager, valid, obtain, image, page, disabled, events>>

\* .done of loadWorkers: an answer without workers shows none, and the
\* selection keeps only workers that are shown.
PollDone(r) ==
    /\ page = "open"
    /\ polls[r].stage = "answered" /\ polls[r].answer \in {"report", "empty"}
    /\ shown' = IF polls[r].answer = "report"
                THEN [version |-> polls[r].version, workers |-> polls[r].workers, loaded |-> TRUE]
                ELSE [shown EXCEPT !.workers = {}, !.loaded = TRUE]
    /\ Select(selected \cap shown'.workers)
    /\ errormsg' = FALSE
    /\ timer' = TRUE
    /\ polls' = [polls EXCEPT ![r] = NoPoll]
    /\ UNCHANGED <<manager, valid, obtain, image, page, disabled, events>>

\* obtainJWTToken: nothing when a promise is there already.
obtainJWTToken == obtain' = IF obtain = "none" THEN "urls" ELSE obtain

\* .fail of loadWorkers with 401 or 498: get a token.  What sets the timer
\* again is the event that obtaining one ends with.
PollDenied(r) ==
    /\ page = "open"
    /\ polls[r].stage = "answered" /\ polls[r].answer = "denied"
    /\ obtainJWTToken
    /\ polls' = [polls EXCEPT ![r] = NoPoll]
    /\ UNCHANGED <<manager, valid, timer, image, page, shown, selected, stored, errormsg, disabled, events>>

\* .fail of loadWorkers with anything else.
PollFails(r) ==
    /\ page = "open"
    /\ polls[r].stage = "answered" /\ polls[r].answer = "error"
    /\ errormsg' = TRUE
    /\ timer' = TRUE
    /\ polls' = [polls EXCEPT ![r] = NoPoll]
    /\ UNCHANGED <<manager, valid, obtain, image, page, shown, selected, stored, disabled, events>>

----------------------------------------------------------------------------
(* Obtaining a token.                                                      *)

\* The Manager gives the URLs: the token is asked of the Server.
UrlsAnswered ==
    /\ page = "open" /\ obtain = "urls" /\ manager.secure
    /\ obtain' = "token"
    /\ UNCHANGED <<manager, valid, polls, timer, image, page, shown, selected, stored, errormsg, disabled, events>>

\* 404: security is disabled, the promise resolves and no event is sent.
UrlsNotFound ==
    /\ page = "open" /\ obtain = "urls" /\ ~manager.secure
    /\ obtain' = "none"
    /\ UNCHANGED <<manager, valid, polls, timer, image, page, shown, selected, stored, errormsg, disabled, events>>

\* Mutant: when no token is obtained the page does not poll again.
ObtainFailsForGood ==
    /\ "unreachable" \in Env /\ Event
    /\ page = "open" /\ obtain \in {"urls", "token"}
    /\ obtain' = "none"
    /\ errormsg' = TRUE
    /\ UNCHANGED <<manager, valid, polls, timer, image, page, shown, selected, stored, disabled>>

\* JWTTokenManagerError and JWTTokenServerError: an error is shown, and the
\* page polls again after five seconds.
ObtainFails ==
    /\ "unreachable" \in Env /\ Event
    /\ page = "open" /\ obtain \in {"urls", "token"}
    /\ obtain' = "none"
    /\ errormsg' = TRUE
    /\ timer' = TRUE
    /\ UNCHANGED <<manager, valid, polls, image, page, shown, selected, stored, disabled>>

\* Mutant: the image is not followed anew.
TokenAnsweredForPolls ==
    /\ page = "open" /\ obtain = "token"
    /\ valid' = TRUE
    /\ obtain' = "none"
    /\ timer' = TRUE
    /\ UNCHANGED <<manager, polls, image, page, shown, selected, stored, errormsg, disabled, events>>

\* setJWTToken: newJWTToken makes the page poll soon and follow the image anew.
TokenAnswered ==
    /\ page = "open" /\ obtain = "token"
    /\ valid' = TRUE
    /\ obtain' = "none"
    /\ timer' = TRUE
    /\ image' = "connecting"
    /\ UNCHANGED <<manager, polls, page, shown, selected, stored, errormsg, disabled, events>>

\* 403: the user is not logged in at the Server, and is sent there.
TokenForbidden ==
    /\ "login" \in Env /\ Event
    /\ page = "open" /\ obtain = "token"
    /\ page' = "left"
    /\ UNCHANGED <<manager, valid, polls, timer, obtain, image, shown, selected, stored, errormsg, disabled>>

----------------------------------------------------------------------------
(* The latest image.                                                       *)

\* The EventSource is accepted.
ImageOpens ==
    /\ page = "open" /\ image = "connecting"
    /\ manager.secure => valid
    /\ image' = "open"
    /\ UNCHANGED <<manager, valid, polls, timer, obtain, page, shown, selected, stored, errormsg, disabled, events>>

\* 401: an EventSource does not try again after an HTTP error.
ImageDenied ==
    /\ page = "open" /\ image = "connecting"
    /\ manager.secure /\ ~valid
    /\ image' = "closed"
    /\ obtainJWTToken
    /\ UNCHANGED <<manager, valid, polls, timer, page, shown, selected, stored, errormsg, disabled, events>>

\* The connection breaks: the browser makes a new one.
ImageBreaks ==
    /\ "unreachable" \in Env /\ Event
    /\ page = "open" /\ image \in {"connecting", "open"}
    /\ image' = "connecting"
    /\ obtainJWTToken
    /\ UNCHANGED <<manager, valid, polls, timer, page, shown, selected, stored, errormsg, disabled>>

----------------------------------------------------------------------------
(* The user.                                                               *)

all_workers_selected ==
    Cardinality(shown.workers) > 0 /\ Cardinality(shown.workers) = Cardinality(selected)

\* The checkbox of one of the workers shown.
onWorkerSelected(w) ==
    /\ page = "open" /\ Event
    /\ w \in shown.workers
    /\ Select(IF w \in selected THEN selected \ {w} ELSE selected \cup {w})
    /\ UNCHANGED <<manager, valid, polls, timer, obtain, image, page, shown, errormsg, disabled>>

toggleSelectAllWorkers ==
    /\ page = "open" /\ Event
    /\ Select(IF all_workers_selected THEN {} ELSE shown.workers)
    /\ UNCHANGED <<manager, valid, polls, timer, obtain, image, page, shown, errormsg, disabled>>

\* The user reloads the page, or comes back from the login page.  The bound
\* does not count what brings a page back that left or has stopped.
Reload ==
    /\ UNCHANGED <<manager, valid, stored>>
    /\ IF page = "left" \/ disabled THEN UNCHANGED events ELSE Event
    /\ polls' \in FirstPolls(valid)
    /\ timer' = FALSE
    /\ obtain' = "urls"
    /\ image' = "connecting"
    /\ page' = "open"
    /\ shown' = [version |-> 0, workers |-> {}, loaded |-> FALSE]
    /\ selected' = stored
    /\ errormsg' = FALSE
    /\ disabled' = FALSE

----------------------------------------------------------------------------

Next ==
    \/ ManagerChanges \/ TokenExpires \/ DisableSecurity
    \/ \E r \in Requests :
           \/ sendStatusReport(r) \/ ReportFails(r) \/ PollLost(r)
           \/ PollDone(r) \/ PollDenied(r) \/ PollFails(r)
    \/ TimerFires \/ ActionAnswered
    \/ UrlsAnswered \/ UrlsNotFound \/ ObtainFails \/ TokenAnswered \/ TokenForbidden
    \/ ImageOpens \/ ImageDenied \/ ImageBreaks
    \/ \E w \in Workers : onWorkerSelected(w)
    \/ toggleSelectAllWorkers
    \/ Reload

Spec == Init /\ [][Next]_vars

\* The browser's timers fire and its callbacks run; the Manager and the
\* Server answer.  Nothing is assumed of the user, and a fault need not happen.
Fairness ==
    /\ \A r \in Requests : WF_vars(sendStatusReport(r)) /\ WF_vars(PollDone(r) \/ PollDenied(r) \/ PollFails(r))
    /\ WF_vars(TimerFires)
    /\ WF_vars(UrlsAnswered \/ UrlsNotFound) /\ WF_vars(TokenAnswered)
    /\ WF_vars(ImageOpens \/ ImageDenied)

FairSpec == Spec /\ Fairness

----------------------------------------------------------------------------
(* Properties.                                                             *)

\* An open page never stops polling: its timer is set, a poll is in flight,
\* or a token is being obtained, which ends with an event that sets the timer.
\* Only when security is disabled under the open page is there no such event.
PollingGoesOn ==
    page = "open" /\ ~disabled => timer \/ obtain # "none" \/ \E r \in Requests : Polling(r)

\* "We should be able to iterate over all selected workers later, and not
\* worry about them not existing any more" (dashboard.js:605): once a report
\* is shown, whatever is selected is shown, and the selection that survives a
\* reload is the one on the page; so when the checkbox of the table, which
\* compares lengths only, is checked, exactly the shown workers are selected.
SelectedExist ==
    /\ shown.loaded => selected \subseteq shown.workers
    /\ stored = selected
    /\ all_workers_selected /\ shown.loaded => selected = shown.workers

\* The page ends up showing the Manager as it is, whatever was refused, lost or
\* overtaken before, unless it was sent to the login page.
ShowsLatest ==
    []<>(page = "left" \/ disabled \/ (shown.version = manager.version /\ shown.workers = manager.workers))

\* The latest image is followed again after every refusal and every break.
ImageFollows == []<>(page = "left" \/ disabled \/ image = "open")

\* PollingGoesOn without its exception.  It fails: when the token is refused
\* just before security is disabled, /jwt/token-urls answers 404, the promise
\* resolves without an event, and nothing polls any more.
PollingSurvives ==
    page = "open" => timer \/ obtain # "none" \/ \E r \in Requests : Polling(r)

\* A selection is only changed by the user and by workers that went away.  It
\* fails: the answer of a report whose query failed is empty, and wipes it.
SelectionKept ==
    [][events' = events => \A w \in selected \ selected' : w \notin manager.workers]_vars

\* What is shown never becomes older.  It fails: of two polls in flight, the
\* older one may be answered last.
NeverGoesBack ==
    [][shown.loaded /\ shown'.loaded => shown'.version >= shown.version]_vars
============================================================================
