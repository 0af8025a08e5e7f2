----------------------------- MODULE WebSetup ------------------------------
(* The web setup: pages of a browser that edit the settings                 *)
(* (src/static/websetup/websetup.js, with jwtauth.js and restart.js), the   *)
(* Manager that serves and stores them, and the linking of the Manager to a *)
(* Server (src/websetup/routes.go, link.go, link_routes.go).  A handler of  *)
(* the Manager runs in a goroutine of its own, so that its steps interleave *)
(* with those of the others; they share web.config without a lock.          *)
EXTENDS Naturals

CONSTANTS
    None,
    Tabs,           \* pages of the web setup
    Variables,      \* the variables of the settings
    Ids,            \* managers that the Server knows
    Env,            \* what may go wrong: see EnvKinds
    MaxSetting,     \* bound: how often settings are edited
    MaxEvents       \* bound: faults, restarts and links

(* "refuse":  whatever token the page obtains, the Manager refuses it;      *)
(* "lost":    the Manager or the Server cannot be reached by the page;      *)
(* "restart": the Manager is restarted at any moment;                       *)
(* "reset":   the Server's answer with the new secret is lost;              *)
(* "slow":    a save is still being handled when the linking returns;       *)
(* "back":    the user goes back to a page of before the linking.           *)
EnvKinds == {"refuse", "lost", "restart", "reset", "slow", "back"}

MaxRequests == 6    \* requestCounter++ > 5 of jwtAjax

ASSUME WebSetupAssumption ==
    /\ None \notin Ids
    /\ Env \subseteq EnvKinds
    /\ MaxSetting \in Nat
    /\ MaxEvents \in Nat

VARIABLES
    mem,        \* web.config, the settings the Manager runs with
    file,       \* flamenco-manager.yaml
    linker,     \* web.linker: whether a key was exchanged with the Server
    returning,  \* the manager httpLinkReturn asks a new secret for
    saving,     \* per page: the settings httpSaveYAML is about to write
    issued,     \* the Server: which secret each of its managers has now
    tab,        \* the pages
    saved,      \* history: the settings that were last reported as saved
    edits,      \* how many edits were made
    outdated,   \* history: a page is older than the linking, or a new secret was lost
    events      \* faults, restarts and links so far

vars == <<mem, file, linker, returning, saving, issued, tab, saved, edits, outdated, events>>

\* What the page sees and sends: all but the secret.
Settings == [setting : 0 .. MaxSetting, variables : SUBSET Variables, id : Ids \cup {None}]

ConfigType == [settings : Settings, secret : Nat]

\* A call of jwtAjax: what for, what it sends, how many requests it has made,
\* and whether it waits for the Manager, its answer, or a token.
NoCall == [stage |-> "none", kind |-> "none", count |-> 0]

CallType ==
    [stage : {"none", "sent", "handled", "done", "failed", "token"}, kind : {"none", "load", "save"}, count : 0 .. MaxRequests]

TabType ==
    [where : {"setup", "server"}, loaded : BOOLEAN,
     config : Settings, original : Settings, body : Settings, call : CallType]

TypeOK ==
    /\ mem \in ConfigType
    /\ file \in ConfigType
    /\ linker \in BOOLEAN
    /\ returning \in Ids \cup {None}
    /\ saving \in [Tabs -> ConfigType \cup {None}]
    /\ issued \in [Ids -> Nat]
    /\ tab \in [Tabs -> TabType]
    /\ saved \in Settings
    /\ edits \in 0 .. MaxSetting
    /\ outdated \in BOOLEAN
    /\ events \in 0 .. MaxEvents

NoSettings == [setting |-> 0, variables |-> Variables, id |-> None]

OpenTab == [where |-> "setup", loaded |-> FALSE, config |-> NoSettings, original |-> NoSettings,
            body |-> NoSettings, call |-> [stage |-> "sent", kind |-> "load", count |-> 1]]

Init ==
    /\ mem = [settings |-> NoSettings, secret |-> 0]
    /\ file = mem
    /\ linker = FALSE
    /\ returning = None
    /\ saving = [t \in Tabs |-> None]
    /\ issued = [i \in Ids |-> 0]
    /\ tab = [t \in Tabs |-> OpenTab]
    /\ saved = NoSettings
    /\ edits = 0
    /\ outdated = FALSE
    /\ events = 0

Event == events < MaxEvents /\ events' = events + 1

manager == <<mem, file, linker, returning, saving>>

----------------------------------------------------------------------------
(* jwtAjax.                                                                *)

Stage(t) == tab[t].call.stage

To(t, stage) == tab' = [tab EXCEPT ![t].call.stage = stage]

\* The promise is settled, and the page does something about it.
Settled(t, page) == tab' = [tab EXCEPT ![t] = [page EXCEPT !.call = NoCall]]

\* The Manager refuses the token with 401 or 498.
Refuse(t) ==
    /\ "refuse" \in Env
    /\ Stage(t) = "sent"
    /\ To(t, "token")
    /\ UNCHANGED <<manager, issued, saved, edits, outdated, events>>

\* A request, an answer or a token gets lost, or the Manager answers with an
\* error: the promise is rejected.
CallLost(t) ==
    /\ "lost" \in Env /\ Event
    /\ Stage(t) \in {"sent", "token"}
    /\ To(t, "failed")
    /\ UNCHANGED <<manager, issued, saved, edits, outdated>>

\* Mutant: the requests are not counted.
TokenObtainedAgain(t) ==
    /\ Stage(t) = "token"
    /\ To(t, "sent")
    /\ UNCHANGED <<manager, issued, saved, edits, outdated, events>>

\* Mutant: one request too many.
TokenObtainedOnceMore(t) ==
    /\ Stage(t) = "token"
    /\ IF tab[t].call.count > MaxRequests
       THEN To(t, "failed")
       ELSE tab' = [tab EXCEPT ![t].call.stage = "sent", ![t].call.count = @ + 1]
    /\ UNCHANGED <<manager, issued, saved, edits, outdated, events>>

\* performRequest, once a token was obtained: the next request, or an end of it.
TokenObtained(t) ==
    /\ Stage(t) = "token"
    /\ IF tab[t].call.count >= MaxRequests
       THEN To(t, "failed")
       ELSE tab' = [tab EXCEPT ![t].call.stage = "sent", ![t].call.count = @ + 1]
    /\ UNCHANGED <<manager, issued, saved, edits, outdated, events>>

\* .catch: an error is shown, and what was on the page stays.
CallFails(t) ==
    /\ Stage(t) = "failed"
    /\ Settled(t, tab[t])
    /\ UNCHANGED <<manager, issued, saved, edits, outdated, events>>

----------------------------------------------------------------------------
(* Loading and editing the settings.                                       *)

\* httpSetupData sends the settings the Manager runs with, without the secret.
httpSetupData(t) ==
    /\ Stage(t) = "sent" /\ tab[t].call.kind = "load"
    /\ tab' = [tab EXCEPT ![t].call.stage = "done", ![t].body = mem.settings]
    /\ UNCHANGED <<manager, issued, saved, edits, outdated, events>>

\* .then of loadSetupData: setConfig and markConfigAsOriginal.
loadSetupData(t) ==
    /\ Stage(t) = "done" /\ tab[t].call.kind = "load"
    /\ Settled(t, [tab[t] EXCEPT !.loaded = TRUE, !.config = tab[t].body, !.original = tab[t].body])
    /\ UNCHANGED <<manager, issued, saved, edits, outdated, events>>

\* "Reload Active Configuration" of the YAML editor.
ReloadActive(t) ==
    /\ Event
    /\ tab[t].where = "setup" /\ tab[t].loaded /\ Stage(t) = "none"
    /\ tab' = [tab EXCEPT ![t].call = [stage |-> "sent", kind |-> "load", count |-> 1]]
    /\ UNCHANGED <<manager, issued, saved, edits, outdated>>

\* The user edits a field, also while the page is saving.
Edit(t) ==
    /\ tab[t].where = "setup" /\ tab[t].loaded
    /\ edits < MaxSetting
    /\ edits' = edits + 1
    /\ tab' = [tab EXCEPT ![t].config.setting = edits + 1]
    /\ UNCHANGED <<manager, issued, saved, outdated, events>>

\* "Configuration has not changed, no need to save" (vue-components.html:135).
saveButtonDisabled(t) == tab[t].config = tab[t].original

----------------------------------------------------------------------------
(* Saving them.                                                            *)

saveConfig(t, config) ==
    /\ tab[t].where = "setup" /\ tab[t].loaded /\ Stage(t) = "none"
    /\ tab' = [tab EXCEPT ![t].call = [stage |-> "sent", kind |-> "save", count |-> 1],
                          ![t].config = config, ![t].body = config]
    /\ UNCHANGED <<manager, issued, saved, edits, outdated, events>>

\* The form.
SaveForm(t) == ~saveButtonDisabled(t) /\ saveConfig(t, tab[t].config)

\* The YAML editor, where users may delete variables, or write them again.
SaveYaml(t) ==
    \E variables \in SUBSET Variables : saveConfig(t, [tab[t].config EXCEPT !.variables = variables])

\* httpSaveYAML copies web.config and decodes the YAML over the copy.  What is
\* not sent keeps its value.  The map of variables is shared with web.config,
\* and decoding into a map only adds to it.
DecodeInto(t, secret) ==
    LET merged == mem.settings.variables \cup tab[t].body.variables
    IN  /\ Stage(t) = "sent" /\ tab[t].call.kind = "save" /\ saving[t] = None
        /\ To(t, "handled")
        /\ mem' = [mem EXCEPT !.settings.variables = merged]
        /\ saving' = [saving EXCEPT ![t] =
               [settings |-> [tab[t].body EXCEPT !.variables = merged], secret |-> secret]]
        /\ UNCHANGED <<file, linker, returning, issued, saved, edits, outdated, events>>

\* Mutant: the YAML is decoded into empty settings.
DecodeAnew(t) == DecodeInto(t, 0)

Decode(t) == DecodeInto(t, mem.secret)

\* Overwrite writes the copy; web.config remains as it is.  The page that sent
\* it may have gone.
Overwrite(t) ==
    /\ saving[t] # None
    /\ file' = saving[t]
    /\ saving' = [saving EXCEPT ![t] = None]
    /\ IF Stage(t) = "handled"
       THEN To(t, "done") /\ saved' = tab[t].body
       ELSE UNCHANGED <<tab, saved>>
    /\ UNCHANGED <<mem, linker, returning, issued, edits, outdated, events>>

\* .then of saveConfig: markConfigAsOriginal copies what is on the page now.
SaveDone(t) ==
    /\ Stage(t) = "done" /\ tab[t].call.kind = "save"
    /\ Settled(t, [tab[t] EXCEPT !.original = tab[t].config])
    /\ UNCHANGED <<manager, issued, saved, edits, outdated, events>>

----------------------------------------------------------------------------
(* Linking to the Server.                                                  *)

\* apiLinkStart stores the URL of the Server, which overwrites the file with
\* the settings the Manager runs with, and exchanges a key with the Server.
\* The page goes there, which ends its calls.  When the key cannot be exchanged
\* the linker of before remains, and so does the page.
apiLinkStart(t) ==
    /\ Event
    /\ tab[t].where = "setup"
    /\ file' = mem
    /\ \/ linker' = TRUE /\ tab' = [tab EXCEPT ![t].where = "server", ![t].call = NoCall]
       \/ "lost" \in Env /\ UNCHANGED <<linker, tab>>
    /\ UNCHANGED <<mem, returning, saving, issued, saved, edits, outdated>>

Handling == \E t \in Tabs : saving[t] # None

\* httpLinkReturn with the manager that the user chose at the Server.  When the
\* Manager was restarted it has no linker, and sends the page to the setup.
httpLinkReturn(t, id) ==
    /\ tab[t].where = "server" /\ returning = None
    /\ Handling => "slow" \in Env
    /\ IF linker
       THEN /\ mem' = [mem EXCEPT !.settings.id = id]
            /\ returning' = id
            /\ UNCHANGED tab
       ELSE /\ tab' = [tab EXCEPT ![t] = OpenTab]
            /\ UNCHANGED <<mem, returning>>
    /\ UNCHANGED <<file, linker, saving, issued, saved, edits, outdated, events>>

SetSecret(settings, secret) ==
    /\ mem' = [settings |-> settings, secret |-> secret]
    /\ file' = mem'

\* Mutant: the new secret is not stored.
resetAuthTokenOnly ==
    /\ returning # None
    /\ issued' = [issued EXCEPT ![returning] = @ + 1]
    /\ mem' = [mem EXCEPT !.secret = issued'[returning]]
    /\ returning' = None
    /\ tab' = [t \in Tabs |-> IF tab[t].where = "server" THEN OpenTab ELSE tab[t]]
    /\ UNCHANGED <<file, linker, saving, saved, edits, outdated, events>>

\* The Server gives the manager a new secret, which is stored with the settings
\* the Manager runs with.  The user continues with the setup.
resetAuthToken ==
    /\ returning # None
    /\ issued' = [issued EXCEPT ![returning] = @ + 1]
    /\ SetSecret(mem.settings, issued'[returning])
    /\ returning' = None
    /\ tab' = [t \in Tabs |-> IF tab[t].where = "server" THEN OpenTab ELSE tab[t]]
    /\ UNCHANGED <<linker, saving, saved, edits, outdated, events>>

\* The answer with the new secret gets lost: nothing is stored, but web.config
\* has the new manager already.
ResetLost ==
    /\ "reset" \in Env /\ Event
    /\ returning # None
    /\ issued' = [issued EXCEPT ![returning] = @ + 1]
    /\ returning' = None
    /\ tab' = [t \in Tabs |-> IF tab[t].where = "server" THEN OpenTab ELSE tab[t]]
    /\ outdated' = TRUE
    /\ UNCHANGED <<mem, file, linker, saving, saved, edits>>

----------------------------------------------------------------------------

\* The Manager starts again with what is in the file.  What it was handling
\* is gone; the calls of the pages fail, and who restarted it opens the setup.
Restart ==
    /\ "restart" \in Env /\ Event
    /\ mem' = file
    /\ linker' = FALSE
    /\ returning' = None
    /\ saving' = [t \in Tabs |-> None]
    /\ tab' = [t \in Tabs |->
           IF Stage(t) \in {"sent", "handled"} THEN [tab[t] EXCEPT !.call.stage = "failed"] ELSE tab[t]]
    /\ UNCHANGED <<file, issued, saved, edits, outdated>>

\* The user opens or reloads the setup.
Reload(t) ==
    /\ Event
    /\ tab[t].where = "setup"
    /\ tab' = [tab EXCEPT ![t] = OpenTab]
    /\ UNCHANGED <<manager, issued, saved, edits, outdated>>

\* The user goes back from the Server to the page as it was.
Back(t) ==
    /\ "back" \in Env /\ Event
    /\ tab[t].where = "server"
    /\ tab' = [tab EXCEPT ![t].where = "setup"]
    /\ outdated' = TRUE
    /\ UNCHANGED <<manager, issued, saved, edits>>

Next ==
    \/ \E t \in Tabs :
           \/ Refuse(t) \/ CallLost(t) \/ TokenObtained(t) \/ CallFails(t)
           \/ httpSetupData(t) \/ loadSetupData(t)
           \/ Edit(t) \/ SaveForm(t) \/ SaveYaml(t) \/ ReloadActive(t) \/ Decode(t) \/ Overwrite(t) \/ SaveDone(t)
           \/ apiLinkStart(t) \/ \E id \in Ids : httpLinkReturn(t, id)
           \/ Reload(t) \/ Back(t)
    \/ resetAuthToken \/ ResetLost
    \/ Restart

Spec == Init /\ [][Next]_vars

\* Callbacks and handlers run, and the Manager and the Server answer.  Nothing
\* is assumed of the user.
Fairness ==
    /\ \A t \in Tabs :
           /\ WF_vars(Refuse(t) \/ httpSetupData(t) \/ Decode(t))
           /\ WF_vars(TokenObtained(t) \/ CallFails(t) \/ loadSetupData(t) \/ SaveDone(t))
           /\ WF_vars(Overwrite(t))
    /\ WF_vars(resetAuthToken)

FairSpec == Spec /\ Fairness

----------------------------------------------------------------------------
(* Properties.                                                             *)

SecretOfItsManager ==
    IF file.settings.id = None
    THEN \A i \in Ids : issued[i] = 0
    ELSE file.secret = issued[file.settings.id]

\* The file always has the secret that the Server gave out last for the
\* manager in the file, and has no manager only when none was ever linked: a
\* page never gets to see the secret, so that saving its settings must neither
\* lose it nor combine it with another manager (settings.go:206, "manager_secret,
\* omitempty").  Two faults are excepted: an answer of the Server that was
\* lost, and a page that the user went back to.
CredentialsMatch == outdated \/ SecretOfItsManager

\* CredentialsMatch without its exceptions.  It fails, with either of them.
AlwaysMatch == SecretOfItsManager

\* Every call of jwtAjax is settled, also when the Manager refuses every token
\* ("infinite loop detected", jwtauth.js:136), or is restarted meanwhile.
CallsEnd == \A t \in Tabs : Stage(t) # "none" ~> Stage(t) = "none"

\* "Restart Flamenco Manager to apply the new settings" (websetup.js:527).  It
\* fails: starting to link writes the settings of before over the saved ones.
SavedIsApplied ==
    [][Restart /\ saved.setting > 0 => mem'.settings.setting = saved.setting]_vars

\* A variable that was deleted is gone once what was saved is applied.  It
\* fails: saving adds to the map of variables and never removes from it.
DeletedIsGone ==
    [][Restart /\ saved.setting > 0 => mem'.settings.variables \subseteq saved.variables]_vars

\* "Configuration has not changed, no need to save" (vue-components.html:135).
\* It fails: what is edited while the page saves is marked as original too.
UnchangedIsSaved ==
    \A t \in Tabs :
        Stage(t) = "none" /\ tab[t].loaded /\ saveButtonDisabled(t) =>
            tab[t].config.setting \in {0, file.settings.setting, mem.settings.setting}
============================================================================
