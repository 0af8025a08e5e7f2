--------------------------- MODULE WebSetupProofs ---------------------------
(* Theorems about WebSetup, for any settings, variables, managers and faults, *)
(* and for the credentials with one page: what is saved and linked never      *)
(* separates the secret in the file from its manager.  And theorems about     *)
(* VariableEditor, for any platforms, values and number of rows: what the     *)
(* form shows is saved, and adding a row changes no value.                    *)
EXTENDS WebSetup, VariableEditor, WellFoundedInduction, TLAPS

LEMMA TabsAreTyped ==
    ASSUME TypeOK, NEW t \in Tabs
    PROVE  /\ tab \in [Tabs -> TabType] /\ tab[t] \in TabType
           /\ tab[t].config \in Settings /\ tab[t].original \in Settings /\ tab[t].body \in Settings
           /\ tab[t].call \in CallType /\ tab[t].where \in {"setup", "server"}
BY DEF TypeOK, TabType

LEMMA CallsTyped ==
    /\ NoCall \in CallType
    /\ \A kind \in {"load", "save"} : [stage |-> "sent", kind |-> kind, count |-> 1] \in CallType
BY DEF NoCall, CallType, MaxRequests

LEMMA SettingsTyped == NoSettings \in Settings
BY WebSetupAssumption DEF NoSettings, Settings

LEMMA OpenTyped == OpenTab \in TabType
<1>1. [stage |-> "sent", kind |-> "load", count |-> 1] \in CallType
  BY CallsTyped
<1> QED  BY <1>1, SettingsTyped DEF OpenTab, TabType

(* What To and Settled make of a page. *)
LEMMA ToTyped ==
    ASSUME TypeOK, NEW t \in Tabs, NEW stage \in {"none", "sent", "handled", "done", "failed", "token"}, To(t, stage)
    PROVE  /\ tab' \in [Tabs -> TabType]
           /\ tab' = [tab EXCEPT ![t] = [tab[t] EXCEPT !.call = [tab[t].call EXCEPT !.stage = stage]]]
<1> DEFINE call == [tab[t].call EXCEPT !.stage = stage]
           page == [tab[t] EXCEPT !.call = call]
<1>1. call \in CallType
  BY TabsAreTyped DEF CallType
<1> HIDE DEF call
<1>2. page \in TabType
  BY <1>1, TabsAreTyped DEF TabType
<1>3. tab' = [tab EXCEPT ![t] = page]
  BY DEF To, page, call
<1> HIDE DEF page
<1>4. tab' \in [Tabs -> TabType]
  BY <1>2, <1>3, TabsAreTyped
<1> QED  BY <1>3, <1>4 DEF page, call

LEMMA SettledTyped ==
    ASSUME TypeOK, NEW t \in Tabs, NEW page \in TabType, Settled(t, page)
    PROVE  /\ tab' \in [Tabs -> TabType]
           /\ tab' = [tab EXCEPT ![t] = [page EXCEPT !.call = NoCall]]
<1>1. [page EXCEPT !.call = NoCall] \in TabType
  BY CallsTyped DEF TabType
<1> QED  BY <1>1, TabsAreTyped DEF Settled

-----------------------------------------------------------------------------
(* What each action makes of its page. *)

(* A page, as long as the user does not go back to one of before the linking: *)
(* it shows and sends settings of the manager with this id.                   *)
PageOf(page, id) ==
    /\ page.where = "setup" /\ page.loaded => page.config.id = id
    /\ page.where = "setup" /\ page.call.kind = "save" => page.body.id = id
    /\ page.where = "setup" /\ page.call.kind = "load" /\ page.call.stage = "done" => page.body.id = id
    /\ page.where = "server" => page.call = NoCall
    /\ page.call.stage = "handled" => page.call.kind = "save"

(* An action of the page that stays where it is. *)
Becomes(t, page) ==
    /\ page \in TabType
    /\ tab' = [tab EXCEPT ![t] = page]
    /\ page.where = tab[t].where
    /\ PageOf(tab[t], mem.settings.id) => PageOf(page, mem.settings.id)

LEMMA ToPage ==
    ASSUME TypeOK, NEW t \in Tabs, NEW stage \in {"none", "sent", "handled", "done", "failed", "token"}, To(t, stage),
           tab[t].call # NoCall, stage \in {"handled", "done"} => tab[t].call.kind = "save"
    PROVE  \E page : Becomes(t, page)
<1> DEFINE call == [tab[t].call EXCEPT !.stage = stage]
           page == [tab[t] EXCEPT !.call = call]
<1>1. tab' = [tab EXCEPT ![t] = page]
  BY ToTyped
<1>2. call \in CallType /\ call.stage = stage /\ call.kind = tab[t].call.kind
  BY TabsAreTyped DEF CallType
<1> HIDE DEF call
<1>3. /\ page \in TabType /\ page.where = tab[t].where /\ page.call = call
      /\ page.config = tab[t].config /\ page.body = tab[t].body /\ page.loaded = tab[t].loaded
  BY <1>2, TabsAreTyped DEF TabType
<1> HIDE DEF page
<1>4. PageOf(tab[t], mem.settings.id) => PageOf(page, mem.settings.id)
  BY <1>2, <1>3 DEF PageOf
<1> QED  BY <1>1, <1>3, <1>4 DEF Becomes

LEMMA TokenObtainedPage ==
    ASSUME TypeOK, NEW t \in Tabs, TokenObtained(t), ~(tab[t].call.count >= MaxRequests)
    PROVE  \E page : Becomes(t, page)
<1> DEFINE call == [tab[t].call EXCEPT !.stage = "sent", !.count = @ + 1]
           page == [tab[t] EXCEPT !.call = call]
<1>1. tab[t].call \in CallType /\ tab[t].call.stage = "token"
  BY TabsAreTyped DEF TokenObtained, Stage
<1>2. tab[t].call.count + 1 \in 0 .. MaxRequests
  BY <1>1 DEF CallType, MaxRequests
<1>3. call \in CallType /\ call.kind = tab[t].call.kind /\ call.stage = "sent"
  BY <1>1, <1>2 DEF CallType
<1>4. tab' = [tab EXCEPT ![t] = page]
  BY <1>1, TabsAreTyped DEF TokenObtained, TabType, CallType
<1> HIDE DEF call
<1>5. /\ page \in TabType /\ page.where = tab[t].where /\ page.call = call
      /\ page.config = tab[t].config /\ page.body = tab[t].body /\ page.loaded = tab[t].loaded
  BY <1>3, TabsAreTyped DEF TabType
<1> HIDE DEF page
<1>6. PageOf(tab[t], mem.settings.id) => PageOf(page, mem.settings.id)
  BY <1>1, <1>3, <1>5 DEF PageOf, NoCall
<1> QED  BY <1>4, <1>5, <1>6 DEF Becomes

(* A page with another call, and other settings of the same manager. *)
LEMMA PageBecomes ==
    ASSUME TypeOK, NEW t \in Tabs, NEW page \in TabType, tab' = [tab EXCEPT ![t] = page],
           page.where = tab[t].where,
           PageOf(tab[t], mem.settings.id) => PageOf(page, mem.settings.id)
    PROVE  \E other : Becomes(t, other)
BY DEF Becomes

LEMMA LoadPage ==
    ASSUME TypeOK, NEW t \in Tabs, httpSetupData(t) \/ loadSetupData(t) \/ ReloadActive(t) \/ Reload(t)
    PROVE  \E page : Becomes(t, page)
<1> USE DEF Becomes
<1>0. tab[t] \in TabType /\ tab[t].call \in CallType /\ mem.settings \in Settings
  BY TabsAreTyped DEF TypeOK, ConfigType
<1>1. CASE httpSetupData(t)
  <2> DEFINE call == [tab[t].call EXCEPT !.stage = "done"]
             page == [tab[t] EXCEPT !.call = call, !.body = mem.settings]
  <2>1. call \in CallType /\ call.kind = "load" /\ call.stage = "done"
    BY <1>0, <1>1 DEF CallType, httpSetupData
  <2>2. tab' = [tab EXCEPT ![t] = page]
    BY <1>0, <1>1, TabsAreTyped DEF httpSetupData, TabType
  <2>3. tab[t].call # NoCall
    BY <1>1 DEF httpSetupData, Stage, NoCall
  <2> HIDE DEF call
  <2>4. /\ page \in TabType /\ page.where = tab[t].where /\ page.call = call
        /\ page.config = tab[t].config /\ page.body = mem.settings /\ page.loaded = tab[t].loaded
    BY <1>0, <2>1 DEF TabType
  <2> HIDE DEF page
  <2> QED  BY <2>1, <2>2, <2>3, <2>4, PageBecomes DEF PageOf
<1>2. CASE loadSetupData(t)
  <2> DEFINE page == [tab[t] EXCEPT !.loaded = TRUE, !.config = tab[t].body, !.original = tab[t].body, !.call = NoCall]
  <2>1. tab' = [tab EXCEPT ![t] = page]
    BY <1>0, <1>2 DEF loadSetupData, Settled, TabType
  <2>2. /\ page \in TabType /\ page.where = tab[t].where /\ page.call = NoCall
        /\ page.config = tab[t].body /\ page.loaded
    BY <1>0, CallsTyped DEF TabType
  <2>3. tab[t].call.stage = "done" /\ tab[t].call.kind = "load"
    BY <1>2 DEF loadSetupData, Stage
  <2> HIDE DEF page
  <2>4. NoCall.kind = "none" /\ NoCall.stage = "none" /\ tab[t].call # NoCall
    BY <2>3 DEF NoCall
  <2>5. PageOf(tab[t], mem.settings.id) => PageOf(page, mem.settings.id)
    BY <2>2, <2>3, <2>4 DEF PageOf
  <2> QED  BY <2>1, <2>2, <2>5, PageBecomes
<1>3. CASE ReloadActive(t)
  <2> DEFINE page == [tab[t] EXCEPT !.call = [stage |-> "sent", kind |-> "load", count |-> 1]]
  <2>1. tab' = [tab EXCEPT ![t] = page] /\ tab[t].where = "setup"
    BY <1>3 DEF ReloadActive
  <2>2. /\ page \in TabType /\ page.where = tab[t].where /\ page.call.kind = "load" /\ page.call.stage = "sent"
        /\ page.config = tab[t].config /\ page.loaded = tab[t].loaded
    BY <1>0, CallsTyped DEF TabType
  <2> HIDE DEF page
  <2> QED  BY <2>1, <2>2, PageBecomes DEF PageOf
<1>4. CASE Reload(t)
  <2>1. tab' = [tab EXCEPT ![t] = OpenTab] /\ tab[t].where = "setup"
    BY <1>4 DEF Reload
  <2>2. PageOf(OpenTab, mem.settings.id) /\ OpenTab.where = "setup"
    BY DEF PageOf, OpenTab
  <2> HIDE DEF OpenTab
  <2> QED  BY <2>1, <2>2, OpenTyped, PageBecomes
<1> QED  BY <1>1, <1>2, <1>3, <1>4

LEMMA EditPage ==
    ASSUME TypeOK, NEW t \in Tabs, Edit(t) \/ SaveForm(t) \/ SaveYaml(t) \/ SaveDone(t) \/ CallFails(t)
    PROVE  \E page : Becomes(t, page)
<1>0. /\ tab[t] \in TabType /\ tab[t].call \in CallType /\ tab[t].config \in Settings
      /\ tab[t].body \in Settings /\ tab[t].original \in Settings
  BY TabsAreTyped
<1>1. CASE Edit(t)
  <2> DEFINE config == [tab[t].config EXCEPT !.setting = edits + 1]
             page == [tab[t] EXCEPT !.config = config]
  <2>1. edits + 1 \in 0 .. MaxSetting
    BY <1>1, WebSetupAssumption DEF Edit, TypeOK
  <2>2. config \in Settings /\ config.id = tab[t].config.id
    BY <1>0, <2>1 DEF Settings
  <2>3. tab' = [tab EXCEPT ![t] = page]
    BY <1>0, <1>1, TabsAreTyped DEF Edit, TabType
  <2> HIDE DEF config
  <2>4. /\ page \in TabType /\ page.where = tab[t].where /\ page.call = tab[t].call
        /\ page.config = config /\ page.body = tab[t].body /\ page.loaded = tab[t].loaded
    BY <1>0, <2>2 DEF TabType
  <2> HIDE DEF page
  <2> QED  BY <2>2, <2>3, <2>4, PageBecomes DEF PageOf
<1>2. CASE SaveForm(t) \/ SaveYaml(t)
  <2>1. PICK config \in Settings : config.id = tab[t].config.id /\ saveConfig(t, config)
    <3>1. \A variables \in SUBSET Variables : /\ [tab[t].config EXCEPT !.variables = variables] \in Settings
                                              /\ [tab[t].config EXCEPT !.variables = variables].id = tab[t].config.id
      BY <1>0 DEF Settings
    <3> QED  BY <1>0, <1>2, <3>1 DEF SaveForm, SaveYaml
  <2> DEFINE call == [stage |-> "sent", kind |-> "save", count |-> 1]
             page == [tab[t] EXCEPT !.call = call, !.config = config, !.body = config]
  <2>2. tab' = [tab EXCEPT ![t] = page] /\ tab[t].where = "setup" /\ tab[t].loaded
    BY <1>0, <2>1, TabsAreTyped DEF saveConfig, TabType
  <2>3. call \in CallType /\ call.kind = "save" /\ call.stage = "sent"
    BY CallsTyped
  <2> HIDE DEF call
  <2>4. /\ page \in TabType /\ page.where = tab[t].where /\ page.call = call
        /\ page.config = config /\ page.body = config /\ page.loaded = tab[t].loaded
    BY <1>0, <2>3 DEF TabType
  <2> HIDE DEF page
  <2> QED  BY <2>1, <2>2, <2>3, <2>4, PageBecomes DEF PageOf
<1>3. CASE SaveDone(t) \/ CallFails(t)
  <2>1. PICK original \in Settings : Settled(t, [tab[t] EXCEPT !.original = original])
    <3>1. tab[t] = [tab[t] EXCEPT !.original = tab[t].original]
      BY <1>0 DEF TabType
    <3> QED  BY <1>0, <1>3, <3>1 DEF SaveDone, CallFails
  <2> DEFINE page == [tab[t] EXCEPT !.original = original, !.call = NoCall]
  <2>2. tab' = [tab EXCEPT ![t] = page]
    BY <1>0, <2>1 DEF Settled, TabType
  <2>3. /\ page \in TabType /\ page.where = tab[t].where /\ page.call = NoCall
        /\ page.config = tab[t].config /\ page.loaded = tab[t].loaded
    BY <1>0, CallsTyped DEF TabType
  <2> HIDE DEF page
  <2>4. NoCall.kind = "none" /\ NoCall.stage = "none"
    BY DEF NoCall
  <2>5. PageOf(tab[t], mem.settings.id) => PageOf(page, mem.settings.id)
    BY <2>3, <2>4 DEF PageOf
  <2> QED  BY <2>2, <2>3, <2>5, PageBecomes
<1> QED  BY <1>1, <1>2, <1>3

LEMMA CallPage ==
    ASSUME TypeOK, NEW t \in Tabs, Refuse(t) \/ CallLost(t) \/ TokenObtained(t)
    PROVE  \E page : Becomes(t, page)
<1>1. CASE Refuse(t) \/ CallLost(t) \/ (TokenObtained(t) /\ tab[t].call.count >= MaxRequests)
  <2>1. PICK stage \in {"token", "failed"} : To(t, stage)
    BY <1>1 DEF Refuse, CallLost, TokenObtained
  <2>2. tab[t].call # NoCall
    BY <1>1 DEF Refuse, CallLost, TokenObtained, Stage, NoCall
  <2> QED  BY <2>1, <2>2, ToPage
<1>2. CASE TokenObtained(t) /\ ~(tab[t].call.count >= MaxRequests)
  BY <1>2, TokenObtainedPage
<1> QED  BY <1>1, <1>2

(* The actions of a page alone. *)
PageAction(t) ==
    \/ Refuse(t) \/ CallLost(t) \/ TokenObtained(t) \/ CallFails(t)
    \/ httpSetupData(t) \/ loadSetupData(t) \/ ReloadActive(t) \/ Reload(t)
    \/ Edit(t) \/ SaveForm(t) \/ SaveYaml(t) \/ SaveDone(t)

LEMMA PageActions ==
    ASSUME TypeOK, NEW t \in Tabs, PageAction(t)
    PROVE  (\E page : Becomes(t, page)) /\ UNCHANGED <<manager, issued, saved, outdated>>
<1>1. UNCHANGED <<manager, issued, saved, outdated>>
  BY DEF PageAction, Refuse, CallLost, TokenObtained, CallFails, httpSetupData, loadSetupData, ReloadActive, Reload,
         Edit, SaveForm, SaveYaml, saveConfig, SaveDone
<1>2. \E page : Becomes(t, page)
  BY LoadPage, EditPage, CallPage DEF PageAction
<1> QED  BY <1>1, <1>2

-----------------------------------------------------------------------------
(* Type correctness. *)

LEMMA TypeInitially == Init => TypeOK
<1> SUFFICES ASSUME Init PROVE TypeOK
  OBVIOUS
<1>1. mem \in ConfigType
  BY SettingsTyped DEF Init, ConfigType
<1>2. 0 \in 0 .. MaxSetting /\ 0 \in 0 .. MaxEvents
  BY WebSetupAssumption
<1> HIDE DEF NoSettings, OpenTab, ConfigType
<1> QED  BY <1>1, <1>2, SettingsTyped, OpenTyped DEF Init, TypeOK

LEMMA TypeKept == TypeOK /\ [Next]_vars => TypeOK'
<1> SUFFICES ASSUME TypeOK, [Next]_vars PROVE TypeOK'
  OBVIOUS
<1>0. Event => events' \in 0 .. MaxEvents
  BY WebSetupAssumption DEF Event, TypeOK
<1>1. ASSUME NEW t \in Tabs, PageAction(t) PROVE TypeOK'
  <2>1. tab' \in [Tabs -> TabType] /\ UNCHANGED <<manager, issued, saved, outdated>>
    BY <1>1, PageActions, TabsAreTyped DEF Becomes
  <2>2. events' \in 0 .. MaxEvents
    BY <1>0, <1>1 DEF PageAction, Refuse, CallLost, TokenObtained, CallFails, httpSetupData, loadSetupData, ReloadActive,
                      Reload, Edit, SaveForm, SaveYaml, saveConfig, SaveDone, TypeOK
  <2>3. edits' \in 0 .. MaxSetting
    <3>1. CASE Edit(t)
      BY <3>1, WebSetupAssumption DEF Edit, TypeOK
    <3>2. CASE ~Edit(t)
      BY <1>1, <3>2 DEF PageAction, Refuse, CallLost, TokenObtained, CallFails, httpSetupData, loadSetupData, ReloadActive,
                        Reload, SaveForm, SaveYaml, saveConfig, SaveDone, TypeOK
    <3> QED  BY <3>1, <3>2
  <2> QED  BY <2>1, <2>2, <2>3 DEF TypeOK, manager
<1>2. ASSUME NEW t \in Tabs, Decode(t) PROVE TypeOK'
  <2> DEFINE merged == mem.settings.variables \cup tab[t].body.variables
             settings == [tab[t].body EXCEPT !.variables = merged]
  <2>1. tab' \in [Tabs -> TabType]
    BY <1>2, ToTyped DEF Decode, DecodeInto
  <2>2. mem \in ConfigType /\ mem.settings \in Settings /\ mem.secret \in Nat /\ tab[t].body \in Settings
    BY TabsAreTyped DEF TypeOK, ConfigType
  <2>3. merged \subseteq Variables
    BY <2>2 DEF Settings
  <2>4. mem' \in ConfigType
    <3>1. [mem.settings EXCEPT !.variables = merged] \in Settings
      BY <2>2, <2>3 DEF Settings
    <3>2. mem' = [mem EXCEPT !.settings = [mem.settings EXCEPT !.variables = merged]]
      BY <1>2, <2>2 DEF Decode, DecodeInto, ConfigType
    <3> HIDE DEF merged
    <3> QED  BY <2>2, <3>1, <3>2 DEF ConfigType
  <2>5. settings \in Settings
    BY <2>2, <2>3 DEF Settings
  <2>6. saving' = [saving EXCEPT ![t] = [settings |-> settings, secret |-> mem.secret]]
    BY <1>2 DEF Decode, DecodeInto
  <2> HIDE DEF settings
  <2>7. [settings |-> settings, secret |-> mem.secret] \in ConfigType
    BY <2>2, <2>5 DEF ConfigType
  <2>8. saving' \in [Tabs -> ConfigType \cup {None}]
    BY <2>6, <2>7 DEF TypeOK
  <2> QED  BY <1>2, <2>1, <2>4, <2>8 DEF Decode, DecodeInto, TypeOK
<1>3. ASSUME NEW t \in Tabs, Overwrite(t) PROVE TypeOK'
  <2>1. tab' \in [Tabs -> TabType] /\ saved' \in Settings
    BY <1>3, ToTyped, TabsAreTyped DEF Overwrite, TypeOK
  <2>2. file' \in ConfigType
    BY <1>3 DEF Overwrite, TypeOK
  <2> QED  BY <1>3, <2>1, <2>2 DEF Overwrite, TypeOK
<1>4. ASSUME NEW t \in Tabs, NEW where \in {"setup", "server"}, NEW call \in CallType
      PROVE  [tab EXCEPT ![t] = [tab[t] EXCEPT !.where = where, !.call = call]] \in [Tabs -> TabType]
  <2>1. [tab[t] EXCEPT !.where = where, !.call = call] \in TabType
    BY TabsAreTyped DEF TabType
  <2> QED  BY <2>1, TabsAreTyped
<1>5. ASSUME NEW t \in Tabs, apiLinkStart(t) PROVE TypeOK'
  <2>1. tab' \in [Tabs -> TabType]
    <3>1. CASE tab' = tab
      BY <3>1, TabsAreTyped
    <3>2. CASE tab' # tab
      <4>1. tab' = [tab EXCEPT ![t] = [tab[t] EXCEPT !.where = "server", !.call = NoCall]]
        BY <1>5, <3>2, TabsAreTyped DEF apiLinkStart, TabType
      <4> QED  BY <1>4, <4>1, CallsTyped
    <3> QED  BY <3>1, <3>2
  <2> QED  BY <1>0, <1>5, <2>1 DEF apiLinkStart, TypeOK
<1>6. ASSUME NEW t \in Tabs, NEW id \in Ids, httpLinkReturn(t, id) PROVE TypeOK'
  <2>1. tab' \in [Tabs -> TabType]
    BY <1>6, OpenTyped, TabsAreTyped DEF httpLinkReturn
  <2>2. mem' \in ConfigType /\ returning' \in Ids \cup {None}
    <3>1. [mem.settings EXCEPT !.id = id] \in Settings
      BY DEF TypeOK, ConfigType, Settings
    <3>2. CASE linker
      <4>1. mem' = [mem EXCEPT !.settings = [mem.settings EXCEPT !.id = id]] /\ returning' = id
        BY <1>6, <3>2 DEF httpLinkReturn, TypeOK, ConfigType
      <4>2. mem' \in ConfigType
        BY <3>1, <4>1 DEF TypeOK, ConfigType
      <4> QED  BY <4>1, <4>2
    <3>3. CASE ~linker
      BY <1>6, <3>3 DEF httpLinkReturn, TypeOK
    <3> QED  BY <3>2, <3>3
  <2> QED  BY <1>6, <2>1, <2>2 DEF httpLinkReturn, TypeOK
<1>7. CASE resetAuthToken \/ ResetLost
  <2>1. returning \in Ids
    BY <1>7 DEF resetAuthToken, ResetLost, TypeOK
  <2>2. issued' = [issued EXCEPT ![returning] = issued[returning] + 1]
    BY <1>7 DEF resetAuthToken, ResetLost
  <2>3. issued' \in [Ids -> Nat]
    BY <2>1, <2>2 DEF TypeOK
  <2>4. issued'[returning] \in Nat
    BY <2>1, <2>3
  <2>5. mem' \in ConfigType /\ file' \in ConfigType
    <3>1. CASE resetAuthToken
      <4>1. mem' = [settings |-> mem.settings, secret |-> issued'[returning]] /\ file' = mem'
        BY <3>1 DEF resetAuthToken, SetSecret
      <4> QED  BY <2>4, <4>1 DEF TypeOK, ConfigType
    <3>2. CASE ResetLost
      BY <3>2 DEF ResetLost, TypeOK
    <3> QED  BY <1>7, <3>1, <3>2
  <2>6. tab' \in [Tabs -> TabType]
    <3>1. tab' = [t \in Tabs |-> IF tab[t].where = "server" THEN OpenTab ELSE tab[t]]
      BY <1>7 DEF resetAuthToken, ResetLost
    <3>2. \A t \in Tabs : (IF tab[t].where = "server" THEN OpenTab ELSE tab[t]) \in TabType
      BY OpenTyped, TabsAreTyped
    <3> HIDE DEF OpenTab
    <3> QED  BY <3>1, <3>2
  <2>7. returning' = None /\ UNCHANGED <<linker, saving, saved, edits>>
        /\ outdated' \in BOOLEAN /\ events' \in 0 .. MaxEvents
    BY <1>0, <1>7 DEF resetAuthToken, ResetLost, TypeOK
  <2> QED  BY <2>3, <2>5, <2>6, <2>7 DEF TypeOK
<1>8. CASE Restart
  <2>1. tab' \in [Tabs -> TabType]
    <3> DEFINE page(t) == IF Stage(t) \in {"sent", "handled"} THEN [tab[t] EXCEPT !.call.stage = "failed"] ELSE tab[t]
    <3>1. ASSUME NEW t \in Tabs PROVE page(t) \in TabType
      <4>1. [tab[t].call EXCEPT !.stage = "failed"] \in CallType
        BY TabsAreTyped DEF CallType
      <4>2. [tab[t] EXCEPT !.call.stage = "failed"] = [tab[t] EXCEPT !.call = [tab[t].call EXCEPT !.stage = "failed"]]
        OBVIOUS
      <4>3. [tab[t] EXCEPT !.call.stage = "failed"] \in TabType
        BY <4>1, <4>2, TabsAreTyped DEF TabType
      <4> QED  BY <4>3, TabsAreTyped
    <3>2. tab' = [t \in Tabs |-> page(t)]
      BY <1>8 DEF Restart
    <3> HIDE DEF page
    <3> QED  BY <3>1, <3>2
  <2>2. saving' \in [Tabs -> ConfigType \cup {None}]
    BY <1>8 DEF Restart
  <2> QED  BY <1>0, <1>8, <2>1, <2>2 DEF Restart, TypeOK
<1>9. ASSUME NEW t \in Tabs, Back(t) PROVE TypeOK'
  <2>1. tab' = [tab EXCEPT ![t] = [tab[t] EXCEPT !.where = "setup", !.call = tab[t].call]]
    BY <1>9, TabsAreTyped DEF Back, TabType
  <2>2. tab' \in [Tabs -> TabType]
    BY <1>4, <2>1, TabsAreTyped
  <2> QED  BY <1>0, <1>9, <2>2 DEF Back, manager, TypeOK
<1>10. CASE UNCHANGED vars
  BY <1>10 DEF vars, TypeOK
<1> QED
  BY <1>1, <1>2, <1>3, <1>5, <1>6, <1>7, <1>8, <1>9, <1>10 DEF Next, PageAction

(* Type correctness of the pages, the Manager, its file and the Server's secrets. *)
THEOREM TypeCorrect == Spec => []TypeOK
<1> QED  BY TypeInitially, TypeKept, PTL DEF Spec

-----------------------------------------------------------------------------
(* The secret and its manager.                                                 *)

(* There is one page, and no save is being handled when the linking returns.   *)
OnePage == (\A s, t \in Tabs : s = t) /\ "slow" \notin Env

(* The Manager runs with the settings that are in the file, but for what is    *)
(* saved; only while it waits for a new secret it has the new manager alone.   *)
MemoryAndFile ==
    IF returning = None
    THEN file.settings.id = mem.settings.id /\ file.secret = mem.secret
    ELSE /\ mem.settings.id = returning
         /\ \A t \in Tabs : tab[t].where = "server" /\ saving[t] = None

(* What is about to be written has the secret and the manager of the memory. *)
SavesOwnSecret ==
    \A t \in Tabs : saving[t] # None => saving[t].settings.id = mem.settings.id /\ saving[t].secret = mem.secret

Linked ==
    /\ SecretOfItsManager
    /\ MemoryAndFile
    /\ SavesOwnSecret
    /\ \A t \in Tabs : PageOf(tab[t], mem.settings.id)

IInv == OnePage /\ TypeOK /\ (outdated \/ Linked)

LEMMA IInvInitially == OnePage /\ Init => IInv
<1> SUFFICES ASSUME OnePage, Init PROVE IInv
  OBVIOUS
<1>1. \A id : PageOf(OpenTab, id)
  BY DEF PageOf, OpenTab
<1>2. mem.settings.id = None
  BY DEF Init, NoSettings
<1> HIDE DEF OpenTab
<1>3. SecretOfItsManager
  BY <1>2 DEF Init, SecretOfItsManager
<1>4. MemoryAndFile /\ SavesOwnSecret
  BY DEF Init, MemoryAndFile, SavesOwnSecret
<1> QED  BY <1>1, <1>3, <1>4, TypeInitially DEF Init, Linked, IInv

(* Nothing but the page changes. *)
LEMMA PageKept ==
    ASSUME IInv, Linked, NEW t \in Tabs, NEW page, Becomes(t, page), UNCHANGED <<manager, issued>>
    PROVE  Linked'
<1>1. tab'[t] = page /\ \A s \in Tabs \ {t} : tab'[s] = tab[s]
  BY TabsAreTyped DEF Becomes, IInv
<1>2. SecretOfItsManager' /\ SavesOwnSecret'
  BY DEF Linked, SecretOfItsManager, SavesOwnSecret, manager
<1>3. MemoryAndFile'
  <2>1. tab'[t].where = tab[t].where
    BY <1>1 DEF Becomes
  <2> QED  BY <1>1, <2>1 DEF Linked, MemoryAndFile, manager
<1>4. \A s \in Tabs : PageOf(tab'[s], mem.settings.id)
  BY <1>1 DEF Linked, Becomes
<1> QED  BY <1>2, <1>3, <1>4 DEF Linked, manager

LEMMA DecodeKept ==
    ASSUME IInv, Linked, NEW t \in Tabs, Decode(t)
    PROVE  Linked'
<1> DEFINE merged == mem.settings.variables \cup tab[t].body.variables
           settings == [tab[t].body EXCEPT !.variables = merged]
<1>0. TypeOK /\ mem.settings \in Settings /\ tab[t].body \in Settings /\ mem \in ConfigType
  BY TabsAreTyped DEF IInv, TypeOK, ConfigType
<1>1. /\ tab[t].call.stage = "sent" /\ tab[t].call.kind = "save" /\ To(t, "handled")
      /\ UNCHANGED <<file, returning, issued>>
  BY DEF Decode, DecodeInto, Stage
<1>2. tab[t].call # NoCall
  BY <1>1 DEF NoCall
<1>3. tab[t].where = "setup" /\ tab[t].body.id = mem.settings.id
  BY <1>0, <1>1, <1>2, TabsAreTyped DEF Linked, PageOf
<1>4. returning = None
  BY <1>3 DEF Linked, MemoryAndFile
<1>5. mem'.settings.id = mem.settings.id /\ mem'.secret = mem.secret
  BY <1>0 DEF Decode, DecodeInto, ConfigType, Settings
<1>6. settings.id = mem.settings.id
  BY <1>0, <1>3 DEF Settings
<1>7. saving' = [saving EXCEPT ![t] = [settings |-> settings, secret |-> mem.secret]]
  BY DEF Decode, DecodeInto
<1> HIDE DEF settings
<1>8. SavesOwnSecret'
  <2>1. /\ saving'[t] = [settings |-> settings, secret |-> mem.secret]
        /\ \A s \in Tabs \ {t} : saving'[s] = saving[s]
    BY <1>0, <1>7 DEF TypeOK
  <2> QED  BY <1>5, <1>6, <2>1 DEF Linked, SavesOwnSecret
<1>9. \A s \in Tabs : PageOf(tab'[s], mem.settings.id)
  <2>1. PICK page : Becomes(t, page)
    BY <1>0, <1>1, <1>2, ToPage
  <2> QED  BY <1>0, <2>1, TabsAreTyped DEF Linked, Becomes
<1>10. SecretOfItsManager'
  BY <1>1 DEF Linked, SecretOfItsManager
<1>11. MemoryAndFile'
  BY <1>1, <1>4, <1>5 DEF Linked, MemoryAndFile
<1> QED  BY <1>5, <1>8, <1>9, <1>10, <1>11 DEF Linked

LEMMA OverwriteKept ==
    ASSUME IInv, Linked, NEW t \in Tabs, Overwrite(t)
    PROVE  Linked'
<1>0. TypeOK
  BY DEF IInv
<1>1. /\ saving[t] # None /\ file' = saving[t] /\ saving' = [saving EXCEPT ![t] = None]
      /\ UNCHANGED <<mem, returning, issued>>
  BY DEF Overwrite
<1>2. returning = None /\ file.settings.id = mem.settings.id /\ file.secret = mem.secret
  BY <1>1 DEF Linked, MemoryAndFile
<1>3. file'.settings.id = file.settings.id /\ file'.secret = file.secret
  BY <1>1, <1>2 DEF Linked, SavesOwnSecret
<1>4. SecretOfItsManager' /\ MemoryAndFile'
  BY <1>1, <1>2, <1>3 DEF Linked, SecretOfItsManager, MemoryAndFile
<1>5. SavesOwnSecret'
  BY <1>0, <1>1 DEF Linked, SavesOwnSecret, TypeOK
<1>6. \A s \in Tabs : PageOf(tab'[s], mem.settings.id)
  <2>1. CASE tab' = tab
    BY <2>1 DEF Linked
  <2>2. CASE To(t, "done") /\ tab[t].call.stage = "handled"
    <3>1. tab[t].call # NoCall
      BY <2>2 DEF NoCall
    <3>2. tab[t].call.kind = "save"
      BY <2>2 DEF Linked, PageOf
    <3>3. PICK page : Becomes(t, page)
      BY <1>0, <2>2, <3>1, <3>2, ToPage
    <3> QED  BY <1>0, <3>3, TabsAreTyped DEF Linked, Becomes
  <2> QED  BY <2>1, <2>2 DEF Overwrite, Stage
<1> QED  BY <1>1, <1>4, <1>5, <1>6 DEF Linked

(* Going to the Server overwrites the file with the memory. *)
LEMMA LinkStartKept ==
    ASSUME IInv, Linked, NEW t \in Tabs, apiLinkStart(t)
    PROVE  Linked'
<1>0. TypeOK /\ \A s \in Tabs : s = t
  BY DEF IInv, OnePage
<1>1. /\ tab[t].where = "setup" /\ file' = mem /\ UNCHANGED <<mem, returning, saving, issued>>
  BY DEF apiLinkStart
<1>2. returning = None
  BY <1>1 DEF Linked, MemoryAndFile
<1>3. file'.settings.id = file.settings.id /\ file'.secret = file.secret
  BY <1>1, <1>2 DEF Linked, MemoryAndFile
<1>4. SecretOfItsManager' /\ MemoryAndFile' /\ SavesOwnSecret'
  BY <1>1, <1>2, <1>3 DEF Linked, SecretOfItsManager, MemoryAndFile, SavesOwnSecret
<1>5. PageOf(tab'[t], mem.settings.id)
  <2>1. CASE tab' = tab
    BY <2>1 DEF Linked
  <2>2. CASE tab' # tab
    <3>1. tab' = [tab EXCEPT ![t] = [tab[t] EXCEPT !.where = "server", !.call = NoCall]]
      BY <1>0, <2>2, TabsAreTyped DEF apiLinkStart, TabType
    <3>2. tab'[t].where = "server" /\ tab'[t].call = NoCall
      BY <1>0, <3>1, TabsAreTyped DEF TabType
    <3>3. NoCall.stage # "handled"
      BY DEF NoCall
    <3> QED  BY <3>2, <3>3 DEF PageOf
  <2> QED  BY <2>1, <2>2
<1> QED  BY <1>0, <1>1, <1>4, <1>5 DEF Linked

(* The Manager has the new manager in memory, while every page is at the Server. *)
LEMMA LinkReturnKept ==
    ASSUME IInv, Linked, NEW t \in Tabs, NEW id \in Ids, httpLinkReturn(t, id)
    PROVE  Linked'
<1>0. TypeOK /\ (\A s \in Tabs : s = t) /\ "slow" \notin Env
  BY DEF IInv, OnePage
<1>1. /\ tab[t].where = "server" /\ returning = None
      /\ UNCHANGED <<file, saving, issued>>
  BY DEF httpLinkReturn
<1>2. \A s \in Tabs : saving[s] = None
  BY <1>0 DEF httpLinkReturn, Handling
<1>3. SecretOfItsManager' /\ SavesOwnSecret'
  BY <1>1, <1>2 DEF Linked, SecretOfItsManager, SavesOwnSecret
<1>4. CASE linker
  <2>1. mem' = [mem EXCEPT !.settings.id = id] /\ returning' = id /\ tab' = tab
    BY <1>4 DEF httpLinkReturn
  <2>2. mem'.settings.id = id /\ id # None
    BY <1>0, <2>1, WebSetupAssumption DEF TypeOK, ConfigType, Settings
  <2>3. MemoryAndFile'
    BY <1>0, <1>1, <1>2, <2>1, <2>2 DEF MemoryAndFile
  <2>4. PageOf(tab'[t], mem'.settings.id)
    BY <1>1, <2>1 DEF Linked, PageOf
  <2> QED  BY <1>0, <1>3, <2>3, <2>4 DEF Linked
<1>5. CASE ~linker
  <2>1. tab' = [tab EXCEPT ![t] = OpenTab] /\ UNCHANGED <<mem, returning>>
    BY <1>5 DEF httpLinkReturn
  <2>2. PageOf(OpenTab, mem.settings.id)
    BY DEF PageOf, OpenTab
  <2>3. MemoryAndFile'
    BY <1>1, <2>1 DEF Linked, MemoryAndFile
  <2> HIDE DEF OpenTab
  <2>4. PageOf(tab'[t], mem'.settings.id)
    BY <1>0, <2>1, <2>2, TabsAreTyped
  <2> QED  BY <1>0, <1>3, <2>3, <2>4 DEF Linked
<1> QED  BY <1>4, <1>5

(* The new secret and its manager are written together. *)
LEMMA ResetKept ==
    ASSUME IInv, Linked, resetAuthToken
    PROVE  Linked'
<1>0. TypeOK
  BY DEF IInv
<1>1. /\ returning \in Ids /\ returning # None
      /\ mem' = [settings |-> mem.settings, secret |-> issued'[returning]] /\ file' = mem'
      /\ returning' = None /\ saving' = saving
      /\ tab' = [t \in Tabs |-> IF tab[t].where = "server" THEN OpenTab ELSE tab[t]]
  BY <1>0 DEF resetAuthToken, SetSecret, TypeOK
<1>2. mem.settings.id = returning /\ \A t \in Tabs : tab[t].where = "server" /\ saving[t] = None
  BY <1>1 DEF Linked, MemoryAndFile
<1>3. mem'.settings.id = returning /\ mem'.secret = issued'[returning]
  BY <1>1, <1>2
<1>4. SecretOfItsManager' /\ MemoryAndFile' /\ SavesOwnSecret'
  BY <1>1, <1>2, <1>3 DEF SecretOfItsManager, MemoryAndFile, SavesOwnSecret
<1>5. \A id : PageOf(OpenTab, id)
  BY DEF PageOf, OpenTab
<1> HIDE DEF OpenTab
<1>6. \A t \in Tabs : tab'[t] = OpenTab
  BY <1>1, <1>2
<1> QED  BY <1>4, <1>5, <1>6 DEF Linked

(* The Manager starts again with a secret and its manager. *)
LEMMA RestartKept ==
    ASSUME IInv, Linked, Restart
    PROVE  Linked'
<1>0. TypeOK
  BY DEF IInv
<1>1. /\ mem' = file /\ returning' = None /\ UNCHANGED <<file, issued>>
      /\ saving' = [t \in Tabs |-> None]
  BY DEF Restart
<1>2. SecretOfItsManager' /\ MemoryAndFile' /\ SavesOwnSecret'
  BY <1>1 DEF Linked, SecretOfItsManager, MemoryAndFile, SavesOwnSecret
<1>3. ASSUME NEW t \in Tabs PROVE PageOf(tab'[t], mem'.settings.id)
  <2>1. /\ tab'[t].where = tab[t].where /\ tab'[t].config = tab[t].config /\ tab'[t].body = tab[t].body
        /\ tab'[t].loaded = tab[t].loaded /\ tab'[t].call.kind = tab[t].call.kind
        /\ tab[t].call = NoCall => tab'[t].call = NoCall
        /\ tab'[t].call.stage \in {tab[t].call.stage, "failed"}
    <3>0. tab[t] \in TabType /\ tab[t].call \in CallType
      BY <1>0, TabsAreTyped
    <3>1. CASE Stage(t) \in {"sent", "handled"}
      <4>1. tab'[t] = [tab[t] EXCEPT !.call = [tab[t].call EXCEPT !.stage = "failed"]]
        BY <3>1 DEF Restart
      <4>2. tab[t].call # NoCall
        BY <3>1 DEF Stage, NoCall
      <4> QED  BY <3>0, <4>1, <4>2 DEF TabType, CallType
    <3>2. CASE Stage(t) \notin {"sent", "handled"}
      BY <3>2 DEF Restart
    <3> QED  BY <3>1, <3>2
  <2>2. CASE returning = None
    <3>1. mem'.settings.id = mem.settings.id
      BY <1>1, <2>2 DEF Linked, MemoryAndFile
    <3> QED  BY <2>1, <3>1 DEF Linked, PageOf
  <2>3. CASE returning # None
    BY <2>1, <2>3 DEF Linked, MemoryAndFile, PageOf
  <2> QED  BY <2>2, <2>3
<1> QED  BY <1>2, <1>3 DEF Linked

LEMMA IInvKept == IInv /\ [Next]_vars => IInv'
<1> SUFFICES ASSUME IInv, [Next]_vars PROVE outdated' \/ Linked'
  BY TypeKept DEF IInv, OnePage
<1>1. CASE outdated
  <2>1. outdated' = outdated \/ outdated'
    <3>1. ASSUME NEW t \in Tabs, PageAction(t) PROVE outdated' = outdated
      BY <3>1, PageActions DEF IInv
    <3> QED
      BY <3>1 DEF Next, PageAction, vars, Decode, DecodeInto, Overwrite, apiLinkStart, httpLinkReturn, Back,
                  resetAuthToken, ResetLost, Restart
  <2> QED  BY <1>1, <2>1
<1>2. CASE Linked
  <2>1. ASSUME NEW t \in Tabs, PageAction(t) PROVE Linked'
    BY <1>2, <2>1, PageActions, PageKept DEF IInv
  <2>2. CASE ResetLost \/ \E t \in Tabs : Back(t)
    BY <2>2 DEF ResetLost, Back
  <2>3. CASE UNCHANGED vars
    BY <1>2, <2>3 DEF vars, Linked, SecretOfItsManager, MemoryAndFile, SavesOwnSecret
  <2> QED
    BY <1>2, <2>1, <2>2, <2>3, DecodeKept, OverwriteKept, LinkStartKept, LinkReturnKept, ResetKept, RestartKept
       DEF Next, PageAction
<1> QED  BY <1>1, <1>2 DEF IInv

(* The strengthening: memory, file, pages and saves are of one manager. *)
THEOREM Invariant == OnePage /\ Spec => []IInv
<1> QED  BY IInvInitially, IInvKept, PTL DEF Spec

(* With one page, the file always has the secret of its manager. *)
THEOREM CredentialsMatchAlways == OnePage /\ Spec => []CredentialsMatch
<1>1. IInv => CredentialsMatch
  BY DEF IInv, Linked, CredentialsMatch
<1> QED  BY <1>1, Invariant, PTL

-----------------------------------------------------------------------------
(* The variable editor: the tables of rows. *)

(* A set of positions that is not empty has a last one. *)
LEMMA Greatest ==
    ASSUME NEW n \in Nat, NEW S, S \subseteq 1 .. n, S # {}
    PROVE  \E i \in S : \A j \in S : j <= i
<1> DEFINE T == {n - i : i \in S}
<1>1. T \subseteq Nat /\ T # {}
  <2>1. \A i \in S : n - i \in Nat
    BY SMT
  <2>2. PICK i \in S : TRUE
    OBVIOUS
  <2> QED  BY <2>1, <2>2
<1>2. \E x \in T : \A y \in T : ~(y < x)
  <2> DEFINE R == OpToRel(<, Nat)
  <2>1. IsWellFoundedOn(R, Nat)
    BY NatLessThanWellFounded
  <2>2. \A x, y \in Nat : y < x => <<y, x>> \in R
    BY DEF OpToRel
  <2> HIDE DEF R, T
  <2>3. PICK x \in T : \A y \in T : <<y, x>> \notin R
    BY <1>1, <2>1, WFMin
  <2> QED  BY <1>1, <2>2, <2>3
<1>3. PICK i \in S : \A y \in T : ~(y < n - i)
  BY <1>2
<1>4. \A j \in S : j <= i
  BY <1>3
<1> QED  BY <1>4

(* The last of the rows that apply is one of them. *)
LEMMA LastValueOf ==
    ASSUME NEW some \in Rows, NEW S, S \subseteq DOMAIN some, S # {}
    PROVE  \E i \in S : LastValue(some, S) = some[i].value
<1>1. Len(some) \in Nat /\ DOMAIN some = 1 .. Len(some)
  BY DEF Rows
<1>2. \E i \in S : \A j \in S : j <= i
  BY <1>1, Greatest
<1> QED  BY <1>2 DEF LastValue

(* LastValue depends on the rows that apply only. *)
LEMMA SameLastValue ==
    ASSUME NEW some \in Rows, NEW other, NEW S, S \subseteq DOMAIN some,
           \A i \in S : other[i].value = some[i].value
    PROVE  LastValue(other, S) = LastValue(some, S)
<1>1. CASE S = {}
  BY <1>1 DEF LastValue
<1>2. CASE S # {}
  <2> DEFINE k == CHOOSE i \in S : \A j \in S : j <= i
  <2>1. Len(some) \in Nat /\ DOMAIN some = 1 .. Len(some)
    BY DEF Rows
  <2>2. k \in S
    BY <1>2, <2>1, Greatest
  <2> QED  BY <1>2, <2>2 DEF LastValue
<1> QED  BY <1>1, <1>2

(* There is a value exactly when some row applies. *)
LEMMA ValueWhenApplied ==
    ASSUME NEW some \in Rows, NEW S, S \subseteq DOMAIN some
    PROVE  LastValue(some, S) # Undefined <=> S # {}
<1>1. CASE S = {}
  BY <1>1 DEF LastValue
<1>2. CASE S # {}
  <2>1. PICK i \in S : LastValue(some, S) = some[i].value
    BY <1>2, LastValueOf
  <2>2. some[i] \in Row
    BY DEF Rows
  <2> QED  BY <1>2, <2>1, <2>2, VariableEditorAssumption DEF Row
<1> QED  BY <1>1, <1>2

-----------------------------------------------------------------------------
(* What the actions make of rows. *)

LEMMA RowsAreSeqs ==
    ASSUME NEW some \in Rows
    PROVE  /\ some \in Seq(Row) /\ Len(some) \in Nat /\ Len(some) <= MaxRows
           /\ DOMAIN some = 1 .. Len(some)
           /\ \A i \in DOMAIN some : some[i] \in Row
BY DEF Rows

LEMMA TypedRowsAreRows == TypedRow \subseteq Row
BY DEF TypedRow

LEMMA ChangedRow ==
    ASSUME NEW some \in Rows, NEW i \in DOMAIN some, NEW row \in Row
    PROVE  [some EXCEPT ![i] = row] \in Rows
<1>1. /\ [some EXCEPT ![i] = row] \in Seq(Row)
      /\ Len([some EXCEPT ![i] = row]) = Len(some)
  BY RowsAreSeqs
<1> QED  BY <1>1, RowsAreSeqs DEF Rows

LEMMA AppendedRow ==
    ASSUME NEW some \in Rows, Len(some) < MaxRows, NEW row \in Row
    PROVE  Append(some, row) \in Rows
<1>1. Append(some, row) \in Seq(Row) /\ Len(Append(some, row)) = Len(some) + 1
  BY RowsAreSeqs
<1> QED  BY <1>1, RowsAreSeqs, VariableEditorAssumption DEF Rows

LEMMA RemovedRow ==
    ASSUME NEW some \in Rows, NEW i \in DOMAIN some
    PROVE  RemoveAt(some, i) \in Rows
<1>1. i \in 1 .. Len(some)
  BY RowsAreSeqs
<1> DEFINE a == SubSeq(some, 1, i - 1)
           b == SubSeq(some, i + 1, Len(some))
<1>2. a \in Seq(Row) /\ Len(a) = i - 1
  BY <1>1, RowsAreSeqs
<1>3. b \in Seq(Row) /\ Len(b) = Len(some) - i
  BY <1>1, RowsAreSeqs
<1> HIDE DEF a, b
<1>4. a \o b \in Seq(Row) /\ Len(a \o b) = Len(a) + Len(b)
  BY <1>2, <1>3
<1>5. Len(a \o b) <= MaxRows
  BY <1>1, <1>2, <1>3, <1>4, RowsAreSeqs, VariableEditorAssumption
<1>6. a \o b \in Rows
  BY <1>4, <1>5 DEF Rows
<1> QED  BY <1>6 DEF RemoveAt, a, b

(* Row by row the same number of rows. *)
LEMMA MappedRows ==
    ASSUME NEW some \in Rows, NEW other, other = [i \in DOMAIN some |-> other[i]],
           \A i \in DOMAIN some : other[i] \in Row
    PROVE  other \in Rows /\ DOMAIN other = DOMAIN some
<1>1. other \in [1 .. Len(some) -> Row]
  BY RowsAreSeqs
<1>2. other \in Seq(Row) /\ Len(other) = Len(some)
  BY <1>1, RowsAreSeqs
<1> QED  BY <1>1, <1>2, RowsAreSeqs DEF Rows

LEMMA CheckedRows ==
    ASSUME NEW some \in Rows
    PROVE  Checked(some) \in Rows
<1>1. ASSUME NEW i \in DOMAIN some
      PROVE  Checked(some)[i] \in Row
  <2> DEFINE row == some[i]
             both == row.platform # Undefined /\ row.platforms # {}
             audience == IF row.audience = Undefined THEN "all" ELSE row.audience
             platforms == IF both THEN row.platforms \cup {row.platform} ELSE row.platforms
             platform == IF both THEN Undefined ELSE row.platform
  <2>1. row \in Row
    BY RowsAreSeqs
  <2>2. Checked(some)[i] = [row EXCEPT !.audience = audience, !.platforms = platforms, !.platform = platform]
    BY DEF Checked
  <2>3. audience \in Audiences \cup {"all", Undefined}
    BY <2>1 DEF Row
  <2>4. platform \in Platforms \cup {Undefined}
    BY <2>1 DEF Row
  <2>5. platforms \in SUBSET Platforms
    BY <2>1 DEF Row
  <2> HIDE DEF row, audience, platforms, platform
  <2> QED  BY <2>1, <2>2, <2>3, <2>4, <2>5 DEF Row
<1>2. Checked(some) = [i \in DOMAIN some |-> Checked(some)[i]]
  BY DEF Checked
<1> QED  BY <1>1, <1>2, MappedRows

LEMMA CleanedRows ==
    ASSUME NEW some \in Rows
    PROVE  /\ Cleaned(some) \in Rows /\ DOMAIN Cleaned(some) = DOMAIN some
           /\ \A i \in DOMAIN some : Cleaned(some)[i] = [some[i] EXCEPT !.audience = "all"]
<1>1. \A i \in DOMAIN some : Cleaned(some)[i] \in Row
  BY RowsAreSeqs DEF Cleaned, Row
<1>2. Cleaned(some) = [i \in DOMAIN some |-> Cleaned(some)[i]]
  BY DEF Cleaned
<1> QED  BY <1>1, <1>2, MappedRows DEF Cleaned

-----------------------------------------------------------------------------
(* Type correctness: what is saved are rows again, whatever is done to them  *)
(* in the form and in YAML.                                                  *)
THEOREM EditorTypeCorrect == EditorSpec => []EditorTypeOK
<1>1. EditorInit => EditorTypeOK
  <2> SUFFICES ASSUME EditorInit PROVE EditorTypeOK
    OBVIOUS
  <2>1. stored \in Rows
    <3>1. CASE stored = <<>>
      BY <3>1, VariableEditorAssumption DEF Rows
    <3>2. CASE \E row \in TypedRow : stored = <<row>>
      <4>1. PICK row \in TypedRow : stored = <<row>>
        BY <3>2
      <4>2. row \in Row
        BY TypedRowsAreRows
      <4>3. <<row>> \in Seq(Row) /\ Len(<<row>>) = 1
        BY <4>2
      <4> QED  BY <4>1, <4>3, VariableEditorAssumption DEF Rows
    <3> QED  BY <3>1, <3>2 DEF EditorInit
  <2> QED  BY <2>1 DEF EditorInit, EditorTypeOK, AllAudience
<1>2. EditorTypeOK /\ [EditorNext]_editorVars => EditorTypeOK'
  <2> SUFFICES ASSUME EditorTypeOK, [EditorNext]_editorVars PROVE EditorTypeOK'
    OBVIOUS
  <2>0. rows \in Rows /\ stored \in Rows
    BY DEF EditorTypeOK
  <2>1. CASE Reopen
    BY <2>0, <2>1, CheckedRows DEF Reopen, Open, EditorTypeOK, AllAudience
  <2>2. CASE ReloadActiveRows
    BY <2>0, <2>2, CheckedRows DEF ReloadActiveRows, EditorTypeOK
  <2>3. CASE EditRow
    <3>1. \A i \in DOMAIN rows : rows[i] \in Row
      BY <2>0, RowsAreSeqs
    <3>2. ASSUME NEW i \in DOMAIN rows, NEW value \in Values
          PROVE  [rows EXCEPT ![i].value = value] \in Rows
      <4>1. [rows[i] EXCEPT !.value = value] \in Row
        BY <3>1 DEF Row
      <4> QED  BY <2>0, <4>1, ChangedRow
    <3>3. ASSUME NEW i \in DOMAIN rows, NEW platform \in Platforms
          PROVE  [rows EXCEPT ![i].platform = platform] \in Rows
      <4>1. [rows[i] EXCEPT !.platform = platform] \in Row
        BY <3>1 DEF Row
      <4> QED  BY <2>0, <4>1, ChangedRow
    <3>4. ASSUME NEW i \in DOMAIN rows, NEW audience \in Audiences \cup {"all"}
          PROVE  [rows EXCEPT ![i].audience = audience] \in Rows
      <4>1. [rows[i] EXCEPT !.audience = audience] \in Row
        BY <3>1 DEF Row
      <4> QED  BY <2>0, <4>1, ChangedRow
    <3>5. rows' \in Rows
      BY <2>3, <3>2, <3>3, <3>4 DEF EditRow
    <3> QED  BY <2>3, <3>5 DEF EditRow, EditorTypeOK
  <2>4. CASE Toggle
    BY <2>4 DEF Toggle, EditorTypeOK
  <2>5. CASE addValue
    <3>1. PICK new \in NewValues(rows, allAudience), value \in Values :
              rows' = Append(rows, [value |-> value, audience |-> new.audience, platform |-> new.platform, platforms |-> {}])
      BY <2>5 DEF addValue
    <3>2. new.audience \in Audiences \cup {"all"} /\ new.platform \in Platforms
      BY DEF NewValues, PlatformsLeft, Audiences
    <3>3. [value |-> value, audience |-> new.audience, platform |-> new.platform, platforms |-> {}] \in Row
      BY <3>2 DEF Row
    <3>4. rows' \in Rows
      BY <2>0, <2>5, <3>1, <3>3, AppendedRow DEF addValue
    <3> QED  BY <2>5, <3>4 DEF addValue, EditorTypeOK
  <2>6. CASE removeValue
    BY <2>0, <2>6, RemovedRow DEF removeValue, EditorTypeOK
  <2>7. CASE ShowYaml
    BY <2>7 DEF ShowYaml, EditorTypeOK
  <2>8. CASE ShowForm
    BY <2>8 DEF ShowForm, EditorTypeOK, AllAudience
  <2>9. CASE SaveFormRows
    BY <2>0, <2>9, CleanedRows DEF SaveFormRows, AfterCleanup, EditorTypeOK
  <2>10. CASE SaveYamlRows
    <3>1. Retyped \subseteq Rows
      <4>1. ASSUME NEW i \in DOMAIN rows, NEW row \in TypedRow
            PROVE  [rows EXCEPT ![i] = row] \in Rows
        BY <2>0, ChangedRow, TypedRowsAreRows
      <4>2. ASSUME Len(rows) < MaxRows, NEW row \in TypedRow
            PROVE  Append(rows, row) \in Rows
        BY <2>0, <4>2, AppendedRow, TypedRowsAreRows
      <4>3. ASSUME NEW i \in DOMAIN rows
            PROVE  RemoveAt(rows, i) \in Rows
        BY <2>0, RemovedRow
      <4> DEFINE longer == {Append(rows, row) : row \in IF Len(rows) < MaxRows THEN TypedRow ELSE {}}
      <4>4. longer \subseteq Rows
        <5>1. CASE Len(rows) < MaxRows
          BY <4>2, <5>1
        <5>2. CASE ~(Len(rows) < MaxRows)
          BY <5>2
        <5> QED  BY <5>1, <5>2
      <4>5. Retyped = {rows} \cup {[rows EXCEPT ![i] = row] : i \in DOMAIN rows, row \in TypedRow}
                      \cup longer \cup {RemoveAt(rows, i) : i \in DOMAIN rows}
        BY DEF Retyped
      <4> HIDE DEF longer
      <4> QED  BY <2>0, <4>1, <4>3, <4>4, <4>5
    <3> QED  BY <2>0, <2>10, <3>1 DEF SaveYamlRows, EditorTypeOK
  <2>11. CASE UNCHANGED editorVars
    BY <2>11 DEF editorVars, EditorTypeOK
  <2> QED
    BY <2>1, <2>2, <2>3, <2>4, <2>5, <2>6, <2>7, <2>8, <2>9, <2>10, <2>11 DEF EditorNext
<1> QED  BY <1>1, <1>2, PTL DEF EditorSpec
-----------------------------------------------------------------------------
(* What users see is what is saved: with the toggle on "same" the audiences    *)
(* of the rows are not shown, and the clean-up makes them all the same.        *)
THEOREM SavesWhatIsShown == EditorSpec => SavedAsShown
<1>1. EditorTypeOK /\ [EditorNext]_editorVars => [~lingering => SavesShown]_editorVars
  <2> SUFFICES ASSUME EditorTypeOK, ~lingering, SaveFormRows, stored' # stored
               PROVE  Lookup(stored') = Shown
    BY DEF SavesShown
  <2>1. rows \in Rows /\ DOMAIN rows = 1 .. Len(rows) /\ \A i \in DOMAIN rows : rows[i] \in Row
    BY RowsAreSeqs DEF EditorTypeOK
  <2>2. stored' = rows' /\ rows' = AfterCleanup
    BY DEF SaveFormRows
  <2> DEFINE applying(cell) == {i \in DOMAIN rows : /\ allAudience = "all" \/ rows[i].audience \in {cell[1], "all", Undefined}
                                                    /\ cell[2] = rows[i].platform \/ cell[2] \in rows[i].platforms}
  <2>3. CASE allAudience = "all"
    <3>1. stored' = Cleaned(rows)
      BY <2>2, <2>3 DEF AfterCleanup
    <3>2. /\ DOMAIN stored' = DOMAIN rows
          /\ \A i \in DOMAIN rows : stored'[i] = [rows[i] EXCEPT !.audience = "all"]
      BY <2>1, <3>1, CleanedRows
    <3>3. \A i \in DOMAIN rows : /\ stored'[i].audience = "all" /\ stored'[i].value = rows[i].value
                                 /\ stored'[i].platform = rows[i].platform
                                 /\ stored'[i].platforms = rows[i].platforms
      BY <2>1, <3>2 DEF Row
    <3>4. ASSUME NEW cell \in Audiences \X Platforms
          PROVE  LastValue(stored', {i \in DOMAIN stored' : Applies(stored'[i], cell[1], cell[2])})
                 = LastValue(rows, applying(cell))
      <4>1. {i \in DOMAIN stored' : Applies(stored'[i], cell[1], cell[2])} = applying(cell)
        BY <2>3, <3>2, <3>3 DEF Applies
      <4>2. applying(cell) \subseteq DOMAIN rows
        OBVIOUS
      <4> HIDE DEF applying
      <4>3. LastValue(stored', applying(cell)) = LastValue(rows, applying(cell))
        BY <2>1, <3>3, <4>2, SameLastValue
      <4> QED  BY <4>1, <4>3
    <3> QED  BY <3>4 DEF Lookup, Shown
  <2>4. CASE allAudience # "all"
    <3>1. stored' = rows
      BY <2>2, <2>4 DEF AfterCleanup
    <3> QED  BY <2>4, <3>1 DEF Lookup, Shown, Applies
  <2> QED  BY <2>3, <2>4
<1> QED  BY <1>1, EditorTypeCorrect, PTL DEF EditorSpec, SavedAsShown

-----------------------------------------------------------------------------
(* Adding a row.                                                               *)

(* The platforms that are left for an audience are those without a value.      *)
LEMMA LeftHasNoValue ==
    ASSUME EditorTypeOK, mode = "form",
           \A i \in DOMAIN rows : rows[i].audience # Undefined /\ rows[i].platforms = {},
           NEW audience \in Audiences, NEW platform \in Platforms
    PROVE  Shown[<<audience, platform>>] = Undefined <=> platform \in PlatformsLeft(rows, allAudience, audience)
<1> DEFINE S == {i \in DOMAIN rows : /\ allAudience = "all" \/ rows[i].audience \in {audience, "all", Undefined}
                                     /\ platform = rows[i].platform \/ platform \in rows[i].platforms}
<1>1. Shown[<<audience, platform>>] = LastValue(rows, S)
  BY DEF Shown
<1>2. S \subseteq DOMAIN rows /\ rows \in Rows
  BY DEF EditorTypeOK
<1>3. S = {} <=> platform \in PlatformsLeft(rows, allAudience, audience)
  BY DEF PlatformsLeft
<1> HIDE DEF S
<1> QED  BY <1>1, <1>2, <1>3, ValueWhenApplied

(* With the toggle on "same" every audience leaves the same platforms. *)
LEMMA SameLeft ==
    ASSUME allAudience = "all"
    PROVE  PlatformsLeft(rows, allAudience, "users") = PlatformsLeft(rows, allAudience, "workers")
BY DEF PlatformsLeft

(* A new row gets a cell that has no value, so that it leaves the others alone, *)
(* and the button is disabled when every cell has one.                          *)
THEOREM AddsNewValues == EditorSpec => AddedIsNew
<1> DEFINE plain == \A i \in DOMAIN rows : rows[i].audience # Undefined /\ rows[i].platforms = {}
<1>1. ASSUME EditorTypeOK, mode = "form", plain
      PROVE  disableAddValueButton <=> \A cell \in DOMAIN Shown : Shown[cell] # Undefined
  <2>1. DOMAIN Shown = Audiences \X Platforms
    BY DEF Shown
  <2>2. (\A cell \in DOMAIN Shown : Shown[cell] # Undefined)
        <=> \A audience \in Audiences, platform \in Platforms : Shown[<<audience, platform>>] # Undefined
    BY <2>1
  <2>3. \A audience \in Audiences, platform \in Platforms :
            Shown[<<audience, platform>>] # Undefined <=> platform \notin PlatformsLeft(rows, allAudience, audience)
    BY <1>1, LeftHasNoValue
  <2>4. \A audience \in Audiences : PlatformsLeft(rows, allAudience, audience) \subseteq Platforms
    BY DEF PlatformsLeft
  <2>5. (\A cell \in DOMAIN Shown : Shown[cell] # Undefined)
        <=> /\ PlatformsLeft(rows, allAudience, "users") = {}
            /\ PlatformsLeft(rows, allAudience, "workers") = {}
    BY <2>2, <2>3, <2>4 DEF Audiences
  <2>6. disableAddValueButton
        <=> /\ PlatformsLeft(rows, allAudience, "users") = {}
            /\ PlatformsLeft(rows, allAudience, "workers") = {}
    BY DEF disableAddValueButton, NewValues
  <2> QED  BY <2>5, <2>6
<1>2. ASSUME EditorTypeOK, mode = "form", plain, addValue, NEW cell \in DOMAIN Shown, Shown[cell] # Undefined
      PROVE  Shown'[cell] = Shown[cell]
  <2>1. PICK new \in NewValues(rows, allAudience), value \in Values :
            rows' = Append(rows, [value |-> value, audience |-> new.audience, platform |-> new.platform, platforms |-> {}])
    BY <1>2 DEF addValue
  <2>2. allAudience' = allAudience
    BY <1>2 DEF addValue
  <2>3. PICK audience \in Audiences, platform \in Platforms : cell = <<audience, platform>>
    BY <1>2 DEF Shown
  <2> DEFINE applying(some) == {i \in DOMAIN some : /\ allAudience = "all" \/ some[i].audience \in {audience, "all", Undefined}
                                                    /\ platform = some[i].platform \/ platform \in some[i].platforms}
             n == Len(rows) + 1
             row == [value |-> value, audience |-> new.audience, platform |-> new.platform, platforms |-> {}]
  <2>4. platform \notin PlatformsLeft(rows, allAudience, audience)
    BY <1>2, <2>3, LeftHasNoValue
  <2>5. ~(/\ allAudience = "all" \/ new.audience \in {audience, "all", Undefined}
          /\ platform = new.platform)
    <3>1. CASE allAudience = "all"
      <4>1. new.platform \in PlatformsLeft(rows, allAudience, "users") \cup PlatformsLeft(rows, allAudience, "workers")
        BY DEF NewValues
      <4> QED  BY <2>4, <3>1, <4>1 DEF PlatformsLeft
    <3>2. CASE allAudience # "all"
      <4>1. new.audience \in Audiences /\ new.platform \in PlatformsLeft(rows, allAudience, new.audience)
        BY <3>2 DEF NewValues, Audiences
      <4>2. new.audience \notin {"all", Undefined}
        BY <4>1, VariableEditorAssumption DEF Audiences
      <4> QED  BY <2>4, <3>2, <4>1, <4>2
    <3> QED  BY <3>1, <3>2
  <2>6. /\ rows \in Seq(Row) /\ Len(rows) \in Nat /\ DOMAIN rows = 1 .. Len(rows)
        /\ rows \in Rows
    BY <1>2, RowsAreSeqs DEF EditorTypeOK
  <2>7. /\ DOMAIN rows' = DOMAIN rows \cup {n} /\ n \notin DOMAIN rows
        /\ rows'[n] = row
        /\ \A i \in DOMAIN rows : rows'[i] = rows[i]
    BY <2>1, <2>6
  <2>8. n \notin applying(rows')
    BY <2>5, <2>7
  <2>9. applying(rows') = applying(rows)
    BY <2>7, <2>8
  <2>10. LastValue(rows', applying(rows)) = LastValue(rows, applying(rows))
    <3>1. applying(rows) \subseteq DOMAIN rows /\ \A i \in applying(rows) : rows'[i].value = rows[i].value
      BY <2>7
    <3> HIDE DEF applying
    <3> QED  BY <2>6, <3>1, SameLastValue
  <2>11. Shown[cell] = LastValue(rows, applying(rows))
    BY <2>3 DEF Shown
  <2>12. Shown'[cell] = LastValue(rows', applying(rows'))
    BY <2>2, <2>3 DEF Shown
  <2> QED  BY <2>9, <2>10, <2>11, <2>12
<1>3. EditorTypeOK /\ [EditorNext]_editorVars =>
      [mode = "form" /\ plain =>
            /\ addValue => \A cell \in DOMAIN Shown : Shown[cell] # Undefined => Shown'[cell] = Shown[cell]
            /\ disableAddValueButton <=> \A cell \in DOMAIN Shown : Shown[cell] # Undefined]_editorVars
  BY <1>1, <1>2
<1> QED  BY <1>3, EditorTypeCorrect, PTL DEF EditorSpec, AddedIsNew
=============================================================================
