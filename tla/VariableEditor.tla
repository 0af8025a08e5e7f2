--------------------------- MODULE VariableEditor ---------------------------
(* The editor of one variable in the web setup: its rows, each a value for  *)
(* an audience and a platform, in the form or in the YAML of the page       *)
(* (src/static/websetup/websetup.js), and what the Manager makes of the     *)
(* rows that were saved (src/flamenco/settings.go).  The page is one thread *)
(* and a save is one step here; WebSetup has the calls in detail, and is    *)
(* extended together with this module (WebSetupProofs.tla), so that the two *)
(* have no name in common.                                                  *)
EXTENDS Naturals, Sequences, SequencesExt

CONSTANTS
    Undefined,      \* no value
    Platforms,      \* SUPPORTED_PLATFORMS
    Values,         \* what a row may say
    Typed,          \* what users may write in YAML: "noaudience", "platforms"
    MaxRows         \* bound: the rows of a variable

ASSUME VariableEditorAssumption ==
    /\ Typed \subseteq {"noaudience", "platforms"}
    /\ Undefined \notin Values \cup Platforms \cup {"all", "workers", "users"}
    /\ MaxRows \in Nat \ {0}

VARIABLES
    rows,           \* the rows on the page: config.variables[varName].values
    mode,           \* vueAppMode
    allAudience,    \* of the editor that is shown: do all use the same values?
    lingering,      \* an editor of these rows was destroyed while it was "all"
    stored          \* the rows that the Manager has

editorVars == <<rows, mode, allAudience, lingering, stored>>

\* The concrete audiences.
Audiences == {"users", "workers"}

Row ==
    [value : Values, audience : Audiences \cup {"all", Undefined}, platform : Platforms \cup {Undefined},
     platforms : SUBSET Platforms]

\* What can be written in YAML.
TypedRow ==
    {row \in Row :
        /\ "noaudience" \in Typed \/ row.audience # Undefined
        /\ IF "platforms" \in Typed THEN row.platform # Undefined \/ row.platforms # {}
           ELSE row.platform # Undefined /\ row.platforms = {}}

Rows == {some \in Seq(Row) : Len(some) <= MaxRows}

EditorTypeOK ==
    /\ rows \in Rows
    /\ mode \in {"form", "yaml"}
    /\ allAudience \in {"all", "separate"}
    /\ lingering \in BOOLEAN
    /\ stored \in Rows

----------------------------------------------------------------------------
(* The Manager.                                                            *)

Applies(row, audience, platform) ==
    /\ row.audience \in {audience, "all", Undefined}
    /\ platform = row.platform \/ platform \in row.platforms

\* constructVariableLookupTable: of the rows that apply the last one counts.
LastValue(some, applying) ==
    IF applying = {} THEN Undefined ELSE some[CHOOSE i \in applying : \A j \in applying : j <= i].value

Lookup(some) ==
    [cell \in Audiences \X Platforms |->
        LastValue(some, {i \in DOMAIN some : Applies(some[i], cell[1], cell[2])})]

\* checkVariables, when the Manager starts with them.
Checked(some) ==
    [i \in DOMAIN some |->
        LET row == some[i]
            both == row.platform # Undefined /\ row.platforms # {}
        IN  [row EXCEPT !.audience = IF @ = Undefined THEN "all" ELSE @,
                        !.platforms = IF both THEN @ \cup {row.platform} ELSE @,
                        !.platform = IF both THEN Undefined ELSE @]]

----------------------------------------------------------------------------
(* The page.                                                               *)

\* created: whether the rows of an editor are all for everybody.
AllAudience(some) ==
    IF \A i \in DOMAIN some : some[i].audience \in {"all", Undefined} THEN "all" ELSE "separate"

\* The page is opened.
Open(some) ==
    /\ rows' = some
    /\ mode' = "form"
    /\ allAudience' = AllAudience(some)
    /\ lingering' = FALSE

EditorInit ==
    /\ stored \in {<<>>} \cup {<<row>> : row \in TypedRow}
    /\ rows = stored
    /\ mode = "form"
    /\ allAudience = AllAudience(rows)
    /\ lingering = FALSE

\* It is opened again, before or after a restart of the Manager.
Reopen ==
    /\ \E some \in {stored, Checked(stored)} : Open(some)
    /\ UNCHANGED stored

\* "Reload Active Configuration" of the YAML editor.
ReloadActiveRows ==
    /\ mode = "yaml"
    /\ rows' \in {stored, Checked(stored)}
    /\ lingering' = FALSE
    /\ UNCHANGED <<mode, allAudience, stored>>

\* The fields of a row: the one for the audience is shown in separate mode only,
\* and there is none for the list of platforms.
EditRow ==
    /\ mode = "form"
    /\ \E i \in DOMAIN rows :
           \/ \E value \in Values : rows' = [rows EXCEPT ![i].value = value]
           \/ \E platform \in Platforms : rows' = [rows EXCEPT ![i].platform = platform]
           \/ /\ allAudience = "separate"
              /\ \E audience \in Audiences \cup {"all"} : rows' = [rows EXCEPT ![i].audience = audience]
    /\ UNCHANGED <<mode, allAudience, lingering, stored>>

\* The toggle between "same" and "different" for users and workers.
Toggle ==
    /\ mode = "form"
    /\ allAudience' = IF allAudience = "all" THEN "separate" ELSE "all"
    /\ UNCHANGED <<rows, mode, lingering, stored>>

\* Mutant: only rows for that very audience take platforms from it.
PlatformsLeftExactly(some, all, audience) ==
    Platforms \ {some[i].platform : i \in {j \in DOMAIN some : all = "all" \/ some[j].audience = audience}}

\* propsForNewValue: the platforms that no row takes from the audience.
PlatformsLeft(some, all, audience) ==
    Platforms \ {some[i].platform : i \in {j \in DOMAIN some : all = "all" \/ some[j].audience \in {audience, "all"}}}

\* The audience and platform of a new row: those of users come first.
NewValues(some, all) ==
    LET audience == IF PlatformsLeft(some, all, "users") # {} THEN "users" ELSE "workers"
    IN  {[audience |-> IF all = "all" THEN "all" ELSE audience, platform |-> p] : p \in PlatformsLeft(some, all, audience)}

disableAddValueButton == NewValues(rows, allAudience) = {}

\* Mutant: the new row gets no audience and no platform.
addValueEmpty ==
    /\ mode = "form" /\ Len(rows) < MaxRows
    /\ \E new \in NewValues(rows, allAudience), value \in Values :
           rows' = Append(rows, [value |-> value, audience |-> "", platform |-> "", platforms |-> {}])
    /\ UNCHANGED <<mode, allAudience, lingering, stored>>

addValue ==
    /\ mode = "form" /\ Len(rows) < MaxRows
    /\ \E new \in NewValues(rows, allAudience), value \in Values :
           rows' = Append(rows, [value |-> value, audience |-> new.audience, platform |-> new.platform, platforms |-> {}])
    /\ UNCHANGED <<mode, allAudience, lingering, stored>>

removeValue ==
    /\ mode = "form"
    /\ \E i \in DOMAIN rows : rows' = RemoveAt(rows, i)
    /\ UNCHANGED <<mode, allAudience, lingering, stored>>

\* switchAppMode: the form is destroyed with its editors, whose listeners on the
\* event bus stay, and is created again later.
ShowYaml ==
    /\ mode = "form"
    /\ mode' = "yaml"
    /\ lingering' = (lingering \/ allAudience = "all")
    /\ UNCHANGED <<rows, allAudience, stored>>

ShowForm ==
    /\ mode = "yaml"
    /\ mode' = "form"
    /\ allAudience' = AllAudience(rows)
    /\ UNCHANGED <<rows, lingering, stored>>

Cleaned(some) == [i \in DOMAIN some |-> [some[i] EXCEPT !.audience = "all"]]

\* pre-save-config: cleanupAudiences of every editor that ever listened.
AfterCleanup == IF lingering \/ allAudience = "all" THEN Cleaned(rows) ELSE rows

\* Mutant: the clean-up comes after the rows were copied.
SaveFormRowsUncleaned ==
    /\ mode = "form"
    /\ rows' = AfterCleanup
    /\ stored' \in {rows, stored}
    /\ UNCHANGED <<mode, allAudience, lingering>>

\* Saving the form, which may fail after the clean-up.  Other settings of the
\* form may have been changed, so that it can be saved.
SaveFormRows ==
    /\ mode = "form"
    /\ rows' = AfterCleanup
    /\ stored' \in {rows', stored}
    /\ UNCHANGED <<mode, allAudience, lingering>>

\* What users make of the YAML, one row at a time.
Retyped ==
    {rows}
    \cup {[rows EXCEPT ![i] = row] : i \in DOMAIN rows, row \in TypedRow}
    \cup {Append(rows, row) : row \in IF Len(rows) < MaxRows THEN TypedRow ELSE {}}
    \cup {RemoveAt(rows, i) : i \in DOMAIN rows}

\* Saving the YAML, which may fail: the page gets new rows, of no editor yet.
SaveYamlRows ==
    /\ mode = "yaml"
    /\ rows' \in Retyped
    /\ stored' \in {rows', stored}
    /\ lingering' = FALSE
    /\ UNCHANGED <<mode, allAudience>>

EditorNext ==
    \/ Reopen \/ ReloadActiveRows \/ EditRow \/ Toggle \/ addValue \/ removeValue
    \/ ShowYaml \/ ShowForm \/ SaveFormRows \/ SaveYamlRows

EditorSpec == EditorInit /\ [][EditorNext]_editorVars

----------------------------------------------------------------------------
(* Properties.                                                             *)

\* The values for each audience and platform, as the form shows them: with the
\* toggle on "same" there is no audience to be seen.
Shown ==
    [cell \in Audiences \X Platforms |->
        LastValue(rows, {i \in DOMAIN rows :
            /\ allAudience = "all" \/ rows[i].audience \in {cell[1], "all", Undefined}
            /\ cell[2] = rows[i].platform \/ cell[2] \in rows[i].platforms})]

SavesShown == SaveFormRows => stored' = stored \/ Lookup(stored') = Shown

\* What the form shows is what the Manager will use: with the toggle on "same",
\* rows that still have audiences of their own are for everybody
\* (websetup.js:397), and with the toggle on "different" they are not.  Forms
\* that were destroyed with the toggle on "same" are excluded: see DifferentIsSaved.
SavedAsShown == [][ ~lingering => SavesShown ]_editorVars

\* A new row leaves every value alone that the variable has, and the button is
\* disabled exactly when there is nothing left to add: "All platforms and
\* audiences already have a value" (vue-components.html:258).  Rows written in
\* YAML without an audience or for several platforms are excluded.
AddedIsNew ==
    [][ LET plain == \A i \in DOMAIN rows : rows[i].audience # Undefined /\ rows[i].platforms = {}
        IN  mode = "form" /\ plain =>
            /\ addValue => \A cell \in DOMAIN Shown : Shown[cell] # Undefined => Shown'[cell] = Shown[cell]
            /\ disableAddValueButton <=> \A cell \in DOMAIN Shown : Shown[cell] # Undefined ]_editorVars

\* AddedIsNew without its exception.  It fails: the page does not count such
\* rows, while the Manager applies them.
AddedIsAlwaysNew ==
    [][addValue => \A cell \in DOMAIN Shown : Shown[cell] # Undefined => Shown'[cell] = Shown[cell]]_editorVars

\* SavedAsShown without its exception: "Users and Workers use different values
\* for this variable" (vue-components.html:240).  It fails: an editor that was
\* destroyed with the toggle on "same" still listens, and makes the rows of the
\* editor that is shown the same for everybody as they are saved.
DifferentIsSaved == [][SavesShown]_editorVars
============================================================================
