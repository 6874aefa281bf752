----------------------------- MODULE Configuration -----------------------------
(***************************************************************************)
(* The configuration file and those who change it: the server tab of       *)
(* SettingsDialog.vue in several browsers, the routes of routes/config.py  *)
(* with config_edit.py, the reloads of config.py and the maintenance loop, *)
(* and the person who edits the file by hand.                              *)
(*                                                                         *)
(* A PUT reads the file in one thread call, edits the text without giving  *)
(* way, and publishes it in another; so does the reload that follows with  *)
(* the file and the settings.  Only keys that a reload can apply are       *)
(* modelled: the dialog disables the others.                               *)
(***************************************************************************)
EXTENDS Naturals, FiniteSets, Functions

CONSTANTS
  Editors,        \* administrators with the dialog open
  Keys,           \* keys of HOT_FIELDS
  Values,         \* values that every key accepts
  Default,        \* the value of a key that the file does not set
  MaxConfigTurns, \* bound: what the editors do
  MaxHandEdits    \* bound: changes by hand

ASSUME ConfigurationConstants ==
  /\ Default \in Values
  /\ MaxConfigTurns \in Nat /\ MaxHandEdits \in Nat

VARIABLES
  file,         \* the file: the values it sets, and whether it loads at all
  handEdits,    \* changes by hand so far
  clock,        \* config_clock: the file the maintenance loop last saw
  version,      \* mtime of the file, as a count of changes
  settings,     \* values in force
  schema,       \* what each dialog loaded, or nothing yet
  drafts,       \* what its fields hold
  loading, saving,  \* dialogs that wait, whose buttons are disabled
  gets,         \* requests for the schema
  puts,         \* PUT /config, and POST /config/reload
  configTurns

diskFile == <<file, handEdits, clock, version>>
configDialogVars == <<schema, drafts, loading, saving, gets>>
configVars == <<diskFile, settings, configDialogVars, puts, configTurns>>

Unset == "unset"
NotLoaded == [k \in {} |-> Default]
Document == [values : [Keys -> Values \cup {Unset}], broken : BOOLEAN]
Effective(values) == [k \in Keys |-> IF values[k] = Unset THEN Default ELSE values[k]]
\* A value that the model of the settings refuses, as letters for a number.
Wrong == "wrong"

-----------------------------------------------------------------------------
(* The dialog.                                                             *)

ConfigTurn == configTurns < MaxConfigTurns /\ configTurns' = configTurns + 1
Get(o, how) == [by |-> o, how |-> how, values |-> NotLoaded]

\* When it opens, and with its refresh button.
loadSchema(o) ==
  /\ ~loading[o] /\ ConfigTurn
  /\ loading' = [loading EXCEPT ![o] = TRUE]
  /\ gets' = gets \cup {Get(o, "load")}
  /\ UNCHANGED <<diskFile, settings, schema, drafts, saving, puts>>

\* config_schema: the values in force, not those of the file.
SchemaServed(g) ==
  /\ g.values = NotLoaded
  /\ gets' = (gets \ {g}) \cup {[g EXCEPT !.values = settings]}
  /\ UNCHANGED <<diskFile, settings, schema, drafts, loading, saving, puts, configTurns>>

\* The fields are filled anew, whatever was typed meanwhile; save and reload
\* wait for this too.
SchemaArrives(g) ==
  /\ g.values # NotLoaded
  /\ gets' = gets \ {g}
  /\ schema' = [schema EXCEPT ![g.by] = g.values]
  /\ drafts' = [drafts EXCEPT ![g.by] = g.values]
  /\ loading' = [loading EXCEPT ![g.by] = FALSE]
  /\ saving' = IF g.how = "save" THEN [saving EXCEPT ![g.by] = FALSE] ELSE saving
  /\ UNCHANGED <<diskFile, settings, puts, configTurns>>

SchemaFails(g) ==
  /\ gets' = gets \ {g}
  /\ loading' = [loading EXCEPT ![g.by] = FALSE]
  /\ saving' = IF g.how = "save" THEN [saving EXCEPT ![g.by] = FALSE] ELSE saving
  /\ UNCHANGED <<diskFile, settings, schema, drafts, puts, configTurns>>

TypeValue(o) ==
  /\ schema[o] # NotLoaded /\ ConfigTurn
  /\ \E k \in Keys, v \in Values \cup {Wrong} : drafts' = [drafts EXCEPT ![o][k] = v]
  /\ UNCHANGED <<diskFile, settings, schema, loading, saving, gets, puts>>

\* A request; its text is that of the file once it was read.
Change(o, items) ==
  [by |-> o, items |-> items, stage |-> "sent", text |-> file, failed |-> FALSE]
ReloadOnly == NotLoaded

\* The fields that differ from what was loaded.
saveConfig(o) ==
  /\ schema[o] # NotLoaded /\ ~saving[o] /\ ConfigTurn
  /\ LET items == Restrict(drafts[o], {k \in Keys : drafts[o][k] # schema[o][k]}) IN
     /\ items # NotLoaded
     /\ puts' = puts \cup {Change(o, items)}
  /\ saving' = [saving EXCEPT ![o] = TRUE]
  /\ UNCHANGED <<diskFile, settings, schema, drafts, loading, gets>>

\* The button that reloads, which saves nothing.
reloadConfig(o) ==
  /\ ConfigTurn
  /\ puts' = puts \cup {[Change(o, ReloadOnly) EXCEPT !.stage = "written"]}
  /\ UNCHANGED <<diskFile, settings, configDialogVars>>

-----------------------------------------------------------------------------
(* put_config.                                                             *)

Moves(p, q) == puts' = (puts \ {p}) \cup {q}

\* path.read_text, in a thread.
ReadsText(p) ==
  /\ p.stage = "sent"
  /\ Moves(p, [p EXCEPT !.stage = "read", !.text = file])
  /\ UNCHANGED <<diskFile, settings, configDialogVars, configTurns>>

Edited(p) ==
  [p.text EXCEPT !.values = [k \in Keys |-> IF k \in DOMAIN p.items THEN p.items[k]
                                            ELSE @[k]]]
\* A mutant of Refuses: each value is checked, the whole is not.
RefusesValues(p) == Wrong \in Range(p.items)
\* apply_key refuses a wrong value, and a text that would not load.
Refuses(p) == Wrong \in Range(p.items) \/ p.text.broken

apply_key(p) ==
  /\ p.stage = "read"
  /\ Moves(p, IF Refuses(p) THEN [p EXCEPT !.stage = "answered", !.failed = TRUE]
              ELSE [p EXCEPT !.stage = "edited", !.text = Edited(p)])
  /\ UNCHANGED <<diskFile, settings, configDialogVars, configTurns>>

\* write_text_atomic, in a thread: the whole text, in one step.
write_text_atomic(p) ==
  /\ p.stage = "edited"
  /\ file' = p.text /\ version' = version + 1
  /\ Moves(p, [p EXCEPT !.stage = "written"])
  /\ UNCHANGED <<handEdits, clock, settings, configDialogVars, configTurns>>

\* A full disk: the staging file is removed, and the file stays.
WriteFails(p) ==
  /\ p.stage = "edited"
  /\ Moves(p, [p EXCEPT !.stage = "answered", !.failed = TRUE])
  /\ UNCHANGED <<diskFile, settings, configDialogVars, configTurns>>

\* reload_settings_file, in a thread: it reads the file, and ...
ReadsSettings(p) ==
  /\ p.stage = "written"
  /\ Moves(p, IF file.broken THEN [p EXCEPT !.stage = "answered", !.failed = TRUE]
              ELSE [p EXCEPT !.stage = "applying", !.text = file])
  /\ UNCHANGED <<diskFile, settings, configDialogVars, configTurns>>

\* ... puts in force what it read.  A key that is not set has its default.
reload_settings_file(p) ==
  /\ p.stage = "applying"
  /\ settings' = Effective(p.text.values)
  /\ Moves(p, [p EXCEPT !.stage = "answered"])
  /\ UNCHANGED <<diskFile, configDialogVars, configTurns>>

\* After a success, and after any reload, the dialog loads again.
PutAnswered(p) ==
  /\ p.stage = "answered" /\ puts' = puts \ {p}
  /\ LET only == p.items = ReloadOnly
         again == only \/ ~p.failed IN
     /\ gets' = IF again THEN gets \cup {Get(p.by, IF only THEN "load" ELSE "save")} ELSE gets
     /\ loading' = [loading EXCEPT ![p.by] = again \/ @]
     /\ saving' = [saving EXCEPT ![p.by] = @ /\ (again \/ only)]
  /\ UNCHANGED <<diskFile, settings, schema, drafts, configTurns>>

PutFails(p) ==
  /\ p.stage = "answered" /\ puts' = puts \ {p}
  /\ saving' = [saving EXCEPT ![p.by] = @ /\ p.items = ReloadOnly]
  /\ UNCHANGED <<diskFile, settings, schema, drafts, loading, gets, configTurns>>

-----------------------------------------------------------------------------

\* Every five seconds: a file that changed is loaded, on the loop's own thread.
MaintenanceReload ==
  /\ clock # version /\ clock' = version
  /\ settings' = IF file.broken THEN settings ELSE Effective(file.values)
  /\ UNCHANGED <<file, handEdits, version, configDialogVars, puts, configTurns>>

\* Somebody writes the file in an editor.
EditedByHand ==
  /\ handEdits < MaxHandEdits /\ handEdits' = handEdits + 1
  /\ \E k \in Keys, v \in Values \cup {Unset}, b \in BOOLEAN :
       file' = [values |-> [file.values EXCEPT ![k] = v], broken |-> b]
  /\ version' = version + 1
  /\ UNCHANGED <<clock, settings, configDialogVars, puts, configTurns>>

-----------------------------------------------------------------------------

ConfigInit ==
  /\ file = [values |-> [k \in Keys |-> Unset], broken |-> FALSE]
  /\ handEdits = 0 /\ clock = 0 /\ version = 0
  /\ settings = Effective(file.values)
  /\ schema = [o \in Editors |-> NotLoaded] /\ drafts = schema
  /\ loading = [o \in Editors |-> FALSE] /\ saving = loading
  /\ gets = {} /\ puts = {} /\ configTurns = 0

ConfigNext ==
  \/ \E o \in Editors : loadSchema(o) \/ TypeValue(o) \/ saveConfig(o) \/ reloadConfig(o)
  \/ \E g \in gets : SchemaServed(g) \/ SchemaArrives(g) \/ SchemaFails(g)
  \/ \E p \in puts :
       \/ ReadsText(p) \/ apply_key(p) \/ write_text_atomic(p) \/ WriteFails(p)
       \/ ReadsSettings(p) \/ reload_settings_file(p) \/ PutAnswered(p) \/ PutFails(p)
  \/ MaintenanceReload \/ EditedByHand

ConfigSpec == ConfigInit /\ [][ConfigNext]_configVars

-----------------------------------------------------------------------------

\* The variables have their types.
ConfigTypeOK ==
  /\ file \in Document /\ handEdits \in 0 .. MaxHandEdits
  /\ version \in Nat /\ clock \in 0 .. version
  /\ settings \in [Keys -> Values]
  /\ \A o \in Editors :
       /\ schema[o] = NotLoaded \/ schema[o] \in [Keys -> Values]
       /\ drafts[o] = NotLoaded \/ drafts[o] \in [Keys -> Values \cup {Wrong}]
  /\ loading \in [Editors -> BOOLEAN] /\ saving \in [Editors -> BOOLEAN]
  /\ \A p \in puts : p.by \in Editors /\ p.text \in Document /\ DOMAIN p.items \subseteq Keys
  /\ configTurns \in 0 .. MaxConfigTurns

\* Whatever is edited by hand between the moments a PUT reads the file and
\* publishes it, the server never writes a file that does not load
\* (config_edit.py: the whole file is validated afterwards).
PublishedLoads == [][version' # version /\ handEdits' = handEdits => ~file'.broken]_configVars

\* A PUT changes no key of the file but those it was asked to change
\* (config_edit.py: "the only acceptable change is the one value they asked for").
\* It does not hold, and no run checks it: see "Known not to hold" in README.md.
OneChangePerEdit ==
  [][\A p \in puts : p \notin puts' /\ p.stage = "edited"
       => \A k \in Keys \ DOMAIN p.items : file'.values[k] = file.values[k]]_configVars
=============================================================================
