----------------------------- MODULE GuiSettings -----------------------------
(***************************************************************************)
(* The settings of the launcher (demo/simulation_control_config.py and     *)
(* _save_preferences of simulation_control_gui_main.py): a start reads and *)
(* checks the file, or creates it; the window writes its fields back,      *)
(* unchecked: the main thread after a login, when a remembered login has   *)
(* expired and at the end, the callback thread at a logout.  Whoever       *)
(* writes opens the file, and so empties it, before; two may write at the  *)
(* same time, a write may fail, and a kill may come at any moment.         *)
(*                                                                         *)
(* A start that cannot read the file ends and changes nothing.             *)
(***************************************************************************)
EXTENDS Naturals

CONSTANTS Fields,         \* server.host, server.port, simulation_time.mode, ...
          Unlimited,      \* the fields in which the window accepts any text or number
          FromSimulator,  \* the fields a time status fills, unchecked, from the simulator
          MaxEdits,       \* bound on the changes made in the window
          MaxSaves        \* bound on the saves before the end, in all
ASSUME SettingsAssumption == /\ Unlimited \subseteq Fields /\ FromSimulator \subseteq Fields
                             /\ MaxEdits \in Nat /\ MaxSaves \in Nat

VARIABLES
  stored,      \* the file: Absent, TornConfig, or its fields
  fieldsShown, \* the fields of the window
  program,     \* "down", "creating", "up", "closing", "refused"
  saves,       \* the save of each thread: where it is, and the fields it has read
  lastSaved,   \* history: what was written last, Absent if nothing was
  edits, saveCount, \* how many there were
  touched,     \* history: was a field changed since the start?
  emptied      \* history: was the file opened for a save since the start?

settingsVars == <<stored, fieldsShown, program, saves, lastSaved, edits, saveCount, touched, emptied>>

Savers == {"main", "callback"}
FieldValues == {"default", "set", "outside"}
Contents(v) == [what |-> "fields", value |-> v]
Absent == [what |-> "absent"]
TornConfig == [what |-> "torn"]
Defaults == [f \in Fields |-> "default"]
NoSaves == [t \in Savers |-> [at |-> "none", of |-> Defaults]]

SettingsInit ==
  /\ stored \in {Absent, Contents([f \in Fields |-> "set"])} /\ lastSaved = stored
  /\ fieldsShown = Defaults /\ program = "down" /\ saves = NoSaves
  /\ edits = 0 /\ saveCount = 0 /\ touched = FALSE /\ emptied = FALSE

\* load_config: the file is read, and each field has its range.
Accepts(file) == file.what = "fields" /\ \A f \in Fields : file.value[f] # "outside"
\* Mutant: a value out of range is replaced, as the console does.
LoadConfigLeniently(file) ==
  /\ program' = "up"
  /\ fieldsShown' = IF Accepts(file) THEN file.value ELSE Defaults
LoadConfig(file) ==
  /\ program' = IF Accepts(file) THEN "up" ELSE "refused"
  /\ fieldsShown' = IF Accepts(file) THEN file.value ELSE fieldsShown

StartProgram ==
  /\ program \in {"down", "refused"} /\ stored # Absent
  /\ LoadConfig(stored) /\ touched' = FALSE /\ emptied' = FALSE
  /\ UNCHANGED <<stored, saves, lastSaved, edits, saveCount>>
\* _create_default_config, and the file is read back; it may not be written.
CreateConfig ==
  /\ program \in {"down", "refused"} /\ stored = Absent
  /\ program' = "creating" /\ stored' = TornConfig
  /\ UNCHANGED <<fieldsShown, saves, lastSaved, edits, saveCount, touched, emptied>>
WriteDefaults ==
  /\ program = "creating" /\ stored' = Contents(Defaults) /\ lastSaved' = Contents(Defaults)
  /\ LoadConfig(Contents(Defaults)) /\ touched' = FALSE /\ emptied' = FALSE
  /\ UNCHANGED <<saves, edits, saveCount>>
CreateFails ==
  /\ program = "creating" /\ program' = "refused"
  /\ UNCHANGED <<stored, fieldsShown, saves, lastSaved, edits, saveCount, touched, emptied>>

-----------------------------------------------------------------------------
(* The fields are changed in the main thread, when it does not save; a     *)
(* save of the callback thread that has begun to read has not read the     *)
(* fields in unread yet.                                                   *)

Changes(new) ==
  /\ program = "up" /\ saves["main"].at = "none"
  /\ edits < MaxEdits /\ edits' = edits + 1 /\ touched' = TRUE
  /\ fieldsShown' = new
  /\ \E unread \in SUBSET Fields :
       saves' = IF saves["callback"].at # "read" THEN saves
                ELSE [saves EXCEPT !["callback"].of =
                        [f \in Fields |-> IF f \in unread THEN new[f] ELSE @[f]]]
  /\ UNCHANGED <<stored, program, lastSaved, saveCount, emptied>>

\* The user: a combo box or a check box has only its own values.
Edit == \E f \in Fields, v \in FieldValues :
          /\ v = "outside" => f \in Unlimited
          /\ Changes([fieldsShown EXCEPT ![f] = v])
\* _apply_time_status: whatever the simulator answers, an unknown mode too; what
\* it sets from a list of values, like rtf, it sets as an edit does.
ApplyTimeStatus == \E answer \in [FromSimulator -> FieldValues] :
  Changes([f \in Fields |-> IF f \in FromSimulator THEN answer[f] ELSE fieldsShown[f]])

-----------------------------------------------------------------------------
(* _save_preferences and save_config.                                      *)

Begins(t) == saves[t].at = "none" /\ saves' = [saves EXCEPT ![t] = [at |-> "read", of |-> fieldsShown]]
\* After a login, at its expiry, or at a logout.
SavePreferences(t) ==
  /\ program = "up" /\ saveCount < MaxSaves /\ saveCount' = saveCount + 1 /\ Begins(t)
  /\ UNCHANGED <<stored, fieldsShown, program, lastSaved, edits, touched, emptied>>
CloseWindow ==
  /\ program = "up" /\ program' = "closing" /\ Begins("main")
  /\ UNCHANGED <<stored, fieldsShown, lastSaved, edits, saveCount, touched, emptied>>

OpenFile(t) ==
  /\ saves[t].at = "read" /\ saves' = [saves EXCEPT ![t].at = "open"]
  /\ stored' = TornConfig /\ emptied' = TRUE
  /\ UNCHANGED <<fieldsShown, program, lastSaved, edits, saveCount, touched>>

\* The save is over, and at the end so is the program, whatever else was saved;
\* a thread that has the file open meanwhile will write over what is written.
Ends(t, writes) ==
  IF t = "main" /\ program = "closing" THEN program' = "down" /\ saves' = NoSaves
  ELSE /\ UNCHANGED program
       /\ saves' = [u \in Savers |-> IF u = t THEN NoSaves[u]
                                     ELSE IF writes /\ saves[u].at = "open" THEN [saves[u] EXCEPT !.at = "over"]
                                     ELSE saves[u]]
\* Written over a longer file, the end of that stays.
WritePreferences(t) ==
  /\ saves[t].at \in {"open", "over"} /\ Ends(t, TRUE)
  /\ lastSaved' = Contents(saves[t].of)
  /\ stored' \in {lastSaved'} \cup (IF saves[t].at = "over" /\ stored # lastSaved' THEN {TornConfig} ELSE {})
  /\ UNCHANGED <<fieldsShown, edits, saveCount, touched, emptied>>
\* The file cannot be opened, or not be written: the error is logged.
SaveFails(t) ==
  /\ saves[t].at # "none" /\ Ends(t, saves[t].at # "read")
  /\ stored' \in {stored} \cup (IF saves[t].at = "over" THEN {TornConfig} ELSE {})
  /\ UNCHANGED <<fieldsShown, lastSaved, edits, saveCount, touched, emptied>>

KillWindow ==
  /\ program \in {"creating", "up", "closing"} /\ program' = "down" /\ saves' = NoSaves
  /\ UNCHANGED <<stored, fieldsShown, lastSaved, edits, saveCount, touched, emptied>>
\* The user removes the file that is refused.
RemoveFile ==
  /\ program = "refused" /\ stored' = Absent /\ lastSaved' = Absent
  /\ UNCHANGED <<fieldsShown, program, saves, edits, saveCount, touched, emptied>>

SettingsNext ==
  \/ StartProgram \/ CreateConfig \/ WriteDefaults \/ CreateFails \/ Edit \/ ApplyTimeStatus
  \/ CloseWindow \/ KillWindow \/ RemoveFile
  \/ \E t \in Savers : SavePreferences(t) \/ OpenFile(t) \/ WritePreferences(t) \/ SaveFails(t)
SettingsSpec == SettingsInit /\ [][SettingsNext]_settingsVars

-----------------------------------------------------------------------------
\* The file holds what was written last, or is torn, at any time.  A start that
\* succeeds shows just what is in the file, and saves of what is shown keep that,
\* however they overlap: they leave a torn file at worst, and only once one has
\* opened it.  A start is refused only for a torn file, or for a value out of its
\* range in a field where the window accepts any or the simulator has filled it.
SettingsKept ==
  /\ stored \in {lastSaved, TornConfig}
  /\ program = "up" /\ ~touched => stored = Contents(fieldsShown) \/ (stored = TornConfig /\ emptied)
  /\ program = "refused" /\ stored.what = "fields" =>
       \E f \in Unlimited \cup FromSimulator : stored.value[f] = "outside"
  /\ program = "refused" => ~Accepts(stored)
=============================================================================
