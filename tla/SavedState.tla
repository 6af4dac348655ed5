------------------------------ MODULE SavedState ------------------------------
(***************************************************************************)
(* What the panels of the console keep between two sessions.  Each has a   *)
(* JSON file, read when the panel is built and written by its callbacks,   *)
(* always as a whole, and never at the exit.  An earlier version kept the  *)
(* fields of all panels in the file of the command panel; Object Control   *)
(* and Traffic fall back to it, each in its own way.  A value stands for   *)
(* the fields of a panel, 0 for their defaults.                            *)
(***************************************************************************)
EXTENDS Naturals, Sequences, SequencesExt, PanelFields, ConsoleWindow

CONSTANTS MaxChanges   \* bound on the changes made in the panels
ASSUME ChangesAssumption == MaxChanges \in Nat

VARIABLES
  files,        \* the content of each file
  held,         \* the value each panel shows
  console,      \* is the console running?
  writing,      \* the file a callback has open for writing, "none"
  changes,
  remembered,   \* history: what each panel showed after the start, or saved since
  panelsLost,   \* history: the panels that ever showed something else after a start
  excused       \* history: the panels of which a file was torn, or whose legacy was overwritten

savedVars == <<files, held, console, writing, changes, remembered, panelsLost, excused>>

PanelNames == {"commands", "objects", "traffic"}
Panels0 == [p \in PanelNames |-> 0]
NoStateFile == [is |-> "absent"]
TornFile == [is |-> "torn"]
\* The fields of the panels in a file; a file of today has those of one panel.
JsonOf(v) == [is |-> "json", keys |-> v]
Old == JsonOf([p \in PanelNames |-> 1])
Keys(file) == IF file.is = "json" THEN DOMAIN file.keys ELSE {}
Field(file, p) == IF p \in Keys(file) THEN file.keys[p] ELSE 0

SavedInit ==
  /\ files \in {[p \in PanelNames |-> IF p = "commands" THEN Old
                                    ELSE IF p \in own THEN JsonOf([q \in {p} |-> 2]) ELSE NoStateFile] :
                  own \in SUBSET {"objects", "traffic"}}
               \cup {[p \in PanelNames |-> NoStateFile]}
  /\ held = Panels0 /\ console = "down" /\ writing = "none" /\ changes = 0
  /\ remembered = Panels0 /\ panelsLost = {} /\ excused = PanelNames

\* commands.py: an unreadable file is none.
LoadCommands == Field(files["commands"], "commands")
\* object_control.py: the legacy file only if there is none of its own.
LoadObjects ==
  LET file == IF files["objects"] # NoStateFile THEN files["objects"] ELSE files["commands"]
  IN Field(file, "objects")
\* Mutant: the legacy fields come first.
LoadTrafficLegacy ==
  LET file == IF "traffic" \in Keys(files["commands"]) THEN files["commands"] ELSE files["traffic"]
  IN Field(file, "traffic")
\* traffic_scenario.py: the legacy file whenever its own gives nothing.
LoadTraffic ==
  LET file == IF files["traffic"].is = "json" THEN files["traffic"] ELSE files["commands"]
  IN Field(file, "traffic")
Loaded == [p \in PanelNames |-> CASE p = "commands" -> LoadCommands
                                  [] p = "objects" -> LoadObjects [] p = "traffic" -> LoadTraffic]

StartConsole ==
  /\ console = "down" /\ console' = "up" /\ held' = Loaded /\ remembered' = Loaded
  /\ panelsLost' = panelsLost \cup {p \in PanelNames \ excused : Loaded[p] # remembered[p]}
  /\ excused' = {}
  /\ UNCHANGED <<files, writing, changes>>
ChangePanel(p) ==
  /\ console = "up" /\ changes < MaxChanges /\ changes' = changes + 1
  /\ held' = [held EXCEPT ![p] = changes + 3]
  /\ UNCHANGED <<files, console, writing, remembered, panelsLost, excused>>

\* The panels that read the legacy fields of the command panel's file.
Reads(p) == CASE p = "objects" -> files[p] = NoStateFile
              [] p = "traffic" -> files[p] \in {NoStateFile, TornFile}
Heirs == {p \in {"objects", "traffic"} : p \in Keys(files["commands"]) /\ Reads(p)}
\* _save_state: the file is emptied, then written with the panel's own fields.
OpenState(p) ==
  /\ console = "up" /\ writing = "none" /\ writing' = p
  /\ files' = [files EXCEPT ![p] = TornFile]
  /\ excused' = IF p = "commands" THEN excused \cup Heirs ELSE excused
  /\ UNCHANGED <<held, console, changes, remembered, panelsLost>>
WriteState(p) ==
  /\ writing = p /\ writing' = "none"
  /\ files' = [files EXCEPT ![p] = JsonOf([q \in {p} |-> held[p]])]
  /\ remembered' = [remembered EXCEPT ![p] = held[p]]
  /\ excused' = excused \ {p}
  /\ UNCHANGED <<held, console, changes, panelsLost>>
\* The exit, or a kill; a file that is being written stays torn.
Leave ==
  /\ console = "up" /\ console' = "down" /\ writing' = "none"
  /\ excused' = IF writing = "none" THEN excused ELSE excused \cup {writing}
  /\ UNCHANGED <<files, held, changes, remembered, panelsLost>>

SavedNext ==
  \/ StartConsole \/ Leave
  \/ \E p \in PanelNames : ChangePanel(p) \/ OpenState(p) \/ WriteState(p)
SavedSpec == SavedInit /\ [][SavedNext]_savedVars

-----------------------------------------------------------------------------
\* What a panel showed after a start, or saved since, it shows after the next
\* start.  Except: a kill hit the write of its file; or it had only legacy
\* fields, and the command panel, which shares their file, saved its own.
PanelsRestored == panelsLost = {}

-----------------------------------------------------------------------------
(***************************************************************************)
(* The tabs of the monitor (panels/monitor.py) over several sessions:      *)
(* _load_state opens the tabs of the file one after the other, and every   *)
(* tab that is opened or closed, or starts to listen, writes the file      *)
(* anew, while the tabs are being restored as well.                        *)
(***************************************************************************)
CONSTANTS Templates,   \* files a tab can be opened for
          MaxTabs,     \* bound on the tabs
          MaxSessions  \* bound on the starts
ASSUME TabsAssumption == MaxTabs \in Nat /\ MaxSessions \in Nat

VARIABLES
  tabs,       \* _monitors, in order: the template and the port of each tab
  tabFile,    \* the file: its entries, and whether a write of it is incomplete
  onDisk,     \* the templates that can be found
  toRestore,  \* the entries _load_state has still to open
  session,    \* "down", "restoring", "resaving", "up", "saving"
  sessions,
  left,       \* history: what the file held when the restore ended, or was saved since
  killed,     \* history: was the last session killed while it restored or saved?
  wrong       \* history: did a restore end with other tabs than were left?

tabVars == <<tabs, tabFile, onDisk, toRestore, session, sessions, left, killed, wrong>>

Entry(t, port) == [template |-> t, port |-> port]
Written(entries) == [torn |-> FALSE, entries |-> entries]
TornTabs == [torn |-> TRUE, entries |-> << >>]
\* Those among the first n entries of which the template is found.
OpenedUpTo(entries, found) ==
  LET upTo[n \in 0..Len(entries)] ==
        IF n = 0 THEN << >>
        ELSE IF entries[n].template \in found THEN Append(upTo[n - 1], entries[n]) ELSE upTo[n - 1]
  IN upTo
Opened(entries, found) == OpenedUpTo(entries, found)[Len(entries)]

TabsInit ==
  /\ tabs = << >> /\ tabFile = Written(<< >>) /\ onDisk = Templates /\ toRestore = << >>
  /\ session = "down" /\ sessions = 0 /\ left = << >>
  /\ killed = FALSE /\ wrong = FALSE

\* A torn file is reported and ignored.
StartSession ==
  /\ session = "down" /\ sessions < MaxSessions /\ sessions' = sessions + 1
  /\ onDisk' \in SUBSET Templates
  /\ tabs' = << >> /\ session' = "restoring"
  /\ toRestore' = tabFile.entries
  /\ UNCHANGED <<tabFile, left, killed, wrong>>

\* _open_monitor writes the tabs opened so far; one without a template is passed over.
RestoreTab ==
  /\ session = "restoring" /\ toRestore # << >>
  /\ IF Head(toRestore).template \in onDisk
     THEN /\ tabs' = Append(tabs, Head(toRestore))
          /\ tabFile' = TornTabs /\ session' = "resaving" /\ UNCHANGED toRestore
     ELSE toRestore' = Tail(toRestore) /\ UNCHANGED <<tabs, tabFile, session>>
  /\ UNCHANGED <<onDisk, sessions, left, killed, wrong>>
WriteRestored ==
  /\ session = "resaving" /\ session' = "restoring"
  /\ tabFile' = Written(tabs) /\ toRestore' = Tail(toRestore)
  /\ UNCHANGED <<tabs, onDisk, sessions, left, killed, wrong>>
RestoreEnds ==
  /\ session = "restoring" /\ toRestore = << >> /\ session' = "up"
  /\ wrong' = (wrong \/ (~killed /\ tabs # Opened(left, onDisk)))
  /\ left' = tabFile.entries /\ killed' = FALSE
  /\ UNCHANGED <<tabs, tabFile, onDisk, toRestore, sessions>>

\* _save_state, of a user's action.
WriteTabs ==
  /\ session = "saving" /\ session' = "up" /\ tabFile' = Written(tabs) /\ left' = tabs
  /\ UNCHANGED <<tabs, onDisk, toRestore, sessions, killed, wrong>>
Saving(next) == tabs' = next /\ session' = "saving" /\ tabFile' = TornTabs
OpenTab ==
  /\ session = "up" /\ Len(tabs) < MaxTabs
  /\ \E t \in onDisk : Saving(Append(tabs, Entry(t, 0)))
  /\ UNCHANGED <<onDisk, toRestore, sessions, left, killed, wrong>>
CloseATab ==
  /\ session = "up" /\ \E i \in DOMAIN tabs : Saving(RemoveAt(tabs, i))
  /\ UNCHANGED <<onDisk, toRestore, sessions, left, killed, wrong>>
\* Only Start writes a port that was typed in; what another tab holds is written too.
StartTab ==
  /\ session = "up" /\ \E i \in DOMAIN tabs : tabs[i].port = 0 /\ Saving([tabs EXCEPT ![i].port = 1])
  /\ UNCHANGED <<onDisk, toRestore, sessions, left, killed, wrong>>

QuitSession ==
  /\ session = "up" /\ session' = "down"
  /\ UNCHANGED <<tabs, tabFile, onDisk, toRestore, sessions, left, killed, wrong>>
KillSession ==
  /\ session \in {"restoring", "resaving", "saving"} /\ session' = "down" /\ killed' = TRUE
  /\ UNCHANGED <<tabs, tabFile, onDisk, toRestore, sessions, left, wrong>>

TabsNext ==
  \/ StartSession \/ RestoreTab \/ WriteRestored \/ RestoreEnds \/ WriteTabs
  \/ OpenTab \/ CloseATab \/ StartTab \/ QuitSession \/ KillSession
TabsSpec == TabsInit /\ [][TabsNext]_tabVars

-----------------------------------------------------------------------------
\* A start restores the tabs that were left, with their ports and in their
\* order, except those whose template is not found, for which there is no tab
\* in any later session either once another tab is written; a kill in the
\* middle of a restore or of a save loses the tabs not yet written.
TabsRestored ==
  /\ ~wrong
  /\ session = "up" /\ ~tabFile.torn =>
       tabFile.entries = tabs \/ \E i \in DOMAIN tabFile.entries : tabFile.entries[i].template \notin onDisk

\* What a panel, the monitor or the window kept, its next start shows, field by
\* field (PanelFields and ConsoleWindow have the rest of it).
StateRestored == PanelsRestored /\ TabsRestored /\ FieldsRestored /\ WindowKept
=============================================================================
