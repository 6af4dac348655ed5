------------------------------ MODULE VehicleForms ------------------------------
(***************************************************************************)
(* The two tabs with a list of vehicles as long as their count says: Path  *)
(* Follow (panels/autonomous_panel.py) and Transform Playback              *)
(* (panels/transform_playback_panel.py).  A change of the count builds the *)
(* list anew; each tab keeps its list in a file.  A number stands for what *)
(* the inputs of a vehicle show, 0 for their defaults.                     *)
(***************************************************************************)
EXTENDS UdpControl, SequencesExt

CONSTANTS MaxCount,    \* _MAX_VEHICLES
          FirstCount,  \* the count before a file was written
          MaxUses      \* bound on what the user does
ASSUME FormAssumption == MaxCount \in Nat \ {0} /\ FirstCount \in 0..MaxCount /\ MaxUses \in Nat

VARIABLES
  listTab,      \* "follow" or "playback"
  formPhase,        \* "down", "up", or "writing": the file is open
  vehicleCount, listRows,  \* the input, and the vehicles there are inputs of
  others,       \* the inputs of Path Follow below the vehicles
  listFile,     \* [is, count, rows, others]; "odd" if its count cannot be read
  browsing,     \* the vehicles a file dialog is open for
  formUses,
  keptList,     \* history: what was shown at the last save, <<>> if a kill tore the file
  vehicleLost   \* history: did a change of the count change a vehicle that stays?

formVars == <<listTab, formPhase, vehicleCount, listRows, others, listFile, browsing, formUses, keptList, vehicleLost>>

Least0(n) == IF n < 0 THEN 0 ELSE n
\* _build_vehicles: new inputs with their defaults.
BuildVehicles(n) == [i \in 1..Least0(n) |-> 0]
\* _apply_vehicle_state: as many as there are inputs for; a field that cannot
\* be read raises, what stands before it has been filled.
Bad == -1
Partly == 4
ReadBefore(saved, i) == \A j \in 1..(i - 1) : saved[j] # Bad
ApplyVehicles(built, saved) ==
  [i \in DOMAIN built |-> IF i \notin DOMAIN saved \/ ~ReadBefore(saved, i) THEN built[i]
                          ELSE IF saved[i] = Bad THEN Partly ELSE saved[i]]
Raises(built, saved) == \E i \in DOMAIN built \cap DOMAIN saved : saved[i] = Bad

ListJson(n, list, rest) == [is |-> "json", count |-> n, rows |-> list, others |-> rest]
NoList(is) == [is |-> is, count |-> FirstCount, rows |-> << >>, others |-> 0]
FormShown(n, list, rest) == [count |-> n, rows |-> list, others |-> rest]

\* _save_state: as many vehicles as the count says.
SaveList(n, list, rest) ==
  /\ formPhase' = "writing" /\ listFile' = NoList("torn") /\ keptList' = <<FormShown(n, list, rest)>>
NotSaved == formPhase' = "up" /\ UNCHANGED <<listFile, keptList>>

\* Mutant: the count of the file is not limited.
AnyCount(n) == n
Clamp(n) == IF n < 1 THEN 1 ELSE IF n > MaxCount THEN MaxCount ELSE n

FormInit ==
  /\ listTab \in {"follow", "playback"} /\ formPhase = "down"
  /\ vehicleCount = FirstCount /\ listRows = BuildVehicles(FirstCount) /\ others = 0
  /\ listFile \in {NoList("absent"), NoList("torn"), NoList("odd")}
       \cup {ListJson(n, list, rest) : n \in -1..(MaxCount + 1), 
                                       list \in UNION {[1..k -> {Bad, 1}] : k \in 0..2}, rest \in {Bad, 1}}
  /\ browsing = {} /\ formUses = 0 /\ keptList = << >> /\ vehicleLost = FALSE

\* Path Follow: the count, the vehicles, the rest.
ReadFollow(inFile) ==
  LET built == BuildVehicles(inFile.count)
  IN FormShown(inFile.count, ApplyVehicles(built, inFile.rows),
           IF Raises(built, inFile.rows) \/ inFile.others = Bad THEN 0 ELSE inFile.others)
\* Transform Playback: the count in its range, and as many vehicles.  A value
\* that is no text may be refused by its input, or raise.
ReadPlayback(inFile, refuses) ==
  LET n    == Clamp(inFile.count)
      list == IF refuses THEN [i \in DOMAIN inFile.rows |-> IF inFile.rows[i] = Bad THEN 0 ELSE inFile.rows[i]] ELSE inFile.rows
  IN FormShown(n, ApplyVehicles(BuildVehicles(n), list), 0)
Reopened(inFile, refuses) == IF listTab = "follow" THEN ReadFollow(inFile) ELSE ReadPlayback(inFile, refuses)
Show(s) == vehicleCount' = s.count /\ listRows' = s.rows /\ others' = s.others
\* Path Follow sets its interface last, and that saves its file at once.
OpenForm ==
  /\ formPhase = "down" /\ formUses < MaxUses /\ formUses' = formUses + 1
  /\ IF listFile.is # "json" THEN Show(FormShown(FirstCount, BuildVehicles(FirstCount), 0)) /\ NotSaved
     ELSE \E refuses \in BOOLEAN :
            LET s == Reopened(listFile, refuses)
            IN /\ Show(s)
               /\ IF listTab = "playback" \/ Raises(s.rows, listFile.rows) \/ listFile.others = Bad THEN NotSaved
                  ELSE SaveList(s.count, s.rows, s.others)
  /\ UNCHANGED <<listTab, browsing, vehicleLost>>

-----------------------------------------------------------------------------
(* The callbacks.                                                          *)

UseTab == formPhase = "up" /\ formUses < MaxUses /\ formUses' = formUses + 1
\* The input of the count has a range, but takes what is typed.
ChangeCount ==
  /\ UseTab
  /\ \E n \in -1..(MaxCount + 1) :
       LET list == IF listTab = "follow" THEN ApplyVehicles(BuildVehicles(n), listRows) ELSE BuildVehicles(n)
       IN /\ vehicleCount' = n /\ listRows' = list /\ SaveList(n, list, others)
          /\ vehicleLost' = (vehicleLost \/ \E i \in DOMAIN listRows \cap DOMAIN list : list[i] # listRows[i])
  /\ UNCHANGED <<listTab, others, browsing>>
\* Path Follow saves with every change; Transform Playback when Play is pressed.
FillRow ==
  /\ UseTab /\ \E i \in DOMAIN listRows : listRows' = [listRows EXCEPT ![i] = 2]
  /\ IF listTab = "follow" THEN SaveList(vehicleCount, listRows', others) ELSE NotSaved
  /\ UNCHANGED <<listTab, vehicleCount, others, browsing, vehicleLost>>
FillOthers ==
  /\ UseTab /\ listTab = "follow" /\ others' = 2 /\ SaveList(vehicleCount, listRows, 2)
  /\ UNCHANGED <<listTab, vehicleCount, listRows, browsing, vehicleLost>>
PlayList ==
  /\ UseTab /\ listTab = "playback" /\ SaveList(vehicleCount, listRows, others)
  /\ UNCHANGED <<listTab, vehicleCount, listRows, others, browsing, vehicleLost>>
\* _browse_file: the dialog has a thread of its own, its answer the UI queue.
Browse ==
  /\ UseTab /\ listTab = "playback" /\ \E i \in DOMAIN listRows : browsing' = browsing \cup {i}
  /\ UNCHANGED <<listTab, formPhase, vehicleCount, listRows, others, listFile, keptList, vehicleLost>>
TakePath ==
  /\ formPhase = "up"
  /\ \E i \in browsing :
       /\ browsing' = browsing \ {i}
       /\ IF i \in DOMAIN listRows
          THEN listRows' = [listRows EXCEPT ![i] = 3] /\ SaveList(vehicleCount, listRows', others)
          ELSE NotSaved /\ UNCHANGED listRows
  /\ UNCHANGED <<listTab, vehicleCount, others, formUses, vehicleLost>>
WriteList ==
  /\ formPhase = "writing" /\ formPhase' = "up" /\ listFile' = ListJson(vehicleCount, listRows, others)
  /\ UNCHANGED <<listTab, vehicleCount, listRows, others, browsing, formUses, keptList, vehicleLost>>
EndTab ==
  /\ formPhase \in {"up", "writing"} /\ formPhase' = "down" /\ browsing' = {}
  /\ keptList' = IF formPhase = "writing" THEN << >> ELSE keptList
  /\ UNCHANGED <<listTab, vehicleCount, listRows, others, listFile, formUses, vehicleLost>>

FormNext ==
  \/ OpenForm \/ ChangeCount \/ FillRow \/ FillOthers \/ PlayList \/ Browse \/ TakePath
  \/ WriteList \/ EndTab
FormSpec == FormInit /\ [][FormNext]_formVars

-----------------------------------------------------------------------------
\* What a tab saved it shows after the next start, as far as the count of
\* Transform Playback is in its range.  Path Follow has always saved what it
\* shows, and a change of its count changes no vehicle that stays; in
\* Transform Playback it sets them all to their defaults, in the file as well.
VehiclesKept ==
  /\ formPhase = "down" /\ keptList # << >> =>
       LET kept == keptList[1] s == Reopened(listFile, FALSE)
       IN /\ listTab = "playback" => s.count \in 1..MaxCount
          /\ s.others = kept.others
          /\ IF listTab = "follow" \/ kept.count \in 1..MaxCount THEN s = kept
             ELSE \A i \in DOMAIN s.rows \cap DOMAIN kept.rows : s.rows[i] = kept.rows[i]
  /\ listTab = "follow" =>
       ~vehicleLost /\ (formPhase # "down" /\ keptList # << >> => keptList[1] = FormShown(vehicleCount, listRows, others))

\* What is typed for one vehicle, or for one template of the UDP Control tab, is
\* kept for that one.
FormsKept == ControlsKept /\ VehiclesKept
=============================================================================
