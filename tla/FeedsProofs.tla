----------------------------- MODULE FeedsProofs -----------------------------
(***************************************************************************)
(* The safety properties of parts that run `feeds' moves one by one, each  *)
(* of its own specification, for all values of the constants: any number   *)
(* of vehicles, settings, clicks, receivers, threads and packets.          *)
(***************************************************************************)
EXTENDS BulkObjects, GuiSettings, CliConsole, LidarView, CameraSlots, GuiLogin, VehicleForms,
        SequenceTheorems, TLAPS

-----------------------------------------------------------------------------
(* BulkObjects.  The tables of what several connections create and delete. *)

\* A create request is in its table until it is answered, a vehicle that is there
\* was made, one that is tracked or to be deleted had its creation answered, and a
\* delete that was carried out leaves its vehicle gone for good.
BulkInv ==
  /\ BulkTypeOK
  /\ \A v \in Vehicles : create[v] \in {"registered", "done", "refused"} <=> v \in createPending
  /\ \A v \in alive : create[v] \in {"done", "answered"}
  /\ \A v \in Vehicles : create[v] = "done" => v \in alive \cup byHand
  /\ \A v \in toDelete \cup tracked : create[v] = "answered"
  /\ \A d \in DeleteIds : delete[d].at # "unused" => create[delete[d].of] = "answered"
  /\ \A d \in DeleteIds : delete[d].at = "done" => delete[d].of \notin alive
  /\ TablesAreTrue

\* Every step of the object panel keeps the invariant.
LEMMA BulkStep ==
  ASSUME BulkInv, [BulkNext]_bulkVars
  PROVE  BulkInv'
<1>. USE DEF BulkInv, BulkTypeOK, Progress, TablesAreTrue, PendingIsUnanswered, NeverForgotten, GoneIsExplained, bulkRuns, bulkTables, bulkHistory
<1>1. ASSUME NEW vs \in SUBSET Vehicles, ClickBulkCreate(vs) PROVE BulkInv'
  BY <1>1 DEF ClickBulkCreate
<1>2. CASE CreateRunEnds
  <2>1. BulkTypeOK'
    BY <1>2 DEF CreateRunEnds
  <2>. QED  BY <1>2, <2>1 DEF CreateRunEnds
<1>3. CASE ClickBulkDelete
  BY <1>3 DEF ClickBulkDelete
<1>4. CASE DeleteRunEnds
  <2>1. BulkTypeOK'
    BY <1>4 DEF DeleteRunEnds
  <2>. QED  BY <1>4, <2>1 DEF DeleteRunEnds
<1>5. ASSUME NEW v \in Vehicles, NEW connected \in BOOLEAN, DispatchCreate(v, connected) PROVE BulkInv'
  BY <1>5 DEF DispatchCreate
<1>6. ASSUME NEW v \in Vehicles, RegisterCreate(v) PROVE BulkInv'
  BY <1>6 DEF RegisterCreate
<1>7. ASSUME NEW v \in Vehicles, MakeVehicle(v) PROVE BulkInv'
  BY <1>7 DEF MakeVehicle
<1>8. ASSUME NEW v \in Vehicles, CreateAnswered(v) PROVE BulkInv'
  BY <1>8 DEF CreateAnswered
<1>9. ASSUME NEW v \in Vehicles, DeleteByHand(v) PROVE BulkInv'
  BY <1>9 DEF DeleteByHand
<1>10. ASSUME NEW v \in Vehicles, NEW d \in DeleteIds, NEW connected \in BOOLEAN, DispatchDelete(v, d, connected)
       PROVE  BulkInv'
  BY <1>10 DEF DispatchDelete
<1>11. ASSUME NEW d \in DeleteIds, RegisterDelete(d) PROVE BulkInv'
  BY <1>11 DEF RegisterDelete
<1>12. ASSUME NEW d \in DeleteIds, RemoveVehicle(d) PROVE BulkInv'
  BY <1>12 DEF RemoveVehicle
<1>13. ASSUME NEW d \in DeleteIds, DeleteAnswered(d) PROVE BulkInv'
  BY <1>13 DEF DeleteAnswered
<1>14. CASE UNCHANGED bulkVars
  BY <1>14 DEF bulkVars
<1>. QED
  BY <1>1, <1>2, <1>3, <1>4, <1>5, <1>6, <1>7, <1>8, <1>9, <1>10, <1>11, <1>12, <1>13, <1>14 DEF BulkNext

\* What the panel tracks and waits for is what the simulator has and owes.
THEOREM TablesStayTrue == BulkSpec => []TablesAreTrue
<1>1. BulkInit => BulkInv
  <2>. SUFFICES ASSUME BulkInit PROVE BulkInv
    OBVIOUS
  <2>. DEFINE some == CHOOSE v \in Vehicles : TRUE
  <2>1. some \in Vehicles
    BY BulkAssumption
  <2>2. delete = [d \in DeleteIds |-> [at |-> "unused", of |-> some]]
    BY DEF BulkInit
  <2>. HIDE DEF some
  <2>3. BulkTypeOK
    <3>1. create \in [Vehicles -> Progress]
      BY DEF BulkInit, Progress
    <3>2. delete \in [DeleteIds -> [at : Progress, of : Vehicles]]
      BY <2>1, <2>2 DEF Progress
    <3>. QED  BY <3>1, <3>2 DEF BulkInit, BulkTypeOK
  <2>4. TablesAreTrue
    BY DEF BulkInit, TablesAreTrue, PendingIsUnanswered, NeverForgotten, GoneIsExplained
  <2>5. \A v \in Vehicles : create[v] = "unused"
    BY DEF BulkInit
  <2>6. \A d \in DeleteIds : delete[d].at = "unused"
    BY <2>2
  <2>. QED  BY <2>3, <2>4, <2>5, <2>6 DEF BulkInit, BulkInv
<1>2. BulkInv /\ [BulkNext]_bulkVars => BulkInv'
  BY BulkStep
<1>3. BulkInv => TablesAreTrue
  BY DEF BulkInv
<1>. QED  BY <1>1, <1>2, <1>3, PTL DEF BulkSpec

-----------------------------------------------------------------------------
(* GuiSettings.  The settings of the launcher and their file.              *)

\* A value outside its range is only in a field that is filled unchecked.
Unchecked == Unlimited \cup FromSimulator
InLimits(v) == v \in [Fields -> FieldValues] /\ \A f \in Fields : v[f] = "outside" => f \in Unchecked
FileKept(theFile) == theFile = Absent \/ theFile = TornConfig \/ \E v : InLimits(v) /\ theFile = Contents(v)
\* A save has read fields within their limits, and just those shown if none was touched.
SaveFits(save) ==
  /\ save.at \in {"none", "read", "open", "over"} /\ InLimits(save.of)
  /\ ~touched /\ save.at # "none" => save.of = fieldsShown
  /\ save.at \in {"open", "over"} => emptied
SavesFit ==
  /\ saves \in [Savers -> [at : {"none", "read", "open", "over"}, of : [Fields -> FieldValues]]]
  /\ \A t \in Savers : SaveFits(saves[t])
  /\ program \in {"down", "creating", "refused"} => saves = NoSaves
SettingsInv ==
  /\ InLimits(fieldsShown) /\ FileKept(stored) /\ FileKept(lastSaved)
  /\ program \in {"down", "creating", "up", "closing", "refused"}
  /\ program = "creating" => stored = TornConfig
  /\ touched \in BOOLEAN /\ emptied \in BOOLEAN /\ SavesFit
  /\ SettingsKept

\* A start accepts the file and shows it, or refuses it for a reason.
LEMMA StartShows ==
  ASSUME NEW theFile, FileKept(theFile), theFile # Absent, InLimits(fieldsShown), LoadConfig(theFile)
  PROVE  /\ InLimits(fieldsShown') /\ program' \in {"up", "refused"}
         /\ program' = "up" => theFile = Contents(fieldsShown')
         /\ program' = "refused" => ~Accepts(theFile)
         /\ program' = "refused" /\ theFile.what = "fields" => \E f \in Unchecked : theFile.value[f] = "outside"
<1>1. CASE theFile = TornConfig
  BY <1>1 DEF TornConfig, Accepts, LoadConfig
<1>2. ASSUME NEW v, InLimits(v), theFile = Contents(v)
      PROVE  /\ InLimits(fieldsShown') /\ program' \in {"up", "refused"}
             /\ program' = "up" => theFile = Contents(fieldsShown')
             /\ program' = "refused" => ~Accepts(theFile)
             /\ program' = "refused" /\ theFile.what = "fields" => \E f \in Unchecked : theFile.value[f] = "outside"
  <2>1. theFile.value = v /\ theFile.what = "fields"
    BY <1>2 DEF Contents
  <2>2. CASE Accepts(theFile)
    BY <1>2, <2>1, <2>2 DEF LoadConfig
  <2>3. CASE ~Accepts(theFile)
    BY <1>2, <2>1, <2>3 DEF LoadConfig, Accepts, InLimits
  <2>. QED  BY <2>2, <2>3
<1>. QED  BY <1>1, <1>2 DEF FileKept

\* The defaults are in their ranges, and so is what a thread that does not save holds.
LEMMA DefaultsFit == /\ InLimits(Defaults) /\ FileKept(Contents(Defaults)) /\ Contents(Defaults) # Absent
                     /\ NoSaves \in [Savers -> [at : {"none", "read", "open", "over"}, of : [Fields -> FieldValues]]]
                     /\ \A t \in Savers : SaveFits(NoSaves[t])
                     /\ \A t \in Savers : SaveFits(NoSaves[t])'
<1>1. InLimits(Defaults)
  BY DEF InLimits, Defaults, FieldValues
<1>2. Contents(Defaults).what = "fields" /\ Absent.what = "absent"
  BY DEF Contents, Absent
<1>3. \A t \in Savers : NoSaves[t] = [at |-> "none", of |-> Defaults]
  BY DEF NoSaves
<1>. QED  BY <1>1, <1>2, <1>3 DEF FileKept, NoSaves, SaveFits, InLimits

\* A change stays in the limits, in the window and in what a save still reads.
LEMMA ChangeKeeps ==
  ASSUME SettingsInv, NEW new, InLimits(new), Changes(new)
  PROVE  SettingsInv'
<1>. USE DEF SettingsInv, SettingsKept
<1>1. program' = "up" /\ touched' = TRUE /\ fieldsShown' = new
  BY DEF Changes
<1>2. PICK unread \in SUBSET Fields :
        saves' = IF saves["callback"].at # "read" THEN saves
                 ELSE [saves EXCEPT !["callback"].of =
                         [f \in Fields |-> IF f \in unread THEN new[f] ELSE @[f]]]
  BY DEF Changes
<1>. DEFINE readNow == [f \in Fields |-> IF f \in unread THEN new[f] ELSE saves["callback"].of[f]]
<1>3. InLimits(readNow)
  BY DEF SavesFit, SaveFits, InLimits, Savers
<1>4. SavesFit'
  <2>1. CASE saves["callback"].at # "read"
    BY <1>1, <1>2, <2>1 DEF SavesFit, SaveFits, Changes
  <2>2. CASE saves["callback"].at = "read"
    <3>1. saves' = [saves EXCEPT !["callback"].of = readNow]
      BY <1>2, <2>2
    <3>2. saves'["callback"].of = readNow /\ saves'["callback"].at = "read" /\ saves'["main"] = saves["main"]
      BY <3>1, <2>2 DEF SavesFit, Savers
    <3>3. saves' \in [Savers -> [at : {"none", "read", "open", "over"}, of : [Fields -> FieldValues]]]
      BY <3>1, <1>3 DEF SavesFit, Savers, InLimits
    <3>4. SaveFits(saves["callback"])' /\ SaveFits(saves["main"])'
      BY <1>1, <1>3, <3>2 DEF SavesFit, SaveFits, Savers, Changes
    <3>. QED  BY <3>3, <3>4, <1>1 DEF SavesFit, Savers
  <2>. QED  BY <2>1, <2>2
<1>. QED  BY <1>1, <1>4 DEF Changes

\* The end of a save leaves the other one as it was, or over what is written.
LEMMA EndKeeps ==
  ASSUME SettingsInv, NEW t \in Savers, NEW writes, saves[t].at # "none", Ends(t, writes),
         UNCHANGED <<fieldsShown, touched, emptied>>
  PROVE  SavesFit' /\ program' \in {program, "down"}
<1>1. CASE t = "main" /\ program = "closing"
  BY <1>1, DefaultsFit DEF Ends, SavesFit, SettingsInv
<1>2. CASE ~(t = "main" /\ program = "closing")
  <2>1. program' = program /\ program \in {"up", "closing"}
    BY <1>2 DEF Ends, SavesFit, SettingsInv, NoSaves
  <2>2. \A u \in Savers : \/ saves'[u] = NoSaves[u]
                          \/ saves'[u] = saves[u]
                          \/ saves[u].at = "open" /\ saves'[u] = [saves[u] EXCEPT !.at = "over"]
    BY <1>2 DEF Ends
  <2>3. \A u \in Savers : SaveFits(saves[u])'
    <3>. TAKE u \in Savers
    <3>1. SaveFits(saves[u]) /\ saves[u] \in [at : {"none", "read", "open", "over"}, of : [Fields -> FieldValues]]
      BY DEF SavesFit, SettingsInv
    <3>2. CASE saves'[u] = NoSaves[u]
      BY <3>2, DefaultsFit DEF SaveFits
    <3>3. CASE saves'[u] = saves[u]
      BY <3>1, <3>3 DEF SaveFits
    <3>4. CASE saves[u].at = "open" /\ saves'[u] = [saves[u] EXCEPT !.at = "over"]
      BY <3>1, <3>4 DEF SaveFits
    <3>. QED  BY <2>2, <3>2, <3>3, <3>4
  <2>4. saves' \in [Savers -> [at : {"none", "read", "open", "over"}, of : [Fields -> FieldValues]]]
    <3>1. \A u \in Savers : NoSaves[u] \in [at : {"none", "read", "open", "over"}, of : [Fields -> FieldValues]]
      BY DefaultsFit
    <3>2. \A u \in Savers : saves[u] \in [at : {"none", "read", "open", "over"}, of : [Fields -> FieldValues]]
      BY DEF SavesFit, SettingsInv
    <3>. QED  BY <1>2, <3>1, <3>2 DEF Ends
  <2>. QED  BY <2>1, <2>3, <2>4 DEF SavesFit
<1>. QED  BY <1>1, <1>2

\* Every step of a save keeps the invariant.
LEMMA PreferencesKeep ==
  ASSUME SettingsInv, NEW t \in Savers,
         SavePreferences(t) \/ OpenFile(t) \/ WritePreferences(t) \/ SaveFails(t)
  PROVE  SettingsInv'
<1>. USE DEF SettingsInv, SettingsKept
<1>1. CASE SavePreferences(t)
  <2>1. SavesFit'
    BY <1>1 DEF SavePreferences, Begins, SavesFit, SaveFits, InLimits
  <2>. QED  BY <1>1, <2>1 DEF SavePreferences
<1>2. CASE OpenFile(t)
  <2>1. SavesFit'
    <3>1. saves[t].at = "read" /\ program \in {"up", "closing"}
      BY <1>2 DEF OpenFile, SavesFit, NoSaves
    <3>. QED  BY <1>2, <3>1 DEF OpenFile, SavesFit, SaveFits
  <2>2. program' \in {"up", "closing"}
    BY <1>2 DEF OpenFile, SavesFit, NoSaves
  <2>. QED  BY <1>2, <2>1, <2>2 DEF OpenFile, FileKept
<1>3. CASE WritePreferences(t)
  <2>1. saves[t].at \in {"open", "over"} /\ Ends(t, TRUE) /\ UNCHANGED <<fieldsShown, touched, emptied>>
    BY <1>3 DEF WritePreferences
  <2>0. program \in {"up", "closing"}
    BY <2>1 DEF SavesFit, NoSaves
  <2>2. SavesFit' /\ program' \in {program, "down"} /\ program \in {"up", "closing"}
    BY ONLY <2>0, <2>1, EndKeeps, SettingsInv, t \in Savers, Zenon
  <2>3. SaveFits(saves[t])
    BY DEF SavesFit
  <2>4. lastSaved' = Contents(saves[t].of) /\ FileKept(lastSaved') /\ stored' \in {lastSaved', TornConfig}
    BY <1>3, <2>3 DEF WritePreferences, FileKept, SaveFits
  <2>5. ~touched => saves[t].of = fieldsShown /\ emptied
    BY <2>1, <2>3 DEF SaveFits
  <2>. QED  BY <2>1, <2>2, <2>4, <2>5 DEF FileKept
<1>4. CASE SaveFails(t)
  <2>1. /\ saves[t].at # "none" /\ Ends(t, saves[t].at # "read")
        /\ UNCHANGED <<fieldsShown, touched, emptied, lastSaved>>
        /\ stored' = stored \/ (stored' = TornConfig /\ saves[t].at = "over")
    BY <1>4 DEF SaveFails
  <2>0. program \in {"up", "closing"}
    BY <2>1 DEF SavesFit, NoSaves
  <2>2. SavesFit' /\ program' \in {program, "down"} /\ program \in {"up", "closing"}
    BY ONLY <2>0, <2>1, EndKeeps, SettingsInv, t \in Savers, Zenon
  <2>3. SaveFits(saves[t])
    BY DEF SavesFit
  <2>. QED  BY <2>1, <2>2, <2>3 DEF FileKept, SaveFits
<1>. QED  BY <1>1, <1>2, <1>3, <1>4

\* Every step of the launcher keeps the invariant.
LEMMA SettingsStep ==
  ASSUME SettingsInv, [SettingsNext]_settingsVars
  PROVE  SettingsInv'
<1>. USE DEF SettingsInv, SettingsKept
<1>1. CASE StartProgram
  <2>1. saves' = NoSaves
    BY <1>1 DEF StartProgram, SavesFit
  <2>2. /\ InLimits(fieldsShown') /\ program' \in {"up", "refused"}
        /\ program' = "up" => stored = Contents(fieldsShown')
        /\ program' = "refused" => ~Accepts(stored)
        /\ program' = "refused" /\ stored.what = "fields" => \E f \in Unchecked : stored.value[f] = "outside"
    BY <1>1, StartShows DEF StartProgram
  <2>. QED  BY <1>1, <2>1, <2>2, DefaultsFit DEF StartProgram, SavesFit, Unchecked
<1>2. CASE CreateConfig
  BY <1>2, DefaultsFit DEF CreateConfig, FileKept, SavesFit
<1>3. CASE WriteDefaults
  <2>1. saves' = NoSaves
    BY <1>3 DEF WriteDefaults, SavesFit
  <2>2. /\ InLimits(fieldsShown') /\ program' \in {"up", "refused"}
        /\ program' = "up" => stored' = Contents(fieldsShown')
        /\ program' = "refused" => ~Accepts(stored')
        /\ program' = "refused" /\ stored'.what = "fields" => \E f \in Unchecked : stored'.value[f] = "outside"
    BY <1>3, StartShows, DefaultsFit DEF WriteDefaults
  <2>. QED  BY <1>3, <2>1, <2>2, DefaultsFit DEF WriteDefaults, SavesFit, Unchecked
<1>4. CASE CreateFails
  <2>1. stored = TornConfig /\ TornConfig.what = "torn"
    BY <1>4 DEF CreateFails, TornConfig
  <2>. QED  BY <1>4, <2>1, DefaultsFit DEF CreateFails, SavesFit, Accepts
<1>5. CASE Edit
  <2>1. PICK f \in Fields, v \in FieldValues :
          (v = "outside" => f \in Unlimited) /\ Changes([fieldsShown EXCEPT ![f] = v])
    BY <1>5 DEF Edit
  <2>2. InLimits([fieldsShown EXCEPT ![f] = v])
    BY <2>1 DEF InLimits, Unchecked
  <2>. QED  BY <2>1, <2>2, ChangeKeeps
<1>6. CASE ApplyTimeStatus
  <2>. DEFINE Filled(answer) == [f \in Fields |-> IF f \in FromSimulator THEN answer[f] ELSE fieldsShown[f]]
  <2>1. PICK answer \in [FromSimulator -> FieldValues] : Changes(Filled(answer))
    BY <1>6 DEF ApplyTimeStatus
  <2>2. InLimits(Filled(answer))
    BY DEF InLimits, Unchecked
  <2>. QED  BY <2>1, <2>2, ChangeKeeps
<1>7. CASE CloseWindow
  <2>1. SavesFit'
    BY <1>7 DEF CloseWindow, Begins, SavesFit, SaveFits, InLimits, Savers
  <2>. QED  BY <1>7, <2>1 DEF CloseWindow
<1>8. CASE KillWindow
  BY <1>8, DefaultsFit DEF KillWindow, SavesFit
<1>9. CASE RemoveFile
  <2>1. Absent.what = "absent"
    BY DEF Absent
  <2>. QED  BY <1>9, <2>1, DefaultsFit DEF RemoveFile, FileKept, Accepts, SavesFit
<1>10. CASE \E t \in Savers : SavePreferences(t) \/ OpenFile(t) \/ WritePreferences(t) \/ SaveFails(t)
  BY <1>10, PreferencesKeep
<1>11. CASE UNCHANGED settingsVars
  BY <1>11 DEF settingsVars, Accepts, SavesFit, SaveFits
<1>. QED
  BY <1>1, <1>2, <1>3, <1>4, <1>5, <1>6, <1>7, <1>8, <1>9, <1>10, <1>11 DEF SettingsNext

\* The file holds what was written last or is torn, a start shows what the file
\* holds, and refuses it only for a value that came in unchecked, however saves of
\* the two threads, failures of them and kills have crossed, for any fields.
THEOREM SettingsStayKept == SettingsSpec => []SettingsKept
<1>1. SettingsInit => SettingsInv
  <2>. SUFFICES ASSUME SettingsInit PROVE SettingsInv
    OBVIOUS
  <2>1. InLimits([f \in Fields |-> "set"])
    BY DEF InLimits, FieldValues
  <2>2. FileKept(stored)
    BY <2>1 DEF SettingsInit, FileKept
  <2>3. SavesFit
    BY DefaultsFit DEF SettingsInit, SavesFit
  <2>. QED  BY <2>2, <2>3, DefaultsFit DEF SettingsInit, SettingsInv, SettingsKept
<1>2. SettingsInv /\ [SettingsNext]_settingsVars => SettingsInv'
  BY SettingsStep
<1>3. SettingsInv => SettingsKept
  BY DEF SettingsInv
<1>. QED  BY <1>1, <1>2, <1>3, PTL DEF SettingsSpec

-----------------------------------------------------------------------------
(* CliConsole.  The console without a window.                              *)

StepperRecords ==
  [sock : Nat, stop : BOOLEAN, at : {"loop", "sent", "wait", "gone", "raised"}, left : Int, listed : BOOLEAN]
DriverTypes ==
  /\ cliAt \in {"connect", "keys", "ask", "choose", "take", "over"}
  /\ socks \in Seq({"up", "lost", "closed"})
  /\ steppers \in Seq(StepperRecords) /\ stepperNow \in 0..Len(steppers)
PickTypes ==
  /\ scenarios \in Seq(STRING) /\ listMoved \in BOOLEAN
  /\ pick \in [index : Nat, shown : Seq(STRING), name : STRING \cup {NoTarget}]

\* The caller that goes on is the one W would stop, on the connection of now;
\* what it has in the table it waits for.
DriversKept ==
  /\ cliAt # "connect" => socks # << >>
  /\ \A s \in 1..Len(steppers) :
       /\ Alive(s) /\ ~steppers[s].stop =>
            s = stepperNow /\ (cliAt \notin {"connect", "over"} /\ steppers[s].sock = Sock)
       /\ steppers[s].listed => steppers[s].at \in {"sent", "wait", "raised"}
\* Only the last connection is open, and none before a new one.
LinksClosed ==
  \A n \in 1..Len(socks) : socks[n] = "closed" \/ (n = Sock /\ cliAt \notin {"connect", "over"})
\* The list shown is the list of now, unless an answer came in between.
ShownChoice ==
  /\ cliAt \in {"choose", "take"} => pick.name = NoTarget
  /\ cliAt \in {"choose", "take"} /\ ~listMoved => pick.shown = scenarios
  /\ cliAt = "take" /\ ~listMoved => pick.index \in DOMAIN scenarios
  /\ pick.name # NoTarget /\ ~listMoved => pick.shown[pick.index] = pick.name
EndsWell == cliAt = "over" =>
  endedBy \in {"quit", "number", "range", "interrupt"} \/ (endedBy = "index" /\ listMoved)
DriverInv == DriverTypes /\ DriversKept /\ LinksClosed
PickInv == PickTypes /\ ShownChoice /\ EndsWell
CliInv == DriverInv /\ PickInv

\* Stopping the caller leaves none that goes on.
LEMMA StopperStops ==
  ASSUME DriverInv, StopStepper
  PROVE  /\ steppers' \in Seq(StepperRecords) /\ stepperNow' \in 0..Len(steppers') /\ Len(steppers') = Len(steppers)
         /\ \A s \in 1..Len(steppers) :
              /\ steppers'[s].at = steppers[s].at /\ steppers'[s].listed = steppers[s].listed
              /\ steppers'[s].at \notin {"gone", "raised"} => steppers'[s].stop
<1>. steppers \in Seq(StepperRecords) /\ stepperNow \in 0..Len(steppers) /\ Len(steppers) \in Nat
  BY DEF DriverInv, DriverTypes
<1>0. \A s \in 1..Len(steppers) : steppers[s] \in StepperRecords
  OBVIOUS
<1>1. CASE stepperNow # 0 /\ Alive(stepperNow)
  <2>. DEFINE x == [steppers[stepperNow] EXCEPT !.stop = TRUE]
  <2>1. steppers' = [steppers EXCEPT ![stepperNow] = x] /\ stepperNow' = 0 /\ stepperNow \in 1..Len(steppers)
    BY <1>1 DEF StopStepper
  <2>2. x \in StepperRecords /\ x.at = steppers[stepperNow].at /\ x.listed = steppers[stepperNow].listed /\ x.stop
    BY <1>0, <2>1 DEF StepperRecords
  <2>. HIDE DEF x
  <2>3. /\ steppers' \in Seq(StepperRecords) /\ Len(steppers') = Len(steppers)
        /\ \A s \in 1..Len(steppers) : steppers'[s] = IF s = stepperNow THEN x ELSE steppers[s]
    BY <2>1, <2>2, ExceptSeq
  <2>4. \A s \in 1..Len(steppers) : s # stepperNow /\ steppers[s].at \notin {"gone", "raised"} => steppers[s].stop
    BY DEF DriverInv, DriversKept, Alive
  <2>. QED  BY <2>1, <2>2, <2>3, <2>4
<1>2. CASE ~(stepperNow # 0 /\ Alive(stepperNow))
  <2>1. steppers' = steppers /\ stepperNow' = stepperNow
    BY <1>2 DEF StopStepper
  <2>2. ASSUME NEW s \in 1..Len(steppers), steppers[s].at \notin {"gone", "raised"} PROVE steppers[s].stop
    BY <1>2, <2>2 DEF DriverInv, DriversKept, Alive
  <2>. QED  BY <2>1, <2>2
<1>. QED  BY <1>1, <1>2

\* Stopping the caller and closing the connection, before a new one or the end.
LEMMA ClosedAll ==
  ASSUME DriverInv, socks # << >>, StopStepper, StopReaderAndClose, cliAt' \in {"connect", "over"}
  PROVE  DriverInv'
<1>. Len(socks) \in Nat \ {0} /\ socks \in Seq({"up", "lost", "closed"})
  BY DEF DriverInv, DriverTypes
<1>1. /\ socks' \in Seq({"up", "lost", "closed"}) /\ Len(socks') = Len(socks)
      /\ \A n \in 1..Len(socks) : socks'[n] = IF n = Len(socks) THEN "closed" ELSE socks[n]
  BY ExceptSeq DEF StopReaderAndClose, Sock
<1>2. DriverTypes'
  BY <1>1, StopperStops DEF DriverTypes
<1>3. DriversKept'
  BY <1>1, StopperStops DEF DriversKept, DriverInv, Alive
<1>4. LinksClosed'
  BY <1>1 DEF LinksClosed, DriverInv, Sock
<1>. QED  BY <1>2, <1>3, <1>4 DEF DriverInv

\* A send stays with its connection, connects anew, or ends the program.
LEMMA DispatchDrives ==
  ASSUME DriverInv, cliAt \in {"keys", "ask", "choose", "take"}, NEW fits, Dispatch(fits)
  PROVE  /\ DriverInv'
         /\ \/ cliAt' \in {"keys", "connect"} /\ endedBy' = endedBy
            \/ cliAt' = "over" /\ endedBy' = "range"
<1>1. socks # << >>
  BY DEF DriverInv, DriversKept
<1>2. CASE ~fits
  BY <1>1, <1>2, ClosedAll DEF Dispatch, LeaveCli
<1>3. CASE fits /\ ReconnectCli
  BY <1>1, <1>3, ClosedAll DEF ReconnectCli
<1>4. CASE fits /\ cliAt' = "keys" /\ UNCHANGED <<linkVars, steppers, stepperNow, endedBy>>
  <2>1. DriverInv'
    BY <1>4 DEF DriverInv, DriverTypes, DriversKept, LinksClosed, Alive, Sock, linkVars
  <2>. QED  BY <1>4, <2>1
<1>. QED  BY <1>2, <1>3, <1>4 DEF Dispatch

\* The steps of the main thread.
LEMMA MainKeeps ==
  ASSUME CliInv, ConnectCli \/ PressCommand \/ PressAsking \/ AnswerValues \/ PressPlay \/ ChooseIndex
                 \/ TakeScenario \/ PressQuit \/ InterruptConnect
  PROVE  CliInv'
<1>. USE DEF PickInv, PickTypes, ShownChoice, EndsWell, pickVars
<1>. DriverInv /\ PickInv
  BY DEF CliInv
<1>0. NoPick \in [index : Nat, shown : Seq(STRING), name : STRING \cup {NoTarget}] /\ NoPick.name = NoTarget
  BY DEF NoPick
<1>1. CASE ConnectCli
  <2>. cliAt = "connect" /\ cliAt' = "keys" /\ socks' = Append(socks, "up") /\ UNCHANGED <<steppers, stepperNow, pickVars, endedBy>>
    BY <1>1 DEF ConnectCli
  <2>1. /\ socks' \in Seq({"up", "lost", "closed"}) /\ Len(socks) \in Nat /\ Len(socks') = Len(socks) + 1
        /\ \A n \in 1..Len(socks) : socks'[n] = socks[n]
    BY DEF DriverInv, DriverTypes
  <2>2. DriverInv'
    BY <2>1 DEF DriverInv, DriverTypes, DriversKept, LinksClosed, Alive, Sock
  <2>. QED  BY <2>2 DEF CliInv
<1>2. CASE PressCommand
  <2>1. DriverInv' /\ cliAt' \notin {"choose", "take"} /\ (cliAt' = "over" => endedBy' = "range")
    BY <1>2, DispatchDrives DEF PressCommand, PressKey
  <2>. QED  BY <1>0, <1>2, <2>1 DEF PressCommand, PressKey, CliInv
<1>3. CASE PressAsking
  <2>1. DriverInv'
    BY <1>3 DEF PressAsking, PressKey, DriverInv, DriverTypes, DriversKept, LinksClosed, Alive, Sock, linkVars
  <2>. QED  BY <1>0, <1>3, <2>1 DEF PressAsking, PressKey, CliInv
<1>4. CASE AnswerValues
  <2>1. socks # << >>
    BY <1>4 DEF AnswerValues, DriverInv, DriversKept
  <2>2. DriverInv' /\ cliAt' \notin {"choose", "take"} /\ (cliAt' = "over" => endedBy' \in {"range", "number"})
    BY <1>4, <2>1, DispatchDrives, ClosedAll DEF AnswerValues, LeaveCli
  <2>. QED  BY <1>4, <2>2 DEF AnswerValues, CliInv
<1>5. CASE PressPlay
  <2>1. CASE scenarios = << >>
    <3>1. DriverInv' /\ cliAt' \notin {"choose", "take"} /\ (cliAt' = "over" => endedBy' = "range")
      BY <1>5, <2>1, DispatchDrives DEF PressPlay, PressKey
    <3>. QED  BY <1>0, <1>5, <2>1, <3>1 DEF PressPlay, PressKey, CliInv
  <2>2. CASE scenarios # << >>
    <3>1. DriverInv'
      BY <1>5, <2>2 DEF PressPlay, PressKey, DriverInv, DriverTypes, DriversKept, LinksClosed, Alive, Sock, linkVars
    <3>. QED  BY <1>0, <1>5, <2>2, <3>1 DEF PressPlay, PressKey, CliInv
  <2>. QED  BY <2>1, <2>2
<1>6. CASE ChooseIndex
  <2>1. CASE (\E fits \in {TRUE} : Dispatch(fits)) /\ UNCHANGED pick
    <3>1. DriverInv' /\ cliAt' \notin {"choose", "take"} /\ (cliAt' = "over" => endedBy' = "range")
      BY <1>6, <2>1, DispatchDrives DEF ChooseIndex
    <3>. QED  BY <1>6, <2>1, <3>1 DEF ChooseIndex, CliInv
  <2>2. ASSUME NEW i \in DOMAIN scenarios, cliAt' = "take", pick' = [pick EXCEPT !.index = i],
               UNCHANGED <<linkVars, steppers, stepperNow, endedBy>>
        PROVE  CliInv'
    <3>1. DriverInv'
      BY <1>6, <2>2 DEF ChooseIndex, DriverInv, DriverTypes, DriversKept, LinksClosed, Alive, Sock, linkVars
    <3>. QED  BY <1>6, <2>2, <3>1 DEF ChooseIndex, CliInv
  <2>. QED  BY <1>6, <2>1, <2>2 DEF ChooseIndex
<1>7. CASE TakeScenario
  <2>0. socks # << >> /\ cliAt = "take" /\ UNCHANGED <<scenarios, listMoved>>
    BY <1>7 DEF TakeScenario, DriverInv, DriversKept
  <2>1. CASE pick.index \in DOMAIN scenarios
    <3>1. DriverInv' /\ cliAt' \notin {"choose", "take"} /\ (cliAt' = "over" => endedBy' = "range")
      BY <1>7, <2>0, <2>1, DispatchDrives DEF TakeScenario
    <3>2. scenarios[pick.index] \in STRING /\ pick' = [pick EXCEPT !.name = scenarios[pick.index]]
      BY <1>7, <2>1 DEF TakeScenario
    <3>. QED  BY <2>0, <2>1, <3>1, <3>2 DEF CliInv
  <2>2. CASE pick.index \notin DOMAIN scenarios
    <3>1. DriverInv' /\ cliAt' = "over" /\ endedBy' = "index" /\ pick' = pick
      BY <1>7, <2>0, <2>2, ClosedAll DEF TakeScenario, LeaveCli
    <3>. QED  BY <2>0, <2>2, <3>1 DEF CliInv
  <2>. QED  BY <2>1, <2>2
<1>8. CASE PressQuit
  <2>1. socks # << >>
    BY <1>8 DEF PressQuit, DriverInv, DriversKept
  <2>2. DriverInv' /\ cliAt' = "over" /\ endedBy' = "quit"
    BY <1>8, <2>1, ClosedAll DEF PressQuit, LeaveCli
  <2>. QED  BY <1>8, <2>2 DEF PressQuit, CliInv
<1>9. CASE InterruptConnect
  <2>2. DriverInv' /\ cliAt' = "over" /\ endedBy' = "interrupt"
    BY <1>9, ClosedAll DEF InterruptConnect, LeaveCli
  <2>. QED  BY <1>9, <2>2 DEF InterruptConnect, CliInv
<1>. QED
  BY <1>1, <1>2, <1>3, <1>4, <1>5, <1>6, <1>7, <1>8, <1>9

\* The key W stops the caller that goes on, or starts one when none does.
LEMMA ToggleKeeps ==
  ASSUME CliInv, PressToggle
  PROVE  CliInv'
<1>. /\ steppers \in Seq(StepperRecords) /\ stepperNow \in 0..Len(steppers) /\ Len(steppers) \in Nat
     /\ socks \in Seq({"up", "lost", "closed"}) /\ Len(socks) \in Nat
  BY DEF CliInv, DriverInv, DriverTypes
<1>1. cliAt = "keys" /\ UNCHANGED <<cliAt, socks, endedBy>>
  BY DEF PressToggle, PressKey, linkVars
<1>0. NoPick \in [index : Nat, shown : Seq(STRING), name : STRING \cup {NoTarget}] /\ NoPick.name = NoTarget
  BY DEF NoPick
<1>2. PickInv'
  BY <1>0, <1>1 DEF PressToggle, PressKey, CliInv, PickInv, PickTypes, ShownChoice, EndsWell
<1>3. CASE stepperNow = 0 \/ ~Alive(stepperNow)
  <2>. DEFINE x == [sock |-> Sock, stop |-> FALSE, at |-> "loop", left |-> MaxSteps, listed |-> FALSE]
  <2>1. steppers' = Append(steppers, x) /\ stepperNow' = Len(steppers) + 1
    BY <1>3 DEF PressToggle
  <2>2. x \in StepperRecords /\ x.sock = Sock /\ ~x.listed
    BY CliAssumption DEF StepperRecords, Sock
  <2>. HIDE DEF x
  <2>3. /\ steppers' \in Seq(StepperRecords) /\ Len(steppers') = Len(steppers) + 1
        /\ steppers'[Len(steppers) + 1] = x /\ \A s \in 1..Len(steppers) : steppers'[s] = steppers[s]
    BY <2>1, <2>2
  <2>4. \A s \in 1..Len(steppers) : Alive(s) => steppers[s].stop
    BY <1>3 DEF CliInv, DriverInv, DriversKept
  <2>5. DriversKept'
    BY <1>1, <2>1, <2>2, <2>3, <2>4 DEF CliInv, DriverInv, DriversKept, Alive, Sock
  <2>. QED  BY <1>1, <1>2, <2>1, <2>3, <2>5 DEF CliInv, DriverInv, DriverTypes, LinksClosed, Sock
<1>4. CASE ~(stepperNow = 0 \/ ~Alive(stepperNow))
  <2>1. StopStepper
    BY <1>4 DEF PressToggle, StopStepper
  <2>2. DriverTypes'
    BY <1>1, <2>1, StopperStops DEF CliInv, DriverInv, DriverTypes
  <2>3. DriversKept'
    BY <1>1, <2>1, StopperStops DEF CliInv, DriverInv, DriversKept, Alive
  <2>. QED  BY <1>1, <1>2, <2>2, <2>3 DEF CliInv, DriverInv, LinksClosed, Sock
<1>. QED  BY <1>3, <1>4

\* One caller moves, and stays what it was apart from its place and its request.
LEMMA StepperMoved ==
  ASSUME CliInv, NEW s \in Steppers, NEW change \in StepperRecords, StepperMoves(s, change),
         change.sock = steppers[s].sock, change.stop = steppers[s].stop,
         change.at \notin {"gone", "raised"} => Alive(s),
         change.listed => change.at \in {"sent", "wait", "raised"}
  PROVE  CliInv'
<1>. steppers \in Seq(StepperRecords) /\ stepperNow \in 0..Len(steppers) /\ Len(steppers) \in Nat
  BY DEF CliInv, DriverInv, DriverTypes
<1>1. /\ steppers' \in Seq(StepperRecords) /\ Len(steppers') = Len(steppers)
      /\ \A t \in 1..Len(steppers) : steppers'[t] = IF t = s THEN change ELSE steppers[t]
  BY ExceptSeq DEF StepperMoves, Steppers
<1>2. DriverTypes'
  BY <1>1 DEF StepperMoves, CliInv, DriverInv, DriverTypes, linkVars
<1>3. DriversKept'
  <2>. SUFFICES ASSUME NEW t \in 1..Len(steppers)
                PROVE  /\ Alive(t)' /\ ~steppers'[t].stop =>
                            t = stepperNow /\ (cliAt \notin {"connect", "over"} /\ steppers'[t].sock = Sock)
                       /\ steppers'[t].listed => steppers'[t].at \in {"sent", "wait", "raised"}
    BY <1>1 DEF StepperMoves, CliInv, DriverInv, DriversKept, linkVars, Sock
  <2>. QED  BY <1>1 DEF CliInv, DriverInv, DriversKept, Alive
<1>4. LinksClosed'
  BY DEF StepperMoves, CliInv, DriverInv, LinksClosed, linkVars, Sock
<1>5. PickInv'
  BY DEF StepperMoves, CliInv, PickInv, PickTypes, ShownChoice, EndsWell, pickVars
<1>. QED  BY <1>2, <1>3, <1>4, <1>5 DEF CliInv, DriverInv

\* The steps of the callers.
LEMMA SteppersKeep ==
  ASSUME CliInv, NEW s \in Steppers,
         StepperSends(s) \/ StepperWaits(s) \/ StepperGivesUp(s) \/ StepperAnswered(s) \/ StepperEnds(s)
  PROVE  CliInv'
<1>. steppers[s] \in StepperRecords /\ (steppers[s].listed => steppers[s].at \in {"sent", "wait", "raised"})
  BY DEF CliInv, DriverInv, DriverTypes, DriversKept, Steppers
<1>1. CASE StepperSends(s)
  <2>1. PICK at \in {"sent", "raised"} : StepperMoves(s, [steppers[s] EXCEPT !.at = at, !.listed = TRUE])
    BY <1>1 DEF StepperSends
  <2>. QED  BY <1>1, <2>1, StepperMoved DEF StepperSends, StepperRecords, Alive
<1>2. CASE StepperWaits(s)
  BY <1>2, StepperMoved DEF StepperWaits, StepperRecords, Alive
<1>3. CASE StepperGivesUp(s)
  BY <1>3, StepperMoved DEF StepperGivesUp, StepperRecords, Alive
<1>4. CASE StepperAnswered(s)
  <2>1. PICK x \in StepperRecords : x = [steppers[s] EXCEPT !.at = "loop", !.left = @ - 1]
    <3>1. steppers[s].left - 1 \in Int
      BY DEF StepperRecords
    <3>2. [steppers[s] EXCEPT !.at = "loop", !.left = steppers[s].left - 1] \in StepperRecords
      BY <3>1 DEF StepperRecords
    <3>. QED  BY <3>2
  <2>2. StepperMoves(s, x)
    BY <1>4, <2>1 DEF StepperAnswered
  <2>3. x.sock = steppers[s].sock /\ x.stop = steppers[s].stop /\ ~x.listed /\ Alive(s)
    BY <1>4, <2>1 DEF StepperAnswered, StepperRecords, Alive
  <2>. QED  BY <2>2, <2>3, StepperMoved
<1>5. CASE StepperEnds(s)
  BY <1>5, StepperMoved DEF StepperEnds, StepperRecords, Alive
<1>. QED  BY <1>1, <1>2, <1>3, <1>4, <1>5

\* The steps of the receivers and of the other side.
LEMMA ReadersKeep ==
  ASSUME CliInv, cliAt # "over", NEW n \in DOMAIN socks, AnswerStep(n) \/ AnswerSuite(n) \/ LoseLink(n) \/ ReaderEnds(n)
  PROVE  CliInv'
<1>1. CASE AnswerStep(n)
  <2>1. PICK s \in Steppers : steppers[s].listed /\ StepperMoves(s, [steppers[s] EXCEPT !.listed = FALSE])
    BY <1>1 DEF AnswerStep
  <2>2. steppers[s] \in StepperRecords
    BY DEF CliInv, DriverInv, DriverTypes, Steppers
  <2>. QED  BY <2>1, <2>2, StepperMoved DEF StepperRecords, Alive
<1>2. CASE AnswerSuite(n)
  <2>1. DriverInv'
    BY <1>2 DEF AnswerSuite, CliInv, DriverInv, DriverTypes, DriversKept, LinksClosed, Alive, Sock, linkVars
  <2>2. PickTypes'
    BY <1>2, CliAssumption DEF AnswerSuite, CliInv, PickInv, PickTypes
  <2>3. ShownChoice' /\ EndsWell'
    BY <1>2 DEF AnswerSuite, CliInv, PickInv, PickTypes, ShownChoice, EndsWell
  <2>. QED  BY <2>1, <2>2, <2>3 DEF CliInv, PickInv
<1>3. CASE LoseLink(n)
  <2>. n \in 1..Len(socks) /\ Len(socks) \in Nat /\ socks \in Seq({"up", "lost", "closed"})
    BY DEF CliInv, DriverInv, DriverTypes
  <2>1. /\ socks' \in Seq({"up", "lost", "closed"}) /\ Len(socks') = Len(socks)
        /\ \A k \in 1..Len(socks) : socks'[k] = IF k = n THEN "lost" ELSE socks[k]
    BY <1>3, ExceptSeq DEF LoseLink
  <2>2. DriverInv'
    BY <1>3, <2>1 DEF LoseLink, CliInv, DriverInv, DriverTypes, DriversKept, LinksClosed, Alive, Sock
  <2>. QED  BY <1>3, <2>2 DEF LoseLink, CliInv, PickInv, PickTypes, ShownChoice, EndsWell, pickVars
<1>4. CASE ReaderEnds(n)
  BY <1>4 DEF ReaderEnds, CliInv, DriverInv, DriverTypes, DriversKept, LinksClosed, Alive, Sock,
    PickInv, PickTypes, ShownChoice, EndsWell, pickVars
<1>. QED  BY <1>1, <1>2, <1>3, <1>4

\* One caller at most goes on, on the connection of now, the scenario that is sent
\* is the one shown, and the program ends with nothing left open.
THEOREM CliStaysDriven == CliSpec => []CliDriven
<1>1. CliInit => CliInv
  <2>. SUFFICES ASSUME CliInit PROVE CliInv
    OBVIOUS
  <2>1. DriverInv
    BY DEF CliInit, DriverInv, DriverTypes, DriversKept, LinksClosed
  <2>2. PickInv
    <3>1. NoPick \in [index : Nat, shown : Seq(STRING), name : STRING \cup {NoTarget}] /\ NoPick.name = NoTarget
      BY DEF NoPick
    <3>2. scenarios = << >> /\ cliAt = "connect" /\ pick = NoPick /\ listMoved = FALSE
      BY DEF CliInit
    <3>3. scenarios \in Seq(STRING)
      BY <3>2
    <3>4. PickTypes
      BY <3>1, <3>2, <3>3 DEF PickTypes
    <3>. QED  BY <3>1, <3>2, <3>4 DEF PickInv, ShownChoice, EndsWell
  <2>. QED  BY <2>1, <2>2 DEF CliInv
<1>2. CliInv /\ [CliNext]_cliVars => CliInv'
  <2>. SUFFICES ASSUME CliInv, [CliNext]_cliVars PROVE CliInv'
    OBVIOUS
  <2>1. CASE UNCHANGED cliVars
    BY <2>1 DEF cliVars, CliInv, DriverInv, DriverTypes, DriversKept, LinksClosed, Alive, Sock,
      PickInv, PickTypes, ShownChoice, EndsWell
  <2>2. CASE CliNext
    BY <2>2, MainKeeps, ToggleKeeps, SteppersKeep, ReadersKeep DEF CliNext
  <2>. QED  BY <2>1, <2>2
<1>3. CliInv => CliDriven
  BY DEF CliInv, DriverInv, DriverTypes, DriversKept, LinksClosed, PickInv, ShownChoice, EndsWell, CliDriven, Steppers
<1>. QED  BY <1>1, <1>2, <1>3, PTL DEF CliSpec

-----------------------------------------------------------------------------
(* LidarView.  The LiDAR tab.                                              *)

Textures == [points : Nat, view : Nat, stats : Nat]
Threads == [running : BOOLEAN, at : {"new", "bind", "recv", "points", "stats", "gone"}, frame : Nat]
ViewTypes ==
  /\ points \in Nat /\ stats \in Nat /\ cameraView \in Nat /\ frames \in Nat /\ rxNow \in Receivers \cup {0}
  /\ rx \in [Receivers -> Threads] /\ ui \in {"idle", "startStats", "stopStats", "mark"}
  /\ worker \in [at : {"wait", "check", "post"}, points : Nat, view : Nat]
  /\ startEnabled \in BOOLEAN /\ wake \in BOOLEAN /\ inFlight \in BOOLEAN
  /\ renderDropped \in BOOLEAN /\ lateFrame \in BOOLEAN
  /\ uiQueue \in Seq(Textures) /\ screen \in Textures

\* The texture in flight is the one in the queue.
FlightInv ==
  /\ Len(uiQueue) <= 1 /\ (inFlight <=> uiQueue # << >>)
  /\ worker.at = "post" => ~inFlight
\* Unless a frame crossed a Stop or a Start: a thread that has stored its points is
\* that of now, and they are still there; no receiver, no points.
StoredInv == ~lateFrame =>
  /\ \A r \in Receivers : rx[r].at = "stats" => r = rxNow /\ rx[r].frame = points
  /\ rxNow = 0 => points = 0
  /\ ui \in {"startStats", "stopStats"} => rxNow = 0
  /\ stats = points \/ ui = "stopStats" \/ \E r \in Receivers : rx[r].at = "stats"
\* The render thread is woken, or will be, or has what is now, or it is shown.
RenderComes == wake \/ ui \in {"stopStats", "mark"} \/ \E r \in Receivers : rx[r].at = "stats"
Newest == IF uiQueue # << >> THEN uiQueue[1] ELSE screen
RenderInv == ~lateFrame =>
  \/ RenderComes
  \/ worker.at # "wait" /\ worker.points = points /\ worker.view = cameraView
  \/ worker.at = "wait" /\ (renderDropped \/ Newest = Drawn(points, cameraView, stats))
ViewInv == ViewTypes /\ FlightInv /\ StoredInv /\ RenderInv

\* The receive threads.
LEMMA ThreadsKeepView ==
  ASSUME ViewInv, NEW r \in Receivers, RxStep(r)
  PROVE  ViewInv'
<1>. ViewTypes /\ FlightInv /\ StoredInv /\ RenderInv
  BY DEF ViewInv
<1>1. CASE Binds(r)
  <2>1. ViewTypes'
    BY <1>1 DEF Binds, ViewTypes, Threads
  <2>. QED  BY <1>1, <2>1 DEF Binds, ViewInv, ViewTypes, FlightInv, StoredInv, RenderInv, RenderComes, Newest
<1>2. CASE BindFails(r)
  <2>1. ViewTypes'
    BY <1>2 DEF BindFails, ThreadMoves, ViewTypes, Threads
  <2>. QED  BY <1>2, <2>1 DEF BindFails, ThreadMoves, ViewInv, ViewTypes, FlightInv, StoredInv, RenderInv, RenderComes, Newest
<1>3. CASE FrameComes(r)
  <2>1. ViewTypes'
    <3>1. frames + 1 \in Nat
      BY DEF ViewTypes
    <3>2. [rx[r] EXCEPT !.at = "points", !.frame = frames + 1] \in Threads
      BY <3>1 DEF ViewTypes, Threads
    <3>3. rx' = [rx EXCEPT ![r] = [rx[r] EXCEPT !.at = "points", !.frame = frames + 1]]
      BY <1>3 DEF FrameComes, ViewTypes, Threads
    <3>4. rx' \in [Receivers -> Threads]
      BY <3>2, <3>3 DEF ViewTypes
    <3>. QED  BY <1>3, <3>1, <3>4 DEF FrameComes, ViewTypes
  <2>. QED  BY <1>3, <2>1 DEF FrameComes, ViewInv, ViewTypes, FlightInv, StoredInv, RenderInv, RenderComes, Newest
<1>4. CASE StorePoints(r)
  <2>1. ViewTypes'
    BY <1>4 DEF StorePoints, ThreadMoves, ViewTypes, Threads
  <2>2. FlightInv'
    BY <1>4 DEF StorePoints, FlightInv
  <2>3. rx'[r].at = "stats" /\ rx'[r].frame = rx[r].frame /\ \A q \in Receivers : q # r => rx'[q] = rx[q]
    BY <1>4 DEF StorePoints, ThreadMoves, ViewTypes, Threads
  <2>4. StoredInv'
    <3>. SUFFICES ASSUME ~lateFrame' PROVE StoredInv'
      BY DEF StoredInv
    <3>0. ~lateFrame /\ r = rxNow
      BY <1>4, Zenon DEF StorePoints
    <3>1. ~lateFrame /\ r = rxNow /\ points' = rx[r].frame /\ r # 0
      BY <1>4, <3>0 DEF StorePoints, Receivers
    <3>2. \A q \in Receivers : rx'[q].at = "stats" => q = rxNow' /\ rx'[q].frame = points'
      BY <1>4, <2>3, <3>1 DEF StorePoints, StoredInv
    <3>3. ui' \in {"startStats", "stopStats"} => rxNow' = 0
      BY <1>4, <3>1 DEF StorePoints, StoredInv
    <3>. QED  BY <1>4, <2>3, <3>1, <3>2, <3>3 DEF StorePoints, StoredInv
  <2>5. RenderInv'
    BY <1>4, <2>3 DEF RenderInv, RenderComes
  <2>. QED  BY <2>1, <2>2, <2>4, <2>5 DEF ViewInv
<1>5. CASE StoreStats(r)
  <2>1. ViewTypes'
    BY <1>5 DEF StoreStats, ViewTypes, Threads
  <2>. QED  BY <1>5, <2>1 DEF StoreStats, ViewInv, ViewTypes, FlightInv, StoredInv, RenderInv, RenderComes, Newest
<1>6. CASE ThreadEnds(r)
  <2>1. ViewTypes'
    BY <1>6 DEF ThreadEnds, ThreadMoves, ViewTypes, Threads
  <2>. QED  BY <1>6, <2>1 DEF ThreadEnds, ThreadMoves, ViewInv, ViewTypes, FlightInv, StoredInv, RenderInv, RenderComes, Newest
<1>. QED  BY <1>1, <1>2, <1>3, <1>4, <1>5, <1>6 DEF RxStep

\* The callback thread.
LEMMA ClicksKeepView ==
  ASSUME ViewInv, CallbackMoves
  PROVE  ViewInv'
<1>. ViewTypes /\ FlightInv /\ StoredInv /\ RenderInv
  BY DEF ViewInv
<1>. USE DEF ViewInv, FlightInv, StoredInv, RenderInv, RenderComes, Newest, Crossing, Receivers
<1>1. CASE StartView
  <2>1. ViewTypes'
    BY <1>1 DEF StartView, ViewTypes, Threads
  <2>. QED  BY <1>1, <2>1 DEF StartView, ViewTypes
<1>2. CASE StartStats
  <2>1. ViewTypes'
    <3>1. PICK r \in Receivers : rx' = [rx EXCEPT ![r].at = "bind"] /\ rxNow' = r
      BY <1>2 DEF StartStats
    <3>2. rx' \in [Receivers -> Threads]
      BY <3>1 DEF ViewTypes, Threads
    <3>3. lateFrame' \in BOOLEAN
      BY <1>2, Zenon DEF StartStats, ViewTypes
    <3>. QED  BY <1>2, <3>1, <3>2, <3>3 DEF StartStats, ViewTypes
  <2>. QED  BY <1>2, <2>1 DEF StartStats, ViewTypes
<1>3. CASE StopView
  <2>1. /\ rx' \in [Receivers -> Threads]
        /\ \A r \in Receivers : rx'[r].at = rx[r].at /\ rx'[r].frame = rx[r].frame
    <3>1. CASE rxNow = 0
      BY <1>3, <3>1 DEF StopView, ViewTypes
    <3>2. CASE rxNow \in Receivers
      <4>1. rx' = [rx EXCEPT ![rxNow] = [rx[rxNow] EXCEPT !.running = FALSE]]
        BY <1>3, <3>2 DEF StopView
      <4>2. [rx[rxNow] EXCEPT !.running = FALSE] \in Threads
        BY <3>2 DEF ViewTypes, Threads
      <4>. QED  BY <3>2, <4>1, <4>2 DEF ViewTypes, Threads
    <3>. QED  BY <3>1, <3>2 DEF ViewTypes
  <2>2. ViewTypes'
    BY <1>3, <2>1 DEF StopView, ViewTypes
  <2>. QED  BY <1>3, <2>1, <2>2 DEF StopView, ViewTypes
<1>4. CASE StopStats
  <2>1. ViewTypes'
    BY <1>4 DEF StopStats, ViewTypes
  <2>. QED  BY <1>4, <2>1 DEF StopStats, ViewTypes
<1>5. CASE ChangeView
  <2>1. ViewTypes'
    BY <1>5 DEF ChangeView, ViewTypes
  <2>. QED  BY <1>5, <2>1 DEF ChangeView, ViewTypes
<1>6. CASE MarkDirty
  <2>1. ViewTypes'
    BY <1>6 DEF MarkDirty, ViewTypes
  <2>. QED  BY <1>6, <2>1 DEF MarkDirty, ViewTypes
<1>. QED  BY <1>1, <1>2, <1>3, <1>4, <1>5, <1>6 DEF CallbackMoves

\* A queue of one.
LEMMA LastOne ==
  ASSUME NEW S, NEW q \in Seq(S), q # << >>, Len(q) <= 1
  PROVE  Len(q) = 1 /\ q[1] \in S /\ Head(q) = q[1] /\ Tail(q) = << >>
<1>0. Len(q) \in Nat \ {0}
  OBVIOUS
<1>1. Len(q) = 1
  BY <1>0
<1>2. q[1] \in S /\ Head(q) = q[1]
  BY <1>1
<1>3. Tail(q) \in Seq(S) /\ Len(Tail(q)) = 0
  BY <1>1
<1>. QED  BY <1>1, <1>2, <1>3, EmptySeq

\* The render thread and the main thread.
LEMMA DrawingKeepsView ==
  ASSUME ViewInv, WorkerDraws \/ ApplyTexture
  PROVE  ViewInv'
<1>. ViewTypes /\ FlightInv /\ StoredInv /\ RenderInv
  BY DEF ViewInv
<1>. USE DEF ViewInv, FlightInv, StoredInv, RenderInv, RenderComes, Newest
<1>1. CASE TakeWake
  <2>1. ViewTypes'
    BY <1>1 DEF TakeWake, ViewTypes
  <2>. QED  BY <1>1, <2>1 DEF TakeWake
<1>2. CASE CheckInFlight
  <2>1. ViewTypes'
    BY <1>2 DEF CheckInFlight, ViewTypes, Waiting
  <2>. QED  BY <1>2, <2>1 DEF CheckInFlight, Waiting, ViewTypes
<1>3. CASE PostTexture
  <2>1. Drawn(worker.points, worker.view, stats) \in Textures /\ uiQueue = << >>
    BY <1>3 DEF PostTexture, Drawn, Textures, ViewTypes
  <2>2. uiQueue' \in Seq(Textures) /\ Len(uiQueue') = 1 /\ uiQueue' # << >>
        /\ uiQueue'[1] = Drawn(worker.points, worker.view, stats)
    BY <1>3, <2>1 DEF PostTexture
  <2>3. ViewTypes'
    BY <1>3, <2>2 DEF PostTexture, ViewTypes, Waiting
  <2>. QED  BY <1>3, <2>2, <2>3 DEF PostTexture, Waiting
<1>4. CASE ApplyTexture
  <2>1. Len(uiQueue) = 1 /\ uiQueue' = << >> /\ screen' = uiQueue[1] /\ screen' \in Textures
    BY <1>4, LastOne DEF ApplyTexture, ViewTypes
  <2>2. ViewTypes'
    <3>1. uiQueue' \in Seq(Textures)
      BY <2>1
    <3>. QED  BY <1>4, <2>1, <3>1 DEF ApplyTexture, ViewTypes
  <2>3. UNCHANGED <<points, stats, cameraView, rxNow, rx, ui, wake, worker, renderDropped, lateFrame>> /\ ~inFlight'
    BY <1>4 DEF ApplyTexture
  <2>4. FlightInv'
    BY <2>1, <2>3
  <2>5. StoredInv'
    BY <2>3
  <2>6. Newest' = Newest
    BY <2>1
  <2>7. RenderInv'
    BY <2>3, <2>6
  <2>. QED  BY <2>2, <2>4, <2>5, <2>7
<1>. QED  BY <1>1, <1>2, <1>3, <1>4 DEF WorkerDraws

\* The LiDAR tab comes to rest at the last frame and the last view, with the
\* statistics of that frame, unless a render was dropped or a frame crossed a
\* Start or a Stop; one texture at most waits.
THEOREM ViewComesToRest == ViewSpec => []ViewSettles
<1>1. ViewInit => ViewInv
  <2>. SUFFICES ASSUME ViewInit PROVE ViewInv
    OBVIOUS
  <2>1. screen \in Textures /\ screen = Drawn(0, 0, 0) /\ Drawn(0, 0, 0).points = 0
    BY DEF ViewInit, Textures, Drawn
  <2>2. rx \in [Receivers -> Threads] /\ \A r \in Receivers : rx[r].at = "new"
    BY DEF ViewInit, Threads
  <2>3. ViewTypes
    <3>1. uiQueue \in Seq(Textures)
      BY DEF ViewInit
    <3>. QED  BY <2>1, <2>2, <3>1 DEF ViewInit, ViewTypes, Waiting
  <2>4. FlightInv
    BY DEF ViewInit, FlightInv, Waiting
  <2>5. StoredInv /\ RenderInv
    BY <2>2 DEF ViewInit, StoredInv, RenderInv, RenderComes
  <2>. QED  BY <2>3, <2>4, <2>5 DEF ViewInv
<1>2. ViewInv /\ [ViewNext]_viewVars => ViewInv'
  <2>. SUFFICES ASSUME ViewInv, [ViewNext]_viewVars PROVE ViewInv'
    OBVIOUS
  <2>1. CASE UNCHANGED viewVars
    BY <2>1 DEF viewVars, ViewInv, ViewTypes, FlightInv, StoredInv, RenderInv, RenderComes, Newest
  <2>2. CASE ViewNext
    BY <2>2, ThreadsKeepView, ClicksKeepView, DrawingKeepsView DEF ViewNext
  <2>. QED  BY <2>1, <2>2
<1>3. ViewInv => ViewSettles
  BY DEF ViewInv, ViewTypes, FlightInv, StoredInv, RenderInv, RenderComes, Newest, ViewSettles, OneTexture, AtRest
<1>. QED  BY <1>1, <1>2, <1>3, PTL DEF ViewSpec

-----------------------------------------------------------------------------
(* SensorStreams.  The streams of the radar tab and of the monitor.        *)

StreamThreads == [at : {"new", "recv", "data", "failed", "error", "crashed", "ended"}, running : BOOLEAN]
StreamTypes ==
  /\ streamKind \in {"radar", "monitor"} /\ threads \in [ThreadIds -> StreamThreads]
  /\ thread \in ThreadIds \cup {0} /\ posted \in Seq({"data", "error"} \X ThreadIds)
  /\ streamRunning \in BOOLEAN /\ tab \in BOOLEAN /\ clicking \in BOOLEAN /\ hit \in BOOLEAN /\ supported \in BOOLEAN

\* Is an error of the thread on its way to the main thread?
ErrorComes(t) == \E i \in 1..Len(posted) : posted[i] = <<"error", t>>
StillUp(t) == ThreadAlive(t) \/ threads[t].at = "crashed" \/ ErrorComes(t)

\* What the panel holds was started, listens unless it failed, and is the only one
\* that does, for the monitor as long as no error met another thread.
HeldInv ==
  /\ \A t \in ThreadIds : threads[t].at = "new" => threads[t].running
  /\ thread # 0 => threads[thread].running /\ threads[thread].at # "new"
  /\ \A t \in ThreadIds : Listening(t) => t = thread \/ (Monitored /\ hit)
  /\ \A t \in ThreadIds : threads[t].at = "crashed" => ~supported
  /\ \A t \in ThreadIds : ErrorComes(t) => threads[t].at = "ended"
  /\ streamRunning <=> Monitored /\ thread # 0
  /\ Monitored /\ ~tab => thread = 0 /\ ~clicking
  /\ ~Monitored => tab /\ supported
\* The status says Running of a thread that runs, or whose error is on its way.
StatusInv == ~hit =>
  IF clicking THEN (Monitored \/ thread # 0) /\ (thread # 0 => StillUp(thread))
  ELSE /\ streamStatus = "Running" => thread # 0 /\ StillUp(thread)
       /\ thread # 0 /\ (ThreadAlive(thread) \/ threads[thread].at = "crashed") => streamStatus = "Running"
StreamInv == StreamTypes /\ HeldInv /\ StatusInv

\* An item that is posted.
LEMMA PostedMore ==
  ASSUME StreamTypes, NEW t \in ThreadIds, NEW what \in {"data", "error"}, posted' = Append(posted, <<what, t>>)
  PROVE  /\ posted' \in Seq({"data", "error"} \X ThreadIds)
         /\ \A u \in ThreadIds : ErrorComes(u)' <=> ErrorComes(u) \/ (what = "error" /\ u = t)
<1>1. <<what, t>> \in {"data", "error"} \X ThreadIds
  OBVIOUS
<1>2. /\ posted' \in Seq({"data", "error"} \X ThreadIds) /\ Len(posted) \in Nat /\ Len(posted') = Len(posted) + 1
      /\ posted'[Len(posted) + 1] = <<what, t>> /\ \A i \in 1..Len(posted) : posted'[i] = posted[i]
  BY <1>1 DEF StreamTypes
<1>3. ASSUME NEW u \in ThreadIds PROVE ErrorComes(u)' <=> ErrorComes(u) \/ (what = "error" /\ u = t)
  <2>1. ASSUME ErrorComes(u) PROVE ErrorComes(u)'
    <3>1. PICK i \in 1..Len(posted) : posted[i] = <<"error", u>>
      BY <2>1 DEF ErrorComes
    <3>2. i \in 1..Len(posted') /\ posted'[i] = <<"error", u>>
      BY <1>2, <3>1
    <3>. QED  BY <3>2 DEF ErrorComes
  <2>2. ASSUME what = "error", u = t PROVE ErrorComes(u)'
    BY <1>2, <2>2 DEF ErrorComes
  <2>3. ASSUME ErrorComes(u)' PROVE ErrorComes(u) \/ (what = "error" /\ u = t)
    <3>1. PICK i \in 1..Len(posted') : posted'[i] = <<"error", u>>
      BY <2>3 DEF ErrorComes
    <3>. QED  BY <1>2, <3>1 DEF ErrorComes
  <2>. QED  BY <2>1, <2>2, <2>3
<1>. QED  BY <1>2, <1>3

\* The item that is applied.
LEMMA PostedLess ==
  ASSUME StreamTypes, posted # << >>, posted' = Tail(posted)
  PROVE  /\ posted' \in Seq({"data", "error"} \X ThreadIds) /\ Head(posted) \in {"data", "error"} \X ThreadIds
         /\ \A u \in ThreadIds : ErrorComes(u)' => ErrorComes(u)
         /\ \A u \in ThreadIds : ErrorComes(u) /\ Head(posted) # <<"error", u>> => ErrorComes(u)'
         /\ Head(posted)[1] = "error" => ErrorComes(Head(posted)[2])
<1>1. /\ posted' \in Seq({"data", "error"} \X ThreadIds) /\ Head(posted) \in {"data", "error"} \X ThreadIds
      /\ Len(posted) \in Nat \ {0} /\ Len(posted') = Len(posted) - 1 /\ Head(posted) = posted[1]
      /\ \A i \in 1..Len(posted') : posted'[i] = posted[i + 1]
  BY DEF StreamTypes
<1>2. ASSUME NEW u \in ThreadIds, ErrorComes(u)' PROVE ErrorComes(u)
  <2>1. PICK i \in 1..Len(posted') : posted'[i] = <<"error", u>>
    BY <1>2 DEF ErrorComes
  <2>2. i + 1 \in 1..Len(posted) /\ posted[i + 1] = <<"error", u>>
    BY <1>1, <2>1
  <2>. QED  BY <2>2 DEF ErrorComes
<1>3. ASSUME NEW u \in ThreadIds, ErrorComes(u), Head(posted) # <<"error", u>> PROVE ErrorComes(u)'
  <2>1. PICK i \in 1..Len(posted) : posted[i] = <<"error", u>>
    BY <1>3 DEF ErrorComes
  <2>2. i # 1 /\ i - 1 \in 1..Len(posted') /\ posted'[i - 1] = <<"error", u>>
    BY <1>1, <1>3, <2>1
  <2>. QED  BY <2>2 DEF ErrorComes
<1>4. ASSUME Head(posted)[1] = "error" PROVE ErrorComes(Head(posted)[2])
  <2>1. posted[1] = <<"error", Head(posted)[2]>> /\ 1 \in 1..Len(posted)
    BY <1>1, <1>4
  <2>. QED  BY <2>1 DEF ErrorComes
<1>. QED  BY <1>1, <1>2, <1>3, <1>4

\* The thread the panel holds is told to stop.
LEMMA HeldStopped ==
  ASSUME StreamTypes, StopHeld
  PROVE  /\ threads' \in [ThreadIds -> StreamThreads]
         /\ \A t \in ThreadIds : threads'[t].at = threads[t].at
              /\ (t = thread => ~threads'[t].running) /\ (t # thread => threads'[t].running = threads[t].running)
<1>0. 0 \notin ThreadIds
  BY DEF ThreadIds
<1>1. CASE thread = 0
  BY <1>0, <1>1 DEF StopHeld, StreamTypes
<1>2. CASE thread \in ThreadIds
  <2>1. threads' = [threads EXCEPT ![thread] = [threads[thread] EXCEPT !.running = FALSE]]
    BY <1>0, <1>2 DEF StopHeld
  <2>2. [threads[thread] EXCEPT !.running = FALSE] \in StreamThreads
    BY <1>2 DEF StreamTypes, StreamThreads
  <2>. QED  BY <1>2, <2>1, <2>2 DEF StreamTypes, StreamThreads
<1>. QED  BY <1>1, <1>2 DEF StreamTypes

\* The callback thread.
LEMMA StreamClicksKeep ==
  ASSUME StreamInv, StreamClicks
  PROVE  StreamInv'
<1>. StreamTypes /\ HeldInv /\ StatusInv
  BY DEF StreamInv
<1>. USE DEF Monitored
<1>1. CASE StartFails
  <2>. UNCHANGED <<streamKind, supported, threads, thread, streamRunning, tab, clicking, posted, hit>> /\ streamStatus' # "Running" /\ ~clicking /\ MayStart
    BY <1>1 DEF StartFails
  <2>1. StreamTypes' /\ HeldInv'
    BY DEF StreamTypes, HeldInv, Listening, ThreadAlive, ErrorComes
  <2>2. StatusInv'
    BY DEF StreamTypes, HeldInv, StatusInv, StillUp, ThreadAlive, MayStart
  <2>. QED  BY <2>1, <2>2 DEF StreamInv
<1>2. CASE StartStream
  <2>1. PICK t \in ThreadIds : threads[t].at = "new" /\ threads' = [threads EXCEPT ![t].at = "recv"] /\ thread' = t
    BY <1>2 DEF StartStream
  <2>2. UNCHANGED <<streamKind, supported, tab, posted, hit>> /\ ~clicking /\ clicking' = TRUE /\ MayStart /\ streamRunning' = Monitored
    BY <1>2 DEF StartStream
  <2>3. threads' \in [ThreadIds -> StreamThreads] /\ threads'[t].at = "recv" /\ threads'[t].running = threads[t].running
        /\ (\A u \in ThreadIds : u # t => threads'[u] = threads[u]) /\ t # 0
    BY <2>1 DEF StreamTypes, StreamThreads, ThreadIds
  <2>4. StreamTypes'
    BY <2>1, <2>2, <2>3 DEF StreamTypes
  <2>5. StatusInv'
    BY <2>1, <2>2, <2>3 DEF StatusInv, StillUp, ThreadAlive
  <2>6. \A u \in ThreadIds : u # t => ~Listening(u) \/ (Monitored /\ hit)
    <3>1. CASE Monitored
      BY <2>2, <3>1 DEF HeldInv, MayStart, ThreadIds
    <3>2. CASE ~Monitored
      BY <2>2, <3>2 DEF HeldInv, MayStart, Listening
    <3>. QED  BY <3>1, <3>2
  <2>7. \A u \in ThreadIds : (ErrorComes(u)' <=> ErrorComes(u)) /\ (u # t => (Listening(u)' <=> Listening(u)))
    BY <2>2, <2>3 DEF ErrorComes, Listening, ThreadAlive
  <2>8. HeldInv'
    BY <2>1, <2>2, <2>3, <2>6, <2>7 DEF HeldInv, StreamTypes, MayStart
  <2>. QED  BY <2>4, <2>5, <2>8 DEF StreamInv
<1>3. CASE ShowStarted
  <2>. UNCHANGED <<streamKind, supported, threads, thread, streamRunning, tab, posted, hit>> /\ clicking /\ ~clicking'
       /\ streamStatus' = IF ~Monitored \/ streamRunning THEN "Running" ELSE "Stopped"
    BY <1>3 DEF ShowStarted
  <2>0. clicking' \in BOOLEAN
    BY <1>3 DEF ShowStarted
  <2>1. StreamTypes' /\ HeldInv'
    BY <2>0 DEF StreamTypes, HeldInv, Listening, ThreadAlive, ErrorComes
  <2>2. StatusInv'
    BY DEF StreamTypes, HeldInv, StatusInv, StillUp, ThreadAlive, ErrorComes
  <2>. QED  BY <2>1, <2>2 DEF StreamInv
<1>4. ASSUME StopHeld, thread' = 0, streamRunning' = FALSE, streamStatus' = "Stopped", hit' \in BOOLEAN, Monitored => hit' = hit,
             tab' \in {tab, FALSE}, tab' # tab => Monitored,
             UNCHANGED <<streamKind, supported, clicking, posted>>, ~clicking
      PROVE  StreamInv'
  <2>1. threads' \in [ThreadIds -> StreamThreads]
        /\ \A t \in ThreadIds : threads'[t].at = threads[t].at
             /\ (t = thread => ~threads'[t].running) /\ (t # thread => threads'[t].running = threads[t].running)
    BY <1>4, HeldStopped
  <2>2. StreamTypes'
    BY <1>4, <2>1 DEF StreamTypes
  <2>3. \A t \in ThreadIds : (Listening(t)' <=> Listening(t) /\ t # thread) /\ (ErrorComes(t)' <=> ErrorComes(t))
    BY <1>4, <2>1 DEF Listening, ThreadAlive, ErrorComes
  <2>4. \A t \in ThreadIds : threads'[t].at = "new" => threads'[t].running
    <3>. SUFFICES ASSUME NEW t \in ThreadIds, threads'[t].at = "new" PROVE threads'[t].running
      OBVIOUS
    <3>1. threads[t].at = "new" /\ threads[t].running /\ t # 0
      BY <2>1 DEF HeldInv, ThreadIds
    <3>2. t # thread
      BY <3>1 DEF HeldInv
    <3>. QED  BY <2>1, <3>1, <3>2
  <2>5. \A t \in ThreadIds : Listening(t)' => t = thread' \/ (Monitored' /\ hit')
    BY <1>4, <2>3 DEF HeldInv
  <2>6. /\ \A t \in ThreadIds : threads'[t].at = "crashed" => ~supported'
        /\ \A t \in ThreadIds : ErrorComes(t)' => threads'[t].at = "ended"
    BY <1>4, <2>1, <2>3 DEF HeldInv
  <2>7. (Monitored' /\ ~tab' => thread' = 0 /\ ~clicking') /\ (~Monitored' => tab' /\ supported')
    BY <1>4 DEF HeldInv
  <2>8. HeldInv'
    BY <1>4, <2>4, <2>5, <2>6, <2>7 DEF HeldInv
  <2>. QED  BY <1>4, <2>2, <2>8 DEF StreamInv, StatusInv
<1>5. CASE StopStream
  BY <1>4, <1>5 DEF StopStream, StreamTypes
<1>6. CASE CloseTab
  BY <1>4, <1>6 DEF CloseTab, StreamTypes
<1>. QED  BY <1>1, <1>2, <1>3, <1>5, <1>6 DEF StreamClicks

\* A receive thread goes from one step to another: it goes on, or ends.
LEMMA StreamThreadMoves ==
  ASSUME StreamInv, NEW t \in ThreadIds, NEW here, NEW there,
         ThreadTo(t, here, there), here \in {"recv", "data", "failed", "error"},
         there \in {"recv", "data", "failed", "error", "crashed", "ended"},
         there = "crashed" => ~supported, here = "failed" => there = IF threads[t].running THEN "error" ELSE "ended",
         there = "ended" => ~threads[t].running \/ here = "error",
         here = "error" => there = "ended" /\ posted' = Append(posted, <<"error", t>>),
         here # "error" => posted' = posted \/ posted' = Append(posted, <<"data", t>>),
         UNCHANGED <<streamKind, supported, thread, streamRunning, tab, streamStatus, clicking, hit>>
  PROVE  StreamInv'
<1>. StreamTypes /\ HeldInv /\ StatusInv
  BY DEF StreamInv
<1>. USE DEF Monitored
<1>1. threads[t].at = here /\ threads' = [threads EXCEPT ![t].at = there] /\ 0 \notin ThreadIds
  BY DEF ThreadTo, ThreadIds
<1>2. [threads[t] EXCEPT !.at = there] \in StreamThreads
  BY DEF StreamTypes, StreamThreads
<1>3. /\ threads' \in [ThreadIds -> StreamThreads] /\ threads'[t].at = there /\ threads'[t].running = threads[t].running
      /\ \A u \in ThreadIds : u # t => threads'[u] = threads[u]
  BY <1>1, <1>2 DEF StreamTypes, StreamThreads
<1>4. /\ posted' \in Seq({"data", "error"} \X ThreadIds)
      /\ \A u \in ThreadIds : ErrorComes(u)' <=> ErrorComes(u) \/ (here = "error" /\ u = t)
  <2>1. CASE here = "error"
    BY <2>1, PostedMore
  <2>2. CASE here # "error" /\ posted' = posted
    BY <2>2 DEF StreamTypes, ErrorComes
  <2>3. CASE here # "error" /\ posted' = Append(posted, <<"data", t>>)
    BY <2>3, PostedMore
  <2>. QED  BY <2>1, <2>2, <2>3
<1>5. StreamTypes'
  BY <1>3, <1>4 DEF StreamTypes
<1>6. ~ErrorComes(t)
  BY <1>1 DEF HeldInv
<1>7. \A u \in ThreadIds : Listening(u)' => Listening(u)
  BY <1>1, <1>3 DEF Listening, ThreadAlive
<1>8. HeldInv'
  <2>1. /\ \A u \in ThreadIds : threads'[u].at = "new" => threads'[u].running
        /\ \A u \in ThreadIds : threads'[u].at = "crashed" => ~supported'
    BY <1>3 DEF HeldInv
  <2>2. thread' # 0 => threads'[thread'].running /\ threads'[thread'].at # "new"
    BY <1>3 DEF HeldInv, StreamTypes
  <2>3. \A u \in ThreadIds : Listening(u)' => u = thread' \/ (Monitored' /\ hit')
    BY <1>7 DEF HeldInv
  <2>4. \A u \in ThreadIds : ErrorComes(u)' => threads'[u].at = "ended"
    BY <1>3, <1>4, <1>6 DEF HeldInv
  <2>. QED  BY <2>1, <2>2, <2>3, <2>4 DEF HeldInv
<1>9. thread = t => StillUp(t)' /\ ThreadAlive(t)
  BY <1>1, <1>3, <1>4 DEF HeldInv, StillUp, ThreadAlive
<1>10. thread # t /\ thread # 0 => (StillUp(thread)' <=> StillUp(thread)) /\ threads'[thread] = threads[thread]
  BY <1>3, <1>4 DEF StreamTypes, StillUp, ThreadAlive
<1>11. StatusInv'
  <2>1. CASE thread = t
    BY <1>1, <1>9, <2>1 DEF StatusInv
  <2>2. CASE thread # t
    BY <1>10, <2>2 DEF StatusInv, ThreadAlive
  <2>. QED  BY <2>1, <2>2
<1>. QED  BY <1>5, <1>8, <1>11 DEF StreamInv

\* Every step of a receive thread is such a move.
LEMMA ThreadRunsKeep ==
  ASSUME StreamInv, NEW t \in ThreadIds, ThreadRuns(t)
  PROVE  StreamInv'
<1>1. CASE PacketComes(t)
  BY <1>1, StreamThreadMoves DEF PacketComes
<1>2. CASE HandOverPacket(t)
  BY <1>2, StreamThreadMoves DEF HandOverPacket
<1>3. CASE ReceiveFails(t)
  BY <1>3, StreamThreadMoves DEF ReceiveFails
<1>4. CASE CheckFailure(t)
  BY <1>4, StreamThreadMoves DEF CheckFailure
<1>5. CASE PostError(t)
  BY <1>5, StreamThreadMoves DEF PostError
<1>. QED  BY <1>1, <1>2, <1>3, <1>4, <1>5 DEF ThreadRuns

\* The main thread.
LEMMA ApplyPacketKeeps ==
  ASSUME StreamInv, ApplyPacket
  PROVE  StreamInv'
<1>. StreamTypes /\ HeldInv /\ StatusInv
  BY DEF StreamInv
<1>1. posted # << >> /\ posted' = Tail(posted) /\ Head(posted)[1] = "data"
      /\ UNCHANGED <<streamKind, supported, threads, thread, streamRunning, tab, streamStatus, clicking, hit>>
  BY DEF ApplyPacket
<1>2. posted' \in Seq({"data", "error"} \X ThreadIds) /\ \A u \in ThreadIds : ErrorComes(u)' <=> ErrorComes(u)
  <2>1. \A u \in ThreadIds : Head(posted) # <<"error", u>>
    BY <1>1
  <2>. QED  BY <1>1, <2>1, PostedLess
<1>3. StreamTypes'
  BY <1>1, <1>2 DEF StreamTypes
<1>4. HeldInv'
  BY <1>1, <1>2 DEF HeldInv, Listening, ThreadAlive, Monitored
<1>5. thread # 0 => (StillUp(thread)' <=> StillUp(thread))
  BY <1>1, <1>2 DEF StillUp, ThreadAlive, StreamTypes
<1>6. StatusInv'
  BY <1>1, <1>5 DEF StatusInv, Monitored, ThreadAlive
<1>. QED  BY <1>3, <1>4, <1>6 DEF StreamInv

\* The radar stops whatever stream it has.
LEMMA RadarErrorKeeps ==
  ASSUME StreamInv, RadarError
  PROVE  StreamInv'
<1>. StreamTypes /\ HeldInv /\ StatusInv
  BY DEF StreamInv
<1>1. /\ ~Monitored /\ ~Monitored' /\ posted # << >> /\ posted' = Tail(posted) /\ StopHeld /\ thread' = 0 /\ streamStatus' = "RX error"
      /\ hit' = (hit \/ (tab /\ thread \notin {0, Head(posted)[2]}) \/ (clicking /\ ~Monitored))
      /\ UNCHANGED <<streamKind, supported, streamRunning, tab, clicking>>
  BY DEF RadarError, Hits, Monitored
<1>2. /\ threads' \in [ThreadIds -> StreamThreads]
      /\ \A t \in ThreadIds : threads'[t].at = threads[t].at
           /\ (t = thread => ~threads'[t].running) /\ (t # thread => threads'[t].running = threads[t].running)
  BY <1>1, HeldStopped
<1>3. posted' \in Seq({"data", "error"} \X ThreadIds) /\ \A u \in ThreadIds : ErrorComes(u)' => ErrorComes(u)
  BY <1>1, PostedLess
<1>4. hit' \in BOOLEAN
  BY <1>1
<1>5. StreamTypes'
  BY <1>1, <1>2, <1>3, <1>4 DEF StreamTypes
<1>6. HeldInv'
  <2>1. \A u \in ThreadIds : ~Listening(u)'
    BY <1>1, <1>2 DEF HeldInv, Listening, ThreadAlive
  <2>2. \A u \in ThreadIds : threads'[u].at = "new" => threads'[u].running
    <3>. SUFFICES ASSUME NEW u \in ThreadIds, threads'[u].at = "new" PROVE threads'[u].running
      OBVIOUS
    <3>1. threads[u].at = "new" /\ threads[u].running /\ u # 0
      BY <1>2 DEF HeldInv, ThreadIds
    <3>2. u # thread
      BY <3>1 DEF HeldInv
    <3>. QED  BY <1>2, <3>1, <3>2
  <2>3. /\ \A u \in ThreadIds : threads'[u].at = "crashed" => ~supported'
        /\ \A u \in ThreadIds : ErrorComes(u)' => threads'[u].at = "ended"
    BY <1>1, <1>2, <1>3 DEF HeldInv
  <2>4. streamRunning' <=> Monitored' /\ thread' # 0
    BY <1>1 DEF HeldInv
  <2>5. ~Monitored' => tab' /\ supported'
    BY <1>1 DEF HeldInv
  <2>. QED  BY <1>1, <2>1, <2>2, <2>3, <2>4, <2>5 DEF HeldInv
<1>7. StatusInv'
  BY <1>1 DEF StatusInv
<1>. QED  BY <1>5, <1>6, <1>7 DEF StreamInv

\* The monitor forgets whatever stream it has: another one that listens is a hit.
LEMMA MonitorErrorKeeps ==
  ASSUME StreamInv, MonitorError
  PROVE  StreamInv'
<1>. StreamTypes /\ HeldInv /\ StatusInv
  BY DEF StreamInv
<1>. DEFINE failed == Head(posted)[2]
<1>1. /\ Monitored /\ Monitored' /\ posted # << >> /\ posted' = Tail(posted) /\ Head(posted)[1] = "error"
      /\ thread' = (IF tab THEN 0 ELSE thread) /\ streamRunning' = FALSE /\ streamStatus' = "Stopped"
      /\ hit' = (hit \/ (tab /\ thread \notin {0, failed}) \/ (clicking /\ ~Monitored))
      /\ UNCHANGED <<streamKind, supported, threads, tab, clicking>>
  BY DEF MonitorError, Hits, Monitored
<1>2. thread' = 0 /\ 0 \notin ThreadIds
  BY <1>1 DEF HeldInv, ThreadIds
<1>3. /\ posted' \in Seq({"data", "error"} \X ThreadIds) /\ \A u \in ThreadIds : ErrorComes(u)' => ErrorComes(u)
      /\ ErrorComes(failed) /\ failed \in ThreadIds
  BY <1>1, PostedLess
<1>4. hit' \in BOOLEAN
  BY <1>1
<1>5. StreamTypes'
  BY <1>1, <1>2, <1>3, <1>4 DEF StreamTypes
<1>6. HeldInv'
  <2>1. ASSUME NEW u \in ThreadIds, Listening(u)' PROVE hit'
    <3>1. Listening(u) /\ u # failed /\ u # 0
      BY <1>1, <1>2, <1>3, <2>1 DEF HeldInv, Listening, ThreadAlive
    <3>2. u = thread \/ hit
      BY <3>1 DEF HeldInv
    <3>3. CASE u = thread
      <4>1. tab
        BY <1>1, <3>1, <3>3 DEF HeldInv
      <4>. QED  BY <1>1, <3>1, <3>3, <4>1
    <3>. QED  BY <1>1, <3>2, <3>3
  <2>2. /\ \A u \in ThreadIds : threads'[u].at = "new" => threads'[u].running
        /\ \A u \in ThreadIds : threads'[u].at = "crashed" => ~supported'
    BY <1>1 DEF HeldInv
  <2>3. \A u \in ThreadIds : ErrorComes(u)' => threads'[u].at = "ended"
    BY <1>1, <1>3 DEF HeldInv
  <2>4. Monitored' /\ ~tab' => thread' = 0 /\ ~clicking'
    BY <1>1, <1>2 DEF HeldInv
  <2>5. streamRunning' <=> Monitored' /\ thread' # 0
    BY <1>1, <1>2
  <2>. QED  BY <1>1, <1>2, <2>1, <2>2, <2>3, <2>4, <2>5 DEF HeldInv
<1>7. StatusInv'
  BY <1>1, <1>2 DEF StatusInv
<1>. QED  BY <1>5, <1>6, <1>7 DEF StreamInv

\* Nothing runs at first.
LEMMA StreamStart == StreamInit => StreamInv
<1>. SUFFICES ASSUME StreamInit PROVE StreamInv
  OBVIOUS
<1>1. [at |-> "new", running |-> TRUE] \in StreamThreads
  BY DEF StreamThreads
<1>2. threads \in [ThreadIds -> StreamThreads]
  BY <1>1 DEF StreamInit
<1>3. posted \in Seq({"data", "error"} \X ThreadIds) /\ Len(posted) = 0
  BY DEF StreamInit
<1>4. StreamTypes
  BY <1>2, <1>3 DEF StreamInit, StreamTypes
<1>5. \A t \in ThreadIds : ~ErrorComes(t) /\ ~Listening(t) /\ threads[t].at = "new" /\ threads[t].running
  BY <1>3 DEF StreamInit, ErrorComes, Listening, ThreadAlive
<1>6. HeldInv /\ StatusInv
  BY <1>5 DEF StreamInit, HeldInv, StatusInv, Monitored
<1>. QED  BY <1>4, <1>6 DEF StreamInv

\* The status of a stream is that of its thread, and no forgotten thread listens
\* (_start, _stop and _on_error of the radar tab, _on_start, _on_stop and
\* _on_thread_error of the monitor).
LEMMA StreamsStayTrue == StreamSpec => []StreamsTrue
<1>1. StreamInv => StreamsTrue
  <2>. SUFFICES ASSUME StreamInv, Settled PROVE StreamsTrue
    BY DEF StreamsTrue
  <2>1. \A t \in ThreadIds : ~ErrorComes(t)
    BY DEF StreamInv, StreamTypes, Settled, ErrorComes
  <2>2. thread # 0 => thread \in ThreadIds /\ (StillUp(thread) <=> ThreadAlive(thread) \/ threads[thread].at = "crashed")
    BY <2>1 DEF StreamInv, StreamTypes, StillUp
  <2>3. ~hit => (streamStatus = "Running" <=> thread # 0 /\ (ThreadAlive(thread) \/ threads[thread].at = "crashed"))
    BY <2>2 DEF StreamInv, StatusInv, Settled
  <2>. QED  BY <2>3 DEF StreamInv, HeldInv, StreamsTrue
<1>2. StreamInv /\ [StreamNext]_streamVars => StreamInv'
  <2>. SUFFICES ASSUME StreamInv, [StreamNext]_streamVars PROVE StreamInv'
    OBVIOUS
  <2>1. CASE StreamClicks
    BY <2>1, StreamClicksKeep
  <2>2. CASE \E t \in ThreadIds : ThreadRuns(t)
    BY <2>2, ThreadRunsKeep
  <2>3. CASE ApplyPacket \/ RadarError \/ MonitorError
    BY <2>3, ApplyPacketKeeps, RadarErrorKeeps, MonitorErrorKeeps
  <2>4. CASE UNCHANGED streamVars
    <3>1. StreamTypes' /\ HeldInv' /\ StatusInv'
      BY <2>4 DEF streamVars, StreamInv, StreamTypes, HeldInv, StatusInv, StillUp, Listening, ThreadAlive, ErrorComes, Monitored
    <3>. QED  BY <3>1 DEF StreamInv
  <2>. QED  BY <2>1, <2>2, <2>3, <2>4 DEF StreamNext
<1>. QED  BY <1>1, <1>2, StreamStart, PTL DEF StreamSpec

-----------------------------------------------------------------------------
(* CameraSlots.  The slots of the camera tab.                              *)

SlotTypes ==
  /\ sensor \in {"depth", "drains"} /\ receiver \in SlotThreads \cup {0}
  /\ rxAt \in [SlotThreads -> {"new", "bind", "recv", "burst", "callback", "fps", "post", "gone"}]
  /\ rxOn \in [SlotThreads -> BOOLEAN] /\ taken \in [SlotThreads -> Nat]
  /\ click \in {"idle", "starting", "blank", "texts"} /\ toShow \in Seq(SlotThreads)
  /\ showing \in SlotThreads \cup {0} /\ unbound \subseteq SlotThreads /\ stray \in BOOLEAN

\* A picture that is half shown is the slot's, and a slot that is started or
\* stopped is blank before its texts are.
PictureInv == ~stray =>
  /\ click = "idle" =>
       /\ texture \in {0, receiver}
       /\ IF showing # 0 THEN showing = receiver /\ texture = showing ELSE label = texture
  /\ click \in {"starting", "texts"} => showing = 0 /\ texture = 0
\* A receiver that will listen is the slot's, and a depth receiver that took a
\* datagram after stop() takes no other.
ReceiverInv == \A r \in SlotThreads :
  /\ rxAt[r] = "bind" \/ rxOn[r] => r = receiver \/ r \in unbound
  /\ sensor = "depth" /\ r \notin unbound /\ taken[r] # 0 =>
       taken[r] = 1 /\ ~rxOn[r] /\ rxAt[r] \in {"callback", "fps", "post", "gone"}
SlotInv == SlotTypes /\ PictureInv /\ ReceiverInv

\* The callback thread and the main thread.
LEMMA SlotClicksKeep ==
  ASSUME SlotInv, StartSlot \/ ShowRunning \/ StopSlot \/ BlankTexture \/ BlankTexts \/ ApplyTextureOf \/ ApplyTexts
  PROVE  SlotInv'
<1>. SlotTypes /\ PictureInv /\ ReceiverInv
  BY DEF SlotInv
<1>1. CASE StartSlot
  <2>1. SlotTypes'
    BY <1>1 DEF StartSlot, SlotTypes
  <2>. QED  BY <1>1, <2>1 DEF StartSlot, SlotInv, SlotTypes, PictureInv, ReceiverInv
<1>2. CASE ShowRunning
  <2>1. SlotTypes'
    BY <1>2 DEF ShowRunning, SlotTypes
  <2>. QED  BY <1>2, <2>1 DEF ShowRunning, SlotInv, SlotTypes, PictureInv, ReceiverInv
<1>3. CASE StopSlot
  <2>1. rxOn' \in [SlotThreads -> BOOLEAN] /\ \A r \in SlotThreads : rxOn'[r] => rxOn[r] /\ r # receiver
    BY <1>3 DEF StopSlot, SlotTypes
  <2>2. SlotTypes'
    BY <1>3, <2>1 DEF StopSlot, SlotTypes
  <2>3. ReceiverInv'
    BY <1>3, <2>1 DEF StopSlot, SlotTypes, ReceiverInv
  <2>. QED  BY <1>3, <2>2, <2>3 DEF StopSlot, SlotInv, PictureInv
<1>4. CASE BlankTexture
  <2>1. SlotTypes'
    BY <1>4 DEF BlankTexture, SlotTypes
  <2>. QED  BY <1>4, <2>1 DEF BlankTexture, SlotInv, SlotTypes, PictureInv, ReceiverInv
<1>5. CASE BlankTexts
  <2>1. SlotTypes'
    BY <1>5 DEF BlankTexts, SlotTypes
  <2>. QED  BY <1>5, <2>1 DEF BlankTexts, SlotInv, SlotTypes, PictureInv, ReceiverInv
<1>6. CASE ApplyTextureOf
  <2>0. 0 \notin SlotThreads
    BY DEF SlotThreads
  <2>1. Head(toShow) \in SlotThreads /\ Tail(toShow) \in Seq(SlotThreads)
    BY <1>6 DEF ApplyTextureOf, SlotTypes
  <2>2. SlotTypes'
    BY <1>6, <2>1 DEF ApplyTextureOf, SlotTypes
  <2>. QED  BY <1>6, <2>0, <2>1, <2>2 DEF ApplyTextureOf, SlotInv, SlotTypes, PictureInv, ReceiverInv
<1>7. CASE ApplyTexts
  <2>1. SlotTypes'
    BY <1>7 DEF ApplyTexts, SlotTypes
  <2>. QED  BY <1>7, <2>1 DEF ApplyTexts, SlotInv, SlotTypes, PictureInv, ReceiverInv
<1>. QED  BY <1>1, <1>2, <1>3, <1>4, <1>5, <1>6, <1>7

\* The receive threads.
LEMMA SlotThreadsKeep ==
  ASSUME SlotInv, NEW r \in SlotThreads, SlotThreadStep(r)
  PROVE  SlotInv'
<1>. SlotTypes /\ PictureInv /\ ReceiverInv
  BY DEF SlotInv
<1>. USE DEF RxMoves, Onwards
<1>0. PictureInv'
  BY DEF SlotThreadStep, BindSlot, BindSlotFails, TakeDatagram, SkipPicture, ReadReceiver, ReadFps, PostPicture,
    LookAtFlag, PictureInv
<1>1. CASE BindSlot(r)
  <2>1. SlotTypes'
    BY <1>1 DEF BindSlot, SlotTypes
  <2>. QED  BY <1>0, <1>1, <2>1 DEF BindSlot, SlotInv, SlotTypes, ReceiverInv
<1>2. CASE BindSlotFails(r)
  <2>1. SlotTypes'
    BY <1>2 DEF BindSlotFails, SlotTypes
  <2>. QED  BY <1>0, <1>2, <2>1 DEF BindSlotFails, SlotInv, SlotTypes, ReceiverInv
<1>3. CASE TakeDatagram(r)
  <2>1. SlotTypes'
    BY <1>3 DEF TakeDatagram, SlotTypes
  <2>. QED  BY <1>0, <1>3, <2>1 DEF TakeDatagram, SlotInv, SlotTypes, ReceiverInv
<1>4. CASE SkipPicture(r)
  <2>1. SlotTypes'
    BY <1>4 DEF SkipPicture, SlotTypes
  <2>. QED  BY <1>0, <1>4, <2>1 DEF SkipPicture, SlotInv, SlotTypes, ReceiverInv
<1>5. CASE ReadReceiver(r)
  <2>1. SlotTypes'
    BY <1>5 DEF ReadReceiver, SlotTypes
  <2>. QED  BY <1>0, <1>5, <2>1 DEF ReadReceiver, SlotInv, SlotTypes, ReceiverInv
<1>6. CASE ReadFps(r)
  <2>1. SlotTypes'
    BY <1>6 DEF ReadFps, SlotTypes
  <2>. QED  BY <1>0, <1>6, <2>1 DEF ReadFps, SlotInv, SlotTypes, ReceiverInv
<1>7. CASE PostPicture(r)
  <2>1. toShow' \in Seq(SlotThreads)
    BY <1>7 DEF PostPicture, SlotTypes
  <2>2. SlotTypes'
    BY <1>7, <2>1 DEF PostPicture, SlotTypes
  <2>. QED  BY <1>0, <1>7, <2>2 DEF PostPicture, SlotInv, SlotTypes, ReceiverInv
<1>8. CASE LookAtFlag(r)
  <2>1. SlotTypes'
    BY <1>8 DEF LookAtFlag, SlotTypes
  <2>. QED  BY <1>0, <1>8, <2>1 DEF LookAtFlag, SlotInv, SlotTypes, ReceiverInv
<1>. QED  BY <1>1, <1>2, <1>3, <1>4, <1>5, <1>6, <1>7, <1>8 DEF SlotThreadStep

\* A slot shows pictures of its own receiver, and a stopped receiver takes one
\* datagram more at most, or runs for good when it was stopped too early.
LEMMA SlotsStayTrue == SlotSpec => []SlotsTrue
<1>1. SlotInit => SlotInv
  <2>. SUFFICES ASSUME SlotInit PROVE SlotInv
    OBVIOUS
  <2>1. toShow \in Seq(SlotThreads)
    BY DEF SlotInit
  <2>2. SlotTypes
    BY <2>1 DEF SlotInit, SlotTypes
  <2>3. PictureInv /\ ReceiverInv
    BY DEF SlotInit, PictureInv, ReceiverInv
  <2>. QED  BY <2>2, <2>3 DEF SlotInv
<1>2. SlotInv /\ [SlotNext]_slotVars => SlotInv'
  <2>. SUFFICES ASSUME SlotInv, [SlotNext]_slotVars PROVE SlotInv'
    OBVIOUS
  <2>1. CASE UNCHANGED slotVars
    BY <2>1 DEF slotVars, SlotInv, SlotTypes, PictureInv, ReceiverInv
  <2>2. CASE SlotNext
    BY <2>2, SlotClicksKeep, SlotThreadsKeep DEF SlotNext
  <2>. QED  BY <2>1, <2>2
<1>3. SlotInv => SlotsTrue
  BY DEF SlotInv, SlotTypes, PictureInv, ReceiverInv, SlotsTrue, SlotShowsItsOwn, StopBites
<1>. QED  BY <1>1, <1>2, <1>3, PTL DEF SlotSpec

-----------------------------------------------------------------------------
(* GuiLogin.  Login, logout and launch; the hash of the machine.           *)

LoginTexts == {"Error", "Code", "Force", "LoggedIn", "Restored", "Expired", "Starting", "Launched"}
Jobs == {"none", "login", "verify", "restore", "start", "launch", "resolve", "keep"}
LoginTypes ==
  /\ view \in {"login", "main"} /\ remember \in BOOLEAN /\ config \in BOOLEAN /\ file \in BOOLEAN
  /\ login \in Nat /\ force \in BOOLEAN /\ tokens \in BOOLEAN
  /\ pressed \in Seq(Buttons) /\ posts \in Seq(LoginTexts)
  /\ hand \in [at : {"idle", "login", "verify", "start", "logout"}, of : Nat, remember : BOOLEAN]
  /\ job \in [at : Jobs, of : Nat, remember : BOOLEAN]
  /\ unsaved \in BOOLEAN /\ logins \in Nat /\ crossed \in BOOLEAN

\* Is a text on its way to the main thread?
Coming(text) == \E i \in 1..Len(posts) : posts[i] = text
OfLogin == {"login", "verify"}
OfMain == {"start", "logout"}
Waits(buttons) == \E i \in 1..Len(pressed) : pressed[i] \in buttons

\* The main window has tokens until a logout, which meets no worker and no post;
\* a file not remembered is announced; and a Verify is for the login of now.
TokensInv ==
  /\ view = "main" /\ hand.at # "logout" => tokens
  /\ Coming("LoggedIn") \/ Coming("Restored") \/ At("keep") => tokens
  /\ hand.at = "logout" => At("none") /\ posts = << >> /\ ~tokens
  /\ file => config \/ Coming("LoggedIn") \/ unsaved
VerifyInv ==
  /\ force /\ login # 0 => login \in refused
  /\ At("verify") => job.of # 0 /\ (job.of = login \/ (login = 0 /\ ~force))
  /\ hand.at = "verify" => hand.of # 0
\* A launch starts from the main window, and the text that says so is followed by
\* one that says how it ended.
StartInv ==
  /\ hand.at = "start" \/ At("start") \/ At("launch") \/ Coming("Starting") \/ launchText = "Starting" => view = "main"
  /\ launchText = "Starting" => At("launch") \/ Coming("Launched") \/ Coming("Error")
  /\ \A i \in 1..Len(posts) : posts[i] = "Starting" =>
       At("launch") \/ \E j \in (i + 1)..Len(posts) : posts[j] \in {"Launched", "Error"}
\* The clicks that wait: those of the main window, left over at the login view, are
\* handled before any login is, and while no worker is there.
WaitingInv ==
  /\ view = "login" /\ Waits(OfMain) =>
       /\ At("none") /\ posts = << >> /\ hand.at \in {"idle", "logout"} /\ ~tokens
       /\ \A i \in 1..Len(pressed) : pressed[i] \in OfMain => \A j \in 1..(i - 1) : pressed[j] \notin OfLogin
  /\ view = "main" =>
       \A k \in 1..Len(pressed) : pressed[k] = "logout" => \A j \in (k + 1)..Len(pressed) : pressed[j] \notin OfLogin
  /\ view = "main" /\ hand.at = "logout" => ~Waits(OfLogin)
UncrossedInv == ~crossed => TokensInv /\ VerifyInv /\ StartInv /\ WaitingInv
LoginInv == LoginTypes /\ UncrossedInv

\* What is posted, and what the main thread has shown.
LEMMA TextPosted ==
  ASSUME LoginTypes, NEW text \in LoginTexts, posts' = Append(posts, text)
  PROVE  /\ posts' \in Seq(LoginTexts) /\ posts' # << >>
         /\ \A other : Coming(other)' <=> Coming(other) \/ other = text
         /\ Len(posts) \in Nat /\ Len(posts') = Len(posts) + 1 /\ posts'[Len(posts')] = text
         /\ \A i \in 1..Len(posts) : posts'[i] = posts[i]
<1>1. /\ posts' \in Seq(LoginTexts) /\ Len(posts) \in Nat /\ Len(posts') = Len(posts) + 1
      /\ posts'[Len(posts) + 1] = text /\ \A i \in 1..Len(posts) : posts'[i] = posts[i]
  BY DEF LoginTypes
<1>2. ASSUME NEW other PROVE Coming(other)' <=> Coming(other) \/ other = text
  <2>1. ASSUME Coming(other) PROVE Coming(other)'
    <3>1. PICK i \in 1..Len(posts) : posts[i] = other
      BY <2>1 DEF Coming
    <3>2. i \in 1..Len(posts') /\ posts'[i] = other
      BY <1>1, <3>1
    <3>. QED  BY <3>2 DEF Coming
  <2>2. ASSUME other = text PROVE Coming(other)'
    BY <1>1, <2>2 DEF Coming
  <2>3. ASSUME Coming(other)' PROVE Coming(other) \/ other = text
    <3>1. PICK i \in 1..Len(posts') : posts'[i] = other
      BY <2>3 DEF Coming
    <3>. QED  BY <1>1, <3>1 DEF Coming
  <2>. QED  BY <2>1, <2>2, <2>3
<1>. QED  BY <1>1, <1>2

\* What the main thread takes from its queue.
LEMMA TextShown ==
  ASSUME LoginTypes, NEW text, Shows(text)
  PROVE  /\ posts' \in Seq(LoginTexts) /\ text \in LoginTexts /\ Coming(text) /\ posts # << >>
         /\ \A other : Coming(other)' => Coming(other)
         /\ \A other : Coming(other) /\ other # text => Coming(other)'
         /\ Len(posts) \in Nat \ {0} /\ Len(posts') = Len(posts) - 1 /\ posts[1] = text
         /\ \A i \in 1..Len(posts') : posts'[i] = posts[i + 1]
<1>1. /\ posts' \in Seq(LoginTexts) /\ posts # << >> /\ text \in LoginTexts /\ posts[1] = text
      /\ Len(posts) \in Nat \ {0} /\ Len(posts') = Len(posts) - 1
      /\ \A i \in 1..Len(posts') : posts'[i] = posts[i + 1]
  BY DEF LoginTypes, Shows
<1>2. Coming(text)
  BY <1>1 DEF Coming
<1>3. ASSUME NEW other, Coming(other)' PROVE Coming(other)
  <2>1. PICK i \in 1..Len(posts') : posts'[i] = other
    BY <1>3 DEF Coming
  <2>2. i + 1 \in 1..Len(posts) /\ posts[i + 1] = other
    BY <1>1, <2>1
  <2>. QED  BY <2>2 DEF Coming
<1>4. ASSUME NEW other, Coming(other), other # text PROVE Coming(other)'
  <2>1. PICK i \in 1..Len(posts) : posts[i] = other
    BY <1>4 DEF Coming
  <2>2. i # 1 /\ i - 1 \in 1..Len(posts') /\ posts'[i - 1] = other
    BY <1>1, <1>4, <2>1
  <2>. QED  BY <2>2 DEF Coming
<1>. QED  BY <1>1, <1>2, <1>3, <1>4

\* A click more, and a click that is handled.
LEMMA ClickMore ==
  ASSUME LoginTypes, NEW button \in Buttons, pressed' = Append(pressed, button)
  PROVE  /\ pressed' \in Seq(Buttons) /\ Len(pressed) \in Nat /\ Len(pressed') = Len(pressed) + 1
         /\ pressed'[Len(pressed) + 1] = button /\ \A i \in 1..Len(pressed) : pressed'[i] = pressed[i]
BY DEF LoginTypes

\* What the callback thread takes from the clicks.
LEMMA ClickHandled ==
  ASSUME LoginTypes, NEW button, Handles(button)
  PROVE  /\ pressed' \in Seq(Buttons) /\ Len(pressed) \in Nat \ {0} /\ Len(pressed') = Len(pressed) - 1
         /\ pressed[1] = button /\ button \in Buttons /\ hand.at = "idle"
         /\ \A i \in 1..Len(pressed') : pressed'[i] = pressed[i + 1]
BY DEF LoginTypes, Handles

\* Whatever handles a click leaves the others in their order.
LEMMA WaitingLess ==
  ASSUME LoginTypes, WaitingInv, NEW button, Handles(button)
  PROVE  /\ Waits(OfMain)' => Waits(OfMain)
         /\ Waits(OfLogin)' => Waits(OfLogin)
         /\ view = "login" /\ Waits(OfMain) =>
              \A i \in 1..Len(pressed') : pressed'[i] \in OfMain => \A j \in 1..(i - 1) : pressed'[j] \notin OfLogin
         /\ view = "main" =>
              \A k \in 1..Len(pressed') : pressed'[k] = "logout" => \A j \in (k + 1)..Len(pressed') : pressed'[j] \notin OfLogin
         /\ view = "main" /\ button = "logout" => ~Waits(OfLogin)'
         /\ view = "login" /\ button \in OfLogin => ~Waits(OfMain)
<1>1. /\ pressed' \in Seq(Buttons) /\ Len(pressed) \in Nat \ {0} /\ Len(pressed') = Len(pressed) - 1
      /\ pressed[1] = button /\ button \in Buttons
      /\ \A i \in 1..Len(pressed') : pressed'[i] = pressed[i + 1]
  BY ClickHandled
<1>2. ASSUME NEW B, Waits(B)' PROVE Waits(B)
  <2>1. PICK i \in 1..Len(pressed') : pressed'[i] \in B
    BY <1>2 DEF Waits
  <2>2. i + 1 \in 1..Len(pressed) /\ pressed[i + 1] \in B
    BY <1>1, <2>1
  <2>. QED  BY <2>2 DEF Waits
<1>3. ASSUME view = "login", Waits(OfMain), NEW i \in 1..Len(pressed'), pressed'[i] \in OfMain, NEW j \in 1..(i - 1)
      PROVE  pressed'[j] \notin OfLogin
  <2>1. i + 1 \in 1..Len(pressed) /\ j + 1 \in 1..((i + 1) - 1) /\ pressed[i + 1] \in OfMain
        /\ j \in 1..Len(pressed') /\ pressed'[j] = pressed[j + 1]
    BY <1>1, <1>3
  <2>. QED  BY <1>3, <2>1 DEF WaitingInv
<1>4. ASSUME view = "main", NEW k \in 1..Len(pressed'), pressed'[k] = "logout", NEW j \in (k + 1)..Len(pressed')
      PROVE  pressed'[j] \notin OfLogin
  <2>1. k + 1 \in 1..Len(pressed) /\ j + 1 \in ((k + 1) + 1)..Len(pressed) /\ pressed[k + 1] = "logout"
        /\ j \in 1..Len(pressed') /\ pressed'[j] = pressed[j + 1]
    BY <1>1, <1>4
  <2>. QED  BY <1>4, <2>1 DEF WaitingInv
<1>5. ASSUME view = "main", button = "logout", Waits(OfLogin)' PROVE FALSE
  <2>1. PICK j \in 1..Len(pressed') : pressed'[j] \in OfLogin
    BY <1>5 DEF Waits
  <2>2. j + 1 \in (1 + 1)..Len(pressed) /\ pressed[j + 1] \in OfLogin /\ 1 \in 1..Len(pressed) /\ pressed[1] = "logout"
    BY <1>1, <1>5, <2>1
  <2>. QED  BY <1>5, <2>2 DEF WaitingInv
<1>6. ASSUME view = "login", button \in OfLogin, Waits(OfMain) PROVE FALSE
  <2>1. PICK i \in 1..Len(pressed) : pressed[i] \in OfMain
    BY <1>6 DEF Waits
  <2>2. i # 1 /\ 1 \in 1..(i - 1) /\ pressed[1] \in OfLogin
    BY <1>1, <1>6, <2>1 DEF OfMain, OfLogin
  <2>. QED  BY <1>6, <2>1, <2>2 DEF WaitingInv
<1>. QED  BY <1>2, <1>3, <1>4, <1>5, <1>6

\* A click comes.
LEMMA PressKeeps ==
  ASSUME LoginInv, NEW button \in Buttons, Press(button)
  PROVE  LoginInv'
<1>. LoginTypes
  BY DEF LoginInv
<1>1. /\ view = (IF button \in OfMain THEN "main" ELSE "login") /\ pressed' = Append(pressed, button)
      /\ UNCHANGED <<view, remember, config, file, login, force, tokens, launchText, hand, job, posts, unsaved, refused, logins, crossed>>
  BY DEF Press, OfMain, disk, state
<1>2. /\ pressed' \in Seq(Buttons) /\ Len(pressed) \in Nat /\ Len(pressed') = Len(pressed) + 1
      /\ pressed'[Len(pressed) + 1] = button /\ \A i \in 1..Len(pressed) : pressed'[i] = pressed[i]
  BY <1>1, ClickMore
<1>3. LoginTypes'
  BY <1>1, <1>2 DEF LoginTypes
<1>4. ASSUME ~crossed PROVE TokensInv' /\ VerifyInv' /\ StartInv' /\ WaitingInv'
  <2>. TokensInv /\ VerifyInv /\ StartInv /\ WaitingInv
    BY <1>4 DEF LoginInv, UncrossedInv
  <2>1. TokensInv' /\ VerifyInv'
    BY <1>1 DEF TokensInv, VerifyInv, Coming, At
  <2>2. StartInv'
    BY <1>1 DEF StartInv, Coming, At
  <2>3. \A B : Waits(B)' => Waits(B) \/ button \in B
    <3>1. ASSUME NEW B, Waits(B)' PROVE Waits(B) \/ button \in B
      <4>1. PICK i \in 1..Len(pressed') : pressed'[i] \in B
        BY <3>1 DEF Waits
      <4>. QED  BY <1>2, <4>1 DEF Waits
    <3>. QED  BY <3>1
  <2>4. ASSUME view = "login", Waits(OfMain)'
        PROVE  /\ At("none") /\ posts = << >> /\ hand.at \in {"idle", "logout"} /\ ~tokens
               /\ \A i \in 1..Len(pressed') : pressed'[i] \in OfMain => \A j \in 1..(i - 1) : pressed'[j] \notin OfLogin
    <3>1. button \notin OfMain /\ Waits(OfMain)
      BY <1>1, <2>3, <2>4
    <3>2. ASSUME NEW i \in 1..Len(pressed'), pressed'[i] \in OfMain, NEW j \in 1..(i - 1) PROVE pressed'[j] \notin OfLogin
      <4>1. i \in 1..Len(pressed) /\ j \in 1..Len(pressed) /\ pressed[i] \in OfMain /\ pressed'[j] = pressed[j]
        BY <1>2, <3>1, <3>2
      <4>. QED  BY <2>4, <3>1, <4>1 DEF WaitingInv
    <3>. QED  BY <2>4, <3>1, <3>2 DEF WaitingInv
  <2>5. ASSUME view = "main", NEW k \in 1..Len(pressed'), pressed'[k] = "logout", NEW j \in (k + 1)..Len(pressed') PROVE pressed'[j] \notin OfLogin
    <3>1. button \in OfMain /\ button \notin OfLogin
      BY <1>1, <2>5 DEF OfMain, OfLogin
    <3>2. CASE j = Len(pressed) + 1
      BY <1>2, <3>1, <3>2
    <3>3. CASE j # Len(pressed) + 1
      <4>1. k \in 1..Len(pressed) /\ j \in (k + 1)..Len(pressed) /\ pressed[k] = "logout" /\ pressed'[j] = pressed[j]
        BY <1>2, <2>5, <3>3
      <4>. QED  BY <2>5, <4>1 DEF WaitingInv
    <3>. QED  BY <3>2, <3>3
  <2>6. view = "main" /\ hand.at = "logout" => ~Waits(OfLogin)'
    BY <1>1, <2>3 DEF WaitingInv, OfMain, OfLogin
  <2>7. WaitingInv'
    BY <1>1, <2>4, <2>5, <2>6 DEF WaitingInv, At
  <2>. QED  BY <2>1, <2>2, <2>7
<1>. QED  BY <1>1, <1>3, <1>4 DEF LoginInv, UncrossedInv

\* The callback thread handles a click that logs nobody out.
LEMMA HandlesKeep ==
  ASSUME LoginInv, NEW button, Handles(button),
         view' = view, remember' \in BOOLEAN,
         UNCHANGED <<config, file, login, force, tokens, job, posts, unsaved, refused, logins, crossed>>,
         launchText' = launchText \/ launchText' = "Running",
         \/ hand' = hand
         \/ /\ button \in {"login", "verify", "start"} /\ hand' = [at |-> button, of |-> login, remember |-> remember]
            /\ button = "verify" => login # 0
            /\ button = "start" => tokens
  PROVE  LoginInv'
<1>. LoginTypes
  BY DEF LoginInv
<1>1. pressed' \in Seq(Buttons) /\ hand.at = "idle"
  BY ClickHandled
<1>2. hand' \in [at : {"idle", "login", "verify", "start", "logout"}, of : Nat, remember : BOOLEAN] /\ hand'.at # "logout"
      /\ (hand'.at = "verify" => hand'.of # 0) /\ (hand'.at # "idle" => hand'.at = button /\ (button = "start" => tokens))
  BY <1>1 DEF LoginTypes
<1>3. LoginTypes'
  BY <1>1, <1>2 DEF LoginTypes
<1>4. ASSUME ~crossed PROVE TokensInv' /\ VerifyInv' /\ StartInv' /\ WaitingInv'
  <2>. TokensInv /\ VerifyInv /\ StartInv /\ WaitingInv
    BY <1>4 DEF LoginInv, UncrossedInv
  <2>1. TokensInv' /\ VerifyInv'
    BY <1>1, <1>2 DEF TokensInv, VerifyInv, Coming, At
  <2>2. hand'.at = "start" => view = "main"
    <3>. SUFFICES ASSUME hand'.at = "start", view = "login" PROVE FALSE
      BY DEF LoginTypes
    <3>1. button = "start" /\ tokens
      BY <1>2
    <3>2. 1 \in 1..Len(pressed) /\ pressed[1] \in OfMain
      BY <3>1, ClickHandled DEF OfMain
    <3>3. Waits(OfMain)
      BY <3>2 DEF Waits
    <3>. QED  BY <3>1, <3>3 DEF WaitingInv
  <2>3. StartInv'
    BY <2>2 DEF StartInv, Coming, At
  <2>4. view = "login" /\ Waits(OfMain) => hand'.at \in {"idle", "logout"}
    <3>. SUFFICES ASSUME view = "login", Waits(OfMain), hand'.at # "idle" PROVE FALSE
      OBVIOUS
    <3>1. button \notin OfLogin
      BY WaitingLess
    <3>. QED  BY <1>2, <2>2, <3>1 DEF OfLogin
  <2>5. WaitingInv'
    BY <1>2, <2>4, WaitingLess DEF WaitingInv, At
  <2>. QED  BY <2>1, <2>3, <2>5
<1>. QED  BY <1>3, <1>4 DEF LoginInv, UncrossedInv

\* _start_task, unless a worker is there.
LEMMA StartJobKeeps ==
  ASSUME LoginInv, StartJob
  PROVE  LoginInv'
<1>. LoginTypes
  BY DEF LoginInv
<1>1. /\ hand.at \in {"login", "verify", "start"} /\ hand' = IdleHand /\ job' = (IF job.at = "none" THEN hand ELSE job)
      /\ crossed' = (crossed \/ (hand.at = "verify" /\ job.at = "none" /\ hand.of # login))
      /\ UNCHANGED <<view, remember, config, file, login, force, tokens, launchText, pressed, posts, unsaved, refused, logins>>
  BY DEF StartJob, disk, state
<1>2. hand' \in [at : {"idle", "login", "verify", "start", "logout"}, of : Nat, remember : BOOLEAN] /\ hand'.at = "idle"
  BY <1>1 DEF IdleHand, NoJob
<1>3. job' \in [at : Jobs, of : Nat, remember : BOOLEAN]
  BY <1>1 DEF LoginTypes, Jobs
<1>4. crossed' \in BOOLEAN
  BY <1>1
<1>5. LoginTypes'
  BY <1>1, <1>2, <1>3, <1>4 DEF LoginTypes
<1>6. ASSUME ~crossed' PROVE TokensInv' /\ VerifyInv' /\ StartInv' /\ WaitingInv'
  <2>0. ~crossed /\ (hand.at = "verify" /\ job.at = "none" => hand.of = login)
    BY <1>1, <1>6
  <2>. TokensInv /\ VerifyInv /\ StartInv /\ WaitingInv
    BY <2>0 DEF LoginInv, UncrossedInv
  <2>1. TokensInv'
    BY <1>1, <1>2 DEF TokensInv, Coming, At
  <2>2. VerifyInv'
    BY <1>1, <1>2, <2>0 DEF VerifyInv, At
  <2>3. StartInv'
    <3>1. CASE job.at = "none"
      BY <1>1, <1>2, <3>1 DEF StartInv, Coming, At
    <3>2. CASE job.at # "none"
      BY <1>1, <1>2, <3>2 DEF StartInv, Coming, At
    <3>. QED  BY <3>1, <3>2
  <2>4. ~(view = "login" /\ Waits(OfMain))
    BY <1>1 DEF WaitingInv
  <2>5. WaitingInv'
    BY <1>1, <1>2, <2>4 DEF WaitingInv, Waits
  <2>. QED  BY <2>1, <2>2, <2>3, <2>5
<1>. QED  BY <1>5, <1>6 DEF LoginInv, UncrossedInv

\* A logout forgets the tokens; it crosses a worker or a post.
LEMMA HandleLogoutKeeps ==
  ASSUME LoginInv, HandleLogout
  PROVE  LoginInv'
<1>. LoginTypes
  BY DEF LoginInv
<1>1. /\ Handles("logout") /\ hand' = [at |-> "logout", of |-> login, remember |-> remember]
      /\ remember' = FALSE /\ file' = FALSE /\ login' = 0 /\ force' = FALSE /\ tokens' = FALSE
      /\ crossed' = (crossed \/ job.at # "none" \/ posts # << >>)
      /\ UNCHANGED <<view, config, launchText, job, posts, unsaved, refused, logins>>
  BY DEF HandleLogout, Captures
<1>2. hand' \in [at : {"idle", "login", "verify", "start", "logout"}, of : Nat, remember : BOOLEAN] /\ hand'.at = "logout"
  BY <1>1 DEF LoginTypes
<1>3. crossed' \in BOOLEAN
  BY <1>1
<1>4. pressed' \in Seq(Buttons)
  BY <1>1, ClickHandled
<1>5. LoginTypes'
  BY <1>1, <1>2, <1>3, <1>4 DEF LoginTypes
<1>6. ASSUME ~crossed' PROVE TokensInv' /\ VerifyInv' /\ StartInv' /\ WaitingInv'
  <2>0. ~crossed /\ job.at = "none" /\ posts = << >>
    BY <1>1, <1>6
  <2>. TokensInv /\ VerifyInv /\ StartInv /\ WaitingInv
    BY <2>0 DEF LoginInv, UncrossedInv
  <2>1. TokensInv'
    BY <1>1, <1>2, <2>0 DEF TokensInv, Coming, At
  <2>2. VerifyInv'
    BY <1>1, <1>2, <2>0 DEF VerifyInv, At
  <2>3. launchText # "Starting"
    BY <2>0 DEF StartInv, Coming, At
  <2>4. StartInv'
    BY <1>1, <1>2, <2>0, <2>3 DEF StartInv, Coming, At
  <2>5. WaitingInv'
    BY <1>1, <1>2, <2>0, WaitingLess DEF WaitingInv, At
  <2>. QED  BY <2>1, <2>2, <2>4, <2>5
<1>. QED  BY <1>5, <1>6 DEF LoginInv, UncrossedInv

\* The login view is shown after the logout.
LEMMA LogoutShownKeeps ==
  ASSUME LoginInv, LogoutShown
  PROVE  LoginInv'
<1>. LoginTypes
  BY DEF LoginInv
<1>1. /\ hand.at = "logout" /\ hand' = IdleHand /\ view' = "login"
      /\ config' \in {remember, config, config /\ remember} /\ file' \in {file /\ remember, file}
      /\ unsaved' \in BOOLEAN /\ (file' => config' \/ unsaved')
      /\ UNCHANGED <<remember, login, force, tokens, launchText, pressed, job, posts, refused, logins, crossed>>
  <2>1. /\ hand.at = "logout" /\ hand' = IdleHand /\ view' = "login" /\ Saves(remember)
        /\ UNCHANGED <<remember, login, force, tokens, launchText, pressed, job, posts, refused, logins, crossed>>
    BY DEF LogoutShown, state
  <2>. QED  BY <2>1 DEF Saves, LoginTypes
<1>2. hand' \in [at : {"idle", "login", "verify", "start", "logout"}, of : Nat, remember : BOOLEAN] /\ hand'.at = "idle"
  BY <1>1 DEF IdleHand, NoJob
<1>3. config' \in BOOLEAN /\ file' \in BOOLEAN
  BY <1>1 DEF LoginTypes
<1>4. LoginTypes'
  BY <1>1, <1>2, <1>3 DEF LoginTypes
<1>5. ASSUME ~crossed PROVE TokensInv' /\ VerifyInv' /\ StartInv' /\ WaitingInv'
  <2>. TokensInv /\ VerifyInv /\ StartInv /\ WaitingInv
    BY <1>5 DEF LoginInv, UncrossedInv
  <2>0. job.at = "none" /\ posts = << >> /\ ~tokens
    BY <1>1 DEF TokensInv, At
  <2>1. TokensInv'
    BY <1>1, <1>2, <2>0 DEF TokensInv, Coming, At
  <2>2. VerifyInv'
    BY <1>1, <1>2, <2>0 DEF VerifyInv, At
  <2>3. launchText # "Starting"
    BY <2>0 DEF StartInv, Coming, At
  <2>4. StartInv'
    BY <1>1, <1>2, <2>0, <2>3 DEF StartInv, Coming, At
  <2>5. ASSUME NEW i \in 1..Len(pressed), pressed[i] \in OfMain, NEW j \in 1..(i - 1) PROVE pressed[j] \notin OfLogin
    <3>1. Waits(OfMain) /\ j \in 1..Len(pressed)
      BY <2>5 DEF Waits, LoginTypes
    <3>2. CASE view = "login"
      BY <2>5, <3>1, <3>2 DEF WaitingInv
    <3>3. CASE view = "main"
      BY <1>1, <3>1, <3>3 DEF WaitingInv, Waits
    <3>. QED  BY <3>2, <3>3 DEF LoginTypes
  <2>6. WaitingInv'
    BY <1>1, <1>2, <2>0, <2>5 DEF WaitingInv, At, Waits
  <2>. QED  BY <2>1, <2>2, <2>4, <2>6
<1>. QED  BY <1>1, <1>4, <1>5 DEF LoginInv, UncrossedInv

\* While the worker or the main thread has something to do, no click of the main
\* window waits at the login view, and no logout is under way.
LEMMA BusyWaits ==
  ASSUME LoginInv, ~crossed, job.at # "none" \/ posts # << >>, UNCHANGED <<pressed, hand>>, view' \in {view, "main"}
  PROVE  WaitingInv' /\ hand.at # "logout"
<1>. LoginTypes /\ WaitingInv
  BY DEF LoginInv, UncrossedInv
<1>1. hand.at # "logout"
  BY DEF LoginInv, UncrossedInv, TokensInv, At
<1>2. ~(view = "login" /\ Waits(OfMain))
  BY DEF WaitingInv, At
<1>3. CASE view' = view
  BY <1>1, <1>2, <1>3 DEF WaitingInv, Waits
<1>4. CASE view' # view
  <2>1. view = "login" /\ view' = "main" /\ ~Waits(OfMain)
    BY <1>2, <1>4 DEF LoginTypes
  <2>2. \A k \in 1..Len(pressed) : pressed[k] # "logout"
    BY <2>1 DEF Waits, OfMain
  <2>. QED  BY <1>1, <2>1, <2>2 DEF WaitingInv, Waits
<1>. QED  BY <1>1, <1>3, <1>4

\* The worker goes on without a word.
LEMMA WorkerGoes ==
  ASSUME LoginInv, NEW there \in {"resolve", "keep"}, Goes(there), job.at \in {"login", "verify", "resolve"},
         tokens' = (tokens \/ there = "keep"),
         UNCHANGED <<view, remember, config, file, login, force, launchText, pressed, hand, posts, unsaved, refused, logins, crossed>>
  PROVE  LoginInv'
<1>. LoginTypes
  BY DEF LoginInv
<1>1. job' \in [at : Jobs, of : Nat, remember : BOOLEAN] /\ job'.at = there
  BY DEF LoginTypes, Goes, Jobs
<1>2. tokens' \in BOOLEAN
  OBVIOUS
<1>3. LoginTypes'
  BY <1>1, <1>2 DEF LoginTypes
<1>4. ASSUME ~crossed PROVE TokensInv' /\ VerifyInv' /\ StartInv' /\ WaitingInv'
  <2>. TokensInv /\ VerifyInv /\ StartInv /\ WaitingInv
    BY <1>4 DEF LoginInv, UncrossedInv
  <2>0. WaitingInv' /\ hand.at # "logout"
    BY <1>4, BusyWaits
  <2>1. TokensInv'
    BY <1>1, <2>0 DEF TokensInv, Coming, At
  <2>2. VerifyInv'
    BY <1>1 DEF VerifyInv, At
  <2>3. StartInv'
    BY <1>1 DEF StartInv, Coming, At
  <2>. QED  BY <2>0, <2>1, <2>2, <2>3
<1>. QED  BY <1>3, <1>4 DEF LoginInv, UncrossedInv

\* The worker posts how its task ended.
LEMMA WorkerPosts ==
  ASSUME LoginInv, job.at # "none", job.at # "start", NEW text \in LoginTexts, Posts(text), text # "Starting",
         text \in {"LoggedIn", "Restored"} => tokens', job.at = "launch" => text \in {"Launched", "Error"},
         tokens' \in BOOLEAN, tokens => tokens', file' \in BOOLEAN,
         unsaved' \in BOOLEAN, unsaved => unsaved', file' => file \/ text = "LoggedIn" \/ unsaved',
         login' \in Nat, force' \in BOOLEAN, logins' \in Nat,
         ~crossed /\ force' /\ login' # 0 => login' \in refused',
         UNCHANGED <<view, remember, config, launchText, pressed, hand, crossed>>
  PROVE  LoginInv'
<1>. LoginTypes
  BY DEF LoginInv
<1>1. posts' = Append(posts, text) /\ job' = NoJob
  BY DEF Posts
<1>2. /\ posts' \in Seq(LoginTexts) /\ posts' # << >> /\ \A other : Coming(other)' <=> Coming(other) \/ other = text
      /\ Len(posts) \in Nat /\ Len(posts') = Len(posts) + 1 /\ posts'[Len(posts')] = text
      /\ \A i \in 1..Len(posts) : posts'[i] = posts[i]
  BY <1>1, TextPosted
<1>3. job' \in [at : Jobs, of : Nat, remember : BOOLEAN] /\ job'.at = "none"
  BY <1>1 DEF NoJob, Jobs
<1>4. LoginTypes'
  BY <1>2, <1>3 DEF LoginTypes
<1>5. ASSUME ~crossed PROVE TokensInv' /\ VerifyInv' /\ StartInv' /\ WaitingInv'
  <2>. TokensInv /\ VerifyInv /\ StartInv /\ WaitingInv
    BY <1>5 DEF LoginInv, UncrossedInv
  <2>0. WaitingInv' /\ hand.at # "logout"
    BY <1>5, BusyWaits
  <2>1. TokensInv'
    BY <1>2, <1>3, <2>0 DEF TokensInv, At
  <2>2. VerifyInv'
    BY <1>3, <1>5 DEF VerifyInv, At
  <2>3. ASSUME NEW i \in 1..Len(posts'), posts'[i] = "Starting" PROVE \E j \in (i + 1)..Len(posts') : posts'[j] \in {"Launched", "Error"}
    <3>1. i \in 1..Len(posts) /\ posts[i] = "Starting"
      BY <1>2, <2>3
    <3>2. CASE At("launch")
      <4>1. Len(posts') \in (i + 1)..Len(posts') /\ posts'[Len(posts')] \in {"Launched", "Error"}
        BY <1>2, <3>1, <3>2 DEF At
      <4>. QED  BY <4>1
    <3>3. CASE ~At("launch")
      <4>1. PICK j \in (i + 1)..Len(posts) : posts[j] \in {"Launched", "Error"}
        BY <3>1, <3>3 DEF StartInv
      <4>2. j \in (i + 1)..Len(posts') /\ posts'[j] = posts[j]
        BY <1>2, <3>1, <4>1
      <4>. QED  BY <4>1, <4>2
    <3>. QED  BY <3>2, <3>3
  <2>4. StartInv'
    BY <1>2, <1>3, <2>3 DEF StartInv, At
  <2>. QED  BY <2>0, <2>1, <2>2, <2>4
<1>. QED  BY <1>4, <1>5 DEF LoginInv, UncrossedInv

\* The worker says that it launches.
LEMMA StartingKeeps ==
  ASSUME LoginInv, Starting
  PROVE  LoginInv'
<1>. LoginTypes
  BY DEF LoginInv
<1>1. /\ job.at = "start" /\ posts' = Append(posts, "Starting") /\ job' = [job EXCEPT !.at = "launch"]
      /\ UNCHANGED <<view, remember, config, file, login, force, tokens, launchText, pressed, hand, unsaved, refused, logins, crossed>>
  BY DEF Starting, At, Goes, Elsewhere, disk, state
<1>2. /\ posts' \in Seq(LoginTexts) /\ \A other : Coming(other)' <=> Coming(other) \/ other = "Starting"
  BY <1>1, TextPosted DEF LoginTexts
<1>3. job' \in [at : Jobs, of : Nat, remember : BOOLEAN] /\ job'.at = "launch"
  BY <1>1 DEF LoginTypes, Jobs
<1>4. LoginTypes'
  BY <1>1, <1>2, <1>3 DEF LoginTypes
<1>5. ASSUME ~crossed PROVE TokensInv' /\ VerifyInv' /\ StartInv' /\ WaitingInv'
  <2>. TokensInv /\ VerifyInv /\ StartInv /\ WaitingInv
    BY <1>5 DEF LoginInv, UncrossedInv
  <2>0. WaitingInv' /\ hand.at # "logout"
    BY <1>1, <1>5, BusyWaits
  <2>1. TokensInv'
    BY <1>1, <1>2, <1>3, <2>0 DEF TokensInv, At
  <2>2. VerifyInv'
    BY <1>1, <1>3 DEF VerifyInv, At
  <2>3. StartInv'
    BY <1>1, <1>2, <1>3 DEF StartInv, At
  <2>. QED  BY <2>0, <2>1, <2>2, <2>3
<1>. QED  BY <1>1, <1>4, <1>5 DEF LoginInv, UncrossedInv

\* The launch: never without tokens unless crossed.
LEMMA LaunchKeeps ==
  ASSUME LoginInv, Launch
  PROVE  LoginInv'
<1>. LoginTypes
  BY DEF LoginInv
<1>1. /\ job.at = "launch"
      /\ UNCHANGED <<view, remember, config, file, unsaved, login, force, tokens, launchText, pressed, hand, refused, logins, crossed>>
  BY DEF Launch, At, Elsewhere, disk, state
<1>2. ~crossed /\ force' /\ login' # 0 => login' \in refused'
  BY <1>1 DEF LoginInv, UncrossedInv, VerifyInv
<1>3. CASE ~tokens
  <2>1. job' = NoJob /\ posts' = posts
    BY <1>3 DEF Launch
  <2>2. job' \in [at : Jobs, of : Nat, remember : BOOLEAN]
    BY <2>1 DEF NoJob, Jobs
  <2>3. LoginTypes'
    BY <1>1, <2>1, <2>2 DEF LoginTypes
  <2>4. crossed
    <3>1. ~crossed => view = "main" /\ hand.at # "logout"
      BY <1>1 DEF LoginInv, UncrossedInv, StartInv, TokensInv, At
    <3>. QED  BY <1>3, <3>1 DEF LoginInv, UncrossedInv, TokensInv
  <2>. QED  BY <1>1, <2>3, <2>4 DEF LoginInv, UncrossedInv
<1>4. CASE tokens
  <2>1. PICK text \in {"Error", "Launched"} : Posts(text)
    BY <1>4 DEF Launch
  <2>2. text \in LoginTexts /\ text # "Starting" /\ text \notin {"LoggedIn", "Restored"}
    BY DEF LoginTexts
  <2>. QED  BY <1>1, <1>2, <1>4, <2>1, <2>2, WorkerPosts DEF LoginTypes
<1>. QED  BY <1>3, <1>4

\* All steps of the worker.
LEMMA JobStepKeeps ==
  ASSUME LoginInv, JobStep
  PROVE  LoginInv'
<1>. LoginTypes
  BY DEF LoginInv
<1>. USE DEF Elsewhere, disk, state, At
<1>0. ~crossed /\ force /\ login # 0 => login \in refused
  BY DEF LoginInv, UncrossedInv, VerifyInv
<1>1. CASE JobFails
  BY <1>0, <1>1, WorkerPosts DEF JobFails, LoginTypes, LoginTexts
<1>2. CASE LoggedIn
  <2>1. tokens' = (tokens \/ "resolve" = "keep")
    BY <1>2 DEF LoggedIn, LoginTypes
  <2>2. /\ Goes("resolve") /\ job.at \in {"login", "verify", "resolve"}
        /\ UNCHANGED <<view, remember, config, file, login, force, launchText, pressed, hand, posts, unsaved, refused, logins, crossed>>
    BY <1>2 DEF LoggedIn
  <2>. QED  BY <2>1, <2>2, WorkerGoes
<1>3. CASE CodeNeeded
  <2>1. /\ job.at = "login" /\ Posts("Code") /\ logins' = logins + 1 /\ login' = logins + 1 /\ force' = FALSE
        /\ UNCHANGED <<view, remember, config, file, tokens, launchText, pressed, hand, unsaved, refused, crossed>>
    BY <1>3 DEF CodeNeeded
  <2>2. "Code" \in LoginTexts /\ logins + 1 \in Nat
    BY DEF LoginTexts, LoginTypes
  <2>. QED  BY <2>1, <2>2, WorkerPosts DEF LoginTypes
<1>4. CASE Verified
  <2>1. tokens' = (tokens \/ "resolve" = "keep")
    BY <1>4 DEF Verified, LoginTypes
  <2>2. /\ Goes("resolve") /\ job.at \in {"login", "verify", "resolve"}
        /\ UNCHANGED <<view, remember, config, file, login, force, launchText, pressed, hand, posts, unsaved, refused, logins, crossed>>
    BY <1>4 DEF Verified
  <2>. QED  BY <2>1, <2>2, WorkerGoes
<1>5. CASE ActiveSession
  <2>1. ~crossed => login \in {0, job.of}
    BY <1>5 DEF ActiveSession, LoginInv, UncrossedInv, VerifyInv
  <2>. QED  BY <1>5, <2>1, WorkerPosts DEF ActiveSession, LoginTypes, LoginTexts
<1>6. CASE Resolved
  <2>1. tokens' = (tokens \/ "keep" = "keep")
    BY <1>6 DEF Resolved
  <2>. QED  BY <1>6, <2>1, WorkerGoes DEF Resolved
<1>7. CASE Kept
  <2>1. "LoggedIn" \in LoginTexts /\ job.remember \in BOOLEAN
    BY DEF LoginTexts, LoginTypes
  <2>2. ~crossed => tokens
    BY <1>7 DEF Kept, LoginInv, UncrossedInv, TokensInv
  <2>3. CASE ~crossed
    BY <1>0, <1>7, <2>1, <2>2, <2>3, WorkerPosts DEF Kept, LoginTypes
  <2>4. CASE crossed
    <3>1. posts' \in Seq(LoginTexts) /\ job' = NoJob
      BY <1>7, <2>1, TextPosted DEF Kept, Posts
    <3>2. job' \in [at : Jobs, of : Nat, remember : BOOLEAN]
      BY <3>1 DEF NoJob, Jobs
    <3>3. LoginTypes'
      BY <1>7, <2>1, <3>1, <3>2 DEF Kept, LoginTypes
    <3>. QED  BY <1>7, <2>4, <3>3 DEF Kept, LoginInv, UncrossedInv
  <2>. QED  BY <2>3, <2>4
<1>8. CASE KeepFails
  <2>1. file' \in BOOLEAN /\ unsaved' \in BOOLEAN /\ (unsaved => unsaved') /\ (file' => file \/ unsaved')
    BY <1>8 DEF KeepFails, LoginTypes
  <2>. QED  BY <1>0, <1>8, <2>1, WorkerPosts DEF KeepFails, LoginTypes, LoginTexts
<1>9. CASE Restored
  BY <1>0, <1>9, WorkerPosts DEF Restored, LoginTypes, LoginTexts
<1>10. CASE Expired
  BY <1>0, <1>10, WorkerPosts DEF Expired, LoginTypes, LoginTexts
<1>. QED  BY <1>1, <1>2, <1>3, <1>4, <1>5, <1>6, <1>7, <1>8, <1>9, <1>10, StartingKeeps, LaunchKeeps DEF JobStep

\* The main thread shows a text.
LEMMA TextKeeps ==
  ASSUME LoginInv, NEW text \in LoginTexts, Shows(text), Rest,
         remember' \in BOOLEAN, config' \in BOOLEAN, file' \in BOOLEAN, unsaved' \in BOOLEAN, view' \in {view, "main"}, tokens' = tokens,
         login' \in Nat, (login' = login /\ force' = force) \/ (login' = 0 /\ force' = FALSE),
         view' # view => text \in {"LoggedIn", "Restored"},
         file' => config' \/ unsaved' \/ (file /\ config' = config /\ text # "LoggedIn" /\ unsaved' = unsaved),
         \/ launchText' = launchText /\ (text \in {"Error", "Launched"} => launchText # "Starting" \/ view # "main")
         \/ launchText' # "Starting"
         \/ text = "Starting"
  PROVE  LoginInv'
<1>. LoginTypes
  BY DEF LoginInv
<1>1. UNCHANGED <<pressed, hand, job, refused, logins, crossed>>
  BY DEF Rest
<1>2. /\ posts' \in Seq(LoginTexts) /\ Coming(text) /\ posts # << >>
      /\ \A other : Coming(other)' => Coming(other)
      /\ \A other : Coming(other) /\ other # text => Coming(other)'
      /\ Len(posts) \in Nat \ {0} /\ Len(posts') = Len(posts) - 1 /\ posts[1] = text
      /\ \A i \in 1..Len(posts') : posts'[i] = posts[i + 1]
  BY TextShown
<1>3. view' \in {"login", "main"} /\ force' \in BOOLEAN
  BY DEF LoginTypes
<1>4. LoginTypes'
  BY <1>1, <1>2, <1>3 DEF LoginTypes
<1>5. ASSUME ~crossed PROVE TokensInv' /\ VerifyInv' /\ StartInv' /\ WaitingInv'
  <2>. TokensInv /\ VerifyInv /\ StartInv /\ WaitingInv
    BY <1>5 DEF LoginInv, UncrossedInv
  <2>0. WaitingInv' /\ hand.at # "logout"
    BY <1>1, <1>2, <1>5, BusyWaits
  <2>1. TokensInv'
    BY <1>1, <1>2, <2>0 DEF TokensInv, At
  <2>2. VerifyInv'
    BY <1>1 DEF VerifyInv, At
  <2>3. view = "main" => view' = "main"
    BY DEF LoginTypes
  <2>4. ASSUME NEW i \in 1..Len(posts), posts[i] = "Starting", ~At("launch") PROVE \E j \in i..Len(posts') : posts'[j] \in {"Launched", "Error"}
    <3>1. PICK j \in (i + 1)..Len(posts) : posts[j] \in {"Launched", "Error"}
      BY <2>4 DEF StartInv
    <3>2. j - 1 \in i..Len(posts') /\ posts'[j - 1] = posts[j]
      BY <1>2, <3>1
    <3>. QED  BY <3>1, <3>2
  <2>5. ASSUME NEW i \in 1..Len(posts'), posts'[i] = "Starting", ~At("launch") PROVE \E j \in (i + 1)..Len(posts') : posts'[j] \in {"Launched", "Error"}
    <3>1. i + 1 \in 1..Len(posts) /\ posts[i + 1] = "Starting"
      BY <1>2, <2>5
    <3>. QED  BY <2>4, <2>5, <3>1
  <2>6. launchText' = "Starting" => view = "main" /\ (At("launch") \/ Coming("Launched")' \/ Coming("Error")')
    <3>. SUFFICES ASSUME launchText' = "Starting" PROVE view = "main" /\ (At("launch") \/ Coming("Launched")' \/ Coming("Error")')
      OBVIOUS
    <3>1. CASE text = "Starting"
      <4>1. view = "main" /\ 1 \in 1..Len(posts) /\ posts[1] = "Starting"
        BY <1>2, <3>1 DEF StartInv
      <4>2. CASE ~At("launch")
        <5>1. PICK j \in 1..Len(posts') : posts'[j] \in {"Launched", "Error"}
          BY <2>4, <4>1, <4>2
        <5>. QED  BY <4>1, <5>1 DEF Coming
      <4>. QED  BY <4>1, <4>2
    <3>2. CASE text # "Starting"
      BY <1>2, <3>2 DEF StartInv
    <3>. QED  BY <3>1, <3>2
  <2>7. StartInv'
    BY <1>1, <1>2, <2>3, <2>5, <2>6 DEF StartInv, At
  <2>. QED  BY <2>0, <2>1, <2>2, <2>7
<1>. QED  BY <1>1, <1>4, <1>5 DEF LoginInv, UncrossedInv

\* All steps of the main thread are such.
LEMMA ShownKeeps ==
  ASSUME LoginInv, Shown
  PROVE  LoginInv'
<1>. LoginTypes
  BY DEF LoginInv
<1>. USE DEF disk, state, Saves, simulators
<1>1. CASE LoginSucceeded
  <2>1. PICK text \in {"LoggedIn", "Restored"} : Shows(text)
    BY <1>1 DEF LoginSucceeded
  <2>2. /\ Rest /\ remember' = (remember \/ Head(posts) = "Restored")
        /\ config' \in {remember', config, config /\ remember'} /\ file' \in {file /\ remember', file}
        /\ unsaved' \in BOOLEAN /\ (file' => config' \/ unsaved')
        /\ view' = "main" /\ tokens' = tokens /\ login' = 0 /\ force' = FALSE /\ launchText' = "-"
    <3>1. /\ Rest /\ remember' = (remember \/ Head(posts) = "Restored") /\ Saves(remember')
          /\ view' = "main" /\ tokens' = tokens /\ login' = 0 /\ force' = FALSE /\ launchText' = "-"
      BY <1>1 DEF LoginSucceeded
    <3>2. remember' \in BOOLEAN
      BY <3>1
    <3>. QED  BY <3>1, <3>2 DEF Saves, LoginTypes
  <2>3. remember' \in BOOLEAN /\ config' \in BOOLEAN /\ file' \in BOOLEAN /\ text \in LoginTexts
    BY <2>1, <2>2 DEF LoginTexts, LoginTypes
  <2>. QED  BY <2>1, <2>2, <2>3, TextKeeps
<1>2. CASE LoginExpired
  <2>1. /\ Rest /\ Shows("Expired") /\ remember' = FALSE
        /\ config' \in {FALSE, config} /\ file' \in {FALSE, file} /\ unsaved' \in BOOLEAN /\ (file' => config' \/ unsaved')
        /\ UNCHANGED <<view, login, force, tokens, launchText>>
    BY <1>2 DEF LoginExpired
  <2>2. remember' \in BOOLEAN /\ config' \in BOOLEAN /\ file' \in BOOLEAN /\ "Expired" \in LoginTexts
    BY <2>1 DEF LoginTexts, LoginTypes
  <2>3. login' \in Nat /\ login' = login /\ force' = force /\ tokens' = tokens /\ view' = view /\ launchText' = launchText
    BY <2>1 DEF LoginTypes
  <2>. QED  BY <2>1, <2>2, <2>3, TextKeeps
<1>3. CASE ShowText
  <2>1. PICK text \in {"Code", "Force", "Error", "Starting", "Launched"} : Shows(text)
    BY <1>3 DEF ShowText
  <2>2. /\ Rest /\ UNCHANGED <<view, remember, config, file, unsaved, login, force, tokens>>
        /\ launchText' = CASE text \in {"Starting", "Launched"} -> text
                           [] text = "Error" /\ view = "main" -> "Failed"
                           [] OTHER -> launchText
    BY <1>3, <2>1 DEF ShowText, Shows
  <2>3. text \in LoginTexts
    BY DEF LoginTexts
  <2>4. \/ launchText' = launchText /\ (text \in {"Error", "Launched"} => launchText # "Starting" \/ view # "main")
        \/ launchText' # "Starting"
        \/ text = "Starting"
    BY <2>2
  <2>5. /\ login' \in Nat /\ login' = login /\ force' = force /\ tokens' = tokens /\ view' = view
        /\ remember' \in BOOLEAN /\ config' \in BOOLEAN /\ file' \in BOOLEAN /\ file' = file /\ config' = config /\ unsaved' = unsaved
        /\ unsaved' \in BOOLEAN /\ text # "LoggedIn"
    BY <2>2 DEF LoginTypes
  <2>. QED  BY <2>1, <2>2, <2>3, <2>4, <2>5, TextKeeps
<1>. QED  BY <1>1, <1>2, <1>3 DEF Shown

\* Every step of the login.
LEMMA LoginStep == LoginInv /\ [LoginNext]_loginVars => LoginInv'
<1>. SUFFICES ASSUME LoginInv, [LoginNext]_loginVars PROVE LoginInv'
  OBVIOUS
<1>. LoginTypes
  BY DEF LoginInv
<1>. USE DEF disk, state
<1>1. CASE \E button \in Buttons : Press(button)
  BY <1>1, PressKeeps
<1>2. CASE CallbackHandles
  <2>1. CASE TickRemember
    <3>1. remember' \in BOOLEAN
      BY <2>1 DEF TickRemember
    <3>. QED  BY <2>1, <3>1, HandlesKeep DEF TickRemember
  <2>2. CASE HandleLogin
    BY <2>2, HandlesKeep DEF HandleLogin, Captures, LoginTypes
  <2>3. CASE HandleVerify
    BY <2>3, HandlesKeep DEF HandleVerify, Captures, LoginTypes
  <2>4. CASE HandleStart
    <3>1. /\ Handles("start") /\ hand.at = "idle"
          /\ UNCHANGED <<remember, config, file, login, force, tokens, job, posts, unsaved, refused, logins, crossed>>
      BY <2>4 DEF HandleStart, Handles
    <3>2. PICK found \in BOOLEAN :
            /\ IF Refuses(found) \/ ~tokens THEN UNCHANGED hand ELSE Captures("start")
            /\ launchText' = IF Refuses(found) THEN "Running" ELSE launchText
            /\ view' = IF ~Refuses(found) /\ ~tokens THEN "login" ELSE view
      BY <2>4 DEF HandleStart
    <3>3. CASE Refuses(found)
      BY <3>1, <3>2, <3>3, HandlesKeep DEF LoginTypes
    <3>4. CASE ~Refuses(found) /\ tokens
      BY <3>1, <3>2, <3>4, HandlesKeep DEF Captures, LoginTypes
    <3>5. CASE ~Refuses(found) /\ ~tokens
      <4>1. hand' = hand /\ view' = "login" /\ launchText' = launchText
        BY <3>2, <3>5
      <4>2. CASE view = "login"
        BY <3>1, <4>1, <4>2, HandlesKeep DEF LoginTypes
      <4>3. CASE view = "main"
        <5>1. crossed
          BY <3>1, <3>5, <4>3 DEF LoginInv, UncrossedInv, TokensInv
        <5>2. pressed' \in Seq(Buttons)
          BY <3>1, ClickHandled
        <5>3. LoginTypes'
          BY <3>1, <4>1, <5>2 DEF LoginTypes
        <5>. QED  BY <3>1, <5>1, <5>3 DEF LoginInv, UncrossedInv
      <4>. QED  BY <4>2, <4>3 DEF LoginTypes
    <3>. QED  BY <3>3, <3>4, <3>5
  <2>5. CASE LogoutRaises
    BY <2>5, HandlesKeep DEF LogoutRaises, LoginTypes
  <2>. QED  BY <1>2, <2>1, <2>2, <2>3, <2>4, <2>5, StartJobKeeps, HandleLogoutKeeps, LogoutShownKeeps DEF CallbackHandles
<1>3. CASE SimulatorExits \/ Tick
  <2>1. /\ launchText' \in {"-", launchText}
        /\ UNCHANGED <<view, remember, config, file, unsaved, login, force, tokens, pressed, hand, job, posts, refused, logins, crossed>>
    BY <1>3 DEF SimulatorExits, Tick
  <2>2. LoginTypes'
    BY <2>1 DEF LoginTypes
  <2>3. TokensInv /\ VerifyInv /\ StartInv /\ WaitingInv => TokensInv' /\ VerifyInv' /\ StartInv' /\ WaitingInv'
    BY <2>1 DEF TokensInv, VerifyInv, StartInv, WaitingInv, Coming, At, Waits
  <2>. QED  BY <2>1, <2>2, <2>3 DEF LoginInv, UncrossedInv
<1>4. CASE Kill
  <2>1. /\ view' = "login" /\ remember' = config /\ login' = 0 /\ force' = FALSE /\ tokens' = FALSE /\ launchText' = "-"
        /\ pressed' = << >> /\ posts' = << >> /\ hand' = IdleHand /\ job' = FirstJob
        /\ crossed' = (crossed \/ job.at # "none" \/ posts # << >>)
        /\ UNCHANGED <<config, file, unsaved, refused, logins>>
    BY <1>4 DEF Kill
  <2>2. hand' \in [at : {"idle", "login", "verify", "start", "logout"}, of : Nat, remember : BOOLEAN] /\ hand'.at = "idle"
    BY <2>1 DEF IdleHand, NoJob
  <2>3. job' \in [at : Jobs, of : Nat, remember : BOOLEAN] /\ job'.at \in {"none", "restore"}
    BY <2>1 DEF FirstJob, NoJob, Jobs
  <2>4. pressed' \in Seq(Buttons) /\ posts' \in Seq(LoginTexts) /\ Len(pressed') = 0 /\ Len(posts') = 0
    BY <2>1
  <2>5. crossed' \in BOOLEAN
    BY <2>1
  <2>6. LoginTypes'
    BY <2>1, <2>2, <2>3, <2>4, <2>5 DEF LoginTypes
  <2>7. ASSUME ~crossed' PROVE TokensInv' /\ VerifyInv' /\ StartInv' /\ WaitingInv'
    <3>0. ~crossed /\ posts = << >> /\ Len(posts) = 0
      BY <2>1, <2>7 DEF LoginTypes
    <3>1. file => config \/ unsaved
      BY <3>0 DEF LoginInv, UncrossedInv, TokensInv, Coming
    <3>. QED  BY <2>1, <2>2, <2>3, <2>4, <3>0, <3>1 DEF TokensInv, VerifyInv, StartInv, WaitingInv, Coming, At, Waits
  <2>. QED  BY <2>6, <2>7 DEF LoginInv, UncrossedInv
<1>5. CASE UNCHANGED loginVars
  <2>1. LoginTypes'
    BY <1>5 DEF loginVars, LoginTypes
  <2>2. TokensInv /\ VerifyInv /\ StartInv /\ WaitingInv => TokensInv' /\ VerifyInv' /\ StartInv' /\ WaitingInv'
    BY <1>5 DEF loginVars, TokensInv, VerifyInv, StartInv, WaitingInv, Coming, At, Waits
  <2>. QED  BY <1>5, <2>1, <2>2 DEF LoginInv, UncrossedInv, loginVars
<1>. QED  BY <1>1, <1>2, <1>3, <1>4, <1>5, JobStepKeeps, ShownKeeps DEF LoginNext

\* The state the program starts in.
LEMMA LoginStart == LoginInit => LoginInv
<1>. SUFFICES ASSUME LoginInit PROVE LoginInv
  OBVIOUS
<1>1. hand \in [at : {"idle", "login", "verify", "start", "logout"}, of : Nat, remember : BOOLEAN] /\ hand.at = "idle"
  BY DEF LoginInit, IdleHand, NoJob
<1>2. job \in [at : Jobs, of : Nat, remember : BOOLEAN] /\ job.at \in {"none", "restore"}
  BY DEF LoginInit, FirstJob, NoJob, Jobs
<1>3. pressed \in Seq(Buttons) /\ posts \in Seq(LoginTexts) /\ Len(pressed) = 0 /\ Len(posts) = 0
  BY DEF LoginInit
<1>4. /\ view = "login" /\ remember \in BOOLEAN /\ config \in BOOLEAN /\ file \in BOOLEAN /\ (file => config)
      /\ login = 0 /\ force = FALSE /\ tokens = FALSE /\ launchText # "Starting" /\ unsaved = FALSE /\ logins = 0 /\ crossed = FALSE
  BY DEF LoginInit
<1>6. LoginTypes
  <2>1. force \in BOOLEAN /\ tokens \in BOOLEAN /\ crossed \in BOOLEAN
    BY <1>4
  <2>2. unsaved \in BOOLEAN /\ login \in Nat /\ logins \in Nat
    BY <1>4
  <2>. QED  BY <1>1, <1>2, <1>3, <1>4, <2>1, <2>2 DEF LoginTypes
<1>5. TokensInv /\ VerifyInv /\ StartInv /\ WaitingInv
  BY <1>1, <1>2, <1>3, <1>4 DEF TokensInv, VerifyInv, StartInv, WaitingInv, Coming, At, Waits
<1>. QED  BY <1>5, <1>6 DEF LoginInv, UncrossedInv

\* While nothing is forgotten, the one simulator that runs is the one of
\* _headless_process, and none does when a start is under way.
SimulatorInv ==
  /\ running \in Nat /\ forgotten \in BOOLEAN
  /\ ~forgotten => /\ running = IF ourProcess = "runs" THEN 1 ELSE 0
                   /\ hand.at = "start" \/ At("start") \/ At("launch") => ourProcess # "runs"
                   /\ hand.at = "start" => ~At("start") /\ ~At("launch")

\* No step starts a second simulator unseen (_on_headless_start, launch_simulator).
LEMMA SimulatorsKeep == SimulatorInv /\ [LoginNext]_loginVars => SimulatorInv'
<1>. SUFFICES ASSUME SimulatorInv, [LoginNext]_loginVars PROVE SimulatorInv'
  OBVIOUS
<1>. USE DEF simulators
<1>1. ASSUME UNCHANGED simulators, hand' = hand \/ hand'.at # "start",
             job' = job \/ job'.at \notin {"start", "launch"} \/ (At("start") /\ job'.at = "launch")
      PROVE  SimulatorInv'
  BY <1>1 DEF SimulatorInv, At
<1>2. ASSUME NEW button \in Buttons, Press(button) PROVE SimulatorInv'
  BY <1>1, <1>2 DEF Press
<1>3. CASE CallbackHandles
  <2>1. CASE TickRemember \/ LogoutRaises
    BY <1>1, <2>1 DEF TickRemember, LogoutRaises
  <2>2. CASE HandleLogin \/ HandleVerify \/ HandleLogout
    <3>1. UNCHANGED simulators /\ job' = job /\ (hand' = hand \/ hand'.at # "start")
      BY <2>2 DEF HandleLogin, HandleVerify, HandleLogout, Captures
    <3>. QED  BY <1>1, <3>1
  <2>3. CASE HandleStart
    <3>1. /\ hand.at = "idle" /\ UNCHANGED <<running, ourProcess, job>>
          /\ forgotten' = (forgotten \/ job.at \in {"start", "launch"})
          /\ hand' = hand \/ (hand'.at = "start" /\ ourProcess # "runs")
      BY <2>3 DEF HandleStart, Handles, Captures, Refuses
    <3>. QED  BY <3>1 DEF SimulatorInv, At
  <2>4. CASE StartJob
    <3>1. UNCHANGED simulators /\ hand'.at = "idle" /\ job' = (IF job.at = "none" THEN hand ELSE job)
      BY <2>4 DEF StartJob, IdleHand, NoJob
    <3>. QED  BY <2>4, <3>1 DEF SimulatorInv, At, StartJob
  <2>5. CASE LogoutShown
    <3>1. UNCHANGED simulators /\ job' = job /\ hand'.at # "start"
      BY <2>5 DEF LogoutShown, IdleHand, NoJob
    <3>. QED  BY <1>1, <3>1
  <2>. QED  BY <1>3, <2>1, <2>2, <2>3, <2>4, <2>5 DEF CallbackHandles
<1>4. CASE JobStep
  <2>0. NoJob.at = "none"
    BY DEF NoJob
  <2>1. CASE Launch
    <3>1. hand' = hand /\ job' = NoJob /\ At("launch")
      BY <2>1 DEF Launch, Elsewhere, Posts
    <3>2. CASE UNCHANGED simulators
      BY <1>1, <2>0, <3>1, <3>2
    <3>3. CASE /\ running' = running + 1 /\ ourProcess' \in {"runs", "none"}
               /\ forgotten' = (forgotten \/ ourProcess' = "none")
      <4>1. running' \in Nat /\ forgotten' \in BOOLEAN /\ hand' = hand /\ job'.at = "none"
        BY <2>0, <3>1, <3>3 DEF SimulatorInv
      <4>2. ASSUME ~forgotten' PROVE ~forgotten /\ ourProcess' = "runs"
        BY <3>3, <4>2
      <4>3. ASSUME ~forgotten' PROVE running' = 1 /\ hand.at # "start"
        BY <3>1, <3>3, <4>2, <4>3 DEF SimulatorInv
      <4>. QED  BY <4>1, <4>2, <4>3 DEF SimulatorInv, At
    <3>. QED  BY <2>1, <3>2, <3>3 DEF Launch
  <2>2. CASE Starting
    <3>1. UNCHANGED simulators /\ hand' = hand /\ At("start") /\ job' = [job EXCEPT !.at = "launch"]
      BY <2>2 DEF Starting, Elsewhere, Goes
    <3>2. job' = job \/ job'.at \notin {"start", "launch"} \/ (At("start") /\ job'.at = "launch")
      BY <3>1 DEF At
    <3>. QED  BY <1>1, <3>1, <3>2
  <2>3. CASE LoggedIn \/ Verified \/ Resolved
    <3>1. PICK there \in {"resolve", "keep"} : UNCHANGED simulators /\ hand' = hand /\ job' = [job EXCEPT !.at = there]
      BY <2>3 DEF LoggedIn, Verified, Resolved, Elsewhere, Goes
    <3>2. job' = job \/ job'.at \notin {"start", "launch"}
      BY <3>1
    <3>. QED  BY <1>1, <3>1, <3>2
  <2>4. CASE JobFails \/ CodeNeeded \/ ActiveSession \/ Kept \/ KeepFails \/ Restored \/ Expired
    <3>1. UNCHANGED simulators /\ hand' = hand /\ job' = NoJob
      BY <2>4 DEF JobFails, CodeNeeded, ActiveSession, Kept, KeepFails, Restored, Expired, Elsewhere, Posts
    <3>. QED  BY <1>1, <2>0, <3>1
  <2>. QED  BY <1>4, <2>1, <2>2, <2>3, <2>4 DEF JobStep
<1>5. CASE Shown
  <2>1. UNCHANGED simulators /\ hand' = hand /\ job' = job
    BY <1>5 DEF Shown, LoginSucceeded, LoginExpired, ShowText, Rest
  <2>. QED  BY <1>1, <2>1
<1>6. CASE SimulatorExits \/ Tick
  BY <1>6 DEF SimulatorExits, Tick, SimulatorInv, At
<1>7. CASE Kill
  <2>1. hand'.at = "idle" /\ job'.at \in {"none", "restore"} /\ ourProcess' = "none" /\ running' = running
        /\ forgotten' = (forgotten \/ running > 0)
    BY <1>7 DEF Kill, IdleHand, NoJob, FirstJob
  <2>2. running' \in Nat /\ forgotten' \in BOOLEAN
    BY <2>1 DEF SimulatorInv
  <2>3. ASSUME ~forgotten' PROVE running' = 0
    <3>1. ~(running > 0)
      BY <2>1, <2>3, Zenon
    <3>. QED  BY <2>1, <3>1 DEF SimulatorInv
  <2>. QED  BY <2>1, <2>2, <2>3 DEF SimulatorInv, At
<1>8. CASE UNCHANGED loginVars
  BY <1>1, <1>8 DEF loginVars
<1>. QED  BY <1>2, <1>3, <1>4, <1>5, <1>6, <1>7, <1>8 DEF LoginNext

\* A login comes to an end that is shown (_on_login to _on_headless_start, _on_logout).
LEMMA LoginsSettle == LoginSpec => []LoginSettles
<1>1. LoginInv /\ SimulatorInv => LoginSettles
  <2>. SUFFICES ASSUME LoginInv, SimulatorInv PROVE LoginSettles
    OBVIOUS
  <2>1. MainHasTokens
    BY DEF LoginInv, UncrossedInv, TokensInv, MainHasTokens, Quiet
  <2>2. NoForgottenFile
    BY DEF LoginInv, LoginTypes, UncrossedInv, TokensInv, NoForgottenFile, Quiet, Coming
  <2>3. ForceIsConfirmed
    BY DEF LoginInv, UncrossedInv, VerifyInv, ForceIsConfirmed, At
  <2>4. OneSimulator
    BY DEF SimulatorInv, OneSimulator
  <2>5. StartingEnds
    BY DEF LoginInv, LoginTypes, UncrossedInv, StartInv, StartingEnds, Quiet, Coming, At
  <2>. QED  BY <2>1, <2>2, <2>3, <2>4, <2>5 DEF LoginSettles
<1>2. LoginInit => SimulatorInv
  <2>1. ASSUME LoginInit PROVE hand.at = "idle" /\ job.at \in {"none", "restore"} /\ running = 0 /\ ourProcess = "none" /\ forgotten = FALSE
    BY <2>1 DEF LoginInit, IdleHand, FirstJob, NoJob
  <2>. QED  BY <2>1 DEF SimulatorInv, At
<1>. QED  BY <1>1, <1>2, LoginStart, LoginStep, SimulatorsKeep, PTL DEF LoginSpec

\* The file of the machine: one program at most writes it, after it created it,
\* and whoever returned a hash read it or wrote it.
HashInv ==
  /\ HashTypeOK
  /\ hashFile = NoFile => \A p \in Programs : place[p] # "write"
  /\ hashFile \in {NoFile, Empty} => \A p \in Programs : hash[p] = NoFile
  /\ \A p \in Programs : place[p] = "write" => hashFile = Empty
  /\ \A p, q \in Programs : place[p] = "write" /\ place[q] = "write" => p = q
  /\ OneHash /\ EmptyIsTransient

\* All programs agree on the hash of the machine (load_or_create_hardware_hash).
LEMMA HashesAgree == HashSpec => []HashAgreed
<1>1. HashInit => HashInv
  BY HashAssumption DEF HashInit, HashInv, HashTypeOK, OneHash, EmptyIsTransient
<1>2. HashInv /\ [HashNext]_hashVars => HashInv'
  <2>. SUFFICES ASSUME HashInv, [HashNext]_hashVars PROVE HashInv'
    OBVIOUS
  <2>. USE HashAssumption DEF HashInv, HashTypeOK, OneHash, EmptyIsTransient, Moves
  <2>1. ASSUME NEW p \in Programs, LookForFile(p) PROVE HashInv'
    BY <2>1 DEF LookForFile
  <2>2. ASSUME NEW p \in Programs, ReadHash(p) PROVE HashInv'
    BY <2>2 DEF ReadHash
  <2>3. ASSUME NEW p \in Programs, Create(p) PROVE HashInv'
    BY <2>3 DEF Create
  <2>4. ASSUME NEW p \in Programs, WriteHash(p) PROVE HashInv'
    BY <2>4 DEF WriteHash
  <2>5. ASSUME NEW p \in Programs, KillProgram(p) PROVE HashInv'
    BY <2>5 DEF KillProgram
  <2>6. ASSUME NEW p \in Programs, RunAgain(p) PROVE HashInv'
    BY <2>6 DEF RunAgain
  <2>7. CASE UNCHANGED hashVars
    BY <2>7 DEF hashVars
  <2>. QED  BY <2>1, <2>2, <2>3, <2>4, <2>5, <2>6, <2>7 DEF HashNext
<1>3. HashInv => HashAgreed
  BY DEF HashInv, HashAgreed
<1>. QED  BY <1>1, <1>2, <1>3, PTL DEF HashSpec

-----------------------------------------------------------------------------
(* UdpControl.  The UDP Control tab.                                       *)

Names == DOMAIN Controls
InputsOf(t) == [endpoint : Int, values : [Vars(t) -> Int]]
Caches == [selected : Names \cup {"none"}, templates : UNION {[S -> UNION {InputsOf(t) : t \in Names}] : S \in SUBSET Names}]
CacheKept(c) == c \in Caches /\ \A t \in DOMAIN c.templates : c.templates[t] \in InputsOf(t)
ControlTypes ==
  /\ present \in SUBSET Names /\ listed \in SUBSET Names
  /\ selected \in Names \cup {"none"} /\ current \in Names \cup {"none"} /\ endpoint \in Int
  /\ app \in {"down", "up", "saving"} /\ CacheKept(cache) /\ CacheKept(stateFile.cache)
  /\ lastShown \in [Names -> UNION {InputsOf(t) : t \in Names}] /\ \A t \in Names : lastShown[t] \in InputsOf(t)
  /\ current = "none" => inputs = << >>
  /\ current # "none" => inputs \in [Vars(current) -> Int]
\* The cache, while the console runs, and the file, when it does not, give each
\* template what the user left in it; between two writes they are the same.
CacheInv ==
  /\ app # "down" => \A t \in Names : KeptFor(cache, t) = lastShown[t]
  /\ app # "saving" => \A t \in Names : KeptFor(stateFile.cache, t) = lastShown[t]
  /\ app = "saving" => stateFile = HalfWritten
RightlySent(s) ==
  /\ s.template \in Names /\ Len(s.fields) = Len(ControlFields(s.template))
  /\ \A i \in DOMAIN s.fields :
       LET field == ControlFields(s.template)[i]
           x     == s.shown[field.var]
       IN s.fields[i] = IF field.kind = "text" /\ x > TextLength THEN TextLength ELSE x
SentRight == \A k \in DOMAIN sentControl : RightlySent(sentControl[k])
TabShows ==
  /\ app # "down" /\ current # "none" => [endpoint |-> endpoint, values |-> inputs] = lastShown[current]
  /\ current # "none" => current \notin Unparsable /\ (app # "down" => current = selected)
ControlInv == ControlTypes /\ CacheInv /\ TabShows /\ SentRight /\ controlLost = {}

\* No file, or a torn one, keeps nothing.
LEMMA NothingKept == CacheKept(NoCache)
<1>. DEFINE all == UNION {InputsOf(t) : t \in Names}
<1>1. << >> \in [{} -> all] /\ DOMAIN << >> = {}
  OBVIOUS
<1>. HIDE DEF all
<1>2. << >> \in UNION {[S -> all] : S \in SUBSET Names}
  BY <1>1
<1>3. NoCache \in Caches
  BY <1>2 DEF NoCache, Caches, all
<1>. QED  BY <1>1, <1>3 DEF CacheKept, NoCache

\* What is kept of a template is what its inputs can show.
LEMMA KeptShows ==
  ASSUME NEW c, CacheKept(c), NEW t \in Names
  PROVE  /\ KeptFor(c, t) \in InputsOf(t)
         /\ KeptFor(c, t) = [endpoint |-> KeptFor(c, t).endpoint, values |-> KeptFor(c, t).values]
<1>1. Default(t) \in InputsOf(t)
  BY DEF Default, InputsOf
<1>2. KeptFor(c, t) \in InputsOf(t)
  BY <1>1 DEF KeptFor, CacheKept
<1>. QED  BY <1>2 DEF InputsOf

\* A save changes what is kept of the current template, and of no other.
LEMMA UpdateKeeps ==
  ASSUME NEW c, CacheKept(c), NEW t \in Names, NEW e \in Int, NEW vals \in [Vars(t) -> Int]
  PROVE  /\ CacheKept(Updated(c, t, e, vals))
         /\ KeptFor(Updated(c, t, e, vals), t) = [endpoint |-> e, values |-> vals]
         /\ \A u \in Names : u # t => KeptFor(Updated(c, t, e, vals), u) = KeptFor(c, u)
<1>. DEFINE new == Updated(c, t, e, vals)
            all == UNION {InputsOf(u) : u \in Names}
<1>0. t # "none"
  BY ControlAssumption DEF Names
<1>1. /\ new = [selected |-> t, templates |-> [x \in DOMAIN c.templates \cup {t} |->
                          IF x = t THEN [endpoint |-> e, values |-> vals] ELSE c.templates[x]]]
  BY <1>0 DEF Updated
<1>2. DOMAIN c.templates \in SUBSET Names
  BY DEF CacheKept, Caches
<1>3. [endpoint |-> e, values |-> vals] \in InputsOf(t)
  BY DEF InputsOf
<1>4. /\ DOMAIN new.templates = DOMAIN c.templates \cup {t} /\ new.templates[t] = [endpoint |-> e, values |-> vals]
      /\ \A x \in DOMAIN c.templates : x # t => new.templates[x] = c.templates[x]
  BY <1>1
<1>5. \A x \in DOMAIN new.templates : x \in Names /\ new.templates[x] \in InputsOf(x)
  BY <1>2, <1>3, <1>4 DEF CacheKept
<1>6. new.templates \in [DOMAIN c.templates \cup {t} -> all]
  <2>1. \A x \in DOMAIN c.templates \cup {t} :
          (IF x = t THEN [endpoint |-> e, values |-> vals] ELSE c.templates[x]) \in all
    BY <1>4, <1>5
  <2>. HIDE DEF all
  <2>. QED  BY <1>1, <2>1
<1>7. new \in Caches
  <2>. HIDE DEF all
  <2>1. DOMAIN c.templates \cup {t} \in SUBSET Names
    BY <1>2
  <2>2. new.templates \in UNION {[S -> all] : S \in SUBSET Names}
    BY <1>6, <2>1
  <2>3. new = [selected |-> t, templates |-> new.templates] /\ t \in Names \cup {"none"}
    BY <1>1
  <2>. HIDE DEF new
  <2>. QED  BY <2>2, <2>3 DEF Caches, all
<1>8. CacheKept(new)
  BY <1>5, <1>7 DEF CacheKept
<1>. QED  BY <1>4, <1>8 DEF KeptFor

\* Selecting a template, with a cache that gives each template what was left in it.
LEMMA LoadKeeps ==
  ASSUME NEW c, CacheKept(c), CacheInv, ControlTypes, controlLost = {}, NEW t \in Names,
         \A u \in Names : KeptFor(c, u) = lastShown[u],
         app = "down" => c = stateFile.cache, app # "down" => app = "up" /\ c = cache,
         LoadTemplate(c, t), listed' \in SUBSET Names, UNCHANGED <<present, sentControl>>
  PROVE  ControlTypes' /\ CacheInv' /\ TabShows' /\ controlLost' = {}
<1>0. KeptFor(c, t) \in InputsOf(t) /\ KeptFor(c, t) = [endpoint |-> KeptFor(c, t).endpoint, values |-> KeptFor(c, t).values]
  BY KeptShows
<1>1. CASE t \notin present \/ t \in Unparsable
  <2>1. /\ current' = "none" /\ inputs' = << >> /\ cache' = c /\ app' = "up"
        /\ UNCHANGED <<stateFile, endpoint, sendStatus, lastShown, controlLost>> /\ selected' = t
    BY <1>1 DEF LoadTemplate, ClearTemplate, NoSave
  <2>2. ControlTypes'
    BY <2>1 DEF ControlTypes
  <2>3. CacheInv' /\ TabShows'
    BY <2>1 DEF CacheInv, TabShows, KeptFor
  <2>. QED  BY <2>1, <2>2, <2>3
<1>2. CASE t \in present /\ t \notin Unparsable
  <2>1. /\ selected' = t /\ current' = t /\ UNCHANGED lastShown
        /\ endpoint' = KeptFor(c, t).endpoint /\ inputs' = KeptFor(c, t).values /\ controlLost' = controlLost
    BY <1>2 DEF LoadTemplate, TakeTemplate, Restore
  <2>2. endpoint' \in Int /\ inputs' \in [Vars(t) -> Int] /\ KeptFor(c, t) = [endpoint |-> endpoint', values |-> inputs']
    BY <1>0, <2>1 DEF InputsOf
  <2>3. /\ CacheKept(cache') /\ \A u \in Names : KeptFor(cache', u) = lastShown[u]
        /\ \/ app' = "up" /\ UNCHANGED stateFile
           \/ app' = "saving" /\ stateFile' = HalfWritten
    <3>1. CASE t \in Segmentless
      <4>1. cache' = [c EXCEPT !.selected = t] /\ app' = "up" /\ UNCHANGED stateFile
        BY <1>2, <3>1 DEF LoadTemplate, TakeTemplate, NoSave
      <4>2. cache' \in Caches /\ cache'.templates = c.templates
        BY <4>1 DEF CacheKept, Caches
      <4>. QED  BY <4>1, <4>2 DEF CacheKept, KeptFor
    <3>2. CASE t \notin Segmentless
      <4>1. cache' = Updated(c, t, endpoint', inputs') /\ app' = "saving" /\ stateFile' = HalfWritten
        BY <1>2, <3>2 DEF LoadTemplate, TakeTemplate
      <4>. QED  BY <4>1, <2>2, UpdateKeeps
    <3>. QED  BY <3>1, <3>2
  <2>4. CacheKept(stateFile'.cache)
    BY <2>3, NothingKept DEF ControlTypes, HalfWritten
  <2>5. ControlTypes'
    <3>1. app' \in {"down", "up", "saving"} /\ CacheKept(cache)' /\ CacheKept(stateFile.cache)'
      BY <2>3, <2>4 DEF CacheKept, InputsOf, Caches, Vars, ControlFields, Names
    <3>. QED  BY <2>1, <2>2, <3>1, ControlAssumption DEF ControlTypes, Names
  <2>6. CacheInv'
    <3>1. app' = "up" => stateFile'.cache = stateFile.cache /\ \A u \in Names : KeptFor(stateFile.cache, u) = lastShown[u]
      BY <2>3 DEF CacheInv, HalfWritten
    <3>. QED  BY <2>1, <2>3, <3>1 DEF CacheInv, KeptFor, Names, Default, Vars, ControlFields
  <2>7. TabShows'
    BY <1>2, <2>1, <2>2 DEF TabShows
  <2>. QED  BY <2>1, <2>5, <2>6, <2>7
<1>. QED  BY <1>1, <1>2

\* Typing keeps what was typed for the template that is selected.
LEMMA TypedKeeps ==
  ASSUME ControlInv, NEW e \in Int, NEW vals, Typed(e, vals),
         current = "none" => vals = << >>, current # "none" => vals \in [Vars(current) -> Int]
  PROVE  ControlInv'
<1>1. /\ app = "up" /\ endpoint' = e /\ inputs' = vals /\ app' = "saving" /\ stateFile' = HalfWritten
      /\ cache' = Updated(cache, current, e, vals)
      /\ UNCHANGED <<present, listed, selected, current, sentControl, sendStatus, controlLost>>
  BY DEF Typed, Save
<1>2. CacheKept(HalfWritten.cache)
  BY NothingKept DEF HalfWritten
<1>3. CASE current = "none"
  <2>1. cache' = cache /\ lastShown' = lastShown
    BY <1>1, <1>3 DEF Typed, Updated
  <2>2. ControlTypes'
    BY <1>1, <1>2, <1>3, <2>1 DEF ControlInv, ControlTypes
  <2>3. CacheInv' /\ TabShows' /\ SentRight' /\ controlLost' = {}
    BY <1>1, <1>3, <2>1 DEF ControlInv, CacheInv, TabShows, SentRight, KeptFor
  <2>. QED  BY <2>2, <2>3 DEF ControlInv
<1>4. CASE current # "none"
  <2>0. current \in Names /\ vals \in [Vars(current) -> Int] /\ CacheKept(cache)
    BY <1>4 DEF ControlInv, ControlTypes
  <2>1. lastShown' = [lastShown EXCEPT ![current] = [endpoint |-> e, values |-> vals]]
    BY <1>4 DEF Typed
  <2>2. [endpoint |-> e, values |-> vals] \in InputsOf(current)
    BY <2>0 DEF InputsOf
  <2>3. /\ CacheKept(cache') /\ KeptFor(cache', current) = [endpoint |-> e, values |-> vals]
        /\ \A u \in Names : u # current => KeptFor(cache', u) = KeptFor(cache, u)
    <3>. DEFINE new == Updated(cache, current, e, vals)
    <3>1. /\ CacheKept(new) /\ KeptFor(new, current) = [endpoint |-> e, values |-> vals]
          /\ \A u \in Names : u # current => KeptFor(new, u) = KeptFor(cache, u)
      BY <2>0, UpdateKeeps
    <3>. HIDE DEF new
    <3>2. cache' = new
      BY <1>1 DEF new
    <3>. QED  BY <3>1, <3>2
  <2>. DEFINE all == UNION {InputsOf(t) : t \in Names}
  <2>4. lastShown' \in [Names -> all] /\ \A t \in Names : lastShown'[t] \in InputsOf(t)
    <3>1. lastShown \in [Names -> all] /\ \A t \in Names : lastShown[t] \in InputsOf(t)
      BY DEF ControlInv, ControlTypes
    <3>2. [endpoint |-> e, values |-> vals] \in all
      BY <2>0, <2>2
    <3>. HIDE DEF all
    <3>. QED  BY <2>0, <2>1, <2>2, <3>1, <3>2
  <2>5. ControlTypes'
    BY <1>1, <1>2, <1>4, <2>0, <2>3, <2>4 DEF ControlInv, ControlTypes
  <2>6. CacheInv'
    <3>1. \A t \in Names : KeptFor(cache', t) = lastShown'[t]
      BY <2>0, <2>1, <2>3, <1>1 DEF ControlInv, CacheInv, ControlTypes
    <3>. QED  BY <1>1, <3>1 DEF CacheInv, KeptFor, Names
  <2>7. TabShows' /\ SentRight' /\ controlLost' = {}
    BY <1>1, <1>4, <2>0, <2>1 DEF ControlInv, TabShows, SentRight, ControlTypes
  <2>. QED  BY <2>5, <2>6, <2>7 DEF ControlInv
<1>. QED  BY <1>3, <1>4

\* A datagram that is sent has the fields that are shown.
LEMMA SendKeeps ==
  ASSUME ControlInv, SendControl
  PROVE  ControlInv'
<1>. DEFINE values == inputs
<1>0. /\ current \in Names /\ inputs \in [Vars(current) -> Int] /\ app = "up" /\ endpoint \in Int /\ CacheKept(cache)
      /\ [endpoint |-> endpoint, values |-> inputs] = lastShown[current]
      /\ UNCHANGED <<present, listed, selected, current, endpoint, inputs, inputsMade, lastShown, controlLost>>
  BY DEF SendControl, ControlInv, ControlTypes, TabShows
<1>1. CASE \A v \in DOMAIN inputs : Packs(KindOf(current, v), inputs[v])
  <2>1. /\ sentControl' = <<[template |-> current, fields |-> Payload(current, inputs), shown |-> inputs]>>
        /\ app' = "saving" /\ stateFile' = HalfWritten /\ cache' = Updated(cache, current, endpoint, inputs)
    BY <1>1 DEF SendControl, Save
  <2>2. /\ CacheKept(cache') /\ \A u \in Names : KeptFor(cache', u) = KeptFor(cache, u)
    <3>. DEFINE new == Updated(cache, current, endpoint, inputs)
    <3>1. /\ CacheKept(new) /\ KeptFor(new, current) = [endpoint |-> endpoint, values |-> inputs]
          /\ \A u \in Names : u # current => KeptFor(new, u) = KeptFor(cache, u)
      BY <1>0, UpdateKeeps
    <3>2. KeptFor(cache, current) = lastShown[current]
      BY <1>0 DEF ControlInv, CacheInv
    <3>. HIDE DEF new
    <3>3. cache' = new
      BY <2>1 DEF new
    <3>. QED  BY <1>0, <3>1, <3>2, <3>3
  <2>3. ControlTypes'
    BY <1>0, <2>1, <2>2, NothingKept DEF ControlInv, ControlTypes, HalfWritten
  <2>4. CacheInv' /\ TabShows' /\ controlLost' = {}
    BY <1>0, <2>1, <2>2 DEF ControlInv, CacheInv, TabShows
  <2>5. SentRight'
    <3>1. Controls[current] \in Seq([var : STRING, kind : Kinds]) /\ TextLength \in Nat
      BY <1>0, ControlAssumption DEF Names
    <3>2. ASSUME NEW i \in DOMAIN Controls[current]
          PROVE  Packed(Controls[current][i].kind, inputs[Controls[current][i].var]) \in Int
      <4>1. Controls[current][i].var \in Vars(current)
        BY DEF Vars, ControlFields
      <4>. QED  BY <1>0, <3>1, <4>1 DEF Packed
    <3>3. /\ DOMAIN Payload(current, inputs) = DOMAIN Controls[current]
          /\ \A i \in DOMAIN Controls[current] :
               Payload(current, inputs)[i] = Packed(Controls[current][i].kind, inputs[Controls[current][i].var])
      BY DEF Payload, ControlFields
    <3>4. Payload(current, inputs) \in [1..Len(Controls[current]) -> Int] /\ Len(Controls[current]) \in Nat
      BY <3>1, <3>2 DEF Payload, ControlFields
    <3>5. Payload(current, inputs) \in Seq(Int) /\ Len(Payload(current, inputs)) = Len(Controls[current])
      BY <3>4
    <3>7. ASSUME NEW i \in DOMAIN Payload(current, inputs)
          PROVE  LET field == ControlFields(current)[i]
                     x     == inputs[field.var]
                 IN Payload(current, inputs)[i] = IF field.kind = "text" /\ x > TextLength THEN TextLength ELSE x
      BY <3>3 DEF ControlFields, Packed
    <3>. DEFINE s == [template |-> current, fields |-> Payload(current, inputs), shown |-> inputs]
    <3>8. s.template = current /\ s.fields = Payload(current, inputs) /\ s.shown = inputs
      OBVIOUS
    <3>9. sentControl' = <<s>>
      BY <2>1
    <3>. HIDE DEF s
    <3>10. RightlySent(s)
      BY <1>0, <3>5, <3>7, <3>8 DEF RightlySent, ControlFields
    <3>11. ASSUME NEW k \in DOMAIN sentControl' PROVE sentControl'[k] = s
      BY <3>9
    <3>. QED  BY <3>10, <3>11 DEF SentRight, RightlySent, ControlFields, Names
  <2>. QED  BY <2>3, <2>4, <2>5 DEF ControlInv
<1>2. CASE ~ \A v \in DOMAIN inputs : Packs(KindOf(current, v), inputs[v])
  <2>1. UNCHANGED <<sentControl, cache, stateFile, app>>
    BY <1>2 DEF SendControl
  <2>2. ControlTypes'
    BY <1>0, <2>1 DEF ControlInv, ControlTypes
  <2>. QED  BY <1>0, <2>1, <2>2 DEF ControlInv, CacheInv, TabShows, SentRight
<1>. QED  BY <1>1, <1>2

\* Every step of the tab keeps the invariant.
LEMMA ControlStep ==
  ASSUME ControlInv, [ControlNext]_controlVars
  PROVE  ControlInv'
<1>0. /\ CacheKept(cache) /\ CacheKept(stateFile.cache) /\ controlLost = {} /\ ControlTypes /\ CacheInv
      /\ present \in SUBSET Names /\ listed \in SUBSET Names
  BY DEF ControlInv, ControlTypes
<1>1. ASSUME Build PROVE ControlInv'
  <2>0. app = "down" /\ listed' = present /\ UNCHANGED <<present, sentControl>>
    BY <1>1 DEF Build
  <2>1. CASE present = {}
    <3>1. /\ selected' = "none" /\ current' = "none" /\ inputs' = << >> /\ cache' = stateFile.cache /\ app' = "up"
          /\ UNCHANGED <<stateFile, endpoint, lastShown, controlLost>>
      BY <1>1, <2>1 DEF Build, ClearTemplate, NoSave
    <3>2. ControlTypes'
      BY <2>0, <3>1 DEF ControlInv, ControlTypes
    <3>. QED  BY <2>0, <3>1, <3>2 DEF ControlInv, CacheInv, TabShows, SentRight
  <2>2. CASE present # {}
    <3>. DEFINE t == IF stateFile.cache.selected \in present THEN stateFile.cache.selected ELSE FirstOf(present)
    <3>1. t \in Names /\ LoadTemplate(stateFile.cache, t)
      BY <1>0, <1>1, <2>2, ControlAssumption DEF Build, Names
    <3>. HIDE DEF t
    <3>2. \A u \in Names : KeptFor(stateFile.cache, u) = lastShown[u]
      BY <2>0 DEF ControlInv, CacheInv
    <3>3. ControlTypes' /\ CacheInv' /\ TabShows' /\ controlLost' = {}
      BY <1>0, <2>0, <3>1, <3>2, LoadKeeps
    <3>. QED  BY <2>0, <3>3 DEF ControlInv, SentRight
  <2>. QED  BY <2>1, <2>2
<1>2. ASSUME Refresh PROVE ControlInv'
  <2>0. app = "up" /\ listed' = present /\ UNCHANGED <<present, sentControl>>
    BY <1>2 DEF Refresh
  <2>1. CASE present = {}
    <3>1. /\ UNCHANGED selected /\ current' = "none" /\ inputs' = << >> /\ cache' = cache /\ app' = "up"
          /\ UNCHANGED <<stateFile, endpoint, lastShown, controlLost>>
      BY <1>2, <2>1 DEF Refresh, ClearTemplate, NoSave
    <3>2. ControlTypes'
      BY <2>0, <3>1 DEF ControlInv, ControlTypes
    <3>. QED  BY <2>0, <3>1, <3>2 DEF ControlInv, CacheInv, TabShows, SentRight
  <2>2. CASE present # {}
    <3>. DEFINE t == IF selected \in present THEN selected ELSE FirstOf(present)
    <3>1. t \in Names /\ LoadTemplate(cache, t)
      BY <1>0, <1>2, <2>2, ControlAssumption DEF Refresh, Names
    <3>. HIDE DEF t
    <3>2. \A u \in Names : KeptFor(cache, u) = lastShown[u]
      BY <2>0 DEF ControlInv, CacheInv
    <3>3. ControlTypes' /\ CacheInv' /\ TabShows' /\ controlLost' = {}
      BY <1>0, <2>0, <3>1, <3>2, LoadKeeps
    <3>. QED  BY <2>0, <3>3 DEF ControlInv, SentRight
  <2>. QED  BY <2>1, <2>2
<1>3. ASSUME SelectTemplate PROVE ControlInv'
  <2>1. app = "up" /\ UNCHANGED <<present, listed, sentControl>>
    BY <1>3 DEF SelectTemplate
  <2>2. PICK t \in listed : LoadTemplate(cache, t)
    BY <1>3 DEF SelectTemplate
  <2>3. \A u \in Names : KeptFor(cache, u) = lastShown[u]
    BY <2>1 DEF ControlInv, CacheInv
  <2>4. ControlTypes' /\ CacheInv' /\ TabShows' /\ controlLost' = {}
    BY <1>0, <2>1, <2>2, <2>3, LoadKeeps
  <2>. QED  BY <2>1, <2>4 DEF ControlInv, SentRight
<1>4. ASSUME TypeEndpoint PROVE ControlInv'
  <2>1. /\ Typed(2, inputs) /\ (current = "none" => inputs = << >>) /\ (current # "none" => inputs \in [Vars(current) -> Int])
    BY <1>4 DEF TypeEndpoint, ControlInv, ControlTypes
  <2>. QED  BY <2>1, TypedKeeps
<1>5. ASSUME TypeValue PROVE ControlInv'
  <2>1. PICK v \in DOMAIN inputs : \E x \in InputValues(KindOf(current, v)) : Typed(endpoint, [inputs EXCEPT ![v] = x])
    BY <1>5 DEF TypeValue
  <2>0. PICK x \in InputValues(KindOf(current, v)) : Typed(endpoint, [inputs EXCEPT ![v] = x])
    BY <2>1
  <2>2. current # "none" /\ current \in Names /\ inputs \in [Vars(current) -> Int]
    <3>1. current = "none" => DOMAIN inputs = {}
      BY DEF ControlInv, ControlTypes
    <3>. QED  BY <2>1, <3>1 DEF ControlInv, ControlTypes
  <2>3. KindOf(current, v) \in Kinds
    <3>1. Controls[current] \in Seq([var : STRING, kind : Kinds])
      BY <2>2, ControlAssumption DEF Names
    <3>2. \E i \in DOMAIN Controls[current] : Controls[current][i].var = v
      BY <2>2 DEF Vars, ControlFields
    <3>. DEFINE i == CHOOSE i \in DOMAIN Controls[current] : Controls[current][i].var = v
    <3>3. i \in DOMAIN Controls[current]
      BY <3>2
    <3>4. KindOf(current, v) = Controls[current][i].kind
      BY DEF KindOf, ControlFields
    <3>. HIDE DEF i
    <3>5. Controls[current][i] \in [var : STRING, kind : Kinds]
      <4>. DEFINE fields == Controls[current]
                  Of == [var : STRING, kind : Kinds]
      <4>1. fields \in Seq(Of) /\ i \in DOMAIN fields
        BY <3>1, <3>3
      <4>. HIDE DEF fields, Of
      <4>2. fields[i] \in Of
        BY <4>1
      <4>. QED  BY <4>2 DEF fields, Of
    <3>. QED  BY <3>4, <3>5
  <2>4. x \in Int
    BY <2>0, <2>3, ControlAssumption DEF InputValues, Kinds
  <2>5. [inputs EXCEPT ![v] = x] \in [Vars(current) -> Int] /\ endpoint \in Int
    BY <2>2, <2>4 DEF ControlInv, ControlTypes
  <2>. QED  BY <2>0, <2>2, <2>5, TypedKeeps
<1>6. ASSUME SendControl PROVE ControlInv'
  BY <1>6, SendKeeps
<1>7. ASSUME WriteControls PROVE ControlInv'
  <2>1. /\ app = "saving" /\ app' = "up" /\ stateFile' = FileOf(cache) /\ stateFile'.cache = cache
        /\ UNCHANGED <<present, listed, selected, current, endpoint, inputs, cache, sentControl, lastShown, controlLost>>
    BY <1>7 DEF WriteControls, FileOf
  <2>2. ControlTypes'
    BY <2>1 DEF ControlInv, ControlTypes
  <2>. QED  BY <2>1, <2>2 DEF ControlInv, CacheInv, TabShows, SentRight
<1>8. ASSUME EndConsole PROVE ControlInv'
  <2>1. /\ app' = "down" /\ UNCHANGED <<present, listed, selected, current, endpoint, inputs, cache, stateFile, sentControl, controlLost>>
    BY <1>8 DEF EndConsole
  <2>2. CASE app = "saving"
    <3>1. lastShown' = [t \in Names |-> Default(t)] /\ \A t \in Names : Default(t) \in InputsOf(t)
      BY <1>8, <2>2 DEF EndConsole, Default, InputsOf, Names
    <3>. DEFINE all == UNION {InputsOf(t) : t \in Names}
    <3>2. lastShown' \in [Names -> all] /\ \A t \in Names : lastShown'[t] \in InputsOf(t)
      <4>1. \A t \in Names : Default(t) \in all
        BY <3>1
      <4>. HIDE DEF all
      <4>. QED  BY <3>1, <4>1
    <3>3. ControlTypes'
      BY <2>1, <3>2 DEF ControlInv, ControlTypes
    <3>4. \A t \in Names : KeptFor(stateFile.cache, t) = Default(t)
      <4>1. stateFile.cache = NoCache /\ DOMAIN NoCache.templates = {}
        BY <2>2 DEF ControlInv, CacheInv, HalfWritten, NoCache
      <4>. QED  BY <4>1 DEF KeptFor
    <3>. QED  BY <2>1, <3>1, <3>3, <3>4 DEF ControlInv, CacheInv, TabShows, SentRight
  <2>3. CASE app # "saving"
    <3>1. UNCHANGED lastShown
      BY <1>8, <2>3 DEF EndConsole
    <3>2. ControlTypes'
      BY <2>1, <3>1 DEF ControlInv, ControlTypes
    <3>. QED  BY <2>1, <2>3, <3>1, <3>2 DEF ControlInv, CacheInv, TabShows, SentRight
  <2>. QED  BY <2>2, <2>3
<1>9. ASSUME TemplatesChange PROVE ControlInv'
  <2>1. UNCHANGED <<listed, selected, current, endpoint, inputs, cache, stateFile, app, sentControl, lastShown, controlLost>>
    BY <1>9 DEF TemplatesChange
  <2>2. present' \in SUBSET Names
    BY <1>0, <1>9 DEF TemplatesChange, Names
  <2>3. ControlTypes'
    BY <2>1, <2>2 DEF ControlInv, ControlTypes
  <2>. QED  BY <2>1, <2>3 DEF ControlInv, CacheInv, TabShows, SentRight
<1>10. CASE UNCHANGED controlVars
  <2>1. ControlTypes'
    BY <1>10 DEF ControlInv, ControlTypes, controlVars
  <2>. QED  BY <1>10, <2>1 DEF ControlInv, CacheInv, TabShows, SentRight, controlVars
<1>. QED  BY <1>1, <1>2, <1>3, <1>4, <1>5, <1>6, <1>7, <1>8, <1>9, <1>10 DEF ControlNext

\* What is typed for a template comes back for that template, and what is sent is
\* what is shown, for any templates and any number of inputs.
THEOREM ControlsStayKept == ControlSpec => []ControlsKept
<1>1. ControlInit => ControlInv
  <2>. SUFFICES ASSUME ControlInit PROVE ControlInv
    OBVIOUS
  <2>1. lastShown = [t \in Names |-> Default(t)] /\ \A t \in Names : Default(t) \in InputsOf(t)
    BY DEF ControlInit, Default, InputsOf, Names
  <2>. DEFINE all == UNION {InputsOf(t) : t \in Names}
  <2>2. lastShown \in [Names -> all] /\ \A t \in Names : lastShown[t] \in InputsOf(t)
    <3>1. \A t \in Names : Default(t) \in all
      BY <2>1
    <3>. HIDE DEF all
    <3>. QED  BY <2>1, <3>1
  <2>3. ControlTypes
    BY <2>2, NothingKept DEF ControlInit, ControlTypes, Names
  <2>4. CacheInv
    <3>1. stateFile.cache = NoCache /\ DOMAIN NoCache.templates = {} /\ app = "down"
      BY DEF ControlInit, NoCache
    <3>. QED  BY <2>1, <3>1 DEF CacheInv, KeptFor
  <2>5. DOMAIN sentControl = {}
    BY DEF ControlInit
  <2>. QED  BY <2>3, <2>4, <2>5 DEF ControlInit, ControlInv, TabShows, SentRight
<1>2. ControlInv => ControlsKept
  BY DEF ControlInv, TabShows, SentRight, RightlySent, ControlsKept
<1>3. ControlInv /\ [ControlNext]_controlVars => ControlInv'
  BY ControlStep
<1>. QED  BY <1>1, <1>2, <1>3, PTL DEF ControlSpec

-----------------------------------------------------------------------------
(* VehicleForms.  The tabs with a list of vehicles.                        *)

VehicleValues == {0, 1, 2, 3, Partly}
SavedValues == VehicleValues \cup {Bad}
VehicleRows(n) == 1..Least0(n)
FormTypes ==
  /\ listTab \in {"follow", "playback"} /\ formPhase \in {"down", "up", "writing"}
  /\ vehicleCount \in Int /\ listRows \in [VehicleRows(vehicleCount) -> VehicleValues] /\ others \in {0, 1, 2}
  /\ listFile.is = "json" => /\ listFile.count \in Int /\ listFile.others \in {Bad, 0, 1, 2}
                             /\ \E k \in Nat : listFile.rows \in [1..k -> SavedValues]
\* The file is what was kept, as soon as it is written.
FileInv ==
  /\ formPhase = "writing" => keptList = <<FormShown(vehicleCount, listRows, others)>>
  /\ keptList # << >> =>
       /\ keptList = <<keptList[1]>> /\ keptList[1].count \in Int /\ keptList[1].others \in {0, 1, 2}
       /\ keptList[1].rows \in [VehicleRows(keptList[1].count) -> VehicleValues]
       /\ keptList[1] = FormShown(keptList[1].count, keptList[1].rows, keptList[1].others)
       /\ listTab = "playback" => keptList[1].others = 0
       /\ formPhase # "writing" => listFile = ListJson(keptList[1].count, keptList[1].rows, keptList[1].others)
FollowInv ==
  /\ listTab = "playback" => others = 0
  /\ listTab = "follow" =>
       ~vehicleLost /\ (formPhase # "down" /\ keptList # << >> => keptList[1] = FormShown(vehicleCount, listRows, others))
FormInv == FormTypes /\ FileInv /\ FollowInv

\* A list is as long as its count says, and only what can be read is in it.
LEMMA AppliedRows ==
  ASSUME NEW n \in Int, NEW k \in Nat, NEW saved \in [1..k -> SavedValues]
  PROVE  /\ BuildVehicles(n) \in [VehicleRows(n) -> VehicleValues]
         /\ ApplyVehicles(BuildVehicles(n), saved) \in [VehicleRows(n) -> VehicleValues]
<1>1. BuildVehicles(n) \in [VehicleRows(n) -> VehicleValues] /\ \A i \in VehicleRows(n) : BuildVehicles(n)[i] = 0
  BY DEF BuildVehicles, VehicleRows, VehicleValues
<1>2. ASSUME NEW i \in VehicleRows(n)
      PROVE  (IF i \notin DOMAIN saved \/ ~ReadBefore(saved, i) THEN BuildVehicles(n)[i]
              ELSE IF saved[i] = Bad THEN Partly ELSE saved[i]) \in VehicleValues
  BY <1>1 DEF SavedValues, VehicleValues
<1>. QED  BY <1>1, <1>2 DEF ApplyVehicles

\* Where everything can be read, the list is what was saved, as far as both go.
LEMMA AppliedWhole ==
  ASSUME NEW n \in Int, NEW m \in Int, NEW saved \in [VehicleRows(m) -> VehicleValues]
  PROVE  /\ \A i \in VehicleRows(n) \cap VehicleRows(m) : ApplyVehicles(BuildVehicles(n), saved)[i] = saved[i]
         /\ DOMAIN ApplyVehicles(BuildVehicles(n), saved) = VehicleRows(n)
         /\ n = m => ApplyVehicles(BuildVehicles(n), saved) = saved
         /\ \A built : ~Raises(built, saved)
<1>1. \A i \in VehicleRows(m) : saved[i] # Bad /\ saved[i] \in VehicleValues
  BY DEF VehicleValues, Bad, Partly
<1>2. \A i \in VehicleRows(m) : ReadBefore(saved, i)
  BY <1>1 DEF ReadBefore, VehicleRows, Least0
<1>3. DOMAIN BuildVehicles(n) = VehicleRows(n) /\ DOMAIN saved = VehicleRows(m)
  BY DEF BuildVehicles, VehicleRows
<1>4. ApplyVehicles(BuildVehicles(n), saved) =
        [i \in VehicleRows(n) |-> IF i \notin VehicleRows(m) \/ ~ReadBefore(saved, i) THEN BuildVehicles(n)[i]
                           ELSE IF saved[i] = Bad THEN Partly ELSE saved[i]]
  BY <1>3 DEF ApplyVehicles
<1>5. n = m => ApplyVehicles(BuildVehicles(n), saved) = saved
  BY <1>1, <1>2, <1>3, <1>4
<1>6. \A built : ~Raises(built, saved)
  BY <1>1, <1>3 DEF Raises
<1>. QED  BY <1>1, <1>2, <1>4, <1>5, <1>6

\* A save, and what it keeps.
LEMMA SaveKeeps ==
  ASSUME FormInv, SaveList(vehicleCount', listRows', others'), UNCHANGED listTab,
         vehicleCount' \in Int, listRows' \in [VehicleRows(vehicleCount') -> VehicleValues], others' \in {0, 1, 2},
         listTab = "playback" => others' = 0, listTab = "follow" => ~vehicleLost'
  PROVE  FormInv'
<1>1. /\ formPhase' = "writing" /\ listFile' = NoList("torn") /\ keptList' = <<FormShown(vehicleCount', listRows', others')>>
  BY DEF SaveList
<1>2. FormTypes'
  BY <1>1 DEF FormInv, FormTypes, NoList, VehicleRows, Least0
<1>. DEFINE kept == FormShown(vehicleCount', listRows', others')
<1>3. keptList' = <<kept>> /\ keptList'[1] = kept /\ keptList' # << >>
      /\ kept.count = vehicleCount' /\ kept.rows = listRows' /\ kept.others = others'
  BY <1>1 DEF FormShown
<1>4. FileInv'
  BY <1>1, <1>3 DEF FileInv, FormShown, VehicleRows, Least0
<1>5. FollowInv'
  BY <1>3 DEF FormInv, FollowInv, FormShown
<1>. QED  BY <1>2, <1>4, <1>5 DEF FormInv

\* What a tab shows of a file.
LEMMA ReopenedTypes ==
  ASSUME FormInv, listFile.is = "json", NEW refuses \in BOOLEAN
  PROVE  LET s == Reopened(listFile, refuses)
         IN /\ s = FormShown(s.count, s.rows, s.others) /\ s.count \in Int /\ s.rows \in [VehicleRows(s.count) -> VehicleValues]
            /\ s.others \in {0, 1, 2} /\ (listTab = "playback" => s.others = 0 /\ s.count \in 1..MaxCount)
<1>. DEFINE s == Reopened(listFile, refuses)
<1>1. PICK k \in Nat : listFile.rows \in [1..k -> SavedValues]
  BY DEF FormInv, FormTypes
<1>2. listFile.count \in Int /\ listFile.others \in {Bad, 0, 1, 2} /\ MaxCount \in Nat \ {0}
  BY FormAssumption DEF FormInv, FormTypes
<1>3. CASE listTab = "follow"
  <2>. DEFINE n == listFile.count
              rest == IF Raises(BuildVehicles(n), listFile.rows) \/ listFile.others = Bad THEN 0 ELSE listFile.others
  <2>1. s = FormShown(n, ApplyVehicles(BuildVehicles(n), listFile.rows), rest)
    BY <1>3 DEF Reopened, ReadFollow
  <2>2. ApplyVehicles(BuildVehicles(n), listFile.rows) \in [VehicleRows(n) -> VehicleValues] /\ rest \in {0, 1, 2}
    BY <1>1, <1>2, AppliedRows
  <2>. HIDE DEF rest, n, s
  <2>3. s.count = n /\ s.rows = ApplyVehicles(BuildVehicles(n), listFile.rows) /\ s.others = rest
    BY <2>1 DEF FormShown
  <2>4. s = FormShown(s.count, s.rows, s.others) /\ s.count \in Int
    BY <1>2, <2>1, <2>3 DEF n
  <2>. QED  BY <1>3, <2>2, <2>3, <2>4 DEF s
<1>4. CASE listTab = "playback"
  <2>. DEFINE n == Clamp(listFile.count)
              list == IF refuses THEN [i \in DOMAIN listFile.rows |-> IF listFile.rows[i] = Bad THEN 0 ELSE listFile.rows[i]]
                      ELSE listFile.rows
  <2>1. s = FormShown(n, ApplyVehicles(BuildVehicles(n), list), 0)
    BY <1>4 DEF Reopened, ReadPlayback
  <2>2. n \in 1..MaxCount
    BY <1>2 DEF Clamp
  <2>3. list \in [1..k -> SavedValues]
    BY <1>1 DEF SavedValues, VehicleValues
  <2>. HIDE DEF list, n
  <2>4. ApplyVehicles(BuildVehicles(n), list) \in [VehicleRows(n) -> VehicleValues]
    BY <2>2, <2>3, AppliedRows
  <2>. HIDE DEF s
  <2>5. s.count = n /\ s.rows = ApplyVehicles(BuildVehicles(n), list) /\ s.others = 0
    BY <2>1 DEF FormShown
  <2>6. s = FormShown(s.count, s.rows, s.others)
    BY <2>1, <2>5
  <2>. QED  BY <1>2, <1>4, <2>2, <2>4, <2>5, <2>6 DEF s
<1>. QED  BY <1>3, <1>4 DEF FormInv, FormTypes

\* What was kept is what is shown.
LEMMA KeptComesBack ==
  ASSUME FormInv, keptList # << >>, formPhase # "writing", NEW refuses \in BOOLEAN
  PROVE  LET s == Reopened(listFile, refuses) kept == keptList[1]
         IN /\ s.others = kept.others /\ ~Raises(s.rows, listFile.rows) /\ listFile.is = "json" /\ listFile.others # Bad
            /\ IF listTab = "follow" \/ kept.count \in 1..MaxCount THEN s = kept
               ELSE \A i \in DOMAIN s.rows \cap DOMAIN kept.rows : s.rows[i] = kept.rows[i]
<1>. DEFINE s == Reopened(listFile, refuses)
            kept == keptList[1]
            n == kept.count
            rows == kept.rows
<1>1. /\ n \in Int /\ kept.others \in {0, 1, 2} /\ rows \in [VehicleRows(n) -> VehicleValues]
      /\ kept = FormShown(n, rows, kept.others) /\ (listTab = "playback" => kept.others = 0)
      /\ listFile = ListJson(n, rows, kept.others)
  BY DEF FormInv, FileInv
<1>. HIDE DEF kept
<1>2. listFile.is = "json" /\ listFile.count = n /\ listFile.rows = rows /\ listFile.others = kept.others
  BY <1>1 DEF ListJson
<1>3. listFile.others # Bad
  BY <1>1, <1>2 DEF Bad
<1>4. \A built : ~Raises(built, rows)
  BY <1>1, AppliedWhole
<1>5. CASE listTab = "follow"
  <2>1. s = FormShown(n, ApplyVehicles(BuildVehicles(n), rows), kept.others)
    BY <1>2, <1>3, <1>4, <1>5 DEF Reopened, ReadFollow
  <2>2. ApplyVehicles(BuildVehicles(n), rows) = rows
    BY <1>1, AppliedWhole
  <2>3. s = kept
    BY <1>1, <2>1, <2>2
  <2>. QED  BY <1>2, <1>3, <1>4, <1>5, <2>3 DEF kept
<1>6. CASE listTab = "playback"
  <2>. DEFINE c == Clamp(n)
              list == IF refuses THEN [i \in DOMAIN rows |-> IF rows[i] = Bad THEN 0 ELSE rows[i]] ELSE rows
  <2>1. list = rows
    <3>1. \A i \in VehicleRows(n) : rows[i] # Bad
      BY <1>1 DEF VehicleValues, Bad, Partly
    <3>. QED  BY <1>1, <3>1
  <2>2. s = FormShown(c, ApplyVehicles(BuildVehicles(c), list), 0)
    BY <1>2, <1>6 DEF Reopened, ReadPlayback
  <2>3. c \in Int /\ (n \in 1..MaxCount => c = n)
    BY <1>1, FormAssumption DEF Clamp
  <2>. HIDE DEF c, list
  <2>4. /\ \A i \in VehicleRows(c) \cap VehicleRows(n) : ApplyVehicles(BuildVehicles(c), rows)[i] = rows[i]
        /\ DOMAIN ApplyVehicles(BuildVehicles(c), rows) = VehicleRows(c)
        /\ c = n => ApplyVehicles(BuildVehicles(c), rows) = rows
    BY <1>1, <2>3, AppliedWhole
  <2>5. s = FormShown(c, ApplyVehicles(BuildVehicles(c), rows), 0) /\ kept.others = 0
    BY <1>1, <1>6, <2>1, <2>2
  <2>6. s.count = c /\ s.rows = ApplyVehicles(BuildVehicles(c), rows) /\ s.others = 0
    BY <2>5 DEF FormShown
  <2>7. n \in 1..MaxCount => s = kept
    BY <1>1, <2>3, <2>4, <2>5
  <2>8. \A i \in DOMAIN s.rows \cap DOMAIN rows : s.rows[i] = rows[i]
    BY <1>1, <2>4, <2>6
  <2>. QED  BY <1>2, <1>3, <1>4, <1>6, <2>5, <2>6, <2>7, <2>8 DEF kept
<1>. QED  BY <1>5, <1>6 DEF FormInv, FormTypes

\* Every step of a tab keeps the invariant.
LEMMA FormStep ==
  ASSUME FormInv, [FormNext]_formVars
  PROVE  FormInv'
<1>0. /\ vehicleCount \in Int /\ listRows \in [VehicleRows(vehicleCount) -> VehicleValues] /\ others \in {0, 1, 2}
      /\ (listTab = "playback" => others = 0) /\ (listTab = "follow" => ~vehicleLost)
      /\ FirstCount \in Int /\ listTab \in {"follow", "playback"}
  BY FormAssumption DEF FormInv, FormTypes, FollowInv
<1>1. ASSUME OpenForm PROVE FormInv'
  <2>1. formPhase = "down" /\ UNCHANGED <<listTab, browsing, vehicleLost>>
    BY <1>1 DEF OpenForm
  <2>2. CASE listFile.is # "json"
    <3>1. /\ vehicleCount' = FirstCount /\ listRows' = BuildVehicles(FirstCount) /\ others' = 0 /\ formPhase' = "up"
          /\ UNCHANGED <<listFile, keptList>>
      BY <1>1, <2>2 DEF OpenForm, Show, FormShown, NotSaved
    <3>2. listRows' \in [VehicleRows(vehicleCount') -> VehicleValues]
      BY <1>0, <3>1 DEF BuildVehicles, VehicleRows, VehicleValues
    <3>3. keptList = << >>
      BY <2>1, <2>2 DEF FormInv, FileInv, ListJson
    <3>4. FormTypes'
      BY <1>0, <2>1, <3>1, <3>2 DEF FormInv, FormTypes, VehicleRows, Least0
    <3>. QED  BY <1>0, <2>1, <3>1, <3>3, <3>4 DEF FormInv, FileInv, FollowInv
  <2>3. CASE listFile.is = "json"
    <3>. DEFINE shown(r) == Reopened(listFile, r)
    <3>1. PICK refuses \in BOOLEAN :
            /\ Show(shown(refuses))
            /\ IF listTab = "playback" \/ Raises(shown(refuses).rows, listFile.rows) \/ listFile.others = Bad THEN NotSaved
               ELSE SaveList(shown(refuses).count, shown(refuses).rows, shown(refuses).others)
      BY <1>1, <2>3 DEF OpenForm
    <3>. DEFINE s == shown(refuses)
    <3>2. /\ s = FormShown(s.count, s.rows, s.others) /\ s.count \in Int /\ s.rows \in [VehicleRows(s.count) -> VehicleValues]
          /\ s.others \in {0, 1, 2} /\ (listTab = "playback" => s.others = 0)
      BY <2>3, ReopenedTypes
    <3>3. /\ keptList # << >> => ~Raises(s.rows, listFile.rows) /\ listFile.others # Bad
          /\ keptList # << >> /\ listTab = "follow" => s = keptList[1]
      BY <2>1, KeptComesBack
    <3>. HIDE DEF shown
    <3>4. vehicleCount' = s.count /\ listRows' = s.rows /\ others' = s.others
      BY <3>1 DEF Show
    <3>. HIDE DEF s
    <3>5. CASE NotSaved /\ (listTab = "playback" \/ keptList = << >>)
      <4>1. formPhase' = "up" /\ UNCHANGED <<listFile, keptList>>
        BY <3>5 DEF NotSaved
      <4>2. FormTypes'
        BY <1>0, <2>1, <3>2, <3>4, <4>1 DEF FormInv, FormTypes, VehicleRows, Least0
      <4>3. FileInv'
        BY <2>1, <4>1 DEF FormInv, FileInv, FormShown, ListJson, VehicleRows, Least0
      <4>4. FollowInv'
        BY <1>0, <2>1, <3>2, <3>4, <3>5, <4>1 DEF FollowInv
      <4>. QED  BY <4>2, <4>3, <4>4 DEF FormInv
    <3>6. CASE SaveList(s.count, s.rows, s.others)
      BY <1>0, <2>1, <3>2, <3>4, <3>6, SaveKeeps
    <3>. QED  BY <3>1, <3>3, <3>5, <3>6 DEF s
  <2>. QED  BY <2>2, <2>3
<1>2. ASSUME ChangeCount PROVE FormInv'
  <2>. DEFINE list(n) == IF listTab = "follow" THEN ApplyVehicles(BuildVehicles(n), listRows) ELSE BuildVehicles(n)
  <2>1. PICK n \in -1..(MaxCount + 1) :
          /\ vehicleCount' = n /\ listRows' = list(n) /\ SaveList(n, list(n), others)
          /\ vehicleLost' = (vehicleLost \/ \E i \in DOMAIN listRows \cap DOMAIN list(n) : list(n)[i] # listRows[i])
    BY <1>2 DEF ChangeCount
  <2>2. n \in Int /\ UNCHANGED <<listTab, others>>
    BY <1>2, FormAssumption DEF ChangeCount
  <2>3. list(n) \in [VehicleRows(n) -> VehicleValues]
    <3>1. BuildVehicles(n) \in [VehicleRows(n) -> VehicleValues]
      BY <2>2 DEF BuildVehicles, VehicleRows, VehicleValues
    <3>2. \E k \in Nat : listRows \in [1..k -> SavedValues]
      <4>1. Least0(vehicleCount) \in Nat
        BY <1>0 DEF Least0
      <4>. QED  BY <1>0, <4>1 DEF VehicleRows, SavedValues
    <3>. QED  BY <2>2, <3>1, <3>2, AppliedRows
  <2>4. listTab = "follow" => ~vehicleLost'
    <3>1. SUFFICES ASSUME listTab = "follow"
                   PROVE  \A i \in DOMAIN listRows \cap DOMAIN list(n) : list(n)[i] = listRows[i]
      BY <1>0, <2>1
    <3>. QED  BY <1>0, <2>2, <3>1, AppliedWhole
  <2>. HIDE DEF list
  <2>. QED  BY <1>0, <2>1, <2>2, <2>3, <2>4, SaveKeeps
<1>3. ASSUME FillRow PROVE FormInv'
  <2>1. /\ formPhase = "up" /\ UNCHANGED <<listTab, vehicleCount, others, vehicleLost>>
        /\ listRows' \in [VehicleRows(vehicleCount) -> VehicleValues]
    BY <1>0, <1>3 DEF FillRow, UseTab, VehicleValues
  <2>2. CASE listTab = "follow"
    <3>1. SaveList(vehicleCount', listRows', others') /\ UNCHANGED listTab
      BY <1>3, <2>1, <2>2 DEF FillRow
    <3>. QED  BY <1>0, <2>1, <2>2, <3>1, SaveKeeps
  <2>3. CASE listTab = "playback"
    <3>1. formPhase' = "up" /\ UNCHANGED <<listFile, keptList>>
      BY <1>3, <2>3 DEF FillRow, NotSaved
    <3>2. FormTypes'
      BY <2>1, <3>1 DEF FormInv, FormTypes
    <3>3. FileInv'
      BY <2>1, <3>1 DEF FormInv, FileInv, FormShown, ListJson, VehicleRows, Least0
    <3>. QED  BY <1>0, <2>1, <2>3, <3>2, <3>3 DEF FormInv, FollowInv
  <2>. QED  BY <1>0, <2>2, <2>3
<1>4. ASSUME FillOthers PROVE FormInv'
  <2>1. /\ SaveList(vehicleCount', listRows', others') /\ UNCHANGED <<listTab, vehicleCount, listRows, vehicleLost>>
        /\ others' = 2 /\ listTab = "follow"
    BY <1>4 DEF FillOthers
  <2>. QED  BY <1>0, <2>1, SaveKeeps
<1>5. ASSUME PlayList PROVE FormInv'
  <2>1. /\ SaveList(vehicleCount', listRows', others')
        /\ UNCHANGED <<listTab, vehicleCount, listRows, others, vehicleLost>>
    BY <1>5 DEF PlayList
  <2>. QED  BY <1>0, <2>1, SaveKeeps
<1>6. ASSUME Browse PROVE FormInv'
  <2>1. UNCHANGED <<listTab, formPhase, vehicleCount, listRows, others, listFile, keptList, vehicleLost>>
    BY <1>6 DEF Browse
  <2>2. FormTypes'
    BY <2>1 DEF FormInv, FormTypes
  <2>. QED  BY <2>1, <2>2 DEF FormInv, FileInv, FollowInv
<1>7. ASSUME TakePath PROVE FormInv'
  <2>0. UNCHANGED <<listTab, vehicleCount, others, vehicleLost>> /\ formPhase = "up"
    BY <1>7 DEF TakePath
  <2>1. PICK i \in browsing :
          IF i \in DOMAIN listRows
          THEN listRows' = [listRows EXCEPT ![i] = 3] /\ SaveList(vehicleCount, listRows', others)
          ELSE NotSaved /\ UNCHANGED listRows
    BY <1>7 DEF TakePath
  <2>2. CASE i \in DOMAIN listRows
    <3>1. listRows' \in [VehicleRows(vehicleCount') -> VehicleValues] /\ SaveList(vehicleCount', listRows', others')
      BY <1>0, <2>0, <2>1, <2>2 DEF VehicleValues
    <3>. QED  BY <1>0, <2>0, <3>1, SaveKeeps
  <2>3. CASE i \notin DOMAIN listRows
    <3>1. formPhase' = "up" /\ UNCHANGED <<listRows, listFile, keptList>>
      BY <2>1, <2>3 DEF NotSaved
    <3>2. FormTypes'
      BY <2>0, <3>1 DEF FormInv, FormTypes
    <3>. QED  BY <2>0, <3>1, <3>2 DEF FormInv, FileInv, FollowInv
  <2>. QED  BY <2>2, <2>3
<1>8. ASSUME WriteList PROVE FormInv'
  <2>1. /\ formPhase = "writing" /\ formPhase' = "up" /\ listFile' = ListJson(vehicleCount, listRows, others)
        /\ UNCHANGED <<listTab, vehicleCount, listRows, others, keptList, vehicleLost>>
    BY <1>8 DEF WriteList
  <2>2. /\ listFile'.is = "json" /\ listFile'.count = vehicleCount /\ listFile'.rows = listRows
        /\ listFile'.others = others
    BY <2>1 DEF ListJson
  <2>3. Least0(vehicleCount) \in Nat /\ listRows \in [1..Least0(vehicleCount) -> SavedValues]
    BY <1>0 DEF Least0, VehicleRows, SavedValues
  <2>4. FormTypes'
    BY <1>0, <2>1, <2>2, <2>3 DEF FormInv, FormTypes
  <2>5. keptList[1].count = vehicleCount /\ keptList[1].rows = listRows /\ keptList[1].others = others
    BY <2>1 DEF FormInv, FileInv, FormShown
  <2>6. FileInv'
    BY <2>1, <2>5 DEF FormInv, FileInv, VehicleRows, Least0, FormShown, ListJson
  <2>. QED  BY <2>1, <2>4, <2>6 DEF FormInv, FollowInv, FileInv
<1>9. ASSUME EndTab PROVE FormInv'
  <2>1. /\ formPhase' = "down" /\ keptList' = IF formPhase = "writing" THEN << >> ELSE keptList
        /\ UNCHANGED <<listTab, vehicleCount, listRows, others, listFile, vehicleLost>>
    BY <1>9 DEF EndTab
  <2>2. FormTypes'
    BY <2>1 DEF FormInv, FormTypes
  <2>. QED  BY <2>1, <2>2 DEF FormInv, FileInv, FollowInv
<1>10. CASE UNCHANGED formVars
  <2>1. FormTypes'
    BY <1>10 DEF FormInv, FormTypes, formVars
  <2>. QED  BY <1>10, <2>1 DEF FormInv, FileInv, FollowInv, formVars
<1>. QED  BY <1>1, <1>2, <1>3, <1>4, <1>5, <1>6, <1>7, <1>8, <1>9, <1>10 DEF FormNext

\* What a tab saved it shows after the next start, and a change of the count of
\* Path Follow keeps the vehicles that stay, for any counts and any number of uses.
THEOREM VehiclesStayKept == FormSpec => []VehiclesKept
<1>1. FormInit => FormInv
  <2>. SUFFICES ASSUME FormInit PROVE FormInv
    OBVIOUS
  <2>1. FirstCount \in Int
    BY FormAssumption
  <2>2. listRows \in [VehicleRows(vehicleCount) -> VehicleValues]
    BY <2>1 DEF FormInit, BuildVehicles, VehicleRows, VehicleValues
  <2>3. listFile.is = "json" => /\ listFile.count \in Int /\ listFile.others \in {Bad, 0, 1, 2}
                                /\ \E k \in Nat : listFile.rows \in [1..k -> SavedValues]
    <3>1. CASE listFile \in {NoList("absent"), NoList("torn"), NoList("odd")}
      BY <3>1 DEF NoList
    <3>2. CASE \E n \in -1..(MaxCount + 1) : \E k \in 0..2 : \E list \in [1..k -> {Bad, 1}] : \E rest \in {Bad, 1} :
                 listFile = ListJson(n, list, rest)
      <4>1. PICK n \in -1..(MaxCount + 1), k \in 0..2 :
                   \E list \in [1..k -> {Bad, 1}] : \E rest \in {Bad, 1} : listFile = ListJson(n, list, rest)
        BY <3>2
      <4>2. PICK list \in [1..k -> {Bad, 1}], rest \in {Bad, 1} : listFile = ListJson(n, list, rest)
        BY <4>1
      <4>3. n \in Int /\ k \in Nat /\ list \in [1..k -> SavedValues] /\ rest \in {Bad, 0, 1, 2}
        BY FormAssumption DEF SavedValues, VehicleValues
      <4>. QED  BY <4>2, <4>3 DEF ListJson
    <3>. QED  BY <3>1, <3>2 DEF FormInit
  <2>4. FormTypes
    BY <2>1, <2>2, <2>3 DEF FormInit, FormTypes
  <2>. QED  BY <2>4 DEF FormInit, FormInv, FileInv, FollowInv
<1>2. FormInv => VehiclesKept
  <2>. SUFFICES ASSUME FormInv PROVE VehiclesKept
    OBVIOUS
  <2>1. ASSUME formPhase = "down", keptList # << >>
        PROVE  LET kept == keptList[1] s == Reopened(listFile, FALSE)
               IN /\ listTab = "playback" => s.count \in 1..MaxCount
                  /\ s.others = kept.others
                  /\ IF listTab = "follow" \/ kept.count \in 1..MaxCount THEN s = kept
                     ELSE \A i \in DOMAIN s.rows \cap DOMAIN kept.rows : s.rows[i] = kept.rows[i]
    BY <2>1, KeptComesBack, ReopenedTypes
  <2>. QED  BY <2>1 DEF FormInv, FollowInv, VehiclesKept
<1>3. FormInv /\ [FormNext]_formVars => FormInv'
  BY FormStep
<1>. QED  BY <1>1, <1>2, <1>3, PTL DEF FormSpec

-----------------------------------------------------------------------------
(* What the run checks of two of them together.                            *)

\* A tab shows what its own receivers of now have received: the streams of the
\* radar tab and the monitor, the slots of the camera tab.
THEOREM ReceiversStayTrue == StreamSpec /\ SlotSpec => []ReceiversTrue
<1>1. StreamsTrue /\ SlotsTrue => ReceiversTrue
  BY DEF ReceiversTrue
<1>. QED  BY <1>1, StreamsStayTrue, SlotsStayTrue, PTL

\* A login comes to an end that is shown, and all programs agree on the machine.
THEOREM LoginStaysTrue == LoginSpec /\ HashSpec => []LoginTrue
<1>1. LoginSettles /\ HashAgreed => LoginTrue
  BY DEF LoginTrue
<1>. QED  BY <1>1, LoginsSettle, HashesAgree, PTL

\* What is typed for one vehicle, or for one template of the UDP Control tab, is
\* kept for that one.
THEOREM FormsStayKept == ControlSpec /\ FormSpec => []FormsKept
<1>1. ControlsKept /\ VehiclesKept => FormsKept
  BY DEF FormsKept
<1>. QED  BY <1>1, ControlsStayKept, VehiclesStayKept, PTL

=============================================================================
