------------------------------ MODULE UdpControl ------------------------------
(***************************************************************************)
(* The UDP Control tab (panels/udp_control_panel.py): it has one input for *)
(* each field of the control template that is selected, keeps the inputs   *)
(* and the endpoint of each template in one file, and sends what it shows  *)
(* (main.send_udp_control, transport/commands.build_udp_payload).  IP and  *)
(* port are one value; a text is its length.                               *)
(***************************************************************************)
EXTENDS Integers, Sequences, FiniteSets

CONSTANTS
  Controls,      \* the control templates: name |-> its fields, [var, kind]
  Segmentless,   \* those without a segment of fields
  Unparsable,    \* those that TemplateParser raises for
  FirstOf(_),    \* the first in the order of the file names
  TextLength,    \* length of a STRING field
  MaxInputs      \* bound on what the user does
Kinds == {"number", "unsigned", "text", "unknown"}   \* of the fields; of the last nothing can be packed
ASSUME ControlAssumption ==
  /\ TextLength \in Nat /\ MaxInputs \in Nat /\ "none" \notin DOMAIN Controls
  /\ \A t \in DOMAIN Controls : Controls[t] \in Seq([var : STRING, kind : Kinds])
  /\ \A S \in SUBSET DOMAIN Controls : S # {} => FirstOf(S) \in S

VARIABLES
  present,       \* the templates that are there
  listed,        \* those the combo box lists
  selected,      \* what it shows
  current,       \* _current_template, "none" for none
  endpoint,      \* the IP and port shown
  inputs,        \* the inputs: variable |-> value
  cache,         \* _state_cache: the selected template, and what is kept of each
  stateFile,     \* the file: whole, torn or not there, and the cache in it
  app,           \* "down", "up", "saving": the file is open for writing
  sentControl,          \* the last datagram and what was shown when it was sent, if any
  sendStatus,    \* "none", "sent" or "failed"
  inputsMade,
  lastShown,     \* history: what the user left in each template
  controlLost    \* history: a template that showed something else when it was loaded

controlVars == <<present, listed, selected, current, endpoint, inputs, cache, stateFile, app, sentControl,
                 sendStatus, inputsMade, lastShown, controlLost>>

FileOf(c) == [is |-> "json", cache |-> c]
ControlFields(t) == Controls[t]
Vars(t) == {ControlFields(t)[i].var : i \in DOMAIN ControlFields(t)}
KindOf(t, v) == ControlFields(t)[CHOOSE i \in DOMAIN ControlFields(t) : ControlFields(t)[i].var = v].kind
\* input_float, input_int, input_text: what an input can hold.
InputValues(kind) == CASE kind = "number" -> 0..1 [] kind = "unsigned" -> -1..1
                       [] kind \in {"text", "unknown"} -> 0..(TextLength + 1)
Default(t) == [endpoint |-> IF t = "transform" THEN 1 ELSE 0, values |-> [v \in Vars(t) |-> 0]]
NoCache == [selected |-> "none", templates |-> << >>]
HalfWritten == [is |-> "torn", cache |-> NoCache]

\* _template_state, and what the inputs show of it.
KeptFor(c, t) == IF t \in DOMAIN c.templates THEN c.templates[t] ELSE Default(t)
\* _save_state: what the tab shows goes to the current template, and all of it to the file.
Updated(c, t, e, vals) ==
  IF t = "none" THEN c
  ELSE [selected |-> t, templates |-> [x \in DOMAIN c.templates \cup {t} |->
                          IF x = t THEN [endpoint |-> e, values |-> vals] ELSE c.templates[x]]]
Save(t, e, vals) == cache' = Updated(cache, t, e, vals) /\ stateFile' = HalfWritten /\ app' = "saving"
NoSave(c) == cache' = c /\ app' = "up" /\ UNCHANGED stateFile

ControlInit ==
  /\ present = DOMAIN Controls /\ listed = {} /\ selected = "none" /\ current = "none" /\ endpoint = 0 /\ inputs = << >>
  /\ cache = NoCache /\ stateFile = [is |-> "absent", cache |-> NoCache] /\ app = "down" /\ sentControl = << >> /\ sendStatus = "none"
  /\ inputsMade = 0 /\ lastShown = [t \in DOMAIN Controls |-> Default(t)] /\ controlLost = {}

\* _clear_template: the endpoint and the saved values stay.
ClearTemplate(c) ==
  /\ current' = "none" /\ inputs' = << >> /\ NoSave(c)
  /\ UNCHANGED <<endpoint, sendStatus, lastShown, controlLost>>
Restore(c, t) ==
  /\ endpoint' = KeptFor(c, t).endpoint /\ inputs' = KeptFor(c, t).values
  /\ controlLost' = controlLost \cup (IF KeptFor(c, t) # lastShown[t] THEN {t} ELSE {})
\* Mutant: saved under its name before its inputs are filled.
SavedFirst(c, t) ==
  /\ current' = t /\ sendStatus' = "none" /\ inputs' = KeptFor(c, t).values
  /\ UNCHANGED <<lastShown, endpoint>>
  /\ controlLost' = controlLost \cup (IF endpoint # lastShown[t].endpoint THEN {t} ELSE {})
  /\ IF t \in Segmentless THEN NoSave([c EXCEPT !.selected = t])
     ELSE /\ cache' = Updated(c, t, endpoint, inputs') /\ stateFile' = HalfWritten /\ app' = "saving"
TakeTemplate(c, t) ==
  /\ current' = t /\ sendStatus' = "none" /\ Restore(c, t) /\ UNCHANGED lastShown
  /\ IF t \in Segmentless THEN NoSave([c EXCEPT !.selected = t])
     ELSE /\ cache' = Updated(c, t, endpoint', inputs') /\ stateFile' = HalfWritten /\ app' = "saving"
LoadTemplate(c, t) ==
  /\ selected' = t
  /\ IF t \notin present \/ t \in Unparsable THEN ClearTemplate(c) ELSE TakeTemplate(c, t)

-----------------------------------------------------------------------------
(* The callbacks.                                                          *)

\* build: a file that cannot be read is reported and ignored.
Build ==
  /\ app = "down" /\ inputsMade < MaxInputs /\ inputsMade' = inputsMade + 1 /\ listed' = present
  /\ LET c == stateFile.cache
     IN IF present = {} THEN /\ selected' = "none" /\ ClearTemplate(c)
        ELSE LoadTemplate(c, IF c.selected \in present THEN c.selected ELSE FirstOf(present))
  /\ UNCHANGED <<present, sentControl>>
Refresh ==
  /\ app = "up" /\ listed' = present
  /\ IF present = {} THEN ClearTemplate(cache) /\ UNCHANGED selected
     ELSE LoadTemplate(cache, IF selected \in present THEN selected ELSE FirstOf(present))
  /\ UNCHANGED <<present, sentControl, inputsMade>>
SelectTemplate ==
  /\ app = "up" /\ inputsMade < MaxInputs /\ inputsMade' = inputsMade + 1
  /\ \E t \in listed : LoadTemplate(cache, t)
  /\ UNCHANGED <<present, listed, sentControl>>

Typed(e, vals) ==
  /\ app = "up" /\ inputsMade < MaxInputs /\ inputsMade' = inputsMade + 1
  /\ endpoint' = e /\ inputs' = vals /\ Save(current, e, vals)
  /\ lastShown' = IF current = "none" THEN lastShown ELSE [lastShown EXCEPT ![current] = [endpoint |-> e, values |-> vals]]
  /\ UNCHANGED <<present, listed, selected, current, sentControl, sendStatus, controlLost>>
TypeEndpoint == Typed(2, inputs)
TypeValue == \E v \in DOMAIN inputs : \E x \in InputValues(KindOf(current, v)) : Typed(endpoint, [inputs EXCEPT ![v] = x])

\* build_udp_payload: a number packs as it is, if its type can hold it; a text
\* is cut, or filled up, to the length of the field; no other type can be packed.
Packs(kind, x) == kind = "number" \/ kind = "text" \/ (kind = "unsigned" /\ x >= 0)
Packed(kind, x) == IF kind = "text" THEN (IF x > TextLength THEN TextLength ELSE x) ELSE x
Payload(t, vals) == [i \in DOMAIN ControlFields(t) |-> Packed(ControlFields(t)[i].kind, vals[ControlFields(t)[i].var])]
SendControl ==
  /\ app = "up" /\ current \notin {"none"} \cup Segmentless
  /\ IF \A v \in DOMAIN inputs : Packs(KindOf(current, v), inputs[v])
     THEN /\ sentControl' = <<[template |-> current, fields |-> Payload(current, inputs), shown |-> inputs]>>
          /\ sendStatus' = "sent" /\ Save(current, endpoint, inputs)
     ELSE sendStatus' = "failed" /\ UNCHANGED <<sentControl, cache, stateFile, app>>
  /\ UNCHANGED <<present, listed, selected, current, endpoint, inputs, inputsMade, lastShown, controlLost>>

WriteControls ==
  /\ app = "saving" /\ app' = "up" /\ stateFile' = FileOf(cache)
  /\ UNCHANGED <<present, listed, selected, current, endpoint, inputs, cache, sentControl, sendStatus, inputsMade,
                 lastShown, controlLost>>
\* The console ends, or is killed: of a file that is open nothing is left.
EndConsole ==
  /\ app \in {"up", "saving"} /\ app' = "down"
  /\ lastShown' = IF app = "saving" THEN [t \in DOMAIN Controls |-> Default(t)] ELSE lastShown
  /\ UNCHANGED <<present, listed, selected, current, endpoint, inputs, cache, stateFile, sentControl, sendStatus,
                 inputsMade, controlLost>>
\* Files come and go while the console runs.
TemplatesChange ==
  /\ inputsMade < MaxInputs /\ inputsMade' = inputsMade + 1 /\ app # "saving"
  /\ \E t \in DOMAIN Controls : present' = IF t \in present THEN present \ {t} ELSE present \cup {t}
  /\ UNCHANGED <<listed, selected, current, endpoint, inputs, cache, stateFile, app, sentControl, sendStatus,
                 lastShown, controlLost>>

ControlNext ==
  \/ Build \/ Refresh \/ SelectTemplate \/ TypeEndpoint \/ TypeValue \/ SendControl
  \/ WriteControls \/ EndConsole \/ TemplatesChange
ControlSpec == ControlInit /\ [][ControlNext]_controlVars

-----------------------------------------------------------------------------
\* Whatever the user typed for a template comes back when it is selected, in
\* this session and the next, and is not given to another template, unless a
\* kill hit the write of the file.  A datagram has the fields of the template
\* that is selected, with the values shown, each text cut to its length; there
\* is no template to send for one that is gone or cannot be read.
ControlsKept ==
  /\ controlLost = {}
  /\ app # "down" /\ current # "none" => [endpoint |-> endpoint, values |-> inputs] = lastShown[current]
  /\ \A k \in DOMAIN sentControl :
       /\ Len(sentControl[k].fields) = Len(ControlFields(sentControl[k].template))
       /\ \A i \in DOMAIN sentControl[k].fields :
            LET field == ControlFields(sentControl[k].template)[i]
                x     == sentControl[k].shown[field.var]
            IN sentControl[k].fields[i] = IF field.kind = "text" /\ x > TextLength THEN TextLength ELSE x
  /\ current # "none" => current \notin Unparsable /\ (app # "down" => current = selected)
=============================================================================
