----------------------------- MODULE ConsoleWindow -----------------------------
(***************************************************************************)
(* The window of the console: the endpoint in the title bar, which is      *)
(* checked, kept in a file with the size and the tab, and given to the     *)
(* connection; what the bar shows of the connection, through the UI queue; *)
(* and the rows the tab buttons are packed in.  What becomes of the        *)
(* connection afterwards is in ConsoleTcp.  Widths are small numbers.      *)
(***************************************************************************)
EXTENDS Integers, Sequences, FiniteSets, SequencesExt

CONSTANTS
  ButtonWidths,   \* of the tab buttons, in their order
  Spacing,        \* between two of them
  WindowWidths, MinWidth, FirstWidth,   \* W_MIN, W_INIT
  MaxTyped        \* bound on what the user does
ASSUME WindowAssumption ==
  /\ ButtonWidths \in Seq(Nat) /\ Spacing \in Nat /\ WindowWidths \subseteq Nat
  /\ MinWidth \in WindowWidths /\ FirstWidth \in WindowWidths /\ MaxTyped \in Nat

VARIABLES
  windowFile,     \* interface_console_state.json
  windowState,         \* "down", "up", "saving", "exit": saving for the last time
  server,         \* TCP_SERVER_IP and TCP_SERVER_PORT
  typed,          \* the inputs of the title bar
  editing, barShown, \* are the inputs shown, or the endpoint as a text, and which
  statusPosted,         \* what waits in the UI queue: [connected, editing]
  statusLabel,          \* "Connected", "Disconnected" or "Invalid"
  link, peer,     \* "none", "connecting", "connected": the thread, and to where
  windowWidth, selectedTab, layoutDirty, saveDue,
  lastWidth, measured,
  tabRows, rowsShown, rowOf,   \* _tab_wrap["rows"]; the groups shown; the group of each button
  windowUses,
  typedLate,      \* history: typed since the connection was asked for
  keptEndpoint    \* history: the endpoint of the last save, <<>> if a kill tore it

windowVars == <<windowFile, windowState, server, typed, editing, barShown, statusPosted, statusLabel, link, peer,
                windowWidth, selectedTab, layoutDirty, saveDue, lastWidth, measured, tabRows, rowsShown, rowOf,
                windowUses, typedLate, keptEndpoint>>
barVars == <<editing, barShown, statusPosted, statusLabel, link, peer>>
rowVars == <<layoutDirty, lastWidth, measured, tabRows, rowsShown, rowOf>>

DefaultEndpoint == [ip |-> "local", port |-> "usual"]
\* What is typed or found in a file: two addresses, one of version 6, none; two ports, a text.
IpTexts == {"local", "other", "version6", "blank"}
PortTexts == {"usual", "another", "text"}
IsInt(port) == port # "text"
\* _validate_tcp_endpoint.
ValidEndpoint(e) == e.ip \in {"local", "other"} /\ e.port \in {"usual", "another"}
TabKeys == {"udp", "au"}
NormalTab(t) == IF t \in TabKeys THEN t ELSE "udp"
WindowJson(e, w, t) == [is |-> "json", endpoint |-> e, width |-> w, tab |-> t]
TornWindow == [is |-> "torn"]

\* _initial_tcp_endpoint, _initial_viewport_size, _initial_selected_tab.
FirstEndpoint(f) == IF f.is = "json" /\ ValidEndpoint(f.endpoint) THEN f.endpoint ELSE DefaultEndpoint
FirstSize(f) == IF f.is # "json" THEN FirstWidth ELSE IF f.width < MinWidth THEN MinWidth ELSE f.width
FirstTab(f) == IF f.is = "json" THEN NormalTab(f.tab) ELSE "udp"

\* What the title bar has: an empty IP, or a port that is no number, is the server's.
Typing == [ip   |-> IF typed.ip = "blank" THEN server.ip ELSE typed.ip,
           port |-> IF IsInt(typed.port) THEN typed.port ELSE server.port]
\* Mutant: what is typed is kept as it is.
KeepTyped(s) == Typing
\* _save_interface_console_state with the server s.
Endpoint(s) ==
  LET e == [ip |-> IF typed.ip = "blank" THEN s.ip ELSE typed.ip, port |-> typed.port] IN IF ValidEndpoint(e) THEN e ELSE s
\* A window smaller than its minimum, such as a minimised one, saves nothing.
SaveWindow(s, next) ==
  IF windowWidth < MinWidth
  THEN windowState' = (IF next = "exit" THEN "down" ELSE "up") /\ UNCHANGED <<windowFile, keptEndpoint>>
  ELSE /\ windowState' = next /\ windowFile' = TornWindow
       /\ keptEndpoint' = <<Endpoint(s)>>

WindowInit ==
  /\ windowFile \in {[is |-> "absent"], TornWindow}
       \cup {WindowJson([ip |-> i, port |-> "another"], FirstWidth, "au") : i \in IpTexts}
       \cup {WindowJson([ip |-> "other", port |-> p], MinWidth, "removed") : p \in PortTexts}
       \cup {WindowJson(DefaultEndpoint, w, "udp") : w \in WindowWidths}
  /\ windowState = "down" /\ server = DefaultEndpoint /\ typed = DefaultEndpoint
  /\ editing = TRUE /\ barShown = DefaultEndpoint /\ statusPosted = << >> /\ statusLabel = "Connected"
  /\ link = "none" /\ peer = DefaultEndpoint /\ windowWidth = FirstWidth /\ selectedTab = "udp"
  /\ layoutDirty = TRUE /\ saveDue = FALSE /\ lastWidth = 0 /\ measured = FALSE
  /\ tabRows = << >> /\ rowsShown = {} /\ rowOf = [i \in DOMAIN ButtonWidths |-> 0]
  /\ windowUses = 0 /\ typedLate = FALSE /\ keptEndpoint = << >>

Connect == link' = "connecting" /\ statusPosted' = Append(statusPosted, [connected |-> FALSE, editing |-> FALSE])
\* main: _apply_initial_tcp_endpoint, build_ui, connect.
StartWindow ==
  /\ windowState = "down" /\ windowUses < MaxTyped /\ windowUses' = windowUses + 1 /\ windowState' = "up"
  /\ server' = FirstEndpoint(windowFile) /\ typed' = server' /\ barShown' = server'
  /\ windowWidth' = FirstSize(windowFile) /\ selectedTab' = FirstTab(windowFile)
  /\ editing' = TRUE /\ statusLabel' = "Connected" /\ link' = "connecting" /\ peer' = server'
  /\ statusPosted' = <<[connected |-> FALSE, editing |-> FALSE]>>
  /\ layoutDirty' = TRUE /\ saveDue' = FALSE /\ lastWidth' = 0 /\ measured' = FALSE
  /\ tabRows' = << >> /\ rowsShown' = {} /\ rowOf' = [i \in DOMAIN ButtonWidths |-> 0]
  /\ typedLate' = FALSE /\ UNCHANGED <<windowFile, keptEndpoint>>

TypeText ==
  /\ windowState = "up" /\ editing /\ windowUses < MaxTyped /\ windowUses' = windowUses + 1
  /\ typed' \in {[typed EXCEPT !.ip = i] : i \in IpTexts} \cup {[typed EXCEPT !.port = p] : p \in PortTexts}
  /\ typedLate' = (typedLate \/ link # "none")
  /\ UNCHANGED <<windowFile, windowState, server, barVars, windowWidth, selectedTab, saveDue, rowVars, keptEndpoint>>

\* _apply_conn: Reconnect.  While a connection is made no other is begun.
Reconnect ==
  /\ windowState = "up" /\ windowUses < MaxTyped /\ windowUses' = windowUses + 1
  /\ IF ~ValidEndpoint(typed)
     THEN /\ statusLabel' = "Invalid"
          /\ UNCHANGED <<windowFile, windowState, server, editing, barShown, statusPosted, link, peer,
                         typedLate, keptEndpoint>>
     ELSE /\ server' = typed /\ SaveWindow(typed, "saving") /\ UNCHANGED <<editing, barShown, statusLabel>>
          /\ IF link = "connecting" THEN UNCHANGED <<statusPosted, link, peer, typedLate>>
             ELSE Connect /\ peer' = typed /\ typedLate' = FALSE
  /\ UNCHANGED <<typed, windowWidth, selectedTab, saveDue, rowVars>>

\* The thread of connect; the connection ends on either side.
LinkEnds(to, can) ==
  /\ windowState \in {"up", "saving"} /\ link' = to
  /\ statusPosted' = Append(statusPosted, [connected |-> to = "connected", editing |-> can])
  /\ UNCHANGED <<windowFile, windowState, server, typed, editing, barShown, statusLabel, peer, windowWidth,
                 selectedTab, saveDue, rowVars, windowUses, typedLate, keptEndpoint>>
Connected == link = "connecting" /\ LinkEnds("connected", FALSE)
ConnectFails == link = "connecting" /\ LinkEnds("none", TRUE)
LinkLost == link = "connected" /\ windowUses < MaxTyped /\ LinkEnds("none", TRUE)

\* _set_conn_status in the main loop: what is typed is shown.
ApplyStatus ==
  /\ windowState = "up" /\ statusPosted # << >> /\ statusPosted' = Tail(statusPosted)
  /\ barShown' = Typing /\ editing' = Head(statusPosted).editing
  /\ statusLabel' = IF Head(statusPosted).connected THEN "Connected" ELSE "Disconnected"
  /\ UNCHANGED <<windowFile, windowState, server, typed, link, peer, windowWidth, selectedTab, saveDue, rowVars, windowUses,
                 typedLate, keptEndpoint>>

SelectTab ==
  /\ windowState = "up" /\ windowUses < MaxTyped /\ windowUses' = windowUses + 1 /\ selectedTab' \in TabKeys
  /\ UNCHANGED <<windowFile, windowState, server, typed, barVars, windowWidth, saveDue, rowVars, typedLate, keptEndpoint>>
Resize ==
  /\ windowState = "up" /\ windowUses < MaxTyped /\ windowUses' = windowUses + 1
  /\ windowWidth' \in WindowWidths /\ layoutDirty' = TRUE /\ saveDue' = TRUE
  /\ UNCHANGED <<windowFile, windowState, server, typed, barVars, selectedTab, lastWidth, measured, tabRows, rowsShown, rowOf,
                 typedLate, keptEndpoint>>

-----------------------------------------------------------------------------
(* The rows of tab buttons.                                                *)

\* _wrap_tab_rows: a button that does not fit begins a row.
PackedUpTo(avail) ==
  LET packed[n \in 0..Len(ButtonWidths)] ==
        IF n = 0 THEN [rows |-> << >>, width |-> 0]
        ELSE LET rows == packed[n - 1].rows
                 wide == packed[n - 1].width + Spacing + ButtonWidths[n]
             IN IF rows # << >> /\ wide <= avail
                THEN [rows |-> [rows EXCEPT ![Len(rows)] = Append(@, n)], width |-> wide]
                ELSE [rows |-> Append(rows, <<n>>), width |-> ButtonWidths[n]]
  IN packed
PackedRows(avail) == PackedUpTo(avail)[Len(ButtonWidths)].rows
WrapTabRows(avail) ==
  LET rows == PackedRows(avail)
  IN IF rows = tabRows THEN UNCHANGED <<tabRows, rowsShown, rowOf>>
     ELSE /\ tabRows' = rows
          /\ rowOf' = [i \in DOMAIN ButtonWidths |-> CHOOSE r \in DOMAIN rows : Contains(rows[r], i)]
          /\ rowsShown' = (rowsShown \cup DOMAIN rows) \ ((Len(rows) + 1)..Len(tabRows))
\* _apply_layout at a frame.  The buttons have a width once they were drawn;
\* until then the next frame tries again.
Layout ==
  IF ~layoutDirty /\ windowWidth = lastWidth THEN UNCHANGED rowVars
  ELSE /\ lastWidth' = windowWidth /\ measured' = TRUE /\ layoutDirty' = ~measured
       /\ IF measured THEN WrapTabRows(windowWidth) ELSE UNCHANGED <<tabRows, rowsShown, rowOf>>
\* Half a second after the last change of size the window is saved.
Frame ==
  /\ windowState = "up" /\ Layout
  /\ \E due \in BOOLEAN :
       IF saveDue /\ due THEN saveDue' = FALSE /\ SaveWindow(server, "saving")
       ELSE UNCHANGED <<saveDue, windowState, windowFile, keptEndpoint>>
  /\ UNCHANGED <<server, typed, barVars, windowWidth, selectedTab, windowUses, typedLate>>
ExitWindow ==
  /\ windowState = "up" /\ SaveWindow(server, "exit")
  /\ UNCHANGED <<server, typed, barVars, windowWidth, selectedTab, saveDue, rowVars, windowUses, typedLate>>
WriteWindow ==
  /\ windowState \in {"saving", "exit"} /\ windowState' = IF windowState = "exit" THEN "down" ELSE "up"
  /\ windowFile' = WindowJson(keptEndpoint[1], windowWidth, selectedTab)
  /\ UNCHANGED <<server, typed, barVars, windowWidth, selectedTab, saveDue, rowVars, windowUses, typedLate, keptEndpoint>>
KillConsole ==
  /\ windowState \in {"up", "saving", "exit"} /\ windowState' = "down"
  /\ keptEndpoint' = IF windowFile = TornWindow THEN << >> ELSE keptEndpoint
  /\ UNCHANGED <<windowFile, server, typed, barVars, windowWidth, selectedTab, saveDue, rowVars, windowUses, typedLate>>

WindowNext ==
  \/ StartWindow \/ TypeText \/ Reconnect \/ Connected \/ ConnectFails \/ LinkLost \/ ApplyStatus
  \/ SelectTab \/ Resize \/ Frame \/ ExitWindow \/ WriteWindow \/ KillConsole
WindowSpec == WindowInit /\ [][WindowNext]_windowVars

-----------------------------------------------------------------------------
\* Do the rows hold the first n buttons, each once and in their order?
OneByOne(row) == row # << >> /\ \A k \in DOMAIN row : row[k] = row[1] + k - 1
InRows(rows, n) ==
  /\ rows # << >> => rows[1][1] = 1 /\ Last(Last(rows)) = n
  /\ \A r \in DOMAIN rows : OneByOne(rows[r]) /\ (r < Len(rows) => rows[r + 1][1] = Last(rows[r]) + 1)
\* A row with the space between its buttons.
WidthUpTo(row) ==
  LET upTo[k \in 0..Len(row)] == IF k = 0 THEN 0 ELSE upTo[k - 1] + ButtonWidths[row[k]] + Spacing IN upTo
RowWidth(row) == WidthUpTo(row)[Len(row)] - Spacing

\* The endpoint in use is always a valid one, and so is the one that is kept,
\* whatever was typed or found in the file; a start uses the one kept last,
\* unless a kill tore the file.  The bar shows the endpoint that the console
\* is connected to, unless the user typed in the moment the connection was
\* asked for.  Every tab button is in one row that is shown, in its order; no
\* row is wider than the window if it could be, and none could take the next button.
WindowKept ==
  /\ ValidEndpoint(server) /\ \A k \in DOMAIN keptEndpoint : ValidEndpoint(keptEndpoint[k])
  /\ windowState = "down" /\ keptEndpoint # << >> => FirstEndpoint(windowFile) = keptEndpoint[1]
  /\ windowState = "up" /\ statusLabel = "Connected" /\ ~editing /\ statusPosted = << >> /\ link = "connected" /\ ~typedLate =>
       barShown = peer
  /\ tabRows # << >> =>
       /\ InRows(tabRows, Len(ButtonWidths)) /\ rowsShown = DOMAIN tabRows
       /\ \A r \in DOMAIN tabRows : \A i \in Range(tabRows[r]) : rowOf[i] = r
       /\ \A r \in DOMAIN tabRows :
            /\ Len(tabRows[r]) > 1 => RowWidth(tabRows[r]) <= lastWidth
            /\ r < Len(tabRows) => RowWidth(Append(tabRows[r], tabRows[r + 1][1])) > lastWidth
=============================================================================
