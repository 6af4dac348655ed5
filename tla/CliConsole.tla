------------------------------ MODULE CliConsole ------------------------------
(***************************************************************************)
(* morai_interface_console_cli_main.py with utils/input_helper.py: the     *)
(* console without a window.  The main loop reads one key, asks for the    *)
(* values the command needs, registers a request and sends it.  Beside it  *)
(* run the receiver, which nobody tells the loop has ended, and the        *)
(* AutoCaller that the key W starts and stops.  Only a send that fails     *)
(* makes the loop connect anew, which it tries for ever.                   *)
(***************************************************************************)
EXTENDS Integers, Sequences, FiniteSets, SequencesExt

CONSTANTS MaxLinks, MaxCallers, MaxKeys,  \* bounds: connections, presses of W, keys
          MaxSteps,                       \* MAX_CALL_NUM
          SuiteLists, MaxLists            \* the scenarios of a suite; bound on the answers
ASSUME CliAssumption ==
  {MaxLinks, MaxCallers, MaxKeys, MaxSteps, MaxLists} \subseteq Nat /\ SuiteLists \subseteq Seq(STRING)

VARIABLES
  cliAt,       \* "connect", "keys", "ask", "choose", "take", "over": where the main thread is
  keysTyped,   \* keys pressed
  socks,       \* the connections so far: "up", "lost" by the other side, or "closed"; tcp_sock is the last
  readers,     \* their receivers: [running, at]
  steppers,    \* the AutoCallers so far: [sock, stop, at, left, listed]: is its request in the table?
  stepperNow,  \* auto_caller, 0 for None
  scenarios,   \* _scenario_list_cache
  lists,       \* answers that replaced it
  pick,        \* the choice under way or just made: its index, the list shown, the name sent
  listMoved,   \* history: did an answer replace the list after it was shown?
  endedBy      \* history: why the program ended

cliVars == <<cliAt, keysTyped, socks, readers, steppers, stepperNow, scenarios, lists,
             pick, listMoved, endedBy>>
pickVars == <<scenarios, lists, pick, listMoved>>
linkVars == <<socks, readers>>

Sock == Len(socks)
Steppers == DOMAIN steppers
NoTarget == ""
NoPick == [index |-> 0, shown |-> << >>, name |-> NoTarget]
\* Thread.is_alive.  A send that raises ends the thread as well.
Alive(s) == steppers[s].at \notin {"gone", "raised"}

CliInit ==
  /\ cliAt = "connect" /\ keysTyped = 0 /\ socks = << >> /\ readers = << >> /\ steppers = << >> /\ stepperNow = 0
  /\ scenarios = << >> /\ lists = 0 /\ pick = NoPick
  /\ listMoved = FALSE /\ endedBy = "nothing"

\* connect_and_start_receiver.  An attempt that fails is made again with a new
\* socket after five seconds, which changes nothing here.
ConnectCli ==
  /\ cliAt = "connect" /\ Sock < MaxLinks /\ cliAt' = "keys"
  /\ socks' = Append(socks, "up") /\ readers' = Append(readers, [running |-> TRUE, at |-> "recv"])
  /\ UNCHANGED <<keysTyped, steppers, stepperNow, pickVars, endedBy>>

-----------------------------------------------------------------------------
(* What the key handlers are made of.                                      *)

\* stop_auto_caller: one that has ended stays where it is.
StopStepper ==
  IF stepperNow # 0 /\ Alive(stepperNow)
  THEN steppers' = [steppers EXCEPT ![stepperNow].stop = TRUE] /\ stepperNow' = 0
  ELSE UNCHANGED <<steppers, stepperNow>>
StopReaderAndClose ==
  /\ readers' = [readers EXCEPT ![Sock].running = FALSE]
  /\ socks' = [socks EXCEPT ![Sock] = "closed"]
\* Mutant: the caller of before steps on.
ReconnectOnly == cliAt' = "connect" /\ StopReaderAndClose /\ UNCHANGED <<steppers, stepperNow, endedBy>>
ReconnectCli == cliAt' = "connect" /\ StopStepper /\ StopReaderAndClose /\ UNCHANGED endedBy
\* The finally block of main.
LeaveCli(why) == cliAt' = "over" /\ endedBy' = why /\ StopStepper /\ StopReaderAndClose

\* dispatch.  A connection the other side has ended takes a send or two before one
\* fails; a value that does not fit its field cannot be packed.  For the request it
\* registers nobody waits, and so the model does not keep it.
Dispatch(fits) ==
  IF ~fits THEN LeaveCli("range")
  ELSE \/ socks[Sock] \in {"up", "lost"} /\ cliAt' = "keys"
          /\ UNCHANGED <<linkVars, steppers, stepperNow, endedBy>>
       \/ socks[Sock] # "up" /\ ReconnectCli

PressKey ==
  /\ cliAt = "keys" /\ keysTyped < MaxKeys /\ keysTyped' = keysTyped + 1
  /\ listMoved' = FALSE /\ UNCHANGED <<scenarios, lists>>
\* A command without values; one that asks first.
PressCommand == PressKey /\ Dispatch(TRUE) /\ pick' = NoPick
PressAsking ==
  /\ PressKey /\ cliAt' = "ask" /\ pick' = NoPick
  /\ UNCHANGED <<linkVars, steppers, stepperNow, endedBy>>
\* _ask_str and _ask_select take or ask again what they are given; _ask_int and
\* _ask_float raise at a text that is no number, which nothing handles.
AnswerValues ==
  /\ cliAt = "ask" /\ UNCHANGED <<keysTyped, pickVars>>
  /\ \/ \E fits \in BOOLEAN : Dispatch(fits)
     \/ LeaveCli("number")

\* prompt_scenario_control: Play shows the list the receiver has stored.
PressPlay ==
  /\ PressKey
  /\ IF scenarios = << >>
     THEN Dispatch(TRUE) /\ pick' = NoPick
     ELSE /\ cliAt' = "choose" /\ pick' = [NoPick EXCEPT !.shown = scenarios]
          /\ UNCHANGED <<linkVars, steppers, stepperNow, endedBy>>
\* The index is compared with the list of now; none, or a bad one, plays without a name.
ChooseIndex ==
  /\ cliAt = "choose" /\ UNCHANGED <<keysTyped, scenarios, lists, listMoved>>
  /\ \/ Dispatch(TRUE) /\ UNCHANGED pick
     \/ /\ cliAt' = "take"
        /\ \E i \in DOMAIN scenarios : pick' = [pick EXCEPT !.index = i]
        /\ UNCHANGED <<linkVars, steppers, stepperNow, endedBy>>
\* ... and looked up in it once more.
TakeScenario ==
  /\ cliAt = "take" /\ UNCHANGED <<keysTyped, scenarios, lists, listMoved>>
  /\ IF pick.index \in DOMAIN scenarios
     THEN Dispatch(TRUE) /\ pick' = [pick EXCEPT !.name = scenarios[pick.index]]
     ELSE LeaveCli("index") /\ UNCHANGED pick

\* toggle_auto_caller: does not wait for the one it stops.
PressToggle ==
  /\ PressKey /\ pick' = NoPick
  /\ IF stepperNow = 0 \/ ~Alive(stepperNow)
     THEN /\ Len(steppers) < MaxCallers /\ stepperNow' = Len(steppers) + 1
          /\ steppers' = Append(steppers, [sock |-> Sock, stop |-> FALSE, at |-> "loop", left |-> MaxSteps, listed |-> FALSE])
     ELSE steppers' = [steppers EXCEPT ![stepperNow].stop = TRUE] /\ stepperNow' = 0
  /\ UNCHANGED <<cliAt, linkVars, endedBy>>
PressQuit == cliAt = "keys" /\ LeaveCli("quit") /\ UNCHANGED <<keysTyped, pickVars>>
\* Ctrl-C while it tries to connect anew: the socket of before is closed already.
InterruptConnect ==
  /\ cliAt = "connect" /\ socks # << >> /\ LeaveCli("interrupt") /\ UNCHANGED <<keysTyped, pickVars>>

-----------------------------------------------------------------------------
(* AutoCaller.run.                                                         *)

StepperMoves(s, change) ==
  /\ steppers' = [steppers EXCEPT ![s] = change]
  /\ UNCHANGED <<cliAt, keysTyped, linkVars, stepperNow, pickVars, endedBy>>
StepperSends(s) ==
  /\ steppers[s].at = "loop" /\ ~steppers[s].stop /\ steppers[s].left > 0
  /\ \E at \in {"sent", "raised"} :
       /\ at = "sent" => socks[steppers[s].sock] # "closed"
       /\ at = "raised" => socks[steppers[s].sock] # "up"
       /\ StepperMoves(s, [steppers[s] EXCEPT !.at = at, !.listed = TRUE])
\* _wait_or_stop returns when stop() came before it waits; then only the answer or the time ends it.
StepperWaits(s) ==
  /\ steppers[s].at = "sent" /\ ~steppers[s].stop /\ StepperMoves(s, [steppers[s] EXCEPT !.at = "wait"])
\* Stopped before it waits, or timed out: the entry is taken out, and the thread ends.
StepperGivesUp(s) ==
  /\ (steppers[s].at = "wait" /\ steppers[s].listed) \/ (steppers[s].at = "sent" /\ steppers[s].stop)
  /\ StepperMoves(s, [steppers[s] EXCEPT !.at = "gone", !.listed = FALSE])
StepperAnswered(s) ==
  /\ steppers[s].at = "wait" /\ ~steppers[s].listed
  /\ StepperMoves(s, [steppers[s] EXCEPT !.at = "loop", !.left = @ - 1])
StepperEnds(s) ==
  /\ steppers[s].at = "loop" /\ (steppers[s].stop \/ steppers[s].left = 0)
  /\ StepperMoves(s, [steppers[s] EXCEPT !.at = "gone"])

-----------------------------------------------------------------------------
(* The receiver of a connection, and its other side.                       *)

AnswerStep(n) ==
  /\ readers[n].at = "recv" /\ socks[n] = "up"
  /\ \E s \in Steppers :
       /\ steppers[s].listed /\ steppers[s].sock = n
       /\ StepperMoves(s, [steppers[s] EXCEPT !.listed = FALSE])
AnswerSuite(n) ==
  /\ readers[n].at = "recv" /\ socks[n] = "up" /\ lists < MaxLists /\ lists' = lists + 1
  /\ scenarios' \in SuiteLists /\ listMoved' = (listMoved \/ cliAt \in {"choose", "take"})
  /\ UNCHANGED <<cliAt, keysTyped, linkVars, steppers, stepperNow, pick, endedBy>>
LoseLink(n) ==
  /\ socks[n] = "up" /\ socks' = [socks EXCEPT ![n] = "lost"]
  /\ UNCHANGED <<cliAt, keysTyped, readers, steppers, stepperNow, pickVars, endedBy>>
\* recv fails: the thread ends, and has nobody to tell.
ReaderEnds(n) ==
  /\ readers[n].at = "recv" /\ socks[n] # "up"
  /\ readers' = [readers EXCEPT ![n].at = "gone", ![n].running = FALSE]
  /\ UNCHANGED <<cliAt, keysTyped, socks, steppers, stepperNow, pickVars, endedBy>>

CliNext ==
  \/ ConnectCli \/ PressCommand \/ PressAsking \/ AnswerValues \/ PressPlay \/ ChooseIndex \/ TakeScenario
  \/ PressToggle \/ PressQuit \/ InterruptConnect
  \* The other threads end with the program.
  \/ /\ cliAt # "over"
     /\ \/ \E s \in Steppers :
             StepperSends(s) \/ StepperWaits(s) \/ StepperGivesUp(s) \/ StepperAnswered(s) \/ StepperEnds(s)
        \/ \E n \in DOMAIN socks : AnswerStep(n) \/ AnswerSuite(n) \/ LoseLink(n) \/ ReaderEnds(n)
CliSpec == CliInit /\ [][CliNext]_cliVars

-----------------------------------------------------------------------------
\* One AutoCaller at most goes on stepping: the one W would stop, on the
\* connection of now, although W and a reconnection wait for no thread.  What
\* it waits for can be matched, and it leaves nothing in the table unless its
\* send failed.  A scenario is played that the simulator listed last, and it is
\* the one shown at that index unless an answer came in between.  A lost connection never
\* ends the program, and its end leaves no connection open and no caller stepping.
CliDriven ==
  /\ \A s \in Steppers : Alive(s) /\ ~steppers[s].stop =>
       s = stepperNow /\ (cliAt \notin {"connect", "over"} /\ steppers[s].sock = Sock)
  /\ \A s \in Steppers : steppers[s].listed => steppers[s].at \in {"sent", "wait", "raised"}
  /\ pick.name # NoTarget /\ ~listMoved => pick.shown[pick.index] = pick.name
  /\ cliAt = "over" =>
       /\ endedBy \in {"quit", "number", "range", "interrupt"} \/ (endedBy = "index" /\ listMoved)
       /\ \A n \in DOMAIN socks : socks[n] = "closed"
=============================================================================
