------------------------------ MODULE Playback ------------------------------
(***************************************************************************)
(* The two players of the console: file playback (start_fp, stop_fp, the   *)
(* loop of _patch_fp_caller), which sends a control, steps the simulator   *)
(* and saves for each row of a CSV file, and transform playback            *)
(* (start_tfp, stop_tfp, _patch_tfp_caller), which sends the poses of all  *)
(* vehicles for each row.  Each playback is a thread of its own; the panel *)
(* is changed through ui_queue; _on_disconnect of main first lets every    *)
(* wait go and then stops the player, from the Receiver's thread.          *)
(*                                                                         *)
(* A run of the model has players of one kind, for the two have nothing in *)
(* common.  Progress texts and delays are left out.                        *)
(***************************************************************************)
EXTENDS Naturals

CONSTANTS
  Players,         \* the threads: one per click of Play that starts one
  NoPlayer,        \* None
  Rows,            \* rows of the longest file
  PosesOf,         \* PosesOf[i]: the number of vehicles that have row i
  MaxPlays         \* bound on the clicks of Play

ASSUME PlaybackAssumption ==
  /\ NoPlayer \notin Players /\ Rows \in Nat \ {0} /\ PosesOf \in [1..Rows -> Nat] /\ MaxPlays \in Nat

Kinds == {"file", "transform"}
Places == {"new", "row", "control", "check", "step", "stepped", "save", "saved",
           "sleep", "reset", "done", "ended"}

VARIABLES
  kind,
  playing,      \* fp_caller / tfp_caller
  playable,     \* the Play button is enabled
  resets,       \* reset_ui of these is in ui_queue
  at,           \* where each thread is; "ended": not is_alive()
  row, poses,   \* its loop variables: the row, the vehicles served in it
  stopSet,      \* its _stop_event
  reply,        \* its last request: "none", "awaited", "answered", "freed" (its
                \* event was set because the connection is lost)
  onLink,       \* players whose tcp_sock is the connection of now
  orphans,      \* players whose tcp_sock is a connection of before
  tcp,          \* "up", "failing" (the peer is gone), "freed" (_on_disconnect
                \* has set the events), "down"
  plays,        \* clicks
  late,         \* history: messages sent after its _stop_event was set
  cut,          \* history: players an exception ended
  turnedAway,   \* history: a start was refused, the button being disabled
  early         \* history: players that saved before their step was answered

playVars == <<kind, playing, playable, resets, at, row, poses, stopSet, reply, onLink, orphans, tcp,
              plays, late, cut, turnedAway, early>>
threadVars == <<at, row, poses, reply>>
histVars == <<late, cut, turnedAway, early>>

PlayTypeOK ==
  /\ kind \in Kinds /\ playing \in Players \cup {NoPlayer} /\ playable \in BOOLEAN
  /\ resets \subseteq Players /\ at \in [Players -> Places] /\ row \in [Players -> 1..(Rows + 1)]
  /\ poses \in [Players -> Nat] /\ stopSet \subseteq Players
  /\ reply \in [Players -> {"none", "awaited", "answered", "freed"}]
  /\ onLink \subseteq Players /\ orphans \subseteq Players
  /\ tcp \in {"up", "failing", "freed", "down"} /\ plays \in 0..MaxPlays
  /\ late \in [Players -> Nat] /\ cut \subseteq Players /\ turnedAway \in BOOLEAN
  /\ early \subseteq Players

PlayInit ==
  /\ kind \in Kinds /\ playing = NoPlayer /\ playable = TRUE /\ resets = {}
  /\ at = [p \in Players |-> "new"] /\ row = [p \in Players |-> 1] /\ poses = [p \in Players |-> 0]
  /\ stopSet = {} /\ reply = [p \in Players |-> "none"] /\ onLink = {} /\ orphans = {}
  /\ tcp \in {"up", "down"}
  /\ plays = 0 /\ late = [p \in Players |-> 0] /\ cut = {} /\ turnedAway = FALSE /\ early = {}

Alive(p) == p # NoPlayer /\ at[p] \notin {"new", "ended"}
InLoop(p) == at[p] \notin {"new", "reset", "done", "ended"}

-----------------------------------------------------------------------------
(* The panel.                                                              *)

\* _on_play disables the button and starts; a start is refused while the
\* player of before is alive.
Play ==
  /\ playable /\ plays < MaxPlays /\ plays' = plays + 1 /\ playable' = FALSE
  /\ IF Alive(playing)
     THEN turnedAway' = TRUE /\ UNCHANGED <<playing, at, onLink>>
     ELSE \E p \in Players :
            /\ at[p] = "new" /\ playing' = p /\ at' = [at EXCEPT ![p] = "row"]
            /\ onLink' = IF tcp \in {"up", "failing"} THEN onLink \cup {p} ELSE onLink
            /\ UNCHANGED turnedAway
  /\ UNCHANGED <<kind, resets, row, poses, stopSet, reply, orphans, tcp, late, cut, early>>

StopPlay ==
  /\ Alive(playing) /\ stopSet' = stopSet \cup {playing} /\ playing' = NoPlayer
  /\ UNCHANGED <<kind, playable, resets, threadVars, onLink, orphans, tcp, plays, histVars>>

\* drain() runs _apply of reset_ui.
ApplyReset(p) ==
  /\ p \in resets /\ resets' = resets \ {p} /\ playable' = TRUE
  /\ UNCHANGED <<kind, playing, threadVars, stopSet, onLink, orphans, tcp, plays, histVars>>

-----------------------------------------------------------------------------
(* The threads.  A send raises when tcp_sock is None, and it may when the    *)
(* connection is no longer up; nothing catches the exception.              *)

Reaches(p) == p \in onLink /\ tcp = "up"
SendsOn(p, next) ==
  /\ p \in onLink \cup orphans /\ at' = [at EXCEPT ![p] = next]
  /\ late' = IF p \in stopSet THEN [late EXCEPT ![p] = @ + 1] ELSE late
  /\ UNCHANGED cut
Raises(p) ==
  /\ ~Reaches(p) /\ at' = [at EXCEPT ![p] = "ended"] /\ cut' = cut \cup {p} /\ UNCHANGED late
Shared == UNCHANGED <<kind, playing, playable, stopSet, onLink, orphans, tcp, plays, turnedAway>>

\* The head of the loop.
NextRow(p) ==
  /\ at[p] = "row"
  /\ at' = [at EXCEPT ![p] = IF p \in stopSet \/ row[p] > Rows THEN "reset" ELSE "control"]
  /\ poses' = [poses EXCEPT ![p] = 0]
  /\ Shared /\ UNCHANGED <<resets, row, reply, late, cut, early>>

\* One ManualControlById, or one TransformControlById for each vehicle of the row.
SendControl(p) ==
  /\ at[p] = "control"
  /\ \/ kind = "transform" /\ poses[p] = PosesOf[row[p]]
        /\ at' = [at EXCEPT ![p] = "check"] /\ UNCHANGED <<poses, late, cut>>
     \/ kind = "transform" /\ poses[p] < PosesOf[row[p]]
        /\ \/ SendsOn(p, "control") /\ poses' = [poses EXCEPT ![p] = @ + 1]
           \/ Raises(p) /\ UNCHANGED poses
     \/ kind = "file" /\ (SendsOn(p, "check") \/ Raises(p)) /\ UNCHANGED poses
  /\ Shared /\ UNCHANGED <<resets, row, reply, early>>

\* Mutant: the check between the control and the step is left out.
CheckStopNot(p) ==
  /\ at[p] = "check"
  /\ at' = [at EXCEPT ![p] = IF kind = "file" THEN "step" ELSE "sleep"]
  /\ Shared /\ UNCHANGED <<resets, row, poses, reply, late, cut, early>>
CheckStop(p) ==
  /\ at[p] = "check"
  /\ at' = [at EXCEPT ![p] = IF p \in stopSet THEN "reset" ELSE IF kind = "file" THEN "step" ELSE "sleep"]
  /\ Shared /\ UNCHANGED <<resets, row, poses, reply, late, cut, early>>

\* FixedStep and SaveData: pending_add, then the send.
SendRequest(p) ==
  /\ at[p] \in {"step", "save"} /\ reply' = [reply EXCEPT ![p] = "awaited"]
  /\ \/ SendsOn(p, IF at[p] = "step" THEN "stepped" ELSE "saved")
        /\ early' = IF at[p] = "save" /\ Reaches(p) /\ reply[p] # "answered" THEN early \cup {p} ELSE early
     \/ Raises(p) /\ UNCHANGED early
  /\ Shared /\ UNCHANGED <<resets, row, poses>>

\* _wait_or_stop: no wait when it is stopped already; then the event or the
\* timeout.  After the step the loop looks at _stop_event once more, after the
\* save at its head.
After(p) == IF at[p] = "saved" THEN "row" ELSE IF p \in stopSet THEN "reset" ELSE "save"
GoesOn(p) ==
  /\ at[p] \in {"stepped", "saved"} /\ reply[p] # "awaited" /\ at' = [at EXCEPT ![p] = After(p)]
  /\ row' = IF at[p] = "saved" THEN [row EXCEPT ![p] = @ + 1] ELSE row
  /\ Shared /\ UNCHANGED <<resets, poses, reply, late, cut, early>>
GivesUp(p) ==
  /\ at[p] \in {"stepped", "saved"} /\ (reply[p] = "awaited" \/ p \in stopSet)
  /\ at' = [at EXCEPT ![p] = "reset"]
  /\ Shared /\ UNCHANGED <<resets, row, poses, reply, late, cut, early>>

\* The transform player sleeps on _stop_event until the next row is due.
Sleep(p) ==
  /\ at[p] = "sleep" /\ row' = [row EXCEPT ![p] = @ + 1]
  /\ at' = [at EXCEPT ![p] = IF row[p] < Rows /\ p \in stopSet THEN "reset" ELSE "row"]
  /\ Shared /\ UNCHANGED <<resets, poses, reply, late, cut, early>>

\* After the loop: reset_ui, then on_done, and the thread ends.
PostReset(p) ==
  /\ at[p] = "reset" /\ at' = [at EXCEPT ![p] = "done"] /\ resets' = resets \cup {p}
  /\ Shared /\ UNCHANGED <<row, poses, reply, late, cut, early>>
OnDone(p) ==
  /\ at[p] = "done" /\ at' = [at EXCEPT ![p] = "ended"] /\ playing' = NoPlayer
  /\ UNCHANGED <<kind, playable, resets, row, poses, stopSet, reply, onLink, orphans, tcp, plays, histVars>>

-----------------------------------------------------------------------------
(* The simulator and the Receiver.                                         *)

Answered(p) ==
  /\ tcp = "up" /\ p \in onLink /\ reply[p] = "awaited" /\ at[p] \in {"stepped", "saved"}
  /\ reply' = [reply EXCEPT ![p] = "answered"]
  /\ UNCHANGED <<kind, playing, playable, resets, at, row, poses, stopSet, onLink, orphans, tcp, plays, histVars>>
LinkFails ==
  /\ tcp = "up" /\ tcp' = "failing"
  /\ UNCHANGED <<kind, playing, playable, resets, threadVars, stopSet, onLink, orphans, plays, histVars>>
\* _on_disconnect: the events of all pending requests, then the stop event.
FreeWaits ==
  /\ tcp = "failing" /\ tcp' = "freed"
  /\ reply' = [p \in Players |-> IF reply[p] = "awaited" THEN "freed" ELSE reply[p]]
  /\ UNCHANGED <<kind, playing, playable, resets, at, row, poses, stopSet, onLink, orphans, plays, histVars>>
StopOnLoss ==
  /\ tcp = "freed" /\ tcp' = "down" /\ onLink' = {} /\ orphans' = orphans \cup onLink
  /\ stopSet' = IF Alive(playing) THEN stopSet \cup {playing} ELSE stopSet
  /\ UNCHANGED <<kind, playing, playable, resets, threadVars, plays, histVars>>

Reconnected ==
  /\ tcp = "down" /\ tcp' = "up"
  /\ UNCHANGED <<kind, playing, playable, resets, threadVars, stopSet, onLink, orphans, plays, histVars>>

PlayerStep(p) ==
  \/ NextRow(p) \/ SendControl(p) \/ CheckStop(p) \/ SendRequest(p) \/ GoesOn(p) \/ GivesUp(p)
  \/ Sleep(p) \/ PostReset(p) \/ OnDone(p)

PlayNext ==
  \/ Play \/ StopPlay \/ LinkFails \/ FreeWaits \/ StopOnLoss \/ Reconnected
  \/ \E p \in Players : PlayerStep(p) \/ ApplyReset(p) \/ Answered(p)

\* A thread that can run does, its waits have timeouts, and the UI loop drains.
PlaySpec == PlayInit /\ [][PlayNext]_playVars
  /\ \A p \in Players : WF_playVars(PlayerStep(p)) /\ WF_playVars(ApplyReset(p))

-----------------------------------------------------------------------------
(* Properties.                                                             *)

\* However Stop, Play and the end of a playback meet, one thread at most drives
\* the vehicles: the button comes back only when the loop before is over.
OneDrives == \A p, q \in Players : InLoop(p) /\ InLoop(q) => p = q

\* A stopped file player sends one more message at most, a stopped transform
\* player what is left of a row.
StopTakesHold == \A p \in Players :
  late[p] <= IF kind = "file" THEN 1 ELSE PosesOf[IF row[p] > Rows THEN Rows ELSE row[p]]

\* A row is saved only when its step was answered: a timeout ends the playback.
SavedWhenStepped == early = {}

\* What is driven is driven by one thread, a row after the other, until Stop.
DrivesInStep == OneDrives /\ SavedWhenStepped /\ StopTakesHold

\* Play is offered again after every playback.  The code has two ways out of it:
\* an exception in the thread, and a Play in the instant between the reset of
\* the panel and the end of the thread.
PlayIsBack == playable \/ cut # {} \/ turnedAway
PlayComesBack == ~playable ~> PlayIsBack
=============================================================================
