----------------------------- MODULE CameraSlots -----------------------------
(***************************************************************************)
(* One of the four slots of panels/camera_sensor_panel.py with the receive *)
(* threads it starts one after the other.  The depth receiver looks at its *)
(* running flag after each datagram, the others (RGB, semantic, instance,  *)
(* boxes) only when no datagram is left.  The callback thread starts and   *)
(* stops, a receive thread makes pictures, the main thread shows them.  A  *)
(* picture stands for the thread that made it; a datagram completes one.   *)
(* SensorStreams models what receives and shows the other sensors.         *)
(***************************************************************************)
EXTENDS SensorStreams

CONSTANTS MaxSlotThreads, MaxPictures   \* bounds: Starts, datagrams
ASSUME SlotAssumption == MaxSlotThreads \in Nat /\ MaxPictures \in Nat

VARIABLES
  sensor,      \* "depth", or "drains" for the others
  receiver,    \* state.receiver, 0 for None
  rxAt, rxOn,  \* each receive thread: its step, its running flag
  taken,       \* the datagrams each took after stop() was called
  click,       \* the step of the callback thread
  canStart,    \* is the Start button enabled?  The status is Running if not
  pictures,    \* datagrams that came
  toShow,      \* the queue of the main thread
  showing,     \* the picture it has half shown, 0 for none
  texture, label,  \* the picture shown, and the one its texts are about; 0: blank
  unbound,     \* history: threads that were stopped before they listened
  stray        \* history: was a picture shown of a thread that is not the slot's,
               \* or while the slot was blanked?

slotVars == <<sensor, receiver, rxAt, rxOn, taken, click, canStart, pictures,
              toShow, showing, texture, label, unbound, stray>>
SlotThreads == 1..MaxSlotThreads

SlotInit ==
  /\ sensor \in {"depth", "drains"} /\ receiver = 0
  /\ rxAt = [r \in SlotThreads |-> "new"] /\ rxOn = [r \in SlotThreads |-> FALSE]
  /\ taken = [r \in SlotThreads |-> 0]
  /\ click = "idle" /\ canStart = TRUE /\ pictures = 0 /\ toShow = << >> /\ showing = 0
  /\ texture = 0 /\ label = 0 /\ unbound = {} /\ stray = FALSE

-----------------------------------------------------------------------------
(* The callback thread: _start_slot and _stop_slot.                        *)

StartSlot ==
  /\ click = "idle" /\ canStart /\ receiver = 0 /\ click' = "starting"
  /\ \E r \in SlotThreads :
       /\ rxAt[r] = "new" /\ \A q \in SlotThreads : q < r => rxAt[q] # "new"
       /\ rxAt' = [rxAt EXCEPT ![r] = "bind"] /\ receiver' = r
  /\ UNCHANGED <<sensor, rxOn, taken, canStart, pictures, toShow, showing, texture, label, unbound, stray>>
ShowRunning ==
  /\ click = "starting" /\ click' = "idle" /\ canStart' = FALSE /\ label' = 0
  /\ stray' = (stray \/ texture # 0 \/ showing # 0)
  /\ UNCHANGED <<sensor, receiver, rxAt, rxOn, taken, pictures, toShow, showing, texture, unbound>>
StopSlot ==
  /\ click = "idle" /\ click' = "blank" /\ receiver' = 0
  /\ rxOn' = [r \in SlotThreads |-> rxOn[r] /\ r # receiver]
  /\ unbound' = unbound \cup {r \in {receiver} \cap SlotThreads : rxAt[r] = "bind"}
  /\ UNCHANGED <<sensor, rxAt, taken, canStart, pictures, toShow, showing, texture, label, stray>>
BlankTexture ==
  /\ click = "blank" /\ click' = "texts" /\ canStart' = TRUE /\ texture' = 0
  /\ stray' = (stray \/ showing # 0)
  /\ UNCHANGED <<sensor, receiver, rxAt, rxOn, taken, pictures, toShow, showing, label, unbound>>
BlankTexts ==
  /\ click = "texts" /\ click' = "idle" /\ label' = 0
  /\ stray' = (stray \/ showing # 0)
  /\ UNCHANGED <<sensor, receiver, rxAt, rxOn, taken, canStart, pictures, toShow, showing, texture, unbound>>

-----------------------------------------------------------------------------
(* The receive threads: run() and the callback of the panel.               *)

RxMoves(r, here, there) == rxAt[r] = here /\ rxAt' = [rxAt EXCEPT ![r] = there]

BindSlot(r) ==
  /\ RxMoves(r, "bind", "recv") /\ rxOn' = [rxOn EXCEPT ![r] = TRUE]
  /\ UNCHANGED <<sensor, receiver, taken, click, canStart, pictures, toShow, showing, texture, label, unbound, stray>>
BindSlotFails(r) ==
  /\ RxMoves(r, "bind", "gone")
  /\ UNCHANGED <<sensor, receiver, rxOn, taken, click, canStart, pictures, toShow, showing, texture, label, unbound, stray>>

TakeDatagram(r) ==
  /\ rxAt[r] \in {"recv", "burst"} /\ pictures < MaxPictures /\ pictures' = pictures + 1
  /\ rxAt' = [rxAt EXCEPT ![r] = "callback"]
  /\ taken' = IF rxOn[r] THEN taken ELSE [taken EXCEPT ![r] = @ + 1]
  /\ UNCHANGED <<sensor, receiver, rxOn, click, canStart, toShow, showing, texture, label, unbound, stray>>

\* Mutant: the depth receiver, too, reads on while there are datagrams.
OnwardsAnyhow(r) == "burst"
\* After a datagram: the inner loop, or the flag.
Onwards(r) == IF sensor = "drains" THEN "burst" ELSE IF rxOn[r] THEN "recv" ELSE "gone"

\* Less than 1/30 s after the one before, or no picture in it.
SkipPicture(r) ==
  /\ RxMoves(r, "callback", Onwards(r))
  /\ UNCHANGED <<sensor, receiver, rxOn, taken, click, canStart, pictures, toShow, showing, texture, label, unbound, stray>>
\* state.receiver is read twice: for None, and for its fps.
ReadReceiver(r) ==
  /\ RxMoves(r, "callback", IF receiver = 0 THEN "post" ELSE "fps")
  /\ UNCHANGED <<sensor, receiver, rxOn, taken, click, canStart, pictures, toShow, showing, texture, label, unbound, stray>>
\* None by now: the callback raises, and the picture is lost.
ReadFps(r) ==
  /\ RxMoves(r, "fps", IF receiver = 0 THEN Onwards(r) ELSE "post")
  /\ UNCHANGED <<sensor, receiver, rxOn, taken, click, canStart, pictures, toShow, showing, texture, label, unbound, stray>>
PostPicture(r) ==
  /\ RxMoves(r, "post", Onwards(r)) /\ toShow' = Append(toShow, r)
  /\ UNCHANGED <<sensor, receiver, rxOn, taken, click, canStart, pictures, showing, texture, label, unbound, stray>>
\* No datagram is left, or none came for half a second.
LookAtFlag(r) ==
  /\ rxAt[r] \in {"recv", "burst"}
  /\ rxAt' = [rxAt EXCEPT ![r] = IF rxOn[r] THEN "recv" ELSE "gone"]
  /\ UNCHANGED <<sensor, receiver, rxOn, taken, click, canStart, pictures, toShow, showing, texture, label, unbound, stray>>

-----------------------------------------------------------------------------
(* The main thread: _apply.                                                *)

ApplyTextureOf ==
  /\ showing = 0 /\ toShow # << >> /\ toShow' = Tail(toShow)
  /\ showing' = Head(toShow) /\ texture' = Head(toShow)
  /\ stray' = (stray \/ Head(toShow) # receiver \/ click # "idle")
  /\ UNCHANGED <<sensor, receiver, rxAt, rxOn, taken, click, canStart, pictures, label, unbound>>
ApplyTexts ==
  /\ showing # 0 /\ showing' = 0 /\ label' = showing
  /\ stray' = (stray \/ showing # receiver \/ click # "idle")
  /\ UNCHANGED <<sensor, receiver, rxAt, rxOn, taken, click, canStart, pictures, toShow, texture, unbound>>

SlotThreadStep(r) ==
  \/ BindSlot(r) \/ BindSlotFails(r) \/ TakeDatagram(r) \/ SkipPicture(r) \/ ReadReceiver(r)
  \/ ReadFps(r) \/ PostPicture(r) \/ LookAtFlag(r)
SlotNext ==
  \/ StartSlot \/ ShowRunning \/ StopSlot \/ BlankTexture \/ BlankTexts
  \/ ApplyTextureOf \/ ApplyTexts
  \/ \E r \in SlotThreads : SlotThreadStep(r)
SlotSpec == SlotInit /\ [][SlotNext]_slotVars

-----------------------------------------------------------------------------
\* A stopped slot is blank and a running one shows its own receiver, picture
\* and texts of the same one, unless a picture of a stopped receiver was still
\* to come.
SlotShowsItsOwn ==
  click = "idle" /\ showing = 0 /\ ~stray => texture \in {0, receiver} /\ label = texture

\* A stopped depth receiver takes one datagram more at most, unless it was
\* stopped before it listened: it then runs for good, like any receiver.
StopBites ==
  \A r \in SlotThreads :
    /\ sensor = "depth" /\ r \notin unbound => taken[r] <= 1
    /\ rxOn[r] => r = receiver \/ r \in unbound

SlotsTrue == SlotShowsItsOwn /\ StopBites

\* A tab shows what its own receivers of now have received.
ReceiversTrue == StreamsTrue /\ SlotsTrue
=============================================================================
