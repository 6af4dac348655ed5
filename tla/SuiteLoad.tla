----------------------------- MODULE SuiteLoad ------------------------------
(***************************************************************************)
(* LoadSuite in the command panel: dispatch's thread sends and then notes  *)
(* the request id, the Receiver compares it with each response, a watchdog *)
(* warns of a long load, and a lost connection gives the load up.  The     *)
(* pending id is under a lock; each status text is posted after the lock   *)
(* is released.                                                            *)
(*                                                                         *)
(* The UI queue is a FIFO and a text replaces the one before, so of the    *)
(* texts posted the last one, status, is what the panel comes to show.     *)
(***************************************************************************)
CONSTANTS Loads, NoLoad

ASSUME SuiteAssumption == NoLoad \notin Loads

VARIABLES
  sender,         \* for each load, where dispatch's thread is
  answer,         \* for each load: "none", "coming", "taken", "ignored"
  pendingLoad,    \* _load_suite_pending_rid
  watchdog,       \* the watchdog thread; of: the id it has read
  suiteRx, suiteUi,  \* what the Receiver and the UI thread are in
  status,         \* the text posted last
  latest,         \* history: the load noted last, NoLoad after a loss
  overtaken       \* history: loads answered while a text of an earlier step,
                  \* of on_sent or of the watchdog, was still to be posted

suiteVars == <<sender, answer, pendingLoad, watchdog, suiteRx, suiteUi, status, latest, overtaken>>

Text(kind, r) == [kind |-> kind, of |-> r]
SuiteTypeOK ==
  /\ sender \in [Loads -> {"new", "sending", "noting", "posting", "done"}]
  /\ answer \in [Loads -> {"none", "coming", "taken", "ignored"}]
  /\ pendingLoad \in Loads \cup {NoLoad} /\ latest \in Loads \cup {NoLoad}
  /\ watchdog \in [at : {"none", "asleep", "read", "ending"}, of : Loads \cup {NoLoad},
                   warned : BOOLEAN]
  /\ suiteRx \in [at : {"idle", "answering", "losing"}, of : Loads \cup {NoLoad}]
  /\ suiteUi \in {"idle", "losing"}
  /\ status \in [kind : {"-", "Loading", "StillLoading", "outcome", "Disconnected"},
                 of : Loads \cup {NoLoad}]
  /\ overtaken \subseteq Loads

SuiteInit ==
  /\ sender = [r \in Loads |-> "new"] /\ answer = [r \in Loads |-> "none"]
  /\ pendingLoad = NoLoad /\ latest = NoLoad
  /\ watchdog = [at |-> "none", of |-> NoLoad, warned |-> FALSE]
  /\ suiteRx = [at |-> "idle", of |-> NoLoad] /\ suiteUi = "idle"
  /\ status = Text("-", NoLoad) /\ overtaken = {}

-----------------------------------------------------------------------------
(* dispatch's threads.                                                     *)

Sender(r, here, there) == sender[r] = here /\ sender' = [sender EXCEPT ![r] = there]

\* _load_suite; nothing is dispatched without a connection.
ClickLoadSuite(r) ==
  /\ Sender(r, "new", "sending")
  /\ UNCHANGED <<answer, pendingLoad, watchdog, suiteRx, suiteUi, status, latest, overtaken>>
\* The send, which may fail: then on_sent is not called.
SendLoad(r, ok) ==
  /\ Sender(r, "sending", IF ok THEN "noting" ELSE "done")
  /\ answer' = IF ok THEN [answer EXCEPT ![r] = "coming"] ELSE answer
  /\ UNCHANGED <<pendingLoad, watchdog, suiteRx, suiteUi, status, latest, overtaken>>

\* _on_load_suite_sent: under the lock, and a watchdog unless one is alive.
NoteLoad(r) ==
  /\ Sender(r, "noting", "posting")
  /\ pendingLoad' = r /\ latest' = r
  /\ watchdog' = IF watchdog.at = "none"
                 THEN [at |-> "asleep", of |-> NoLoad, warned |-> FALSE] ELSE watchdog
  /\ UNCHANGED <<answer, suiteRx, suiteUi, status, overtaken>>
PostLoading(r) ==
  /\ Sender(r, "posting", "done") /\ status' = Text("Loading", r)
  /\ UNCHANGED <<answer, pendingLoad, watchdog, suiteRx, suiteUi, latest, overtaken>>

-----------------------------------------------------------------------------
(* The Receiver's thread, and the handler of a loss.                       *)

\* A text of an earlier step is still to be posted when r is answered.
Overtakes(r) == sender[r] # "done" \/ watchdog.at = "read" \/ \E s \in Loads : sender[s] = "posting"

\* Mutant: a response is taken for the load that is pending, whatever its id.
TakeAnyResponse(r) ==
  /\ suiteRx.at = "idle" /\ answer[r] = "coming"
  /\ overtaken' = IF Overtakes(r) THEN overtaken \cup {r} ELSE overtaken
  /\ IF pendingLoad # NoLoad
     THEN /\ answer' = [answer EXCEPT ![r] = "taken"] /\ pendingLoad' = NoLoad
          /\ suiteRx' = [at |-> "answering", of |-> r]
     ELSE /\ answer' = [answer EXCEPT ![r] = "ignored"]
          /\ UNCHANGED <<pendingLoad, suiteRx>>
  /\ UNCHANGED <<sender, watchdog, suiteUi, status, latest>>

\* on_load_suite_response: the lock's block, then the text.
TakeResponse(r) ==
  /\ suiteRx.at = "idle" /\ answer[r] = "coming"
  /\ overtaken' = IF Overtakes(r) THEN overtaken \cup {r} ELSE overtaken
  /\ IF pendingLoad = r
     THEN /\ answer' = [answer EXCEPT ![r] = "taken"] /\ pendingLoad' = NoLoad
          /\ suiteRx' = [at |-> "answering", of |-> r]
     ELSE /\ answer' = [answer EXCEPT ![r] = "ignored"]
          /\ UNCHANGED <<pendingLoad, suiteRx>>
  /\ UNCHANGED <<sender, watchdog, suiteUi, status, latest>>
PostOutcome ==
  /\ suiteRx.at = "answering" /\ suiteRx' = [at |-> "idle", of |-> NoLoad]
  /\ status' = Text("outcome", suiteRx.of)
  /\ UNCHANGED <<sender, answer, pendingLoad, watchdog, suiteUi, latest, overtaken>>

\* on_connection_lost, in the Receiver or in the UI thread (_on_disconnect).
LoseLoadRx ==
  /\ suiteRx.at = "idle" /\ suiteRx' = [at |-> "losing", of |-> NoLoad]
  /\ pendingLoad' = NoLoad /\ latest' = NoLoad
  /\ UNCHANGED <<sender, answer, watchdog, suiteUi, status, overtaken>>
PostLostRx ==
  /\ suiteRx.at = "losing" /\ suiteRx' = [suiteRx EXCEPT !.at = "idle"]
  /\ status' = Text("Disconnected", NoLoad) /\ latest' = NoLoad
  /\ UNCHANGED <<sender, answer, pendingLoad, watchdog, suiteUi, overtaken>>
LoseLoadUi ==
  /\ suiteUi = "idle" /\ suiteUi' = "losing"
  /\ pendingLoad' = NoLoad /\ latest' = NoLoad
  /\ UNCHANGED <<sender, answer, watchdog, suiteRx, status, overtaken>>
PostLostUi ==
  /\ suiteUi = "losing" /\ suiteUi' = "idle"
  /\ status' = Text("Disconnected", NoLoad) /\ latest' = NoLoad
  /\ UNCHANGED <<sender, answer, pendingLoad, watchdog, suiteRx, overtaken>>

-----------------------------------------------------------------------------
(* _load_suite_watchdog_run.                                               *)

\* After its sleep it reads the pending id, and returns if there is none.
WatchdogReads ==
  /\ watchdog.at = "asleep"
  /\ watchdog' = [watchdog EXCEPT !.at = IF pendingLoad = NoLoad THEN "ending" ELSE "read",
                                  !.of = pendingLoad]
  /\ UNCHANGED <<sender, answer, pendingLoad, suiteRx, suiteUi, status, latest, overtaken>>
\* It warns once, if the load has lasted long enough.
WatchdogSpeaks(slow) ==
  LET warns == slow /\ ~watchdog.warned IN
  /\ watchdog.at = "read"
  /\ watchdog' = [at |-> "asleep", of |-> NoLoad, warned |-> watchdog.warned \/ warns]
  /\ status' = IF warns THEN Text("StillLoading", watchdog.of) ELSE status
  /\ UNCHANGED <<sender, answer, pendingLoad, suiteRx, suiteUi, latest, overtaken>>
WatchdogEnds ==
  /\ watchdog.at = "ending" /\ watchdog' = [watchdog EXCEPT !.at = "none"]
  /\ UNCHANGED <<sender, answer, pendingLoad, suiteRx, suiteUi, status, latest, overtaken>>
WatchdogStep == WatchdogReads \/ WatchdogEnds \/ \E slow \in BOOLEAN : WatchdogSpeaks(slow)

SuiteNext ==
  \/ \E r \in Loads :
       \/ ClickLoadSuite(r) \/ NoteLoad(r) \/ PostLoading(r) \/ TakeResponse(r)
       \/ \E ok \in BOOLEAN : SendLoad(r, ok)
  \/ PostOutcome \/ LoseLoadRx \/ PostLostRx \/ LoseLoadUi \/ PostLostUi
  \/ WatchdogStep

\* The watchdog goes on by itself.
SuiteSpec == SuiteInit /\ [][SuiteNext]_suiteVars /\ WF_suiteVars(WatchdogStep)

-----------------------------------------------------------------------------
(* Properties.                                                             *)

\* A load that was answered is not pending, unless its response came before
\* on_sent had noted it (then it is pending until the connection is lost).
AnsweredLoadEnds ==
  pendingLoad # NoLoad =>
    \/ answer[pendingLoad] = "coming"
    \/ answer[pendingLoad] = "ignored" /\ pendingLoad \in overtaken

\* Once the response to the load noted last is handled, its outcome is what the
\* status shows: no answer of an older load and no warning of the watchdog
\* replaces it, unless the response overtook a text that was still to be posted.
OutcomeShown ==
  \A r \in Loads :
    latest = r /\ answer[r] \in {"taken", "ignored"} /\ r \notin overtaken /\ suiteRx.at = "idle"
      => status = Text("outcome", r)

\* An answer settles the load it belongs to, in the table and in the status.
AnswerSettles == AnsweredLoadEnds /\ OutcomeShown

\* A watchdog without a load to watch ends.
WatchdogSleeps == watchdog.at = "asleep"
WatchdogLeft == watchdog.at = "none" \/ pendingLoad # NoLoad
WatchdogLeaves == WatchdogSleeps ~> WatchdogLeft
=============================================================================
