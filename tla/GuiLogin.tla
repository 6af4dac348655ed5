------------------------------ MODULE GuiLogin ------------------------------
(***************************************************************************)
(* Login, logout and launch in the simulation control GUI: the callback    *)
(* thread handles clicks, a worker (at most one, as in SimGui) talks to    *)
(* the login service and launches the simulator, the main thread shows     *)
(* what the worker posts.  Logout is no task: it runs in the callback      *)
(* thread, whatever the worker does.  The program may be killed and        *)
(* started again; the configuration, the session file and the simulator    *)
(* stay.                                                                   *)
(*                                                                         *)
(* A login object is a number, 0 stands for None; tokens are there or not. *)
(* Buttons are clicked when their view is shown: that they are disabled    *)
(* while a task runs is SimGui's and not relied upon.  The configuration   *)
(* is saved at once or not at all: GuiSettings has its steps.              *)
(***************************************************************************)
EXTENDS Naturals, Sequences

CONSTANTS MaxClicks, MaxQueued, MaxKills  \* bounds: clicks, those that wait, kills

VARIABLES
  view, remember,  \* the window that is shown, the check box
  config, file,    \* on disk: remember_login, and is there a session file
  unsaved,         \* history: the last save failed, or left a session file behind
  login, force,    \* _headless_login, _force_login_required
  tokens,          \* _headless_tokens is not None
  launchText,      \* the text of the launcher
  pressed, presses,  \* clicks to be handled, and how many there were
  hand,            \* the callback thread
  job,             \* the worker: its task, the login and the check box captured
  posts,           \* the UI queue
  running,         \* external: simulators this program started that still run
  ourProcess,         \* _headless_process: "none", or one that "runs" or has "exited"
  forgotten,       \* history: was one lost from sight, or a Start clicked during a start?
  refused,         \* history: logins told of another active session
  logins, kills,   \* how many there were
  crossed          \* history: a logout or a kill met a worker or a post, or
                   \* a Verify was started for a login replaced since

disk == <<config, file, unsaved>>
simulators == <<running, ourProcess, forgotten>>
state == <<login, force, tokens>>
loginVars == <<view, remember, disk, state, launchText, pressed, presses, hand, job, posts,
               simulators, refused, logins, kills, crossed>>

Buttons == {"login", "verify", "start", "logout", "remember"}
NoJob == [at |-> "none", of |-> 0, remember |-> FALSE]
LoginTypeOK ==
  /\ view \in {"login", "main"} /\ remember \in BOOLEAN
  /\ config \in BOOLEAN /\ file \in BOOLEAN /\ unsaved \in BOOLEAN
  /\ login \in Nat /\ force \in BOOLEAN /\ tokens \in BOOLEAN
  /\ launchText \in {"-", "Starting", "Launched", "Failed", "Running"}
  /\ pressed \in Seq(Buttons) /\ presses \in 0..MaxClicks
  /\ hand \in [at : {"idle", "login", "verify", "start", "logout"}, of : Nat, remember : BOOLEAN]
  /\ job \in [at : {"none", "login", "verify", "restore", "start", "launch", "resolve", "keep"},
              of : Nat, remember : BOOLEAN]
  /\ posts \in Seq(STRING) /\ refused \subseteq 1..logins
  /\ running \in Nat /\ ourProcess \in {"none", "runs", "exited"} /\ forgotten \in BOOLEAN
  /\ logins \in Nat /\ kills \in 0..MaxKills /\ crossed \in BOOLEAN

IdleHand == [NoJob EXCEPT !.at = "idle"]
\* start: a remembered login is restored.
FirstJob == IF config THEN [NoJob EXCEPT !.at = "restore"] ELSE NoJob

LoginInit ==
  /\ config \in BOOLEAN /\ file \in BOOLEAN /\ (file => config)
  /\ view = "login" /\ remember = config
  /\ login = 0 /\ force = FALSE /\ tokens = FALSE /\ launchText = "-"
  /\ pressed = <<>> /\ posts = <<>> /\ hand = IdleHand /\ job = FirstJob
  /\ presses = 0 /\ unsaved = FALSE /\ running = 0 /\ ourProcess = "none" /\ forgotten = FALSE
  /\ refused = {} /\ logins = 0 /\ kills = 0 /\ crossed = FALSE

-----------------------------------------------------------------------------
(* Clicks and the callback thread.                                         *)

Press(button) ==
  /\ presses < MaxClicks /\ Len(pressed) < MaxQueued
  /\ view = IF button \in {"start", "logout"} THEN "main" ELSE "login"
  /\ pressed' = Append(pressed, button) /\ presses' = presses + 1
  /\ UNCHANGED <<view, remember, disk, state, launchText, hand, job, posts, simulators, refused,
                 logins, kills, crossed>>

Handles(button) == hand.at = "idle" /\ pressed # <<>> /\ Head(pressed) = button
                   /\ pressed' = Tail(pressed)
Captures(task) == hand' = [at |-> task, of |-> login, remember |-> remember]

TickRemember ==
  /\ Handles("remember") /\ remember' = ~remember
  /\ UNCHANGED <<view, disk, state, launchText, presses, hand, job, posts, simulators, refused,
                 logins, kills, crossed>>
HandleLogin ==
  /\ Handles("login") /\ Captures("login")
  /\ UNCHANGED <<view, remember, disk, state, launchText, presses, job, posts, simulators, refused,
                 logins, kills, crossed>>
\* _on_verify_and_launch takes the login object when it is clicked.
HandleVerify ==
  /\ Handles("verify") /\ (IF login # 0 THEN Captures("verify") ELSE UNCHANGED hand)
  /\ UNCHANGED <<view, remember, disk, state, launchText, presses, job, posts, simulators, refused,
                 logins, kills, crossed>>
\* Mutant: the process list is believed.
RefusesFound(found) == found
\* _on_headless_start refuses when the search of the process list finds a
\* simulator, somebody else's too, or when its own runs, and asks for a login
\* without tokens.  The search knows two names, and finds none off Windows: it may
\* find one or not, whatever runs.
Refuses(found) == found \/ ourProcess = "runs"
HandleStart ==
  /\ Handles("start")
  /\ \E found \in BOOLEAN :
       /\ IF Refuses(found) \/ ~tokens THEN UNCHANGED hand ELSE Captures("start")
       /\ launchText' = IF Refuses(found) THEN "Running" ELSE launchText
       /\ view' = IF ~Refuses(found) /\ ~tokens THEN "login" ELSE view
  /\ forgotten' = (forgotten \/ job.at \in {"start", "launch"})
  /\ UNCHANGED <<remember, disk, state, presses, job, posts, running, ourProcess, refused, logins,
                 kills, crossed>>
\* _start_task: the captured task, unless a worker is there.
StartJob ==
  /\ hand.at \in {"login", "verify", "start"} /\ hand' = IdleHand
  /\ job' = IF job.at = "none" THEN hand ELSE job
  /\ crossed' = (crossed \/ (hand.at = "verify" /\ job.at = "none" /\ hand.of # login))
  /\ UNCHANGED <<view, remember, disk, state, launchText, pressed, presses, posts, simulators,
                 refused, logins, kills>>

\* _on_logout: what is remembered, then the preferences and the view.
HandleLogout ==
  /\ Handles("logout") /\ Captures("logout")
  /\ remember' = FALSE /\ file' = FALSE /\ login' = 0 /\ force' = FALSE /\ tokens' = FALSE
  /\ crossed' = (crossed \/ job.at # "none" \/ posts # <<>>)
  /\ UNCHANGED <<view, config, unsaved, launchText, presses, job, posts, simulators, refused, logins,
                 kills>>
\* clear_session cannot remove the file: the exception ends the callback.
LogoutRaises ==
  /\ Handles("logout") /\ file /\ remember' = FALSE
  /\ UNCHANGED <<view, disk, state, launchText, presses, hand, job, posts, simulators, refused,
                 logins, kills, crossed>>
\* _save_preferences: the configuration, and then the session file that is not
\* remembered goes; what fails is logged.
Saves(remembers) ==
  \/ config' = remembers /\ file' = (file /\ remembers) /\ unsaved' = FALSE
  \/ config' \in {config, config /\ remembers} /\ UNCHANGED file /\ unsaved' = TRUE
\* Mutant: the main window stays.
LogoutShownNot ==
  /\ hand.at = "logout" /\ hand' = IdleHand /\ Saves(remember)
  /\ UNCHANGED <<view, remember, state, launchText, pressed, presses, job, posts, simulators,
                 refused, logins, kills, crossed>>
LogoutShown ==
  /\ hand.at = "logout" /\ hand' = IdleHand
  /\ Saves(remember) /\ view' = "login"
  /\ UNCHANGED <<remember, state, launchText, pressed, presses, job, posts, simulators, refused,
                 logins, kills, crossed>>

-----------------------------------------------------------------------------
(* The worker.                                                             *)

At(place) == job.at = place
Goes(place) == job' = [job EXCEPT !.at = place]
Posts(text) == posts' = Append(posts, text) /\ job' = NoJob
Elsewhere == UNCHANGED <<view, remember, launchText, pressed, presses, hand, kills, crossed>>

\* A request to the login service raises, or the file of a login that is not
\* restored cannot be removed: the error is shown.
JobFails ==
  /\ job.at \in {"login", "verify", "resolve", "restore"} /\ Posts("Error")
  /\ Elsewhere /\ UNCHANGED <<disk, state, simulators, refused, logins>>

\* login of a new MoraiHeadlessLogin: tokens for a trusted device, or a code.
LoggedIn ==
  /\ At("login") /\ Goes("resolve")
  /\ Elsewhere /\ UNCHANGED <<disk, state, posts, simulators, refused, logins>>
CodeNeeded ==
  /\ At("login") /\ Posts("Code")
  /\ logins' = logins + 1 /\ login' = logins + 1 /\ force' = FALSE
  /\ Elsewhere /\ UNCHANGED <<disk, tokens, simulators, refused>>

\* verify, or force_verify if another session was reported.
Verified ==
  /\ At("verify") /\ Goes("resolve")
  /\ Elsewhere /\ UNCHANGED <<disk, state, posts, simulators, refused, logins>>
ActiveSession ==
  /\ At("verify") /\ ~force /\ Posts("Force")
  /\ force' = TRUE /\ refused' = refused \cup {job.of}
  /\ Elsewhere /\ UNCHANGED <<disk, login, tokens, simulators, logins>>

\* _remember_credentials: the launch credentials, and then the session file, which
\* may fail and leave one that is not whole.
Resolved ==
  /\ At("resolve") /\ Goes("keep") /\ tokens' = TRUE
  /\ Elsewhere /\ UNCHANGED <<disk, login, force, posts, simulators, refused, logins>>
Kept ==
  /\ At("keep") /\ Posts("LoggedIn") /\ file' = job.remember
  /\ Elsewhere /\ UNCHANGED <<config, unsaved, state, simulators, refused, logins>>
KeepFails ==
  /\ At("keep") /\ Posts("Error")
  /\ file' \in {file, file \/ job.remember} /\ unsaved' = (unsaved \/ file' # file)
  /\ Elsewhere /\ UNCHANGED <<config, state, simulators, refused, logins>>

\* _restore_remembered_login; a file that cannot be used is removed.
Restored ==
  /\ At("restore") /\ file /\ tokens' = TRUE /\ Posts("Restored")
  /\ Elsewhere /\ UNCHANGED <<disk, login, force, simulators, refused, logins>>
Expired ==
  /\ At("restore") /\ file' = FALSE /\ Posts("Expired")
  /\ Elsewhere /\ UNCHANGED <<config, unsaved, state, simulators, refused, logins>>

\* _launch_with_tokens: without tokens an exception nobody catches.
Starting ==
  /\ At("start") /\ posts' = Append(posts, "Starting") /\ Goes("launch")
  /\ Elsewhere /\ UNCHANGED <<disk, state, simulators, refused, logins>>
\* launch_simulator: one is found, or it cannot be started; or it runs, and a tick
\* that has met the exit of the last one may drop it from _headless_process.
Launch ==
  /\ At("launch")
  /\ \/ ~tokens /\ job' = NoJob /\ UNCHANGED <<posts, simulators>>
     \/ tokens /\ Posts("Error") /\ UNCHANGED simulators
     \/ /\ tokens /\ Posts("Launched") /\ running' = running + 1
        /\ ourProcess' \in (IF ourProcess = "exited" THEN {"runs", "none"} ELSE {"runs"})
        /\ forgotten' = (forgotten \/ ourProcess' = "none")
  /\ Elsewhere /\ UNCHANGED <<disk, state, refused, logins>>

-----------------------------------------------------------------------------
(* The main thread; the simulator; a kill.                                 *)

Shows(text) == posts # <<>> /\ Head(posts) = text /\ posts' = Tail(posts)
Rest == UNCHANGED <<pressed, presses, hand, job, simulators, refused, logins, kills, crossed>>

\* _login_succeeded, also for a restored login.
LoginSucceeded ==
  /\ Shows("LoggedIn") \/ Shows("Restored")
  /\ remember' = (remember \/ Head(posts) = "Restored") /\ Saves(remember')
  /\ view' = "main" /\ login' = 0 /\ force' = FALSE /\ launchText' = "-"
  /\ UNCHANGED tokens /\ Rest
LoginExpired ==
  /\ Shows("Expired") /\ remember' = FALSE /\ Saves(FALSE)
  /\ UNCHANGED <<view, state, launchText>> /\ Rest
ShowText ==
  /\ Shows("Code") \/ Shows("Force") \/ Shows("Error") \/ Shows("Starting") \/ Shows("Launched")
  /\ launchText' = CASE Head(posts) \in {"Starting", "Launched"} -> Head(posts)
                     [] Head(posts) = "Error" /\ view = "main" -> "Failed"
                     [] OTHER -> launchText
  /\ UNCHANGED <<view, remember, disk, state>> /\ Rest

SimulatorExits ==
  /\ running > 0 /\ running' = running - 1
  /\ \/ ourProcess = "runs" /\ ourProcess' = "exited"
     \/ (ourProcess = "runs" => running > 1) /\ UNCHANGED ourProcess
  /\ UNCHANGED <<view, remember, disk, state, launchText, pressed, presses, hand, job, posts,
                 forgotten, refused, logins, kills, crossed>>
\* tick: a simulator that has exited.
Tick ==
  /\ ourProcess = "exited" /\ ourProcess' = "none" /\ launchText' = "-"
  /\ UNCHANGED <<view, remember, disk, state, pressed, presses, hand, job, posts, running,
                 forgotten, refused, logins, kills, crossed>>
Kill ==
  /\ kills < MaxKills /\ kills' = kills + 1
  /\ view' = "login" /\ remember' = config
  /\ login' = 0 /\ force' = FALSE /\ tokens' = FALSE /\ launchText' = "-"
  /\ pressed' = <<>> /\ posts' = <<>> /\ hand' = IdleHand /\ job' = FirstJob
  /\ crossed' = (crossed \/ job.at # "none" \/ posts # <<>>)
  /\ ourProcess' = "none" /\ forgotten' = (forgotten \/ running > 0)
  /\ UNCHANGED <<disk, presses, running, refused, logins>>

CallbackHandles == TickRemember \/ HandleLogin \/ HandleVerify \/ HandleStart \/ StartJob
                   \/ HandleLogout \/ LogoutRaises \/ LogoutShown
JobStep == JobFails \/ LoggedIn \/ CodeNeeded \/ Verified \/ ActiveSession \/ Resolved \/ Kept
           \/ KeepFails \/ Restored \/ Expired \/ Starting \/ Launch
Shown == LoginSucceeded \/ LoginExpired \/ ShowText
LoginNext == \/ CallbackHandles \/ JobStep \/ Shown \/ SimulatorExits \/ Tick \/ Kill
             \/ \E button \in Buttons : Press(button)

LoginSpec == LoginInit /\ [][LoginNext]_loginVars

-----------------------------------------------------------------------------
(* Properties.                                                             *)

Quiet == hand.at = "idle" /\ job.at = "none" /\ posts = <<>>

\* The main window is shown with tokens to launch with, unless a logout met a
\* task or a post of it.
MainHasTokens == Quiet /\ view = "main" /\ ~crossed => tokens

\* At rest a session file is one that the configuration remembers, so that the
\* next start uses or removes it, unless a kill or a logout came in between, the
\* last save failed, or the file itself was not written to its end.
NoForgottenFile == Quiet /\ file /\ ~crossed /\ ~unsaved => config

\* A login by force follows the report of an active session to the same login.
ForceIsConfirmed == At("verify") /\ force /\ ~crossed => job.of \in refused

\* However blind the search of the process list, the program has one simulator at
\* most, unless a kill or the race of tick lost it one that runs, or a Start was
\* clicked while another one was under way.
OneSimulator == running > 1 => forgotten

\* At rest the launcher's text is not "Starting...", unless a logout came in
\* between: then the launch ends with an exception nobody catches.
StartingEnds == Quiet /\ ~crossed => launchText # "Starting"

\* At rest the login, what is kept of it and what is shown agree, and nothing was
\* forced or started twice on the way.
LoginSettles == MainHasTokens /\ NoForgottenFile /\ ForceIsConfirmed /\ OneSimulator /\ StartingEnds

-----------------------------------------------------------------------------
(***************************************************************************)
(* load_or_create_hardware_hash: programs that log in for the first time   *)
(* may run at the same time, and a program may be killed.  The file is     *)
(* created exclusively, and written after that; the value a program makes  *)
(* stands for the program itself.                                          *)
(***************************************************************************)
CONSTANTS Programs, NoFile, Empty

ASSUME HashAssumption == NoFile \notin Programs /\ Empty \notin Programs /\ NoFile # Empty

VARIABLES
  hashFile,     \* the file: NoFile, Empty, or what is in it
  place,        \* where each program is
  hash,         \* what each program returned, NoFile before that
  unwritten     \* history: was a program killed between creating and writing?
hashVars == <<hashFile, place, hash, unwritten>>

HashTypeOK ==
  /\ hashFile \in Programs \cup {NoFile, Empty}
  /\ place \in [Programs -> {"begin", "read", "create", "write", "returned", "raised", "killed"}]
  /\ hash \in [Programs -> Programs \cup {NoFile}] /\ unwritten \in BOOLEAN

HashInit ==
  /\ hashFile = NoFile /\ unwritten = FALSE
  /\ place = [p \in Programs |-> "begin"] /\ hash = [p \in Programs |-> NoFile]

Moves(p, here, there) == place[p] = here /\ place' = [place EXCEPT ![p] = there]

LookForFile(p) ==
  /\ Moves(p, "begin", IF hashFile = NoFile THEN "create" ELSE "read")
  /\ UNCHANGED <<hashFile, hash, unwritten>>
ReadHash(p) ==
  /\ Moves(p, "read", IF hashFile = Empty THEN "raised" ELSE "returned")
  /\ hash' = IF hashFile = Empty THEN hash ELSE [hash EXCEPT ![p] = hashFile]
  /\ UNCHANGED <<hashFile, unwritten>>

\* Mutant: the file is opened without O_EXCL.
CreateShared(p) ==
  /\ Moves(p, "create", "write") /\ hashFile' = Empty /\ UNCHANGED <<hash, unwritten>>
\* O_EXCL: who comes second starts again and reads.
Create(p) ==
  /\ Moves(p, "create", IF hashFile = NoFile THEN "write" ELSE "begin")
  /\ hashFile' = IF hashFile = NoFile THEN Empty ELSE hashFile
  /\ UNCHANGED <<hash, unwritten>>
WriteHash(p) ==
  /\ Moves(p, "write", "returned") /\ hashFile' = p /\ hash' = [hash EXCEPT ![p] = p]
  /\ UNCHANGED unwritten
KillProgram(p) ==
  /\ place[p] \in {"begin", "read", "create", "write"} /\ place' = [place EXCEPT ![p] = "killed"]
  /\ unwritten' = (unwritten \/ place[p] = "write")
  /\ UNCHANGED <<hashFile, hash>>
\* A program whose login failed, or that was killed, is started again.
RunAgain(p) == place[p] \in {"raised", "killed"} /\ place' = [place EXCEPT ![p] = "begin"]
               /\ UNCHANGED <<hashFile, hash, unwritten>>

HashNext == \E p \in Programs : \/ LookForFile(p) \/ ReadHash(p) \/ Create(p) \/ WriteHash(p)
                                \/ KillProgram(p) \/ RunAgain(p)
HashSpec == HashInit /\ [][HashNext]_hashVars

\* Whoever gets a hash gets the one in the file: the machine has one identity.
OneHash == \A p \in Programs : hash[p] # NoFile => hash[p] = hashFile

\* An empty file, at which every login fails, is about to be written, unless a
\* program was killed before it wrote: then it stays empty for good.
EmptyIsTransient ==
  hashFile = Empty => unwritten \/ \E p \in Programs : place[p] = "write"

\* The file gives the machine one identity, and stays usable.
HashAgreed == OneHash /\ EmptyIsTransient

\* A login comes to an end that is shown, and all programs agree on the machine.
LoginTrue == LoginSettles /\ HashAgreed
=============================================================================
