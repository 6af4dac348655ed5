----------------------------- MODULE GuiRefresh -----------------------------
(***************************************************************************)
(* How the simulation control GUI follows the active scenario.  A PLAY     *)
(* status, a finished load and the first COMPLETED status each start a     *)
(* chain of threads, one per attempt, that sleep, fetch the active         *)
(* scenario and post it; a Load abandons the chains of the generation      *)
(* before.  Chains overlap, the Receiver, the callback thread, the worker  *)
(* and the main thread start or abandon them without a lock.               *)
(***************************************************************************)
EXTENDS Naturals, Sequences

CONSTANTS Threads, NoRefresh,  \* refresh threads; at most so many at a time
          Scenarios, NoName,   \* names of scenarios, and ""
          MaxAttempts, MaxEvents  \* attempts of a chain; bound

ASSUME RefreshAssumption == NoRefresh \notin Threads /\ NoName \notin Scenarios
                            /\ MaxAttempts \in Nat \ {0}

VARIABLES
  generation, armed,    \* _scenario_refresh_generation, _completed_refresh_armed
  activeName,           \* _active_scenario_name, which is also shown
  refresher,            \* the refresh threads
  refreshPosts,         \* the UI queue
  simName, online,      \* external: the active scenario; session.is_connected
  events, loaded,       \* statuses, clicks and moves there were; loads done
  lastName, lastThread, \* history: the name fetched last, and who fetched it
  mixed                 \* history: an older name was posted after a newer one
refreshVars == <<generation, armed, activeName, refresher, refreshPosts, simName, online,
                 events, loaded, lastName, lastThread, mixed>>
refreshHistory == <<lastName, lastThread, mixed>>

Names == Scenarios \cup {NoName}
Statuses == {"PLAY", "PAUSE", "COMPLETED"}
Asleep(gen, prev, attempts) == [at |-> "asleep", gen |-> gen, prev |-> prev, left |-> attempts, name |-> NoName]
Ended == [at |-> "none", gen |-> 0, prev |-> NoName, left |-> 0, name |-> NoName]

RefreshTypeOK ==
  /\ generation \in 0..MaxEvents /\ armed \in BOOLEAN /\ activeName \in Names
  /\ refresher \in [Threads -> [at : {"none", "asleep", "fetching", "posting"}, gen : 0..MaxEvents,
                                prev : Names, left : 0..MaxAttempts, name : Names]]
  /\ refreshPosts \in Seq([kind : Statuses \cup {"-"}, name : Names, suite : BOOLEAN])
  /\ simName \in Names /\ online \in BOOLEAN
  /\ events \in 0..MaxEvents /\ loaded \in 0..MaxEvents
  /\ lastName \in Names /\ lastThread \in Threads \cup {NoRefresh} /\ mixed \in BOOLEAN

RefreshInit ==
  /\ generation = 0 /\ armed = FALSE /\ activeName = NoName
  /\ refresher = [t \in Threads |-> Ended] /\ refreshPosts = <<>>
  /\ simName \in Names /\ online = TRUE /\ events = 0 /\ loaded = 0
  /\ lastName = NoName /\ lastThread = NoRefresh /\ mixed = FALSE

-----------------------------------------------------------------------------
(* Who starts a chain, and who abandons the chains there are.              *)

\* _schedule_active_suite_refresh; a thread more than there are is not modelled.
Schedule(prev, attempts) ==
  \E t \in Threads :
    /\ refresher[t].at = "none"
    /\ refresher' = [refresher EXCEPT ![t] = Asleep(generation, prev, attempts)]

Happens == events < MaxEvents /\ events' = events + 1

\* _on_scenario_status, in the session's Receiver.
HearStatus(s) ==
  /\ Happens /\ online
  /\ refreshPosts' = Append(refreshPosts, [kind |-> s, name |-> NoName, suite |-> FALSE])
  /\ IF s = "PLAY" THEN Schedule(NoName, 1) ELSE UNCHANGED refresher
  /\ UNCHANGED <<generation, armed, activeName, simName, online, loaded, refreshHistory>>

\* _prepare_suite_load, in the callback thread; what is still to be posted or
\* shown was fetched before.
PrepareLoad ==
  /\ Happens /\ generation' = generation + 1
  /\ armed' = FALSE /\ activeName' = NoName
  /\ lastName' = NoName /\ lastThread' = NoRefresh
  /\ mixed' = (mixed \/ \E i \in 1..Len(refreshPosts) : refreshPosts[i].suite)
  /\ UNCHANGED <<refresher, refreshPosts, simName, online, loaded>>
\* The end of a load, in the worker.
SuiteLoaded ==
  /\ loaded < generation /\ loaded' = loaded + 1 /\ Schedule(NoName, MaxAttempts)
  /\ UNCHANGED <<generation, armed, activeName, refreshPosts, simName, online, events,
                 refreshHistory>>
\* _on_get_status fetches at once, and not for a chain.
GetStatus ==
  /\ Happens /\ online
  /\ \E t \in Threads :
       /\ refresher[t].at = "none"
       /\ refresher' = [refresher EXCEPT ![t] = [Asleep(generation, NoName, 0) EXCEPT !.at = "fetching"]]
  /\ UNCHANGED <<generation, armed, activeName, refreshPosts, simName, online, loaded, refreshHistory>>

-----------------------------------------------------------------------------
(* The refresh threads.                                                    *)

Awake(t) ==
  /\ refresher[t].at = "asleep"
  /\ refresher' = [refresher EXCEPT ![t] =
       IF @.gen # generation \/ ~online THEN Ended ELSE [@ EXCEPT !.at = "fetching"]]
  /\ UNCHANGED <<generation, armed, activeName, refreshPosts, simName, online, events, loaded,
                 refreshHistory>>
Fetch(t) ==
  /\ refresher[t].at = "fetching" /\ online
  /\ refresher' = [refresher EXCEPT ![t].at = "posting", ![t].name = simName]
  /\ lastName' = simName /\ lastThread' = t
  /\ UNCHANGED <<generation, armed, activeName, refreshPosts, simName, online, events, loaded, mixed>>

\* The chain ends with a name that is new, and after its attempts.
NextAttempt(r, name) ==
  IF (name # NoName /\ name # r.prev) \/ r.left <= 1 THEN Ended
  ELSE Asleep(r.gen, r.prev, r.left - 1)

FetchFails(t) ==
  /\ refresher[t].at = "fetching"
  /\ refresher' = [refresher EXCEPT ![t] = NextAttempt(@, NoName)]
  /\ UNCHANGED <<generation, armed, activeName, refreshPosts, simName, online, events, loaded,
                 refreshHistory>>
PostName(t) ==
  LET r == refresher[t] IN
  /\ r.at = "posting" /\ refresher' = [refresher EXCEPT ![t] = NextAttempt(r, r.name)]
  /\ refreshPosts' = Append(refreshPosts, [kind |-> "-", name |-> r.name, suite |-> TRUE])
  /\ mixed' = (mixed \/ lastThread # t)
  /\ UNCHANGED <<generation, armed, activeName, simName, online, events, loaded, lastName, lastThread>>

-----------------------------------------------------------------------------
(* The main thread, and the simulator.                                     *)

Shown1(kind) == /\ refreshPosts # <<>> /\ Head(refreshPosts).kind = kind
                /\ refreshPosts' = Tail(refreshPosts)

\* _apply_scenario_status: the first COMPLETED starts a chain.
ApplyCompleted ==
  /\ Shown1("COMPLETED") /\ armed' = TRUE
  /\ IF armed THEN UNCHANGED refresher ELSE Schedule(activeName, MaxAttempts)
  /\ UNCHANGED <<generation, activeName, simName, online, events, loaded, refreshHistory>>
ApplyOther ==
  /\ Shown1("PLAY") \/ Shown1("PAUSE")
  /\ armed' = FALSE
  /\ UNCHANGED <<generation, activeName, refresher, simName, online, events, loaded, refreshHistory>>
\* Mutant: an empty name leaves the one before.
ApplyNameNotEmpty ==
  /\ Shown1("-")
  /\ activeName' = IF Head(refreshPosts).name = NoName THEN activeName ELSE Head(refreshPosts).name
  /\ UNCHANGED <<generation, armed, refresher, simName, online, events, loaded, refreshHistory>>
\* _apply_active_suite_status
ApplyName ==
  /\ Shown1("-") /\ activeName' = Head(refreshPosts).name
  /\ UNCHANGED <<generation, armed, refresher, simName, online, events, loaded, refreshHistory>>

SimulatorMoves(name) ==
  /\ name # simName /\ Happens /\ simName' = name
  /\ UNCHANGED <<generation, armed, activeName, refresher, refreshPosts, online, loaded,
                 refreshHistory>>
GoesOffline ==
  /\ online /\ online' = FALSE
  /\ UNCHANGED <<generation, armed, activeName, refresher, refreshPosts, simName, events, loaded,
                 refreshHistory>>

ThreadStep(t) == Awake(t) \/ Fetch(t) \/ FetchFails(t) \/ PostName(t)
ApplyStep == ApplyCompleted \/ ApplyOther \/ ApplyName
RefreshNext ==
  \/ PrepareLoad \/ SuiteLoaded \/ GetStatus \/ GoesOffline \/ ApplyStep
  \/ \E s \in Statuses : HearStatus(s)
  \/ \E name \in Names : SimulatorMoves(name)
  \/ \E t \in Threads : ThreadStep(t)

\* A thread's sleep ends, and its request has a timeout.
RefreshSpec == RefreshInit /\ [][RefreshNext]_refreshVars
               /\ \A t \in Threads : WF_refreshVars(ThreadStep(t))

-----------------------------------------------------------------------------
(* Properties.                                                             *)

\* When nothing is left to be shown, the scenario shown is the one fetched last
\* since the last Load, unless an older fetch was posted after a newer one, or
\* after that Load: neither the threads nor the items look at the generation.
ShownIsLatest ==
  refreshPosts = <<>> /\ ~mixed /\ (\A t \in Threads : refresher[t].at # "posting")
    => activeName = lastName

\* A COMPLETED chain ends, whatever the simulator answers: no attempt starts one
\* more than the chain has left.
ChainsEnd == \A t \in Threads : refresher[t].at # "none" ~> refresher[t].at = "none"
=============================================================================
