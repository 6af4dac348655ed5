----------------------------- MODULE GuiProofs ------------------------------
(***************************************************************************)
(* The safety properties of the launcher window and of the protobuf        *)
(* client, each of its own specification, for any number of clicks,        *)
(* requests, scenarios and threads.                                        *)
(***************************************************************************)
EXTENDS SimGui, GuiRefresh, ProtoClient, TLAPS

-----------------------------------------------------------------------------
(* Queues of posted items.                                                 *)

\* Is an item of these kinds in the queue, and is each of some kinds followed
\* by one of others?
Has(q, kinds) == \E i \in 1..Len(q) : q[i].kind \in kinds
Followed(q, kinds, by) ==
  \A i \in 1..Len(q) : q[i].kind \in kinds => \E j \in (i + 1)..Len(q) : q[j].kind \in by

\* The sequence without its head.
LEMMA PopFacts ==
  ASSUME NEW S, NEW q \in Seq(S), q # <<>>
  PROVE  /\ Tail(q) \in Seq(S) /\ Len(q) \in Nat \ {0} /\ Len(Tail(q)) = Len(q) - 1
         /\ Head(q) = q[1] /\ q[1] \in S
         /\ \A i \in 1..(Len(q) - 1) : Tail(q)[i] = q[i + 1]
  OBVIOUS

\* The sequence with one more item.
LEMMA PushFacts ==
  ASSUME NEW S, NEW q \in Seq(S), NEW x \in S
  PROVE  /\ Append(q, x) \in Seq(S) /\ Len(q) \in Nat /\ Len(Append(q, x)) = Len(q) + 1
         /\ \A i \in 1..Len(q) : Append(q, x)[i] = q[i]
         /\ Append(q, x)[Len(q) + 1] = x
  OBVIOUS

\* An item appended is in the queue, with those before it.
LEMMA HasPushed ==
  ASSUME NEW S, NEW q \in Seq(S), NEW x \in S, NEW kinds
  PROVE  /\ Has(q, kinds) => Has(Append(q, x), kinds)
         /\ x.kind \in kinds => Has(Append(q, x), kinds)
  BY PushFacts DEF Has

\* An item that is not the head stays in the queue.
LEMMA HasPopped ==
  ASSUME NEW S, NEW q \in Seq(S), q # <<>>, NEW kinds, Has(q, kinds), Head(q).kind \notin kinds
  PROVE  Has(Tail(q), kinds)
<1>1. PICK i \in 1..Len(q) : q[i].kind \in kinds
  BY DEF Has
<1>2. i # 1 /\ i - 1 \in 1..Len(Tail(q)) /\ Tail(q)[i - 1] = q[i]
  BY <1>1, PopFacts
<1>. QED  BY <1>1, <1>2 DEF Has

\* What follows an item still does when another is appended.
LEMMA FollowedPushed ==
  ASSUME NEW S, NEW q \in Seq(S), NEW x \in S, NEW kinds, NEW by, x.kind \notin kinds
  PROVE  /\ Followed(q, kinds, by) => Followed(Append(q, x), kinds, by)
         /\ x.kind \in by => Followed(Append(q, x), kinds, by)
<1>1. ASSUME Followed(q, kinds, by) \/ x.kind \in by, NEW i \in 1..Len(Append(q, x)), Append(q, x)[i].kind \in kinds
      PROVE  \E j \in (i + 1)..Len(Append(q, x)) : Append(q, x)[j].kind \in by
  <2>1. i \in 1..Len(q) /\ q[i].kind \in kinds
    BY <1>1, PushFacts
  <2>2. CASE Followed(q, kinds, by)
    <3>1. PICK j \in (i + 1)..Len(q) : q[j].kind \in by
      BY <2>1, <2>2 DEF Followed
    <3>. QED  BY <2>1, <3>1, PushFacts
  <2>3. CASE x.kind \in by
    BY <2>1, <2>3, PushFacts
  <2>. QED  BY <1>1, <2>2, <2>3
<1>. QED  BY <1>1 DEF Followed

\* What follows an item still does when the head is taken.
LEMMA FollowedPopped ==
  ASSUME NEW S, NEW q \in Seq(S), q # <<>>, NEW kinds, NEW by, Followed(q, kinds, by)
  PROVE  /\ Followed(Tail(q), kinds, by)
         /\ Head(q).kind \in kinds => Has(Tail(q), by)
<1>1. ASSUME NEW i \in 1..Len(q), q[i].kind \in kinds
      PROVE  \E j \in i..Len(Tail(q)) : Tail(q)[j].kind \in by
  <2>1. PICK j \in (i + 1)..Len(q) : q[j].kind \in by
    BY <1>1 DEF Followed
  <2>. QED  BY <2>1, PopFacts
<1>2. ASSUME NEW i \in 1..Len(Tail(q)), Tail(q)[i].kind \in kinds
      PROVE  \E j \in (i + 1)..Len(Tail(q)) : Tail(q)[j].kind \in by
  <2>1. i + 1 \in 1..Len(q) /\ q[i + 1].kind \in kinds
    BY <1>2, PopFacts
  <2>. QED  BY <1>1, <2>1
<1>3. Head(q).kind \in kinds => Has(Tail(q), by)
  BY <1>1, PopFacts DEF Has
<1>. QED  BY <1>2, <1>3 DEF Followed

-----------------------------------------------------------------------------
(* GuiRefresh.                                                             *)

RefreshItems == [kind : Statuses \cup {"-"}, name : Names, suite : BOOLEAN]
RefreshTypes ==
  /\ activeName \in Names /\ simName \in Names /\ lastName \in Names /\ mixed \in BOOLEAN
  /\ refresher \in [Threads -> [at : {"none", "asleep", "fetching", "posting"}, gen : Nat,
                                prev : Names, left : Nat, name : Names]]
  /\ refreshPosts \in Seq(RefreshItems)
  /\ \A i \in 1..Len(refreshPosts) : refreshPosts[i].suite <=> refreshPosts[i].kind = "-"
  /\ generation \in Nat /\ lastThread \in Threads \cup {NoRefresh}

\* The name that is shown once the queue is empty: of its last suite item, if it
\* has one.
EndsWith(name) ==
  /\ activeName = name \/ Has(refreshPosts, {"-"})
  /\ \A i \in 1..Len(refreshPosts) : refreshPosts[i].kind = "-" =>
       refreshPosts[i].name = name \/ \E j \in (i + 1)..Len(refreshPosts) : refreshPosts[j].kind = "-"

\* Until something is posted out of order, the thread that fetched last has still
\* to post what it fetched, or that is what the queue ends with.
LatestInv ==
  ~mixed => IF lastThread # NoRefresh /\ refresher[lastThread].at = "posting"
            THEN refresher[lastThread].name = lastName ELSE EndsWith(lastName)
RefreshInv == RefreshTypes /\ LatestInv

\* A callback that is scheduled keeps the form of the queue.
LEMMA ScheduleTypes ==
  ASSUME RefreshTypes, NEW prev \in Names, NEW attempts \in Nat, Schedule(prev, attempts)
  PROVE  /\ refresher' \in [Threads -> [at : {"none", "asleep", "fetching", "posting"}, gen : Nat,
                                        prev : Names, left : Nat, name : Names]]
         /\ \A t \in Threads : refresher[t].at = "posting" <=> refresher'[t].at = "posting"
         /\ \A t \in Threads : refresher[t].at = "posting" => refresher'[t] = refresher[t]
  BY DEF Schedule, Asleep, RefreshTypes, Names

\* Where the queue and the name shown stay, so does what it ends with.
LEMMA EndsStay ==
  ASSUME RefreshInv, UNCHANGED <<activeName, refreshPosts, lastName, lastThread, mixed>>,
         \A t \in Threads : refresher[t].at = "posting" <=> refresher'[t].at = "posting",
         \A t \in Threads : refresher[t].at = "posting" => refresher'[t].name = refresher[t].name
  PROVE  LatestInv'
  BY DEF RefreshInv, LatestInv, RefreshTypes, EndsWith, Has

\* A queue that grows by a status, or loses one, ends with the same name.
LEMMA StatusPushed ==
  ASSUME RefreshTypes, NEW s \in Statuses, NEW name \in Names, EndsWith(name), UNCHANGED activeName,
         refreshPosts' = Append(refreshPosts, [kind |-> s, name |-> NoName, suite |-> FALSE])
  PROVE  EndsWith(name)'
<1> DEFINE x == [kind |-> s, name |-> NoName, suite |-> FALSE]
<1>1. x \in RefreshItems /\ x.kind # "-" /\ refreshPosts \in Seq(RefreshItems)
  BY DEF RefreshItems, Names, Statuses, RefreshTypes
<1>2. Has(refreshPosts, {"-"}) => Has(refreshPosts, {"-"})'
  BY <1>1, HasPushed
<1> HIDE DEF x
<1>3. ASSUME NEW i \in 1..Len(refreshPosts'), refreshPosts'[i].kind = "-", refreshPosts'[i].name # name
      PROVE  \E j \in (i + 1)..Len(refreshPosts') : refreshPosts'[j].kind = "-"
  <2>1. /\ Len(refreshPosts') = Len(refreshPosts) + 1 /\ Len(refreshPosts) \in Nat
        /\ \A k \in 1..Len(refreshPosts) : refreshPosts'[k] = refreshPosts[k]
        /\ refreshPosts'[Len(refreshPosts) + 1] = x
    BY <1>1, PushFacts DEF x
  <2>2. i \in 1..Len(refreshPosts) /\ refreshPosts[i].kind = "-" /\ refreshPosts[i].name # name
    BY <1>1, <1>3, <2>1
  <2>3. PICK j \in (i + 1)..Len(refreshPosts) : refreshPosts[j].kind = "-"
    BY <2>2 DEF EndsWith
  <2>. QED  BY <2>1, <2>2, <2>3
<1>. QED  BY <1>2, <1>3 DEF EndsWith

\* So does a queue the first item of which is shown.
LEMMA ShownPopped ==
  ASSUME RefreshTypes, NEW name \in Names, EndsWith(name), refreshPosts # <<>>,
         refreshPosts' = Tail(refreshPosts),
         activeName' = IF Head(refreshPosts).kind = "-" THEN Head(refreshPosts).name ELSE activeName
  PROVE  EndsWith(name)'
<1>1. /\ refreshPosts' \in Seq(RefreshItems) /\ Len(refreshPosts) \in Nat \ {0}
      /\ Len(refreshPosts') = Len(refreshPosts) - 1 /\ Head(refreshPosts) = refreshPosts[1]
      /\ \A i \in 1..(Len(refreshPosts) - 1) : refreshPosts'[i] = refreshPosts[i + 1]
  BY PopFacts DEF RefreshTypes
<1>2. ASSUME NEW i \in 1..Len(refreshPosts), refreshPosts[i].kind = "-", refreshPosts[i].name # name
      PROVE  \E j \in i..Len(refreshPosts') : refreshPosts'[j].kind = "-"
  <2>1. PICK j \in (i + 1)..Len(refreshPosts) : refreshPosts[j].kind = "-"
    BY <1>2 DEF EndsWith
  <2>. QED  BY <1>1, <2>1
<1>3. ASSUME NEW i \in 1..Len(refreshPosts'), refreshPosts'[i].kind = "-", refreshPosts'[i].name # name
      PROVE  \E j \in (i + 1)..Len(refreshPosts') : refreshPosts'[j].kind = "-"
  <2>1. i + 1 \in 1..Len(refreshPosts) /\ refreshPosts[i + 1] = refreshPosts'[i]
    BY <1>1
  <2>. QED  BY <1>2, <1>3, <2>1
<1>4. activeName' = name \/ Has(refreshPosts, {"-"})'
  <2>1. CASE Head(refreshPosts).kind = "-"
    BY <1>1, <1>2, <2>1 DEF Has
  <2>2. CASE Head(refreshPosts).kind # "-"
    <3>1. Has(refreshPosts, {"-"}) => Has(Tail(refreshPosts), {"-"})
      BY <2>2, HasPopped DEF RefreshTypes
    <3>. QED  BY <2>2, <3>1 DEF EndsWith
  <2>. QED  BY <2>1, <2>2
<1>. QED  BY <1>3, <1>4 DEF EndsWith

\* A queue ends with the name that is posted last.
LEMMA NamePushed ==
  ASSUME RefreshTypes, NEW name \in Names, UNCHANGED activeName,
         refreshPosts' = Append(refreshPosts, [kind |-> "-", name |-> name, suite |-> TRUE])
  PROVE  EndsWith(name)'
<1> DEFINE x == [kind |-> "-", name |-> name, suite |-> TRUE]
<1>1. x \in RefreshItems /\ x.kind = "-" /\ x.name = name /\ refreshPosts \in Seq(RefreshItems)
  BY DEF RefreshItems, RefreshTypes
<1> HIDE DEF x
<1>2. /\ Len(refreshPosts') = Len(refreshPosts) + 1 /\ Len(refreshPosts) \in Nat
      /\ refreshPosts'[Len(refreshPosts) + 1] = x
  BY <1>1, PushFacts DEF x
<1>3. Has(refreshPosts, {"-"})'
  BY <1>1, <1>2 DEF Has
<1>4. ASSUME NEW i \in 1..Len(refreshPosts'), refreshPosts'[i].name # name
      PROVE  \E j \in (i + 1)..Len(refreshPosts') : refreshPosts'[j].kind = "-"
  BY <1>1, <1>2, <1>4
<1>. QED  BY <1>3, <1>4 DEF EndsWith

\* The items keep their form.
LEMMA StatusTypes ==
  ASSUME RefreshTypes, NEW s \in Statuses,
         refreshPosts' = Append(refreshPosts, [kind |-> s, name |-> NoName, suite |-> FALSE])
  PROVE  /\ refreshPosts' \in Seq(RefreshItems)
         /\ \A i \in 1..Len(refreshPosts') : refreshPosts'[i].suite <=> refreshPosts'[i].kind = "-"
<1> DEFINE x == [kind |-> s, name |-> NoName, suite |-> FALSE]
<1>1. x \in RefreshItems /\ x.kind # "-" /\ ~x.suite
  BY DEF RefreshItems, Names, Statuses
<1> HIDE DEF x
<1>2. /\ refreshPosts' \in Seq(RefreshItems)
      /\ Len(refreshPosts) \in Nat /\ Len(refreshPosts') = Len(refreshPosts) + 1
      /\ \A i \in 1..Len(refreshPosts) : refreshPosts'[i] = refreshPosts[i]
      /\ refreshPosts'[Len(refreshPosts) + 1] = x
  BY <1>1, PushFacts DEF x, RefreshTypes
<1>3. ASSUME NEW i \in 1..Len(refreshPosts') PROVE refreshPosts'[i].suite <=> refreshPosts'[i].kind = "-"
  <2>1. CASE i \in 1..Len(refreshPosts)
    BY <1>2, <2>1 DEF RefreshTypes
  <2>2. CASE i = Len(refreshPosts) + 1
    BY <1>1, <1>2, <2>2
  <2>. QED  BY <1>2, <2>1, <2>2
<1>. QED  BY <1>2, <1>3
\* The same of a name that is posted,
LEMMA NameTypes ==
  ASSUME RefreshTypes, NEW name \in Names,
         refreshPosts' = Append(refreshPosts, [kind |-> "-", name |-> name, suite |-> TRUE])
  PROVE  /\ refreshPosts' \in Seq(RefreshItems)
         /\ \A i \in 1..Len(refreshPosts') : refreshPosts'[i].suite <=> refreshPosts'[i].kind = "-"
<1> DEFINE x == [kind |-> "-", name |-> name, suite |-> TRUE]
<1>1. x \in RefreshItems /\ x.kind = "-" /\ x.suite
  BY DEF RefreshItems
<1> HIDE DEF x
<1>2. /\ refreshPosts' \in Seq(RefreshItems)
      /\ Len(refreshPosts) \in Nat /\ Len(refreshPosts') = Len(refreshPosts) + 1
      /\ \A i \in 1..Len(refreshPosts) : refreshPosts'[i] = refreshPosts[i]
      /\ refreshPosts'[Len(refreshPosts) + 1] = x
  BY <1>1, PushFacts DEF x, RefreshTypes
<1>3. ASSUME NEW i \in 1..Len(refreshPosts') PROVE refreshPosts'[i].suite <=> refreshPosts'[i].kind = "-"
  <2>1. CASE i \in 1..Len(refreshPosts)
    BY <1>2, <2>1 DEF RefreshTypes
  <2>2. CASE i = Len(refreshPosts) + 1
    BY <1>1, <1>2, <2>2
  <2>. QED  BY <1>2, <2>1, <2>2
<1>. QED  BY <1>2, <1>3
\* and of an item that is taken.
LEMMA PopTypes ==
  ASSUME RefreshTypes, refreshPosts # <<>>, refreshPosts' = Tail(refreshPosts)
  PROVE  /\ refreshPosts' \in Seq(RefreshItems)
         /\ \A i \in 1..Len(refreshPosts') : refreshPosts'[i].suite <=> refreshPosts'[i].kind = "-"
         /\ Head(refreshPosts).name \in Names
<1>1. /\ refreshPosts' \in Seq(RefreshItems) /\ Len(refreshPosts) \in Nat \ {0}
      /\ Len(refreshPosts') = Len(refreshPosts) - 1
      /\ \A i \in 1..(Len(refreshPosts) - 1) : refreshPosts'[i] = refreshPosts[i + 1]
      /\ Head(refreshPosts) \in RefreshItems
  BY PopFacts DEF RefreshTypes
<1>2. ASSUME NEW i \in 1..Len(refreshPosts') PROVE refreshPosts'[i].suite <=> refreshPosts'[i].kind = "-"
  <2>1. i + 1 \in 1..Len(refreshPosts)
    BY <1>1
  <2>. QED  BY <1>1, <2>1 DEF RefreshTypes
<1>. QED  BY <1>1, <1>2 DEF RefreshItems

\* The statuses, the clicks and the moves of the simulator.
LEMMA RefreshStep ==
  ASSUME RefreshInv, [RefreshNext]_refreshVars
  PROVE  RefreshInv'
<1>. USE RefreshAssumption DEF RefreshInv
<1> DEFINE Chains == [Threads -> [at : {"none", "asleep", "fetching", "posting"}, gen : Nat,
                                  prev : Names, left : Nat, name : Names]]
<1>a. NoName \in Names /\ MaxAttempts \in Nat /\ 1 \in Nat
  BY DEF Names
<1>1. ASSUME NEW s \in Statuses, HearStatus(s) PROVE RefreshInv'
  <2>1. s = "PLAY" => Schedule(NoName, 1)
    BY <1>1 DEF HearStatus
  <2>2. s # "PLAY" => UNCHANGED refresher
    BY <1>1 DEF HearStatus
  <2>3. /\ refresher' \in Chains
        /\ \A t \in Threads : refresher[t].at = "posting" <=> refresher'[t].at = "posting"
        /\ \A t \in Threads : refresher[t].at = "posting" => refresher'[t].name = refresher[t].name
    BY <1>a, <2>1, <2>2, ScheduleTypes DEF RefreshTypes
  <2>4. UNCHANGED <<activeName, lastName, lastThread, mixed, simName, generation>>
    BY <1>1 DEF HearStatus, refreshHistory
  <2>5. refreshPosts' = Append(refreshPosts, [kind |-> s, name |-> NoName, suite |-> FALSE])
    BY <1>1 DEF HearStatus
  <2>6. RefreshTypes'
    BY <1>a, <2>3, <2>4, <2>5, StatusTypes DEF RefreshTypes
  <2>7. ASSUME NEW name \in Names, EndsWith(name) PROVE EndsWith(name)'
    BY <2>4, <2>5, <2>7, StatusPushed
  <2>. QED  BY <2>3, <2>4, <2>6, <2>7 DEF LatestInv, RefreshTypes
<1>2. CASE PrepareLoad
  <2>1. RefreshTypes'
    BY <1>a, <1>2 DEF PrepareLoad, RefreshTypes
  <2>2. ~mixed' => EndsWith(NoName)'
    BY <1>2 DEF PrepareLoad, RefreshTypes, EndsWith
  <2>. QED  BY <1>2, <2>1, <2>2 DEF PrepareLoad, LatestInv
<1>3. CASE SuiteLoaded
  <2>1. Schedule(NoName, MaxAttempts) /\ UNCHANGED <<activeName, refreshPosts, lastName, lastThread, mixed, simName, generation>>
    BY <1>3 DEF SuiteLoaded, refreshHistory
  <2>. QED  BY <1>a, <2>1, ScheduleTypes, EndsStay DEF RefreshTypes
<1>4. CASE GetStatus
  <2>1. /\ refresher' \in Chains
        /\ \A t \in Threads : refresher[t].at = "posting" <=> refresher'[t].at = "posting"
        /\ \A t \in Threads : refresher[t].at = "posting" => refresher'[t].name = refresher[t].name
    <3>1. PICK u \in Threads : refresher[u].at = "none"
            /\ refresher' = [refresher EXCEPT ![u] = [Asleep(generation, NoName, 0) EXCEPT !.at = "fetching"]]
      BY <1>4 DEF GetStatus
    <3>2. [Asleep(generation, NoName, 0) EXCEPT !.at = "fetching"]
            = [at |-> "fetching", gen |-> generation, prev |-> NoName, left |-> 0, name |-> NoName]
      BY DEF Asleep
    <3>. QED  BY <1>a, <3>1, <3>2 DEF RefreshTypes
  <2>2. UNCHANGED <<activeName, refreshPosts, lastName, lastThread, mixed, simName, generation>>
    BY <1>4 DEF GetStatus, refreshHistory
  <2>. QED  BY <2>1, <2>2, EndsStay DEF RefreshTypes
<1>5. CASE GoesOffline \/ \E name \in Names : SimulatorMoves(name)
  <2>1. UNCHANGED <<activeName, refreshPosts, lastName, lastThread, mixed, refresher, generation>> /\ simName' \in Names
    BY <1>5 DEF GoesOffline, SimulatorMoves, refreshHistory, RefreshTypes
  <2>. QED  BY <2>1, EndsStay DEF RefreshTypes
<1>6. CASE ApplyStep
  <2>1. /\ refreshPosts # <<>> /\ refreshPosts' = Tail(refreshPosts)
        /\ activeName' = IF Head(refreshPosts).kind = "-" THEN Head(refreshPosts).name ELSE activeName
        /\ UNCHANGED <<lastName, lastThread, mixed, simName, generation>>
    BY <1>6 DEF ApplyStep, ApplyCompleted, ApplyOther, ApplyName, Shown1, refreshHistory
  <2>2. /\ refresher' \in Chains
        /\ \A t \in Threads : refresher[t].at = "posting" <=> refresher'[t].at = "posting"
        /\ \A t \in Threads : refresher[t].at = "posting" => refresher'[t].name = refresher[t].name
    <3>1. UNCHANGED refresher \/ Schedule(activeName, MaxAttempts)
      BY <1>6 DEF ApplyStep, ApplyCompleted, ApplyOther, ApplyName
    <3>. QED  BY <1>a, <3>1, ScheduleTypes DEF RefreshTypes
  <2>3. RefreshTypes'
    BY <2>1, <2>2, PopTypes DEF RefreshTypes
  <2>4. ASSUME NEW name \in Names, EndsWith(name) PROVE EndsWith(name)'
    BY <2>1, <2>4, ShownPopped
  <2>. QED  BY <2>1, <2>2, <2>3, <2>4 DEF LatestInv, RefreshTypes
<1>7. ASSUME NEW t \in Threads, Awake(t) PROVE RefreshInv'
  <2>1. /\ refresher' \in Chains
        /\ \A u \in Threads : refresher[u].at = "posting" <=> refresher'[u].at = "posting"
        /\ \A u \in Threads : refresher[u].at = "posting" => refresher'[u].name = refresher[u].name
    BY <1>a, <1>7 DEF Awake, Ended, RefreshTypes
  <2>2. UNCHANGED <<activeName, refreshPosts, lastName, lastThread, mixed, simName, generation>>
    BY <1>7 DEF Awake, refreshHistory
  <2>. QED  BY <2>1, <2>2, EndsStay DEF RefreshTypes
<1>8. ASSUME NEW t \in Threads, FetchFails(t) PROVE RefreshInv'
  <2>1. /\ refresher' \in Chains
        /\ \A u \in Threads : refresher[u].at = "posting" <=> refresher'[u].at = "posting"
        /\ \A u \in Threads : refresher[u].at = "posting" => refresher'[u].name = refresher[u].name
    BY <1>a, <1>8 DEF FetchFails, NextAttempt, Asleep, Ended, RefreshTypes
  <2>2. UNCHANGED <<activeName, refreshPosts, lastName, lastThread, mixed, simName, generation>>
    BY <1>8 DEF FetchFails, refreshHistory
  <2>. QED  BY <2>1, <2>2, EndsStay DEF RefreshTypes
<1>9. ASSUME NEW t \in Threads, Fetch(t) PROVE RefreshInv'
  <2>1. refresher' \in Chains /\ refresher'[t].at = "posting" /\ refresher'[t].name = simName
    BY <1>9 DEF Fetch, RefreshTypes
  <2>2. /\ UNCHANGED <<activeName, refreshPosts, mixed, simName, generation>>
        /\ lastName' = simName /\ lastThread' = t /\ t # NoRefresh
    BY <1>9 DEF Fetch
  <2>. QED  BY <2>1, <2>2 DEF LatestInv, RefreshTypes
<1>10. ASSUME NEW t \in Threads, PostName(t) PROVE RefreshInv'
  <2>0. PICK name \in Names : name = refresher[t].name
    BY DEF RefreshTypes
  <2>1. /\ refresher' \in Chains /\ refresher'[t].at # "posting"
        /\ t # NoRefresh /\ refresher[t].at = "posting"
    BY <1>a, <1>10 DEF PostName, NextAttempt, Asleep, Ended, RefreshTypes
  <2>2. /\ UNCHANGED <<activeName, lastName, lastThread, simName, generation>>
        /\ mixed' = (mixed \/ lastThread # t)
        /\ refreshPosts' = Append(refreshPosts, [kind |-> "-", name |-> name, suite |-> TRUE])
    BY <1>10, <2>0 DEF PostName
  <2>3. RefreshTypes'
    BY <2>1, <2>2, NameTypes DEF RefreshTypes
  <2>4. EndsWith(name)'
    BY <2>1, <2>2, NamePushed
  <2>. QED  BY <2>0, <2>1, <2>2, <2>3, <2>4 DEF LatestInv, RefreshTypes
<1>11. CASE UNCHANGED refreshVars
  <2>1. UNCHANGED <<activeName, refreshPosts, lastName, lastThread, mixed, refresher, simName, generation>>
    BY <1>11 DEF refreshVars
  <2>. QED  BY <2>1, EndsStay DEF RefreshTypes
<1>. QED
  BY <1>1, <1>2, <1>3, <1>4, <1>5, <1>6, <1>7, <1>8, <1>9, <1>10, <1>11 DEF RefreshNext, ThreadStep

\* When nothing is left to be shown, the scenario shown is the one fetched last,
\* unless items were posted out of order.
THEOREM LatestIsShown == RefreshSpec => []ShownIsLatest
<1>1. RefreshInit => RefreshInv
  <2>1. RefreshInit => RefreshTypes
    <3>1. NoName \in Names /\ Ended \in [at : {"none", "asleep", "fetching", "posting"}, gen : Nat,
                                         prev : Names, left : Nat, name : Names]
      BY DEF Names, Ended
    <3>2. <<>> \in Seq(RefreshItems) /\ Len(<<>>) = 0
      OBVIOUS
    <3> SUFFICES ASSUME RefreshInit PROVE RefreshTypes
      OBVIOUS
    <3>3. refreshPosts \in Seq(RefreshItems) /\ Len(refreshPosts) = 0
      BY <3>2 DEF RefreshInit
    <3>4. \A i \in 1..Len(refreshPosts) : refreshPosts[i].suite <=> refreshPosts[i].kind = "-"
      BY <3>3
    <3>5. generation \in Nat /\ lastThread \in Threads \cup {NoRefresh} /\ mixed \in BOOLEAN
      BY DEF RefreshInit
    <3>6. activeName \in Names /\ simName \in Names /\ lastName \in Names
      BY <3>1 DEF RefreshInit
    <3>7. refresher = [t \in Threads |-> Ended]
      BY DEF RefreshInit
    <3>. QED  BY <3>1, <3>3, <3>4, <3>5, <3>6, <3>7 DEF RefreshTypes
  <2>. QED  BY <2>1 DEF RefreshInit, RefreshInv, LatestInv, EndsWith, Has
<1>2. RefreshInv /\ [RefreshNext]_refreshVars => RefreshInv'
  BY RefreshStep
<1>3. RefreshInv => ShownIsLatest
  BY DEF RefreshInv, RefreshTypes, LatestInv, EndsWith, Has, ShownIsLatest
<1>. QED  BY <1>1, <1>2, <1>3, PTL DEF RefreshSpec

-----------------------------------------------------------------------------
(* ProtoClient.                                                            *)

Frames == [class : {"RESP", "NOTI"}, id : Nat, ok : BOOLEAN]
ProtoTypes ==
  /\ socket \in {"none", "open", "ended"} /\ nextId \in Nat \ {0}
  /\ owed \subseteq Nat \ {0} /\ asked \subseteq Nat /\ wire \in Seq(Frames)
  /\ here \in 0..Len(wire) /\ begun \in BOOLEAN /\ synced \in BOOLEAN /\ calling \in Nat
  /\ returned \subseteq Nat \X Nat

\* An id is taken once, so what is returned was never owed again and what a
\* call waits for is not owed.
IdsInv ==
  /\ \A r \in owed : r < nextId
  /\ \A pair \in returned : pair[1] = pair[2] /\ pair[1] < nextId /\ pair[1] \notin owed
  /\ calling < nextId /\ calling \notin owed
OnTheWire(r) == \E k \in 1..Len(wire) : wire[k].id = r
ComingInv == socket = "open" /\ synced => \A r \in owed \ gone : r \in asked \/ OnTheWire(r)
ProtoInv == ProtoTypes /\ IdsInv /\ ComingInv

\* A frame that is read leaves the others where they were.
LEMMA PoppedKeeps ==
  ASSUME ProtoTypes, CanRead, Popped
  PROVE  /\ wire' \in Seq(Frames) /\ here' \in 0..Len(wire') /\ begun' \in BOOLEAN /\ synced' \in BOOLEAN
         /\ Next1 \in Frames /\ UNCHANGED synced
         /\ \A r : OnTheWire(r) => r = Next1.id \/ OnTheWire(r)'
<1>1. /\ wire # <<>> /\ wire \in Seq(Frames) /\ here \in Nat /\ here <= Len(wire) /\ here > 0
      /\ wire' = Tail(wire) /\ here' = here - 1 /\ UNCHANGED <<begun, synced>>
  BY DEF ProtoTypes, CanRead, Popped
<1>2. /\ wire' \in Seq(Frames) /\ Len(wire) \in Nat \ {0} /\ Len(wire') = Len(wire) - 1
      /\ Next1 = wire[1] /\ Next1 \in Frames
      /\ \A i \in 1..(Len(wire) - 1) : wire'[i] = wire[i + 1]
  BY <1>1, PopFacts DEF Next1
<1>3. ASSUME NEW r, OnTheWire(r), r # Next1.id PROVE OnTheWire(r)'
  <2>1. PICK k \in 1..Len(wire) : wire[k].id = r
    BY <1>3 DEF OnTheWire
  <2>2. k - 1 \in 1..Len(wire') /\ wire'[k - 1] = wire[k]
    BY <1>2, <1>3, <2>1
  <2>. QED  BY <2>1, <2>2 DEF OnTheWire
<1>. QED  BY <1>1, <1>2, <1>3 DEF ProtoTypes

\* A frame that is sent joins the others.
LEMMA PushedKeeps ==
  ASSUME ProtoTypes, NEW frame \in Frames, wire' = Append(wire, frame), UNCHANGED here
  PROVE  /\ wire' \in Seq(Frames) /\ here' \in 0..Len(wire')
         /\ OnTheWire(frame.id)' /\ \A r : OnTheWire(r) => OnTheWire(r)'
<1>1. /\ wire' \in Seq(Frames) /\ Len(wire) \in Nat /\ Len(wire') = Len(wire) + 1
      /\ \A i \in 1..Len(wire) : wire'[i] = wire[i]
      /\ wire'[Len(wire) + 1] = frame
  BY PushFacts DEF ProtoTypes
<1>. QED  BY <1>1 DEF OnTheWire, ProtoTypes

\* The caller's operations.
LEMMA CallerStep ==
  ASSUME ProtoInv, OpenStream \/ CloseStream \/ LoadSchema \/ Call \/ Send \/ Receive
  PROVE  ProtoInv'
<1>. USE DEF ProtoInv, ProtoTypes, wireVars
<1>1. CASE OpenStream
  <2>1. wire' = <<>> /\ here' = 0 /\ begun' = FALSE /\ synced' = TRUE /\ asked' = {} /\ socket' = "open"
        /\ UNCHANGED <<nextId, owed, calling, returned>> /\ gone' = gone \cup owed
    BY <1>1 DEF OpenStream
  <2>2. <<>> \in Seq(Frames) /\ Len(<<>>) = 0
    OBVIOUS
  <2>3. wire' \in Seq(Frames) /\ Len(wire') = 0
    BY <2>1, <2>2
  <2>6. here' \in 0..Len(wire') /\ begun' \in BOOLEAN /\ synced' \in BOOLEAN /\ asked' \subseteq Nat
    <3>1. here' = 0 /\ asked' = {}
      BY <2>1
    <3>2. here' \in 0..Len(wire')
      BY <2>3, <3>1
    <3>3. begun' \in BOOLEAN /\ synced' \in BOOLEAN
      BY <2>1, Zenon
    <3>. QED  BY <3>1, <3>2, <3>3
  <2>4. IdsInv'
    BY <2>1 DEF IdsInv
  <2>5. owed' \ gone' = {}
    BY <2>1
  <2>. QED  BY <2>1, <2>3, <2>4, <2>5, <2>6 DEF ComingInv
<1>2. CASE CloseStream
  BY <1>2 DEF CloseStream, IdsInv, ComingInv
<1>3. CASE LoadSchema
  <2>1. UNCHANGED <<socket, owed, wire, here, begun, synced, returned, gone>> /\ nextId' = nextId + 1
        /\ calling' \in {nextId, NoId} /\ asked \subseteq asked' /\ asked' \subseteq asked \cup {nextId}
    BY <1>3 DEF LoadSchema, SendFrame
  <2>2. IdsInv'
    BY <2>1 DEF IdsInv, NoId
  <2>3. ComingInv'
    BY <2>1 DEF ComingInv, OnTheWire
  <2>. QED  BY <2>1, <2>2, <2>3 DEF NoId
<1>4. CASE Call
  <2>1. UNCHANGED <<socket, owed, wire, here, begun, synced, returned, gone>> /\ nextId' = nextId + 1
        /\ calling' \in {nextId, NoId} /\ asked \subseteq asked' /\ asked' \subseteq asked \cup {nextId}
    BY <1>4 DEF Call, SendFrame
  <2>2. IdsInv'
    BY <2>1 DEF IdsInv, NoId
  <2>3. ComingInv'
    BY <2>1 DEF ComingInv, OnTheWire
  <2>. QED  BY <2>1, <2>2, <2>3 DEF NoId
<1>5. CASE Send
  <2>1. UNCHANGED <<socket, wire, here, begun, synced, calling, returned, gone>> /\ nextId' = nextId + 1
        /\ \/ owed' = owed \cup {nextId} /\ asked' = IF socket = "open" THEN asked \cup {nextId} ELSE asked
           \/ socket = "ended" /\ UNCHANGED <<owed, asked>>
    BY <1>5 DEF Send
  <2>5. owed' \subseteq owed \cup {nextId} /\ asked' \subseteq asked \cup {nextId}
    BY <2>1
  <2>2. ProtoTypes'
    <3>1. owed' \subseteq Nat \ {0} /\ asked' \subseteq Nat
      BY <2>5
    <3>. QED  BY <2>1, <3>1
  <2>3. IdsInv'
    BY <2>1, <2>5 DEF IdsInv
  <2>4. ComingInv'
    BY <2>1 DEF ComingInv, OnTheWire
  <2>. QED  BY <2>2, <2>3, <2>4
<1>6. CASE Receive
  BY <1>6 DEF Receive, IdsInv, ComingInv, OnTheWire
<1>. QED  BY <1>1, <1>2, <1>3, <1>4, <1>5, <1>6

\* Reading.
LEMMA ReaderStep ==
  ASSUME ProtoInv, ReadStep
  PROVE  ProtoInv'
<1>1. CASE SkipFrame
  <2>1. UNCHANGED <<socket, nextId, owed, asked, calling, returned>> /\ CanRead /\ Popped
        /\ gone' = gone \cup ({Next1.id} \cap owed)
    BY <1>1 DEF SkipFrame
  <2>2. ProtoTypes'
    BY <2>1, PoppedKeeps DEF ProtoInv, ProtoTypes
  <2>3. ComingInv'
    BY <2>1, PoppedKeeps DEF ProtoInv, ComingInv
  <2>. QED  BY <2>1, <2>2, <2>3 DEF ProtoInv, IdsInv
<1>2. CASE TakeAnswer
  <2>1. /\ UNCHANGED <<socket, owed, gone>> /\ CanRead /\ Popped
        /\ Next1.id = calling /\ returned' = returned \cup {<<calling, calling>>}
    BY <1>2 DEF TakeAnswer, IsMine
  <2>2. /\ nextId' \in {nextId, nextId + 1} /\ (calling' = NoId \/ (calling' = nextId /\ nextId' = nextId + 1))
        /\ asked \subseteq asked' /\ asked' \subseteq asked \cup {nextId}
    BY <1>2 DEF TakeAnswer, SendFrame
  <2>3. ProtoTypes'
    BY <2>1, <2>2, PoppedKeeps DEF ProtoInv, ProtoTypes, NoId
  <2>4. ComingInv'
    BY <2>1, <2>2, PoppedKeeps DEF ProtoInv, ComingInv, IdsInv
  <2>5. IdsInv'
    <3>1. \A pair \in returned' : pair \in returned \/ (pair[1] = calling /\ pair[2] = calling)
      BY <2>1
    <3>. QED  BY <2>1, <2>2, <3>1 DEF ProtoInv, ProtoTypes, IdsInv, NoId
  <2>. QED  BY <2>3, <2>4, <2>5 DEF ProtoInv
<1>3. CASE TakeOwed
  <2>1. /\ UNCHANGED <<socket, nextId, asked, calling, gone>> /\ CanRead /\ Popped /\ Next1.id \in owed
        /\ owed' = owed \ {Next1.id} /\ returned' = returned \cup {<<Next1.id, Next1.id>>}
    BY <1>3 DEF TakeOwed, IsOwed
  <2>2. ProtoTypes'
    <3>1. Next1.id \in Nat
      BY <2>1 DEF ProtoInv, ProtoTypes
    <3>2. returned' \subseteq Nat \X Nat
      BY <2>1, <3>1 DEF ProtoInv, ProtoTypes
    <3>. QED  BY <2>1, <3>2, PoppedKeeps DEF ProtoInv, ProtoTypes
  <2>3. ComingInv'
    BY <2>1, PoppedKeeps DEF ProtoInv, ComingInv
  <2>4. IdsInv'
    <3>1. \A pair \in returned' : pair \in returned \/ (pair[1] = Next1.id /\ pair[2] = Next1.id)
      BY <2>1
    <3>. QED  BY <2>1, <3>1 DEF ProtoInv, ProtoTypes, IdsInv
  <2>. QED  BY <2>2, <2>3, <2>4 DEF ProtoInv
<1>4. CASE ReadTimesOut
  BY <1>4 DEF ReadTimesOut, Stops, ProtoInv, ProtoTypes, IdsInv, ComingInv, OnTheWire, NoId
<1>5. CASE ReadFails
  BY <1>5 DEF ReadFails, Stops, ProtoInv, ProtoTypes, IdsInv, ComingInv, OnTheWire, NoId, wireVars
<1>. QED  BY <1>1, <1>2, <1>3, <1>4, <1>5 DEF ReadStep

\* Every step of the client, the simulator and the network.
LEMMA ProtoStep ==
  ASSUME ProtoInv, [ProtoNext]_protoVars
  PROVE  ProtoInv'
<1>1. ASSUME NEW r \in Ids, NEW ok \in BOOLEAN, Answer(r, ok) PROVE ProtoInv'
  <2>1. r \in Nat /\ [class |-> "RESP", id |-> r, ok |-> ok] \in Frames
    BY <1>1 DEF Frames, Answer, ProtoInv, ProtoTypes
  <2>2. /\ UNCHANGED <<socket, nextId, owed, here, begun, synced, calling, returned, gone>>
        /\ asked' = asked \ {r} /\ wire' = Append(wire, [class |-> "RESP", id |-> r, ok |-> ok])
    BY <1>1 DEF Answer
  <2>3. /\ wire' \in Seq(Frames) /\ here' \in 0..Len(wire')
        /\ OnTheWire(r)' /\ \A q : OnTheWire(q) => OnTheWire(q)'
    BY <2>1, <2>2, PushedKeeps DEF ProtoInv
  <2>. QED  BY <2>2, <2>3 DEF ProtoInv, ProtoTypes, IdsInv, ComingInv
<1>2. CASE Notify2
  <2>1. [class |-> "NOTI", id |-> NoId, ok |-> TRUE] \in Frames
    BY DEF Frames, NoId
  <2>2. /\ UNCHANGED <<socket, nextId, owed, asked, here, begun, synced, calling, returned, gone>>
        /\ wire' = Append(wire, [class |-> "NOTI", id |-> NoId, ok |-> TRUE])
    BY <1>2 DEF Notify2
  <2>3. /\ wire' \in Seq(Frames) /\ here' \in 0..Len(wire')
        /\ \A q : OnTheWire(q) => OnTheWire(q)'
    BY <2>1, <2>2, PushedKeeps DEF ProtoInv
  <2>. QED  BY <2>2, <2>3 DEF ProtoInv, ProtoTypes, IdsInv, ComingInv
<1>3. CASE ArriveSome
  BY <1>3 DEF ArriveSome, ProtoInv, ProtoTypes, IdsInv, ComingInv, OnTheWire
<1>4. CASE PeerEnds
  <2>1. wire' \in Seq(Frames) /\ here' \in 0..Len(wire')
    BY <1>4 DEF PeerEnds, ProtoInv, ProtoTypes
  <2>. QED  BY <1>4, <2>1 DEF PeerEnds, ProtoInv, ProtoTypes, IdsInv, ComingInv
<1>5. CASE UNCHANGED protoVars
  BY <1>5 DEF protoVars, wireVars, ProtoInv, ProtoTypes, IdsInv, ComingInv, OnTheWire
<1>. QED  BY <1>1, <1>2, <1>3, <1>4, <1>5, CallerStep, ReaderStep DEF ProtoNext

\* Each answer is returned once, to the request it answers, and what is owed is
\* with the simulator or on its way, unless a call has skipped it.
THEOREM AnswersAreKept == ProtoSpec => []AnswersKept
<1>1. ProtoInit => ProtoInv
  <2>1. <<>> \in Seq(Frames) /\ Len(<<>>) = 0
    OBVIOUS
  <2> SUFFICES ASSUME ProtoInit PROVE ProtoInv
    OBVIOUS
  <2>2. ProtoTypes
    <3>1. wire \in Seq(Frames) /\ Len(wire) = 0
      BY <2>1 DEF ProtoInit
    <3>2. here \in 0..Len(wire) /\ begun \in BOOLEAN /\ synced \in BOOLEAN
      <4>1. here = 0
        BY DEF ProtoInit
      <4>2. begun \in BOOLEAN /\ synced \in BOOLEAN
        BY Zenon DEF ProtoInit
      <4>. QED  BY <3>1, <4>1, <4>2
    <3>. QED  BY <3>1, <3>2 DEF ProtoInit, ProtoTypes, NoId
  <2>3. IdsInv /\ ComingInv
    BY DEF ProtoInit, IdsInv, ComingInv, NoId
  <2>. QED  BY <2>2, <2>3 DEF ProtoInv
<1>2. ProtoInv /\ [ProtoNext]_protoVars => ProtoInv'
  BY ProtoStep
<1>3. ProtoInv => AnswersKept
  <2>1. ProtoInv => AnswersMatch /\ owed \cap {pair[1] : pair \in returned} = {}
    BY DEF ProtoInv, IdsInv, AnswersMatch
  <2>2. ProtoInv => DOMAIN wire = 1..Len(wire)
    BY DEF ProtoInv, ProtoTypes
  <2>. QED  BY <2>1, <2>2 DEF ProtoInv, ComingInv, OnTheWire, AnswersKept, OwedIsComing
<1>. QED  BY <1>1, <1>2, <1>3, PTL DEF ProtoSpec

-----------------------------------------------------------------------------
(* SimGui.                                                                 *)

Words == {"close", "Connecting", "connect", "Connected", "ask", "Status", "end", "Disconnected", "unload",
          "mayLoad", "loaded", "Complete", "Querying", "Shutdown"}
ItemKinds == Texts \cup {"Error", "Blocked", "Buttons"}
UiItems == [kind : ItemKinds, state : States]
GuiTypes ==
  /\ cb \in [at : {"idle", "start", "apply", "configure", "launch"}, task : Tasks,
             busy : BOOLEAN, link : BOOLEAN]
  /\ drawn \in [at : {"idle", "configure"}, busy : BOOLEAN, link : BOOLEAN]
  /\ buttons \in [task : BOOLEAN, link : BOOLEAN]
  /\ worker \in [todo : Seq(Words), told : States]
  /\ uiQueue \in Seq(UiItems)
  /\ shown \in [connection : {"Disconnected", "Connecting", "Connected"},
                suite : {"-", "Loading", "Blocked", "Complete", "Failed"},
                simulator : States \cup {"-", "Querying", "Failed"}]
  /\ leaving \in Nat /\ taskRunning \in BOOLEAN /\ link \in BOOLEAN
  /\ refusedLoad \in BOOLEAN /\ lateLoss \in BOOLEAN /\ clicked \in Seq(Tasks)

\* What a worker has still to do is the rest of a task: the end is the last of it,
\* a load is given up after its status, a query is followed by a status, and a
\* connection is closed, opened and reported in turn.
InTodo(todo, word) == \E i \in 1..Len(todo) : todo[i] = word
Unlinked == {"Connecting", "Disconnected", "Shutdown"}
Ordered(todo) ==
  /\ \A i, j \in 1..Len(todo) : i < j => todo[i] # "end" /\ (todo[i] = "mayLoad" => todo[j] # "Status")
  /\ \A i \in 1..Len(todo) :
       /\ todo[i] = "Querying" => \E j \in (i + 1)..Len(todo) : todo[j] = "Status"
       /\ todo[i] = "connect" => i < Len(todo) /\ todo[i + 1] = "Connected"
       /\ i > 1 /\ todo[i] \in Unlinked => todo[i - 1] = "close"
       /\ i > 1 /\ todo[i] = "connect" => todo[i - 1] = "Connecting"
HeadInv == worker.todo # <<>> /\ worker.todo[1] \in Unlinked \cup {"connect"} => ~link
OneTask ==
  /\ cb.at \in {"apply", "configure", "launch"} => taskRunning /\ worker.todo = <<>>
  /\ worker.todo # <<>> => taskRunning

\* Somebody has still to set the buttons by what is the case now, or they are.
ButtonsInv ==
  \/ taskRunning \/ leaving > 0 \/ Has(uiQueue, {"Buttons"})
  \/ drawn.at = "configure" /\ ~drawn.busy /\ (link => drawn.link)
  \/ drawn.at = "idle" /\ buttons.task /\ (link => buttons.link)
\* A text that stands for something under way has its end before it, and so has
\* each that is still to be shown.
LoadEnds == {"Error", "Blocked", "Complete"}
LoadingInv ==
  \/ refusedLoad \/ shown.suite # "Loading" \/ InTodo(worker.todo, "Complete")
  \/ cb.at # "idle" /\ cb.task = "load"
  \/ Has(uiQueue, LoadEnds)
QueryEnds == {"Status", "Error"}
QueryInv ==
  \/ InTodo(worker.todo, "Status")
  \/ /\ Followed(uiQueue, {"Querying"}, QueryEnds)
     /\ shown.simulator = "Querying" => Has(uiQueue, QueryEnds)
LinkInv ==
  link /\ ~lateLoss =>
    \/ worker.todo # <<>> /\ worker.todo[1] = "Connected"
    \/ /\ Followed(uiQueue, Unlinked, {"Connected"})
       /\ shown.connection = "Connected" \/ Has(uiQueue, {"Connected"})
GuiInv ==
  GuiTypes /\ Ordered(worker.todo) /\ HeadInv /\ OneTask /\ ButtonsInv /\ LoadingInv /\ QueryInv /\ LinkInv

\* What is left when a worker has done one thing more.
LEMMA OneDone ==
  ASSUME NEW todo \in Seq(Words), todo # <<>>, Ordered(todo)
  PROVE  /\ Tail(todo) \in Seq(Words) /\ Ordered(Tail(todo)) /\ Head(todo) = todo[1]
         /\ \A w : InTodo(todo, w) => w = todo[1] \/ InTodo(Tail(todo), w)
         /\ todo[1] = "Querying" => InTodo(Tail(todo), "Status")
         /\ todo[1] = "connect" => Tail(todo) # <<>> /\ Tail(todo)[1] = "Connected"
         /\ Tail(todo) # <<>> /\ Tail(todo)[1] \in Unlinked => todo[1] = "close"
         /\ Tail(todo) # <<>> /\ Tail(todo)[1] = "connect" => todo[1] = "Connecting"
         /\ todo[1] = "end" => \A w : InTodo(todo, w) => w = "end"
         /\ todo[1] = "mayLoad" => ~InTodo(todo, "Status")
<1> DEFINE rest == Tail(todo)
<1>1. /\ rest \in Seq(Words) /\ Len(todo) \in Nat \ {0} /\ Len(rest) = Len(todo) - 1 /\ Head(todo) = todo[1]
      /\ \A i \in 1..(Len(todo) - 1) : rest[i] = todo[i + 1]
  BY PopFacts
<1> HIDE DEF rest
<1>2. \A i \in 1..Len(rest) : i \in 1..Len(todo) /\ i + 1 \in 1..Len(todo) /\ rest[i] = todo[i + 1]
  BY <1>1
<1>3. ASSUME NEW w, InTodo(todo, w), w # todo[1] PROVE InTodo(rest, w)
  <2>1. PICK i \in 1..Len(todo) : todo[i] = w
    BY <1>3 DEF InTodo
  <2>2. i - 1 \in 1..Len(rest) /\ rest[i - 1] = w
    BY <1>1, <1>3, <2>1
  <2>. QED  BY <2>2 DEF InTodo
<1>4. Ordered(rest)
  <2>1. ASSUME NEW i \in 1..Len(rest), NEW j \in 1..Len(rest), i < j
        PROVE  rest[i] # "end" /\ (rest[i] = "mayLoad" => rest[j] # "Status")
    <3>1. i + 1 \in 1..Len(todo) /\ j + 1 \in 1..Len(todo) /\ i + 1 < j + 1
      BY <1>2, <2>1
    <3>2. todo[i + 1] # "end" /\ (todo[i + 1] = "mayLoad" => todo[j + 1] # "Status")
      BY <3>1 DEF Ordered
    <3>. QED  BY <1>2, <3>2
  <2>2. ASSUME NEW i \in 1..Len(rest), rest[i] = "Querying" PROVE \E j \in (i + 1)..Len(rest) : rest[j] = "Status"
    <3>1. PICK j \in (i + 2)..Len(todo) : todo[j] = "Status"
      BY <1>2, <2>2 DEF Ordered
    <3>2. j - 1 \in (i + 1)..Len(rest) /\ rest[j - 1] = todo[j]
      BY <1>1, <3>1
    <3>. QED  BY <3>1, <3>2
  <2>3. ASSUME NEW i \in 1..Len(rest)
        PROVE  /\ rest[i] = "connect" => i < Len(rest) /\ rest[i + 1] = "Connected"
               /\ i > 1 /\ rest[i] \in Unlinked => rest[i - 1] = "close"
               /\ i > 1 /\ rest[i] = "connect" => rest[i - 1] = "Connecting"
    <3>1. i + 1 \in 1..Len(todo) /\ rest[i] = todo[i + 1] /\ Len(rest) = Len(todo) - 1
      BY <1>1, <1>2
    <3>2. /\ todo[i + 1] = "connect" => i + 1 < Len(todo) /\ todo[i + 2] = "Connected"
          /\ todo[i + 1] \in Unlinked => todo[i] = "close"
          /\ todo[i + 1] = "connect" => todo[i] = "Connecting"
      BY <3>1 DEF Ordered
    <3>3. i + 1 < Len(todo) => i + 1 \in 1..Len(rest) /\ rest[i + 1] = todo[i + 2]
      BY <1>1, <3>1
    <3>4. i > 1 => rest[i - 1] = todo[i]
      BY <1>1, <3>1
    <3>. QED  BY <1>1, <3>1, <3>2, <3>3, <3>4
  <2>. QED  BY <2>1, <2>2, <2>3 DEF Ordered
<1>5. todo[1] = "Querying" => InTodo(rest, "Status")
  <2>1. 1 \in 1..Len(todo)
    BY <1>1
  <2>2. todo[1] = "Querying" => \E j \in 2..Len(todo) : todo[j] = "Status"
    BY <2>1 DEF Ordered
  <2>. QED  BY <1>3, <2>2 DEF InTodo
<1>6. /\ todo[1] = "connect" => rest # <<>> /\ rest[1] = "Connected"
      /\ rest # <<>> /\ rest[1] \in Unlinked => todo[1] = "close"
      /\ rest # <<>> /\ rest[1] = "connect" => todo[1] = "Connecting"
  <2>1. rest # <<>> => 1 \in 1..Len(rest)
    BY <1>1
  <2>2. todo[1] = "connect" => Len(todo) > 1 /\ todo[2] = "Connected"
    BY <1>1 DEF Ordered
  <2>. QED  BY <1>1, <1>2, <2>1, <2>2 DEF Ordered
<1>7. ASSUME todo[1] = "end", NEW w, InTodo(todo, w) PROVE w = "end"
  <2>1. Len(todo) = 1
    BY <1>1, <1>7 DEF Ordered
  <2>. QED  BY <1>7, <2>1 DEF InTodo
<1>8. todo[1] = "mayLoad" => ~InTodo(todo, "Status")
  BY <1>1 DEF Ordered, InTodo
<1>. QED  BY <1>1, <1>3, <1>4, <1>5, <1>6, <1>7, <1>8 DEF rest

\* A worker that has only its end left.
LEMMA OnlyEnd ==
  /\ <<"end">> \in Seq(Words) /\ Ordered(<<"end">>) /\ <<"end">> # <<>> /\ <<"end">>[1] = "end"
  /\ \A w : InTodo(<<"end">>, w) => w = "end"
<1>1. <<"end">> \in Seq(Words) /\ Len(<<"end">>) = 1 /\ <<"end">> # <<>> /\ <<"end">>[1] = "end"
  BY DEF Words
<1>2. \A i \in 1..Len(<<"end">>) : i = 1
  BY <1>1
<1>. QED  BY <1>1, <1>2 DEF Ordered, InTodo, Unlinked

\* Each task is in order, and begins with none of what needs a closed connection.
LEMMA TaskOrdered ==
  ASSUME NEW task \in Tasks
  PROVE  LET todo == WorkOf(task) IN
         /\ todo \in Seq(Words) /\ Ordered(todo) /\ todo # <<>>
         /\ todo[1] \notin Unlinked \cup {"connect", "Connected"}
         /\ task = "load" => InTodo(todo, "Complete")
<1>1. ASSUME NEW todo \in {ConnectTask, DisconnectTask, LoadTask, QueryTask, ShutdownTask, OtherTask}
      PROVE  /\ todo \in Seq(Words) /\ Ordered(todo) /\ todo # <<>>
             /\ todo[1] \notin Unlinked \cup {"connect", "Connected"}
  <2>1. CASE todo = ConnectTask
    <3>1. /\ todo \in Seq(Words) /\ Len(todo) = 7 /\ todo # <<>>
          /\ todo[1] = "close" /\ todo[2] = "Connecting" /\ todo[3] = "connect" /\ todo[4] = "Connected"
          /\ todo[5] = "ask" /\ todo[6] = "Status" /\ todo[7] = "end"
      BY <2>1 DEF ConnectTask, Words
    <3>2. \A i \in 1..Len(todo) : i \in {1, 2, 3, 4, 5, 6, 7}
      BY <3>1
    <3>. QED  BY <3>1, <3>2 DEF Ordered, Unlinked
  <2>2. CASE todo = DisconnectTask
    <3>1. /\ todo \in Seq(Words) /\ Len(todo) = 3 /\ todo # <<>>
          /\ todo[1] = "close" /\ todo[2] = "Disconnected" /\ todo[3] = "end"
      BY <2>2 DEF DisconnectTask, Words
    <3>2. \A i \in 1..Len(todo) : i \in {1, 2, 3}
      BY <3>1
    <3>. QED  BY <3>1, <3>2 DEF Ordered, Unlinked
  <2>3. CASE todo = LoadTask
    <3>1. /\ todo \in Seq(Words) /\ Len(todo) = 8 /\ todo # <<>>
          /\ todo[1] = "unload" /\ todo[2] = "ask" /\ todo[3] = "Status" /\ todo[4] = "mayLoad"
          /\ todo[5] = "ask" /\ todo[6] = "loaded" /\ todo[7] = "Complete" /\ todo[8] = "end"
      BY <2>3 DEF LoadTask, Words
    <3>2. \A i \in 1..Len(todo) : i \in {1, 2, 3, 4, 5, 6, 7, 8}
      BY <3>1
    <3>. QED  BY <3>1, <3>2 DEF Ordered, Unlinked
  <2>4. CASE todo = QueryTask
    <3>1. /\ todo \in Seq(Words) /\ Len(todo) = 4 /\ todo # <<>>
          /\ todo[1] = "Querying" /\ todo[2] = "ask" /\ todo[3] = "Status" /\ todo[4] = "end"
      BY <2>4 DEF QueryTask, Words
    <3>2. \A i \in 1..Len(todo) : i \in {1, 2, 3, 4}
      BY <3>1
    <3>. QED  BY <3>1, <3>2 DEF Ordered, Unlinked
  <2>5. CASE todo = ShutdownTask
    <3>1. /\ todo \in Seq(Words) /\ Len(todo) = 4 /\ todo # <<>>
          /\ todo[1] = "ask" /\ todo[2] = "close" /\ todo[3] = "Shutdown" /\ todo[4] = "end"
      BY <2>5 DEF ShutdownTask, Words
    <3>2. \A i \in 1..Len(todo) : i \in {1, 2, 3, 4}
      BY <3>1
    <3>. QED  BY <3>1, <3>2 DEF Ordered, Unlinked
  <2>6. CASE todo = OtherTask
    <3>1. /\ todo \in Seq(Words) /\ Len(todo) = 2 /\ todo # <<>>
          /\ todo[1] = "ask" /\ todo[2] = "end"
      BY <2>6 DEF OtherTask, Words
    <3>2. \A i \in 1..Len(todo) : i \in {1, 2}
      BY <3>1
    <3>. QED  BY <3>1, <3>2 DEF Ordered, Unlinked
  <2>. QED  BY <1>1, <2>1, <2>2, <2>3, <2>4, <2>5, <2>6
<1>2. WorkOf(task) \in {ConnectTask, DisconnectTask, LoadTask, QueryTask, ShutdownTask, OtherTask}
  BY DEF WorkOf, Tasks
<1>3. InTodo(LoadTask, "Complete")
  BY DEF LoadTask, InTodo
<1>4. task = "load" => WorkOf(task) = LoadTask
  BY DEF WorkOf
<1>. QED  BY <1>1, <1>2, <1>3, <1>4

\* The clicks, the callback thread until it launches a worker, the poll of the time
\* and the loss of the connection leave the worker and the queue alone.
LEMMA QuietStep ==
  ASSUME GuiInv,
         \/ HandleClick \/ StartTask \/ ApplyOnStart \/ ConfigureOnStart \/ Configure \/ PollTime \/ PollFailed
         \/ LoseLink \/ UNCHANGED guiVars
         \/ \E task \in Tasks : Click(task)
         \/ \E ok \in BOOLEAN : PollAnswered(ok)
  PROVE  GuiInv'
<1>1. CASE HandleClick
  <2>1. GuiTypes'
    <3>1. clicked' \in Seq(Tasks) /\ Head(clicked) \in Tasks
      BY <1>1, PopFacts DEF HandleClick, GuiInv, GuiTypes
    <3>2. cb' \in [at : {"idle", "start", "apply", "configure", "launch"}, task : Tasks, busy : BOOLEAN, link : BOOLEAN]
      BY <1>1, <3>1 DEF HandleClick, GuiInv, GuiTypes
    <3>3. shown' \in [connection : {"Disconnected", "Connecting", "Connected"},
                    suite : {"-", "Loading", "Blocked", "Complete", "Failed"},
                    simulator : States \cup {"-", "Querying", "Failed"}]
      BY <1>1 DEF HandleClick, GuiInv, GuiTypes
    <3>4. UNCHANGED <<taskRunning, worker, leaving, uiQueue, drawn, buttons, link, guiHistory>>
      BY <1>1 DEF HandleClick
    <3>. QED  BY <3>1, <3>2, <3>3, <3>4 DEF GuiInv, GuiTypes, guiHistory
  <2>2. Ordered(worker.todo)'
    BY <1>1 DEF HandleClick, GuiInv, guiHistory
  <2>3. HeadInv'
    BY <1>1 DEF HandleClick, GuiInv, HeadInv, guiHistory
  <2>4. OneTask'
    BY <1>1 DEF HandleClick, GuiInv, OneTask, guiHistory
  <2>5. ButtonsInv'
    BY <1>1 DEF HandleClick, GuiInv, ButtonsInv, guiHistory
  <2>6. LoadingInv'
    BY <1>1 DEF HandleClick, GuiInv, LoadingInv, guiHistory
  <2>7. QueryInv'
    BY <1>1 DEF HandleClick, GuiInv, QueryInv, guiHistory
  <2>8. LinkInv'
    BY <1>1 DEF HandleClick, GuiInv, LinkInv, guiHistory
  <2>. QED  BY <2>1, <2>2, <2>3, <2>4, <2>5, <2>6, <2>7, <2>8 DEF GuiInv
<1>2. CASE StartTask
  <2>1. GuiTypes'
    <3>1. cb' \in [at : {"idle", "start", "apply", "configure", "launch"}, task : Tasks, busy : BOOLEAN, link : BOOLEAN]
      <4>1. NoCall \in [at : {"idle", "start", "apply", "configure", "launch"}, task : Tasks, busy : BOOLEAN, link : BOOLEAN]
        BY DEF NoCall, Tasks
      <4>. QED  BY <1>2, <4>1 DEF StartTask, GuiInv, GuiTypes
    <3>2. taskRunning' \in BOOLEAN /\ refusedLoad' \in BOOLEAN
      BY <1>2, Zenon DEF StartTask
    <3>3. UNCHANGED <<clicked, worker, leaving, uiQueue, drawn, buttons, link, shown, lateLoss>>
      BY <1>2 DEF StartTask
    <3>. QED  BY <3>1, <3>2, <3>3 DEF GuiInv, GuiTypes
  <2>2. Ordered(worker.todo)'
    BY <1>2 DEF StartTask, NoCall, GuiInv, guiHistory
  <2>3. HeadInv'
    BY <1>2 DEF StartTask, NoCall, GuiInv, HeadInv, guiHistory
  <2>4. OneTask'
    BY <1>2 DEF StartTask, NoCall, GuiInv, OneTask, guiHistory
  <2>5. ButtonsInv'
    BY <1>2 DEF StartTask, NoCall, GuiInv, ButtonsInv, guiHistory
  <2>6. LoadingInv'
    <3>1. CASE taskRunning
      BY <1>2, <3>1 DEF StartTask, GuiInv, LoadingInv
    <3>2. CASE ~taskRunning
      <4>1. cb'.at = "apply" /\ cb'.task = cb.task
        BY <1>2, <3>2 DEF StartTask, GuiInv, GuiTypes
      <4>. QED  BY <1>2, <4>1 DEF StartTask, GuiInv, LoadingInv
    <3>. QED  BY <3>1, <3>2
  <2>7. QueryInv'
    BY <1>2 DEF StartTask, NoCall, GuiInv, QueryInv, guiHistory
  <2>8. LinkInv'
    BY <1>2 DEF StartTask, NoCall, GuiInv, LinkInv, guiHistory
  <2>. QED  BY <2>1, <2>2, <2>3, <2>4, <2>5, <2>6, <2>7, <2>8 DEF GuiInv
<1>3. CASE ApplyOnStart
  <2>1. GuiTypes'
    <3>1. cb' \in [at : {"idle", "start", "apply", "configure", "launch"}, task : Tasks, busy : BOOLEAN, link : BOOLEAN]
      <4>1. taskRunning \in BOOLEAN /\ link \in BOOLEAN
        BY DEF GuiInv, GuiTypes
      <4>2. cb' = [at |-> "configure", task |-> cb.task, busy |-> taskRunning, link |-> link]
        BY <1>3 DEF ApplyOnStart, GuiInv, GuiTypes
      <4>. QED  BY <4>1, <4>2 DEF GuiInv, GuiTypes
    <3>2. UNCHANGED <<clicked, taskRunning, worker, leaving, uiQueue, drawn, buttons, link, shown, guiHistory>>
      BY <1>3 DEF ApplyOnStart
    <3>. QED  BY <3>1, <3>2 DEF GuiInv, GuiTypes, guiHistory
  <2>2. Ordered(worker.todo)'
    BY <1>3 DEF ApplyOnStart, GuiInv, guiHistory
  <2>3. HeadInv'
    BY <1>3 DEF ApplyOnStart, GuiInv, HeadInv, guiHistory
  <2>4. OneTask'
    BY <1>3 DEF ApplyOnStart, GuiInv, OneTask, guiHistory
  <2>5. ButtonsInv'
    BY <1>3 DEF ApplyOnStart, GuiInv, ButtonsInv, guiHistory
  <2>6. LoadingInv'
    BY <1>3 DEF ApplyOnStart, GuiInv, LoadingInv, guiHistory
  <2>7. QueryInv'
    BY <1>3 DEF ApplyOnStart, GuiInv, QueryInv, guiHistory
  <2>8. LinkInv'
    BY <1>3 DEF ApplyOnStart, GuiInv, LinkInv, guiHistory
  <2>. QED  BY <2>1, <2>2, <2>3, <2>4, <2>5, <2>6, <2>7, <2>8 DEF GuiInv
<1>4. CASE ConfigureOnStart
  <2>1. GuiTypes'
    BY <1>4 DEF ConfigureOnStart, Enabled, GuiInv, GuiTypes, guiHistory
  <2>2. Ordered(worker.todo)'
    BY <1>4 DEF ConfigureOnStart, Enabled, GuiInv, guiHistory
  <2>3. HeadInv'
    BY <1>4 DEF ConfigureOnStart, Enabled, GuiInv, HeadInv, guiHistory
  <2>4. OneTask'
    BY <1>4 DEF ConfigureOnStart, Enabled, GuiInv, OneTask, guiHistory
  <2>5. ButtonsInv'
    BY <1>4 DEF ConfigureOnStart, GuiInv, OneTask, ButtonsInv
  <2>6. LoadingInv'
    BY <1>4 DEF ConfigureOnStart, Enabled, GuiInv, LoadingInv, guiHistory
  <2>7. QueryInv'
    BY <1>4 DEF ConfigureOnStart, Enabled, GuiInv, QueryInv, guiHistory
  <2>8. LinkInv'
    BY <1>4 DEF ConfigureOnStart, Enabled, GuiInv, LinkInv, guiHistory
  <2>. QED  BY <2>1, <2>2, <2>3, <2>4, <2>5, <2>6, <2>7, <2>8 DEF GuiInv
<1>5. CASE Configure
  <2>1. GuiTypes'
    BY <1>5 DEF Configure, Enabled, NoDraw, GuiInv, GuiTypes, guiHistory
  <2>2. Ordered(worker.todo)'
    BY <1>5 DEF Configure, Enabled, NoDraw, GuiInv, guiHistory
  <2>3. HeadInv'
    BY <1>5 DEF Configure, Enabled, NoDraw, GuiInv, HeadInv, guiHistory
  <2>4. OneTask'
    BY <1>5 DEF Configure, Enabled, NoDraw, GuiInv, OneTask, guiHistory
  <2>5. ButtonsInv'
    BY <1>5 DEF Configure, Enabled, NoDraw, GuiInv, ButtonsInv, guiHistory
  <2>6. LoadingInv'
    BY <1>5 DEF Configure, Enabled, NoDraw, GuiInv, LoadingInv, guiHistory
  <2>7. QueryInv'
    BY <1>5 DEF Configure, Enabled, NoDraw, GuiInv, QueryInv, guiHistory
  <2>8. LinkInv'
    BY <1>5 DEF Configure, Enabled, NoDraw, GuiInv, LinkInv, guiHistory
  <2>. QED  BY <2>1, <2>2, <2>3, <2>4, <2>5, <2>6, <2>7, <2>8 DEF GuiInv
<1>6. CASE PollTime
  <2>1. GuiTypes'
    BY <1>6 DEF PollTime, GuiInv, GuiTypes, guiHistory
  <2>2. Ordered(worker.todo)'
    BY <1>6 DEF PollTime, GuiInv, guiHistory
  <2>3. HeadInv'
    BY <1>6 DEF PollTime, GuiInv, HeadInv, guiHistory
  <2>4. OneTask'
    BY <1>6 DEF PollTime, GuiInv, OneTask, guiHistory
  <2>5. ButtonsInv'
    BY <1>6 DEF PollTime, GuiInv, ButtonsInv, guiHistory
  <2>6. LoadingInv'
    BY <1>6 DEF PollTime, GuiInv, LoadingInv, guiHistory
  <2>7. QueryInv'
    BY <1>6 DEF PollTime, GuiInv, QueryInv, guiHistory
  <2>8. LinkInv'
    BY <1>6 DEF PollTime, GuiInv, LinkInv, guiHistory
  <2>. QED  BY <2>1, <2>2, <2>3, <2>4, <2>5, <2>6, <2>7, <2>8 DEF GuiInv
<1>7. CASE PollFailed
  <2>1. GuiTypes'
    BY <1>7 DEF PollFailed, GuiInv, GuiTypes, guiHistory
  <2>2. Ordered(worker.todo)'
    BY <1>7 DEF PollFailed, GuiInv, guiHistory
  <2>3. HeadInv'
    BY <1>7 DEF PollFailed, GuiInv, HeadInv, guiHistory
  <2>4. OneTask'
    BY <1>7 DEF PollFailed, GuiInv, OneTask, guiHistory
  <2>5. ButtonsInv'
    BY <1>7 DEF PollFailed, GuiInv, ButtonsInv, guiHistory
  <2>6. LoadingInv'
    BY <1>7 DEF PollFailed, GuiInv, LoadingInv, guiHistory
  <2>7. QueryInv'
    BY <1>7 DEF PollFailed, GuiInv, QueryInv, guiHistory
  <2>8. LinkInv'
    BY <1>7 DEF PollFailed, GuiInv, LinkInv, guiHistory
  <2>. QED  BY <2>1, <2>2, <2>3, <2>4, <2>5, <2>6, <2>7, <2>8 DEF GuiInv
<1>8. CASE LoseLink
  <2>1. GuiTypes'
    <3>1. link' \in BOOLEAN
      BY <1>8, Zenon DEF LoseLink
    <3>2. UNCHANGED <<clicked, cb, taskRunning, worker, leaving, uiQueue, drawn, buttons, shown, guiHistory>>
      BY <1>8 DEF LoseLink
    <3>. QED  BY <3>1, <3>2 DEF GuiInv, GuiTypes, guiHistory
  <2>2. Ordered(worker.todo)'
    BY <1>8 DEF LoseLink, GuiInv, guiHistory
  <2>3. HeadInv'
    BY <1>8 DEF LoseLink, GuiInv, HeadInv, guiHistory
  <2>4. OneTask'
    BY <1>8 DEF LoseLink, GuiInv, OneTask, guiHistory
  <2>5. ButtonsInv'
    BY <1>8 DEF LoseLink, GuiInv, ButtonsInv, guiHistory
  <2>6. LoadingInv'
    BY <1>8 DEF LoseLink, GuiInv, LoadingInv, guiHistory
  <2>7. QueryInv'
    BY <1>8 DEF LoseLink, GuiInv, QueryInv, guiHistory
  <2>8. LinkInv'
    BY <1>8 DEF LoseLink, GuiInv, LinkInv, guiHistory
  <2>. QED  BY <2>1, <2>2, <2>3, <2>4, <2>5, <2>6, <2>7, <2>8 DEF GuiInv
<1>9. CASE UNCHANGED guiVars
  <2>1. GuiTypes'
    BY <1>9 DEF guiVars, GuiInv, GuiTypes, guiHistory
  <2>2. Ordered(worker.todo)'
    BY <1>9 DEF guiVars, GuiInv, guiHistory
  <2>3. HeadInv'
    BY <1>9 DEF guiVars, GuiInv, HeadInv, guiHistory
  <2>4. OneTask'
    BY <1>9 DEF guiVars, GuiInv, OneTask, guiHistory
  <2>5. ButtonsInv'
    BY <1>9 DEF guiVars, GuiInv, ButtonsInv, guiHistory
  <2>6. LoadingInv'
    BY <1>9 DEF guiVars, GuiInv, LoadingInv, guiHistory
  <2>7. QueryInv'
    BY <1>9 DEF guiVars, GuiInv, QueryInv, guiHistory
  <2>8. LinkInv'
    BY <1>9 DEF guiVars, GuiInv, LinkInv, guiHistory
  <2>. QED  BY <2>1, <2>2, <2>3, <2>4, <2>5, <2>6, <2>7, <2>8 DEF GuiInv
<1>10. ASSUME NEW task \in Tasks, Click(task) PROVE GuiInv'
  <2>1. GuiTypes'
    BY <1>10 DEF Click, GuiInv, GuiTypes, guiHistory
  <2>2. Ordered(worker.todo)'
    BY <1>10 DEF Click, GuiInv, guiHistory
  <2>3. HeadInv'
    BY <1>10 DEF Click, GuiInv, HeadInv, guiHistory
  <2>4. OneTask'
    BY <1>10 DEF Click, GuiInv, OneTask, guiHistory
  <2>5. ButtonsInv'
    BY <1>10 DEF Click, GuiInv, ButtonsInv, guiHistory
  <2>6. LoadingInv'
    BY <1>10 DEF Click, GuiInv, LoadingInv, guiHistory
  <2>7. QueryInv'
    BY <1>10 DEF Click, GuiInv, QueryInv, guiHistory
  <2>8. LinkInv'
    BY <1>10 DEF Click, GuiInv, LinkInv, guiHistory
  <2>. QED  BY <2>1, <2>2, <2>3, <2>4, <2>5, <2>6, <2>7, <2>8 DEF GuiInv
<1>11. ASSUME NEW ok \in BOOLEAN, PollAnswered(ok) PROVE GuiInv'
  <2>1. GuiTypes'
    BY <1>11 DEF PollAnswered, GuiInv, GuiTypes, guiHistory
  <2>2. Ordered(worker.todo)'
    BY <1>11 DEF PollAnswered, GuiInv, guiHistory
  <2>3. HeadInv'
    BY <1>11 DEF PollAnswered, GuiInv, HeadInv, guiHistory
  <2>4. OneTask'
    BY <1>11 DEF PollAnswered, GuiInv, OneTask, guiHistory
  <2>5. ButtonsInv'
    BY <1>11 DEF PollAnswered, GuiInv, ButtonsInv, guiHistory
  <2>6. LoadingInv'
    BY <1>11 DEF PollAnswered, GuiInv, LoadingInv, guiHistory
  <2>7. QueryInv'
    BY <1>11 DEF PollAnswered, GuiInv, QueryInv, guiHistory
  <2>8. LinkInv'
    BY <1>11 DEF PollAnswered, GuiInv, LinkInv, guiHistory
  <2>. QED  BY <2>1, <2>2, <2>3, <2>4, <2>5, <2>6, <2>7, <2>8 DEF GuiInv
<1>. QED  BY <1>1, <1>2, <1>3, <1>4, <1>5, <1>6, <1>7, <1>8, <1>9, <1>10, <1>11

\* What a worker that has something to do is known to have to do.
LEMMA WorkerFacts ==
  ASSUME GuiInv, worker.todo # <<>>
  PROVE  /\ Tail(worker.todo) \in Seq(Words) /\ Ordered(Tail(worker.todo)) /\ Head(worker.todo) = worker.todo[1]
         /\ \A w : InTodo(worker.todo, w) => w = worker.todo[1] \/ InTodo(Tail(worker.todo), w)
         /\ worker.todo[1] = "Querying" => InTodo(Tail(worker.todo), "Status")
         /\ worker.todo[1] = "connect" => Tail(worker.todo) # <<>> /\ Tail(worker.todo)[1] = "Connected"
         /\ Tail(worker.todo) # <<>> /\ Tail(worker.todo)[1] \in Unlinked => worker.todo[1] = "close"
         /\ Tail(worker.todo) # <<>> /\ Tail(worker.todo)[1] = "connect" => worker.todo[1] = "Connecting"
         /\ worker.todo[1] = "end" => \A w : InTodo(worker.todo, w) => w = "end"
         /\ worker.todo[1] = "mayLoad" => ~InTodo(worker.todo, "Status")
         /\ taskRunning /\ cb.at \notin {"apply", "configure", "launch"}
<1>1. worker.todo \in Seq(Words) /\ Ordered(worker.todo)
  BY DEF GuiInv, GuiTypes
<1>2. taskRunning /\ cb.at \notin {"apply", "configure", "launch"}
  BY DEF GuiInv, OneTask
<1>. QED  BY <1>1, <1>2, OneDone

\* A request, a change of the connection or of the suite, and a load that may go on.
LEMMA WorkerGoesOn ==
  ASSUME GuiInv,
         \/ SetLink \/ SetLoaded \/ (MayLoad /\ worker' = Done /\ UNCHANGED uiQueue)
         \/ \E told \in States : Ask(told)
  PROVE  GuiInv'
<1>1. /\ worker.todo # <<>> /\ Head(worker.todo) \in {"ask", "close", "connect", "unload", "loaded", "mayLoad"}
      /\ UNCHANGED <<clicked, cb, taskRunning, leaving, uiQueue, drawn, buttons, shown, guiHistory>>
  BY DEF Ask, SetLink, SetLoaded, MayLoad, NextIs
<1>2. worker' \in [todo : Seq(Words), told : States] /\ worker'.todo = Tail(worker.todo)
  <2>1. CASE worker' = Done
    BY <1>1, <2>1, WorkerFacts DEF Done, GuiInv, GuiTypes
  <2>2. ASSUME NEW told \in States, worker' = [Done EXCEPT !.told = told]
        PROVE  worker' \in [todo : Seq(Words), told : States] /\ worker'.todo = Tail(worker.todo)
    BY <1>1, <2>2, WorkerFacts DEF Done, GuiInv, GuiTypes
  <2>. QED  BY <2>1, <2>2 DEF Ask, SetLink, SetLoaded
<1>3. /\ link' \in BOOLEAN
      /\ Head(worker.todo) = "close" => ~link'
      /\ Head(worker.todo) = "connect" \/ ~link' \/ (link /\ link')
  <2>1. CASE SetLink
    BY <2>1 DEF SetLink, NextIs
  <2>2. CASE ~SetLink
    <3>1. UNCHANGED link /\ Head(worker.todo) # "close"
      BY <2>2 DEF Ask, SetLoaded, MayLoad, NextIs
    <3>. QED  BY <3>1 DEF GuiInv, GuiTypes
  <2>. QED  BY <2>1, <2>2
<1>4. GuiTypes'
  BY <1>1, <1>2, <1>3 DEF GuiInv, GuiTypes, guiHistory
<1>5. Ordered(worker.todo)' /\ OneTask' /\ ButtonsInv'
  BY <1>1, <1>2, WorkerFacts DEF OneTask, ButtonsInv
<1>6. HeadInv'
  BY <1>1, <1>2, <1>3, WorkerFacts DEF HeadInv
<1>7. LoadingInv'
  BY <1>1, <1>2, WorkerFacts DEF GuiInv, LoadingInv, guiHistory
<1>8. QueryInv'
  BY <1>1, <1>2, WorkerFacts DEF GuiInv, QueryInv
<1>9. LinkInv'
  BY <1>1, <1>2, <1>3, WorkerFacts DEF GuiInv, LinkInv, guiHistory
<1>. QED  BY <1>4, <1>5, <1>6, <1>7, <1>8, <1>9 DEF GuiInv

\* A worker posts what is shown of its task, that it raised, or that a load is given up.
LEMMA WorkerPosts ==
  ASSUME GuiInv, Raise \/ PostText \/ (MayLoad /\ worker.told = "PRE_LOGIN")
  PROVE  GuiInv'
<1>1. PICK item \in UiItems :
        /\ worker.todo # <<>> /\ uiQueue' = Append(uiQueue, item)
        /\ UNCHANGED <<clicked, cb, taskRunning, leaving, drawn, buttons, link, shown, guiHistory>>
        /\ \/ worker' = Done /\ item.kind = Head(worker.todo) /\ item.kind \in Texts
           \/ worker' = [worker EXCEPT !.todo = <<"end">>] /\ item.kind = "Error" /\ Head(worker.todo) \in {"ask", "connect"}
           \/ worker' = [worker EXCEPT !.todo = <<"end">>] /\ item.kind = "Blocked" /\ Head(worker.todo) = "mayLoad"
  <2>1. CASE Raise
    <3>1. Text("Error") \in UiItems /\ Text("Error").kind = "Error"
      BY DEF Text, Item, UiItems, ItemKinds, States
    <3>. QED  BY <2>1, <3>1 DEF Raise, NextIs, Posted
  <2>2. CASE MayLoad /\ worker.told = "PRE_LOGIN"
    <3>1. Text("Blocked") \in UiItems /\ Text("Blocked").kind = "Blocked"
      BY DEF Text, Item, UiItems, ItemKinds, States
    <3>. QED  BY <2>2, <3>1 DEF MayLoad, NextIs, Posted
  <2>3. CASE PostText
    <3>1. worker.todo # <<>> /\ Head(worker.todo) \in Texts /\ worker.told \in States
      BY <2>3 DEF PostText, NextIs, GuiInv, GuiTypes
    <3>2. CASE Head(worker.todo) = "Status"
      <4>1. Item("Status", worker.told) \in UiItems /\ Item("Status", worker.told).kind = "Status"
        BY <3>1 DEF Item, UiItems, ItemKinds, Texts
      <4>. QED  BY <2>3, <3>1, <3>2, <4>1 DEF PostText, NextIs, Posted
    <3>3. CASE Head(worker.todo) # "Status"
      <4>1. Text(Head(worker.todo)) \in UiItems /\ Text(Head(worker.todo)).kind = Head(worker.todo)
        BY <3>1 DEF Text, Item, UiItems, ItemKinds, States
      <4>. QED  BY <2>3, <3>1, <3>3, <4>1 DEF PostText, NextIs, Posted
    <3>. QED  BY <3>2, <3>3
  <2>. QED  BY <2>1, <2>2, <2>3
<1>2. /\ worker' \in [todo : Seq(Words), told : States]
      /\ worker'.todo = IF item.kind \in Texts THEN Tail(worker.todo) ELSE <<"end">>
  BY <1>1, WorkerFacts, OnlyEnd DEF Done, GuiInv, GuiTypes, Texts
<1>3. GuiTypes'
  <2>1. uiQueue' \in Seq(UiItems)
    BY <1>1, PushFacts DEF GuiInv, GuiTypes
  <2>. QED  BY <1>1, <1>2, <2>1 DEF GuiInv, GuiTypes, guiHistory
<1>4. Ordered(worker.todo)' /\ OneTask' /\ ButtonsInv'
  BY <1>1, <1>2, WorkerFacts, OnlyEnd DEF OneTask, ButtonsInv
<1>5. HeadInv'
  <2>1. CASE item.kind \in Texts
    BY <1>1, <1>2, <2>1, WorkerFacts DEF HeadInv, GuiInv, Texts, Unlinked
  <2>2. CASE item.kind \notin Texts
    BY <1>2, <2>2, OnlyEnd DEF HeadInv, Unlinked
  <2>. QED  BY <2>1, <2>2
<1>6. uiQueue \in Seq(UiItems)
  BY DEF GuiInv, GuiTypes
<1>7. LoadingInv'
  <2>1. Has(uiQueue, LoadEnds) \/ item.kind \in LoadEnds => Has(uiQueue, LoadEnds)'
    BY <1>1, <1>6, HasPushed
  <2>. QED  BY <1>1, <1>2, <2>1, WorkerFacts DEF GuiInv, LoadingInv, LoadEnds, guiHistory
<1>8. QueryInv'
  <2>1. /\ Has(uiQueue, QueryEnds) \/ item.kind \in QueryEnds => Has(uiQueue, QueryEnds)'
        /\ item.kind # "Querying" /\ (Followed(uiQueue, {"Querying"}, QueryEnds) \/ item.kind \in QueryEnds)
             => Followed(uiQueue, {"Querying"}, QueryEnds)'
    BY <1>1, <1>6, HasPushed, FollowedPushed
  <2>. QED  BY <1>1, <1>2, <2>1, WorkerFacts DEF GuiInv, QueryInv, QueryEnds, Texts
<1>9. LinkInv'
  <2>1. /\ Has(uiQueue, {"Connected"}) \/ item.kind = "Connected" => Has(uiQueue, {"Connected"})'
        /\ item.kind \notin Unlinked /\ (Followed(uiQueue, Unlinked, {"Connected"}) \/ item.kind = "Connected")
             => Followed(uiQueue, Unlinked, {"Connected"})'
    BY <1>1, <1>6, HasPushed, FollowedPushed
  <2>2. link => item.kind \notin Unlinked
    BY <1>1, WorkerFacts DEF GuiInv, HeadInv, Unlinked
  <2>. QED  BY <1>1, <1>2, <2>1, <2>2, WorkerFacts DEF GuiInv, LinkInv, Unlinked, Texts, guiHistory
<1>. QED  BY <1>3, <1>4, <1>5, <1>7, <1>8, <1>9 DEF GuiInv

\* A worker is launched, and it ends.
LEMMA WorkerTurns ==
  ASSUME GuiInv, LaunchWorker \/ EndTask
  PROVE  GuiInv'
<1>0. /\ <<>> \in Seq(Words) /\ Ordered(<<>>) /\ \A w : ~InTodo(<<>>, w)
      /\ "READY" \in States /\ "other" \in Tasks
  BY DEF Ordered, InTodo, States, Tasks
<1>1. CASE LaunchWorker
  <2>1. /\ worker.todo = <<>> /\ taskRunning /\ cb.task \in Tasks
        /\ UNCHANGED <<clicked, taskRunning, leaving, uiQueue, drawn, buttons, link, shown, guiHistory>>
        /\ cb' = NoCall /\ worker' = [NoWork EXCEPT !.todo = WorkOf(cb.task)]
    BY <1>1 DEF LaunchWorker, GuiInv, OneTask, GuiTypes
  <2>2. worker' \in [todo : Seq(Words), told : States] /\ worker'.todo = WorkOf(cb.task)
    BY <1>0, <2>1, TaskOrdered DEF NoWork
  <2>3. cb' \in [at : {"idle", "start", "apply", "configure", "launch"}, task : Tasks, busy : BOOLEAN, link : BOOLEAN]
        /\ cb'.at = "idle"
    BY <1>0, <2>1 DEF NoCall
  <2>4. GuiTypes'
    BY <2>1, <2>2, <2>3 DEF GuiInv, GuiTypes, guiHistory
  <2>5. Ordered(worker.todo)' /\ HeadInv' /\ OneTask' /\ ButtonsInv'
    BY <2>1, <2>2, <2>3, TaskOrdered DEF HeadInv, OneTask, ButtonsInv
  <2>6. LoadingInv'
    BY <1>0, <2>1, <2>2, <2>3, TaskOrdered DEF GuiInv, LoadingInv, guiHistory
  <2>7. QueryInv' /\ LinkInv'
    BY <1>0, <2>1, <2>2, TaskOrdered DEF GuiInv, QueryInv, LinkInv, guiHistory
  <2>. QED  BY <2>4, <2>5, <2>6, <2>7 DEF GuiInv
<1>2. CASE EndTask
  <2>1. /\ worker.todo # <<>> /\ Head(worker.todo) = "end"
        /\ UNCHANGED <<clicked, cb, uiQueue, drawn, buttons, link, shown, guiHistory>>
        /\ worker' = [todo |-> <<>>, told |-> "READY"] /\ taskRunning' = FALSE /\ leaving' = leaving + 1
    BY <1>2 DEF EndTask, NextIs, NoWork
  <2>2. worker' \in [todo : Seq(Words), told : States] /\ worker'.todo = <<>>
    BY <1>0, <2>1
  <2>3. GuiTypes'
    <3>1. taskRunning' \in BOOLEAN
      BY <2>1, Zenon
    <3>2. leaving' \in Nat
      BY <2>1 DEF GuiInv, GuiTypes
    <3>. QED  BY <2>1, <2>2, <3>1, <3>2 DEF GuiInv, GuiTypes, guiHistory
  <2>4. Ordered(worker.todo)' /\ HeadInv' /\ OneTask' /\ ButtonsInv'
    BY <1>0, <2>1, <2>2, WorkerFacts DEF HeadInv, OneTask, ButtonsInv, GuiInv, GuiTypes
  <2>5. LoadingInv'
    BY <2>1, WorkerFacts DEF GuiInv, LoadingInv, guiHistory
  <2>6. QueryInv' /\ LinkInv'
    BY <2>1, WorkerFacts DEF GuiInv, QueryInv, LinkInv, guiHistory
  <2>. QED  BY <2>3, <2>4, <2>5, <2>6 DEF GuiInv
<1>. QED  BY <1>1, <1>2

\* The buttons of a task that has ended, and a loss the poll has seen.
LEMMA OthersPost ==
  ASSUME GuiInv, PostButtons \/ PollLost
  PROVE  GuiInv'
<1>1. PICK item \in UiItems :
        /\ uiQueue' = Append(uiQueue, item)
        /\ UNCHANGED <<clicked, cb, taskRunning, worker, drawn, buttons, link, shown, refusedLoad>>
        /\ leaving' \in Nat /\ lateLoss' \in BOOLEAN /\ (lateLoss => lateLoss')
        /\ \/ item.kind = "Buttons"
           \/ item.kind = "Disconnected" /\ UNCHANGED leaving /\ (link => lateLoss')
  <2>1. CASE PostButtons
    <3>1. Text("Buttons") \in UiItems /\ Text("Buttons").kind = "Buttons"
      BY DEF Text, Item, UiItems, ItemKinds, States
    <3>2. leaving' \in Nat
      BY <2>1 DEF PostButtons, GuiInv, GuiTypes
    <3>. QED  BY <2>1, <3>1, <3>2 DEF PostButtons, Posted, GuiInv, GuiTypes, guiHistory
  <2>2. CASE PollLost
    <3>1. Text("Disconnected") \in UiItems /\ Text("Disconnected").kind = "Disconnected"
      BY DEF Text, Item, UiItems, ItemKinds, Texts, States
    <3>. QED  BY <2>2, <3>1 DEF PollLost, Posted, GuiInv, GuiTypes
  <2>. QED  BY <2>1, <2>2
<1>2. uiQueue \in Seq(UiItems)
  BY DEF GuiInv, GuiTypes
<1>3. \A kinds : Has(uiQueue, kinds) \/ item.kind \in kinds => Has(uiQueue, kinds)'
  BY <1>1, <1>2, HasPushed
<1>4. GuiTypes'
  <2>1. uiQueue' \in Seq(UiItems)
    BY <1>1, <1>2, PushFacts
  <2>. QED  BY <1>1, <2>1 DEF GuiInv, GuiTypes
<1>5. Ordered(worker.todo)' /\ HeadInv' /\ OneTask'
  BY <1>1 DEF GuiInv, HeadInv, OneTask
<1>6. ButtonsInv'
  BY <1>1, <1>3 DEF GuiInv, ButtonsInv
<1>7. LoadingInv'
  BY <1>1, <1>3 DEF GuiInv, LoadingInv
<1>8. QueryInv'
  <2>1. Followed(uiQueue, {"Querying"}, QueryEnds) => Followed(uiQueue, {"Querying"}, QueryEnds)'
    BY <1>1, <1>2, FollowedPushed
  <2>. QED  BY <1>1, <1>3, <2>1 DEF GuiInv, QueryInv
<1>9. LinkInv'
  <2>1. item.kind \notin Unlinked /\ Followed(uiQueue, Unlinked, {"Connected"}) => Followed(uiQueue, Unlinked, {"Connected"})'
    BY <1>1, <1>2, FollowedPushed
  <2>. QED  BY <1>1, <1>3, <2>1 DEF GuiInv, LinkInv, Unlinked
<1>. QED  BY <1>4, <1>5, <1>6, <1>7, <1>8, <1>9 DEF GuiInv

\* What an item that is shown makes of the texts.
LEMMA DrainShows ==
  ASSUME GuiInv, Drain
  PROVE  LET kind == Head(uiQueue).kind IN
         /\ kind \in LoadEnds => shown'.suite # "Loading"
         /\ kind \notin LoadEnds => shown'.suite = shown.suite
         /\ kind \in QueryEnds => shown'.simulator # "Querying"
         /\ kind \notin QueryEnds \cup {"Querying"} => shown'.simulator \in {shown.simulator, "-"}
         /\ kind = "Connected" => shown'.connection = "Connected"
         /\ link /\ kind \notin Unlinked \cup {"Connected"} => shown'.connection = shown.connection
         /\ shown' \in [connection : {"Disconnected", "Connecting", "Connected"},
                        suite : {"-", "Loading", "Blocked", "Complete", "Failed"},
                        simulator : States \cup {"-", "Querying", "Failed"}]
<1> DEFINE item == Head(uiQueue)
<1>. USE DEF GuiInv, GuiTypes, LoadEnds, QueryEnds, Unlinked, States
<1>1. item \in UiItems /\ item.kind \in ItemKinds /\ item.state \in States
  <2>1. uiQueue \in Seq(UiItems) /\ uiQueue # <<>>
    BY DEF Drain
  <2>2. item \in UiItems
    BY <2>1, PopFacts
  <2>. QED  BY <2>2 DEF UiItems
<1>2. CASE item.kind \in {"Connecting", "Connected"}
  <2>1. shown' = [shown EXCEPT !.connection = item.kind]
    BY <1>2 DEF Drain
  <2>. QED  BY <1>2, <2>1
<1>3. CASE item.kind \in {"Disconnected", "Shutdown"}
  <2>1. shown' = [shown EXCEPT !.connection = "Disconnected", !.simulator = "-"]
    BY <1>3 DEF Drain, ApplyDisconnected, AsDisconnected
  <2>. QED  BY <1>3, <2>1
<1>4. CASE item.kind = "Error"
  <2>1. ApplyError
    BY <1>4 DEF Drain
  <2>2. CASE link
    <3>1. shown' = [shown EXCEPT !.suite = IF @ = "Loading" THEN "Failed" ELSE @,
                                 !.simulator = IF @ = "Querying" THEN "Failed" ELSE @]
      BY <2>1, <2>2 DEF ApplyError
    <3>. QED  BY <1>4, <2>2, <3>1
  <2>3. CASE ~link
    <3>1. shown' = [AsDisconnected(shown) EXCEPT !.suite = IF @ = "Loading" THEN "Failed" ELSE @,
                                                 !.simulator = IF @ = "Querying" THEN "Failed" ELSE @]
      BY <2>1, <2>3 DEF ApplyError
    <3>. QED  BY <1>4, <2>3, <3>1 DEF AsDisconnected
  <2>. QED  BY <2>2, <2>3
<1>5. CASE item.kind = "Status"
  <2>1. shown' = IF simulatorState = item.state /\ shown.simulator # "Querying" THEN shown
                 ELSE [shown EXCEPT !.simulator = item.state]
    BY <1>5 DEF Drain, ApplyStatus
  <2>. QED  BY <1>1, <1>5, <2>1
<1>6. CASE item.kind = "Querying"
  <2>1. shown' = [shown EXCEPT !.simulator = "Querying"]
    BY <1>6 DEF Drain
  <2>. QED  BY <1>6, <2>1
<1>7. CASE item.kind \in {"Blocked", "Complete"}
  <2>1. shown' = [shown EXCEPT !.suite = item.kind]
    BY <1>7 DEF Drain
  <2>. QED  BY <1>7, <2>1
<1>8. CASE item.kind = "Buttons"
  <2>1. UNCHANGED shown
    BY <1>8 DEF Drain
  <2>. QED  BY <1>8, <2>1
<1>. QED  BY <1>1, <1>2, <1>3, <1>4, <1>5, <1>6, <1>7, <1>8 DEF ItemKinds, Texts

\* The main thread shows an item.
LEMMA DrainStep ==
  ASSUME GuiInv, Drain
  PROVE  GuiInv'
<1> DEFINE kind == Head(uiQueue).kind
<1>1. /\ uiQueue \in Seq(UiItems) /\ uiQueue # <<>> /\ uiQueue' = Tail(uiQueue) /\ uiQueue' \in Seq(UiItems)
      /\ UNCHANGED <<clicked, cb, taskRunning, worker, leaving, buttons, link, guiHistory>> /\ drawn.at = "idle"
  BY PopFacts DEF Drain, GuiInv, GuiTypes
<1>2. \A kinds : kind \notin kinds /\ Has(uiQueue, kinds) => Has(uiQueue, kinds)'
  BY <1>1, HasPopped
<1>3. /\ drawn' \in [at : {"idle", "configure"}, busy : BOOLEAN, link : BOOLEAN]
      /\ \/ drawn'.at = "configure" /\ drawn'.busy = taskRunning /\ drawn'.link = link
         \/ UNCHANGED drawn /\ kind # "Buttons"
  <2>1. taskRunning \in BOOLEAN /\ link \in BOOLEAN
    BY DEF GuiInv, GuiTypes
  <2>2. CASE Applies(Head(uiQueue))
    <3>1. drawn' = [at |-> "configure", busy |-> taskRunning, link |-> link]
      BY <2>2 DEF Drain
    <3>. QED  BY <2>1, <3>1
  <2>3. CASE ~Applies(Head(uiQueue))
    BY <2>3 DEF Drain, Applies, GuiInv, GuiTypes
  <2>. QED  BY <2>2, <2>3
<1>4. GuiTypes'
  BY <1>1, <1>3, DrainShows DEF GuiInv, GuiTypes, guiHistory
<1>5. Ordered(worker.todo)' /\ HeadInv' /\ OneTask'
  BY <1>1 DEF GuiInv, HeadInv, OneTask
<1>6. ButtonsInv'
  BY <1>1, <1>2, <1>3 DEF GuiInv, ButtonsInv
<1>7. LoadingInv'
  BY <1>1, <1>2, DrainShows DEF GuiInv, LoadingInv, guiHistory
<1>8. QueryInv'
  <2>1. Followed(uiQueue, {"Querying"}, QueryEnds) =>
          Followed(uiQueue, {"Querying"}, QueryEnds)' /\ (kind = "Querying" => Has(uiQueue, QueryEnds)')
    BY <1>1, FollowedPopped
  <2>. QED  BY <1>1, <1>2, <2>1, DrainShows DEF GuiInv, QueryInv
<1>9. LinkInv'
  <2>1. Followed(uiQueue, Unlinked, {"Connected"}) =>
          Followed(uiQueue, Unlinked, {"Connected"})' /\ (kind \in Unlinked => Has(uiQueue, {"Connected"})')
    BY <1>1, FollowedPopped
  <2>. QED  BY <1>1, <1>2, <2>1, DrainShows DEF GuiInv, LinkInv, guiHistory
<1>. QED  BY <1>4, <1>5, <1>6, <1>7, <1>8, <1>9 DEF GuiInv

\* Once nothing runs and nothing is left to be shown, the buttons are those of
\* the connection, and no text stands for something that is over, whatever
\* clicks, tasks, losses and polls have crossed.
THEOREM WindowComesToRest == GuiSpec => []WindowSettles
<1>1. GuiInit => GuiInv
  <2> SUFFICES ASSUME GuiInit PROVE GuiInv
    OBVIOUS
  <2>1. /\ worker = [todo |-> <<>>, told |-> "READY"] /\ uiQueue = <<>> /\ clicked = <<>> /\ leaving = 0
        /\ cb = [at |-> "idle", task |-> "other", busy |-> FALSE, link |-> FALSE]
        /\ drawn = [at |-> "idle", busy |-> FALSE, link |-> FALSE]
        /\ link \in BOOLEAN /\ buttons = [task |-> TRUE, link |-> link]
    BY DEF GuiInit, NoWork, NoCall, NoDraw
  <2>2. PICK s \in States :
          LET texts == [connection |-> "Connected", suite |-> "-", simulator |-> s] IN
          shown = IF link THEN texts ELSE AsDisconnected(texts)
    BY DEF GuiInit
  <2>3. /\ shown \in [connection : {"Disconnected", "Connecting", "Connected"},
                      suite : {"-", "Loading", "Blocked", "Complete", "Failed"},
                      simulator : States \cup {"-", "Querying", "Failed"}]
        /\ shown.suite # "Loading" /\ shown.simulator # "Querying" /\ (link => shown.connection = "Connected")
    BY <2>2 DEF AsDisconnected, States
  <2>4. taskRunning \in BOOLEAN /\ refusedLoad \in BOOLEAN /\ lateLoss \in BOOLEAN
    BY Zenon DEF GuiInit
  <2>5. <<>> \in Seq(Words) /\ <<>> \in Seq(UiItems) /\ <<>> \in Seq(Tasks) /\ Len(<<>>) = 0
    OBVIOUS
  <2>6. worker \in [todo : Seq(Words), told : States] /\ worker.todo = <<>>
    BY <2>1, <2>5 DEF States
  <2>7. GuiTypes
    <3>1. cb \in [at : {"idle", "start", "apply", "configure", "launch"}, task : Tasks, busy : BOOLEAN, link : BOOLEAN]
      BY <2>1 DEF Tasks
    <3>2. buttons \in [task : BOOLEAN, link : BOOLEAN] /\ drawn \in [at : {"idle", "configure"}, busy : BOOLEAN, link : BOOLEAN]
      BY <2>1
    <3>3. uiQueue \in Seq(UiItems) /\ clicked \in Seq(Tasks) /\ leaving \in Nat
      BY <2>1, <2>5
    <3>. QED  BY <2>1, <2>3, <2>4, <2>6, <3>1, <3>2, <3>3 DEF GuiTypes
  <2>8. Ordered(worker.todo) /\ HeadInv
    BY <2>5, <2>6 DEF Ordered, HeadInv
  <2>9. OneTask /\ ButtonsInv /\ LoadingInv
    BY <2>1, <2>3, <2>6 DEF OneTask, ButtonsInv, LoadingInv
  <2>10. QueryInv /\ LinkInv
    BY <2>1, <2>3, <2>5 DEF QueryInv, LinkInv, Followed
  <2>. QED  BY <2>7, <2>8, <2>9, <2>10 DEF GuiInv
<1>2. GuiInv /\ [GuiNext]_guiVars => GuiInv'
  <2> SUFFICES ASSUME GuiInv, [GuiNext]_guiVars PROVE GuiInv'
    OBVIOUS
  <2>1. MayLoad => (worker' = Done /\ UNCHANGED uiQueue) \/ worker.told = "PRE_LOGIN"
    BY DEF MayLoad
  <2>2. CASE CallbackStep \/ (\E task \in Tasks : Click(task)) \/ PollTime \/ LoseLink \/ UNCHANGED guiVars
    BY <2>2, QuietStep, WorkerTurns DEF CallbackStep
  <2>3. CASE WorkerStep
    <3>1. CASE SetLink \/ SetLoaded
      BY <3>1, WorkerGoesOn, Zenon
    <3>5. CASE \E told \in States : Ask(told)
      BY <3>5, WorkerGoesOn, Zenon
    <3>2. CASE Raise
      BY <3>2, WorkerPosts, Zenon
    <3>6. CASE PostText
      BY <3>6, WorkerPosts, Zenon
    <3>3. CASE MayLoad
      BY <2>1, <3>3, WorkerGoesOn, WorkerPosts
    <3>4. CASE EndTask
      BY <3>4, WorkerTurns
    <3>. QED  BY <2>3, <3>1, <3>2, <3>3, <3>4, <3>5, <3>6 DEF WorkerStep
  <2>4. CASE MainStep \/ PollStep \/ PostButtons
    BY <2>4, QuietStep, OthersPost, DrainStep DEF MainStep, PollStep
  <2>. QED  BY <2>2, <2>3, <2>4 DEF GuiNext
<1>3. GuiInv => WindowSettles
  <2>1. GuiInv /\ AtRest => worker.todo = <<>> /\ Len(uiQueue) = 0 /\ Len(worker.todo) = 0
    BY DEF GuiInv, OneTask, AtRest
  <2>2. GuiInv => ButtonsSettle
    BY <2>1 DEF GuiInv, GuiTypes, AtRest, ButtonsInv, Has, ButtonsSettle
  <2>3. GuiInv => LoadingEnds
    BY <2>1 DEF GuiInv, AtRest, LoadingInv, InTodo, Has, LoadingEnds
  <2>4. GuiInv => QueryingEnds
    BY <2>1 DEF GuiInv, AtRest, QueryInv, InTodo, Has, QueryingEnds
  <2>5. GuiInv => LinkShown
    BY <2>1 DEF GuiInv, AtRest, LinkInv, Has, LinkShown
  <2>. QED  BY <2>2, <2>3, <2>4, <2>5 DEF WindowSettles
<1>. QED  BY <1>1, <1>2, <1>3, PTL DEF GuiSpec
=============================================================================
