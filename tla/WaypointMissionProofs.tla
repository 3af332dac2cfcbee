------------------------ MODULE WaypointMissionProofs ------------------------
(***************************************************************************)
(* Proofs about WaypointMission, for every mission, any number of goals,   *)
(* loop closures and interrupts, and whatever Nav2 answers and when: the   *)
(* script never loses a goal that is alive, its bookkeeping is Nav2's, and *)
(* what it says was reached or failed is so.                               *)
(*                                                                         *)
(* The invariants come in layers, each proved with the help of those       *)
(* before it: types and control, the books, the goals, and the progress of *)
(* the rover along the route.                                              *)
(***************************************************************************)
EXTENDS WaypointMission, TLAPS, SequenceTheorems

\* Where the script is: a goal is driven, a leg is being started, a request is
\* under way, the mission is over.
Driving  == {"drive", "refresh", "resend", "resending"}
Starting == {"resolve", "send", "sending"}
Asking   == {"sending", "resending"}
Ending   == {"cleanup", "late", "exited"}

Goal == [status : Statuses, route : Seq(Names), target : Seq(Places), remaining : Nat \ {0}]

\* The types, with what a goal of Nav2 is, and what the script knows of its own
\* state at each of its waits.
NavInv ==
  /\ nav \in Seq(Goal)
  /\ \A id \in GoalIds :
       Len(nav[id].target) = Len(nav[id].route) /\ nav[id].remaining <= Len(nav[id].route)

ControlInv ==
  /\ request # None <=> pc \in Asking
  /\ rc # None <=> pc \in Ending
  /\ Mode = "through" => leg = 1
  /\ pc \in Driving => passed < Len(names)
  /\ pc \in Driving => result_future # None
  /\ pc = "resolve" => fresh \in Seq(Places) /\ Len(fresh) < Len(LegNames)
  /\ pc \in {"send", "sending"} => fresh \in Seq(Places) /\ Len(fresh) = Len(LegNames)
  /\ pc = "refresh" => Len(fresh) < Len(names) - passed
  /\ pc \in {"resend", "resending"} =>
       fresh \in Seq(Places) /\ Len(fresh) = Len(names) - passed
  /\ pc = "sending" => nav[request].route = LegNames
  /\ pc = "resending" => nav[request].route = Ahead(names)

MissionInv == TypeOK /\ NavInv /\ ControlInv

\* The goals: what is alive can be reached, and a goal that the script is about
\* to replace, or has replaced, is no longer executed.
GoalsInv ==
  /\ LiveGoalsTracked
  /\ current_handle # None => Accepted(current_handle)
  /\ (pc \in Asking /\ Accepted(request) /\ current_handle # None) =>
       nav[current_handle].status # "executing"
  /\ pc # "exited" => complained = {}

\* Once cleanup has cancelled the goal it tracked, only requests that were never
\* answered can still become goals, and it complains about all of these.
EndInv ==
  /\ pc \in {"late", "exited"} => current_handle \in cancelled \union {None}
  /\ pc = "exited" => complained = unanswered

\* The progress along a mission that is driven in one go: every route is an end
\* of Route, and what is missing from it, or passed on it, has been visited.
IsTail(seq) ==
  /\ Len(seq) <= Len(Route)
  /\ \A i \in 1 .. Len(seq) : seq[i] = Route[Len(Route) - Len(seq) + i]

Been(seen, k) == \A i \in 1 .. k : Route[i] \in seen

Done == Len(Route) - Len(names) + passed

ThroughInv ==
  Mode = "through" =>
    /\ \A id \in GoalIds : IsTail(nav[id].route) /\ Been(visited, Len(Route) - nav[id].remaining)
    /\ poses_remaining # None => Been(visited, Len(Route) - poses_remaining)
    /\ pc \in Driving => IsTail(names) /\ Been(visited, Done)

\* A leg that is driven alone has the route of one waypoint and no feedback.
PoseInv ==
  Mode = "pose" =>
    /\ \A id \in GoalIds : nav[id].remaining = 1 /\ Len(nav[id].route) = 1
    /\ poses_remaining = None
    /\ pc \in Driving => names = <<Route[leg]>> /\ passed = 0

VisitedInv ==
  \A id \in GoalIds : nav[id].status = "succeeded" => ToSet(nav[id].route) \subseteq visited

\* What is logged as reached.
OnceOnly(seq) == \A i, j \in DOMAIN seq : seq[i] = seq[j] => i = j

LoggedTo(log, k) == Len(log) = k /\ \A i \in 1 .. k : log[i] = Route[i]

ReachedInv ==
  /\ ToSet(reached) \subseteq visited
  /\ Mode = "through" =>
       /\ pc \in Starting => LoggedTo(reached, 0)
       /\ pc \in Driving => LoggedTo(reached, Done)
       /\ pc \in Ending => \E k \in 0 .. Len(Route) : LoggedTo(reached, k)
  /\ Mode = "pose" =>
       /\ pc \notin Ending => \A i \in DOMAIN reached : \E k \in 1 .. leg - 1 : reached[i] = Route[k]
       /\ OnceOnly(Route) => OnceOnly(reached)

\* Every waypoint of the legs so far is accounted for.
Before == IF Mode = "pose" THEN {Route[i] : i \in 1 .. leg - 1} ELSE {}

CoverageInv ==
  /\ interrupts \in Nat
  /\ pc \in Starting => Before \subseteq ToSet(reached) \union failed
  /\ pc \in Driving =>
       Before \union ToSet(LegNames) \subseteq ToSet(reached) \union failed \union ToSet(Ahead(names))
  /\ rc = 0 => failed = {} /\ Names \subseteq ToSet(reached)
  /\ (pc \in Ending /\ interrupts = 0 /\ ~stop_on_failure) => Names \subseteq ToSet(reached) \union failed

-----------------------------------------------------------------------------
(***************************************************************************)
(* Sequences and routes.                                                   *)
(***************************************************************************)

\* A part of a sequence has its type, its length and its elements.
LEMMA PartOfSeq ==
  ASSUME NEW S, NEW s \in Seq(S), NEW a \in 1 .. Len(s) + 1, NEW b \in a - 1 .. Len(s)
  PROVE  /\ SubSeq(s, a, b) \in Seq(S)
         /\ Len(SubSeq(s, a, b)) = b - a + 1
         /\ \A i \in 1 .. b - a + 1 : SubSeq(s, a, b)[i] = s[a + i - 1]
         /\ ToSet(SubSeq(s, a, b)) = {s[i] : i \in a .. b}
<1>1. a \in Int /\ b \in Int /\ \A i \in a .. b : s[i] \in S
  OBVIOUS
<1>2. /\ SubSeq(s, a, b) \in Seq(S)
      /\ Len(SubSeq(s, a, b)) = b - a + 1
      /\ \A i \in 1 .. b - a + 1 : SubSeq(s, a, b)[i] = s[a + i - 1]
  BY <1>1, SubSeqProperties
<1> DEFINE part == SubSeq(s, a, b)
<1>3. ToSet(part) = {s[i] : i \in a .. b}
  <2> HIDE DEF part
  <2>1. DOMAIN part = 1 .. b - a + 1
    BY <1>2 DEF part
  <2>2. ASSUME NEW x \in ToSet(part) PROVE x \in {s[i] : i \in a .. b}
    <3>1. PICK i \in 1 .. b - a + 1 : x = part[i]
      BY <2>1, <2>2 DEF ToSet
    <3> QED
      BY <3>1, <1>2 DEF part
  <2>3. ASSUME NEW i \in a .. b PROVE s[i] \in ToSet(part)
    <3>1. i - a + 1 \in 1 .. b - a + 1 /\ part[i - a + 1] = s[i]
      BY <1>2 DEF part
    <3> QED
      BY <3>1, <2>1 DEF ToSet
  <2> QED
    BY <2>2, <2>3
<1> QED
  BY <1>2, <1>3

\* The elements of a sequence have its type.
LEMMA ToSetType ==
  ASSUME NEW S, NEW s \in Seq(S)
  PROVE  ToSet(s) \subseteq S
  BY DEF ToSet

\* The elements of a concatenation.
LEMMA ToSetConcat ==
  ASSUME NEW S, NEW s \in Seq(S), NEW t \in Seq(S)
  PROVE  ToSet(s \o t) = ToSet(s) \union ToSet(t)
<1>1. /\ DOMAIN (s \o t) = 1 .. Len(s) + Len(t)
      /\ \A i \in 1 .. Len(s) + Len(t) :
           (s \o t)[i] = IF i <= Len(s) THEN s[i] ELSE t[i - Len(s)]
  BY ConcatProperties
<1>2. ToSet(s \o t) \subseteq ToSet(s) \union ToSet(t)
  BY <1>1 DEF ToSet
<1>3. ToSet(s) \subseteq ToSet(s \o t)
  BY <1>1 DEF ToSet
<1>4. ASSUME NEW x \in ToSet(t) PROVE x \in ToSet(s \o t)
  <2>1. PICK i \in 1 .. Len(t) : x = t[i]
    BY DEF ToSet
  <2>2. Len(s) + i \in 1 .. Len(s) + Len(t) /\ (s \o t)[Len(s) + i] = x
    BY <1>1, <2>1
  <2> QED
    BY <1>1, <2>2 DEF ToSet
<1> QED
  BY <1>2, <1>3, <1>4

\* The mission and its legs: go_to has one waypoint, go_through all of them.
LEMMA RouteType ==
  /\ Route \in Seq(Names) /\ Len(Route) \in Nat \ {0}
  /\ Names = {Route[i] : i \in 1 .. Len(Route)}
  BY MissionAssumption DEF Names, ToSet

LEMMA LegNamesType ==
  ASSUME leg \in DOMAIN Route
  PROVE  /\ LegNames \in Seq(Names) /\ Len(LegNames) \in Nat \ {0}
         /\ ToSet(LegNames) \subseteq Names
         /\ Mode = "pose" => LegNames = <<Route[leg]>> /\ Len(LegNames) = 1
         /\ Mode = "through" => LegNames = Route
<1>1. CASE Mode = "pose"
  <2>1. Route[leg] \in Names
    BY RouteType
  <2>2. LegNames = <<Route[leg]>>
    BY <1>1 DEF LegNames
  <2>3. LegNames \in Seq(Names) /\ Len(LegNames) = 1 /\ LegNames[1] = Route[leg]
    BY <2>1, <2>2
  <2> QED
    BY <1>1, <2>2, <2>3 DEF ToSet
<1>2. CASE Mode = "through"
  BY <1>2, RouteType DEF LegNames, ToSet
<1> QED
  BY <1>1, <1>2, MissionAssumption

\* Counting feedback never counts a waypoint that is not on the route, nor the last.
LEMMA NowPassedType ==
  ASSUME passed \in 0 .. Len(names), names \in Seq(Names),
         poses_remaining \in 1 .. Len(Route) \union {None}
  PROVE  /\ NowPassed \in passed .. Len(names)
         /\ passed < Len(names) => NowPassed < Len(names)
<1>1. Len(names) \in Nat /\ passed \in 0 .. Len(names)
  OBVIOUS
<1>2. CASE poses_remaining = None
  BY <1>1, <1>2 DEF NowPassed
<1>3. CASE poses_remaining \in 1 .. Len(Route)
  <2>1. poses_remaining \in Int /\ poses_remaining >= 1
    BY <1>3, RouteType
  <2> QED
    BY <1>1, <2>1 DEF NowPassed
<1> QED
  BY <1>2, <1>3

-----------------------------------------------------------------------------
(***************************************************************************)
(* Types and control.                                                      *)
(***************************************************************************)

\* What is left of the goal that is driven.
LEMMA AheadType ==
  ASSUME names \in Seq(Names), passed \in 0 .. Len(names)
  PROVE  /\ Ahead(names) \in Seq(Names)
         /\ Len(Ahead(names)) = Len(names) - passed
         /\ \A i \in 1 .. Len(names) - passed : Ahead(names)[i] = names[passed + i]
<1>1. Len(names) \in Nat /\ passed + 1 \in 1 .. Len(names) + 1
      /\ Len(names) \in passed + 1 - 1 .. Len(names)
  OBVIOUS
<1> QED
  BY <1>1, PartOfSeq DEF Ahead

\* When a leg is over, the next one is started or the mission is.
LEMMA LegOverEffect ==
  ASSUME MissionInv, NEW missed \in SUBSET Names, LegOver(missed)
  PROVE  /\ failed' \subseteq Names /\ fresh' = <<>> /\ stop_on_failure' = stop_on_failure
         /\ failed' = failed \union missed
         /\ \/ pc' = "resolve" /\ leg' = leg + 1 /\ rc' = rc /\ Mode = "pose" /\ leg < Len(Route)
            \/ pc' = "cleanup" /\ leg' = leg /\ rc' \in {0, 1} /\ (rc' = 0 <=> failed' = {})
               /\ (Mode = "pose" /\ leg < Len(Route) => missed # {} /\ stop_on_failure)
         /\ leg' \in DOMAIN Route
         /\ Mode = "through" => leg' = leg /\ pc' = "cleanup"
<1>1. /\ leg \in 1 .. Len(Route) /\ Len(Route) \in Nat /\ failed \subseteq Names
      /\ stop_on_failure \in BOOLEAN
  BY RouteType DEF MissionInv, TypeOK
<1> DEFINE more == /\ Mode = "pose" /\ leg < Len(Route)
                   /\ (missed = {} \/ ~stop_on_failure)
<1>2. /\ failed' = failed \union missed /\ fresh' = <<>> /\ stop_on_failure' = stop_on_failure
      /\ more => pc' = "resolve" /\ leg' = leg + 1 /\ rc' = rc
      /\ ~more => pc' = "cleanup" /\ leg' = leg /\ rc' = IF failed' = {} THEN 0 ELSE 1
  BY DEF LegOver
<1>3. CASE more
  <2>1. leg + 1 \in 1 .. Len(Route) /\ Mode = "pose" /\ Mode # "through"
    BY <1>1, <1>3
  <2> QED
    BY <1>1, <1>2, <1>3, <2>1
<1>4. CASE ~more
  <2>1. pc' = "cleanup" /\ leg' = leg /\ rc' \in {0, 1} /\ (rc' = 0 <=> failed' = {})
    BY <1>2, <1>4
  <2>2. Mode = "pose" /\ leg < Len(Route) => missed # {} /\ stop_on_failure
    BY <1>1, <1>4
  <2> QED
    BY <1>1, <1>2, <2>1, <2>2
<1> QED
  BY <1>3, <1>4

\* A leg that was ended leaves the types and the control as they should be.
LEMMA LegOverInv ==
  ASSUME MissionInv, pc \notin Ending, NEW missed \in SUBSET Names, LegOver(missed),
         UNCHANGED <<names, goals, poses_remaining, nav, cancelled, visited, glim, complained, result_future>>,
         passed' \in 0 .. Len(names), reached' \in Seq(Names),
         current_handle' \in MaybeGoal, request' = None, unanswered' \subseteq GoalIds
  PROVE  MissionInv'
<1>1. TypeOK'
  <2>1. /\ pc' \in {"resolve", "cleanup"} /\ leg' \in DOMAIN Route
        /\ stop_on_failure' \in BOOLEAN
    BY LegOverEffect DEF MissionInv, TypeOK
  <2>2. rc' \in {0, 1, 130, None}
    BY LegOverEffect DEF MissionInv, TypeOK
  <2>3. fresh' \in Seq(Places \union {NotFound}) /\ failed' \subseteq Names
    <3>1. fresh' = <<>> /\ failed' \subseteq Names
      BY LegOverEffect
    <3> QED
      BY <3>1
  <2>4. /\ names' \in Seq(Names) /\ goals' \in Seq(Places) /\ Len(names') = Len(goals')
        /\ passed' \in 0 .. Len(names')
        /\ poses_remaining' \in 1 .. Len(Route) \union {None}
    BY DEF MissionInv, TypeOK
  <2>5. /\ current_handle' \in MaybeGoal' /\ result_future' \in MaybeGoal' /\ request' \in MaybeGoal'
        /\ unanswered' \subseteq GoalIds' /\ cancelled' \subseteq GoalIds' /\ complained' \subseteq GoalIds'
    BY DEF MissionInv, TypeOK, GoalIds, MaybeGoal
  <2> QED
    BY <2>1, <2>2, <2>3, <2>4, <2>5 DEF MissionInv, TypeOK, GoalIds
<1>2. NavInv'
  BY DEF MissionInv, NavInv, GoalIds
<1>3. ControlInv'
  <2>1. rc = None
    BY DEF MissionInv, ControlInv
  <2>2. pc' \in {"resolve", "cleanup"} /\ (pc' = "resolve" => rc' = None) /\ (pc' = "cleanup" => rc' # None)
    BY <2>1, LegOverEffect, MissionAssumption
  <2>3. fresh' = <<>> /\ Len(LegNames') > 0 /\ (Mode = "through" => leg' = 1)
    BY LegOverEffect, RouteType DEF LegNames, MissionInv, ControlInv
  <2> QED
    BY <2>2, <2>3 DEF ControlInv, Driving, Asking, Ending
<1> QED
  BY <1>1, <1>2, <1>3 DEF MissionInv

LEMMA MissionInvInit == Init => MissionInv
<1> SUFFICES ASSUME Init PROVE MissionInv
  OBVIOUS
<1>1. Len(LegNames) > 0
  BY RouteType DEF Init, LegNames
<1>2. TypeOK
  BY RouteType, MissionAssumption DEF Init, TypeOK, GoalIds, MaybeGoal
<1>3. NavInv /\ ControlInv
  BY <1>1 DEF Init, NavInv, ControlInv, GoalIds, Driving, Asking, Ending
<1> QED
  BY <1>2, <1>3 DEF MissionInv

\* What Nav2 does to the goals it has: routes and places stay as they were sent,
\* a goal that was answered stays answered, one that is over stays over, and
\* only the waypoints that are left to drive become fewer.
NavKeeps ==
  /\ nav' \in Seq(Goal) /\ DOMAIN nav' = DOMAIN nav
  /\ \A id \in GoalIds :
       /\ nav'[id].route = nav[id].route /\ nav'[id].target = nav[id].target
       /\ nav'[id].remaining \in 1 .. nav[id].remaining
       /\ nav'[id].status \in Statuses
       /\ nav[id].status # "requested" => nav'[id].status # "requested"
       /\ nav[id].status = "rejected" <=> (nav'[id].status = "rejected" /\ nav[id].status # "requested")
       /\ (nav'[id].status = "executing" /\ nav[id].status # "executing") => nav[id].status = "requested"
       /\ Finished(id) => nav'[id] = nav[id]
       /\ nav[id].status = "requested" /\ nav'[id].status \notin {"requested", "rejected"}
            => \A other \in GoalIds \ {id} : nav'[other].status # "executing"

LEMMA NavMoves ==
  ASSUME MissionInv, NEW id \in GoalIds,
         NavAnswers(id) \/ NavDrives(id) \/ NavEnds(id) \/ NavStops(id)
  PROVE  NavKeeps /\ cancelled' = cancelled
<1> DEFINE L == Len(nav)
<1>0. /\ L \in Nat /\ GoalIds = 1 .. L /\ DOMAIN nav = 1 .. L
      /\ nav \in [1 .. L -> Goal]
  BY DEF MissionInv, NavInv, GoalIds
<1> HIDE DEF L
<1>1. /\ L \in Nat /\ GoalIds = 1 .. L /\ DOMAIN nav = 1 .. L /\ nav \in [1 .. L -> Goal]
      /\ \A i \in 1 .. L : nav[i].remaining \in Nat \ {0}
  BY <1>0 DEF Goal
\* The record of a goal whose status is set, or that has passed a waypoint.
<1>a. ASSUME NEW g \in Goal, NEW status \in Statuses, NEW h, h = [g EXCEPT !.status = status]
      PROVE  /\ h \in Goal /\ h.route = g.route /\ h.target = g.target
             /\ h.remaining = g.remaining /\ h.status = status /\ g.status \in Statuses
  BY <1>a DEF Goal
<1>b. ASSUME NEW g \in Goal, g.remaining > 1, NEW h, h = [g EXCEPT !.remaining = @ - 1]
      PROVE  /\ h \in Goal /\ h.route = g.route /\ h.target = g.target
             /\ h.remaining = g.remaining - 1 /\ h.status = g.status /\ g.status \in Statuses
  BY <1>b DEF Goal
<1>c. ASSUME nav' \in [1 .. L -> Goal] PROVE nav' \in Seq(Goal) /\ DOMAIN nav' = 1 .. L
  BY <1>1, <1>c
<1>2. ASSUME NavAccept(id) PROVE NavKeeps
  <2> DEFINE st(i) == IF i = id THEN "executing"
                      ELSE IF nav[i].status = "executing" THEN "aborted" ELSE nav[i].status
  <2>1. ASSUME NEW i \in 1 .. L
        PROVE  nav'[i] = [nav[i] EXCEPT !.status = st(i)] /\ st(i) \in Statuses /\ nav[i] \in Goal
               /\ nav[i].status \in Statuses
    BY <1>1, <1>2 DEF NavAccept, Goal, Statuses
  <2>2. ASSUME NEW i \in 1 .. L
        PROVE  /\ nav'[i] \in Goal
               /\ nav'[i].route = nav[i].route /\ nav'[i].target = nav[i].target
               /\ nav'[i].remaining = nav[i].remaining
               /\ nav'[i].status = st(i)
    <3> HIDE DEF st
    <3>1. nav'[i] = [nav[i] EXCEPT !.status = st(i)] /\ st(i) \in Statuses /\ nav[i] \in Goal
      BY <2>1
    <3> QED
      BY <3>1, <1>a
  <2>3. nav' \in [1 .. L -> Goal]
    BY <1>1, <1>2, <2>2 DEF NavAccept
  <2>4. \A i \in 1 .. L : Finished(i) => i # id /\ nav[i].status # "executing"
    BY <1>1, <1>2 DEF Finished, NavAccept
  <2>5. \A i \in 1 .. L : Finished(i) => nav'[i] = nav[i]
    <3> SUFFICES ASSUME NEW i \in 1 .. L, Finished(i) PROVE nav'[i] = nav[i]
      OBVIOUS
    <3>1. nav'[i] = [nav[i] EXCEPT !.status = nav[i].status] /\ nav[i] \in Goal
      BY <2>1, <2>4
    <3> QED
      BY <3>1 DEF Goal
  <2>6. nav[id].status = "requested" /\ id \in 1 .. L
    BY <1>1, <1>2 DEF NavAccept
  <2>7. ASSUME NEW i \in 1 .. L
        PROVE  /\ nav'[i].status \in Statuses
               /\ nav[i].status # "requested" => nav'[i].status # "requested"
               /\ nav[i].status = "rejected" <=> (nav'[i].status = "rejected" /\ nav[i].status # "requested")
               /\ (nav'[i].status = "executing" /\ nav[i].status # "executing") => nav[i].status = "requested"
    <3>1. CASE i = id
      BY <2>1, <2>2, <2>6, <3>1
    <3>2. CASE i # id /\ nav[i].status = "executing"
      BY <2>1, <2>2, <3>2
    <3>3. CASE i # id /\ nav[i].status # "executing"
      BY <2>1, <2>2, <3>3
    <3> QED
      BY <3>1, <3>2, <3>3
  <2>8. \A i \in 1 .. L : nav'[i].remaining \in 1 .. nav[i].remaining
    BY <1>1, <2>2
  <2>9. \A i \in 1 .. L : i # id => nav'[i].status # "executing" /\ (nav[i].status = "requested" => nav'[i].status = "requested")
    BY <2>2
  <2> HIDE DEF st
  <2> QED
    BY <1>1, <1>c, <2>2, <2>3, <2>5, <2>7, <2>8, <2>9 DEF NavKeeps
<1>3. ASSUME NEW status \in Statuses, nav' = SetStatus(id, status),
             \/ nav[id].status = "requested" /\ status = "rejected"
             \/ nav[id].status = "executing" /\ status \in {"succeeded", "aborted", "canceled"}
      PROVE  NavKeeps
  <2>1. /\ nav' \in [1 .. L -> Goal] /\ nav'[id] = [nav[id] EXCEPT !.status = status]
        /\ \A i \in 1 .. L : i # id => nav'[i] = nav[i]
    <3>1. [nav[id] EXCEPT !.status = status] \in Goal
      BY <1>1, <1>a
    <3>2. nav' = [nav EXCEPT ![id] = [nav[id] EXCEPT !.status = status]]
      BY <1>1, <1>3 DEF SetStatus
    <3> QED
      BY <1>1, <3>1, <3>2
  <2>2. \A i \in 1 .. L : /\ nav'[i].route = nav[i].route /\ nav'[i].target = nav[i].target
                          /\ nav'[i].remaining = nav[i].remaining
                          /\ nav'[i].status = IF i = id THEN status ELSE nav[i].status
                          /\ nav'[i].status \in Statuses
    <3> SUFFICES ASSUME NEW i \in 1 .. L
                 PROVE  /\ nav'[i].route = nav[i].route /\ nav'[i].target = nav[i].target
                        /\ nav'[i].remaining = nav[i].remaining
                        /\ nav'[i].status = IF i = id THEN status ELSE nav[i].status
                        /\ nav'[i].status \in Statuses
      OBVIOUS
    <3>1. nav[i] \in Goal /\ nav[i].status \in Statuses
      BY <1>1 DEF Goal
    <3> QED
      BY <1>1, <1>a, <2>1, <3>1
  <2>3. \A i \in 1 .. L : Finished(i) => i # id
    BY <1>1, <1>3 DEF Finished
  <2> QED
    BY <1>1, <1>3, <1>c, <2>1, <2>2, <2>3 DEF NavKeeps
<1>4. ASSUME NavPass(id) PROVE NavKeeps
  <2>1. nav[id] \in Goal /\ nav[id].remaining > 1
    BY <1>1, <1>4 DEF NavPass
  <2>2. /\ nav' \in [1 .. L -> Goal] /\ nav'[id] = [nav[id] EXCEPT !.remaining = @ - 1]
        /\ \A i \in 1 .. L : i # id => nav'[i] = nav[i]
    <3>1. [nav[id] EXCEPT !.remaining = @ - 1] \in Goal
      BY <2>1, <1>b
    <3>2. nav' = [nav EXCEPT ![id] = [nav[id] EXCEPT !.remaining = @ - 1]]
      BY <1>1, <1>4 DEF NavPass
    <3> QED
      BY <1>1, <3>1, <3>2
  <2>3. \A i \in 1 .. L : /\ nav'[i].route = nav[i].route /\ nav'[i].target = nav[i].target
                          /\ nav'[i].remaining \in 1 .. nav[i].remaining
                          /\ nav'[i].status = nav[i].status /\ nav'[i].status \in Statuses
    <3> SUFFICES ASSUME NEW i \in 1 .. L
                 PROVE  /\ nav'[i].route = nav[i].route /\ nav'[i].target = nav[i].target
                        /\ nav'[i].remaining \in 1 .. nav[i].remaining
                        /\ nav'[i].status = nav[i].status /\ nav'[i].status \in Statuses
      OBVIOUS
    <3>1. nav[i] \in Goal /\ nav[i].status \in Statuses /\ nav[i].remaining \in Nat \ {0}
      BY <1>1 DEF Goal
    <3>2. CASE i = id
      BY <1>b, <2>1, <2>2, <3>1, <3>2
    <3> QED
      BY <2>2, <3>1, <3>2
  <2>4. \A i \in 1 .. L : Finished(i) => i # id
    BY <1>1, <1>4 DEF Finished, NavPass
  <2> QED
    BY <1>1, <1>c, <2>2, <2>3, <2>4 DEF NavKeeps
<1>5. cancelled' = cancelled
  BY DEF NavAnswers, NavDrives, NavEnds, NavStops, NavAccept, NavReject, NavPass, NavSucceed, NavAbort, NavCancel
<1>6. ASSUME NavReject(id) \/ NavSucceed(id) \/ NavAbort(id) \/ NavCancel(id) PROVE NavKeeps
  <2>1. PICK status \in {"rejected", "succeeded", "aborted", "canceled"} :
          /\ nav' = SetStatus(id, status)
          /\ \/ nav[id].status = "requested" /\ status = "rejected"
             \/ nav[id].status = "executing" /\ status # "rejected"
    BY <1>6 DEF NavReject, NavSucceed, NavAbort, NavCancel
  <2> QED
    BY <1>3, <2>1 DEF Statuses
<1> QED
  BY <1>2, <1>4, <1>5, <1>6 DEF NavAnswers, NavDrives, NavEnds, NavStops

\* A goal that is sent is added to those Nav2 has, with a place for each name.
Sent == IF pc = "send" THEN LegNames ELSE Ahead(names)

LEMMA GoalSent ==
  ASSUME MissionInv, SendGoal
  PROVE  /\ nav' \in Seq(Goal) /\ Len(nav') = Len(nav) + 1 /\ request' = Len(nav')
         /\ \A id \in GoalIds : nav'[id] = nav[id]
         /\ GoalIds' = GoalIds \union {request'} /\ request' \notin GoalIds
         /\ nav'[request'] = [status |-> "requested", route |-> Sent,
                              target |-> fresh, remaining |-> Len(fresh)]
         /\ Sent \in Seq(Names) /\ Len(Sent) = Len(fresh) /\ Len(fresh) \in Nat \ {0}
<1>1. nav \in Seq(Goal) /\ leg \in DOMAIN Route /\ names \in Seq(Names) /\ passed \in 0 .. Len(names)
  BY DEF MissionInv, NavInv, TypeOK
<1>2. Sent \in Seq(Names) /\ Len(Sent) = Len(fresh) /\ Len(fresh) \in Nat \ {0} /\ fresh \in Seq(Places)
  <2>1. CASE pc = "send"
    BY <1>1, <2>1, LegNamesType DEF Sent, MissionInv, ControlInv
  <2>2. CASE pc = "resend"
    <3>1. passed < Len(names) /\ fresh \in Seq(Places) /\ Len(fresh) = Len(names) - passed
      BY <2>2 DEF MissionInv, ControlInv, Driving
    <3>2. Ahead(names) \in Seq(Names) /\ Len(Ahead(names)) = Len(names) - passed
      BY <1>1, AheadType
    <3>3. Len(names) \in Nat /\ Sent = Ahead(names)
      BY <1>1, <2>2 DEF Sent
    <3>4. passed \in Int /\ Len(names) - passed \in Nat \ {0}
      BY <1>1, <3>1, <3>3
    <3> QED
      BY <3>1, <3>2, <3>3, <3>4
  <2> QED
    BY <2>1, <2>2 DEF SendGoal
<1> DEFINE goal == [status |-> "requested", route |-> Sent, target |-> fresh, remaining |-> Len(fresh)]
<1>3. goal \in Goal
  BY <1>2 DEF Goal, Statuses
<1>4. nav' = Append(nav, goal) /\ request' = Len(nav) + 1
  BY DEF SendGoal, Sent
<1> HIDE DEF goal
<1>5. /\ nav' \in Seq(Goal) /\ Len(nav') = Len(nav) + 1 /\ request' = Len(nav')
      /\ \A id \in 1 .. Len(nav) : nav'[id] = nav[id]
      /\ nav'[Len(nav) + 1] = goal
  BY <1>1, <1>3, <1>4, AppendProperties
<1> QED
  BY <1>1, <1>2, <1>5 DEF goal, GoalIds

LEMMA MissionInvSendGoal ==
  ASSUME MissionInv, SendGoal
  PROVE  MissionInv'
<1> DEFINE N == Len(nav)
<1>1. N \in Nat /\ GoalIds = 1 .. N /\ GoalIds' = 1 .. N + 1 /\ request' = N + 1
  BY GoalSent DEF MissionInv, NavInv, GoalIds
<1>2. /\ nav'[request'].status = "requested" /\ nav'[request'].route = Sent
      /\ nav'[request'].target = fresh /\ nav'[request'].remaining = Len(fresh)
      /\ Len(Sent) = Len(fresh) /\ Len(fresh) \in Nat \ {0}
      /\ Sent \in Seq(Names) /\ fresh \in Seq(Places)
  BY GoalSent DEF MissionInv, ControlInv, SendGoal
<1>3. /\ pc \in {"send", "resend"}
      /\ pc' = IF pc = "send" THEN "sending" ELSE "resending"
      /\ UNCHANGED <<stop_on_failure, leg, names, goals, passed, fresh, current_handle, result_future, unanswered,
                 endVars, cancelled, visited, glimVars, interrupts>>
      /\ poses_remaining' \in {poses_remaining, None}
  BY DEF SendGoal
<1> HIDE DEF N
<1>4. TypeOK'
  <2>1. /\ \A id \in GoalIds' :
             /\ nav'[id].status \in Statuses
             /\ nav'[id].route \in Seq(Names) /\ nav'[id].target \in Seq(Places)
             /\ nav'[id].remaining \in 1 .. Len(nav'[id].route)
    <3> SUFFICES ASSUME NEW id \in GoalIds'
                 PROVE  /\ nav'[id].status \in Statuses
                        /\ nav'[id].route \in Seq(Names) /\ nav'[id].target \in Seq(Places)
                        /\ nav'[id].remaining \in 1 .. Len(nav'[id].route)
      OBVIOUS
    <3>1. CASE id \in GoalIds
      BY <3>1, GoalSent DEF MissionInv, TypeOK
    <3>2. CASE id = request'
      BY <1>2, <3>2 DEF Statuses
    <3> QED
      BY <1>1, <3>1, <3>2
  <2>2. /\ current_handle' \in MaybeGoal' /\ result_future' \in MaybeGoal' /\ request' \in MaybeGoal'
        /\ unanswered' \subseteq GoalIds' /\ cancelled' \subseteq GoalIds' /\ complained' \subseteq GoalIds'
    BY <1>1, <1>3 DEF MissionInv, TypeOK, MaybeGoal, endVars
  <2> QED
    BY <1>3, <2>1, <2>2 DEF MissionInv, TypeOK, endVars, glimVars
<1>5. NavInv'
  <2>1. nav' \in Seq(Goal) /\ \A id \in GoalIds : nav'[id] = nav[id]
    BY GoalSent
  <2>2. Len(nav'[request'].target) = Len(nav'[request'].route)
        /\ nav'[request'].remaining <= Len(nav'[request'].route)
    BY <1>2
  <2>3. GoalIds' = GoalIds \union {request'}
    BY GoalSent
  <2> QED
    BY <2>1, <2>2, <2>3 DEF MissionInv, NavInv
<1>6. ControlInv'
  <2>1. rc' = rc /\ request' # None
    BY <1>1, <1>3, MissionAssumption DEF endVars
  <2>2. pc = "send" => Sent = LegNames'
    BY <1>3 DEF Sent, LegNames
  <2>3. pc = "resend" => Sent = Ahead(names)'
    BY <1>3 DEF Sent, Ahead
  <2>4. LegNames' = LegNames
    BY <1>3 DEF LegNames
  <2> QED
    BY <1>2, <1>3, <2>1, <2>2, <2>3, <2>4 DEF MissionInv, ControlInv, Driving, Asking, Ending
<1> QED
  BY <1>4, <1>5, <1>6 DEF MissionInv

\* Counting feedback logs waypoints of the goal that is driven.
LEMMA CountPassedType ==
  ASSUME MissionInv, CountPassed
  PROVE  /\ passed' = NowPassed /\ NowPassed \in passed .. Len(names)
         /\ passed < Len(names) => NowPassed < Len(names)
         /\ reached' \in Seq(Names)
<1>1. /\ names \in Seq(Names) /\ passed \in 0 .. Len(names) /\ reached \in Seq(Names)
      /\ poses_remaining \in 1 .. Len(Route) \union {None}
  BY DEF MissionInv, TypeOK
<1>2. /\ NowPassed \in passed .. Len(names)
      /\ passed < Len(names) => NowPassed < Len(names)
  BY <1>1, NowPassedType
<1>3. SubSeq(names, passed + 1, NowPassed) \in Seq(Names)
  <2>1. passed + 1 \in 1 .. Len(names) + 1 /\ NowPassed \in passed + 1 - 1 .. Len(names)
    BY <1>1, <1>2
  <2> QED
    BY <1>1, <2>1, PartOfSeq
<1> QED
  BY <1>1, <1>2, <1>3, ConcatProperties DEF CountPassed

LEMMA MissionInvSend ==
  ASSUME MissionInv, SendAccepted \/ SendRejected \/ SendTimeout
  PROVE  MissionInv'
<1>1. /\ pc \in {"sending", "resending"} /\ request \in GoalIds /\ request # None
      /\ current_handle \in MaybeGoal /\ unanswered \subseteq GoalIds
      /\ reached \in Seq(Names) /\ passed \in 0 .. Len(names)
  BY DEF MissionInv, TypeOK, ControlInv, Asking, MaybeGoal, SendAccepted, SendRejected, SendTimeout
<1>2. CASE SendAccepted
  <2>1. /\ nav[request].route \in Seq(Names) /\ nav[request].target \in Seq(Places)
        /\ Len(nav[request].target) = Len(nav[request].route) /\ Len(nav[request].route) > 0
    <3>1. /\ nav[request].route \in Seq(Names) /\ nav[request].target \in Seq(Places)
          /\ nav[request].remaining \in 1 .. Len(nav[request].route)
      BY <1>1 DEF MissionInv, TypeOK
    <3>2. Len(nav[request].target) = Len(nav[request].route)
      BY <1>1 DEF MissionInv, NavInv
    <3> QED
      BY <3>1, <3>2
  <2>2. /\ pc' = "drive" /\ current_handle' = request /\ result_future' = request /\ request' = None
        /\ names' = nav[request].route /\ goals' = nav[request].target /\ passed' = 0 /\ fresh' = <<>>
        /\ UNCHANGED <<stop_on_failure, leg, poses_remaining, unanswered, endVars, navVars, glimVars>>
    BY <1>2 DEF SendAccepted
  <2>3. TypeOK'
    BY <1>1, <2>1, <2>2 DEF MissionInv, TypeOK, MaybeGoal, GoalIds, endVars, navVars, glimVars
  <2>4. NavInv'
    BY <2>2 DEF MissionInv, NavInv, GoalIds, navVars
  <2>5. ControlInv'
    BY <1>1, <2>1, <2>2 DEF MissionInv, ControlInv, Driving, Asking, Ending, endVars
  <2> QED
    BY <2>3, <2>4, <2>5 DEF MissionInv
<1>3. CASE SendFailed /\ pc = "sending" /\ unanswered' \in {unanswered, unanswered \union {request}}
  <2>1. ToSet(LegNames) \subseteq Names
    BY LegNamesType DEF MissionInv, TypeOK
  <2>2. LegOver(ToSet(LegNames)) /\ request' = None
        /\ UNCHANGED <<names, goals, passed, poses_remaining, current_handle, result_future,
                       reached, complained, navVars, glimVars>>
    BY <1>3 DEF SendFailed
  <2>3. UNCHANGED <<names, goals, poses_remaining, nav, cancelled, visited, glim, complained, result_future>>
    BY <2>2 DEF navVars, glimVars
  <2>4. passed' \in 0 .. Len(names) /\ reached' \in Seq(Names) /\ current_handle' \in MaybeGoal
        /\ unanswered' \subseteq GoalIds
    BY <1>1, <1>3, <2>2
  <2> QED
    BY <1>3, <2>1, <2>2, <2>3, <2>4, LegOverInv DEF Ending
<1>4. CASE SendFailed /\ pc = "resending" /\ unanswered' \in {unanswered, unanswered \union {request}}
  <2>1. /\ pc' = "drive" /\ fresh' = <<>> /\ request' = None
        /\ UNCHANGED <<stop_on_failure, leg, failed, rc, names, goals, passed, poses_remaining,
                       current_handle, result_future, reached, complained, navVars, glimVars>>
    BY <1>4 DEF SendFailed
  <2>2. TypeOK'
    BY <1>1, <1>4, <2>1 DEF MissionInv, TypeOK, MaybeGoal, GoalIds, navVars, glimVars
  <2>3. NavInv'
    BY <2>1 DEF MissionInv, NavInv, GoalIds, navVars
  <2>4. ControlInv'
    BY <1>1, <1>4, <2>1 DEF MissionInv, ControlInv, Driving, Asking, Ending
  <2> QED
    BY <2>2, <2>3, <2>4 DEF MissionInv
<1> QED
  BY <1>1, <1>2, <1>3, <1>4 DEF SendRejected, SendTimeout

LEMMA MissionInvResolve ==
  ASSUME MissionInv, ResolveNext \/ ResolveTimeout
  PROVE  MissionInv'
<1>1. /\ pc = "resolve" /\ leg \in DOMAIN Route /\ fresh \in Seq(Places) /\ Len(fresh) < Len(LegNames)
      /\ glim \in [Names -> Places \union {NotFound}] /\ passed \in 0 .. Len(names)
      /\ current_handle \in MaybeGoal /\ unanswered \subseteq GoalIds /\ reached \in Seq(Names)
      /\ request = None
  BY DEF MissionInv, TypeOK, ControlInv, Asking, ResolveNext, ResolveTimeout
<1>2. LegNames \in Seq(Names) /\ ToSet(LegNames) \subseteq Names
  BY <1>1, LegNamesType
<1>3. CASE ResolveNext
  <2> DEFINE place == glim[LegNames[Len(fresh) + 1]]
  <2>1. place \in Places
    BY <1>1, <1>2, <1>3 DEF ResolveNext
  <2>2. /\ fresh' = Append(fresh, place)
        /\ pc' = IF Len(fresh') = Len(LegNames) THEN "send" ELSE "resolve"
        /\ UNCHANGED <<stop_on_failure, leg, names, goals, passed, poses_remaining,
                       trackVars, endVars, navVars, glimVars, interrupts>>
    BY <1>3 DEF ResolveNext
  <2> HIDE DEF place
  <2>3. fresh' \in Seq(Places) /\ Len(fresh') = Len(fresh) + 1
    BY <1>1, <2>1, <2>2, AppendProperties
  <2>4. fresh' \in Seq(Places \union {NotFound})
    BY <2>3
  <2>5. TypeOK'
    BY <2>2, <2>4 DEF MissionInv, TypeOK, MaybeGoal, GoalIds, trackVars, endVars, navVars, glimVars
  <2>6. NavInv'
    BY <2>2 DEF MissionInv, NavInv, GoalIds, navVars
  <2>7. LegNames' = LegNames /\ Len(LegNames) \in Nat /\ Len(fresh) \in Nat
    BY <1>1, <1>2, <2>2 DEF LegNames
  <2>8. ControlInv'
    BY <1>1, <2>2, <2>3, <2>7 DEF MissionInv, ControlInv, Driving, Asking, Ending, trackVars, endVars
  <2> QED
    BY <2>5, <2>6, <2>8 DEF MissionInv
<1>4. CASE ResolveTimeout
  <2>1. LegOver(ToSet(LegNames))
        /\ UNCHANGED <<names, goals, passed, poses_remaining,
                       trackVars, reached, complained, navVars, glimVars, interrupts>>
    BY <1>4 DEF ResolveTimeout
  <2>2. UNCHANGED <<names, goals, poses_remaining, nav, cancelled, visited, glim, complained, result_future>>
    BY <2>1 DEF navVars, glimVars, trackVars
  <2>3. passed' \in 0 .. Len(names) /\ reached' \in Seq(Names) /\ current_handle' \in MaybeGoal
        /\ unanswered' \subseteq GoalIds /\ request' = None
    BY <1>1, <2>1 DEF trackVars
  <2> QED
    BY <1>1, <1>2, <2>1, <2>2, <2>3, LegOverInv DEF Ending
<1> QED
  BY <1>3, <1>4

LEMMA MissionInvDrive ==
  ASSUME MissionInv, CountFeedback \/ RefreshBegin \/ ResultArrived
  PROVE  MissionInv'
<1>1. /\ pc = "drive" /\ passed < Len(names) /\ request = None /\ names \in Seq(Names)
      /\ passed \in 0 .. Len(names) /\ reached \in Seq(Names) /\ unanswered \subseteq GoalIds
      /\ poses_remaining \in 1 .. Len(Route) \union {None}
      /\ Len(names) \in Nat
  BY DEF MissionInv, TypeOK, ControlInv, Driving, Asking, CountFeedback, RefreshBegin, ResultArrived
<1>2. NowPassed \in passed .. Len(names)
  BY <1>1, NowPassedType
<1>3. CASE CountFeedback
  <2>1. /\ passed' \in 0 .. Len(names) /\ passed' < Len(names) /\ reached' \in Seq(Names)
        /\ UNCHANGED <<pc, stop_on_failure, leg, names, goals, poses_remaining, fresh, trackVars,
                       failed, rc, complained, navVars, glimVars, interrupts>>
    BY <1>1, <1>3, CountPassedType DEF CountFeedback
  <2>2. TypeOK'
    BY <2>1 DEF MissionInv, TypeOK, MaybeGoal, GoalIds, trackVars, navVars, glimVars
  <2>3. NavInv'
    BY <2>1 DEF MissionInv, NavInv, GoalIds, navVars
  <2>4. ControlInv'
    BY <1>1, <2>1 DEF MissionInv, ControlInv, Driving, Asking, Ending, trackVars
  <2> QED
    BY <2>2, <2>3, <2>4 DEF MissionInv
<1>4. CASE RefreshBegin
  <2>1. /\ passed' \in 0 .. Len(names) /\ passed' < Len(names) /\ reached' \in Seq(Names)
        /\ fresh' = <<>> /\ pc' = "refresh"
        /\ UNCHANGED <<stop_on_failure, leg, names, goals, poses_remaining, trackVars,
                       failed, rc, complained, navVars, glimVars, interrupts>>
    BY <1>1, <1>4, CountPassedType DEF RefreshBegin
  <2>2. TypeOK'
    BY <2>1 DEF MissionInv, TypeOK, MaybeGoal, GoalIds, trackVars, navVars, glimVars
  <2>3. NavInv'
    BY <2>1 DEF MissionInv, NavInv, GoalIds, navVars
  <2>4. 0 < Len(names) - passed'
    BY <1>1, <2>1
  <2>5. ControlInv'
    BY <1>1, <2>1, <2>4 DEF MissionInv, ControlInv, Driving, Asking, Ending, trackVars
  <2> QED
    BY <2>2, <2>3, <2>5 DEF MissionInv
<1>5. CASE ResultArrived
  <2>1. /\ SubSeq(names, NowPassed + 1, Len(names)) \in Seq(Names)
        /\ ToSet(SubSeq(names, NowPassed + 1, Len(names))) \subseteq Names
        /\ SubSeq(names, passed + 1, NowPassed) \in Seq(Names)
        /\ Ahead(names) \in Seq(Names)
    <3>1. /\ NowPassed + 1 \in 1 .. Len(names) + 1 /\ Len(names) \in NowPassed + 1 - 1 .. Len(names)
          /\ passed + 1 \in 1 .. Len(names) + 1 /\ NowPassed \in passed + 1 - 1 .. Len(names)
      BY <1>1, <1>2
    <3>2. /\ SubSeq(names, NowPassed + 1, Len(names)) \in Seq(Names)
          /\ SubSeq(names, passed + 1, NowPassed) \in Seq(Names)
      BY <1>1, <3>1, PartOfSeq
    <3>3. ToSet(SubSeq(names, NowPassed + 1, Len(names))) \subseteq Names
      BY <3>2, ToSetType
    <3> QED
      BY <1>1, <3>2, <3>3, AheadType
  <2>2. PICK missed \in SUBSET Names :
          /\ LegOver(missed)
          /\ reached' \in {reached \o Ahead(names), reached \o SubSeq(names, passed + 1, NowPassed)}
    BY <1>5, <2>1 DEF ResultArrived
  <2>3. reached' \in Seq(Names)
    <3>1. reached \o Ahead(names) \in Seq(Names)
      BY <1>1, <2>1, ConcatProperties
    <3>2. reached \o SubSeq(names, passed + 1, NowPassed) \in Seq(Names)
      BY <1>1, <2>1, ConcatProperties
    <3> QED
      BY <2>2, <3>1, <3>2
  <2>4. passed' \in 0 .. Len(names) /\ current_handle' \in MaybeGoal
        /\ unanswered' \subseteq GoalIds /\ request' = None
    BY <1>1, <1>2, <1>5 DEF ResultArrived, MaybeGoal
  <2>5. UNCHANGED <<names, goals, poses_remaining, nav, cancelled, visited, glim, complained, result_future>>
    BY <1>5 DEF ResultArrived, navVars, glimVars
  <2> QED
    BY <1>1, <2>2, <2>3, <2>4, <2>5, LegOverInv DEF Ending
<1> QED
  BY <1>3, <1>4, <1>5

LEMMA MissionInvRefresh ==
  ASSUME MissionInv, NEW place \in Places \union {NotFound}, RefreshResolve(place)
  PROVE  MissionInv'
<1>1. /\ pc = "refresh" /\ fresh \in Seq(Places \union {NotFound}) /\ Len(fresh) < Len(names) - passed
      /\ names \in Seq(Names) /\ passed \in 0 .. Len(names) /\ passed < Len(names)
      /\ pc' = IF Len(fresh') < Len(Ahead(names)) THEN "refresh"
               ELSE IF Moved(fresh') THEN "resend" ELSE "drive"
      /\ fresh' = Append(fresh, place)
      /\ UNCHANGED <<stop_on_failure, leg, names, goals, passed, poses_remaining,
                     trackVars, endVars, navVars, glimVars, interrupts>>
  BY DEF MissionInv, TypeOK, ControlInv, Driving, RefreshResolve
<1>2. fresh' \in Seq(Places \union {NotFound}) /\ Len(fresh') = Len(fresh) + 1 /\ Len(fresh) \in Nat
  BY <1>1, AppendProperties
<1>3. Len(Ahead(names)) = Len(names) - passed /\ Len(names) \in Nat /\ passed \in Nat
  BY <1>1, AheadType
<1>4. Moved(fresh') => fresh' \in Seq(Places)
  <2> SUFFICES ASSUME NotFound \notin ToSet(fresh') PROVE fresh' \in Seq(Places)
    BY DEF Moved
  <2>1. \A i \in 1 .. Len(fresh') : fresh'[i] \in Places
    BY <1>2 DEF ToSet
  <2> QED
    BY <1>2, <2>1
<1>5. TypeOK'
  BY <1>1, <1>2 DEF MissionInv, TypeOK, MaybeGoal, GoalIds, trackVars, endVars, navVars, glimVars
<1>6. NavInv'
  BY <1>1 DEF MissionInv, NavInv, GoalIds, navVars
<1>7. /\ pc' = "refresh" => Len(fresh') < Len(names') - passed'
      /\ pc' = "resend" => fresh' \in Seq(Places) /\ Len(fresh') = Len(names') - passed'
  BY <1>1, <1>2, <1>3, <1>4
<1>8. ControlInv'
  BY <1>1, <1>7 DEF MissionInv, ControlInv, Driving, Asking, Ending, trackVars, endVars
<1> QED
  BY <1>5, <1>6, <1>8 DEF MissionInv

LEMMA MissionInvEnd ==
  ASSUME MissionInv, \/ \E id \in GoalIds : CancelLateGoal(id)
                     \/ CancelCurrent \/ Exit \/ Interrupt
  PROVE  MissionInv'
<1>1. /\ UNCHANGED <<missionVars, current_handle, result_future, failed, reached, nav, visited, glimVars>>
      /\ unanswered' \subseteq unanswered /\ cancelled' \subseteq cancelled \union GoalIds
      /\ complained' \in {complained, unanswered}
      /\ \/ pc' = pc /\ request' = request /\ rc' = rc /\ pc \in {"drive", "late"}
         \/ pc = "cleanup" /\ pc' = "late" /\ request' = request /\ rc' = rc
         \/ pc = "late" /\ pc' = "exited" /\ request' = request /\ rc' = rc
         \/ pc' \in {"cleanup", "exited"} /\ request' = None /\ rc' \in {1, 130}
  <2>1. CASE \E id \in GoalIds : CancelLateGoal(id)
    BY <2>1 DEF CancelLateGoal, missionVars, endVars
  <2>2. CASE CancelCurrent
    BY <2>2 DEF CancelCurrent, trackVars, endVars, MissionInv, TypeOK, MaybeGoal
  <2>3. CASE Exit
    BY <2>3 DEF Exit, trackVars, navVars
  <2>4. CASE Interrupt
    BY <2>4 DEF Interrupt, navVars
  <2> QED
    BY <2>1, <2>2, <2>3, <2>4
<1>2. TypeOK'
  BY <1>1 DEF MissionInv, TypeOK, MaybeGoal, GoalIds, missionVars, glimVars
<1>3. NavInv'
  BY <1>1 DEF MissionInv, NavInv, GoalIds
<1>4. ControlInv'
  BY <1>1, MissionAssumption DEF MissionInv, ControlInv, Driving, Asking, Ending, missionVars
<1> QED
  BY <1>2, <1>3, <1>4 DEF MissionInv

LEMMA MissionInvEnvironment ==
  ASSUME MissionInv,
         \/ NavKeeps /\ cancelled' = cancelled /\ visited' \subseteq Names /\ ScriptUnchanged /\ UNCHANGED glimVars
         \/ \E id \in GoalIds, remaining \in 1 .. Len(Route) : Feedback(id, remaining)
         \/ \E name \in Names, place \in Places :
              ScriptUnchanged /\ UNCHANGED navVars /\ GlimMoves(name, place)
  PROVE  MissionInv'
<1>1. CASE NavKeeps /\ cancelled' = cancelled /\ visited' \subseteq Names /\ ScriptUnchanged /\ UNCHANGED glimVars
  <2>1. GoalIds' = GoalIds /\ nav' \in Seq(Goal)
    BY <1>1 DEF NavKeeps, GoalIds
  <2>2. \A id \in GoalIds : /\ nav'[id].status \in Statuses
                            /\ nav'[id].route = nav[id].route /\ nav'[id].target = nav[id].target
                            /\ nav'[id].remaining \in 1 .. nav[id].remaining
    BY <1>1 DEF NavKeeps
  <2>3. \A id \in GoalIds : /\ nav[id].route \in Seq(Names) /\ nav[id].target \in Seq(Places)
                            /\ nav[id].remaining \in 1 .. Len(nav[id].route)
    BY DEF MissionInv, TypeOK
  <2>4. \A id \in GoalIds : nav'[id].remaining \in 1 .. Len(nav'[id].route)
    BY <2>2, <2>3
  <2>5. TypeOK'
    <3>1. \A id \in GoalIds' :
             /\ nav'[id].status \in Statuses
             /\ nav'[id].route \in Seq(Names) /\ nav'[id].target \in Seq(Places)
             /\ nav'[id].remaining \in 1 .. Len(nav'[id].route)
      <4> HIDE DEF Statuses
      <4> QED
        BY <2>1, <2>2, <2>3, <2>4
    <3>2. /\ UNCHANGED <<pc, missionVars, trackVars, endVars, cancelled, glim>>
          /\ MaybeGoal' = MaybeGoal /\ visited' \subseteq Names
      BY <1>1, <2>1 DEF ScriptUnchanged, glimVars, MaybeGoal
    <3> QED
      BY <2>1, <3>1, <3>2 DEF MissionInv, TypeOK, missionVars, trackVars, endVars
  <2>6. NavInv'
    <3>1. \A id \in GoalIds : Len(nav'[id].target) = Len(nav'[id].route)
      BY <2>2 DEF MissionInv, NavInv
    <3>2. \A id \in GoalIds : nav'[id].remaining <= Len(nav'[id].route)
      BY <2>2, <2>3, <2>4
    <3> QED
      BY <2>1, <3>1, <3>2 DEF NavInv
  <2>7. ControlInv'
    <3>1. request # None => nav'[request].route = nav[request].route
      BY <2>2 DEF MissionInv, TypeOK, MaybeGoal
    <3>2. LegNames' = LegNames /\ Ahead(names)' = Ahead(names)
      BY <1>1 DEF LegNames, Ahead, ScriptUnchanged, missionVars
    <3> QED
      BY <1>1, <3>1, <3>2 DEF MissionInv, ControlInv, Asking, ScriptUnchanged, missionVars, trackVars, endVars
  <2> QED
    BY <2>5, <2>6, <2>7 DEF MissionInv
<1>2. CASE \E id \in GoalIds, remaining \in 1 .. Len(Route) : Feedback(id, remaining)
  <2>1. /\ poses_remaining' \in 1 .. Len(Route)
        /\ UNCHANGED <<pc, stop_on_failure, leg, names, goals, passed, fresh,
                       trackVars, endVars, navVars, glimVars, interrupts>>
    BY <1>2 DEF Feedback
  <2>2. TypeOK'
    BY <2>1 DEF MissionInv, TypeOK, MaybeGoal, GoalIds, trackVars, endVars, navVars, glimVars
  <2>3. NavInv' /\ ControlInv'
    BY <2>1 DEF MissionInv, NavInv, ControlInv, GoalIds, LegNames, Ahead, trackVars, endVars, navVars
  <2> QED
    BY <2>2, <2>3 DEF MissionInv
<1>3. CASE \E name \in Names, place \in Places :
              ScriptUnchanged /\ UNCHANGED navVars /\ GlimMoves(name, place)
  <2>1. glim' \in [Names -> Places \union {NotFound}] /\ ScriptUnchanged /\ UNCHANGED navVars
    BY <1>3 DEF GlimMoves, MissionInv, TypeOK
  <2>2. TypeOK'
    BY <2>1 DEF MissionInv, TypeOK, MaybeGoal, GoalIds, ScriptUnchanged, missionVars, trackVars, endVars, navVars
  <2>3. NavInv' /\ ControlInv'
    BY <2>1 DEF MissionInv, NavInv, ControlInv, GoalIds, LegNames, Ahead,
                ScriptUnchanged, missionVars, trackVars, endVars, navVars
  <2> QED
    BY <2>2, <2>3 DEF MissionInv
<1> QED
  BY <1>1, <1>2, <1>3

\* What a goal has left to drive is the end of its route.
LEMMA ToDriveType ==
  ASSUME MissionInv, NEW id \in GoalIds
  PROVE  LET n == Len(nav[id].route)
             r == nav[id].remaining
         IN  /\ n \in Nat /\ r \in 1 .. n
             /\ ToSet(ToDrive(id)) = {nav[id].route[i] : i \in n - r + 1 .. n}
             /\ Head(ToDrive(id)) = nav[id].route[n - r + 1]
             /\ ToSet(ToDrive(id)) \subseteq Names /\ Head(ToDrive(id)) \in Names
<1> DEFINE route == nav[id].route
           n == Len(route)
           r == nav[id].remaining
<1>1. route \in Seq(Names) /\ r \in 1 .. n
  BY DEF MissionInv, TypeOK
<1>2. ToDrive(id) = SubSeq(route, n - r + 1, n)
  BY DEF ToDrive
<1> HIDE DEF route, r
<1>3. n - r + 1 \in 1 .. n + 1 /\ n \in (n - r + 1) - 1 .. n /\ n - r + 1 \in 1 .. n /\ n \in n - r + 1 .. n
  BY <1>1
<1>4. ToSet(ToDrive(id)) = {route[i] : i \in n - r + 1 .. n}
  <2>1. ToSet(SubSeq(route, n - r + 1, n)) = {route[i] : i \in n - r + 1 .. n}
    <3> DEFINE a == n - r + 1
    <3>1. a \in 1 .. Len(route) + 1 /\ n \in a - 1 .. Len(route)
      BY <1>1, <1>3
    <3> HIDE DEF a
    <3>2. ToSet(SubSeq(route, a, n)) = {route[i] : i \in a .. n}
      BY <1>1, <3>1, PartOfSeq
    <3> QED
      BY <3>2 DEF a
  <2> QED
    BY <1>2, <2>1
<1>5. Head(ToDrive(id)) = route[n - r + 1]
  BY <1>1, <1>2, <1>3, HeadTailOfSubSeq
<1>6. \A i \in n - r + 1 .. n : route[i] \in Names
  BY <1>1, <1>3
<1> QED
  BY <1>1, <1>3, <1>4, <1>5, <1>6 DEF route, r

\* The rover only adds to what it has visited.
LEMMA NavVisits ==
  ASSUME MissionInv, NEW id \in GoalIds,
         NavAnswers(id) \/ NavDrives(id) \/ NavEnds(id) \/ NavStops(id)
  PROVE  visited \subseteq visited' /\ visited' \subseteq Names
<1>1. visited' \subseteq visited \union ToSet(ToDrive(id)) \union {Head(ToDrive(id))} /\ visited \subseteq visited'
  BY DEF NavAnswers, NavDrives, NavEnds, NavStops, NavAccept, NavReject, NavPass, NavSucceed, NavAbort, NavCancel
<1>2. ToSet(ToDrive(id)) \subseteq Names /\ Head(ToDrive(id)) \in Names
  BY ToDriveType
<1> QED
  BY <1>1, <1>2 DEF MissionInv, TypeOK

\* A step of Nav2 or GLIM, or a message of theirs to the script.
EnvironmentStep ==
  \/ \E id \in GoalIds : NavAnswers(id) \/ NavDrives(id) \/ NavEnds(id) \/ NavStops(id)
  \/ \E id \in GoalIds, remaining \in 1 .. Len(Route) : Feedback(id, remaining)
  \/ \E name \in Names, place \in Places : ScriptUnchanged /\ UNCHANGED navVars /\ GlimMoves(name, place)

\* Every step keeps the types and the control.
LEMMA MissionInvStep == MissionInv /\ [Next]_vars => MissionInv'
<1> SUFFICES ASSUME MissionInv, [Next]_vars PROVE MissionInv'
  OBVIOUS
<1>1. CASE ResolveNext \/ ResolveTimeout
  BY <1>1, MissionInvResolve
<1>2. CASE SendGoal
  BY <1>2, MissionInvSendGoal
<1>3. CASE SendAccepted \/ SendRejected \/ SendTimeout
  BY <1>3, MissionInvSend
<1>4. CASE CountFeedback \/ RefreshBegin \/ ResultArrived
  BY <1>4, MissionInvDrive
<1>5. CASE \E place \in Places \union {NotFound} : RefreshResolve(place)
  BY <1>5, MissionInvRefresh
<1>6. CASE (\E id \in GoalIds : CancelLateGoal(id)) \/ CancelCurrent \/ Exit \/ Interrupt
  BY <1>6, MissionInvEnd
<1>7. CASE EnvironmentStep
  <2>1. CASE \E id \in GoalIds : NavAnswers(id) \/ NavDrives(id) \/ NavEnds(id) \/ NavStops(id)
    <3>1. PICK id \in GoalIds : NavAnswers(id) \/ NavDrives(id) \/ NavEnds(id) \/ NavStops(id)
      BY <2>1
    <3>2. NavKeeps /\ cancelled' = cancelled
      BY <3>1, NavMoves
    <3>3. visited' \subseteq Names
      BY <3>1, NavVisits
    <3>4. ScriptUnchanged /\ UNCHANGED glimVars
      BY <3>1 DEF NavAnswers, NavDrives, NavEnds, NavStops
    <3> QED
      BY <3>2, <3>3, <3>4, MissionInvEnvironment
  <2> QED
    BY <1>7, <2>1, MissionInvEnvironment DEF EnvironmentStep
<1>8. CASE UNCHANGED vars
  BY <1>8 DEF vars, missionVars, trackVars, endVars, navVars, glimVars, MissionInv, TypeOK, NavInv, ControlInv,
              GoalIds, MaybeGoal, LegNames, Ahead
<1> QED
  BY <1>1, <1>2, <1>3, <1>4, <1>5, <1>6, <1>7, <1>8 DEF Next, Script, EnvironmentStep

\* The variables of the mission have their types, and at each of its waits the
\* script knows how far it is: there is always a waypoint ahead while it drives,
\* and a request exactly while it waits for an answer.
THEOREM MissionTypes == Spec => []MissionInv
  BY MissionInvInit, MissionInvStep, PTL DEF Spec

-----------------------------------------------------------------------------
(***************************************************************************)
(* The books of the script.                                                *)
(***************************************************************************)

\* What Nav2 does to the goals, seen from a step of anybody.
LEMMA NavOnlyAnswersAndDrives ==
  ASSUME MissionInv, EnvironmentStep
  PROVE  /\ NavKeeps
         /\ UNCHANGED <<pc, stop_on_failure, leg, names, goals, passed, fresh, trackVars, endVars, cancelled, interrupts>>
         /\ visited \subseteq visited'
<1>1. CASE \E id \in GoalIds : NavAnswers(id) \/ NavDrives(id) \/ NavEnds(id) \/ NavStops(id)
  <2>1. PICK id \in GoalIds : NavAnswers(id) \/ NavDrives(id) \/ NavEnds(id) \/ NavStops(id)
    BY <1>1
  <2>2. NavKeeps /\ cancelled' = cancelled /\ visited \subseteq visited'
    BY <2>1, NavMoves, NavVisits
  <2>3. ScriptUnchanged
    BY <2>1 DEF NavAnswers, NavDrives, NavEnds, NavStops
  <2> QED
    BY <2>2, <2>3 DEF ScriptUnchanged, missionVars
<1>2. CASE UNCHANGED navVars
  <2>1. NavKeeps
    <3>1. \A id \in GoalIds : nav[id].status \in Statuses /\ nav[id].remaining \in 1 .. nav[id].remaining
      BY DEF MissionInv, TypeOK
    <3> QED
      BY <1>2, <3>1 DEF NavKeeps, navVars, MissionInv, NavInv
  <2>2. UNCHANGED <<pc, stop_on_failure, leg, names, goals, passed, fresh, trackVars, endVars, interrupts>>
    BY <1>2 DEF EnvironmentStep, Feedback, ScriptUnchanged, missionVars, NavAnswers, NavDrives, NavEnds, NavStops
  <2> QED
    BY <1>2, <2>1, <2>2 DEF navVars
<1> QED
  BY <1>1, <1>2 DEF EnvironmentStep, Feedback

\* A goal that was accepted stays accepted, on the route it was sent with.
LEMMA AcceptedStays ==
  ASSUME NavKeeps, NEW id \in GoalIds, Accepted(id)
  PROVE  nav'[id].status \notin {"requested", "rejected"}
         /\ nav'[id].route = nav[id].route /\ nav'[id].target = nav[id].target
  BY DEF NavKeeps, Accepted

LEMMA BooksStep == MissionInv /\ BooksMatchNav /\ [Next]_vars => BooksMatchNav'
<1> SUFFICES ASSUME MissionInv, BooksMatchNav, [Next]_vars,
                    pc' \in {"drive", "refresh", "resend", "resending"}
             PROVE  /\ current_handle' = result_future'
                    /\ nav'[result_future'].status \notin {"requested", "rejected"}
                    /\ nav'[result_future'].route = names'
                    /\ nav'[result_future'].target = goals'
  BY DEF BooksMatchNav, Accepted
<1> USE DEF Accepted
<1>1. pc \in Driving => result_future \in GoalIds
  BY DEF MissionInv, TypeOK, ControlInv, MaybeGoal
<1>2. CASE ResolveNext \/ ResolveTimeout
  BY <1>2, LegOverEffect, LegNamesType DEF ResolveNext, ResolveTimeout, MissionInv, TypeOK, LegOver
<1>3. CASE SendGoal
  <2>1. pc = "resend" /\ UNCHANGED <<names, goals, current_handle, result_future>>
    BY <1>3 DEF SendGoal
  <2>2. nav'[result_future] = nav[result_future]
    BY <1>1, <1>3, <2>1, GoalSent DEF Driving
  <2> QED
    BY <2>1, <2>2 DEF BooksMatchNav
<1>4. CASE SendAccepted
  BY <1>4 DEF SendAccepted, navVars
<1>5. CASE SendRejected \/ SendTimeout
  <2>1. CASE pc = "sending"
    BY <1>5, <2>1 DEF SendRejected, SendTimeout, SendFailed, LegOver
  <2>2. CASE pc = "resending"
    BY <1>5, <2>2 DEF SendRejected, SendTimeout, SendFailed, BooksMatchNav, navVars
  <2> QED
    BY <1>5, <2>1, <2>2 DEF SendRejected, SendTimeout
<1>6. CASE CountFeedback \/ RefreshBegin
  BY <1>6 DEF CountFeedback, RefreshBegin, BooksMatchNav, trackVars, navVars
<1>7. CASE ResultArrived
  BY <1>7 DEF ResultArrived, LegOver
<1>8. CASE \E place \in Places \union {NotFound} : RefreshResolve(place)
  BY <1>8 DEF RefreshResolve, BooksMatchNav, trackVars, navVars
<1>9. CASE (\E id \in GoalIds : CancelLateGoal(id)) \/ CancelCurrent \/ Exit \/ Interrupt
  BY <1>9 DEF CancelLateGoal, CancelCurrent, Exit, Interrupt, BooksMatchNav, missionVars
<1>10. CASE EnvironmentStep
  <2>1. NavKeeps /\ UNCHANGED <<pc, names, goals, current_handle, result_future>>
    BY <1>10, NavOnlyAnswersAndDrives DEF trackVars
  <2> QED
    BY <1>1, <2>1, AcceptedStays DEF BooksMatchNav, Driving
<1>11. CASE UNCHANGED vars
  BY <1>11 DEF vars, missionVars, trackVars, navVars, BooksMatchNav
<1> QED
  BY <1>2, <1>3, <1>4, <1>5, <1>6, <1>7, <1>8, <1>9, <1>10, <1>11 DEF Next, Script, EnvironmentStep

\* In every mission the goal whose result the loop awaits is the one cleanup
\* would cancel, and Nav2 drives it through the names and to the places the
\* script counts with, also after re-sends that were refused or came late.
THEOREM BooksAreNav2s == Spec => []BooksMatchNav
<1>1. Init => BooksMatchNav
  BY DEF Init, BooksMatchNav
<1> QED
  BY <1>1, BooksStep, MissionTypes, PTL DEF Spec

\* Small corrections do not add up: what a refresh does not re-send is within
\* the threshold of the place Nav2 drives to, for every threshold and any number
\* of loop closures.
LEMMA RefreshKeepsThreshold ==
  MissionInv /\ BooksMatchNav /\ [Next]_vars =>
    [(pc = "refresh" /\ pc' = "drive" /\ NotFound \notin ToSet(fresh'))
       => \A i \in DOMAIN fresh' :
            Distance(fresh'[i], nav[result_future].target[passed + i]) <= Threshold]_vars
<1> SUFFICES ASSUME MissionInv, BooksMatchNav, Next, pc = "refresh", pc' = "drive",
                    NotFound \notin ToSet(fresh'), NEW i \in DOMAIN fresh'
             PROVE  Distance(fresh'[i], nav[result_future].target[passed + i]) <= Threshold
  BY DEF vars
<1>1. PICK place \in Places \union {NotFound} : RefreshResolve(place)
  <2>1. ~ EnvironmentStep
    BY NavOnlyAnswersAndDrives
  <2> QED
    BY <2>1 DEF Next, EnvironmentStep, Script, ResolveNext, ResolveTimeout, SendGoal, SendAccepted, SendRejected,
       SendTimeout, CancelLateGoal, CountFeedback, ResultArrived, RefreshBegin, CancelCurrent, Exit, Interrupt
<1>2. /\ goals \in Seq(Places) /\ passed \in Nat /\ passed < Len(goals) /\ Len(goals) \in Nat
      /\ fresh \in Seq(Places \union {NotFound}) /\ Len(fresh) < Len(goals) - passed
  BY DEF MissionInv, TypeOK, ControlInv, Driving
<1>3. fresh' = Append(fresh, place) /\ ~ Moved(fresh')
  <2>1. ~ (Len(fresh') < Len(Ahead(names)))
    BY <1>1 DEF RefreshResolve
  <2> QED
    BY <1>1, <2>1 DEF RefreshResolve
<1>4. fresh' \in Seq(Places \union {NotFound}) /\ Len(fresh') = Len(fresh) + 1
  BY <1>2, <1>3, AppendProperties
<1>5. fresh'[i] \in Int /\ i \in 1 .. Len(goals) - passed
  <2>1. fresh'[i] \in Places
    BY <1>4 DEF ToSet
  <2>2. i \in 1 .. Len(fresh) + 1
    BY <1>4
  <2>3. Len(fresh) \in Nat
    BY <1>2
  <2>4. i \in 1 .. Len(goals) - passed
    BY <1>2, <2>2, <2>3
  <2> QED
    BY <2>1, <2>4, MissionAssumption
<1>6. Ahead(goals)[i] = goals[passed + i] /\ goals[passed + i] \in Int
  <2>1. passed + 1 \in 1 .. Len(goals) + 1 /\ Len(goals) \in (passed + 1) - 1 .. Len(goals)
    BY <1>2
  <2>2. \A k \in 1 .. Len(goals) - (passed + 1) + 1 : Ahead(goals)[k] = goals[passed + 1 + k - 1]
    BY <1>2, <2>1, PartOfSeq DEF Ahead
  <2>3. Ahead(goals)[i] = goals[passed + i]
    BY <1>2, <1>5, <2>2
  <2>4. passed + i \in 1 .. Len(goals)
    BY <1>2, <1>5
  <2>5. goals[passed + i] \in Places
    BY <1>2, <2>4
  <2> QED
    BY <2>3, <2>5, MissionAssumption
<1>7. Distance(fresh'[i], Ahead(goals)[i]) \in Int
  BY <1>5, <1>6 DEF Distance
<1>8. ~ (Distance(fresh'[i], Ahead(goals)[i]) > Threshold)
  BY <1>3 DEF Moved
<1>9. nav[result_future].target = goals
  BY DEF BooksMatchNav
<1> QED
  BY <1>6, <1>7, <1>8, <1>9, MissionAssumption

THEOREM DriftIsBounded == Spec => DriftStaysBelowThreshold
  BY RefreshKeepsThreshold, MissionTypes, BooksAreNav2s, PTL DEF Spec, DriftStaysBelowThreshold

-----------------------------------------------------------------------------
(***************************************************************************)
(* The goals.                                                              *)
(***************************************************************************)

\* Where Ctrl+C may arrive: not while a request waits for its answer (what such
\* an interrupt loses is shown by TLC), and not in the wait of cleanup.
NoInterruptAsking == InterruptAt \intersect Asking = {}
NoInterruptLate   == "late" \notin InterruptAt

\* The goals the script can still reach, or has told of.
InReach == {current_handle, request} \union unanswered \union cancelled \union complained

\* A script that leaves Nav2's goals alone keeps track of them if it lets go of
\* none that is alive.
LEMMA StillTracked ==
  ASSUME LiveGoalsTracked, nav' = nav,
         \A id \in GoalIds : Live(id) /\ id \in InReach => id \in InReach'
  PROVE  LiveGoalsTracked'
  BY DEF LiveGoalsTracked, Live, GoalIds, InReach

\* What the end of a leg leaves alone.
LEMMA GoalsStepLegOver ==
  ASSUME MissionInv, GoalsInv, NEW missed, LegOver(missed), nav' = nav, request' = None, pc # "exited",
         complained' = complained, cancelled' = cancelled,
         current_handle' \in {current_handle, None},
         \A id \in GoalIds : Live(id) /\ id \in InReach => id \in InReach'
  PROVE  GoalsInv'
<1>1. pc' \in {"resolve", "cleanup"}
  BY DEF LegOver
<1>2. LiveGoalsTracked'
  BY StillTracked DEF GoalsInv
<1> QED
  BY <1>1, <1>2 DEF GoalsInv, Asking, Accepted

LEMMA GoalsStep ==
  NoInterruptAsking /\ MissionInv /\ BooksMatchNav /\ GoalsInv /\ [Next]_vars => GoalsInv'
<1> SUFFICES ASSUME NoInterruptAsking, MissionInv, BooksMatchNav, GoalsInv, [Next]_vars PROVE GoalsInv'
  OBVIOUS
<1>1. /\ request # None <=> pc \in Asking
      /\ request \in MaybeGoal /\ current_handle \in MaybeGoal
      /\ LiveGoalsTracked /\ \A id \in GoalIds : Live(id) => id \in InReach
      /\ None \notin GoalIds
  BY MissionAssumption DEF MissionInv, ControlInv, TypeOK, GoalsInv, InReach, LiveGoalsTracked, NavInv, GoalIds
<1>2. CASE ResolveNext
  BY <1>2 DEF ResolveNext, GoalsInv, LiveGoalsTracked, Live, Accepted, GoalIds, Asking, trackVars, endVars, navVars
<1>3. CASE ResolveTimeout
  <2>1. \A id \in GoalIds : id \in InReach => id \in InReach'
    BY <1>3 DEF ResolveTimeout, InReach, trackVars, navVars
  <2>2. request' = None
    BY <1>1, <1>3 DEF ResolveTimeout, trackVars, Asking
  <2> QED
    BY <1>3, <2>1, <2>2, GoalsStepLegOver DEF ResolveTimeout, trackVars, navVars
<1>4. CASE SendGoal
  <2>1. /\ GoalIds' = GoalIds \union {request'} /\ request' \notin GoalIds
        /\ \A id \in GoalIds : nav'[id] = nav[id]
        /\ nav'[request'].status = "requested"
        /\ UNCHANGED <<current_handle, unanswered, cancelled, complained>> /\ pc \notin Asking /\ pc' # "exited"
        /\ pc # "exited"
    <3>1. /\ GoalIds' = GoalIds \union {request'} /\ request' \notin GoalIds
          /\ \A id \in GoalIds : nav'[id] = nav[id]
      BY <1>4, GoalSent
    <3>2. nav'[request'].status = "requested"
      BY <1>4, GoalSent
    <3>3. /\ UNCHANGED <<current_handle, unanswered, cancelled, complained>> /\ pc \notin Asking /\ pc' # "exited"
          /\ pc # "exited"
      BY <1>4 DEF SendGoal, endVars, Asking
    <3> QED
      BY <3>1, <3>2, <3>3
  <2>2. LiveGoalsTracked'
    BY <1>1, <2>1 DEF LiveGoalsTracked, Live, InReach
  <2> QED
    BY <1>1, <2>1, <2>2 DEF GoalsInv, Accepted, MaybeGoal
<1>5. CASE SendAccepted
  <2>1. /\ pc \in Asking /\ Accepted(request) /\ current_handle' = request /\ request' = None /\ pc' = "drive"
        /\ UNCHANGED <<unanswered, nav, cancelled, complained>>
    BY <1>5 DEF SendAccepted, Asking, endVars, navVars
  <2>2. current_handle # None => ~ Live(current_handle)
    BY <2>1 DEF GoalsInv, Live, Accepted
  <2>3. \A id \in GoalIds : Live(id) /\ id \in InReach => id \in InReach'
    BY <1>1, <2>1, <2>2 DEF InReach
  <2>4. LiveGoalsTracked'
    BY <2>1, <2>3, StillTracked DEF GoalsInv
  <2> QED
    BY <2>1, <2>4 DEF GoalsInv, Accepted, Asking
<1>6. CASE SendRejected \/ SendTimeout
  <2>1. /\ pc \in Asking /\ SendFailed
        /\ \/ nav[request].status = "rejected" /\ unanswered' = unanswered
           \/ unanswered' = unanswered \union {request}
        /\ UNCHANGED <<current_handle, nav, cancelled, complained>> /\ request' = None
    BY <1>6 DEF SendRejected, SendTimeout, SendFailed, Asking, navVars
  <2>2. \A id \in GoalIds : Live(id) /\ id \in InReach => id \in InReach'
    BY <2>1 DEF InReach, Live
  <2>3. CASE pc = "sending"
    BY <2>1, <2>2, <2>3, GoalsStepLegOver DEF SendFailed
  <2>4. CASE pc = "resending"
    <3>1. pc' = "drive" /\ LiveGoalsTracked'
      BY <2>1, <2>2, <2>4, StillTracked DEF SendFailed, GoalsInv
    <3> QED
      BY <2>1, <2>4, <3>1 DEF GoalsInv, Accepted, Asking
  <2> QED
    BY <2>1, <2>3, <2>4 DEF Asking
<1>7. CASE CountFeedback \/ RefreshBegin \/ \E place \in Places \union {NotFound} : RefreshResolve(place)
  <2>1. pc \notin Asking /\ pc' \notin Asking /\ pc # "exited" /\ pc' # "exited"
        /\ UNCHANGED <<trackVars, navVars, complained>>
    BY <1>7 DEF CountFeedback, RefreshBegin, RefreshResolve, endVars, Asking
  <2> QED
    BY <2>1 DEF GoalsInv, LiveGoalsTracked, Live, Accepted, GoalIds, trackVars, navVars
<1>8. CASE ResultArrived
  <2>1. /\ pc = "drive" /\ Finished(current_handle) /\ current_handle' = None
        /\ UNCHANGED <<request, unanswered, cancelled, complained, nav>>
    BY <1>8 DEF ResultArrived, BooksMatchNav, navVars
  <2>2. \A id \in GoalIds : Live(id) /\ id \in InReach => id \in InReach'
    BY <2>1 DEF InReach, Live, Finished
  <2>3. PICK missed : LegOver(missed)
    BY <1>8 DEF ResultArrived
  <2>4. request' = None
    BY <1>1, <2>1 DEF Asking
  <2> QED
    BY <2>1, <2>2, <2>3, <2>4, GoalsStepLegOver
<1>9. CASE \E id \in GoalIds : CancelLateGoal(id)
  <2>1. PICK id \in GoalIds : CancelLateGoal(id)
    BY <1>9
  <2>2. /\ pc \in {"drive", "late"} /\ id \in unanswered /\ Answered(id)
        /\ unanswered' = unanswered \ {id}
        /\ cancelled' = IF Accepted(id) THEN cancelled \union {id} ELSE cancelled
        /\ UNCHANGED <<pc, current_handle, request, complained, nav>>
    BY <2>1 DEF CancelLateGoal, endVars
  <2>3. ~ Accepted(id) => ~ Live(id)
    BY <2>2 DEF Accepted, Answered, Live
  <2>4. \A i \in GoalIds : Live(i) /\ i \in InReach => i \in InReach'
    BY <2>2, <2>3 DEF InReach
  <2>5. LiveGoalsTracked'
    BY <2>2, <2>4, StillTracked DEF GoalsInv
  <2> QED
    BY <2>2, <2>5 DEF GoalsInv, Accepted
<1>10. CASE CancelCurrent \/ Exit \/ Interrupt
  <2>1. /\ pc # "exited" /\ pc \notin Asking /\ pc' \notin Asking /\ request' = request /\ nav' = nav
        /\ current_handle' = current_handle /\ unanswered' = unanswered
        /\ cancelled \subseteq cancelled'
        /\ complained' \in {complained, unanswered} /\ (complained' # complained => pc' = "exited")
        /\ complained = {}
    <3>1. CASE CancelCurrent
      BY <1>1, <3>1 DEF CancelCurrent, GoalsInv, Asking, trackVars, endVars
    <3>2. CASE Exit
      BY <1>1, <3>2 DEF Exit, GoalsInv, Asking, trackVars, navVars
    <3>3. CASE Interrupt
      <4>1. pc \notin Asking /\ pc # "exited"
        BY <3>3, MissionAssumption DEF Interrupt, NoInterruptAsking
      <4> QED
        BY <1>1, <3>3, <4>1 DEF Interrupt, GoalsInv, Asking, navVars
    <3> QED
      BY <1>10, <3>1, <3>2, <3>3
  <2>2. \A id \in GoalIds : Live(id) /\ id \in InReach => id \in InReach'
    BY <2>1 DEF InReach
  <2>3. LiveGoalsTracked'
    BY <2>1, <2>2, StillTracked DEF GoalsInv
  <2> QED
    BY <2>1, <2>3 DEF GoalsInv, Accepted
<1>11. CASE EnvironmentStep
  <2>1. /\ NavKeeps /\ GoalIds' = GoalIds
        /\ UNCHANGED <<pc, current_handle, request, unanswered, cancelled, complained>>
    BY <1>11, NavOnlyAnswersAndDrives DEF trackVars, endVars, NavKeeps, GoalIds
  <2>2. \A id \in GoalIds : Live(id)' => Live(id)
    BY <2>1 DEF NavKeeps, Live
  <2>3. LiveGoalsTracked'
    BY <2>1, <2>2 DEF GoalsInv, LiveGoalsTracked
  <2>4. current_handle # None => nav'[current_handle].status \notin {"requested", "rejected"}
    BY <1>1, <2>1, AcceptedStays DEF GoalsInv, MaybeGoal
  <2>5. ASSUME pc \in Asking, nav'[request].status \notin {"requested", "rejected"}, current_handle # None
        PROVE  nav'[current_handle].status # "executing"
    <3>1. request \in GoalIds /\ current_handle \in GoalIds /\ Accepted(current_handle)
      BY <1>1, <2>5 DEF MaybeGoal, GoalsInv
    <3>2. CASE Accepted(request)
      BY <2>1, <2>5, <3>1, <3>2 DEF GoalsInv, NavKeeps, Accepted
    <3>3. CASE ~ Accepted(request)
      <4>1. nav[request].status = "requested"
        BY <2>1, <2>5, <3>1, <3>3 DEF Accepted, NavKeeps
      <4>2. current_handle # request
        BY <3>1, <4>1 DEF Accepted
      <4> QED
        BY <2>1, <2>5, <3>1, <4>1, <4>2 DEF NavKeeps
    <3> QED
      BY <3>2, <3>3
  <2> QED
    BY <2>1, <2>3, <2>4, <2>5 DEF GoalsInv, Accepted
<1>12. CASE UNCHANGED vars
  BY <1>12 DEF vars, trackVars, endVars, navVars, GoalsInv, LiveGoalsTracked, Live, Accepted, GoalIds
<1> QED
  BY <1>2, <1>3, <1>4, <1>5, <1>6, <1>7, <1>8, <1>9, <1>10, <1>11, <1>12 DEF Next, Script, EnvironmentStep

LEMMA EndStep == NoInterruptLate /\ MissionInv /\ EndInv /\ [Next]_vars => EndInv'
<1> SUFFICES ASSUME NoInterruptLate, MissionInv, EndInv, [Next]_vars PROVE EndInv'
  OBVIOUS
<1>1. CASE ResolveNext \/ ResolveTimeout \/ SendGoal \/ SendAccepted \/ SendRejected \/ SendTimeout
  <2>1. pc' \notin {"late", "exited"}
    BY <1>1 DEF ResolveNext, ResolveTimeout, SendGoal, SendAccepted, SendRejected, SendTimeout, SendFailed, LegOver
  <2> QED
    BY <2>1 DEF EndInv
<1>2. CASE CountFeedback \/ RefreshBegin \/ ResultArrived \/ \E place \in Places \union {NotFound} : RefreshResolve(place)
  <2>1. pc' \notin {"late", "exited"}
    BY <1>2 DEF CountFeedback, RefreshBegin, ResultArrived, RefreshResolve, LegOver
  <2> QED
    BY <2>1 DEF EndInv
<1>3. CASE \E id \in GoalIds : CancelLateGoal(id)
  BY <1>3 DEF CancelLateGoal, EndInv
<1>4. CASE CancelCurrent
  BY <1>4 DEF CancelCurrent, EndInv, trackVars
<1>5. CASE Exit
  BY <1>5 DEF Exit, EndInv, trackVars, navVars
<1>6. CASE Interrupt
  BY <1>6, MissionAssumption DEF Interrupt, EndInv, NoInterruptLate
<1>7. CASE EnvironmentStep
  BY <1>7, NavOnlyAnswersAndDrives DEF EndInv, trackVars, endVars
<1>8. CASE UNCHANGED vars
  BY <1>8 DEF vars, EndInv, trackVars, endVars, navVars
<1> QED
  BY <1>1, <1>2, <1>3, <1>4, <1>5, <1>6, <1>7, <1>8 DEF Next, Script, EnvironmentStep

\* While it runs, the script can reach every goal that is alive: whatever Nav2
\* answers and however late, however often goals are re-sent, and wherever it is
\* interrupted except in the wait for an answer, no goal drives untracked.
THEOREM GoalsStayInReach ==
  ASSUME NoInterruptAsking
  PROVE  Spec => []LiveGoalsTracked
<1>1. Init => GoalsInv
  BY DEF Init, GoalsInv, LiveGoalsTracked, Accepted, GoalIds, Asking
<1>2. MissionInv /\ BooksMatchNav /\ GoalsInv /\ [Next]_vars => GoalsInv'
  BY GoalsStep
<1>3. GoalsInv => LiveGoalsTracked
  BY DEF GoalsInv
<1> QED
  BY <1>1, <1>2, <1>3, MissionTypes, BooksAreNav2s, PTL DEF Spec

\* When the script has exited, no goal is left that drives, or may still drive,
\* without having been cancelled or reported to the operator, in every mission
\* that is not interrupted while a request is under way or in cleanup.
THEOREM NoGoalRunsAway ==
  ASSUME NoInterruptAsking, NoInterruptLate
  PROVE  Spec => []GoalsAreTracked
<1>1. Init => GoalsInv /\ EndInv
  BY DEF Init, GoalsInv, EndInv, LiveGoalsTracked, Accepted, GoalIds, Asking
<1>2. MissionInv /\ BooksMatchNav /\ GoalsInv /\ [Next]_vars => GoalsInv'
  BY GoalsStep
<1>3. MissionInv /\ EndInv /\ [Next]_vars => EndInv'
  BY EndStep
<1>4. MissionInv /\ GoalsInv /\ EndInv => GoalsAreTracked
  <2> SUFFICES ASSUME MissionInv, GoalsInv, EndInv PROVE GoalsAreTracked
    OBVIOUS
  <2>1. TypeOK /\ LiveGoalsTracked
    BY DEF MissionInv, GoalsInv
  <2>2. NoRunawayGoal
    <3> SUFFICES ASSUME pc = "exited", NEW id \in GoalIds, Live(id)
                 PROVE  id \in cancelled \union complained
      BY DEF NoRunawayGoal
    <3>1. request = None /\ None \notin GoalIds
      BY MissionAssumption DEF MissionInv, ControlInv, Asking, NavInv, GoalIds
    <3>2. current_handle \in cancelled \union {None} /\ unanswered = complained
      BY DEF EndInv
    <3> QED
      BY <2>1, <3>1, <3>2 DEF LiveGoalsTracked
  <2> QED
    BY <2>1, <2>2 DEF GoalsAreTracked
<1> QED
  BY <1>1, <1>2, <1>3, <1>4, MissionTypes, BooksAreNav2s, PTL DEF Spec

-----------------------------------------------------------------------------
(***************************************************************************)
(* The progress of the rover.                                              *)
(***************************************************************************)

\* What Nav2 takes off a route, or drives to its end, the rover has visited.
LEMMA NavProgress ==
  ASSUME MissionInv, EnvironmentStep, NEW id \in GoalIds
  PROVE  LET n == Len(nav[id].route)
             r == nav[id].remaining
         IN  /\ n \in Nat /\ r \in 1 .. n
             /\ nav'[id].remaining # r =>
                  /\ Mode = "through" /\ nav'[id].remaining = r - 1
                  /\ nav[id].route[n - r + 1] \in visited'
             /\ nav'[id].status = "succeeded" /\ nav[id].status # "succeeded" =>
                  \A i \in n - r + 1 .. n : nav[id].route[i] \in visited'
<1> DEFINE n == Len(nav[id].route)
           r == nav[id].remaining
<1>1. n \in Nat /\ r \in 1 .. n /\ ToSet(ToDrive(id)) = {nav[id].route[i] : i \in n - r + 1 .. n}
      /\ Head(ToDrive(id)) = nav[id].route[n - r + 1]
  BY ToDriveType
<1>2. nav \in [GoalIds -> Goal] /\ nav[id] \in Goal
  BY DEF MissionInv, NavInv, GoalIds
<1>3. CASE \E other \in GoalIds : NavAccept(other)
  <2>1. PICK other \in GoalIds : NavAccept(other)
    BY <1>3
  <2>2. PICK status : /\ nav'[id] = [nav[id] EXCEPT !.status = status]
                      /\ status = "succeeded" => nav[id].status = "succeeded"
    <3>1. nav'[id] = [nav[id] EXCEPT !.status = IF id = other THEN "executing"
                                 ELSE IF @ = "executing" THEN "aborted" ELSE @]
      BY <2>1 DEF NavAccept, GoalIds
    <3> QED
      BY <3>1
  <2>3. nav'[id].remaining = r /\ (nav'[id].status = "succeeded" => nav[id].status = "succeeded")
    BY <1>2, <2>2 DEF Goal
  <2> QED
    BY <1>1, <2>3
<1>4. CASE \E other \in GoalIds : NavReject(other) \/ NavAbort(other) \/ NavCancel(other)
  <2>1. PICK other \in GoalIds, status \in {"rejected", "aborted", "canceled"} : nav' = SetStatus(other, status)
    BY <1>4 DEF NavReject, NavAbort, NavCancel
  <2>2. nav'[id] = IF id = other THEN [nav[id] EXCEPT !.status = status] ELSE nav[id]
    BY <1>2, <2>1 DEF SetStatus
  <2>3. nav'[id].remaining = r /\ (nav'[id].status = "succeeded" => nav[id].status = "succeeded")
    BY <1>2, <2>2 DEF Goal
  <2> QED
    BY <1>1, <2>3
<1>5. CASE \E other \in GoalIds : NavPass(other)
  <2>1. PICK other \in GoalIds : NavPass(other)
    BY <1>5
  <2>2. CASE other = id
    BY <1>1, <1>2, <2>1, <2>2 DEF NavPass, Goal, GoalIds
  <2>3. CASE other # id
    BY <1>1, <1>2, <2>1, <2>3 DEF NavPass, Goal, GoalIds
  <2> QED
    BY <2>2, <2>3
<1>6. CASE \E other \in GoalIds : NavSucceed(other)
  <2>1. PICK other \in GoalIds : NavSucceed(other)
    BY <1>6
  <2>2. CASE other = id
    <3>1. nav'[id].remaining = r
      BY <1>2, <2>1, <2>2 DEF NavSucceed, SetStatus, Goal, GoalIds
    <3>2. ToSet(ToDrive(id)) \subseteq visited'
      BY <2>1, <2>2 DEF NavSucceed
    <3> QED
      BY <1>1, <3>1, <3>2
  <2>3. CASE other # id
    <3>1. nav'[id] = nav[id]
      BY <1>2, <2>1, <2>3 DEF NavSucceed, SetStatus, GoalIds
    <3> QED
      BY <1>1, <3>1
  <2> QED
    BY <2>2, <2>3
<1>7. CASE nav' = nav
  BY <1>1, <1>7
<1> QED
  BY <1>3, <1>4, <1>5, <1>6, <1>7
  DEF EnvironmentStep, Feedback, NavAnswers, NavDrives, NavEnds, NavStops, navVars

\* Where the rover has been it stays to have been, and so have the places before.
LEMMA BeenStays ==
  ASSUME NEW seen, NEW more, seen \subseteq more, NEW k \in Int, NEW j \in Int, j <= k, Been(seen, k)
  PROVE  Been(more, j)
  BY DEF Been

\* Counting feedback counts waypoints the rover has passed.
LEMMA DoneIsBeen ==
  ASSUME MissionInv, ThroughInv, Mode = "through", pc \in Driving
  PROVE  /\ Len(Route) - Len(names) + NowPassed \in Done .. Len(Route)
         /\ Been(visited, Len(Route) - Len(names) + NowPassed)
<1>1. /\ Len(Route) \in Nat /\ Len(names) \in Nat /\ passed \in 0 .. Len(names) /\ names \in Seq(Names)
      /\ poses_remaining \in 1 .. Len(Route) \union {None}
      /\ Len(names) <= Len(Route)
  BY RouteType DEF MissionInv, TypeOK, ThroughInv, IsTail
<1>2. NowPassed \in passed .. Len(names)
  BY <1>1, NowPassedType
<1>3. Len(Route) - Len(names) + NowPassed \in Done .. Len(Route)
  BY <1>1, <1>2 DEF Done
<1>4. CASE NowPassed = passed
  BY <1>3, <1>4 DEF ThroughInv, Done
<1>5. CASE NowPassed # passed
  <2>1. poses_remaining # None /\ NowPassed = Len(names) - poses_remaining
    BY <1>5 DEF NowPassed
  <2>2. Len(Route) - Len(names) + NowPassed = Len(Route) - poses_remaining
    BY <1>1, <2>1
  <2> QED
    BY <1>3, <2>1, <2>2 DEF ThroughInv
<1> QED
  BY <1>4, <1>5

\* The routes of a mission driven in one go.
LEMMA SentIsTail ==
  ASSUME MissionInv, ThroughInv, Mode = "through", SendGoal
  PROVE  IsTail(Sent) /\ Been(visited, Len(Route) - Len(fresh))
<1>1. Len(Route) \in Nat /\ Route \in Seq(Names) /\ leg \in DOMAIN Route
  BY RouteType DEF MissionInv, TypeOK
<1>2. CASE pc = "send"
  <2>1. Sent = Route /\ Len(fresh) = Len(Route)
    BY <1>1, <1>2, LegNamesType DEF Sent, MissionInv, ControlInv
  <2> QED
    BY <1>1, <2>1 DEF IsTail, Been
<1>3. CASE pc = "resend"
  <2>1. /\ names \in Seq(Names) /\ passed \in 0 .. Len(names) /\ Len(names) \in Nat
        /\ Len(fresh) = Len(names) - passed /\ IsTail(names) /\ Been(visited, Done)
    BY <1>3 DEF MissionInv, TypeOK, ControlInv, ThroughInv, Driving
  <2>2. Sent = Ahead(names) /\ Len(Sent) = Len(names) - passed
        /\ \A i \in 1 .. Len(names) - passed : Sent[i] = names[passed + i]
    BY <1>3, <2>1, AheadType DEF Sent
  <2>3. Len(Sent) <= Len(Route)
    BY <1>1, <2>1, <2>2 DEF IsTail
  <2>4. ASSUME NEW i \in 1 .. Len(Sent) PROVE Sent[i] = Route[Len(Route) - Len(Sent) + i]
    <3>1. passed + i \in 1 .. Len(names)
      BY <2>1, <2>2
    <3>2. names[passed + i] = Route[Len(Route) - Len(names) + (passed + i)]
      BY <2>1, <3>1 DEF IsTail
    <3>3. Len(Route) - Len(names) + (passed + i) = Len(Route) - Len(Sent) + i
      BY <1>1, <2>1, <2>2
    <3> QED
      BY <2>2, <3>2, <3>3
  <2>5. Len(Route) - Len(fresh) = Done
    BY <1>1, <2>1 DEF Done
  <2> QED
    BY <2>1, <2>3, <2>4, <2>5 DEF IsTail
<1> QED
  BY <1>2, <1>3 DEF SendGoal

LEMMA ThroughStep == MissionInv /\ ThroughInv /\ [Next]_vars => ThroughInv'
<1> SUFFICES ASSUME MissionInv, ThroughInv, [Next]_vars, Mode = "through"
             PROVE  /\ \A id \in GoalIds' : IsTail(nav'[id].route) /\ Been(visited', Len(Route) - nav'[id].remaining)
                    /\ poses_remaining' # None => Been(visited', Len(Route) - poses_remaining')
                    /\ pc' \in Driving => IsTail(names') /\ Been(visited', Len(Route) - Len(names') + passed')
  BY DEF ThroughInv, Done
<1>1. /\ Len(Route) \in Nat /\ \A id \in GoalIds : /\ IsTail(nav[id].route) /\ Been(visited, Len(Route) - nav[id].remaining)
                                                  /\ nav[id].remaining \in 1 .. Len(nav[id].route)
                                                  /\ Len(nav[id].route) \in Nat
      /\ poses_remaining # None => Been(visited, Len(Route) - poses_remaining)
      /\ pc \in Driving => IsTail(names) /\ Been(visited, Len(Route) - Len(names) + passed)
  <2>1. /\ \A id \in GoalIds : IsTail(nav[id].route) /\ Been(visited, Len(Route) - nav[id].remaining)
        /\ poses_remaining # None => Been(visited, Len(Route) - poses_remaining)
        /\ pc \in Driving => IsTail(names) /\ Been(visited, Len(Route) - Len(names) + passed)
    BY DEF ThroughInv, Done
  <2>2. \A id \in GoalIds : nav[id].remaining \in 1 .. Len(nav[id].route) /\ Len(nav[id].route) \in Nat
    BY DEF MissionInv, TypeOK
  <2> QED
    BY <2>1, <2>2, RouteType
<1>2. CASE ResolveNext \/ ResolveTimeout \/ ((SendRejected \/ SendTimeout) /\ pc = "sending")
  <2>1. pc' \notin Driving /\ UNCHANGED <<poses_remaining, nav, visited>>
    BY <1>2 DEF ResolveNext, ResolveTimeout, SendRejected, SendTimeout, SendFailed, LegOver, Driving, navVars
  <2> QED
    BY <1>1, <2>1 DEF GoalIds
<1>3. CASE SendGoal
  <2>1. /\ GoalIds' = GoalIds \union {request'} /\ \A id \in GoalIds : nav'[id] = nav[id]
        /\ nav'[request'].route = Sent /\ nav'[request'].remaining = Len(fresh)
    BY <1>3, GoalSent
  <2>2. /\ poses_remaining' = None /\ UNCHANGED <<names, passed, visited>>
        /\ pc' \in Driving => pc \in Driving
    BY <1>3 DEF SendGoal, Driving
  <2>3. IsTail(Sent) /\ Been(visited, Len(Route) - Len(fresh))
    BY <1>3, SentIsTail
  <2> QED
    BY <1>1, <2>1, <2>2, <2>3
<1>4. CASE SendAccepted
  <2>1. /\ UNCHANGED <<poses_remaining, nav, visited>> /\ names' = nav[request].route /\ passed' = 0
        /\ request \in GoalIds
    BY <1>4 DEF SendAccepted, navVars, MissionInv, ControlInv, TypeOK, MaybeGoal, Asking
  <2>2. IsTail(names') /\ Len(Route) - Len(names') + passed' = Len(Route) - Len(nav[request].route)
    BY <1>1, <2>1
  <2>3. Been(visited, Len(Route) - Len(nav[request].route))
    BY <1>1, <2>1, BeenStays
  <2>4. Been(visited', Len(Route) - Len(names') + passed')
    BY <2>1, <2>2, <2>3
  <2> QED
    BY <1>1, <2>1, <2>2, <2>4 DEF GoalIds
<1>5. CASE (SendRejected \/ SendTimeout) /\ pc = "resending"
  <2>1. UNCHANGED <<poses_remaining, nav, visited, names, passed>> /\ pc \in Driving
    BY <1>5 DEF SendRejected, SendTimeout, SendFailed, Driving, navVars
  <2> QED
    BY <1>1, <2>1 DEF GoalIds
<1>6. CASE CountFeedback \/ RefreshBegin
  <2>1. UNCHANGED <<poses_remaining, nav, visited, names>> /\ pc \in Driving /\ passed' = NowPassed
    BY <1>6 DEF CountFeedback, RefreshBegin, CountPassed, Driving, navVars
  <2>2. Been(visited, Len(Route) - Len(names) + NowPassed)
    BY <2>1, DoneIsBeen
  <2> QED
    BY <1>1, <2>1, <2>2 DEF GoalIds
<1>7. CASE ResultArrived
  <2>1. pc' \notin Driving /\ UNCHANGED <<poses_remaining, nav, visited>>
    BY <1>7 DEF ResultArrived, LegOver, Driving, navVars
  <2> QED
    BY <1>1, <2>1 DEF GoalIds
<1>8. CASE \E place \in Places \union {NotFound} : RefreshResolve(place)
  <2>1. UNCHANGED <<poses_remaining, nav, visited, names, passed>> /\ pc \in Driving
    BY <1>8 DEF RefreshResolve, Driving, navVars
  <2> QED
    BY <1>1, <2>1 DEF GoalIds
<1>9. CASE (\E id \in GoalIds : CancelLateGoal(id)) \/ CancelCurrent \/ Exit \/ Interrupt
  <2>1. UNCHANGED <<poses_remaining, nav, visited, names, passed>> /\ (pc' \in Driving => pc \in Driving)
    BY <1>9 DEF CancelLateGoal, CancelCurrent, Exit, Interrupt, Driving, missionVars, navVars
  <2> QED
    BY <1>1, <2>1 DEF GoalIds
<1>10. CASE EnvironmentStep
  <2>1. /\ NavKeeps /\ GoalIds' = GoalIds /\ visited \subseteq visited' /\ UNCHANGED <<pc, names, passed>>
    BY <1>10, NavOnlyAnswersAndDrives DEF NavKeeps, GoalIds
  <2>2. ASSUME NEW id \in GoalIds
        PROVE  IsTail(nav'[id].route) /\ Been(visited', Len(Route) - nav'[id].remaining)
    <3>1. nav'[id].route = nav[id].route
      BY <2>1 DEF NavKeeps
    <3>2. CASE nav'[id].remaining = nav[id].remaining
      BY <1>1, <2>1, <3>1, <3>2 DEF Been
    <3>3. CASE nav'[id].remaining # nav[id].remaining
      <4> DEFINE n == Len(nav[id].route)
                 r == nav[id].remaining
      <4>1. nav'[id].remaining = r - 1 /\ nav[id].route[n - r + 1] \in visited' /\ n \in Nat /\ r \in 1 .. n
        BY <1>10, <3>3, NavProgress
      <4>2. nav[id].route[n - r + 1] = Route[Len(Route) - n + (n - r + 1)]
        <5>1. n - r + 1 \in 1 .. n /\ IsTail(nav[id].route)
          BY <1>1, <4>1
        <5> QED
          BY <5>1 DEF IsTail
      <4>3. Len(Route) - n + (n - r + 1) = Len(Route) - r + 1 /\ Len(Route) - (r - 1) = Len(Route) - r + 1
        BY <1>1, <4>1
      <4>4. Route[Len(Route) - r + 1] \in visited'
        BY <4>1, <4>2, <4>3
      <4>5. \A i \in 1 .. Len(Route) - r : Route[i] \in visited'
        BY <1>1, <2>1 DEF Been
      <4>6. \A i \in 1 .. Len(Route) - r + 1 : Route[i] \in visited'
        <5> HIDE DEF r, n
        <5>1. Len(Route) \in Nat /\ r \in Int
          BY <1>1, <4>1
        <5>2. ASSUME NEW i \in 1 .. Len(Route) - r + 1 PROVE i \in 1 .. Len(Route) - r \/ i = Len(Route) - r + 1
          BY <5>1
        <5> QED
          BY <4>4, <4>5, <5>2
      <4> QED
        BY <1>1, <3>1, <4>1, <4>3, <4>6 DEF Been
    <3> QED
      BY <3>2, <3>3
  <2>3. poses_remaining' # None => Been(visited', Len(Route) - poses_remaining')
    <3>1. CASE poses_remaining' = poses_remaining
      BY <1>1, <2>1, <3>1 DEF Been
    <3>2. CASE poses_remaining' # poses_remaining
      <4>1. PICK id \in GoalIds, remaining \in 1 .. Len(Route) : Feedback(id, remaining)
        BY <1>10, <3>2 DEF EnvironmentStep, ScriptUnchanged, missionVars, NavAnswers, NavDrives, NavEnds, NavStops
      <4>2. /\ remaining \in nav[id].remaining .. Len(nav[id].route) /\ poses_remaining' = remaining
            /\ visited' = visited /\ Been(visited, Len(Route) - nav[id].remaining)
        BY <1>1, <4>1 DEF Feedback, navVars
      <4>3. Len(Route) - remaining <= Len(Route) - nav[id].remaining /\ Len(Route) - nav[id].remaining \in Int
            /\ Len(Route) - remaining \in Int
        BY <1>1, <4>2
      <4> QED
        BY <4>2, <4>3 DEF Been
    <3> QED
      BY <3>1, <3>2
  <2>4. pc' \in Driving => IsTail(names') /\ Been(visited', Len(Route) - Len(names') + passed')
    BY <1>1, <2>1 DEF Been
  <2> QED
    BY <2>1, <2>2, <2>3, <2>4
<1>11. CASE UNCHANGED vars
  BY <1>1, <1>11 DEF vars, missionVars, navVars, GoalIds
<1> QED
  BY <1>2, <1>3, <1>4, <1>5, <1>6, <1>7, <1>8, <1>9, <1>10, <1>11
  DEF Next, Script, EnvironmentStep, SendRejected, SendTimeout

\* The routes of a mission driven leg by leg.
LEMMA PoseStep == MissionInv /\ PoseInv /\ [Next]_vars => PoseInv'
<1> SUFFICES ASSUME MissionInv, PoseInv, [Next]_vars, Mode = "pose"
             PROVE  /\ \A id \in GoalIds' : nav'[id].remaining = 1 /\ Len(nav'[id].route) = 1
                    /\ poses_remaining' = None
                    /\ pc' \in Driving => names' = <<Route[leg']>> /\ passed' = 0
  BY DEF PoseInv
<1>1. /\ \A id \in GoalIds : nav[id].remaining = 1 /\ Len(nav[id].route) = 1
      /\ poses_remaining = None
      /\ pc \in Driving => names = <<Route[leg]>> /\ passed = 0
      /\ leg \in DOMAIN Route
  BY DEF PoseInv, MissionInv, TypeOK
<1>2. LegNames = <<Route[leg]>> /\ Len(LegNames) = 1
  BY <1>1, LegNamesType
<1>3. CASE ResolveNext \/ ResolveTimeout \/ ((SendRejected \/ SendTimeout) /\ pc = "sending") \/ ResultArrived
  <2>1. pc' \notin Driving /\ UNCHANGED <<poses_remaining, nav>>
    BY <1>3 DEF ResolveNext, ResolveTimeout, SendRejected, SendTimeout, SendFailed, ResultArrived, LegOver,
                Driving, navVars
  <2> QED
    BY <1>1, <2>1 DEF GoalIds
<1>4. pc \in Driving => Ahead(names) = <<Route[leg]>>
  <2> SUFFICES ASSUME pc \in Driving PROVE Ahead(names) = <<Route[leg]>>
    OBVIOUS
  <2>1. names = <<Route[leg]>> /\ passed = 0 /\ names \in Seq(Names) /\ Len(names) = 1
    BY <1>1 DEF MissionInv, TypeOK
  <2>2. SubSeq(names, 1, Len(names)) = names
    BY <2>1, SubSeqFull
  <2> QED
    BY <2>1, <2>2 DEF Ahead
<1>5. CASE SendGoal
  <2>1. /\ GoalIds' = GoalIds \union {request'} /\ \A id \in GoalIds : nav'[id] = nav[id]
        /\ nav'[request'].route = Sent /\ nav'[request'].remaining = Len(fresh) /\ Len(Sent) = Len(fresh)
    BY <1>5, GoalSent
  <2>2. Len(Sent) = 1
    BY <1>2, <1>4, <1>5 DEF Sent, SendGoal, Driving
  <2>3. /\ poses_remaining' = poses_remaining /\ UNCHANGED <<names, passed, leg>>
        /\ pc' \in Driving => pc \in Driving
    BY <1>1, <1>5 DEF SendGoal, Driving
  <2> QED
    BY <1>1, <2>1, <2>2, <2>3
<1>6. CASE SendAccepted
  <2>1. /\ UNCHANGED <<poses_remaining, nav, leg>> /\ names' = nav[request].route /\ passed' = 0
        /\ pc \in {"sending", "resending"}
    BY <1>6 DEF SendAccepted, navVars
  <2>2. nav[request].route = <<Route[leg]>>
    <3>1. CASE pc = "sending"
      BY <1>2, <3>1 DEF MissionInv, ControlInv
    <3>2. CASE pc = "resending"
      BY <1>4, <3>2 DEF MissionInv, ControlInv, Driving
    <3> QED
      BY <2>1, <3>1, <3>2
  <2> QED
    BY <1>1, <2>1, <2>2 DEF GoalIds
<1>7. CASE (SendRejected \/ SendTimeout) /\ pc = "resending"
  <2>1. UNCHANGED <<poses_remaining, nav, names, passed, leg>> /\ pc \in Driving
    BY <1>7 DEF SendRejected, SendTimeout, SendFailed, Driving, navVars
  <2> QED
    BY <1>1, <2>1 DEF GoalIds
<1>8. CASE CountFeedback \/ RefreshBegin
  <2>1. UNCHANGED <<poses_remaining, nav, names, leg>> /\ pc \in Driving /\ passed' = passed
    BY <1>1, <1>8 DEF CountFeedback, RefreshBegin, CountPassed, NowPassed, Driving, navVars
  <2> QED
    BY <1>1, <2>1 DEF GoalIds
<1>9. CASE \E place \in Places \union {NotFound} : RefreshResolve(place)
  <2>1. UNCHANGED <<poses_remaining, nav, names, passed, leg>> /\ pc \in Driving
    BY <1>9 DEF RefreshResolve, Driving, navVars
  <2> QED
    BY <1>1, <2>1 DEF GoalIds
<1>10. CASE (\E id \in GoalIds : CancelLateGoal(id)) \/ CancelCurrent \/ Exit \/ Interrupt
  <2>1. UNCHANGED <<poses_remaining, nav, names, passed, leg>> /\ (pc' \in Driving => pc \in Driving)
    BY <1>10 DEF CancelLateGoal, CancelCurrent, Exit, Interrupt, Driving, missionVars, navVars
  <2> QED
    BY <1>1, <2>1 DEF GoalIds
<1>11. CASE EnvironmentStep
  <2>1. /\ NavKeeps /\ GoalIds' = GoalIds /\ UNCHANGED <<pc, names, passed, leg>>
    BY <1>11, NavOnlyAnswersAndDrives DEF NavKeeps, GoalIds
  <2>2. \A id \in GoalIds : nav'[id].remaining = 1 /\ Len(nav'[id].route) = 1
    BY <1>1, <2>1 DEF NavKeeps
  <2>3. poses_remaining' = poses_remaining
    BY <1>11 DEF EnvironmentStep, Feedback, ScriptUnchanged, missionVars, NavAnswers, NavDrives, NavEnds, NavStops
  <2> QED
    BY <1>1, <2>1, <2>2, <2>3
<1>12. CASE UNCHANGED vars
  BY <1>1, <1>12 DEF vars, missionVars, navVars, GoalIds
<1> QED
  BY <1>3, <1>5, <1>6, <1>7, <1>8, <1>9, <1>10, <1>11, <1>12
  DEF Next, Script, EnvironmentStep, SendRejected, SendTimeout

\* A goal that succeeded has been driven from its first waypoint to its last.
LEMMA VisitedStep ==
  MissionInv /\ ThroughInv /\ PoseInv /\ VisitedInv /\ [Next]_vars => VisitedInv'
<1> SUFFICES ASSUME MissionInv, ThroughInv, PoseInv, VisitedInv, [Next]_vars,
                    NEW id \in GoalIds', nav'[id].status = "succeeded"
             PROVE  ToSet(nav'[id].route) \subseteq visited'
  BY DEF VisitedInv
<1>1. CASE EnvironmentStep
  <2>1. NavKeeps /\ id \in GoalIds /\ visited \subseteq visited' /\ nav'[id].route = nav[id].route
    BY <1>1, NavOnlyAnswersAndDrives DEF NavKeeps, GoalIds
  <2>2. CASE nav[id].status = "succeeded"
    BY <2>1, <2>2 DEF VisitedInv
  <2>3. CASE nav[id].status # "succeeded"
    <3> DEFINE n == Len(nav[id].route)
               r == nav[id].remaining
    <3>1. n \in Nat /\ r \in 1 .. n /\ \A i \in n - r + 1 .. n : nav[id].route[i] \in visited'
      BY <1>1, <2>1, <2>3, NavProgress
    <3>2. nav[id].route \in Seq(Names)
      BY <2>1 DEF MissionInv, TypeOK
    <3>3. \A i \in 1 .. n - r : nav[id].route[i] \in visited'
      <4>1. CASE Mode = "pose"
        BY <2>1, <3>1, <4>1 DEF PoseInv
      <4>2. CASE Mode = "through"
        <5>1. IsTail(nav[id].route) /\ Been(visited, Len(Route) - r) /\ Len(Route) \in Nat
          BY <2>1, <4>2, RouteType DEF ThroughInv
        <5>2. ASSUME NEW i \in 1 .. n - r PROVE nav[id].route[i] \in visited'
          <6> HIDE DEF r
          <6>1. nav[id].route[i] = Route[Len(Route) - n + i] /\ n <= Len(Route)
            <7>1. i \in 1 .. n
              BY <3>1
            <7> QED
              BY <5>1, <7>1 DEF IsTail
          <6>2. Len(Route) - n + i \in 1 .. Len(Route) - r
            <7> HIDE DEF n
            <7> QED
              BY <3>1, <5>1, <6>1
          <6> QED
            BY <2>1, <5>1, <6>1, <6>2 DEF Been
        <5> QED
          BY <5>2
      <4> QED
        BY <4>1, <4>2, MissionAssumption
    <3>4. \A i \in 1 .. n : i \in 1 .. n - r \/ i \in n - r + 1 .. n
      BY <3>1
    <3>5. \A i \in 1 .. n : nav[id].route[i] \in visited'
      BY <3>1, <3>3, <3>4
    <3> QED
      BY <2>1, <3>2, <3>5 DEF ToSet
  <2> QED
    BY <2>2, <2>3
<1>2. CASE SendGoal
  <2>1. id \in GoalIds /\ nav'[id] = nav[id]
    <3>1. nav'[request'].status = "requested" /\ GoalIds' = GoalIds \union {request'}
          /\ \A i \in GoalIds : nav'[i] = nav[i]
      BY <1>2, GoalSent
    <3> QED
      BY <3>1
  <2>2. visited' = visited
    BY <1>2 DEF SendGoal
  <2> QED
    BY <2>1, <2>2 DEF VisitedInv
<1>3. CASE UNCHANGED <<nav, visited>>
  BY <1>3 DEF VisitedInv, GoalIds
<1>4. UNCHANGED <<nav, visited>> \/ SendGoal \/ EnvironmentStep
  BY DEF Next, Script, EnvironmentStep, ResolveNext, ResolveTimeout, SendAccepted, SendRejected, SendTimeout, SendFailed,
         CancelLateGoal, CountFeedback, ResultArrived, RefreshBegin, RefreshResolve, CancelCurrent, Exit, Interrupt,
         vars, navVars
<1> QED
  BY <1>1, <1>2, <1>3, <1>4

\* What counting feedback logs, the rover has visited.
LEMMA CountedIsVisited ==
  ASSUME MissionInv, ThroughInv, PoseInv, pc \in Driving
  PROVE  \A i \in passed + 1 .. NowPassed : names[i] \in visited
<1>1. /\ passed \in 0 .. Len(names) /\ Len(names) \in Nat /\ NowPassed \in passed .. Len(names)
  <2>1. passed \in 0 .. Len(names) /\ names \in Seq(Names) /\ poses_remaining \in 1 .. Len(Route) \union {None}
    BY DEF MissionInv, TypeOK
  <2> QED
    BY <2>1, NowPassedType
<1>2. CASE Mode = "pose"
  <2>1. NowPassed = passed
    BY <1>2 DEF PoseInv, NowPassed
  <2> QED
    BY <1>1, <2>1
<1>3. CASE Mode = "through"
  <2>1. /\ IsTail(names) /\ Been(visited, Len(Route) - Len(names) + NowPassed) /\ Len(Route) \in Nat
    BY <1>3, DoneIsBeen, RouteType DEF ThroughInv
  <2> SUFFICES ASSUME NEW i \in passed + 1 .. NowPassed PROVE names[i] \in visited
    OBVIOUS
  <2>2. i \in 1 .. Len(names) /\ i <= NowPassed
    BY <1>1
  <2>3. names[i] = Route[Len(Route) - Len(names) + i] /\ Len(names) <= Len(Route)
    BY <2>1, <2>2 DEF IsTail
  <2>4. Len(Route) - Len(names) + i \in 1 .. Len(Route) - Len(names) + NowPassed
    BY <1>1, <2>1, <2>2, <2>3
  <2> QED
    BY <2>1, <2>3, <2>4 DEF Been
<1> QED
  BY <1>2, <1>3, MissionAssumption

\* Logging the next waypoints of the goal that is driven.
LEMMA LogGrows ==
  ASSUME MissionInv, pc \in Driving, NEW q \in passed .. Len(names)
  PROVE  LET log == reached \o SubSeq(names, passed + 1, q)
         IN  /\ log \in Seq(Names) /\ Len(log) = Len(reached) + q - passed
             /\ Len(reached) \in Nat /\ passed \in Nat /\ Len(names) \in Nat /\ q \in Nat
             /\ \A i \in 1 .. Len(reached) : log[i] = reached[i]
             /\ \A i \in 1 .. q - passed : log[Len(reached) + i] = names[passed + i]
             /\ ToSet(log) = ToSet(reached) \union {names[i] : i \in passed + 1 .. q}
<1>1. /\ passed \in 0 .. Len(names) /\ Len(names) \in Nat /\ names \in Seq(Names) /\ reached \in Seq(Names)
      /\ Len(reached) \in Nat /\ passed \in Nat /\ q \in Nat
  BY DEF MissionInv, TypeOK
<1> DEFINE part == SubSeq(names, passed + 1, q)
<1>2. passed + 1 \in 1 .. Len(names) + 1 /\ q \in (passed + 1) - 1 .. Len(names)
  BY <1>1
<1>3. /\ part \in Seq(Names) /\ Len(part) = q - (passed + 1) + 1
      /\ \A i \in 1 .. q - (passed + 1) + 1 : part[i] = names[(passed + 1) + i - 1]
      /\ ToSet(part) = {names[i] : i \in passed + 1 .. q}
  BY <1>1, <1>2, PartOfSeq
<1>4. /\ Len(part) = q - passed /\ \A i \in 1 .. q - passed : part[i] = names[passed + i]
  BY <1>1, <1>3
<1> HIDE DEF part
<1>5. /\ reached \o part \in Seq(Names) /\ Len(reached \o part) = Len(reached) + Len(part)
      /\ \A i \in 1 .. Len(reached) + Len(part) :
           (reached \o part)[i] = IF i <= Len(reached) THEN reached[i] ELSE part[i - Len(reached)]
  BY <1>1, <1>3, ConcatProperties
<1>6. \A i \in 1 .. Len(reached) : (reached \o part)[i] = reached[i]
  BY <1>1, <1>4, <1>5
<1>7. ASSUME NEW i \in 1 .. q - passed PROVE (reached \o part)[Len(reached) + i] = names[passed + i]
  <2>1. Len(reached) + i \in 1 .. Len(reached) + Len(part) /\ ~ (Len(reached) + i <= Len(reached))
        /\ Len(reached) + i - Len(reached) = i
    BY <1>1, <1>4
  <2> QED
    BY <1>4, <1>5, <2>1
<1>8. ToSet(reached \o part) = ToSet(reached) \union ToSet(part)
  BY <1>1, <1>3, ToSetConcat
<1>9. Len(reached \o part) = Len(reached) + q - passed
  BY <1>1, <1>4, <1>5
<1> QED
  BY <1>1, <1>3, <1>5, <1>6, <1>7, <1>8, <1>9 DEF part

\* The log of a mission driven in one go is its beginning.
LEMMA LogStaysPrefix ==
  ASSUME MissionInv, ThroughInv, Mode = "through", pc \in Driving, LoggedTo(reached, Done),
         NEW q \in passed .. Len(names)
  PROVE  LoggedTo(reached \o SubSeq(names, passed + 1, q), Len(Route) - Len(names) + q)
<1> DEFINE log == reached \o SubSeq(names, passed + 1, q)
<1>1. /\ Len(log) = Len(reached) + q - passed
      /\ Len(reached) \in Nat /\ passed \in Nat /\ Len(names) \in Nat /\ q \in Nat
      /\ \A i \in 1 .. Len(reached) : log[i] = reached[i]
      /\ \A i \in 1 .. q - passed : log[Len(reached) + i] = names[passed + i]
  BY LogGrows
<1>2. Len(reached) = Len(Route) - Len(names) + passed /\ Len(Route) \in Nat /\ IsTail(names)
  BY RouteType DEF LoggedTo, Done, ThroughInv
<1> HIDE DEF log
<1>3. Len(log) = Len(Route) - Len(names) + q
  BY <1>1, <1>2
<1>4. ASSUME NEW i \in 1 .. Len(log) PROVE log[i] = Route[i]
  <2>1. CASE i <= Len(reached)
    BY <1>1, <1>2, <2>1 DEF LoggedTo, Done
  <2>2. CASE i > Len(reached)
    <3> DEFINE j == i - Len(reached)
    <3>1. j \in 1 .. q - passed /\ i = Len(reached) + j
      BY <1>1, <1>2, <1>3, <2>2
    <3>2. log[i] = names[passed + j]
      BY <1>1, <3>1
    <3>3. passed + j \in 1 .. Len(names)
      BY <1>1, <3>1
    <3>4. names[passed + j] = Route[Len(Route) - Len(names) + (passed + j)]
      BY <1>2, <3>3 DEF IsTail
    <3>5. Len(Route) - Len(names) + (passed + j) = i
      BY <1>1, <1>2, <3>1
    <3> QED
      BY <3>2, <3>4, <3>5
  <2> QED
    BY <1>1, <1>3, <2>1, <2>2
<1> QED
  BY <1>3, <1>4 DEF LoggedTo, log

\* The log is true as long as nothing is logged and the script goes on from
\* where it was.
LEMMA LogIsKept ==
  ASSUME MissionInv, MissionInv', ReachedInv, reached' = reached, visited \subseteq visited',
         pc \in Ending => pc' \in Ending,
         Mode = "through" /\ pc' \in Starting => pc \in Starting,
         Mode = "through" /\ pc' \in Driving =>
           \/ pc \in Driving /\ Done' = Done
           \/ pc \in Starting /\ Done' = 0,
         Mode = "through" /\ pc \in Driving => Len(names) <= Len(Route),
         Mode = "pose" /\ pc' \notin Ending => leg' >= leg
  PROVE  ReachedInv'
<1>1. pc \in Starting \union Driving \union Ending /\ leg \in Nat /\ leg' \in Nat
  <2>1. pc \in Starting \union Driving \union Ending
    BY DEF MissionInv, TypeOK, Starting, Driving, Ending
  <2>2. DOMAIN Route = 1 .. Len(Route) /\ Len(Route) \in Nat
    BY RouteType
  <2>3. leg \in DOMAIN Route /\ leg' \in DOMAIN Route
    BY DEF MissionInv, TypeOK
  <2> QED
    BY <2>1, <2>2, <2>3
<1>2. ToSet(reached') \subseteq visited'
  BY DEF ReachedInv
<1>3. ASSUME Mode = "through"
      PROVE  /\ pc' \in Starting => LoggedTo(reached', 0)
             /\ pc' \in Driving => LoggedTo(reached', Done')
             /\ pc' \in Ending => \E k \in 0 .. Len(Route) : LoggedTo(reached', k)
  <2>1. pc' \in Starting => LoggedTo(reached', 0)
    BY <1>3 DEF ReachedInv
  <2>2. pc' \in Driving => LoggedTo(reached', Done')
    BY <1>3 DEF ReachedInv
  <2>3. \E k \in 0 .. Len(Route) : LoggedTo(reached', k)
    <3>1. CASE pc \in Starting
      BY <1>3, <3>1, RouteType DEF ReachedInv
    <3>2. CASE pc \in Driving
      <4>1. LoggedTo(reached, Done) /\ Len(names) <= Len(Route)
        BY <1>3, <3>2 DEF ReachedInv
      <4>2. Len(names) \in Nat /\ passed \in 0 .. Len(names) /\ Len(Route) \in Nat
        BY RouteType DEF MissionInv, TypeOK
      <4>3. Done \in 0 .. Len(Route)
        BY <4>1, <4>2 DEF Done
      <4> QED
        BY <4>1, <4>3
    <3>3. CASE pc \in Ending
      BY <1>3, <3>3 DEF ReachedInv
    <3> QED
      BY <1>1, <3>1, <3>2, <3>3
  <2> QED
    BY <2>1, <2>2, <2>3
<1>4. ASSUME Mode = "pose"
      PROVE  /\ pc' \notin Ending => \A i \in DOMAIN reached' : \E k \in 1 .. leg' - 1 : reached'[i] = Route[k]
             /\ OnceOnly(Route) => OnceOnly(reached')
  <2>1. OnceOnly(Route) => OnceOnly(reached')
    BY <1>4 DEF ReachedInv
  <2>2. ASSUME pc' \notin Ending, NEW i \in DOMAIN reached
        PROVE  \E k \in 1 .. leg' - 1 : reached[i] = Route[k]
    <3>1. pc \notin Ending /\ leg' >= leg
      BY <1>4, <2>2
    <3>2. PICK k \in 1 .. leg - 1 : reached[i] = Route[k]
      BY <1>4, <3>1 DEF ReachedInv
    <3>3. k \in 1 .. leg' - 1
      <4>1. leg \in Int /\ leg' \in Int
        BY <1>1
      <4>2. \A m, n \in Int : m >= n => 1 .. n - 1 \subseteq 1 .. m - 1
        OBVIOUS
      <4>3. 1 .. leg - 1 \subseteq 1 .. leg' - 1
        BY <3>1, <4>1, <4>2
      <4> QED
        BY <3>2, <4>3
    <3> QED
      BY <3>2, <3>3
  <2> QED
    BY <2>1, <2>2
<1> QED
  BY <1>2, <1>3, <1>4 DEF ReachedInv

\* Counting feedback, and taking a result, keeps the log true.
LEMMA LogIsTrue ==
  ASSUME MissionInv, MissionInv', ThroughInv, PoseInv, ReachedInv, visited' = visited, pc \in Driving,
         NEW q \in passed .. Len(names),
         reached' = reached \o SubSeq(names, passed + 1, q),
         \A i \in passed + 1 .. q : names[i] \in visited,
         \/ pc' \in Driving /\ Len(names') = Len(names) /\ passed' = q /\ leg' = leg
            /\ (Mode = "pose" => q = 0)
         \/ pc' = "resolve" /\ leg' = leg + 1 /\ Mode = "pose"
         \/ pc' = "cleanup"
  PROVE  ReachedInv'
<1>1. /\ Len(reached') = Len(reached) + q - passed
      /\ Len(reached) \in Nat /\ passed \in Nat /\ Len(names) \in Nat /\ q \in Nat
      /\ \A i \in 1 .. Len(reached) : reached'[i] = reached[i]
      /\ \A i \in 1 .. q - passed : reached'[Len(reached) + i] = names[passed + i]
      /\ ToSet(reached') = ToSet(reached) \union {names[i] : i \in passed + 1 .. q}
      /\ reached' \in Seq(Names) /\ reached \in Seq(Names)
  BY LogGrows DEF MissionInv, TypeOK
<1>2. ToSet(reached') \subseteq visited'
  BY <1>1 DEF ReachedInv
<1>3. ASSUME Mode = "through"
      PROVE  /\ pc' \notin Starting
             /\ pc' \in Driving => LoggedTo(reached', Done')
             /\ \E k \in 0 .. Len(Route) : LoggedTo(reached', k)
  <2>1. LoggedTo(reached, Done)
    BY <1>3 DEF ReachedInv
  <2>2. LoggedTo(reached', Len(Route) - Len(names) + q)
    BY <1>3, <2>1, LogStaysPrefix
  <2>3. Len(Route) \in Nat /\ Len(names) <= Len(Route)
    BY <1>3, RouteType DEF ThroughInv, IsTail
  <2>4. Len(Route) - Len(names) + q \in 0 .. Len(Route)
    BY <1>1, <2>3
  <2>5. pc' \in Driving => Done' = Len(Route) - Len(names) + q
    BY DEF Done, Driving
  <2>6. pc' \notin Starting
    BY <1>3 DEF Starting, Driving
  <2> QED
    BY <2>2, <2>4, <2>5, <2>6
<1>4. ASSUME Mode = "pose"
      PROVE  /\ pc' \notin Ending => \A i \in DOMAIN reached' : \E k \in 1 .. leg' - 1 : reached'[i] = Route[k]
             /\ OnceOnly(Route) => OnceOnly(reached')
  <2>1. /\ passed = 0 /\ names = <<Route[leg]>> /\ Len(names) = 1 /\ q \in {0, 1}
        /\ leg \in 1 .. Len(Route) /\ Len(Route) \in Nat
    <3>1. passed = 0 /\ names = <<Route[leg]>>
      BY <1>4 DEF PoseInv
    <3>2. Len(names) = 1
      BY <3>1
    <3>3. q \in {0, 1}
      BY <3>1, <3>2
    <3>4. leg \in 1 .. Len(Route) /\ Len(Route) \in Nat
      <4>1. DOMAIN Route = 1 .. Len(Route) /\ Len(Route) \in Nat
        BY RouteType
      <4>2. leg \in DOMAIN Route
        BY DEF MissionInv, TypeOK
      <4> QED
        BY <4>1, <4>2
    <3> QED
      BY <3>1, <3>2, <3>3, <3>4
  <2>2. pc \notin Ending
    BY DEF Driving, Ending
  <2>3. \A i \in 1 .. Len(reached) : \E k \in 1 .. leg - 1 : reached[i] = Route[k]
    <3>1. DOMAIN reached = 1 .. Len(reached)
      BY <1>1
    <3> QED
      BY <1>4, <2>2, <3>1 DEF ReachedInv
  <2>4. ASSUME NEW i \in 1 .. Len(reached')
        PROVE  \/ i <= Len(reached) /\ \E k \in 1 .. leg - 1 : reached'[i] = Route[k]
               \/ q = 1 /\ i = Len(reached) + 1 /\ reached'[i] = Route[leg]
    <3>1. CASE i <= Len(reached)
      BY <1>1, <2>3, <3>1
    <3>2. CASE i > Len(reached)
      <4>1. q = 1 /\ i = Len(reached) + 1
        BY <1>1, <2>1, <3>2
      <4>2. reached'[Len(reached) + 1] = names[0 + 1]
        BY <1>1, <2>1, <4>1
      <4> QED
        BY <2>1, <4>1, <4>2
    <3> QED
      BY <1>1, <3>1, <3>2
  <2>5. ASSUME pc' \notin Ending, NEW i \in 1 .. Len(reached')
        PROVE  \E k \in 1 .. leg' - 1 : reached'[i] = Route[k]
    <3>1. CASE pc' = "resolve" /\ leg' = leg + 1
      <4>1. leg \in 1 .. leg' - 1 /\ \A k \in 1 .. leg - 1 : k \in 1 .. leg' - 1
        BY <2>1, <3>1
      <4> QED
        BY <2>4, <4>1
    <3>2. CASE pc' \in Driving /\ leg' = leg /\ q = 0
      BY <2>1, <2>4, <3>2
    <3> QED
      BY <1>4, <2>5, <3>1, <3>2 DEF Ending
  <2>6. ASSUME OnceOnly(Route), NEW i \in 1 .. Len(reached'), NEW j \in 1 .. Len(reached'),
               reached'[i] = reached'[j]
        PROVE  i = j
    <3>1. \A k \in 1 .. leg - 1 : k \in DOMAIN Route /\ leg \in DOMAIN Route /\ k # leg
      BY <2>1
    <3>2. \A k \in 1 .. leg - 1 : Route[k] # Route[leg]
      BY <2>6, <3>1 DEF OnceOnly
    <3>3. CASE i <= Len(reached) /\ j <= Len(reached)
      <4>1. reached[i] = reached[j] /\ i \in DOMAIN reached /\ j \in DOMAIN reached
        BY <1>1, <2>6, <3>3
      <4>2. OnceOnly(Route) => OnceOnly(reached)
        BY <1>4 DEF ReachedInv
      <4>3. OnceOnly(reached)
        BY <2>6, <4>2
      <4> QED
        BY <4>1, <4>3 DEF OnceOnly
    <3>4. CASE i <= Len(reached) /\ j = Len(reached) + 1
      <4>1. i # Len(reached) + 1 /\ ~(j <= Len(reached))
        BY <1>1, <3>4
      <4>2. PICK k \in 1 .. leg - 1 : reached'[i] = Route[k]
        BY <2>4, <4>1
      <4>3. reached'[j] = Route[leg]
        BY <2>4, <4>1
      <4> QED
        BY <2>6, <3>2, <4>2, <4>3
    <3>5. CASE i = Len(reached) + 1 /\ j <= Len(reached)
      <4>1. j # Len(reached) + 1 /\ ~(i <= Len(reached))
        BY <1>1, <3>5
      <4>2. PICK k \in 1 .. leg - 1 : reached'[j] = Route[k]
        BY <2>4, <4>1
      <4>3. reached'[i] = Route[leg]
        BY <2>4, <4>1
      <4> QED
        BY <2>6, <3>2, <4>2, <4>3
    <3>6. i \in Nat /\ j \in Nat
      OBVIOUS
    <3>7. (i <= Len(reached) \/ i = Len(reached) + 1) /\ (j <= Len(reached) \/ j = Len(reached) + 1)
      BY <2>4
    <3> QED
      BY <3>3, <3>4, <3>5, <3>6, <3>7
  <2>7. DOMAIN reached' = 1 .. Len(reached')
    BY <1>1
  <2> QED
    BY <2>5, <2>6, <2>7 DEF OnceOnly
<1> QED
  BY <1>2, <1>3, <1>4 DEF ReachedInv

LEMMA ReachedStep ==
  MissionInv /\ MissionInv' /\ BooksMatchNav /\ ThroughInv /\ PoseInv /\ VisitedInv /\ ReachedInv /\ [Next]_vars
    => ReachedInv'
<1> SUFFICES ASSUME MissionInv, MissionInv', BooksMatchNav, ThroughInv, PoseInv, VisitedInv, ReachedInv, [Next]_vars
             PROVE  ReachedInv'
  OBVIOUS
<1>1. /\ Mode = "through" /\ pc \in Driving => Len(names) <= Len(Route)
      /\ leg \in Nat /\ Len(names) \in Nat /\ passed \in 0 .. Len(names)
  <2>1. Mode = "through" /\ pc \in Driving => Len(names) <= Len(Route)
    BY DEF ThroughInv, IsTail
  <2>2. DOMAIN Route = 1 .. Len(Route) /\ Len(Route) \in Nat
    BY RouteType
  <2>3. leg \in DOMAIN Route /\ names \in Seq(Names) /\ passed \in 0 .. Len(names)
    BY DEF MissionInv, TypeOK
  <2> QED
    BY <2>1, <2>2, <2>3
<1>2. CASE ResolveNext \/ SendGoal
  <2>1. /\ pc' \in Starting => pc \in Starting
        /\ pc' \in Driving => pc \in Driving
        /\ pc \notin Ending /\ UNCHANGED <<leg, names, passed, reached, visited>>
    BY <1>2 DEF ResolveNext, SendGoal, endVars, navVars, Starting, Driving, Ending
  <2>2. Done' = Done
    BY <2>1 DEF Done
  <2> QED
    BY <1>1, <2>1, <2>2, LogIsKept
<1>3. CASE ResolveTimeout \/ ((SendRejected \/ SendTimeout) /\ pc = "sending")
  <2>1. /\ LegOver(ToSet(LegNames)) /\ pc \in Starting /\ UNCHANGED <<names, passed, reached, visited>>
    BY <1>3 DEF ResolveTimeout, SendRejected, SendTimeout, SendFailed, navVars, Starting
  <2>2. ToSet(LegNames) \in SUBSET Names
    BY LegNamesType DEF MissionInv, TypeOK
  <2>3. /\ pc' \in {"resolve", "cleanup"} /\ (leg' = leg \/ leg' = leg + 1)
        /\ Mode = "through" => pc' = "cleanup"
    BY <2>1, <2>2, LegOverEffect
  <2>4. pc \notin Ending /\ pc' \notin Driving /\ (Mode = "through" => pc' \notin Starting) /\ leg' >= leg
    BY <1>1, <2>1, <2>3 DEF Starting, Driving, Ending
  <2> QED
    BY <1>1, <2>1, <2>4, LogIsKept
<1>4. CASE SendAccepted
  <2>1. /\ pc' = "drive" /\ names' = nav[request].route /\ passed' = 0 /\ UNCHANGED <<leg, reached, visited>>
        /\ pc \in {"sending", "resending"}
    BY <1>4 DEF SendAccepted, endVars, navVars
  <2>2. Mode = "through" => \/ pc \in Driving /\ Done' = Done
                            \/ pc \in Starting /\ Done' = 0
    <3> SUFFICES ASSUME Mode = "through" PROVE \/ pc \in Driving /\ Done' = Done
                                               \/ pc \in Starting /\ Done' = 0
      OBVIOUS
    <3>1. CASE pc = "sending"
      <4>1. names' = Route
        BY <2>1, <3>1, LegNamesType DEF MissionInv, ControlInv, TypeOK
      <4> QED
        BY <2>1, <3>1, <4>1, RouteType DEF Done, Starting
    <3>2. CASE pc = "resending"
      <4>1. names' = Ahead(names)
        BY <2>1, <3>2 DEF MissionInv, ControlInv
      <4>2. Len(names') = Len(names) - passed
        BY <4>1, AheadType DEF MissionInv, TypeOK
      <4> QED
        BY <1>1, <2>1, <3>2, <4>2, RouteType DEF Done, Driving
    <3> QED
      BY <2>1, <3>1, <3>2
  <2>3. pc \notin Ending /\ pc' \notin Starting /\ leg' >= leg
    BY <1>1, <2>1 DEF Ending, Starting
  <2> QED
    BY <1>1, <2>1, <2>2, <2>3, LogIsKept
<1>5. CASE ((SendRejected \/ SendTimeout) /\ pc = "resending") \/ \E place \in Places \union {NotFound} : RefreshResolve(place)
  <2>1. /\ pc \in Driving /\ pc' \in Driving /\ UNCHANGED <<leg, names, passed, reached, visited>>
    BY <1>5 DEF SendRejected, SendTimeout, SendFailed, RefreshResolve, endVars, navVars, Driving
  <2>2. Done' = Done /\ pc \notin Ending /\ pc' \notin Starting /\ leg' >= leg
    BY <1>1, <2>1 DEF Done, Ending, Starting, Driving
  <2> QED
    BY <1>1, <2>1, <2>2, LogIsKept
<1>6. CASE (\E id \in GoalIds : CancelLateGoal(id)) \/ CancelCurrent \/ Exit \/ Interrupt
  <2>1. /\ pc' = pc \/ pc' \in Ending
        /\ UNCHANGED <<leg, names, passed, reached, visited>>
    BY <1>6 DEF CancelLateGoal, CancelCurrent, Exit, Interrupt, missionVars, endVars, navVars, Ending
  <2>2. Done' = Done /\ (pc' \in Ending => pc' \notin Starting \union Driving) /\ leg' >= leg
    BY <1>1, <2>1 DEF Done, Ending, Starting, Driving
  <2> QED
    BY <1>1, <2>1, <2>2, LogIsKept
<1>7. CASE EnvironmentStep
  <2>1. UNCHANGED <<pc, leg, names, passed, reached>> /\ visited \subseteq visited'
    BY <1>7, NavOnlyAnswersAndDrives DEF endVars
  <2>2. Done' = Done /\ leg' >= leg
    BY <1>1, <2>1 DEF Done
  <2> QED
    BY <1>1, <2>1, <2>2, LogIsKept
<1>8. CASE CountFeedback \/ RefreshBegin
  <2>1. /\ pc \in Driving /\ pc' \in Driving /\ passed' = NowPassed
        /\ reached' = reached \o SubSeq(names, passed + 1, NowPassed)
        /\ UNCHANGED <<leg, names, visited>>
    BY <1>8 DEF CountFeedback, RefreshBegin, CountPassed, Driving, navVars
  <2>2. NowPassed \in passed .. Len(names)
    BY <1>8, CountPassedType DEF CountFeedback, RefreshBegin
  <2>3. Mode = "pose" => NowPassed = 0
    BY <2>1 DEF PoseInv, NowPassed
  <2>4. \A i \in passed + 1 .. NowPassed : names[i] \in visited
    BY <2>1, CountedIsVisited
  <2> QED
    BY <2>1, <2>2, <2>3, <2>4, LogIsTrue
<1>9. CASE ResultArrived
  <2>1. pc = "drive" /\ pc \in Driving /\ visited' = visited
    BY <1>9 DEF ResultArrived, Driving, navVars
  <2>2. NowPassed \in passed .. Len(names)
    BY NowPassedType DEF MissionInv, TypeOK
  <2>3. PICK q \in passed .. Len(names) :
          /\ reached' = reached \o SubSeq(names, passed + 1, q)
          /\ \A i \in passed + 1 .. q : names[i] \in visited
    <3>1. CASE nav[result_future].status = "succeeded"
      <4>1. reached' = reached \o SubSeq(names, passed + 1, Len(names))
        BY <1>9, <3>1 DEF ResultArrived, Ahead
      <4>2. nav[result_future].route = names /\ result_future \in GoalIds /\ names \in Seq(Names)
        BY <2>1 DEF BooksMatchNav, MissionInv, ControlInv, TypeOK, MaybeGoal, Driving
      <4>3. ToSet(names) \subseteq visited
        BY <3>1, <4>2 DEF VisitedInv
      <4>4. \A i \in passed + 1 .. Len(names) : names[i] \in visited
        <5>1. \A i \in passed + 1 .. Len(names) : i \in DOMAIN names
          BY <1>1, <4>2
        <5> QED
          BY <4>3, <5>1 DEF ToSet
      <4>5. Len(names) \in passed .. Len(names)
        BY <1>1
      <4> QED
        BY <4>1, <4>4, <4>5
    <3>2. CASE nav[result_future].status # "succeeded"
      <4>1. reached' = reached \o SubSeq(names, passed + 1, NowPassed)
        BY <1>9, <3>2 DEF ResultArrived
      <4> QED
        BY <2>1, <2>2, <4>1, CountedIsVisited
    <3> QED
      BY <3>1, <3>2
  <2>4. PICK missed : LegOver(missed)
    BY <1>9 DEF ResultArrived
  <2>5. \/ pc' = "resolve" /\ leg' = leg + 1 /\ Mode = "pose"
        \/ pc' = "cleanup"
    BY <2>4 DEF LegOver
  <2> QED
    BY <2>1, <2>3, <2>5, LogIsTrue
<1>10. CASE UNCHANGED vars
  <2>1. UNCHANGED <<pc, leg, names, passed, reached, visited>>
    BY <1>10 DEF vars, missionVars, endVars, navVars
  <2>2. Done' = Done /\ leg' >= leg
    BY <1>1, <2>1 DEF Done
  <2> QED
    BY <1>1, <2>1, <2>2, LogIsKept
<1> QED
  BY <1>2, <1>3, <1>4, <1>5, <1>6, <1>7, <1>8, <1>9, <1>10
  DEF Next, Script, EnvironmentStep, SendRejected, SendTimeout

\* The rover and the log, along the route.
ProgressInv == ThroughInv /\ PoseInv /\ VisitedInv /\ ReachedInv

LEMMA ProgressInvInit == Init => ProgressInv
<1> SUFFICES ASSUME Init PROVE ProgressInv
  OBVIOUS
<1>1. ThroughInv /\ PoseInv /\ VisitedInv
  BY DEF Init, ThroughInv, PoseInv, VisitedInv, GoalIds, Driving
<1>2. ReachedInv
  <2>1. reached = <<>> /\ DOMAIN reached = {} /\ Len(reached) = 0 /\ pc = "resolve"
    BY DEF Init
  <2>2. ToSet(reached) = {}
    BY <2>1 DEF ToSet
  <2> QED
    BY <2>1, <2>2 DEF ReachedInv, LoggedTo, OnceOnly, Starting, Driving, Ending
<1> QED
  BY <1>1, <1>2 DEF ProgressInv

LEMMA ProgressInvAlways == Spec => []ProgressInv
<1>1. MissionInv /\ MissionInv' /\ BooksMatchNav /\ ProgressInv /\ [Next]_vars => ProgressInv'
  BY ThroughStep, PoseStep, VisitedStep, ReachedStep DEF ProgressInv
<1> QED
  BY <1>1, ProgressInvInit, MissionTypes, BooksAreNav2s, PTL DEF Spec

\* In every mission a name is logged only if the rover has been there, once, and
\* in the order of the mission, though feedback may be old or of a goal that was
\* replaced.  A mission that names a waypoint twice logs it twice.
THEOREM LogIsTrueToTheRover ==
  ASSUME OnceOnly(Route)
  PROVE  Spec => []ReachedIsTrue
<1>1. MissionInv /\ ProgressInv => ReachedIsTrue
  <2> SUFFICES ASSUME MissionInv, ProgressInv PROVE ReachedIsTrue
    OBVIOUS
  <2>1. ToSet(reached) \subseteq visited /\ reached \in Seq(Names)
    BY DEF ProgressInv, ReachedInv, MissionInv, TypeOK
  <2>2. ASSUME Mode = "through"
        PROVE  IsPrefix(reached, Route) /\ \E k \in 0 .. Len(Route) : LoggedTo(reached, k)
    <3>1. PICK k \in 0 .. Len(Route) : LoggedTo(reached, k)
      <4>1. CASE pc \in Starting
        BY <2>2, <4>1, RouteType DEF ProgressInv, ReachedInv
      <4>2. CASE pc \in Driving
        <5>1. LoggedTo(reached, Done) /\ Len(names) <= Len(Route)
          BY <2>2, <4>2 DEF ProgressInv, ReachedInv, ThroughInv, IsTail
        <5>2. Len(names) \in Nat /\ passed \in 0 .. Len(names) /\ Len(Route) \in Nat
          BY RouteType DEF MissionInv, TypeOK
        <5>3. Done \in 0 .. Len(Route)
          BY <5>1, <5>2 DEF Done
        <5> QED
          BY <5>1, <5>3
      <4>3. CASE pc \in Ending
        BY <2>2, <4>3 DEF ProgressInv, ReachedInv
      <4> QED
        BY <4>1, <4>2, <4>3 DEF MissionInv, TypeOK, Starting, Driving, Ending
    <3>2. /\ Len(reached) = k /\ k \in Nat /\ Len(Route) \in Nat /\ k <= Len(Route)
          /\ \A i \in 1 .. k : reached[i] = Route[i]
      <4>1. k \in Nat /\ Len(Route) \in Nat /\ k <= Len(Route)
        BY <3>1, RouteType
      <4> QED
        BY <3>1, <4>1 DEF LoggedTo
    <3>3. SubSeq(reached, 1, Len(reached)) = reached
      BY <2>1, SubSeqFull
    <3>4. SubSeq(Route, 1, k) = reached
      <4>1. /\ SubSeq(Route, 1, k) \in Seq(Names) /\ Len(SubSeq(Route, 1, k)) = k - 1 + 1
            /\ \A i \in 1 .. k - 1 + 1 : SubSeq(Route, 1, k)[i] = Route[1 + i - 1]
        <5>1. 1 \in 1 .. Len(Route) + 1 /\ k \in 1 - 1 .. Len(Route) /\ Route \in Seq(Names)
          BY <3>2, RouteType
        <5> QED
          BY <5>1, PartOfSeq
      <4>2. Len(SubSeq(Route, 1, k)) = k /\ \A i \in 1 .. k : SubSeq(Route, 1, k)[i] = reached[i]
        BY <3>2, <4>1
      <4> DEFINE part == SubSeq(Route, 1, k)
      <4> HIDE DEF part
      <4>3. part \in Seq(Names) /\ Len(part) = Len(reached) /\ \A i \in 1 .. Len(part) : part[i] = reached[i]
        BY <3>2, <4>1, <4>2 DEF part
      <4>4. part = reached
        BY <2>1, <4>3
      <4> QED
        BY <4>4 DEF part
    <3> QED
      BY <3>1, <3>2, <3>3, <3>4 DEF IsPrefix
  <2>3. OnceOnly(reached)
    <3>1. CASE Mode = "pose"
      BY <3>1 DEF ProgressInv, ReachedInv
    <3>2. CASE Mode = "through"
      <4>1. PICK k \in 0 .. Len(Route) : LoggedTo(reached, k)
        BY <2>2, <3>2
      <4>2. DOMAIN reached = 1 .. k /\ \A i \in 1 .. k : reached[i] = Route[i] /\ i \in DOMAIN Route
        BY <2>1, <4>1, RouteType DEF LoggedTo
      <4> QED
        BY <4>2 DEF OnceOnly
    <3> QED
      BY <3>1, <3>2, MissionAssumption
  <2> QED
    BY <2>1, <2>2, <2>3 DEF ReachedIsTrue, OnceOnly
<1> QED
  BY <1>1, MissionTypes, ProgressInvAlways, PTL

-----------------------------------------------------------------------------
(***************************************************************************)
(* Every waypoint is accounted for.                                        *)
(***************************************************************************)

\* What is ahead of the script on the goal that is driven.
LEMMA AheadSet ==
  ASSUME MissionInv, NEW q \in passed .. Len(names)
  PROVE  /\ ToSet(SubSeq(names, q + 1, Len(names))) = {names[i] : i \in q + 1 .. Len(names)}
         /\ ToSet(Ahead(names)) = {names[i] : i \in passed + 1 .. Len(names)}
         /\ ToSet(Ahead(names)) =
              {names[i] : i \in passed + 1 .. q} \union ToSet(SubSeq(names, q + 1, Len(names)))
<1>1. passed \in 0 .. Len(names) /\ Len(names) \in Nat /\ names \in Seq(Names) /\ passed \in Nat /\ q \in Nat
  BY DEF MissionInv, TypeOK
<1>2. /\ q + 1 \in 1 .. Len(names) + 1 /\ Len(names) \in (q + 1) - 1 .. Len(names)
      /\ passed + 1 \in 1 .. Len(names) + 1 /\ Len(names) \in (passed + 1) - 1 .. Len(names)
  BY <1>1
<1>3. ToSet(SubSeq(names, q + 1, Len(names))) = {names[i] : i \in q + 1 .. Len(names)}
  BY <1>1, <1>2, PartOfSeq
<1>4. ToSet(Ahead(names)) = {names[i] : i \in passed + 1 .. Len(names)}
  BY <1>1, <1>2, PartOfSeq DEF Ahead
<1>5. passed + 1 .. Len(names) = (passed + 1 .. q) \union (q + 1 .. Len(names))
  BY <1>1
<1> QED
  BY <1>3, <1>4, <1>5

\* A leg that is over accounts for its waypoints, those before it stay
\* accounted for, and a mission ends early only because it was asked to.
LEMMA CoverageLegOver ==
  ASSUME MissionInv, CoverageInv, pc \notin Ending, NEW missed \in SUBSET Names, LegOver(missed),
         interrupts' = interrupts,
         Before \union ToSet(LegNames) \subseteq ToSet(reached') \union failed \union missed
  PROVE  CoverageInv'
<1>1. /\ failed' = failed \union missed /\ stop_on_failure' = stop_on_failure
      /\ \/ pc' = "resolve" /\ leg' = leg + 1 /\ rc' = rc /\ Mode = "pose"
         \/ pc' = "cleanup" /\ leg' = leg /\ (rc' = 0 <=> failed' = {})
            /\ (Mode = "pose" /\ leg < Len(Route) => missed # {} /\ stop_on_failure)
      /\ leg \in 1 .. Len(Route) /\ Len(Route) \in Nat /\ rc # 0
  <2>1. leg \in DOMAIN Route /\ DOMAIN Route = 1 .. Len(Route) /\ Len(Route) \in Nat
    BY RouteType DEF MissionInv, TypeOK
  <2>2. rc = None /\ None # 0
    BY MissionAssumption DEF MissionInv, ControlInv
  <2> QED
    BY <2>1, <2>2, LegOverEffect
<1>2. CASE pc' = "resolve"
  <2>1. leg' = leg + 1 /\ rc' # 0 /\ Mode = "pose"
    BY <1>1, <1>2
  <2>2. Before' = {Route[i] : i \in 1 .. leg}
    BY <1>1, <2>1 DEF Before
  <2>3. ToSet(LegNames) = {Route[leg]}
    <3>1. LegNames = <<Route[leg]>>
      BY <2>1 DEF LegNames
    <3> QED
      BY <3>1 DEF ToSet
  <2>4. Before' \subseteq Before \union {Route[leg]}
    <3>1. \A i \in 1 .. leg : i = leg \/ i \in 1 .. leg - 1
      BY <1>1
    <3> QED
      BY <2>1, <2>2, <3>1 DEF Before
  <2> QED
    BY <1>1, <1>2, <2>1, <2>3, <2>4 DEF CoverageInv, Starting, Driving, Ending
<1>3. CASE pc' = "cleanup"
  <2>1. (Mode = "pose" => leg = Len(Route)) => Names \subseteq ToSet(reached') \union failed'
    <3> SUFFICES ASSUME Mode = "pose" => leg = Len(Route)
                 PROVE  Names \subseteq Before \union ToSet(LegNames)
      BY <1>1
    <3>1. CASE Mode = "pose"
      <4>1. LegNames = <<Route[leg]>> /\ leg = Len(Route)
        BY <3>1 DEF LegNames
      <4>2. Route[leg] \in ToSet(LegNames)
        BY <4>1 DEF ToSet
      <4>3. \A i \in 1 .. Len(Route) : i = leg \/ i \in 1 .. leg - 1
        BY <1>1, <4>1
      <4> QED
        BY <3>1, <4>1, <4>2, <4>3, RouteType DEF Before
    <3>2. CASE Mode = "through"
      <4>1. LegNames = Route
        BY <3>2 DEF LegNames
      <4> QED
        BY <4>1 DEF Names
    <3> QED
      BY <3>1, <3>2, MissionAssumption
  <2>2. Mode = "pose" /\ leg # Len(Route) => failed' # {} /\ rc' # 0 /\ stop_on_failure'
    BY <1>1, <1>3
  <2>3. rc' = 0 => failed' = {}
    BY <1>1, <1>3
  <2> QED
    BY <1>3, <2>1, <2>2, <2>3 DEF CoverageInv, Starting, Driving, Ending
<1> QED
  BY <1>1, <1>2, <1>3

\* A step that stays with the leg, or ends the mission's end, loses nobody.
LEMMA CoverageStays ==
  ASSUME CoverageInv, UNCHANGED <<stop_on_failure, leg, failed, rc, interrupts>>,
         ToSet(reached) \subseteq ToSet(reached'),
         \/ pc' = pc /\ ToSet(reached) \union ToSet(Ahead(names)) \subseteq ToSet(reached') \union ToSet(Ahead(names)')
         \/ pc \in Starting /\ pc' \in Starting
         \/ pc \in Ending /\ pc' \in Ending
         \/ /\ pc \in Driving /\ pc' \in Driving
            /\ ToSet(reached) \union ToSet(Ahead(names)) \subseteq ToSet(reached') \union ToSet(Ahead(names)')
  PROVE  CoverageInv'
<1>1. Before' = Before /\ LegNames' = LegNames
  BY DEF Before, LegNames
<1>2. (pc' \in Starting => pc \in Starting) /\ (pc' \in Ending => pc \in Ending)
  BY DEF Starting, Driving, Ending
<1>3. pc' \in Driving => Before \union ToSet(LegNames) \subseteq ToSet(reached') \union failed \union ToSet(Ahead(names)')
  BY DEF CoverageInv, Starting, Driving, Ending
<1> QED
  BY <1>1, <1>2, <1>3 DEF CoverageInv

LEMMA CoverageStep ==
  MissionInv /\ MissionInv' /\ CoverageInv /\ [Next]_vars => CoverageInv'
<1> SUFFICES ASSUME MissionInv, MissionInv', CoverageInv, [Next]_vars PROVE CoverageInv'
  OBVIOUS
<1>1. CASE ResolveNext \/ SendGoal
  <2>1. /\ (pc \in Starting /\ pc' \in Starting) \/ (pc \in Driving /\ pc' \in Driving)
        /\ UNCHANGED <<stop_on_failure, leg, failed, rc, interrupts, names, passed, reached>>
    BY <1>1 DEF ResolveNext, SendGoal, endVars, Starting, Driving
  <2>2. Ahead(names)' = Ahead(names)
    BY <2>1 DEF Ahead
  <2> QED
    BY <2>1, <2>2, CoverageStays
<1>2. CASE ResolveTimeout \/ ((SendRejected \/ SendTimeout) /\ pc = "sending")
  <2>1. /\ LegOver(ToSet(LegNames)) /\ pc \in Starting /\ UNCHANGED <<reached, interrupts>>
    BY <1>2 DEF ResolveTimeout, SendRejected, SendTimeout, SendFailed, Starting
  <2>2. ToSet(LegNames) \in SUBSET Names /\ pc \notin Ending
    BY <2>1, LegNamesType DEF MissionInv, TypeOK, Starting, Ending
  <2>3. Before \union ToSet(LegNames) \subseteq ToSet(reached') \union failed \union ToSet(LegNames)
    BY <2>1 DEF CoverageInv
  <2> QED
    BY <2>1, <2>2, <2>3, CoverageLegOver
<1>3. CASE SendAccepted
  <2>1. /\ pc' = "drive" /\ names' = nav[request].route /\ passed' = 0 /\ pc \in {"sending", "resending"}
        /\ UNCHANGED <<stop_on_failure, leg, failed, rc, interrupts, reached>>
    BY <1>3 DEF SendAccepted, endVars
  <2>2. Ahead(names)' = names'
    <3>1. names' \in Seq(Names)
      BY DEF MissionInv, TypeOK
    <3>2. SubSeq(names', 1, Len(names')) = names'
      BY <3>1, SubSeqFull
    <3> QED
      BY <2>1, <3>2 DEF Ahead
  <2>3. CASE pc = "sending"
    <3>1. names' = LegNames
      BY <2>1, <2>3 DEF MissionInv, ControlInv
    <3>2. Before' = Before /\ LegNames' = LegNames
      BY <2>1 DEF Before, LegNames
    <3> QED
      BY <2>1, <2>2, <2>3, <3>1, <3>2 DEF CoverageInv, Starting, Driving, Ending
  <2>4. CASE pc = "resending"
    <3>1. names' = Ahead(names)
      BY <2>1, <2>4 DEF MissionInv, ControlInv
    <3> QED
      BY <2>1, <2>2, <2>4, <3>1, CoverageStays DEF Driving
  <2> QED
    BY <2>1, <2>3, <2>4
<1>4. CASE ((SendRejected \/ SendTimeout) /\ pc = "resending") \/ \E place \in Places \union {NotFound} : RefreshResolve(place)
  <2>1. /\ pc \in Driving /\ pc' \in Driving
        /\ UNCHANGED <<stop_on_failure, leg, failed, rc, interrupts, names, passed, reached>>
    BY <1>4 DEF SendRejected, SendTimeout, SendFailed, RefreshResolve, endVars, Driving
  <2>2. Ahead(names)' = Ahead(names)
    BY <2>1 DEF Ahead
  <2> QED
    BY <2>1, <2>2, CoverageStays
<1>5. CASE (\E id \in GoalIds : CancelLateGoal(id)) \/ CancelCurrent \/ Exit
  <2>1. /\ pc' = pc \/ (pc \in Ending /\ pc' \in Ending)
        /\ UNCHANGED <<stop_on_failure, leg, failed, rc, interrupts, names, passed, reached>>
    BY <1>5 DEF CancelLateGoal, CancelCurrent, Exit, missionVars, endVars, Ending
  <2>2. Ahead(names)' = Ahead(names)
    BY <2>1 DEF Ahead
  <2> QED
    BY <2>1, <2>2, CoverageStays
<1>6. CASE Interrupt
  <2>1. /\ pc' \in Ending /\ rc' # 0 /\ interrupts' # 0 /\ interrupts' \in Nat
        /\ pc' \notin Starting /\ pc' \notin Driving
    BY <1>6 DEF Interrupt, CoverageInv, Starting, Driving, Ending
  <2> QED
    BY <2>1 DEF CoverageInv
<1>7. CASE EnvironmentStep
  <2>1. UNCHANGED <<pc, stop_on_failure, leg, failed, rc, interrupts, names, passed, reached>>
    BY <1>7, NavOnlyAnswersAndDrives DEF endVars
  <2>2. Ahead(names)' = Ahead(names)
    BY <2>1 DEF Ahead
  <2> QED
    BY <2>1, <2>2, CoverageStays
<1>8. CASE CountFeedback \/ RefreshBegin
  <2>1. /\ pc \in Driving /\ pc' \in Driving /\ passed' = NowPassed
        /\ reached' = reached \o SubSeq(names, passed + 1, NowPassed)
        /\ UNCHANGED <<stop_on_failure, leg, failed, rc, interrupts, names>>
    BY <1>8 DEF CountFeedback, RefreshBegin, CountPassed, Driving
  <2>2. NowPassed \in passed .. Len(names)
    BY <1>8, CountPassedType DEF CountFeedback, RefreshBegin
  <2>3. Ahead(names)' = SubSeq(names, NowPassed + 1, Len(names))
    BY <2>1 DEF Ahead
  <2>4. ToSet(reached') = ToSet(reached) \union {names[i] : i \in passed + 1 .. NowPassed}
    BY <2>1, <2>2, LogGrows
  <2>5. ToSet(Ahead(names)) = {names[i] : i \in passed + 1 .. NowPassed} \union ToSet(Ahead(names)')
    BY <2>2, <2>3, AheadSet
  <2> QED
    BY <2>1, <2>4, <2>5, CoverageStays
<1>9. CASE ResultArrived
  <2>1. /\ pc = "drive" /\ pc \in Driving /\ pc \notin Ending /\ interrupts' = interrupts
    BY <1>9 DEF ResultArrived, Driving, Ending
  <2>2. NowPassed \in passed .. Len(names) /\ Len(names) \in passed .. Len(names)
    BY NowPassedType DEF MissionInv, TypeOK
  <2>3. Before \union ToSet(LegNames) \subseteq ToSet(reached) \union failed \union ToSet(Ahead(names))
    BY <2>1 DEF CoverageInv
  <2>4. PICK missed \in SUBSET Names :
          LegOver(missed) /\ ToSet(reached) \union ToSet(Ahead(names)) \subseteq ToSet(reached') \union missed
    <3>1. CASE nav[result_future].status = "succeeded"
      <4>1. reached' = reached \o SubSeq(names, passed + 1, Len(names)) /\ LegOver({})
        BY <1>9, <3>1 DEF ResultArrived, Ahead
      <4>2. ToSet(reached') = ToSet(reached) \union {names[i] : i \in passed + 1 .. Len(names)}
        BY <2>1, <2>2, <4>1, LogGrows
      <4>3. ToSet(Ahead(names)) = {names[i] : i \in passed + 1 .. Len(names)}
        BY <2>2, AheadSet
      <4> QED
        BY <4>1, <4>2, <4>3
    <3>2. CASE nav[result_future].status # "succeeded"
      <4> DEFINE rest == SubSeq(names, NowPassed + 1, Len(names))
      <4>1. reached' = reached \o SubSeq(names, passed + 1, NowPassed) /\ LegOver(ToSet(rest))
        BY <1>9, <3>2 DEF ResultArrived
      <4>2. ToSet(reached') = ToSet(reached) \union {names[i] : i \in passed + 1 .. NowPassed}
        BY <2>1, <2>2, <4>1, LogGrows
      <4>3. ToSet(Ahead(names)) = {names[i] : i \in passed + 1 .. NowPassed} \union ToSet(rest)
        BY <2>2, AheadSet
      <4>4. ToSet(rest) \subseteq Names
        <5>1. ToSet(Ahead(names)) \subseteq Names
          BY AheadType, ToSetType DEF MissionInv, TypeOK
        <5> QED
          BY <4>3, <5>1
      <4> HIDE DEF rest
      <4> QED
        BY <4>1, <4>2, <4>3, <4>4
    <3> QED
      BY <3>1, <3>2
  <2>5. Before \union ToSet(LegNames) \subseteq ToSet(reached') \union failed \union missed
    BY <2>3, <2>4
  <2> QED
    BY <2>1, <2>4, <2>5, CoverageLegOver
<1>10. CASE UNCHANGED vars
  <2>1. UNCHANGED <<pc, stop_on_failure, leg, failed, rc, interrupts, names, passed, reached>>
    BY <1>10 DEF vars, missionVars, endVars
  <2>2. Ahead(names)' = Ahead(names)
    BY <2>1 DEF Ahead
  <2> QED
    BY <2>1, <2>2, CoverageStays
<1> QED
  BY <1>1, <1>2, <1>3, <1>4, <1>5, <1>6, <1>7, <1>8, <1>9, <1>10
  DEF Next, Script, EnvironmentStep, SendRejected, SendTimeout

LEMMA CoverageInvInit == Init => CoverageInv
<1> SUFFICES ASSUME Init PROVE CoverageInv
  OBVIOUS
<1>1. pc = "resolve" /\ leg = 1 /\ rc = None /\ None # 0 /\ interrupts = 0
  BY MissionAssumption DEF Init
<1>2. Before = {}
  BY <1>1 DEF Before
<1> QED
  BY <1>1, <1>2 DEF CoverageInv, Starting, Driving, Ending

LEMMA CoverageInvAlways == Spec => []CoverageInv
  BY CoverageInvInit, CoverageStep, MissionTypes, PTL DEF Spec

\* A mission that was not interrupted and was not asked to stop at the first
\* failure ends with each of its waypoints logged as reached or listed as failed.
THEOREM NobodyIsForgotten == Spec => []NothingForgotten
<1>1. MissionInv /\ CoverageInv => NothingForgotten
  <2> SUFFICES ASSUME MissionInv, CoverageInv, rc # None, interrupts = 0, ~stop_on_failure
               PROVE  ToSet(reached) \union failed = Names
    BY DEF NothingForgotten
  <2>1. pc \in Ending
    BY DEF MissionInv, ControlInv
  <2>2. ToSet(reached) \subseteq Names /\ failed \subseteq Names
    BY ToSetType DEF MissionInv, TypeOK
  <2> QED
    BY <2>1, <2>2 DEF CoverageInv
<1> QED
  BY <1>1, MissionTypes, CoverageInvAlways, PTL

\* Exit code 0 means that every waypoint of the mission was driven to, and was
\* logged as reached.
THEOREM SuccessIsTrue == Spec => []SuccessMeansAllReached
<1>1. MissionInv /\ ProgressInv /\ CoverageInv => SuccessMeansAllReached
  <2> SUFFICES ASSUME MissionInv, ProgressInv, CoverageInv, rc = 0
               PROVE  visited = Names /\ ToSet(reached) = Names
    BY DEF SuccessMeansAllReached
  <2>1. Names \subseteq ToSet(reached) /\ ToSet(reached) \subseteq visited /\ visited \subseteq Names
    BY DEF CoverageInv, ProgressInv, ReachedInv, MissionInv, TypeOK
  <2> QED
    BY <2>1
<1> QED
  BY <1>1, MissionTypes, ProgressInvAlways, CoverageInvAlways, PTL

=============================================================================
