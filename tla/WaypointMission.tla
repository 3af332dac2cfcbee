--------------------------- MODULE WaypointMission ---------------------------
(***************************************************************************)
(* waypoint_mission.py: one blocking thread that asks GLIM where the       *)
(* waypoints are, sends goals to Nav2, re-sends them when a loop closure   *)
(* moved a waypoint, and cancels what still drives when it ends.           *)
(*                                                                         *)
(* The script blocks in rclpy.spin_*; while it does, Nav2 answers, drives, *)
(* reports feedback and finishes, GLIM moves waypoints, and Ctrl+C may     *)
(* arrive.  An action of the script is what it does from one of these      *)
(* waits to the next.                                                      *)
(*                                                                         *)
(* go_to drives a route of one waypoint and go_through a route of all; the *)
(* loops differ in the feedback, which only navigate_through_poses gives.  *)
(* Both are the leg of this specification.                                 *)
(*                                                                         *)
(* Nav2 and GLIM are external.  Distances are on a line.                   *)
(***************************************************************************)
EXTENDS Integers, Sequences, SequencesExt, FiniteSets

CONSTANTS
  Route,          \* the names of the mission, in order
  Mode,           \* "pose" or "through"
  Places,         \* places on the line a waypoint can be at
  Threshold,      \* parameter replan_threshold
  NotFound,       \* get_waypoint answered found = false, or did not answer
  None,           \* Python's None
  MaxGoals,       \* bound: no refresh once so many goals were sent
  MaxMoves,       \* bound: loop closures
  MaxInterrupts,  \* bound: Ctrl+C
  InterruptAt     \* waits of the script Ctrl+C may arrive in

ASSUME MissionAssumption ==
  /\ Route \in Seq(STRING) /\ Route # <<>>
  /\ Mode \in {"pose", "through"}
  /\ Places \subseteq Int /\ 0 \in Places /\ NotFound \notin Places
  /\ Threshold \in Nat /\ None \notin Nat
  /\ InterruptAt \subseteq {"resolve", "sending", "drive", "refresh", "resending", "late"}
  /\ MaxGoals \in Nat \ {0} /\ MaxMoves \in Nat /\ MaxInterrupts \in Nat

VARIABLES
  stop_on_failure,  \* parameter, constant during a mission
  pc,               \* where the script waits
  leg,              \* index in Route of the waypoint go_to drives to
  names, goals,     \* waypoints of the goal Nav2 works on, and their places
  passed,           \* how many of them are known to be passed
  poses_remaining,  \* latest feedback
  fresh,            \* answers of the resolve calls in progress
  current_handle,   \* accepted goal cleanup would cancel
  result_future,    \* goal whose result the loop waits for
  request,          \* goal request send_action waits for
  unanswered,       \* requests that timed out
  failed,           \* names not reached
  rc,               \* exit code
  nav,              \* Nav2: the goals it was sent, in order
  cancelled,        \* Nav2: goals it was asked to cancel
  visited,          \* Nav2: waypoints the rover has been at
  glim,             \* GLIM: where each waypoint is now
  moves, interrupts,
  reached,          \* history: names logged as reached, in order
  complained        \* history: goals cleanup reported as never answered

missionVars == <<stop_on_failure, leg, names, goals, passed, poses_remaining, fresh>>
trackVars   == <<current_handle, result_future, request, unanswered>>
endVars     == <<failed, rc, reached, complained>>
navVars     == <<nav, cancelled, visited>>
glimVars    == <<glim, moves>>
vars == <<pc, missionVars, trackVars, endVars, navVars, glimVars, interrupts>>

Names == ToSet(Route)
GoalIds == DOMAIN nav
Live(id) == nav[id].status \in {"requested", "executing"}
Answered(id) == nav[id].status # "requested"
Accepted(id) == nav[id].status \notin {"requested", "rejected"}
Finished(id) == nav[id].status \in {"succeeded", "aborted", "canceled"}

\* The waypoints of a leg: go_to(name) has one, go_through(names) all.
LegNames == IF Mode = "pose" THEN <<Route[leg]>> ELSE Route

Distance(a, b) == IF a > b THEN a - b ELSE b - a

-----------------------------------------------------------------------------
Init ==
  /\ pc = "resolve" /\ leg = 1 /\ stop_on_failure \in BOOLEAN
  /\ names = <<>> /\ goals = <<>> /\ passed = 0 /\ fresh = <<>>
  /\ poses_remaining = None
  /\ current_handle = None /\ result_future = None /\ request = None
  /\ unanswered = {} /\ failed = {} /\ rc = None
  /\ nav = <<>> /\ cancelled = {} /\ visited = {}
  /\ glim \in [Names -> {0, NotFound}]
  /\ moves = 0 /\ interrupts = 0
  /\ reached = <<>> /\ complained = {}

-----------------------------------------------------------------------------
(***************************************************************************)
(* The script.                                                             *)
(***************************************************************************)

\* Mutant: the failures of earlier legs are forgotten.
LegOverMutant(missed) ==
  LET more == /\ Mode = "pose" /\ leg < Len(Route)
              /\ (missed = {} \/ ~stop_on_failure)
  IN  /\ failed' = missed /\ UNCHANGED stop_on_failure
      /\ fresh' = <<>>
      /\ IF more
         THEN pc' = "resolve" /\ leg' = leg + 1 /\ rc' = rc
         ELSE pc' = "cleanup" /\ leg' = leg /\ rc' = IF missed = {} THEN 0 ELSE 1

\* What run() does when a leg is over, with the names the leg did not reach.
LegOver(missed) ==
  LET lost == failed \union missed
      more == /\ Mode = "pose" /\ leg < Len(Route)
              /\ (missed = {} \/ ~stop_on_failure)
  IN  /\ failed' = lost /\ UNCHANGED stop_on_failure
      /\ fresh' = <<>>
      /\ IF more
         THEN pc' = "resolve" /\ leg' = leg + 1 /\ rc' = rc
         ELSE pc' = "cleanup" /\ leg' = leg /\ rc' = IF lost = {} THEN 0 ELSE 1

\* resolve_with_wait found the next waypoint of the leg; it keeps asking while
\* get_waypoint does not find it.  After the last one the goal is sent.
ResolveNext ==
  /\ pc = "resolve"
  /\ LET name == LegNames[Len(fresh) + 1]
     IN  /\ glim[name] # NotFound
         /\ fresh' = Append(fresh, glim[name])
  /\ pc' = IF Len(fresh') = Len(LegNames) THEN "send" ELSE "resolve"
  /\ UNCHANGED <<stop_on_failure, leg, names, goals, passed, poses_remaining,
                 trackVars, endVars, navVars, glimVars, interrupts>>

\* wait_for_waypoint_sec passed: the leg fails before anything was sent.
ResolveTimeout ==
  /\ pc = "resolve"
  /\ LegOver(ToSet(LegNames))
  /\ UNCHANGED <<names, goals, passed, poses_remaining,
                 trackVars, reached, complained, navVars, glimVars, interrupts>>

\* Re-sending happens from the refresh of a goal, with the waypoints ahead.
Ahead(seq) == SubSeq(seq, passed + 1, Len(seq))

\* send and send_through up to the wait in send_action.
SendGoal ==
  /\ pc \in {"send", "resend"}
  /\ nav' = Append(nav, [status |-> "requested",
                         route |-> IF pc = "send" THEN LegNames ELSE Ahead(names),
                         target |-> fresh,
                         remaining |-> Len(fresh)])
  /\ request' = Len(nav) + 1
  /\ poses_remaining' = IF Mode = "through" THEN None ELSE poses_remaining
  /\ pc' = IF pc = "send" THEN "sending" ELSE "resending"
  /\ UNCHANGED <<stop_on_failure, leg, names, goals, passed, fresh, current_handle, result_future, unanswered,
                 endVars, cancelled, visited, glimVars, interrupts>>

\* Mutant: a re-send leaves the places the script compares with as they were.
SendAcceptedOldGoals ==
  /\ pc \in {"sending", "resending"} /\ Accepted(request)
  /\ current_handle' = request /\ result_future' = request
  /\ names' = nav[request].route
  /\ goals' = IF pc = "sending" THEN nav[request].target ELSE Ahead(goals)
  /\ passed' = 0
  /\ request' = None /\ fresh' = <<>>
  /\ pc' = "drive"
  /\ UNCHANGED <<stop_on_failure, leg, poses_remaining, unanswered, endVars, navVars, glimVars, interrupts>>

\* Mutant: a re-send leaves the names that feedback is counted against.
SendAcceptedOldNames ==
  /\ pc \in {"sending", "resending"} /\ Accepted(request)
  /\ current_handle' = request /\ result_future' = request
  /\ names' = IF pc = "sending" THEN nav[request].route ELSE names
  /\ goals' = nav[request].target /\ passed' = 0
  /\ request' = None /\ fresh' = <<>>
  /\ pc' = "drive"
  /\ UNCHANGED <<stop_on_failure, leg, poses_remaining, unanswered, endVars, navVars, glimVars, interrupts>>

\* Nav2 accepted in time: the goal replaces the one that was tracked.
SendAccepted ==
  /\ pc \in {"sending", "resending"} /\ Accepted(request)
  /\ current_handle' = request /\ result_future' = request
  /\ names' = nav[request].route /\ goals' = nav[request].target /\ passed' = 0
  /\ request' = None /\ fresh' = <<>>
  /\ pc' = "drive"
  /\ UNCHANGED <<stop_on_failure, leg, poses_remaining, unanswered, endVars, navVars, glimVars, interrupts>>

\* Without a handle a first send ends the leg, a re-send keeps the old goal.
SendFailed ==
  /\ request' = None
  /\ IF pc = "sending"
     THEN LegOver(ToSet(LegNames))
     ELSE pc' = "drive" /\ fresh' = <<>> /\ UNCHANGED <<stop_on_failure, leg, failed, rc>>
  /\ UNCHANGED <<names, goals, passed, poses_remaining, current_handle, result_future,
                 reached, complained, navVars, glimVars, interrupts>>

SendRejected ==
  /\ pc \in {"sending", "resending"} /\ nav[request].status = "rejected"
  /\ SendFailed
  /\ UNCHANGED unanswered

\* Mutant: the request that timed out is not remembered.
SendTimeoutMutant ==
  /\ pc \in {"sending", "resending"}
  /\ SendFailed
  /\ UNCHANGED unanswered

\* No answer arrived within 5 s, whether or not Nav2 has accepted by now.
SendTimeout ==
  /\ pc \in {"sending", "resending"}
  /\ SendFailed
  /\ unanswered' = unanswered \union {request}

\* Mutant: a late acceptance is noticed and not cancelled.
CancelLateGoalMutant(id) ==
  /\ pc \in {"drive", "late"}
  /\ id \in unanswered /\ Answered(id)
  /\ unanswered' = unanswered \ {id}
  /\ UNCHANGED <<pc, missionVars, current_handle, result_future, request, endVars,
                 navVars, glimVars, interrupts>>

\* cancel_late_goals, for one request whose answer has arrived.
CancelLateGoal(id) ==
  /\ pc \in {"drive", "late"}
  /\ id \in unanswered /\ Answered(id)
  /\ unanswered' = unanswered \ {id}
  /\ cancelled' = IF Accepted(id) THEN cancelled \union {id} ELSE cancelled
  /\ UNCHANGED <<pc, missionVars, current_handle, result_future, request, endVars,
                 nav, visited, glimVars, interrupts>>

\* Each turn of the loop first counts what the latest feedback says is passed.
NowPassed ==
  IF poses_remaining = None \/ Len(names) - poses_remaining < passed
  THEN passed ELSE Len(names) - poses_remaining

CountPassed ==
  /\ passed' = NowPassed
  /\ reached' = reached \o SubSeq(names, passed + 1, NowPassed)

CountFeedback ==
  /\ pc = "drive"
  /\ CountPassed
  /\ UNCHANGED <<pc, stop_on_failure, leg, names, goals, poses_remaining, fresh, trackVars,
                 failed, rc, complained, navVars, glimVars, interrupts>>

\* Mutant: any result counts as success.
ResultArrivedMutant ==
  /\ pc = "drive" /\ Finished(result_future)
  /\ current_handle' = None
  /\ reached' = reached \o Ahead(names) /\ LegOver({})
  /\ passed' = NowPassed
  /\ UNCHANGED <<names, goals, poses_remaining, result_future, request, unanswered,
                 complained, navVars, glimVars, interrupts>>

\* The result of the tracked goal has arrived.  The feedback that came before
\* it counts; success counts for all waypoints that are left.
ResultArrived ==
  /\ pc = "drive" /\ Finished(result_future)
  /\ current_handle' = None
  /\ LET rest == SubSeq(names, NowPassed + 1, Len(names))
     IN  IF nav[result_future].status = "succeeded"
         THEN reached' = reached \o Ahead(names) /\ LegOver({})
         ELSE reached' = reached \o SubSeq(names, passed + 1, NowPassed) /\ LegOver(ToSet(rest))
  /\ passed' = NowPassed
  /\ UNCHANGED <<names, goals, poses_remaining, result_future, request, unanswered,
                 complained, navVars, glimVars, interrupts>>

\* refresh_period passed; the result had not arrived in this turn.
RefreshBegin ==
  /\ pc = "drive" /\ Len(nav) < MaxGoals
  /\ CountPassed
  /\ fresh' = <<>>
  /\ pc' = "refresh"
  /\ UNCHANGED <<stop_on_failure, leg, names, goals, poses_remaining, trackVars,
                 failed, rc, complained, navVars, glimVars, interrupts>>

\* One resolve of the waypoints ahead; it may fail.  After the last one the
\* goal is re-sent if all were found and one moved beyond the threshold.
Moved(places) ==
  /\ NotFound \notin ToSet(places)
  /\ \E i \in DOMAIN places : Distance(places[i], Ahead(goals)[i]) > Threshold

\* Mutant: the places seen replace the places sent, also when nothing is sent.
RefreshResolveDrifting(place) ==
  /\ pc = "refresh"
  /\ place \in {glim[Ahead(names)[Len(fresh) + 1]], NotFound}
  /\ LET answers == Append(fresh, place)
     IN  /\ fresh' = answers
         /\ pc' = IF Len(answers) < Len(Ahead(names)) THEN "refresh"
                  ELSE IF Moved(answers) THEN "resend" ELSE "drive"
         /\ goals' = IF pc' = "drive" /\ NotFound \notin ToSet(answers)
                     THEN SubSeq(goals, 1, passed) \o answers ELSE goals
  /\ UNCHANGED <<stop_on_failure, leg, names, passed, poses_remaining,
                 trackVars, endVars, navVars, glimVars, interrupts>>

RefreshResolve(place) ==
  /\ pc = "refresh"
  /\ place \in {glim[Ahead(names)[Len(fresh) + 1]], NotFound}
  /\ LET answers == Append(fresh, place)
     IN  /\ fresh' = answers
         /\ pc' = IF Len(answers) < Len(Ahead(names)) THEN "refresh"
                  ELSE IF Moved(answers) THEN "resend" ELSE "drive"
  /\ UNCHANGED <<stop_on_failure, leg, names, goals, passed, poses_remaining,
                 trackVars, endVars, navVars, glimVars, interrupts>>

\* cleanup: cancel the goal tracked now, then wait for late answers.
CancelCurrent ==
  /\ pc = "cleanup"
  /\ cancelled' = IF current_handle # None THEN cancelled \union {current_handle}
                  ELSE cancelled
  /\ pc' = "late"
  /\ UNCHANGED <<missionVars, trackVars, endVars, nav, visited, glimVars, interrupts>>

\* Every request is answered, or 5 s are over and the rest is reported.
Exit ==
  /\ pc = "late"
  /\ complained' = unanswered
  /\ pc' = "exited"
  /\ UNCHANGED <<missionVars, trackVars, failed, rc, reached, navVars, glimVars, interrupts>>

\* Ctrl+C or SIGTERM raises KeyboardInterrupt where the script waits.  What
\* send_action had in a local variable is gone.  One that arrives in cleanup
\* leaves main: Python exits with 130, without sys.exit(rc).
Interrupt ==
  /\ interrupts < MaxInterrupts
  /\ pc \in InterruptAt
  /\ IF pc = "late" THEN pc' = "exited" /\ rc' = 130
                    ELSE pc' = "cleanup" /\ rc' = 1
  /\ request' = None
  /\ interrupts' = interrupts + 1
  /\ UNCHANGED <<missionVars, current_handle, result_future, unanswered,
                 failed, reached, complained, navVars, glimVars>>

-----------------------------------------------------------------------------
(***************************************************************************)
(* Nav2, and GLIM as the script sees it.                                   *)
(***************************************************************************)

SetStatus(id, status) == [nav EXCEPT ![id].status = status]

\* Nav2 accepts a goal, however late; the goal that was executing is preempted.
NavAccept(id) ==
  /\ nav[id].status = "requested"
  /\ nav' = [i \in DOMAIN nav |->
       [nav[i] EXCEPT !.status = IF i = id THEN "executing"
                                 ELSE IF @ = "executing" THEN "aborted" ELSE @]]
  /\ UNCHANGED <<cancelled, visited>>

NavReject(id) ==
  /\ nav[id].status = "requested"
  /\ nav' = SetStatus(id, "rejected")
  /\ UNCHANGED <<cancelled, visited>>

\* The names of a route Nav2 still has to drive, in order.
ToDrive(id) ==
  LET n == Len(nav[id].route) IN SubSeq(nav[id].route, n - nav[id].remaining + 1, n)

\* RemovePassedGoals drops the next waypoint; it never drops the last.
NavPass(id) ==
  /\ Mode = "through" /\ nav[id].status = "executing" /\ nav[id].remaining > 1
  /\ nav' = [nav EXCEPT ![id].remaining = @ - 1]
  /\ visited' = visited \union {Head(ToDrive(id))}
  /\ UNCHANGED cancelled

NavSucceed(id) ==
  /\ nav[id].status = "executing"
  /\ nav' = SetStatus(id, "succeeded")
  /\ visited' = visited \union ToSet(ToDrive(id))
  /\ UNCHANGED cancelled

NavAbort(id) ==
  /\ nav[id].status = "executing"
  /\ nav' = SetStatus(id, "aborted")
  /\ UNCHANGED <<cancelled, visited>>

NavCancel(id) ==
  /\ nav[id].status = "executing" /\ id \in cancelled
  /\ nav' = SetStatus(id, "canceled")
  /\ UNCHANGED <<cancelled, visited>>

\* on_through_feedback: a message of any goal Nav2 accepted, also an old one,
\* reaches the script while it waits; the count may be out of date.
Feedback(id, remaining) ==
  /\ Mode = "through" /\ pc \notin {"send", "resend", "exited"}
  /\ Accepted(id)
  /\ remaining \in nav[id].remaining .. Len(nav[id].route)
  /\ poses_remaining' = remaining
  /\ UNCHANGED <<pc, stop_on_failure, leg, names, goals, passed, fresh,
                 trackVars, endVars, navVars, glimVars, interrupts>>

\* A submap is inserted or a loop closure moves the waypoint.
GlimMoves(name, place) ==
  /\ moves < MaxMoves
  /\ glim' = [glim EXCEPT ![name] = place]
  /\ moves' = moves + 1

ScriptUnchanged == UNCHANGED <<pc, missionVars, trackVars, endVars, interrupts>>

Script ==
  \/ ResolveNext \/ ResolveTimeout
  \/ SendGoal \/ SendAccepted \/ SendRejected \/ SendTimeout
  \/ \E id \in GoalIds : CancelLateGoal(id)
  \/ CountFeedback \/ ResultArrived
  \/ RefreshBegin
  \/ \E place \in Places \union {NotFound} : RefreshResolve(place)
  \/ CancelCurrent \/ Exit

NavAnswers(id) == ScriptUnchanged /\ UNCHANGED glimVars /\ (NavAccept(id) \/ NavReject(id))
NavDrives(id)  == ScriptUnchanged /\ UNCHANGED glimVars /\ NavPass(id)
NavEnds(id)    == ScriptUnchanged /\ UNCHANGED glimVars /\ (NavSucceed(id) \/ NavAbort(id))
NavStops(id)   == ScriptUnchanged /\ UNCHANGED glimVars /\ NavCancel(id)

Next ==
  \/ Script
  \/ Interrupt
  \/ \E id \in GoalIds : NavAnswers(id) \/ NavDrives(id) \/ NavEnds(id) \/ NavStops(id)
  \/ \E id \in GoalIds, remaining \in 1 .. Len(Route) : Feedback(id, remaining)
  \/ \E name \in Names, place \in Places : ScriptUnchanged /\ UNCHANGED navVars /\ GlimMoves(name, place)

Spec == Init /\ [][Next]_vars

\* The script always goes on: each of its waits has a timeout.  In its loop it
\* reads a result that has arrived before it refreshes again, which is strong
\* fairness here: a refresh takes it out of "drive" for a while.  Nav2 stops a
\* goal it was asked to cancel; it need not answer a request or end a goal.
Fairness ==
  /\ WF_vars(Script /\ pc # "drive")
  /\ SF_vars(ResultArrived)
  /\ \A id \in 1 .. (MaxGoals + Len(Route)) : WF_vars(id \in GoalIds /\ NavStops(id))

FairSpec == Spec /\ Fairness
-----------------------------------------------------------------------------
Statuses == {"requested", "rejected", "executing", "succeeded", "aborted", "canceled"}
MaybeGoal == GoalIds \union {None}

TypeOK ==
  /\ pc \in {"resolve", "send", "sending", "drive", "refresh", "resend", "resending",
             "cleanup", "late", "exited"}
  /\ leg \in DOMAIN Route /\ stop_on_failure \in BOOLEAN
  /\ names \in Seq(Names) /\ goals \in Seq(Places) /\ Len(names) = Len(goals)
  /\ passed \in 0 .. Len(names)
  /\ poses_remaining \in 1 .. Len(Route) \union {None}
  /\ fresh \in Seq(Places \union {NotFound})
  /\ current_handle \in MaybeGoal /\ result_future \in MaybeGoal /\ request \in MaybeGoal
  /\ unanswered \subseteq GoalIds /\ cancelled \subseteq GoalIds /\ complained \subseteq GoalIds
  /\ failed \subseteq Names /\ visited \subseteq Names
  /\ rc \in {0, 1, 130, None}
  /\ \A id \in GoalIds :
       /\ nav[id].status \in Statuses
       /\ nav[id].route \in Seq(Names) /\ nav[id].target \in Seq(Places)
       /\ nav[id].remaining \in 1 .. Len(nav[id].route)
  /\ glim \in [Names -> Places \union {NotFound}]
  /\ reached \in Seq(Names)

\* mission_edge_test.sh:2 "must never leave the rover driving on its own": once
\* the script has exited, each goal that Nav2 executes or may still accept was
\* cancelled, or the operator was told to look at RViz.
NoRunawayGoal ==
  pc = "exited" =>
    \A id \in GoalIds : Live(id) => id \in cancelled \union complained

\* While it runs, the script can always reach the goals that are alive: Nav2
\* drives no goal that nobody tracks (the comment on `unanswered`).
LiveGoalsTracked ==
  \A id \in GoalIds : Live(id) =>
    id \in {current_handle, request} \union unanswered \union cancelled \union complained

\* The variables have their types, and no goal is alive that nobody can reach,
\* while the script runs and once it has exited.
GoalsAreTracked == TypeOK /\ LiveGoalsTracked /\ NoRunawayGoal

\* The bookkeeping agrees with Nav2: the goal whose result is awaited is the one
\* cleanup would cancel, and it drives through `names` at `goals`.
BooksMatchNav ==
  pc \in {"drive", "refresh", "resend", "resending"} =>
    /\ current_handle = result_future
    /\ Accepted(result_future)
    /\ nav[result_future].route = names
    /\ nav[result_future].target = goals

\* A refresh that saw every waypoint ahead and did not re-send leaves each one
\* within the threshold of where Nav2 is driving to, however many small
\* corrections came before: drift does not add up.
DriftStaysBelowThreshold ==
  [][(pc = "refresh" /\ pc' = "drive" /\ NotFound \notin ToSet(fresh'))
       => \A i \in DOMAIN fresh' :
            Distance(fresh'[i], nav[result_future].target[passed + i]) <= Threshold]_vars

\* A name is logged as reached at most once, in the order of the mission, and
\* only if the rover has been there, also when feedback of a goal that was
\* replaced is counted against the new one.
ReachedIsTrue ==
  /\ ToSet(reached) \subseteq visited
  /\ \A i, j \in DOMAIN reached : reached[i] = reached[j] => i = j
  /\ Mode = "through" => IsPrefix(reached, Route)

\* Exit code 0 means every waypoint of the mission was driven to.
SuccessMeansAllReached ==
  rc = 0 => visited = Names /\ ToSet(reached) = Names

\* Every waypoint is accounted for at the end of a mission that was not
\* interrupted and did not stop early: logged as reached or listed as failed.
NothingForgotten ==
  rc # None /\ interrupts = 0 /\ ~stop_on_failure =>
    ToSet(reached) \union failed = Names

\* The script does not hang: it ends, unless Nav2 drives the goal it waits for
\* for ever.
MissionEnds ==
  \/ <>(pc = "exited")
  \/ <>[](result_future # None /\ nav[result_future].status = "executing")

\* Once the script has ended, whatever Nav2 accepts and however late, the rover
\* comes to rest or drives a goal the operator was told about.
RoverStops ==
  [](pc = "exited" =>
       <>[](\A id \in GoalIds : nav[id].status = "executing" => id \in complained))

\* A mission ends, and the rover with it.
MissionEndsAtRest == MissionEnds /\ RoverStops

\* waypoint_mission.py:24-26: the goal is re-sent "with only the waypoints not
\* yet passed".  What the script has been told by feedback is not re-sent.
KnownPassed ==
  IF poses_remaining = None THEN {}
  ELSE ToSet(SubSeq(names, 1, Len(names) - poses_remaining))

ResendsOnlyAhead ==
  [][pc = "resend" /\ pc' = "resending" => ToSet(nav'[request'].route) \intersect KnownPassed = {}]_vars

=============================================================================
