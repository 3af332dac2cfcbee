-------------------------- MODULE MCWaypointMission --------------------------
(***************************************************************************)
(* WaypointMission with missions of two and three waypoints on a line of   *)
(* three places: one step of a waypoint stays within the threshold, two    *)
(* steps do not.                                                           *)
(***************************************************************************)
EXTENDS WaypointMission

TwoStops == <<"wp1", "wp2">>
ThreeStops == <<"wp1", "wp2", "wp3">>
Line == 0 .. 2
FarLine == {0, 2}
=============================================================================
