-------------------------- MODULE MCPointCloudPath --------------------------
(***************************************************************************)
(* PointCloudPath for TLC: one lidar sends two different packets, in any   *)
(* order and as often as it likes, so that a ring which hands them over in *)
(* another order, repeats one or reads a wrong slot is told from one that  *)
(* does not; the other lidar's packet differs from both.                   *)
(***************************************************************************)
EXTENDS PointCloudPath

CONSTANTS frame1, frame2, frame3   \* model values

MCPackets == {frame1, frame2, frame3}

MCPacketsOf == [l \in Lidars |-> IF l = 0 THEN {frame1, frame2} ELSE {frame3}]
=============================================================================
