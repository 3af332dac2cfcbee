--------------------------- MODULE MCLidarStreams ---------------------------
(***************************************************************************)
(* PubHandler and ImuPath for TLC: two lidars, the second with two echoes  *)
(* per measurement and without an entry in the user's configuration.       *)
(***************************************************************************)
EXTENDS ImuPath

MCEchoes  == [l \in Lidars |-> IF l = "a" THEN 1 ELSE 2]
MClidars_ == <<"a", "b">>

Load(a, b, losses, delays, switches, imu, ends, clocks) ==
  [packets |-> [l \in Lidars |-> IF l = "a" THEN a ELSE b],
   losses |-> losses, delays |-> delays, switches |-> switches, imu |-> imu,
   ends |-> ends, locked |-> [l \in Lidars |-> l \in clocks]]


\* One lidar for three frames with a packet lost, one for fewer with the host
\* running ahead of it, one that loses its time source, so that points are before
\* the base time of their frame, two with a clock switched under them, and IMU
\* packets.
MCLoads ==
  { Load(8, 0, 1, 0, 0, 0, {"PubHandler"}, clocks) : clocks \in {{}, {"a"}} } \union
  { Load(6, 0, 0, 1, 0, 0, {"PubHandler"}, {}) } \union
  { Load(5, 0, 0, 1, 1, 0, {}, {"a"}) } \union
  { Load(4, 4, 0, 0, 1, 0, {}, clocks) : clocks \in {{}, Lidars} } \union
  { Load(0, 0, 0, 0, 0, 2, {"DriverNode"}, {"a"}) }
=============================================================================
