---------------------------- MODULE MappingChain ----------------------------
(***************************************************************************)
(* From a scan to Nav2's map: the angle filter passes scans to GLIM, GLIM  *)
(* adds them to its map and publishes the whole map now and then, and      *)
(* pcd2pgm makes the grid of it.  GLIM is external: it aborts on a scan of *)
(* which nothing lies between distance_near_thresh and distance_far_thresh,*)
(* may be restarted with an empty map, and its corrections of old places   *)
(* are left out.                                                           *)
(***************************************************************************)
EXTENDS AngleFilter, LiveMap

CONSTANTS
  Scans,             \* what the lidar may send: wellformed, points; a point
                     \* also has its place on the map
  GlimNear, GlimFar, \* GLIM's distance_near_thresh and distance_far_thresh
  MaxClouds, MaxRuns \* bounds: clouds GLIM publishes, times it is started

ASSUME ChainAssumption ==
  /\ {GlimNear, GlimFar} \subseteq Nat /\ MaxClouds \in Nat /\ MaxRuns \in Nat \ {0}
  /\ \A scan \in Scans :
       /\ IsFiniteSet(scan.points)
       /\ \A p \in scan.points : /\ p.bearing \in Int /\ p.range \in Nat
                                 /\ p.place \in Int \X Int \X Int

\* The gate is on and its range above GLIM's, as the filter's comment asks.
ASSUME GateAboveGlim == MinUsablePoints > 0 /\ MinUsableRange > GlimNear

VARIABLES
  aborted_on,       \* the scan GLIM has aborted on, if it has
  glim_run,         \* times GLIM was started
  glim_map,         \* places
  published         \* number of clouds published

glimVars == <<aborted_on, glim_run, glim_map, published>>

vars == <<mapVars, glimVars>>

Init ==
  /\ MapInit
  /\ aborted_on = {}
  /\ glim_run = 1
  /\ glim_map = {}
  /\ published = 0

-----------------------------------------------------------------------------
BeyondFar(points) == {p \in points : p.nan = {} /\ p.range >= GlimFar}

\* What GLIM's own filter leaves.  It is not in the repository: points on the
\* thresholds count as out.
InGlimRange(points) == {p \in points : p.nan = {} /\ p.range > GlimNear} \ BeyondFar(points)

\* A scan comes through the filter; best effort, so that it may also be lost.
GlimTakesScan ==
  /\ aborted_on = {}
  /\ \E scan \in Scans : \E points \in FilterCloud(scan) :
       /\ aborted_on' = IF InGlimRange(points) = {} THEN {points} ELSE {}
       /\ glim_map'   = glim_map \union {p.place : p \in InGlimRange(points)}
  /\ UNCHANGED <<mapVars, glim_run, published>>

\* A node that is not in live mode does not subscribe.
GlimPublishes ==
  /\ aborted_on = {}
  /\ published < MaxClouds
  /\ published' = published + 1
  /\ clouds' = IF pgm = "live"
                 THEN KeepLast(clouds, [n |-> published', run |-> glim_run, points |-> glim_map])
                 ELSE clouds
  /\ UNCHANGED <<live_topic, pgm, map_topic_msg, retained, nav, source,
                 aborted_on, glim_run, glim_map>>

GlimRestarts ==
  /\ glim_run < MaxRuns
  /\ aborted_on' = {}
  /\ glim_run' = glim_run + 1
  /\ glim_map' = {}
  /\ UNCHANGED <<mapVars, published>>

Next ==
  \/ GlimTakesScan \/ GlimPublishes \/ GlimRestarts
  \/ MapNext /\ UNCHANGED glimVars

(***************************************************************************)
(* The node's executor and Nav2's run callbacks that are due; that scans   *)
(* come, GLIM publishes or Nav2 is started is not assumed.                 *)
(***************************************************************************)
Fairness ==
  /\ WF_vars(LiveCloudCallback /\ UNCHANGED glimVars)
  /\ WF_vars(Timer /\ UNCHANGED glimVars)
  /\ WF_vars(NavReceive /\ UNCHANGED glimVars)

Spec == Init /\ [][Next]_vars /\ Fairness

-----------------------------------------------------------------------------
(***************************************************************************)
(* Properties.                                                             *)
(***************************************************************************)
Places == Int \X Int \X Int

IsGrid(msg) ==
  /\ {msg.stamp, msg.width, msg.height} \subseteq Nat
  /\ msg.origin \in Int \X Int
  /\ msg.data \subseteq 0 .. msg.width * msg.height - 1

IsCloud(cloud) ==
  /\ cloud.n \in 0 .. MaxClouds
  /\ cloud.run \in 0 .. MaxRuns
  /\ cloud.points \subseteq Places

\* The state has its types: no grid marks a cell outside its data, and no more
\* clouds wait than the subscription's depth.
TypeOK ==
  /\ <<live_topic, nav.up>> \in BOOLEAN \X BOOLEAN
  /\ pgm \in {"off", "live", "file", "failed"}
  /\ Len(clouds) <= QueueDepth
  /\ \A k \in DOMAIN clouds : IsCloud(clouds[k])
  /\ \A msg \in {map_topic_msg} \union retained \union nav.inbox \union nav.map : IsGrid(msg)
  /\ nav.starts \in 0 .. MaxNavStarts
  /\ IsCloud(source)
  /\ Cardinality(aborted_on) <= 1
  /\ glim_run \in 1 .. MaxRuns
  /\ glim_map \subseteq Places
  /\ published \in 0 .. MaxClouds

\* Whatever covers or blinds the lidar, GLIM is not sent a scan it aborts on: if
\* it is, what the gate counted lies beyond GLIM's far threshold.
CoverNeverStarvesGlim ==
  \A points \in aborted_on : Cardinality(BeyondFar(points)) >= MinUsablePoints

\* GLIM aborts on no scan.  angle_filter.yaml:10-13 has it so, and it is so only of a
\* lidar that sees no farther than GLIM's far threshold.
GlimNeverStarved == aborted_on = {}

\* Whether p lies in a sector around a centre, on a circle: the point may be
\* turns away from the centre, the edges belong to it, and a width of 0 is none.
LiesIn(p, center, width) ==
  /\ p.nan = {} /\ ~OnAxis(p) /\ width > 0
  /\ \E turn \in -2 .. 2 : 2 * (p.bearing + 360 * turn - center) \in -width .. width

IsBody(p) == LiesIn(p, FrontCenter, FrontSector) \/ LiesIn(p, FrontCenter + 180, BackSector)

\* Nothing seen only in the two sectors that hold the rover's own body ends up in
\* the map, where it would be an obstacle wherever the rover has been.
BodyNeverInMap ==
  \A place \in glim_map :
    \E scan \in Scans : \E p \in scan.points : p.place = place /\ ~IsBody(p)

\* The state has its types, and nothing of the rover is on the map.
MapIsSound == TypeOK /\ BodyNeverInMap

\* Every cell of the grid is marked exactly if an obstacle of the cloud it was
\* made of lies in it: nothing is mirrored, moved to the border or invented.
GridShowsCloud ==
  LET msg    == map_topic_msg
      Lower(i, axis) == msg.origin[axis] + i * Resolution
  IN  \A i \in 0 .. msg.width - 1, j \in 0 .. msg.height - 1 :
        (i + j * msg.width) \in msg.data <=>
          \E p \in Obstacles(source.points) :
            /\ Lower(i, 1) <= p[1] /\ p[1] < Lower(i + 1, 1)
            /\ Lower(j, 2) <= p[2] /\ p[2] < Lower(j + 1, 2)

\* A map made from a file leaves out obstacles only at the far edges of the
\* cloud, where its extent ends on the border of a cell.
FileMapLosesOnlyTheEdge ==
  pgm = "file" =>
    LET obstacles == Obstacles(source.points)
        Inside(p) == LET c == CellOf(p, map_topic_msg.origin)
                     IN  /\ c[1] < map_topic_msg.width /\ c[2] < map_topic_msg.height
                         /\ c[1] + c[2] * map_topic_msg.width \in map_topic_msg.data
        Farthest(p) == \E axis \in {1, 2} : \A q \in obstacles : q[axis] <= p[axis]
    IN  \A p \in obstacles : Inside(p) \/ Farthest(p)

\* As long as GLIM is not restarted, an obstacle once on the map stays there,
\* although each grid is made from scratch and clouds may be skipped.
ObstaclesStay ==
  [][source.run = source'.run /\ pgm = "live" =>
       map_topic_msg.data \subseteq map_topic_msg'.data]_vars

\* The whole map is wiped only by a cloud with obstacles, all of them outside
\* the grid: then pcd2pgm does publish an all-free grid, which pcd2pgm/README.md:38
\* says it never does.  GLIM starting again with an empty map does not do it.
NoSilentWipe ==
  [][(map_topic_msg.data # {} /\ map_topic_msg'.data = {}) =>
       \E p \in Obstacles(source'.points) : TRUE]_vars


\* A map is not lost for want of a cloud: neither one obstacle nor all.
MapIsKept == ObstaclesStay /\ NoSilentWipe

\* The last cloud GLIM publishes ends up in the grid if it is received and has
\* an obstacle.  Nav2 gets the grid of a file, and of the live cloud once GLIM
\* publishes no more, also when it is started long after.
LatestMapReachesNav ==
  /\ (\E k \in DOMAIN clouds :
         clouds[k].n = MaxClouds /\ Obstacles(clouds[k].points) # {})
       ~> map_topic_msg.stamp = MaxClouds
  /\ (nav.up /\ (pgm = "file" \/ (map_topic_msg # NoGrid /\ published = MaxClouds)))
       ~> (~nav.up \/ nav.map = {map_topic_msg})
=============================================================================
