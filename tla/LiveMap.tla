------------------------------- MODULE LiveMap -------------------------------
(***************************************************************************)
(* pcd2pgm makes the occupancy grid Nav2's static layer is built from:     *)
(* from each cloud GLIM publishes (live mode), or once from a file.  Nav2  *)
(* may start late or again; the grid is transient_local, so it then gets   *)
(* the last one.  Places are triples of integers; a grid's data is the set *)
(* of the indices that hold an obstacle.                                   *)
(***************************************************************************)
EXTENDS Integers, Sequences, FiniteSets, FiniteSetsExt

CONSTANTS
  ZMin, ZMax, FlagPassThrough,     \* PassThrough, and whether it is negated
  RadiusSquared, MinNeighbours,    \* RadiusOutlierRemoval
  Resolution,
  FixedOrigin, FixedSize,          \* of the live grid, <<x, y>>
  OdomToLidar,                     \* the file's translation, <<x, y, z>>
  QueueDepth,                      \* of the live subscription, 5 in the code
  Files,                           \* clouds the file may hold
  MaxNavStarts                     \* bound

ASSUME LiveMapAssumption ==
  /\ {ZMin, ZMax} \subseteq Int /\ FlagPassThrough \in BOOLEAN
  /\ {RadiusSquared, MinNeighbours, MaxNavStarts} \subseteq Nat
  /\ {Resolution, QueueDepth} \subseteq Nat \ {0}
  /\ FixedOrigin \in Int \X Int /\ FixedSize \in Nat \X Nat
  /\ OdomToLidar \in Int \X Int \X Int
  /\ \A file \in Files : file \subseteq Int \X Int \X Int /\ IsFiniteSet(file)

VARIABLES
  live_topic,      \* parameter: whether it is set
  pgm,             \* the node: "off", "live", "file", "failed"
  clouds,          \* received and not yet handled: number, GLIM run, points
  map_topic_msg,
  retained,        \* set with the last grid published, empty before
  nav,             \* Nav2: starts so far, up, grid received, grid in use
  source           \* history: the cloud map_topic_msg was made of

mapVars == <<live_topic, pgm, clouds, map_topic_msg, retained, nav, source>>

NoGrid  == [stamp |-> 0, origin |-> <<0, 0>>, width |-> 0, height |-> 0, data |-> {}]
NoCloud == [n |-> 0, run |-> 0, points |-> {}]

MapInit ==
  /\ live_topic \in BOOLEAN
  /\ pgm = "off"
  /\ clouds = <<>>
  /\ map_topic_msg = NoGrid
  /\ retained = {}
  /\ nav = [starts |-> 0, up |-> FALSE, inbox |-> {}, map |-> {}]
  /\ source = NoCloud

-----------------------------------------------------------------------------
PassThroughFilter(points) == {p \in points : (p[3] \in ZMin .. ZMax) # FlagPassThrough}

DistanceSquared(p, q) ==
  (p[1] - q[1]) * (p[1] - q[1]) + (p[2] - q[2]) * (p[2] - q[2]) + (p[3] - q[3]) * (p[3] - q[3])

Neighbours(points, p) == {q \in points \ {p} : DistanceSquared(p, q) <= RadiusSquared}

RadiusOutlierFilter(points) ==
  {p \in points : Cardinality(Neighbours(points, p)) >= MinNeighbours}

\* The cloud that is rasterised; PCL's own neighbour count excludes the point.
Obstacles(points) == RadiusOutlierFilter(PassThroughFilter(points))

\* Mutant: the file's extent is rounded down to whole cells.
FloorDiv(a, b) == a \div b

CeilDiv(a, b) == -((-a) \div b)

\* Mutant: the conversion to int truncates.
TruncatedCell(p, origin) ==
  LET Cut(a) == IF a >= 0 THEN a \div Resolution ELSE -((-a) \div Resolution)
  IN  <<Cut(p[1] - origin[1]), Cut(p[2] - origin[2])>>

CellOf(p, origin) ==
  <<(p[1] - origin[1]) \div Resolution, (p[2] - origin[2]) \div Resolution>>

\* A grid in which the points inside it are marked, row after row.
Grid(stamp, points, origin, size) ==
  LET width  == CeilDiv(size[1], Resolution)
      height == CeilDiv(size[2], Resolution)
      cells  == {CellOf(p, origin) : p \in points} \intersect
                  ((0 .. width - 1) \X (0 .. height - 1))
  IN  [stamp |-> stamp, origin |-> origin, width |-> width, height |-> height,
       data |-> {c[1] + c[2] * width : c \in cells}]

SetMapTopicMsgFixedBounds(n, points) == Grid(n, points, FixedOrigin, FixedSize)

\* The bounding box; an empty cloud leaves the message as it was.
SetMapTopicMsgDynamicBounds(points) ==
  IF points = {} THEN map_topic_msg
  ELSE LET xs     == {p[1] : p \in points}
           ys     == {p[2] : p \in points}
           origin == <<Min(xs), Min(ys)>>
       IN  Grid(0, points, origin, <<Max(xs) - origin[1], Max(ys) - origin[2]>>)

\* The file's transform, of which the rotation is left out.
ApplyTransform(points) ==
  {<<p[1] - OdomToLidar[1], p[2] - OdomToLidar[2], p[3] - OdomToLidar[3]>> : p \in points}

\* Mutant: the publisher is volatile, so nothing is kept for a later subscriber.
PublishCallbackVolatile(msg) ==
  /\ retained' = {}
  /\ nav' = IF nav.up THEN [nav EXCEPT !.inbox = {msg}] ELSE nav

\* publishCallback: transient_local, keep_last(1).
PublishCallback(msg) ==
  /\ retained' = {msg}
  /\ nav' = IF nav.up THEN [nav EXCEPT !.inbox = {msg}] ELSE nav

-----------------------------------------------------------------------------
\* The constructor.  A file that cannot be read leaves a node without timer.
Pcd2PgmNode ==
  /\ pgm = "off"
  /\ \/ /\ live_topic
        /\ pgm' = "live"
        /\ UNCHANGED <<source, map_topic_msg>>
     \/ /\ ~live_topic
        /\ pgm' = "failed"
        /\ UNCHANGED <<source, map_topic_msg>>
     \/ \E file \in Files :
          /\ ~live_topic
          /\ pgm' = "file"
          /\ source' = [NoCloud EXCEPT !.points = ApplyTransform(file)]
          /\ map_topic_msg' = SetMapTopicMsgDynamicBounds(Obstacles(ApplyTransform(file)))
  /\ UNCHANGED <<live_topic, clouds, retained, nav>>

\* Mutant: every cloud is rasterised.
LiveCloudCallbackAlways ==
  LET cloud == Head(clouds)
  IN  /\ pgm = "live"
      /\ clouds # <<>>
      /\ clouds' = Tail(clouds)
      /\ source' = cloud
      /\ map_topic_msg' = SetMapTopicMsgFixedBounds(cloud.n, Obstacles(cloud.points))
      /\ PublishCallback(map_topic_msg')
      /\ UNCHANGED <<live_topic, pgm>>

\* A cloud of which a filter leaves nothing keeps the last grid.
LiveCloudCallback ==
  LET cloud == Head(clouds)
  IN  /\ pgm = "live"
      /\ clouds # <<>>
      /\ clouds' = Tail(clouds)
      /\ IF Obstacles(cloud.points) = {}
           THEN UNCHANGED <<map_topic_msg, retained, nav, source>>
           ELSE /\ source' = cloud
                /\ map_topic_msg' = SetMapTopicMsgFixedBounds(cloud.n, Obstacles(cloud.points))
                /\ PublishCallback(map_topic_msg')
      /\ UNCHANGED <<live_topic, pgm>>

\* The wall timer, in file mode only.
Timer ==
  /\ pgm = "file"
  /\ PublishCallback(map_topic_msg)
  /\ UNCHANGED <<live_topic, pgm, clouds, map_topic_msg, source>>

\* QoS(5).reliable(): when full, the oldest cloud goes.
KeepLast(queue, cloud) ==
  IF Len(queue) < QueueDepth THEN Append(queue, cloud) ELSE Append(Tail(queue), cloud)

-----------------------------------------------------------------------------
Node == UNCHANGED <<live_topic, pgm, clouds, map_topic_msg, retained, source>>

\* Nav2 subscribes and is sent what the publisher retains.
NavStart ==
  /\ ~nav.up
  /\ nav.starts < MaxNavStarts
  /\ nav' = [starts |-> nav.starts + 1, up |-> TRUE, inbox |-> retained, map |-> {}]
  /\ Node

NavStop ==
  /\ nav.up
  /\ nav' = [nav EXCEPT !.up = FALSE]
  /\ Node

NavReceive ==
  /\ nav.up
  /\ nav.inbox # {}
  /\ nav' = [nav EXCEPT !.map = nav.inbox, !.inbox = {}]
  /\ Node

MapNext == Pcd2PgmNode \/ LiveCloudCallback \/ Timer \/ NavStart \/ NavStop \/ NavReceive
=============================================================================
