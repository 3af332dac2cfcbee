# Kratos rover: a verification project

TLA+ specifications of the parts of this repository in which several threads,
processes or long sequences of calls meet: the waypoint manager that runs inside
GLIM, the mission script that drives the rover from tag to tag, the Livox driver
from a lidar's announcement to the published message, and the chain from a scan
through the angle filter and GLIM to the occupancy grid Nav2 plans on. TLC
checks them on small instances, TLAPS proves the safety properties the runs check
for every value of the constants.

Every definition is translated from the source. `PROJECT.json` gives the lines
each one stands for (`map`), the runs, the hazards the properties are for, and,
for every property that holds, a plausible bug that breaks it (`mutants`: the
definitions whose comment begins with "Mutant").

Contents: 1 the system, 2 the modules and the code, 3 the runs, 4 the proofs,
5 disagreements found, 6 what is only checked and what is not modelled, 7 the
plan, 8 how to run it.

## 1. The system

```
 Livox MID-360 --UDP--> livox_ros_driver2 --> lidar_angle_filter --> GLIM (external SLAM)
                                                                      |  + waypoint_manager (in process)
                                              pcd2pgm <--- map cloud -+        ^   ^
                                                 | /map                        |   | add / get / list / save
                                                 v                             |   +------- operator
   ZED + nvblox (external) --------------->  Nav2 (external) <--- goals --- waypoint_mission.py
   start.sh / stop.sh / bringup.sh / start_tui.sh start and stop all of it, in a container or on bare metal
```

### Components, their state and what is hard about them

**Waypoint manager** (`src/glim/glim_ext_addon/waypoint_manager`). State: the
latest odometry frame, the finished submaps and the frames they span, the map
poses of the inserted submaps, the bound tags, the pending tags, one mutex.
Operations: four GLIM callbacks on three threads (new frame; new submap; insert
submap and update submaps), four services (add, get, list, save), two timers
(markers, autosave). Hard: a tag is made at a frame whose submap may be forming,
finished, inserted or already corrected; binding a tag moves it from one list to
the other while the list is walked; the pose graph moves submaps at any time;
the file is truncated before it is written and GLIM may die. Correct when: no
tag is lost, duplicated or bound to another submap than the one built around
it; the answer is the tagged place moved by exactly the current correction; the
list is in tag order; a save that succeeded holds everything.

**Mission script** (`src/src/kratos_nav/scripts/waypoint_mission.py`). One
blocking thread. State: the waypoints and places of the goal being driven, how
many are passed, the tracked goal handle, the requests that timed out, the names
that failed. Operations: resolve, send (one pose or a route), feedback, refresh
and re-send, result, clean-up, Ctrl+C. Hard: every wait may time out while the
other side still acts, above all Nav2 accepting a goal after the script stopped
waiting; a goal is replaced while feedback and results of the old one are on
their way; Ctrl+C in any wait. Correct when: no goal is left driving that nobody
would cancel; the books agree with Nav2; every waypoint is accounted for; the
script ends.

**Livox driver** (`src/src/livox_ros_driver2/src`). Threads: SDK callbacks, the
PubHandler thread that assembles frames, one poll thread for points and one for
IMU data, and the thread that runs `~DriverNode`. State: raw packet queue, one
ring per lidar without a lock, two counting semaphores, `connect_state` and the
bits of the settings still to be confirmed per lidar, a table from handle to
slot, `request_exit_`, a promise. Hard: the ring is lock-free and its indices
wrap; the semaphore's count is read without its lock to decide whether to wake
the poll thread; settings time out and are asked again from their own callbacks;
the destructor joins threads that sleep; a frame is cut by two rules, one for
lidars with a common clock and one for the host's, and one flag, written by every
packet of every lidar, chooses between them; the extrinsics are read without the
lock their writer holds. Correct when: frames come out whole, in order, once, and
on time; each point is in its lidar's pose; no wakeup is lost; IMU packets are
published in order, each once; a configured lidar ends up sampling; the threads
end.

**lidar_angle_filter.** One callback: masks points by azimuth sector and
elevation, and drops a scan with too few usable points, because such a scan
aborts GLIM. No state between scans apart from counters. Hard: sectors that wrap
at +-180 degrees, the limit of the gate, points without a bearing or with a
coordinate that is not finite. Correct when: nothing seen of the rover itself gets
into the map, and GLIM never gets a scan it can use nothing of.

**pcd2pgm.** The live callback turns the map cloud into an occupancy grid;
in file mode the constructor does so once and a timer repeats it. State: the last
grid, the queue of clouds, and what the publisher retains. An empty cloud keeps
the last map. Hard: the edges of the grid, clouds skipped when they come too fast,
GLIM starting again with an empty map, and what a late subscriber sees. Correct
when: a cell is marked exactly if an obstacle lies in it; an obstacle stays while
GLIM runs; the last grid reaches Nav2 whenever it starts.

**Stack scripts** (`start.sh`, `stop.sh`, `bringup.sh`). State outside any
process: a container, a lock file, the GLIM session directory, the start mark.
Hard: two starts, or a start and a stop, at the same time: the lock is only probed,
so that a bare-metal start between the probe and the launch in the container leaves
two stacks, and `stop.sh` files the session directories newer than a start mark that
a second start overwrites.

**kratos_bringup, kratos_nav launch files, kratos_perception, GLIM configuration,
waypoint_interfaces, glim_dump_export, build scripts, tools.** Declarative, or
one sequential pass without state; not modelled (`components` in `PROJECT.json`
gives the reason for each).

**External.** GLIM, Nav2, RViz, the Livox SDK, ZED and nvblox are not in the
repository. The models contain what the code relies on: GLIM's three callback
threads and the order submaps finish and are inserted in; Nav2 accepting,
rejecting, preempting, driving, ending and cancelling goals; RViz keeping a
marker until its id is published again; the SDK calling back once a lidar
samples.

### How they interact

| from | to | how | where it is modelled |
|---|---|---|---|
| GLIM threads | waypoint manager | callbacks under `mtx` | `WaypointManager`, `WaypointLists` |
| operator, mission | waypoint manager | services on the ROS executor, same `mtx` | same; as seen by the script, `glim` in `WaypointMission` |
| waypoint manager | disk | autosave timer and `save_waypoints` | `WaypointStore` |
| mission | Nav2 | two actions with feedback, results and cancellation | `WaypointMission` |
| SDK callback | PubHandler thread | raw packet queue under `packet_mutex_`, a timed wait, `is_timestamp_sync_` | `PubHandler` |
| `InitLdsLidar` | PubHandler thread | extrinsics, then the thread's start | `PubHandler` |
| SDK callback | IMU poll thread | locked queue per lidar, semaphore | `ImuPath` |
| PubHandler thread | point poll thread | ring per lidar, semaphore | `PointCloudPath` |
| SDK callbacks | point poll thread | `connect_state` | `PointCloudPath` |
| SDK | SDK callbacks | announcements, requests and their answers | `LidarConfig` |
| `~DriverNode` | poll threads | `request_exit_`, promise, join | `PointCloudPath`, `ImuPath` |
| driver | GLIM | `lidar_angle_filter`, best effort | `AngleFilter`, `MappingChain` |
| GLIM | pcd2pgm | map cloud, queue of five, reliable | `MappingChain` |
| pcd2pgm | Nav2 | `/map`, transient local, the last one | `LiveMap` |

## 2. The modules and the code

`MC*.tla` only give values to constants. `*Proofs.tla` hold the theorems.

**TagRegistry** is what an operator may rely on: each name stands for the place it
was last tagged at, and once it can be answered it stays answerable until it is
tagged again. Nothing but tagging changes what a name stands for.

**WaypointManager** is the manager with its two lists as sets. One action per
callback or service that changes state, because every one of them holds `mtx`
from its first access to its end; `get_waypoint` changes nothing and is the
operator `Resolved`. Poses are the elements of an arbitrary group (`PoseGroup`):
the code only multiplies and inverts rigid transformations, and a group need not
be commutative, so swapping two factors is a visible error. Frames are numbered;
a submap holds a stretch `first..last` of frames no earlier submap holds, and
may leave frames out, which the last property needs. `tagged` is a history
variable. `ImplementsRegistry` shows it implements `TagRegistry`, where a bound
tag's place is recovered through its submap's odometry origin.

**WaypointLists** is the same manager with the vectors as sequences, the loop of
`bind_pending_waypoints_locked` that erases from the vector it walks, the order
`list_waypoints` reports, and the markers in RViz, which are added and never
deleted. It INSTANCEs `WaypointManager` and implements it (`ImplementsManager`).
**Selection** is what such a loop leaves and what it makes: `Kept`, as a recursive
function, so that its laws can be proved, and `Mapped`. `PubHandler` uses it too,
for the packets of one lidar in the queue of all.
Here submaps leave no frame out: otherwise a tag made at a frame that was left
out waits for ever and later tags overtake it, and the list is not in tag order.

**WaypointStore** extends `WaypointManager` with the file system: `write_yaml`
truncates its file when it opens it and writes the whole document at the end,
holding `mtx` throughout, so that handlers run before or after but the process
may die in between. `FinishSave` is also the write a full disk swallows: the
stream is not looked at. `Crash` and `Restart` lose the memory, keep the disk,
and start from nothing, because there is no way to load the file.

**WaypointMission** is the script with the Nav2 and GLIM it sees. The script is
single-threaded and blocks in `rclpy.spin_*`; an action of the script is what it
does from one wait to the next, and everything else happens in the waits. `pc`
names the wait. `go_to` is a leg of one waypoint, `go_through` a leg of all of
them; their loops differ only in the feedback (`Mode`). `unanswered`,
`current_handle`, `result_future`, `passed`, `names`, `goals` and
`poses_remaining` are the script's attributes and loop variables of those names.
Places are on a line, which is all that `moved > replan_threshold` tells apart.

**LidarDataQueue** is the ring of `ldq.cpp` as operators: indices of `IndexBits`
bits that are never masked and wrap, a slot at `index & (size - 1)`, full when
the wrapped difference exceeds `size - 1`. **BoundedChannel** is the abstract
first-in first-out channel that refuses only when it is full.

**PointCloudPath** is the pusher (`StoragePointData`, `PushLidarData`,
`QueuePushAny`), the poll thread (`PointCloudDataPollThread`,
`DistributePointCloudData`, `PollingLidarPointCloudData`, the drain loop of
`PublishPointcloud2`), the SDK callback that sets `connect_state`, and
`~DriverNode`. Only the semaphore has a lock, so each access to shared state is a
step of its own; while a packet is copied into a slot the slot holds `Torn`. The
operations are named after the functions; `pusher.at` and `poller.at` are the
program counters.

**LidarConfig** is how a lidar comes to sampling: `InitLivoxLidar` gives each
entry of the configuration a slot (`AddConfigured`), `LidarInfoChangeCallback`
asks for the settings of a lidar that has a slot (`AnnounceKnown`) or gives one
to a lidar nobody configured (`AnnounceUnknown`), and the callbacks that answer
are one action each, the four of the settings being the same code. The SDK is
external: `asked` counts the requests it has to answer, for each handle and
task. A callback is one step because the bits are changed under `config_mutex_`
and the SDK announces lidars from one thread. A setting is a bit that is asked
for or not, its value is left out. Three things of the code are easy to miss and
are in the model: a slot that nobody configured is all zeros, so that a lidar in
it is asked for every setting when it is announced again, and its attitude goes
to handle 0; `connect_state` is never taken back, also while a lidar is being
configured anew; and the failure of a setting does not start it again.
`SampleWhenDone` is what `PointCloudPath` has as `StartSampling`. The failure
branches read `response`, which the SDK may leave out; that is not modelled.

**FrameStream** is what the assembly of frames promises: the points of a lidar
leave in the order they came, each once, in frames that are not empty. Where the
stream is cut is left open.

**PubHandler** is the assembly. The SDK's thread sets `is_timestamp_sync_`,
stamps a packet and queues it (two steps, `OnLivoxLidarPointCloudCallback` and
`PushRawPacket`, because only the second holds `packet_mutex_`); the thread
`RawDataProcess` looks at `is_quit_`, waits or takes a packet, adds its points
to the buffer of its lidar, and runs `CheckTimer`, each a step, as the flag and
the end may change in between. `CutOne` is `CheckTimer` for synchronised lidars:
only the lidar of the packet is looked at, in the millisecond of its newest
point. `CutAll` is the other: the host's clock cuts all lidars at once and
`last_pub_time` catches up in whole intervals. `frame` is what the callback
gets, and is handed on before the thread goes on. Set-up is in the order of
`InitLivoxLidar` and `SetLidarPubHandle`; `Configured` are the configured lidars
that found a slot. A point is its place in the lidar's stream, its stamp,
whether the stamp is the lidar's own, and whether the extrinsics were applied.
The interval is a whole number of units of time and not of milliseconds, as in
`SetPointCloudConfig`, where the modulus of `CutOne` is the interval without its
fraction of a millisecond (`publish_interval_ms`) and the tolerance is taken
from the interval with it. `PointCloud2Msg` and `CustomMsg` are the times the
two message formats carry: the first rounds a stamp to the nearest double
(`Double`; neighbours are `DoubleStep` apart, 256 ns at the stamps of today),
the second has the offset from the base time, cut to `OffsetBits`. The lidars,
the network and the host's clock are external: a packet is sent every `PointNum`
units and may be lost, a lidar may gain or lose its time source, the host may
run ahead of packets that are due. There is one SDK thread, and the host's clock
does not go back. `Uninit` may come at any time once the driver is running: it
belongs to the end of the process. `ClearAllLidarsExtrinsicParams` and
`GetLidarPointCloudsSize` have no caller.

**ImuPath** extends it with the other use of the same SDK callback: an IMU packet
goes straight into the locked queue of its lidar. The pusher tests the queue and
reads the semaphore's count, each a step of its own; the IMU poll thread waits,
visits the lidars and empties the queues of those that sample, with a test and a
pop that are two steps. The packet of a lidar nobody configured is dropped as
long as it lacks an index. `imu_fresh` is a history variable: a lidar that has
begun to sample since its last packet, and that nothing wakes the thread for.

**AngleFilter** is the pure part: the sectors, the elevation band and the gate,
on whole degrees. `FilterCloud` is the set with the scan that is published, or
empty. **LiveMap** is pcd2pgm and the subscriber: the two filters, the two ways
of rasterising, the constructor in its two modes (with a file that cannot be
read, which leaves a node without timer), the live callback with its early
returns, the timer, the queue of the subscription, and Nav2 subscribing,
stopping and receiving. Places are integers in a unit that divides the
resolution or not, so a cell's border and the space inside it are both met.
**MappingChain** composes them with GLIM: a scan that passes the filter adds its
points to the map, the map is published, GLIM restarts with an empty one and
aborts on a scan it can use nothing of (`aborted_on`): its own filter drops what
is nearer than `GlimNear` or farther than `GlimFar`, the two thresholds of
`config_preprocess.json`. GLIM's moving of old places is left out: its map only
grows while it runs, and `ObstaclesStay` says so of the grid under that
assumption.

## 3. The runs

| run | module, configuration | question | states |
|---|---|---|---|
| `tags` | `WaypointManager` | are tags kept, bound where they were made, and answered at their corrected place? | 20 thousand |
| `lists` | `WaypointLists` | do the vectors behave as the sets, in tag order, and do the markers catch up when the rover is driven on? | 26 thousand |
| `store` | `WaypointStore` | what is on disk after saves, full disks, crashes and restarts? | 243 thousand |
| `store_crash` | `WaypointStore`, violation | does a crash keep the autosave? | - |
| `mission_pose` | `WaypointMission` | goal tracking, clean-up, drift, termination of single-pose legs | 66 thousand |
| `mission_through` | `WaypointMission` | progress through a route with re-sends | 215 thousand |
| `mission_lost_request` | `WaypointMission`, violation | does Ctrl+C while a goal request is unanswered leave the rover driving? | - |
| `mission_stale_feedback` | `WaypointMission`, violation | are only waypoints ahead re-sent? | - |
| `cloud_path` | `PointCloudPath` | are frames delivered whole, in order, without a lost wakeup, and does the destructor return? | 968 thousand |
| `streams` | `ImuPath` | are points and IMU packets delivered once, in order, on time and posed, whatever the clocks, losses and threads do? | 132 thousand |
| `maps` | `MappingChain` | is the grid Nav2 uses the one the scans ask for, through restarts, skipped clouds and late subscribers? | 125 thousand |
| `lidar_config` | `LidarConfig` | does every lidar get its own slot and its settings before it samples, and does it come to sample? | 75 thousand |

**What they check.** A property that has several parts is their conjunction; the
parts are definitions of their own, named here and in the comment of the whole.
The type invariant of a module is one of the parts.

- `tags`: `TagsAreKept` (the names held are exactly those tagged, `NoTagLost`,
  each once, `NameUnique`), `TagsAreWhereMade` (no tag waits for a submap that has
  finished, `PendingIsUncovered`, and a bound one is in the submap built around
  it, `BoundWhereTagged`), `AnswerIsCorrectedTag`, the refinement
  `ImplementsRegistry`, and `EveryTagIsAnswered` (if the rover is driven on,
  `DrivenPast`, every tag can be asked for in the end, unless its frame is in no
  submap).
- `lists`: `ListsAreSound` (`list_waypoints` is in tag order, `ListedInTagOrder`),
  the refinement `ImplementsManager`, and `MarkersCatchUp` (if the rover is driven on
  after each tag, `DrivenOn`, again and again everything RViz shows, also a marker a
  shorter publication left behind, is where its tag is now, and no answerable tag is
  missing).
- `store`: `SavesAreWhole` (a save the disk took holds every tag at its place,
  `CompletedSaveIsWhole`), `EarlierSessionKept` (the autosave of a dead
  session survives until something is tagged), `TagReachesDisk`.
- `mission_pose`: `GoalsAreTracked` (every goal that drives or may still be
  accepted is one the script would cancel or has complained about,
  `LiveGoalsTracked` while it runs and `NoRunawayGoal` once it has ended),
  `BooksMatchNav`, `NothingForgotten`, `DriftStaysBelowThreshold` (small
  corrections do not add up unnoticed), `MissionEndsAtRest` (`MissionEnds`, and
  then the rover comes to rest, `RoverStops`).
- `mission_through`: `ReachedIsTrue` (a waypoint is reported reached once, in
  order, and only if the rover was there, also when feedback of a replaced goal
  is counted against the new one), `SuccessMeansAllReached`.
- `cloud_path`: `WakeupsAreSound` (the semaphore never counts past one, and no
  packet of a lidar that is being published waits while the poll thread sleeps and
  no push is under way, `NoLostWakeup`), `RingsAreChannels` (refinement of
  `BoundedChannel` for each lidar: packets come out as they went in, in order),
  `PacketsFlow`, `DestructorReturns`.
- `streams`: `FramesAreTheStream` (the refinement of `FrameStream`, with the
  buffers and the queue as what is pending: no point is lost, duplicated,
  reordered or left to another lidar, although one thread, one queue and one
  flag serve all lidars), `FramesOnTime` (a synchronised lidar misses no
  interval because a frame is a little short, also when the interval is no whole
  number of milliseconds; only a lost packet costs one), `HostFramesInterval`
  (the other rule does not outrun the frequency asked for, although it catches
  up), `ConfiguredPointsArePosed`, `StreamsAreSound` (the IMU semaphore never
  counts past one, no buffer holds a point twice, and a CustomMsg says exactly,
  a PointCloud2 up to the rounding to a double, when a point was measured, if
  one clock stamped the frame or the lidar's kind of clock changed in the middle
  of it and the point is not before the base time, `MessagesAgree`),
  `NoLostImuWakeup`, `ImuQueuesAreChannels` (`BoundedChannel` again, of
  unbounded capacity), `ThreadsGoOn` (the frame thread sees `is_quit_` although
  no packet comes any more and is joined, `ThreadEnds`, and the IMU thread gets
  to every packet, `ImuPacketsFlow`).
- `maps`: `CoverNeverStarvesGlim` (whatever covers the lidar, GLIM is not sent a scan
  it aborts on; if it aborts, enough of the scan lies beyond its far threshold),
  `MapIsSound` (nothing of the rover's body is on the
  map: every place there was seen outside the rover's own sectors,
  `BodyNeverInMap`, whose definition of a sector, `LiesIn`, counts turns and has no
  remainder), `GridShowsCloud` (the grid and the obstacles of its cloud,
  cell by cell), `FileMapLosesOnlyTheEdge` (the bounding
  box of a file's cloud ends at its farthest points; where that is a border of
  cells, and only there, they are left out), `MapIsKept` (an obstacle stays while
  GLIM runs, `ObstaclesStay`, and a cloud without obstacles leaves the map as it
  is, `NoSilentWipe`), `LatestMapReachesNav`.
- `lidar_config`: `SlotsAreSound` (two lidars never share a slot, and the slot of a
  configured one carries its own configuration, `SlotsAreOwn`), `BitsAreAttended`
  (a bit that is set has a request under way or was refused),
  `SamplesAsConfigured` (a lidar samples only with each setting confirmed, also
  when answers to requests of an earlier announcement clear the bits of a later
  one), `EveryLidarComesUp` (every lidar samples, `EveryLidarSamples`, and gets to
  the normal work mode, `EveryLidarIsNormal`).

**Bounds, and why they are enough.**

- Poses: the six motions of a triangle, the smallest group that is not
  commutative; the odometry and the pose graph use generators that do not
  commute. The proofs hold for every group.
- `MaxStamp` 3 (`tags`) gives submaps of one, two and three frames, a frame left
  out, a tag at the first, middle and last frame of a submap, and up to three
  submaps; 2 (`lists`) is the least with a tag bound at once while another
  waits, and three names make the erasing loop meet two tags it can bind and
  leave one; two sessions (`store`) let a second one overwrite the first.
- `MaxGoals` 2 forbids a refresh once two goals were sent (a second leg still
  sends its own), so one goal is replaced by another; the waypoints are two
  (three for a route, so that a re-sent route is shorter than the first and still
  has an order). `Places` 0, 1 and 2 with `Threshold` 1 give moves within and
  beyond the threshold, `MaxMoves` 2 two small ones that add up. `MaxInterrupts`
  2 includes the Ctrl+C during clean-up. `InterruptAt` names the waits in which
  Ctrl+C is tried: the two that wait for the answer to a goal request are left
  out of `mission_pose`, because there `NoRunawayGoal` fails; that is the run
  `mission_lost_request`. `mission_through` has all waits.
- Two lidars let one keep the poll thread from the other; a ring of two slots is
  full after two frames; `IndexBits` 2 lets the indices wrap after four, and both
  the full test and the slot computation cross the wrap. One lidar sends two
  different packets, each as often as it likes, so that a ring that reorders,
  repeats or reads a wrong but filled slot differs from one that does not; the other
  lidar's packet differs from both, so that one ring's packets are told from the
  other's. More would tell apart more behaviours of a ring of more than two slots.
  The code's indices have 32 bits.
- `streams`: an interval of 2 1/3 ms with three units of time to the
  millisecond, so that the modulus is less than the interval and units fall
  between milliseconds; packets of two units, doubles four units apart. Frames
  of up to four packets, lidars with one echo and with two, and seven loads, of
  which each behaviour has one: three frames of one lidar with a packet lost,
  with its own clock or the host's; one with the host running ahead of a packet
  that is due; one that loses its time source, with points before their frame's
  base time; two lidars with a clock that is switched while they send; IMU
  packets with the destructor. Combining all in one load adds states and no pair
  of steps that these do not have, since what a packet changes is its lidar's
  buffer and the flag. The stamp's and the offset's widths are small enough for
  a stamp to pass what an offset holds.
- `maps`: a grid of 4 x 3 cells whose height is no multiple of the resolution, with
  a wall inside, one over the far corner and one on the negative side of the
  origin; the body at the edges of the front sector and of the one behind, over
  the seam; points too near, too low, too high, not finite, alone, and alone until
  a later scan; a malformed scan; a scan of nothing usable; one of which all that the
  gate counts is too far for GLIM. Files: a wall with an
  extent that is no multiple, one along an axis, one that is filtered out, none.
  Three clouds for a queue of two, two runs of GLIM, two starts of Nav2.
- Three lidars and two slots: the table can be full when a lidar is configured
  and when an unknown one turns up. One configuration names a lidar twice, so
  that the later entry replaces the earlier in its slot, and leaves a slot for a
  lidar that is not in it; the other names three lidars, one of which has nothing
  to set. `MaxAnnouncements` 3 lets one lidar be announced three times, with
  requests of all three under way, or two take turns. Two settings tell
  "one confirmed" from "all confirmed".

**Deadlock.** `cloud_path` checks it. The others say `CHECK_DEADLOCK FALSE`: a
mission ends, a rover whose GLIM died in the last session stays down, in `tags`
and `lists` frames stop at the bound, in `streams` and `maps` packets, scans and
clouds do, and in `lidar_config` every request may be
answered and no lidar be announced any more.

**Fairness.** In `WaypointManager` and `WaypointLists`, GLIM goes on inserting
the submaps that have finished (its threads run as long as the process does).
That a submap finishes is not assumed, nor a frame or a service call: the rover
has to be driven on for it, as `glim_ext_addon/README.md:94-95`,
`docs/FIELD_TEST.md:57` and `waypoint_mission.py:72-73` say, and the two
properties that need it have it as a hypothesis (`DrivenPast`: submaps get past
the frame of the tag; `DrivenOn`: the rover is driven until no tag waits, over
and over again). In `WaypointStore`, which asks for the tag on the disk, pending
or bound, it does not matter. The timers of the ROS executor are served (weak
fairness for the markers; strong for the autosave, which is disabled whenever
another save holds the mutex), a save that began ends, and a full disk does not
stay full for ever. In `WaypointMission` every wait of the script has a
time-out, so it goes on (weak fairness outside the loop), and its loop looks at
the result future on every turn, before it refreshes (strong fairness of
`ResultArrived`, because a refresh takes the script out of the wait for a
while). Nav2 stops a goal it was asked to cancel; it need not answer, drive or
end one. In `LidarConfig` the SDK answers every request, a setting that is asked
for again after each time-out is in the end confirmed or refused, and the work
mode is in the end accepted; no announcement is assumed. In `PubHandler` and
`ImuPath` each thread runs while it can (`wait_for` returns after 500 ms at the
latest), a callback and a `Uninit` that began go on, and no packet is assumed.
In `MappingChain` the node's executor runs callbacks that are due and Nav2
receives what it was sent; no scan, cloud or start is assumed. In
`PointCloudPath` the threads run while they can. That frames keep coming and
that the poll thread keeps up with the other lidars are hypotheses written in
the properties that need them (`FramesKeepComing`, `KeepsUp`), not fairness:
without frames the poll thread sleeps in `Semaphore::Wait`, which `RequestExit`
does not wake.

## 4. The proofs

`WaypointManagerProofs` proves, for every set of names, every group of poses,
every choice of odometry and map poses and every number of frames:

- `TypeCorrect`, `TagsStayKept`, `TagsStayWhereMade`, `AnswersAreCorrected`: the
  invariants the run `tags` checks;
- `Refinement`: `Spec => Registry!Spec`.

They rest on `PoseGroup` (the group laws) and `ConstantsAssumption`. The
inductive invariant is the conjunction of the properties with two facts none of
them states: `SubmapsInOrder` (submaps are numbered in the order they finish and
span disjoint, increasing stretches of frames already reported) and
`PendingHoldsTag` (a pending entry carries the frame its name was last tagged
at). Without the first, the reverse scan of `find_submap_for_stamp_locked` could
miss a submap or find two; without the second, binding could put an old frame's
place under a name that was tagged again. Lemmas about the scan
(`SubmapForStampUnique`, `SubmapForStampCovers`, `SubmapForStampFinds`) and
about the algebra (`BoundEntryCorrect`) carry the case of each action.

It goes on to `WaypointStore`, and proves, for any names, poses, number of sessions
and however often GLIM dies, `StoreInvariant` (the types, the manager's invariant, and
`SavingInv`: the autosave is open only while there is a tag to write, and a dead
process has nothing open), `SavesStayWhole` (`SavesAreWhole`) and
`AutosaveSurvives` (`EarlierSessionKept`). The manager's invariant carries over a
crash because a session starts in a state that has it. `StoreAssumption` adds that
the value for "no file" is not a document. The document is shown to hold every tag
from the manager's theorems: each name is in one list, once, with the stamp and
the pose it was tagged with.

`WaypointListsProofs` proves, for any names, poses and number of frames, from
`ListsAssumption`:

- `ListsStaySound` (`ListsAreSound`): the vectors are in tag order, bound tags and
  then pending ones;
- `ListsImplementManager`: `Spec => ImplementsManager`.

The inductive invariant is `ListInv` with `ListedInTagOrder`; TLC has checked it on
the instance of the run `lists`. Its parts: a name is in the history once
(`OneTagPerName`); the submaps are apart, in order, and hold every frame up to the
last one consumed (`SubmapsCover`); the pending tags are of later frames than that
and wait in the order of their frames (`PendingInOrder`). The last two carry tag
order. What a finished submap can bind is then the front of the pending list
(`KeptApart`), and goes behind the bound tags without changing the order of the
whole; and a tag bound at once is of a frame that has been consumed, so that
nothing can be waiting. Without the cover a tag left out of its submap
would wait for ever, and later ones overtake it.

`SelectionProofs` holds the laws of `Kept` and `Mapped`: what they hold
(`KeptEntries`, `MappedSet`), that they respect concatenation (`KeptOfConcat`,
`MappedOfConcat`) and order (`KeptInOrder`), and that choosing by what is shown and
showing what was chosen agree (`KeptOfMapped`). The library's induction theorems
take an operator and are out of reach; these laws rest instead on an induction
over sets of lists (`GrowingLists`: a set that holds the empty list and every
list one longer than one of its own is all of them), itself proved from the
well-ordering of the naturals.

`WaypointMissionProofs` proves, for any route, mode, threshold, number of goals,
moved places and interrupts, and whatever Nav2 answers and when:

- `MissionTypes` (`MissionInv`): the types, and what the script knows at each of
  its waits (`ControlInv`: a request exists exactly while one is waited for, an
  exit code exactly once the mission ends, `passed` is less than the names sent,
  and what has been resolved is as long as the loop has come);
- `BooksAreNav2s` (`BooksMatchNav`) and, from it, `DriftIsBounded`
  (`DriftStaysBelowThreshold`), an action property: the comparison in a refresh is
  with the goal Nav2 has, not with the last place looked up;
- `GoalsStayInReach` and `NoGoalRunsAway` (`GoalsAreTracked`): a goal that is alive
  is the current one, the one asked for, late, cancelled or complained of. The
  first assumes that Ctrl+C does not fall into the wait for the answer to a request
  (`NoInterruptAsking`): the run `mission_lost_request` shows the goal lost there. The
  second also excludes Ctrl+C in the wait of `cleanup` (`NoInterruptLate`), where
  the operator cuts short the cancelling itself. The run that checks
  `GoalsAreTracked` excludes both as well; every other wait may be interrupted;
- `LogIsTrueToTheRover` (`ReachedIsTrue`), for a route that names no waypoint twice
  (`OnceOnly(Route)`; a route that does logs a name twice and is right to). Its
  invariant `ProgressInv` says how far along the route the script, the goal and the
  rover are: what was sent is what is left of the route (`ThroughInv`), what Nav2
  has passed was visited (`VisitedInv`), and the log is the route up to the count;
- `NobodyIsForgotten` (`NothingForgotten`) and `SuccessIsTrue`
  (`SuccessMeansAllReached`), from `CoverageInv`: each leg that is over has all its
  waypoints reached or among the failures, and an exit code of zero has no
  failures.

They rest on `MissionAssumption`.

`PointCloudPathProofs` proves, for any number of lidars, any ring size and any
index width, `WakeupsAreKept`: the types, the bound on the semaphore's count and
`NoLostWakeup`; and `RingsStayChannels`: every ring is a bounded FIFO channel
(`RingsAreChannels`). They rest on `QueueAssumption` and `PathAssumption`, whose last
four conjuncts follow from the others by facts about exponentiation the
provers do not have (the rounded ring size and 2^IndexBits are positive, the first
divides the second and is smaller); TLC evaluates them. The strengthening for the
wakeup has four parts: `SignalFromZero` (whoever is about to signal has read a
count of zero, and nobody else raises it), `PacketInHand`, `OnlyAllocatedUsed` (the
poll thread and the pusher work on rings that were allocated), and
`UnseenAttended`: a packet the poll thread has to be woken for is covered by a
positive count, by a push that has still to look at the count, or by a poll thread
that will still pass the lidar in this round. `NoLostWakeup` is what that leaves
when the poll thread sleeps and nobody pushes. For the channel, `RingInv`: the
number of packets is the difference of the indices however they wrapped and less
than the size, a packet being copied in has room, and one being copied out is still
the oldest until its index is advanced. The size divides 2^IndexBits, or the ring
would skip a slot when an index wraps: that is the conjunct of `PathAssumption` the
proof of `RingsStayChannels` cannot do without, and why `InitQueue` rounds the size
up to a power of two.

`LidarConfigProofs` proves, for any lidars, settings, configurations and number of
slots and announcements: `SlotsStayOwn`, `BitsStayAttended` and
`SamplesOnlyAsConfigured`, the invariants of the run `lidar_config`. They rest on
`ConfigAssumption`. Four facts make them inductive. `SettingsTracked`: while a
setting of a lidar is under way, each of its settings is confirmed or has its bit
set, so that the last bit that is cleared leaves all of them confirmed.
`SlotsUntouched`: a slot that is not taken has no bit and does not sample, and no
bit is set beyond the settings of the slot's configuration, so that an
announcement sets exactly those. `SkippedWhenFull`: a configured lidar is without
a slot only when none is free, so that a lidar that gets one at its announcement
is not a configured one, whose configuration the slot would lack.
`StartsAfterParsing`: nothing is asked for before the configuration is taken
over, nor of a lidar without a slot.

`LidarStreamProofs` proves, for any lidars, packets, frequencies, loads and
interleavings, from `PubAssumption` (numbers are at least as wide as the code's
uses of them need: a stamp can be more than an interval and a millisecond, an
offset is no wider than a stamp) and `ImuAssumption`:

- `PointsLeavePosed` (`ConfiguredPointsArePosed`): it rests on an order of start-up
  nobody wrote down (`ConfiguredFirst`): the thread is born after the last
  extrinsics are stored, and none is stored later, which is what makes reading them
  without the lock harmless; `BuffersArePosed` carries it through the buffers;
- `HostFramesKeepTheInterval` (`HostFramesInterval`), from `ClockInvariant`:
  `last_pub_time` is the first packet's time and a whole number of intervals, and
  not ahead of the clock;
- `FramesAreOnTime` (`FramesOnTime`), for any interval, whole in milliseconds or
  not, and packets that span no more than what the tolerance leaves of the
  interval in whole milliseconds (`PacketsAreShort`: a millisecond at 10 Hz, a
  third of one at 15 Hz; the span of a packet is `PointNum` units, which the
  code reads from `time_interval`). `StreamInvariant` says what the points of a
  buffer are: numbered one by one within their packets, stamped by their place
  in them, never older than the point before. `CutInvariant` says of the packet
  that was cut last how far its stamp and its number are from the newest point:
  a packet that came in is either still before the next boundary, or the check
  that is about to run will find it due;
- `ImuWakeupIsNotLost` (`NoLostImuWakeup`), from `WakeupInvariant`: a packet that
  waits has a positive count, a pusher before its signal, or a poll thread that has
  yet to finish with the lidar in this round;
- `ImuQueuesStayChannels` (`ImuQueuesAreChannels`), from `ImuOrder`: the packets of a
  queue and the one in each hand are numbered downwards, so that none is in two
  places;
- `StreamsStayWhole` (`FramesAreTheStream`): the assembly implements `FrameStream`.
  `Pending` and `Delivered` are the abstract state. The queue of all lidars is
  spread out, for one lidar, into the points of its packets (`Spread`); a packet that
  is queued adds to the end of one stream (`PushReceives`), one that is taken
  moves from the queue to the buffer and leaves the stream as it is
  (`TakeMovesOn`), and a frame is the front of each stream in it (`TimerDelivers`). A
  packet of an unknown data type has no points and is a stutter, and so is a cut
  when no lidar has any, which the callback turns down;
- `StreamsAreTyped`: the types of both paths;
- `MessagesStaySound` (`StreamsAreSound`): no buffer holds a point twice, the IMU
  semaphore counts at most one, and of each point of a frame of one clock, and each
  that is not before the base time in a frame of two, the CustomMsg has the stamp
  exactly and the PointCloud2 the nearest double, at most half a `DoubleStep` away
  (`DoubleIsNear`), as long as no point of a frame is 2^OffsetBits or more after the
  first (`FramesAreShort`). The code bounds a frame by the
  next packet that comes, and not by time: a lone lidar that is silent for five
  seconds in the middle of a frame would exceed the 4.29 s that 32 bits of
  nanoseconds hold. The hypothesis is therefore about the behaviour and not about
  the constants; the run satisfies it, which TLC was asked separately.

`MappingChainProofs` proves, for any scans, sectors, filters, grid, queue and
number of clouds, runs and starts: `GlimIsNotStarvedByCover`
(`CoverNeverStarvesGlim`), `GlimIsNeverStarved`, `ObstaclesStayOnTheMap` and
`MapIsNotWipedSilently`, the last two together as `MapStaysKept`. The first two need
`GateAboveGlim`: the gate's range is above GLIM's near threshold and the count it
asks for is not zero. The deployed configuration satisfies it (a comment in the node
names the threshold, `glim_config/config_preprocess.json` sets it), but
`validate_parameters` does not enforce it. Nor does the gate know of GLIM's far
threshold: that GLIM never aborts at all, `GlimNeverStarved`, is proved for a lidar
that sees no farther than that (`LidarWithinGlim`) and false of others (section 5).
The proof that the map is kept rests on an invariant that orders the clouds: the source of
the grid, the queue and GLIM's own map are each contained in the next as long as
the run is the same, and more places never have fewer obstacles, because a point
is an outlier for want of neighbours.

It also proves, for any cloud, origin, size, resolution and filters,
`GridShowsItsCloud`, `FileLosesOnlyTheEdge` and `MapStaysSound` (`MapIsSound`: the
types, and nothing of the rover's body on the map). Its lemmas are the arithmetic
of cells: what a rounded-down quotient bounds (`QuotientBounds`), that the rounded-up
one covers (`CeilDivCovers`), that an index is one cell (`IndexIsOneCell`), and
what the least and the greatest coordinate are; and, for the body, that the
filter's distance of two wrapped bearings is small exactly if the bearing lies in
the sector after some whole number of turns (`SectorIsMasked`), for bearings and
sectors on either side of the jump at half a turn.

## 5. Disagreements found

Each has a run that fails at the quoted sentence.

- `store_crash`: `glim_ext_addon/README.md` says the autosave exists "so a crash
  doesn't lose an entire session's tags". `write_yaml` truncates the one file it
  autosaves to before it writes it; a crash in between leaves nothing. Writing a
  second file and renaming it would keep the property.
- `mission_lost_request`: `mission_edge_test.sh` asks that an ended mission
  "must never leave the rover driving on its own". A Ctrl+C while `send_action`
  waits for the answer to a goal request loses the request with the local
  variable that holds it; if Nav2 accepts, nobody cancels.
- `mission_stale_feedback`: the header of `waypoint_mission.py` says a goal is
  re-sent "with only the waypoints not yet passed". The slice is taken before the
  calls that resolve the waypoints; feedback that arrives during them does not
  count, and a waypoint the rover has just passed is sent again.

Seen while modelling, without a run of their own; where TLC shows one, the change to
a configuration that makes it do so is given:

- Ghost markers. `publish_markers` numbers the markers of the drawn tags from 0 and
  never deletes one. When a bound tag is made again and waits, the list is shorter
  and RViz keeps the last marker of the longer publication: one tag is shown twice,
  the second time at a place no loop closure moves, until the waiting tag is bound.
  That takes more driving: a rover that stops there shows a stale marker for good,
  although `glim_ext_addon/README.md:58` says "Live-updated RViz markers".
  `MarkersCatchUp` without its hypothesis fails in `lists`. Markers are also published
  by the timer only, not on re-optimisation as that README says.
- Mixed clocks. When a lidar finds its time source in the middle of a frame,
  points stamped on arrival are followed by points stamped by the lidar. If
  packets were on their way for longer than the frame has lasted, these are
  before the base time and their `offset_time`, unsigned, wraps to about 4.29 s,
  although `msg/CustomPoint.msg:3` calls it the "offset time relative to the
  base time", even if both clocks agree as `tools/setup_ptp.sh` has it. A lidar
  that loses its time source with a clock ahead of the host's does the same:
  without `CanTell`, `MessagesAgree` fails so in `streams`. A frame may also be
  cut by the rule of another lidar's clock, because `is_timestamp_sync_` is one
  flag: it is then whole and in order (`FramesAreTheStream`), and when it is cut
  is promised nowhere.
- Odd rates. At 11 Hz a synchronised frame may be cut only in every 90th
  millisecond and only if its points span 89.909 ms, which leaves 0.091 ms where
  packets of about half a millisecond end: an interval is missed although no
  packet is lost, and the frame is twice as long.
  `livox_ros_driver2/README.md:150` lets `publish_freq` be any floating-point
  number. `FramesOnTime` fails in `streams` with `UnitsPerMs = 4`,
  `publish_interval = 11`, `PointNum = 3` and `SensorAhead = 3`.
- Far scans. The gate bounds the range from below only, GLIM's filter also from
  above. A scan with enough points beyond 100 m and none between passes the gate and
  GLIM aborts, although `angle_filter.yaml:10-13` says such scans are dropped "so GLIM
  never sees them". `GlimNeverStarved` fails in `maps`.
- All-free grids. `pcd2pgm/README.md:38` says the node "never publishes an all-free
  grid"; a cloud whose obstacles all lie outside the fixed grid is not empty after
  the filters and becomes one. `NoSilentWipe` excepts exactly that.

Also: `save_waypoints` answers success when the
disk is full; `docs/MISSIONS.md` says a mission without names drives "all tagged,
in tag order", the header of the script says GLIM's list order
(`ListedInTagOrder` shows when the two agree); a goal accepted late drives during the
next leg's `resolve_with_wait`, up to 30 s, before the loop that cancels late
goals is entered; the branch of `LidarInfoChangeCallback` under the comment "set
the lidar according to the user-defined config" is also taken, with all settings
zero, for a lidar that is in no configuration and is announced a second time.

## 6. Only checked, and not modelled

Checked by TLC and not proved: everything about liveness and fairness, which
TLAPS does not reach (`EveryTagIsAnswered`, `MarkersCatchUp`, `TagReachesDisk`,
`MissionEndsAtRest`, `PacketsFlow`, `DestructorReturns`, `EveryLidarComesUp`,
`ThreadsGoOn`, `LatestMapReachesNav`). Every invariant and every action property
that a passing run checks is stated by a theorem, as is every refinement of an abstract
specification; the exceptions the theorems need beyond the assumptions on the constants
are named in section 4 (`NoInterruptAsking`, `NoInterruptLate`, `OnceOnly`,
`PacketsAreShort`, `FramesAreShort`, `GateAboveGlim`, `LidarWithinGlim`).

Left out of the modelled parts: floating-point rounding of poses; the YAML text
(a file is the records it holds); failing to open a file, which changes
nothing; the times of the mission's waits (each may end at any moment); wrong
usage messages and logging; reordering of memory accesses by the processor,
although `wr_idx` is volatile and not atomic; `xfer_format` 2, with which the
loop around the empty `PublishPclMsg` would spin; the teardown of the SDK after
the threads are joined; the coordinates of points, and in a message everything
but its times; the rotation of pcd2pgm's file transform, which is zero in the
deployed configuration; the cloud pcd2pgm publishes for viewing; the byte layout
of a scan.

The stack scripts are not modelled: nearly every step of theirs is a command of
docker, pgrep, flock or the file system, so that a model would be of those and
not of this repository. Their races are described in section 1.

Parts that are not modelled are in `components` with their reasons.

## 7. The plan

Done, in the order of what matters to the rover: `TagRegistry`,
`WaypointManager`, its proofs; `WaypointLists`; `WaypointStore`;
`WaypointMission`; `LidarDataQueue`, `BoundedChannel`, `PointCloudPath`, its
proofs; `LidarConfig`, its proofs.

The extension: `FrameStream`, `PubHandler`, `ImuPath`, their proofs;
`AngleFilter`, `LiveMap`, `MappingChain`, their proofs. Nothing more of the
repository keeps state that several actors share and that its own code changes.

Proved since: the mission (goals, books, progress and coverage), the files of the
store, the rings and the IMU queues as channels, the frames' times and types, the
rover's body on the map, the laws of the erasing loops, and with them that the
vectors implement the sets in tag order and that the assembly of frames implements
`FrameStream`.

To do next: theorems that say more than the runs do, where an assumption could be
weaker: `FramesAreShort` replaced by a bound on the silence of a lidar, and
`GoalsAreTracked` without `NoInterruptLate` for the goals whose cancelling was not
cut short.

## 8. Running it

```
tlc -workers 2 -config WaypointManager.cfg MCWaypointManager.tla
tlapm WaypointManagerProofs.tla
```

Each run takes at most about three minutes; the proofs take a few. A run that
`PROJECT.json` calls `violation` ends with the counterexample that section 5
describes.
