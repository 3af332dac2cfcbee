----------------------------- MODULE PubHandler -----------------------------
(***************************************************************************)
(* The frame assembly of the Livox driver.  The SDK's thread calls         *)
(* OnLivoxLidarPointCloudCallback for each packet and queues it under      *)
(* packet_mutex_; the thread RawDataProcess takes packets, transforms      *)
(* their points into the buffer of their lidar and, after each packet, may *)
(* cut a frame and hand it to the driver's callback.  InitLdsLidar sets    *)
(* all this up step by step, and Uninit ends it.                           *)
(*                                                                         *)
(* Time is counted in units of 1 / UnitsPerMs ms, and the points of a      *)
(* packet are one unit apart.  A lidar without time synchronisation has    *)
(* its points stamped with the host's clock when the packet arrives.       *)
(* A point is its place in the lidar's stream, its stamp, the kind of      *)
(* stamp, and whether the configured extrinsics were applied to it.        *)
(***************************************************************************)
EXTENDS Integers, Sequences, SequencesExt, FiniteSets, Selection

CONSTANTS
  Lidars,       \* handles of the lidars
  Configured,   \* those with an entry in the user's configuration
  Echoes,       \* lidar -> points per measurement: 0 for an unknown data type
  UnitsPerMs,
  publish_interval,  \* whole units; the code's are nanoseconds, whatever publish_freq is
  PointNum,     \* measurements in a packet
  StampBits,    \* width of a stamp
  OffsetBits,   \* width of a point's offset in a message
  DoubleStep,   \* distance of neighbouring doubles at the size of a stamp
  SensorAhead,  \* a synchronised lidar's clock minus the host's
  MaxQueued,    \* bound: packets in raw_packet_queue_
  Loads         \* bounds: what the lidars may do and what ends, one is chosen

ASSUME PubAssumption ==
  /\ Configured \subseteq Lidars
  /\ Echoes \in [Lidars -> 0 .. 2]
  /\ {UnitsPerMs, publish_interval, PointNum, StampBits, OffsetBits, DoubleStep}
       \subseteq Nat \ {0}
  /\ UnitsPerMs <= publish_interval
  /\ {SensorAhead, MaxQueued} \subseteq Nat
  /\ {2 ^ StampBits, 2 ^ OffsetBits} \subseteq Nat \ {0} /\ 2 ^ OffsetBits <= 2 ^ StampBits
  /\ publish_interval + UnitsPerMs <= 2 ^ StampBits
  /\ Loads \subseteq [packets : [Lidars -> Nat], locked : [Lidars -> BOOLEAN],
                      ends : SUBSET {"PubHandler", "DriverNode"},
                      losses : Nat, delays : Nat, switches : Nat, imu : Nat]

\* The interval in whole milliseconds, which is shorter at a frequency like 15 Hz.
publish_interval_ms == publish_interval \div UnitsPerMs

\* Mutant: no deviation is tolerated.
NoTolerance == publish_interval

\* A frame may be 1 ms shorter than the interval, which is not the one in ms.
publish_interval_tolerance == publish_interval - UnitsPerMs

VARIABLES
  left,                 \* what is left of the load
  now,                  \* the host's clock
  sent,                 \* lidar -> start of its next packet, on the host's clock
  locked,               \* lidar -> its packets carry a PTP or GPS stamp
  startup,              \* how far InitLdsLidar has come
  lidar_extrinsics,     \* lidars whose extrinsics AddLidarsExtParam has stored
  is_timestamp_sync,    \* static, shared by all lidars
  sdk,                  \* the packet the SDK's thread is about to queue, if any
  raw_packet_queue,
  process,              \* the thread RawDataProcess: where it is, with which lidar
  handlers,             \* lidar_process_handlers_: lidar -> points, extrinsics set
  frame,                \* frame handed to the callback: lidar -> base time, points
  first, last_pub_time, \* of CheckTimer without synchronisation
  exit,                 \* "no", "quit" (is_quit_ is set), "joined"
  history               \* for the properties: see Properties

frameVars == <<left, now, sent, locked, startup, lidar_extrinsics,
               is_timestamp_sync, sdk, raw_packet_queue, process, handlers,
               frame, first, last_pub_time, exit, history>>

NoFrame == <<>>
NoCut   == [l \in Lidars |-> {}]

FrameInit ==
  /\ left \in Loads
  /\ now = 0
  /\ sent = [l \in Lidars |-> 0]
  /\ locked = left.locked
  /\ startup = "configs"
  /\ lidar_extrinsics = {}
  /\ is_timestamp_sync = FALSE
  /\ sdk = {}
  /\ raw_packet_queue = <<>>
  /\ process = [at |-> "unborn", lidar |-> {}]
  /\ handlers = <<>>
  /\ frame = NoFrame
  /\ first = TRUE
  /\ last_pub_time = 0
  /\ exit = "no"
  /\ history = [cut |-> NoCut, start |-> 0, cuts |-> 0]

-----------------------------------------------------------------------------
(***************************************************************************)
(* Setting up: InitLivoxLidar, then SetLidarPubHandle.                     *)
(***************************************************************************)
Setup == UNCHANGED <<left, now, sent, locked, is_timestamp_sync, sdk, history,
                     raw_packet_queue, handlers, frame, first, last_pub_time, exit>>

\* One user configuration.
AddLidarsExtParam(l) ==
  /\ startup = "configs"
  /\ l \in Configured \ lidar_extrinsics
  /\ lidar_extrinsics' = lidar_extrinsics \union {l}
  /\ UNCHANGED <<startup, process>>
  /\ Setup

\* Mutant: packets are observed before the configurations are read.
SetPointCloudsCallbackEarly ==
  /\ startup = "configs"
  /\ startup' = "observed"
  /\ UNCHANGED <<lidar_extrinsics, process>>
  /\ Setup

\* Packets are observed from here on.
SetPointCloudsCallback ==
  /\ startup = "configs"
  /\ lidar_extrinsics = Configured
  /\ startup' = "observed"
  /\ UNCHANGED <<lidar_extrinsics, process>>
  /\ Setup

SetImuDataCallback ==
  /\ startup = "observed"
  /\ startup' = "imu"
  /\ UNCHANGED <<lidar_extrinsics, process>>
  /\ Setup

\* The thread is started.
SetPointCloudConfig ==
  /\ startup = "imu"
  /\ startup' = "running"
  /\ process' = [process EXCEPT !.at = "check"]
  /\ UNCHANGED lidar_extrinsics
  /\ Setup

-----------------------------------------------------------------------------
(***************************************************************************)
(* The lidars and the SDK's thread.                                        *)
(***************************************************************************)
Environment == UNCHANGED <<startup, lidar_extrinsics, process, handlers, frame,
                           first, last_pub_time, exit>>

Sending == {l \in Lidars : left.packets[l] > 0}

\* The host's clock runs on by the time of a packet, once the packets due have
\* come or, as often as the load says, before that.
Tick ==
  LET late == IF \E l \in Sending : sent[l] <= now THEN 1 ELSE 0
  IN  /\ startup # "configs"
      /\ Sending # {}
      /\ late <= left.delays
      /\ left' = [left EXCEPT !.delays = @ - late]
      /\ now' = now + PointNum
      /\ UNCHANGED <<sent, locked, is_timestamp_sync, sdk, raw_packet_queue, history>>
      /\ Environment

PacketSent(l, lost) ==
  /\ startup # "configs"
  /\ l \in Sending
  /\ sent[l] <= now
  /\ left' = [left EXCEPT !.packets[l] = @ - 1, !.losses = @ - lost]
  /\ sent' = [sent EXCEPT ![l] = @ + PointNum]

\* GetEthPacketTimestamp
GetEthPacketTimestamp(l) == IF locked[l] THEN sent[l] + SensorAhead ELSE now

Observing == /\ startup # "configs"
             /\ exit = "no"
             /\ sdk = {}
             /\ Len(raw_packet_queue) < MaxQueued

\* OnLivoxLidarPointCloudCallback up to the lock.
OnLivoxLidarPointCloudCallback(l) ==
  /\ Observing
  /\ PacketSent(l, 0)
  /\ is_timestamp_sync' = locked[l]
  /\ sdk' = {[lidar |-> l, at |-> sent[l], time_stamp |-> GetEthPacketTimestamp(l),
              synced |-> locked[l]]}
  /\ history' = IF locked[l] THEN history ELSE [history EXCEPT !.cut = NoCut]
  /\ UNCHANGED <<now, locked, raw_packet_queue>>
  /\ Environment

\* push_back under packet_mutex_; the notify that follows only ends a wait,
\* which may end at any time.
PushRawPacket ==
  /\ \E packet \in sdk : raw_packet_queue' = Append(raw_packet_queue, packet)
  /\ sdk' = {}
  /\ UNCHANGED <<left, now, sent, locked, is_timestamp_sync, history>>
  /\ Environment

\* An IMU packet also says whether its lidar is synchronised.
SetSyncFlag(l) ==
  /\ Observing
  /\ is_timestamp_sync' = locked[l]
  /\ history' = IF locked[l] THEN history ELSE [history EXCEPT !.cut = NoCut]

\* A packet is lost on the network.
LosePacket(l) ==
  /\ left.losses > 0
  /\ PacketSent(l, 1)
  /\ UNCHANGED <<now, locked, is_timestamp_sync, sdk, raw_packet_queue, history>>
  /\ Environment

\* A lidar gains or loses its time source.
SwitchClock(l) ==
  /\ startup # "configs"
  /\ left.switches > 0
  /\ left' = [left EXCEPT !.switches = @ - 1]
  /\ locked' = [locked EXCEPT ![l] = ~@]
  /\ UNCHANGED <<now, sent, is_timestamp_sync, sdk, raw_packet_queue, history>>
  /\ Environment

-----------------------------------------------------------------------------
(***************************************************************************)
(* The thread RawDataProcess.                                              *)
(***************************************************************************)
Thread == UNCHANGED <<left, now, sent, locked, startup, lidar_extrinsics,
                      is_timestamp_sync, sdk, exit>>


\* while (!is_quit_.load()); a callback has returned, frame_.lidar_num is 0.
CheckQuit ==
  /\ process.at = "check"
  /\ process' = [process EXCEPT !.at = IF exit = "no" THEN "look" ELSE "ended"]
  /\ frame' = NoFrame
  /\ UNCHANGED <<raw_packet_queue, handlers, first, last_pub_time, history>>
  /\ Thread

\* Mutant: the wait has no limit, and nothing but a packet ends it.
WaitWithoutLimit ==
  /\ process.at = "look"
  /\ raw_packet_queue = <<>>
  /\ process' = process
  /\ UNCHANGED <<raw_packet_queue, handlers, first, last_pub_time, frame, history>>
  /\ Thread

\* The queue is empty under the lock, and after wait_for it still is, be it
\* woken or 500 ms later.
WaitForNothing ==
  /\ process.at = "look"
  /\ raw_packet_queue = <<>>
  /\ process' = [process EXCEPT !.at = "check"]
  /\ UNCHANGED <<raw_packet_queue, handlers, first, last_pub_time, frame, history>>
  /\ Thread

\* Process...Point: the points of a packet, one or two to a measurement, all of
\* one measurement with one stamp.
PointsOf(packet, posed) ==
  LET e == Echoes[packet.lidar]
  IN  [k \in 1 .. PointNum * e |->
         LET i == (k - 1) \div e
         IN  [id     |-> <<packet.at + i, (k - 1) % e>>,
              stamp  |-> packet.time_stamp + i,
              synced |-> packet.synced,
              posed  |-> posed]]

NewHandler == [points |-> <<>>, is_set_extrinsic_params |-> FALSE]

HandlerOf(l) == IF l \in DOMAIN handlers THEN handlers[l] ELSE NewHandler

\* SetLidarsExtParam, then PointCloudProcess.
PointCloudProcess(h, packet) ==
  LET posed == h.is_set_extrinsic_params \/ packet.lidar \in lidar_extrinsics
  IN  [points |-> h.points \o PointsOf(packet, posed),
       is_set_extrinsic_params |-> posed]

\* f with value v at x.
Put(f, x, v) == [y \in DOMAIN f \union {x} |-> IF y = x THEN v ELSE f[y]]

\* A packet is taken from the queue, at once or after a wait, and its points added to those of its lidar.
TakePacket ==
  LET packet == Head(raw_packet_queue)
  IN  /\ process.at = "look"
      /\ raw_packet_queue # <<>>
      /\ raw_packet_queue' = Tail(raw_packet_queue)
      /\ handlers' = Put(handlers, packet.lidar,
                         PointCloudProcess(HandlerOf(packet.lidar), packet))
      /\ process' = [at |-> "timer", lidar |-> {packet.lidar}]
      /\ UNCHANGED <<first, last_pub_time, frame, history>>
      /\ Thread

GetLidarBaseTime(points) == IF points = <<>> THEN 0 ELSE Head(points).stamp

GetRecentTimeStamp(points) == IF points = <<>> THEN 0 ELSE Last(points).stamp

MsOf(stamp) == stamp \div UnitsPerMs

\* The difference of two unsigned stamps.
Difference(a, b) == (a - b) % 2 ^ StampBits

\* Whether CheckTimer cuts a frame of synchronised points here.
FrameDue(points) ==
  LET recent == GetRecentTimeStamp(points)
  IN  /\ MsOf(recent) % publish_interval_ms = 0
      /\ MsOf(recent) # 0
      /\ Difference(recent, GetLidarBaseTime(points)) >= publish_interval_tolerance

\* Mutant: the base time is read after the points have been swapped out.
FrameOfSwapped(cut) ==
  [l \in cut |-> [base_time |-> 0, points |-> handlers[l].points]]

\* The frame of some lidars, each with the stamp of its first point.
FrameOf(cut) ==
  [l \in cut |-> [base_time |-> GetLidarBaseTime(handlers[l].points),
                  points    |-> handlers[l].points]]

\* Mutant: a lidar that is handed over keeps its points.
HandOverKept(cut) ==
  /\ frame' = FrameOf(cut)
  /\ handlers' = handlers

\* GetLidarPointClouds and PublishPointCloud for some lidars; a frame of none
\* is turned down by the callback.
HandOver(cut) ==
  /\ frame' = FrameOf(cut)
  /\ handlers' = [l \in DOMAIN handlers |->
                    IF l \in cut THEN [handlers[l] EXCEPT !.points = <<>>]
                                 ELSE handlers[l]]

AllSynced(points) == \A k \in DOMAIN points : points[k].synced

\* CheckTimer with synchronisation: only the lidar of the packet is looked at.
CutOne(l) ==
  LET points == handlers[l].points
  IN  /\ IF FrameDue(points)
           THEN /\ HandOver({l})
                /\ history' = [history EXCEPT !.cut[l] =
                     IF AllSynced(points) THEN {Last(points)} ELSE {}]
           ELSE UNCHANGED <<frame, handlers, history>>
      /\ UNCHANGED <<first, last_pub_time>>

WithPoints == {l \in DOMAIN handlers : handlers[l].points # <<>>}

\* Mutant: the first packet does not set last_pub_time.
CutAllFromEpoch ==
  /\ IF now + publish_interval - last_pub_time < publish_interval
       THEN UNCHANGED <<last_pub_time, frame, handlers, history>>
       ELSE /\ last_pub_time' = last_pub_time + publish_interval
            /\ HandOver(WithPoints)
            /\ history' = [history EXCEPT !.cuts = @ + 1]
  /\ UNCHANGED first

\* CheckTimer without: the host's clock decides for all lidars at once, and
\* last_pub_time follows it in whole intervals.
CutAll ==
  IF first
    THEN /\ first' = FALSE
         /\ last_pub_time' = now
         /\ history' = [history EXCEPT !.start = now]
         /\ UNCHANGED <<frame, handlers>>
    ELSE /\ IF now - last_pub_time < publish_interval
              THEN UNCHANGED <<last_pub_time, frame, handlers, history>>
              ELSE /\ last_pub_time' = last_pub_time + publish_interval
                   /\ HandOver(WithPoints)
                   /\ history' = [history EXCEPT !.cuts = @ + 1]
         /\ UNCHANGED first

CheckTimer ==
  /\ process.at = "timer"
  /\ process' = [at |-> "check", lidar |-> {}]
  /\ IF is_timestamp_sync THEN \A l \in process.lidar : CutOne(l) ELSE CutAll
  /\ UNCHANGED raw_packet_queue
  /\ Thread

\* Uninit: no more packets are observed, then is_quit_ is set and the thread
\* joined.
Uninit ==
  /\ "PubHandler" \in left.ends
  /\ startup = "running"
  /\ \/ exit = "no" /\ exit' = "quit"
     \/ exit = "quit" /\ process.at = "ended" /\ exit' = "joined"
  /\ UNCHANGED <<left, now, sent, locked, startup, lidar_extrinsics, history,
                 is_timestamp_sync, sdk, raw_packet_queue, process, handlers,
                 frame, first, last_pub_time>>

-----------------------------------------------------------------------------
Start == \/ \E l \in Lidars : AddLidarsExtParam(l)
         \/ SetPointCloudsCallback
         \/ SetImuDataCallback
         \/ SetPointCloudConfig

LidarSteps == \/ Tick
              \/ \E l \in Lidars : \/ OnLivoxLidarPointCloudCallback(l)
                                   \/ LosePacket(l)
                                   \/ SwitchClock(l)

RawDataProcess == CheckQuit \/ WaitForNothing \/ TakePacket \/ CheckTimer

FrameNext == Start \/ LidarSteps \/ PushRawPacket \/ RawDataProcess \/ Uninit

(***************************************************************************)
(* The thread runs on while it can: wait_for returns at the latest after   *)
(* 500 ms.  The SDK's thread and Uninit do not stop half way.              *)
(***************************************************************************)
FrameFairness ==
  /\ WF_frameVars(RawDataProcess)
  /\ WF_frameVars(PushRawPacket)
  /\ WF_frameVars(exit = "quit" /\ Uninit)

FrameSpec == FrameInit /\ [][FrameNext]_frameVars /\ FrameFairness

-----------------------------------------------------------------------------
(***************************************************************************)
(* Properties.  history.cut has the last point of the last frame of a      *)
(* lidar, as long as every packet of every lidar was synchronised since.   *)
(* history.start and cuts count the frames cut by the host's clock.        *)
(***************************************************************************)

\* The state has its types, and a lidar's points lie in their buffer only once.
FrameTypeOK ==
  /\ left.packets \in [Lidars -> Nat]
  /\ {left.losses, left.delays, left.switches, now, last_pub_time} \subseteq Nat
  /\ sent \in [Lidars -> Nat]
  /\ locked \in [Lidars -> BOOLEAN]
  /\ startup \in {"configs", "observed", "imu", "running"}
  /\ lidar_extrinsics \subseteq Configured
  /\ Cardinality(sdk) <= 1
  /\ process.at \in {"unborn", "check", "look", "timer", "ended"}
  /\ DOMAIN handlers \subseteq Lidars
  /\ \A l \in DOMAIN handlers : IsInjective(handlers[l].points)
  /\ DOMAIN frame \subseteq Lidars
  /\ <<is_timestamp_sync, first>> \in BOOLEAN \X BOOLEAN
  /\ exit \in {"no", "quit", "joined"}

IdsOf(points) == [k \in DOMAIN points |-> points[k].id]

\* What is queued of a lidar, as points: each of its packets has as many.
QueuedIds(l) ==
  LET mine  == Kept(raw_packet_queue,
                    {packet \in ToSet(raw_packet_queue) : packet.lidar = l})
      width == PointNum * Echoes[l]
  IN  [k \in 1 .. Len(mine) * width |->
         PointsOf(mine[(k - 1) \div width + 1], FALSE)[((k - 1) % width) + 1].id]

\* Seen from the SDK's thread and the callback, each lidar's packets become a
\* stream of points that leaves in order, each point once, in frames that are
\* never empty - whatever the lidars' clocks do, and with one queue, one thread
\* and one flag for all lidars.
Stream ==
  INSTANCE FrameStream WITH
    pending   <- [l \in Lidars |-> IdsOf(HandlerOf(l).points) \o QueuedIds(l)],
    delivered <- [l \in Lidars |-> IF l \in DOMAIN frame THEN IdsOf(frame[l].points)
                                                         ELSE <<>>]

FramesAreTheStream == Stream!Init /\ [][Stream!Next]_(Stream!vars)

\* static_cast<double>: the nearest double, the even one of two.
Double(stamp) ==
  LET over == stamp % DoubleStep
      odd  == (stamp \div DoubleStep) % 2 = 1
  IN  IF 2 * over > DoubleStep \/ (2 * over = DoubleStep /\ odd)
        THEN stamp - over + DoubleStep
        ELSE stamp - over

\* The two kinds of message Lddc makes of a lidar's part of a frame.
PointCloud2Msg(f) ==
  [stamp |-> f.base_time, timestamp |-> [k \in DOMAIN f.points |-> Double(f.points[k].stamp)]]

CustomMsg(f) ==
  [timebase    |-> f.base_time,
   offset_time |-> [k \in DOMAIN f.points |->
                      Difference(f.points[k].stamp, f.base_time) % 2 ^ OffsetBits]]

OneClock(points) == \A j, k \in DOMAIN points : points[j].synced = points[k].synced

\* When a point was measured, according to a CustomMsg.
TimeIn(custom, k) == custom.timebase + custom.offset_time[k]

\* An offset can tell when a point was measured: one clock stamped the frame, or
\* two did and this point's is at least not before the base time.
CanTell(f, k) == OneClock(f.points) \/ f.points[k].stamp >= f.base_time

\* The CustomMsg has each point's stamp exactly, although it keeps only a narrow
\* unsigned offset from the base time, and the PointCloud2 is at most half a
\* DoubleStep away from it, also for the points of a frame in which the lidar's
\* kind of clock changed, as long as they are not before the base time.
MessagesAgree ==
  \A l \in DOMAIN frame :
    LET custom == CustomMsg(frame[l])
        double == PointCloud2Msg(frame[l]).timestamp
    IN  \A k \in DOMAIN double :
          CanTell(frame[l], k) =>
            /\ TimeIn(custom, k) = frame[l].points[k].stamp
            /\ 2 * (double[k] - TimeIn(custom, k)) <= DoubleStep
            /\ 2 * (TimeIn(custom, k) - double[k]) <= DoubleStep

\* No packet of l was lost between the point p and the end of points.
GaplessSince(l, points, p) ==
  Echoes[l] * (Last(points).id[1] - p.id[1]) = Len(points)

\* Once a synchronised lidar has had a frame, the next one is cut before the
\* millisecond exactly one interval later is over, unless a packet of it is lost:
\* no interval is missed because a frame comes out a little short, also when the
\* interval is no whole number of milliseconds.
FramesOnTime ==
  process.at # "timer" =>
    \A l \in WithPoints : \A p \in history.cut[l] :
      LET points == handlers[l].points
      IN  (AllSynced(points) /\ GaplessSince(l, points, p))
            => MsOf(GetRecentTimeStamp(points)) <= MsOf(p.stamp) + publish_interval_ms

\* Frames cut by the host's clock come no faster than the frequency asked for,
\* in the long run, although a late thread catches up.
HostFramesInterval == history.cuts * publish_interval <= now - history.start

\* No point of a configured lidar leaves without that lidar's extrinsics,
\* although the thread reads them without the lock their writer holds.
ConfiguredPointsArePosed ==
  \A l \in Configured \intersect DOMAIN frame :
    \A k \in DOMAIN frame[l].points : frame[l].points[k].posed

\* The thread ends when it is asked to, also when no packet comes any more.
ThreadEnds == exit = "quit" ~> exit = "joined"
=============================================================================
