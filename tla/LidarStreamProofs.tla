-------------------------- MODULE LidarStreamProofs --------------------------
(***************************************************************************)
(* Proofs about the assembly of frames and the IMU path, for any lidars,   *)
(* packets, frequencies and loads: points leave with their extrinsics,     *)
(* frames come no faster than asked for and no later than they should, no  *)
(* IMU wakeup is lost, each lidar's IMU packets are published in order and *)
(* once, both kinds of message say the times they should, and a lidar's    *)
(* points leave in order and once.                                         *)
(***************************************************************************)
EXTENDS ImuPath, TLAPS, FiniteSetTheorems, SelectionProofs

-----------------------------------------------------------------------------
(***************************************************************************)
(* Points and extrinsics.  The thread is born after all extrinsics are     *)
(* stored, and none is stored later: this is what makes reading them       *)
(* without the lock harmless.                                              *)
(***************************************************************************)
ConfiguredFirst ==
  /\ startup \in {"configs", "observed", "imu", "running"}
  /\ startup # "running" => process.at = "unborn"
  /\ startup # "configs" => lidar_extrinsics = Configured

PacketsOfLidars ==
  /\ \A packet \in sdk : packet.lidar \in Lidars
  /\ \E S : /\ raw_packet_queue \in Seq(S)
            /\ \A packet \in S : packet.lidar \in Lidars

\* A sequence of points, which are posed if they have to be.
IsBuffer(points, posed) ==
  \E S : points \in Seq(S) /\ (posed => \A point \in S : point.posed)

BuffersArePosed ==
  \A l \in DOMAIN handlers :
    /\ handlers[l] = [points |-> handlers[l].points,
                      is_set_extrinsic_params |-> handlers[l].is_set_extrinsic_params]
    /\ IsBuffer(handlers[l].points, l \in Configured)

FrameIsPosed == \A l \in DOMAIN frame : IsBuffer(frame[l].points, l \in Configured)

ProcessOK ==
  /\ process = [at |-> process.at, lidar |-> process.lidar]
  /\ process.at = "timer" => \E l \in DOMAIN handlers : process.lidar = {l}

PosedInvariant ==
  ConfiguredFirst /\ PacketsOfLidars /\ BuffersArePosed /\ FrameIsPosed /\ ProcessOK

\* The points of one packet.
LEMMA PacketIsBuffer ==
  ASSUME NEW packet, packet.lidar \in Lidars, NEW posed
  PROVE  IsBuffer(PointsOf(packet, posed), posed)
<1> DEFINE n == PointNum * Echoes[packet.lidar]
           points == PointsOf(packet, posed)
           S == {points[k] : k \in 1 .. n}
<1>1. n \in Nat
  BY PubAssumption
<1>2. DOMAIN points = 1 .. n /\ \A k \in 1 .. n : points[k].posed = posed
  BY DEF PointsOf
<1>3. points = [k \in 1 .. n |-> points[k]]
  BY DEF PointsOf
<1> HIDE DEF n, points
<1>4. points \in Seq(S)
  BY <1>1, <1>3
<1>5. posed => \A point \in S : point.posed
  BY <1>2
<1> QED
  BY <1>4, <1>5 DEF IsBuffer, points

LEMMA BuffersJoin ==
  ASSUME NEW a, NEW b, NEW posed, IsBuffer(a, posed), IsBuffer(b, posed)
  PROVE  IsBuffer(a \o b, posed)
<1>1. PICK S : a \in Seq(S) /\ (posed => \A point \in S : point.posed)
  BY DEF IsBuffer
<1>2. PICK T : b \in Seq(T) /\ (posed => \A point \in T : point.posed)
  BY DEF IsBuffer
<1>3. a \in Seq(S \union T) /\ b \in Seq(S \union T)
  BY <1>1, <1>2
<1>4. a \o b \in Seq(S \union T)
  BY <1>3
<1> QED
  BY <1>1, <1>2, <1>4 DEF IsBuffer

LEMMA EmptyBuffer == ASSUME NEW posed PROVE IsBuffer(<<>>, posed)
<1> DEFINE s == <<>>
           S == {}
<1>1. s \in Seq(S) /\ (posed => \A point \in S : point.posed)
  OBVIOUS
<1> HIDE DEF s, S
<1>2. IsBuffer(s, posed)
  BY <1>1 DEF IsBuffer
<1> QED
  BY <1>2 DEF s

\* A packet of a configured lidar is taken when its extrinsics are there.
LEMMA TakeIsPosed ==
  ASSUME PosedInvariant, TakePacket
  PROVE  PosedInvariant'
<1> USE DEF PosedInvariant
<1> DEFINE packet == Head(raw_packet_queue)
           l == packet.lidar
           h == HandlerOf(l)
           posed == h.is_set_extrinsic_params \/ l \in lidar_extrinsics
<1>1. /\ process.at = "look" /\ raw_packet_queue # <<>>
      /\ raw_packet_queue' = Tail(raw_packet_queue)
      /\ handlers' = Put(handlers, l, PointCloudProcess(h, packet))
      /\ process' = [at |-> "timer", lidar |-> {l}]
      /\ UNCHANGED <<frame, startup, lidar_extrinsics, sdk>>
  BY DEF TakePacket, Thread
<1>2. l \in Lidars /\ PacketsOfLidars'
  <2>1. PICK S : raw_packet_queue \in Seq(S) /\ \A p \in S : p.lidar \in Lidars
    BY DEF PacketsOfLidars
  <2>2. Head(raw_packet_queue) \in S /\ raw_packet_queue' \in Seq(S)
    BY <1>1, <2>1
  <2> QED
    BY <1>1, <2>1, <2>2 DEF PacketsOfLidars
<1>3. ConfiguredFirst' /\ startup = "running" /\ lidar_extrinsics = Configured
  BY <1>1 DEF ConfiguredFirst
<1>4. IsBuffer(h.points, l \in Configured)
  BY EmptyBuffer DEF HandlerOf, NewHandler, BuffersArePosed
<1>5. IsBuffer(PointsOf(packet, posed), l \in Configured)
  <2>1. IsBuffer(PointsOf(packet, posed), posed)
    BY <1>2, PacketIsBuffer
  <2>2. l \in Configured => posed
    BY <1>3
  <2> HIDE DEF posed, l, packet
  <2> QED
    BY <2>1, <2>2 DEF IsBuffer
<1>6. IsBuffer(h.points \o PointsOf(packet, posed), l \in Configured)
  <2> HIDE DEF h, l, packet, posed
  <2> QED
    BY <1>4, <1>5, BuffersJoin
<1>7. PointCloudProcess(h, packet) =
        [points |-> h.points \o PointsOf(packet, posed), is_set_extrinsic_params |-> posed]
  BY DEF PointCloudProcess
<1> HIDE DEF h, l, packet, posed
<1>8. /\ DOMAIN handlers' = DOMAIN handlers \union {l}
      /\ handlers'[l] = [points |-> h.points \o PointsOf(packet, posed),
                         is_set_extrinsic_params |-> posed]
      /\ \A m \in DOMAIN handlers \ {l} : handlers'[m] = handlers[m]
  BY <1>1, <1>7 DEF Put
<1>9. BuffersArePosed'
  <2> SUFFICES ASSUME NEW m \in DOMAIN handlers'
               PROVE  /\ handlers'[m] = [points |-> handlers'[m].points,
                           is_set_extrinsic_params |-> handlers'[m].is_set_extrinsic_params]
                      /\ IsBuffer(handlers'[m].points, m \in Configured)
    BY DEF BuffersArePosed, IsBuffer
  <2>1. CASE m = l
    <3>1. handlers'[m].points = h.points \o PointsOf(packet, posed)
      BY <1>8, <2>1
    <3> QED
      BY <1>6, <1>8, <2>1, <3>1
  <2>2. CASE m # l
    BY <1>8, <2>2 DEF BuffersArePosed
  <2> QED
    BY <2>1, <2>2
<1>10. FrameIsPosed' /\ ProcessOK'
  BY <1>1, <1>8 DEF FrameIsPosed, ProcessOK, IsBuffer
<1> QED
  BY <1>2, <1>3, <1>9, <1>10

LEMMA HandOverIsPosed ==
  ASSUME BuffersArePosed, NEW cut \in SUBSET DOMAIN handlers, HandOver(cut)
  PROVE  BuffersArePosed' /\ FrameIsPosed' /\ DOMAIN handlers' = DOMAIN handlers
<1>1. /\ DOMAIN handlers' = DOMAIN handlers
      /\ \A l \in cut : handlers'[l] = [handlers[l] EXCEPT !.points = <<>>]
      /\ \A l \in DOMAIN handlers \ cut : handlers'[l] = handlers[l]
      /\ DOMAIN frame' = cut
      /\ \A l \in cut : frame'[l].points = handlers[l].points
  BY DEF HandOver, FrameOf
<1>2. ASSUME NEW l \in DOMAIN handlers
      PROVE  /\ handlers'[l] = [points |-> handlers'[l].points,
                  is_set_extrinsic_params |-> handlers'[l].is_set_extrinsic_params]
             /\ IsBuffer(handlers'[l].points, l \in Configured)
  <2>1. handlers[l] = [points |-> handlers[l].points,
                       is_set_extrinsic_params |-> handlers[l].is_set_extrinsic_params]
    BY DEF BuffersArePosed
  <2>2. CASE l \in cut
    <3>1. handlers'[l] = [points |-> <<>>,
                          is_set_extrinsic_params |-> handlers[l].is_set_extrinsic_params]
      BY <1>1, <2>1, <2>2
    <3> QED
      BY <3>1, EmptyBuffer
  <2>3. CASE l \notin cut
    BY <1>1, <2>3 DEF BuffersArePosed
  <2> QED
    BY <2>2, <2>3
<1>3. BuffersArePosed'
  BY <1>1, <1>2 DEF BuffersArePosed, IsBuffer
<1>4. FrameIsPosed'
  BY <1>1 DEF FrameIsPosed, BuffersArePosed, IsBuffer
<1> QED
  BY <1>1, <1>3, <1>4

\* What CheckTimer does to the buffers, if anything, is to hand some over.
LEMMA TimerHandsOver ==
  ASSUME ProcessOK, CheckTimer
  PROVE  UNCHANGED <<frame, handlers>> \/ \E cut \in SUBSET DOMAIN handlers : HandOver(cut)
<1>1. CASE is_timestamp_sync
  <2>1. PICK l \in DOMAIN handlers : process.lidar = {l}
    BY DEF ProcessOK, CheckTimer
  <2>2. CutOne(l)
    BY <1>1, <2>1 DEF CheckTimer
  <2>3. {l} \in SUBSET DOMAIN handlers
    OBVIOUS
  <2>4. HandOver({l}) \/ UNCHANGED <<frame, handlers>>
    BY <2>2 DEF CutOne
  <2> QED BY <2>3, <2>4
<1>2. CASE ~is_timestamp_sync
  <2>1. CutAll
    BY <1>2 DEF CheckTimer
  <2>2. HandOver(WithPoints) \/ UNCHANGED <<frame, handlers>>
    BY <2>1 DEF CutAll
  <2>3. WithPoints \in SUBSET DOMAIN handlers
    BY DEF WithPoints
  <2> QED BY <2>2, <2>3
<1> QED
  BY <1>1, <1>2

LEMMA TimerIsPosed ==
  ASSUME PosedInvariant, CheckTimer
  PROVE  PosedInvariant'
<1> USE DEF PosedInvariant
<1>1. /\ process.at = "timer" /\ process' = [at |-> "check", lidar |-> {}]
      /\ UNCHANGED <<raw_packet_queue, startup, lidar_extrinsics, sdk>>
  BY DEF CheckTimer, Thread
<1>2. \/ UNCHANGED <<frame, handlers>>
      \/ \E cut \in SUBSET DOMAIN handlers : HandOver(cut)
  BY TimerHandsOver
<1>3. BuffersArePosed' /\ FrameIsPosed' /\ DOMAIN handlers' = DOMAIN handlers
  <2>1. CASE UNCHANGED <<frame, handlers>>
    BY <2>1 DEF BuffersArePosed, FrameIsPosed, IsBuffer
  <2>2. CASE \E cut \in SUBSET DOMAIN handlers : HandOver(cut)
    BY <2>2, HandOverIsPosed
  <2> QED
    BY <1>2, <2>1, <2>2
<1>4. ConfiguredFirst' /\ PacketsOfLidars'
  BY <1>1 DEF ConfiguredFirst, PacketsOfLidars
<1>5. ProcessOK'
  BY <1>1 DEF ProcessOK
<1> QED
  BY <1>3, <1>4, <1>5

LEMMA PosedStep ==
  ASSUME PosedInvariant, [Next]_vars
  PROVE  PosedInvariant'
<1> USE DEF PosedInvariant
<1>1. CASE Start
  <2>1. /\ UNCHANGED <<sdk, raw_packet_queue, handlers, frame>>
        /\ startup # "running" /\ process' = [process EXCEPT !.at = process'.at]
        /\ process'.at \in {process.at, "check"} /\ process.at = "unborn"
    BY <1>1 DEF Start, AddLidarsExtParam, SetPointCloudsCallback, SetImuDataCallback,
       SetPointCloudConfig, Setup, ConfiguredFirst, ProcessOK
  <2>2. ConfiguredFirst'
    BY <1>1 DEF Start, AddLidarsExtParam, SetPointCloudsCallback, SetImuDataCallback,
       SetPointCloudConfig, Setup, ConfiguredFirst
  <2>3. PacketsOfLidars' /\ BuffersArePosed' /\ FrameIsPosed'
    BY <2>1 DEF PacketsOfLidars, BuffersArePosed, FrameIsPosed, IsBuffer
  <2>4. ProcessOK'
    BY <2>1 DEF ProcessOK
  <2> QED
    BY <2>2, <2>3, <2>4
<1>2. CASE PushRawPacket
  <2>1. PICK packet \in sdk : raw_packet_queue' = Append(raw_packet_queue, packet)
    BY <1>2 DEF PushRawPacket
  <2>2. PICK S : raw_packet_queue \in Seq(S) /\ \A p \in S : p.lidar \in Lidars
    BY DEF PacketsOfLidars
  <2>3. /\ raw_packet_queue' \in Seq(S \union {packet})
        /\ \A p \in S \union {packet} : p.lidar \in Lidars
    <3>1. raw_packet_queue \in Seq(S \union {packet})
      BY <2>2
    <3> QED
      BY <2>1, <2>2, <3>1 DEF PacketsOfLidars
  <2>4. sdk' = {} /\ UNCHANGED <<startup, lidar_extrinsics, process, handlers, frame>>
    BY <1>2 DEF PushRawPacket, Environment
  <2> QED
    BY <2>3, <2>4 DEF ConfiguredFirst, PacketsOfLidars, BuffersArePosed, FrameIsPosed,
       ProcessOK, IsBuffer
<1>3. CASE LidarSteps
  <2>1. UNCHANGED <<raw_packet_queue, startup, lidar_extrinsics, process, handlers, frame>>
    BY <1>3 DEF LidarSteps, Tick, OnLivoxLidarPointCloudCallback, LosePacket, SwitchClock,
       Environment
  <2>2. \A packet \in sdk' : packet.lidar \in Lidars
    BY <1>3 DEF LidarSteps, Tick, OnLivoxLidarPointCloudCallback, LosePacket, SwitchClock,
       PacketsOfLidars
  <2> QED
    BY <2>1, <2>2 DEF ConfiguredFirst, PacketsOfLidars, BuffersArePosed, FrameIsPosed,
       ProcessOK, IsBuffer
<1>4. CASE CheckQuit \/ WaitForNothing
  <2>1. /\ UNCHANGED <<sdk, raw_packet_queue, startup, lidar_extrinsics, handlers>>
        /\ process' = [process EXCEPT !.at = process'.at]
        /\ process.at \in {"check", "look"} /\ process'.at \in {"check", "look", "ended"}
        /\ frame' = frame \/ frame' = NoFrame
    BY <1>4 DEF CheckQuit, WaitForNothing, Thread, ProcessOK
  <2>2. ConfiguredFirst' /\ PacketsOfLidars' /\ BuffersArePosed'
    BY <2>1 DEF ConfiguredFirst, PacketsOfLidars, BuffersArePosed, IsBuffer
  <2>3. FrameIsPosed'
    BY <2>1 DEF FrameIsPosed, NoFrame, IsBuffer
  <2>4. ProcessOK'
    BY <2>1 DEF ProcessOK
  <2> QED
    BY <2>2, <2>3, <2>4
<1>5. CASE UNCHANGED <<sdk, raw_packet_queue, startup, lidar_extrinsics, process, handlers, frame>>
  BY <1>5 DEF ConfiguredFirst, PacketsOfLidars, BuffersArePosed, FrameIsPosed, ProcessOK, IsBuffer
<1>6. CASE Uninit
  BY <1>5, <1>6 DEF Uninit
<1>7. CASE UNCHANGED vars
  BY <1>5, <1>7 DEF vars, frameVars
<1>8. CASE \E l \in Lidars : OnImuPacket(l) \/ StartSampling(l)
  BY <1>5, <1>8 DEF OnImuPacket, StartSampling, SetSyncFlag, Environment, frameVars
<1>9. CASE ImuPusherFinishes \/ ImuPoller \/ Destroy
  BY <1>5, <1>9 DEF ImuPusherFinishes, ImuPoller, Destroy, ImuLookIfEmpty, ImuLookAtCount,
     ImuSignal, ImuCheckExit, ImuWait, ImuVisit, ImuPoll, PublishImuData, ImuCheckFuture,
     PollerOnly, frameVars
<1> QED
  BY <1>1, <1>2, <1>3, <1>4, <1>6, <1>7, <1>8, <1>9, TakeIsPosed, TimerIsPosed
  DEF Next, FrameNext, RawDataProcess

LEMMA PosedInit == Init => PosedInvariant
  BY DEF Init, FrameInit, PosedInvariant, ConfiguredFirst, PacketsOfLidars, BuffersArePosed,
     FrameIsPosed, ProcessOK, NoFrame

\* No point of a configured lidar leaves without its extrinsics, for any lidars,
\* packets and interleaving of start-up, callbacks and thread.
THEOREM PointsLeavePosed == Spec => []ConfiguredPointsArePosed
<1>1. PosedInvariant => ConfiguredPointsArePosed
  <2> SUFFICES ASSUME PosedInvariant, NEW l \in Configured \intersect DOMAIN frame,
                      NEW k \in DOMAIN frame[l].points
               PROVE  frame[l].points[k].posed
    BY DEF ConfiguredPointsArePosed
  <2>1. PICK S : frame[l].points \in Seq(S) /\ \A point \in S : point.posed
    BY DEF PosedInvariant, FrameIsPosed, IsBuffer
  <2>2. frame[l].points[k] \in S
    BY <2>1
  <2> QED
    BY <2>1, <2>2
<1> QED
  BY <1>1, PosedInit, PosedStep, PTL DEF Spec

-----------------------------------------------------------------------------
(***************************************************************************)
(* The frames cut by the host's clock: last_pub_time is where their count  *)
(* has brought it, and never ahead of the clock.                           *)
(***************************************************************************)
ClockInvariant ==
  /\ now \in Nat /\ last_pub_time \in Nat
  /\ history.start \in Nat /\ history.cuts \in Nat
  /\ history = [cut |-> history.cut, start |-> history.start, cuts |-> history.cuts]
  /\ first => history.start = 0 /\ history.cuts = 0
  /\ ~first => /\ last_pub_time = history.start + history.cuts * publish_interval
               /\ last_pub_time <= now

LEMMA IntervalIsNat == publish_interval \in Nat
  BY PubAssumption

\* A cut moves last_pub_time on by one interval, which has passed.
LEMMA CutKeepsClock ==
  ASSUME ClockInvariant, CutAll, now' = now
  PROVE  ClockInvariant'
<1> USE DEF ClockInvariant
<1> DEFINE d == publish_interval
<1>1. CASE first
  <2>1. /\ ~first' /\ last_pub_time' = now
        /\ history' = [cut |-> history.cut, start |-> now, cuts |-> history.cuts]
    BY <1>1 DEF CutAll
  <2>2. history.cuts * publish_interval = 0
    BY <1>1, IntervalIsNat
  <2> QED
    BY <1>1, <2>1, <2>2, IntervalIsNat
<1>2. CASE ~first /\ now - last_pub_time < d
  BY <1>2 DEF CutAll
<1>3. CASE ~first /\ ~(now - last_pub_time < d)
  <2>1. /\ first' = first /\ last_pub_time' = last_pub_time + d
        /\ history' = [cut |-> history.cut, start |-> history.start, cuts |-> history.cuts + 1]
    BY <1>3 DEF CutAll
  <2>2. d \in Nat /\ last_pub_time + d <= now
    BY <1>3, IntervalIsNat
  <2> HIDE DEF d
  <2>3. (history.cuts + 1) * d = history.cuts * d + d /\ history.cuts * d \in Nat
    BY <2>2
  <2>4. last_pub_time = history.start + history.cuts * d
    BY <1>3 DEF d
  <2>5. last_pub_time' = history'.start + history'.cuts * d
    BY <2>1, <2>3, <2>4, <2>2
  <2>6. d' = d
    BY DEF d
  <2>7. last_pub_time' = (history.start + history.cuts * publish_interval)'
    BY <2>5, <2>6 DEF d
  <2> QED
    BY <1>3, <2>1, <2>2, <2>7
<1> QED
  BY <1>1, <1>2, <1>3

LEMMA ClockStep ==
  ASSUME ClockInvariant, PosedInvariant, [Next]_vars
  PROVE  ClockInvariant'
<1> USE DEF ClockInvariant
<1> DEFINE Same == /\ UNCHANGED <<first, last_pub_time>>
                   /\ \E c : history' = [history EXCEPT !.cut = c]
<1>1. ASSUME Same, now' \in Nat, now <= now' PROVE ClockInvariant'
  <2>1. PICK c : history' = [cut |-> c, start |-> history.start, cuts |-> history.cuts]
    BY <1>1
  <2>2. last_pub_time = history.start + history.cuts * publish_interval
          => last_pub_time' = (history.start + history.cuts * publish_interval)'
    BY <1>1, <2>1
  <2> QED
    BY <1>1, <2>1, <2>2
<1>2. ASSUME UNCHANGED history PROVE \E c : history' = [history EXCEPT !.cut = c]
  <2> WITNESS history.cut
  <2> QED
    BY <1>2
<1>3. ASSUME NEW l, history' = IF locked[l] THEN history ELSE [history EXCEPT !.cut = NoCut]
      PROVE  \E c : history' = [history EXCEPT !.cut = c]
  BY <1>2, <1>3
<1>4. CASE UNCHANGED <<now, first, last_pub_time, history>>
  BY <1>1, <1>2, <1>4
<1>5. CASE Start \/ PushRawPacket \/ CheckQuit \/ WaitForNothing \/ TakePacket \/ Uninit
  BY <1>4, <1>5 DEF Start, AddLidarsExtParam, SetPointCloudsCallback, SetImuDataCallback,
     SetPointCloudConfig, Setup, PushRawPacket, Environment, CheckQuit, WaitForNothing,
     TakePacket, Thread, Uninit
<1>6. CASE Tick
  <2>1. PointNum \in Nat
    BY PubAssumption
  <2>2. now' = now + PointNum /\ UNCHANGED <<first, last_pub_time, history>>
    BY <1>6 DEF Tick, Environment
  <2> QED
    BY <1>1, <1>2, <2>1, <2>2
<1>7. CASE \E l \in Lidars : LosePacket(l) \/ SwitchClock(l) \/ StartSampling(l)
  BY <1>4, <1>7 DEF LosePacket, SwitchClock, StartSampling, Environment, frameVars
<1>8. CASE \E l \in Lidars : OnLivoxLidarPointCloudCallback(l) \/ OnImuPacket(l)
  <2>1. PICK l \in Lidars : OnLivoxLidarPointCloudCallback(l) \/ OnImuPacket(l)
    BY <1>8
  <2>2. /\ history' = IF locked[l] THEN history ELSE [history EXCEPT !.cut = NoCut]
        /\ UNCHANGED <<now, first, last_pub_time>>
    BY <2>1 DEF OnLivoxLidarPointCloudCallback, OnImuPacket, SetSyncFlag, Environment
  <2> QED
    BY <1>1, <1>3, <2>2
<1>9. CASE CheckTimer
  <2>1. now' = now
    BY <1>9 DEF CheckTimer, Thread
  <2>2. CASE CutAll
    BY <2>1, <2>2, CutKeepsClock
  <2>3. ASSUME NEW l, CutOne(l) PROVE ClockInvariant'
    <3>1. UNCHANGED <<first, last_pub_time>>
      BY <2>3 DEF CutOne
    <3>2. \E c : history' = [history EXCEPT !.cut = c]
      BY <1>2, <2>3 DEF CutOne
    <3> QED
      BY <1>1, <2>1, <3>1, <3>2
  <2>4. \E l : process.lidar = {l}
    BY <1>9 DEF CheckTimer, PosedInvariant, ProcessOK
  <2> QED
    BY <1>9, <2>2, <2>3, <2>4 DEF CheckTimer
<1>10. CASE ImuPusherFinishes \/ ImuPoller \/ Destroy \/ UNCHANGED vars
  BY <1>4, <1>10 DEF ImuPusherFinishes, ImuPoller, Destroy, ImuLookIfEmpty, ImuLookAtCount,
     ImuSignal, ImuCheckExit, ImuWait, ImuVisit, ImuPoll, PublishImuData, ImuCheckFuture,
     PollerOnly, frameVars, vars
<1> QED
  BY <1>5, <1>6, <1>7, <1>8, <1>9, <1>10
  DEF Next, FrameNext, LidarSteps, RawDataProcess

LEMMA ClockHolds == Spec => []ClockInvariant
<1>1. Init => ClockInvariant
  BY DEF Init, FrameInit, ClockInvariant
<1> QED
  BY <1>1, ClockStep, PosedInit, PosedStep, PTL DEF Spec

\* Without time synchronisation no more than one frame per interval is handed
\* over since the first packet (CheckTimer, last_pub_time), for any interval,
\* any packets and any schedule.
THEOREM HostFramesKeepTheInterval == Spec => []HostFramesInterval
<1>1. ClockInvariant => HostFramesInterval
  BY IntervalIsNat DEF ClockInvariant, HostFramesInterval
<1> QED
  BY <1>1, ClockHolds, PTL

-----------------------------------------------------------------------------
(***************************************************************************)
(* IMU wakeups.  A packet that waits has something that will lead the poll *)
(* thread to it: the semaphore's count, the pusher on its way to raise it, *)
(* or the thread's own round, which has not passed the lidar yet.          *)
(***************************************************************************)
ImuShapes ==
  /\ imu_data = [l \in Lidars |-> imu_data[l]]
  /\ connect_state = [l \in Lidars |-> connect_state[l]]
  /\ imu_semaphore \in Nat
  /\ imu_pusher = [at |-> imu_pusher.at, lidar |-> imu_pusher.lidar]
  /\ imu_poller = [at |-> imu_poller.at, index |-> imu_poller.index]
  /\ imu_poller.index \in DOMAIN lidars_

\* The poll thread has yet to finish with l on this round.
OnTheRound(l) ==
  /\ imu_poller.at \in {"visit", "poll", "pop"}
  /\ \E i \in DOMAIN lidars_ : imu_poller.index <= i /\ lidars_[i] = l

WillBeSeen(l) ==
  \/ imu_semaphore > 0
  \/ imu_pusher.at \in {"count", "signal"}
  \/ imu_pusher.at = "pushed" /\ l \in imu_pusher.lidar
  \/ OnTheRound(l)
  \/ IsRequestExit /\ imu_poller.at # "wait"

WakeupInvariant ==
  /\ ImuShapes
  /\ \A l \in Lidars : ImuUnseen(l) => WillBeSeen(l)

\* The thread leaves a lidar that needs it no more.
LEMMA RoundGoesOn ==
  ASSUME ImuShapes, imu_poller.at \in {"visit", "poll"}, ImuNextLidar,
         NEW l, OnTheRound(l), l # Visited
  PROVE  OnTheRound(l)'
<1>1. PICK i \in DOMAIN lidars_ : imu_poller.index <= i /\ lidars_[i] = l
  BY DEF OnTheRound
<1>2. i \in 1 .. Len(lidars_) /\ Len(lidars_) \in Nat
  BY ImuAssumption
<1>3. i # imu_poller.index
  BY <1>1 DEF Visited
<1>4. imu_poller' = [at |-> "visit", index |-> imu_poller.index + 1]
  BY <1>1, <1>2, <1>3 DEF ImuNextLidar, ImuShapes
<1>5. imu_poller.index + 1 <= i
  BY <1>1, <1>2, <1>3, ImuAssumption DEF ImuShapes
<1> QED
  BY <1>1, <1>4, <1>5 DEF OnTheRound

LEMMA PusherKeepsWakeup ==
  ASSUME WakeupInvariant, ImuPusherFinishes
  PROVE  WakeupInvariant'
<1>1. UNCHANGED <<imu_data, connect_state, imu_poller, request_exit, imu_fresh>>
  BY DEF ImuPusherFinishes, ImuLookIfEmpty, ImuLookAtCount, ImuSignal, PusherOnly
<1>2. ImuShapes'
  BY <1>1 DEF WakeupInvariant, ImuShapes, ImuPusherFinishes, ImuLookIfEmpty, ImuLookAtCount,
     ImuSignal, ImuIdle
<1>3. ASSUME NEW l \in Lidars, ImuUnseen(l)' PROVE WillBeSeen(l)'
  <2>1. ImuUnseen(l) /\ WillBeSeen(l)
    BY <1>1, <1>3 DEF ImuUnseen, WakeupInvariant
  <2>2. CASE ImuLookIfEmpty
    BY <1>1, <2>1, <2>2 DEF ImuLookIfEmpty, WillBeSeen, ImuUnseen, OnTheRound, IsRequestExit,
       WakeupInvariant, ImuShapes
  <2>3. CASE ImuLookAtCount
    BY <1>1, <2>1, <2>3 DEF ImuLookAtCount, WillBeSeen, WakeupInvariant, ImuShapes
  <2>4. CASE ImuSignal
    BY <2>4 DEF ImuSignal, WillBeSeen, WakeupInvariant, ImuShapes
  <2> QED
    BY <2>2, <2>3, <2>4 DEF ImuPusherFinishes
<1> QED
  BY <1>2, <1>3 DEF WakeupInvariant

LEMMA PollerKeepsWakeup ==
  ASSUME WakeupInvariant, ImuPoller
  PROVE  WakeupInvariant'
<1> USE DEF WakeupInvariant
<1>1. UNCHANGED <<connect_state, imu_pusher, request_exit>>
  BY DEF ImuPoller, ImuCheckExit, ImuWait, ImuVisit, ImuPoll, PublishImuData, ImuCheckFuture,
     PollerOnly
<1>2. ImuShapes'
  <2>1. imu_data' = [l \in Lidars |-> imu_data'[l]]
    BY DEF ImuShapes, ImuPoller, ImuCheckExit, ImuWait, ImuVisit, ImuPoll, PublishImuData,
       ImuCheckFuture
  <2>2. imu_semaphore' \in Nat
    BY DEF ImuShapes, ImuPoller, ImuCheckExit, ImuWait, ImuVisit, ImuPoll, PublishImuData,
       ImuCheckFuture
  <2>3. /\ imu_poller' = [at |-> imu_poller'.at, index |-> imu_poller'.index]
        /\ imu_poller'.index \in DOMAIN lidars_
    BY ImuAssumption DEF ImuShapes, ImuPoller, ImuCheckExit, ImuWait, ImuVisit, ImuPoll, PublishImuData,
       ImuCheckFuture, ImuPollerGoes, ImuNextLidar
  <2> QED
    BY <1>1, <2>1, <2>2, <2>3 DEF ImuShapes
<1>3. ASSUME NEW l \in Lidars, ImuUnseen(l)' PROVE WillBeSeen(l)'
  <2>1. CASE ImuCheckExit
    BY <1>1, <1>3, <2>1 DEF ImuCheckExit, ImuPollerGoes, ImuUnseen, WillBeSeen, OnTheRound,
       IsRequestExit, ImuShapes
  <2>2. CASE ImuWait
    <3>1. imu_poller' = [at |-> "visit", index |-> 1]
      BY <2>2 DEF ImuWait
    <3>2. \E i \in DOMAIN lidars_ : 1 <= i /\ lidars_[i] = l
      BY ImuAssumption
    <3> QED
      BY <3>1, <3>2 DEF WillBeSeen, OnTheRound
  <2>3. CASE ImuVisit
    <3>1. imu_poller.at = "visit" /\ UNCHANGED <<imu_data, imu_semaphore>>
      BY <2>3 DEF ImuVisit
    <3>2. CASE connect_state[Visited] = "sampling"
      <4>1. /\ imu_poller' = [at |-> "poll", index |-> imu_poller.index]
            /\ imu_fresh' = imu_fresh \ {Visited}
        BY <2>3, <3>2 DEF ImuVisit, ImuPollerGoes, ImuShapes
      <4>2. OnTheRound(l) => OnTheRound(l)'
        BY <4>1 DEF OnTheRound
      <4>3. CASE ImuUnseen(l)
        BY <1>1, <3>1, <4>1, <4>2, <4>3 DEF WillBeSeen, IsRequestExit
      <4>4. CASE ~ImuUnseen(l)
        <5>1. l = Visited
          BY <1>1, <1>3, <3>1, <4>1, <4>4 DEF ImuUnseen
        <5> QED
          BY <4>1, <5>1, ImuAssumption DEF WillBeSeen, OnTheRound, Visited, ImuShapes
      <4> QED
        BY <4>3, <4>4
    <3>3. CASE connect_state[Visited] # "sampling"
      <4>1. ImuNextLidar /\ imu_fresh' = imu_fresh
        BY <2>3, <3>3 DEF ImuVisit
      <4>2. ImuUnseen(l) /\ l # Visited
        BY <1>1, <1>3, <3>1, <3>3, <4>1 DEF ImuUnseen
      <4>3. OnTheRound(l) => OnTheRound(l)'
        BY <3>1, <4>1, <4>2, RoundGoesOn
      <4>4. imu_poller'.at # "wait"
        BY <4>1 DEF ImuNextLidar, ImuShapes
      <4> QED
        BY <1>1, <3>1, <4>2, <4>3, <4>4 DEF WillBeSeen, IsRequestExit
    <3> QED
      BY <3>2, <3>3
  <2>4. CASE ImuPoll
    <3>1. imu_poller.at = "poll" /\ UNCHANGED <<imu_data, imu_semaphore, imu_fresh>>
      BY <2>4 DEF ImuPoll
    <3>2. ImuUnseen(l) /\ WillBeSeen(l)
      BY <1>1, <1>3, <3>1 DEF ImuUnseen
    <3>3. imu_poller'.at # "wait"
      BY <2>4 DEF ImuPoll, ImuPollerGoes, ImuNextLidar, ImuShapes
    <3>4. CASE IsRequestExit
      BY <1>1, <3>3, <3>4 DEF WillBeSeen, IsRequestExit
    <3>5. CASE ImuPollerGoes("pop")
      BY <1>1, <3>1, <3>2, <3>5 DEF ImuPollerGoes, WillBeSeen, OnTheRound, IsRequestExit, ImuShapes
    <3>6. CASE ImuNextLidar /\ imu_data[Visited] = <<>>
      <4>1. OnTheRound(l) => OnTheRound(l)'
        BY <3>1, <3>2, <3>6, RoundGoesOn DEF ImuUnseen
      <4> QED
        BY <1>1, <3>1, <3>2, <3>3, <4>1 DEF WillBeSeen, IsRequestExit
    <3> QED
      BY <2>4, <3>4, <3>5, <3>6 DEF ImuPoll
  <2>5. CASE PublishImuData
    <3>1. /\ imu_poller.at = "pop" /\ imu_poller' = [at |-> "poll", index |-> imu_poller.index]
          /\ UNCHANGED <<imu_semaphore, imu_fresh>>
      BY <2>5 DEF PublishImuData, ImuPollerGoes, ImuShapes
    <3>2. imu_data[l] = <<>> => imu_data'[l] = <<>>
      BY <2>5 DEF PublishImuData, ImuShapes
    <3>3. ImuUnseen(l) /\ WillBeSeen(l)
      BY <1>1, <1>3, <3>1, <3>2 DEF ImuUnseen
    <3> QED
      BY <1>1, <3>1, <3>3 DEF WillBeSeen, OnTheRound, IsRequestExit
  <2>6. CASE ImuCheckFuture
    BY <1>1, <1>3, <2>6 DEF ImuCheckFuture, ImuPollerGoes, ImuUnseen, WillBeSeen, OnTheRound,
       IsRequestExit, ImuShapes
  <2> QED
    BY <2>1, <2>2, <2>3, <2>4, <2>5, <2>6 DEF ImuPoller
<1> QED
  BY <1>2, <1>3

LEMMA WakeupInit == Init => WakeupInvariant
<1> SUFFICES ASSUME Init PROVE WakeupInvariant
  OBVIOUS
<1>1. ImuShapes
  BY ImuAssumption DEF Init, ImuShapes, ImuIdle
<1>2. \A l \in Lidars : ~ImuUnseen(l)
  BY DEF Init, ImuUnseen
<1> QED
  BY <1>1, <1>2 DEF WakeupInvariant

LEMMA WakeupStep ==
  ASSUME WakeupInvariant, [Next]_vars
  PROVE  WakeupInvariant'
<1> USE DEF WakeupInvariant
<1>1. CASE UNCHANGED imuVars
  BY <1>1 DEF imuVars, ImuShapes, ImuUnseen, WillBeSeen, OnTheRound, IsRequestExit
<1>2. ASSUME NEW m \in Lidars, OnImuPacket(m) PROVE WakeupInvariant'
  <2>1. /\ imu_pusher.at = "idle"
        /\ UNCHANGED <<imu_semaphore, connect_state, imu_poller, request_exit>>
    BY <1>2 DEF OnImuPacket
  <2>2. CASE UNCHANGED <<imu_data, imu_pusher, imu_fresh>>
    BY <1>1, <1>2, <2>2 DEF OnImuPacket, imuVars, ImuShapes, ImuUnseen, WillBeSeen, OnTheRound,
       IsRequestExit
  <2>3. CASE /\ imu_data' = [imu_data EXCEPT ![m] = Append(@, left.imu)]
             /\ imu_pusher' = [at |-> "pushed", lidar |-> {m}]
             /\ imu_fresh' = imu_fresh \ {m}
    <3>1. ImuShapes'
      BY <2>1, <2>3 DEF ImuShapes
    <3>2. ASSUME NEW l \in Lidars, ImuUnseen(l)', l # m PROVE WillBeSeen(l)'
      <4>1. ImuUnseen(l)
        BY <2>1, <2>3, <3>2 DEF ImuUnseen, ImuShapes
      <4> QED
        BY <2>1, <2>3, <4>1 DEF WillBeSeen, OnTheRound, IsRequestExit
    <3>3. WillBeSeen(m)'
      BY <2>3 DEF WillBeSeen
    <3> QED
      BY <3>1, <3>2, <3>3
  <2> QED
    BY <1>2, <2>2, <2>3 DEF OnImuPacket
<1>3. ASSUME NEW m \in Lidars, StartSampling(m) PROVE WakeupInvariant'
  <2>1. /\ connect_state' = [connect_state EXCEPT ![m] = "sampling"]
        /\ imu_fresh' = imu_fresh \union {m}
        /\ UNCHANGED <<imu_data, imu_semaphore, imu_pusher, imu_poller, request_exit>>
    BY <1>3 DEF StartSampling
  <2>2. ImuShapes'
    BY <2>1 DEF ImuShapes
  <2>3. ASSUME NEW l \in Lidars, ImuUnseen(l)' PROVE WillBeSeen(l)'
    <3>1. ImuUnseen(l)
      BY <2>1, <2>3 DEF ImuUnseen, ImuShapes
    <3> QED
      BY <2>1, <3>1 DEF WillBeSeen, OnTheRound, IsRequestExit
  <2> QED
    BY <2>2, <2>3
<1>4. CASE Destroy
  <2>1. /\ IsRequestExit'
        /\ UNCHANGED <<imu_data, connect_state, imu_semaphore, imu_pusher, imu_poller, imu_fresh>>
    BY <1>4 DEF Destroy, IsRequestExit
  <2> QED
    BY <2>1 DEF ImuShapes, ImuUnseen, WillBeSeen, OnTheRound
<1> QED
  BY <1>1, <1>2, <1>3, <1>4, PusherKeepsWakeup, PollerKeepsWakeup DEF Next, vars, imuVars

\* No IMU wakeup is lost (StorageImuData, PollingLidarImuData), for any lidars,
\* packets and interleaving of callback, poll thread and shutdown.
THEOREM ImuWakeupIsNotLost == Spec => []NoLostImuWakeup
<1>1. WakeupInvariant => NoLostImuWakeup
  BY DEF WakeupInvariant, NoLostImuWakeup, WillBeSeen, OnTheRound, ImuShapes
<1> QED
  BY <1>1, WakeupInit, WakeupStep, PTL DEF Spec

-----------------------------------------------------------------------------
(***************************************************************************)
(* The IMU queues as channels.  Packets are numbered down, so that a queue *)
(* holds numbers that fall, all above what is left: it never holds one     *)
(* twice, and has room for the next.                                       *)
(***************************************************************************)
Load == [packets : [Lidars -> Nat], locked : [Lidars -> BOOLEAN],
         ends : SUBSET {"PubHandler", "DriverNode"},
         losses : Nat, delays : Nat, switches : Nat, imu : Nat]

Falling(queue) == \A j, k \in 1 .. Len(queue) : j < k => queue[k] < queue[j]

ImuOrder ==
  /\ left \in Load
  /\ 1 .. left.imu \subseteq ImuPackets
  /\ imu_data \in [Lidars -> Seq(ImuPackets)]
  /\ imu_published \in [Lidars -> SUBSET ImuPackets]
  /\ \A l \in Lidars : /\ Falling(imu_data[l])
                       /\ \A k \in 1 .. Len(imu_data[l]) : left.imu < imu_data[l][k]

ImuChannelStep == \A l \in Lidars : ImuChannel(l)!Next \/ UNCHANGED ImuChannel(l)!vars

LEMMA PacketNumbers == ImuPackets \subseteq Nat /\ IsFiniteSet(ImuPackets)
<1>1. ASSUME NEW p \in ImuPackets PROVE p \in Nat
  <2>1. PICK load \in Loads : p \in 1 .. load.imu
    BY DEF ImuPackets
  <2>2. load.imu \in Nat
    BY PubAssumption
  <2> QED
    BY <2>1, <2>2
<1> QED
  BY <1>1, ImuAssumption

\* A queue without the packet that comes next has room for it.
LEMMA QueueHasRoom ==
  ASSUME NEW queue \in Seq(ImuPackets), Falling(queue),
         NEW p \in ImuPackets, \A k \in 1 .. Len(queue) : p < queue[k]
  PROVE  Len(queue) < Cardinality(ImuPackets)
<1> DEFINE n == Len(queue)
           S == ImuPackets \ {p}
<1>1. n \in Nat /\ \A k \in 1 .. n : queue[k] \in ImuPackets /\ queue[k] \in Nat
  <2>1. n \in Nat /\ \A k \in 1 .. n : queue[k] \in ImuPackets
    OBVIOUS
  <2> QED
    BY <2>1, PacketNumbers
<1>2. p \in Nat /\ IsFiniteSet(ImuPackets)
  BY PacketNumbers
<1>3. \A k \in 1 .. n : queue[k] \in S
  BY <1>1, <1>2
<1>4. ASSUME NEW j \in 1 .. n, NEW k \in 1 .. n, queue[j] = queue[k] PROVE j = k
  <2>1. CASE j < k BY <1>1, <1>4, <2>1 DEF Falling
  <2>2. CASE k < j BY <1>1, <1>4, <2>2 DEF Falling
  <2> QED BY <1>1, <2>1, <2>2
<1> DEFINE f == [k \in 1 .. n |-> queue[k]]
<1>5. f \in Injection(1 .. n, S)
  <2>1. f \in [1 .. n -> S] BY <1>3
  <2>2. \A a, b \in DOMAIN f : f[a] = f[b] => a = b BY <1>4
  <2> HIDE DEF f, S
  <2> QED BY <2>1, <2>2 DEF Injection, IsInjective
<1>6. IsFiniteSet(S) /\ Cardinality(S) = Cardinality(ImuPackets) - 1 /\ Cardinality(ImuPackets) \in Nat
  BY <1>2, FS_RemoveElement, FS_CardinalityType
<1>7. Cardinality(1 .. n) <= Cardinality(S)
  <2> HIDE DEF f, S, n
  <2> QED BY <1>5, <1>6, FS_Injection
<1>8. Cardinality(1 .. n) = n
  <2> HIDE DEF f, S, n
  <2>1. 1 \in Int /\ n \in Int BY <1>1
  <2>2. Cardinality(1 .. n) = IF 1 > n THEN 0 ELSE n - 1 + 1 BY <2>1, FS_Interval
  <2> QED BY <1>1, <2>2
<1> HIDE DEF n
<1>9. n < Cardinality(ImuPackets) BY <1>1, <1>6, <1>7, <1>8
<1> QED BY <1>9 DEF n

LEMMA ImuOrderInit == Init => ImuOrder
<1> SUFFICES ASSUME Init PROVE ImuOrder
  OBVIOUS
<1>1. left \in Loads /\ left \in Load
  BY PubAssumption DEF Init, FrameInit, Load
<1>2. 1 .. left.imu \subseteq ImuPackets
  BY <1>1 DEF ImuPackets
<1>3. /\ imu_data = [l \in Lidars |-> <<>>] /\ imu_published = [l \in Lidars |-> {}]
      /\ imu_poller.index = 1
  BY DEF Init
<1> QED
  BY <1>1, <1>2, <1>3, ImuAssumption DEF ImuOrder, Falling

\* Steps of others only use up the load.
LEMMA LoadShrinks ==
  ASSUME left \in Load, [Next]_vars
  PROVE  /\ left' \in Load
         /\ left'.imu = left.imu \/ \E l \in Lidars : OnImuPacket(l)
<1> USE DEF Load
<1>1. CASE UNCHANGED left
  BY <1>1
<1>0. /\ left = [packets |-> left.packets, locked |-> left.locked, ends |-> left.ends,
                 losses |-> left.losses, delays |-> left.delays,
                 switches |-> left.switches, imu |-> left.imu]
      /\ left.packets \in [Lidars -> Nat]
      /\ {left.losses, left.delays, left.switches, left.imu} \subseteq Nat
  OBVIOUS
<1>2. CASE Tick
  <2>1. PICK late \in {0, 1} : late <= left.delays /\ left' = [left EXCEPT !.delays = @ - late]
    BY <1>2 DEF Tick
  <2> QED
    BY <1>0, <2>1
<1>3. ASSUME NEW l \in Lidars, NEW lost \in {0, 1}, lost <= left.losses, PacketSent(l, lost)
      PROVE  left' \in Load /\ left'.imu = left.imu
  <2>1. left' = [packets |-> [left.packets EXCEPT ![l] = left.packets[l] - 1],
                 locked |-> left.locked, ends |-> left.ends, losses |-> left.losses - lost,
                 delays |-> left.delays, switches |-> left.switches, imu |-> left.imu]
    BY <1>0, <1>3 DEF PacketSent
  <2>2. left.packets[l] - 1 \in Nat
    BY <1>0, <1>3 DEF PacketSent, Sending
  <2> QED
    BY <1>0, <1>3, <2>1, <2>2
<1>4. CASE \E l \in Lidars : OnLivoxLidarPointCloudCallback(l) \/ LosePacket(l)
  <2>1. PICK l \in Lidars : OnLivoxLidarPointCloudCallback(l) \/ LosePacket(l)
    BY <1>4
  <2>2. (PacketSent(l, 0) /\ 0 <= left.losses) \/ (PacketSent(l, 1) /\ 1 <= left.losses)
    BY <1>0, <2>1 DEF OnLivoxLidarPointCloudCallback, LosePacket
  <2> QED
    BY <1>3, <2>2
<1>5. CASE \E l \in Lidars : SwitchClock(l)
  <2>1. left.switches > 0 /\ left' = [left EXCEPT !.switches = @ - 1]
    BY <1>5 DEF SwitchClock
  <2> QED
    BY <1>0, <2>1
<1>6. CASE \E l \in Lidars : OnImuPacket(l)
  <2>1. left.imu > 0 /\ left' = [left EXCEPT !.imu = @ - 1]
    BY <1>6 DEF OnImuPacket
  <2> QED
    BY <1>0, <1>6, <2>1
<1>7. CASE Start \/ PushRawPacket \/ RawDataProcess \/ Uninit
  BY <1>1, <1>7 DEF Start, AddLidarsExtParam, SetPointCloudsCallback, SetImuDataCallback,
     SetPointCloudConfig, Setup, PushRawPacket, Environment, RawDataProcess, CheckQuit,
     WaitForNothing, TakePacket, CheckTimer, Thread, Uninit
<1>8. CASE ImuPusherFinishes \/ ImuPoller \/ Destroy \/ UNCHANGED vars \/ \E l \in Lidars : StartSampling(l)
  BY <1>1, <1>8 DEF ImuPusherFinishes, ImuPoller, Destroy, ImuLookIfEmpty, ImuLookAtCount,
     ImuSignal, ImuCheckExit, ImuWait, ImuVisit, ImuPoll, PublishImuData, ImuCheckFuture,
     PollerOnly, frameVars, vars, StartSampling
<1> QED
  BY <1>2, <1>4, <1>5, <1>6, <1>7, <1>8 DEF Next, FrameNext, LidarSteps

\* A packet comes: it is the smallest number yet, or it is turned away.
LEMMA ImuPacketComes ==
  ASSUME ImuOrder, NEW m \in Lidars, OnImuPacket(m)
  PROVE  ImuOrder' /\ ImuChannelStep
<1> DEFINE p == left.imu
<1>1. /\ p \in Nat /\ p > 0 /\ left' \in Load /\ left'.imu = p - 1
      /\ UNCHANGED <<imu_published, imu_poller>>
      /\ p \in ImuPackets /\ 1 .. p - 1 \subseteq ImuPackets
  <2>1. [Next]_vars /\ left \in Load
    BY DEF Next, ImuOrder
  <2>2. left.imu \in Nat /\ left.imu > 0
    BY <2>1 DEF Load, OnImuPacket
  <2>3. left'.imu = left.imu - 1
    BY <2>1 DEF Load, OnImuPacket
  <2>4. left' \in Load
    BY <2>1, LoadShrinks
  <2>5. UNCHANGED <<imu_published, imu_poller>> /\ 1 .. left.imu \subseteq ImuPackets
    BY DEF ImuOrder, OnImuPacket
  <2>6. p \in 1 .. p /\ 1 .. p - 1 \subseteq 1 .. p
    BY <2>2
  <2> QED
    BY <2>2, <2>3, <2>4, <2>5, <2>6
<1>n. \A l \in Lidars : \A k \in 1 .. Len(imu_data[l]) : imu_data[l][k] \in Nat
  <2>1. \A l \in Lidars : \A k \in 1 .. Len(imu_data[l]) : imu_data[l][k] \in ImuPackets
    BY DEF ImuOrder
  <2> QED
    BY <2>1, PacketNumbers
<1>2. CASE UNCHANGED imu_data
  <2>1. ImuOrder'
    <3>1. \A l \in Lidars : \A k \in 1 .. Len(imu_data[l]) : left'.imu < imu_data[l][k]
      <4> SUFFICES ASSUME NEW l \in Lidars, NEW k \in 1 .. Len(imu_data[l])
                   PROVE  left'.imu < imu_data[l][k]
        OBVIOUS
      <4>1. imu_data[l][k] \in Nat /\ left.imu < imu_data[l][k]
        BY <1>n DEF ImuOrder
      <4> QED
        BY <1>1, <4>1
    <3> QED
      BY <1>1, <1>2, <3>1 DEF ImuOrder, Falling
  <2>2. ImuChannelStep
    BY <1>1, <1>2 DEF ImuChannelStep, ImuChannel!vars
  <2> QED BY <2>1, <2>2
<1>3. CASE imu_data' = [imu_data EXCEPT ![m] = Append(@, left.imu)]
  <2> DEFINE q == imu_data[m]
  <2>1. /\ q \in Seq(ImuPackets) /\ Falling(q) /\ \A k \in 1 .. Len(q) : p < q[k]
        /\ imu_data'[m] = Append(q, p)
        /\ \A l \in Lidars \ {m} : imu_data'[l] = imu_data[l]
    BY <1>3 DEF ImuOrder
  <2>2. Len(q) < Cardinality(ImuPackets)
    BY <1>1, <2>1, QueueHasRoom
  <2> DEFINE a == Append(q, p)
  <2>3. /\ a \in Seq(ImuPackets) /\ Len(a) = Len(q) + 1 /\ Len(q) \in Nat
        /\ \A k \in 1 .. Len(q) : a[k] = q[k] /\ q[k] \in ImuPackets
        /\ a[Len(q) + 1] = p
    BY <1>1, <2>1
  <2>4. \A k \in 1 .. Len(q) : q[k] \in Nat
    BY <2>3, PacketNumbers
  <2> HIDE DEF a, q, p
  <2>5. Falling(a)
    <3> SUFFICES ASSUME NEW j \in 1 .. Len(a), NEW k \in 1 .. Len(a), j < k PROVE a[k] < a[j]
      BY DEF Falling
    <3>1. j \in 1 .. Len(q)
      BY <2>3
    <3>2. CASE k \in 1 .. Len(q)
      BY <2>1, <2>3, <3>1, <3>2 DEF Falling
    <3>3. CASE k = Len(q) + 1
      BY <2>1, <2>3, <3>1, <3>3
    <3> QED
      BY <2>3, <3>2, <3>3
  <2>6. \A k \in 1 .. Len(a) : p - 1 < a[k]
    <3> SUFFICES ASSUME NEW k \in 1 .. Len(a) PROVE p - 1 < a[k]
      OBVIOUS
    <3>1. CASE k \in 1 .. Len(q)
      BY <1>1, <2>1, <2>3, <2>4, <3>1
    <3>2. CASE k = Len(q) + 1
      BY <1>1, <2>3, <3>2
    <3> QED
      BY <2>3, <3>1, <3>2
  <2>7. \A l \in Lidars \ {m} : \A k \in 1 .. Len(imu_data[l]) : p - 1 < imu_data[l][k]
    <3> SUFFICES ASSUME NEW l \in Lidars, NEW k \in 1 .. Len(imu_data[l])
                 PROVE  p - 1 < imu_data[l][k]
      OBVIOUS
    <3>1. imu_data[l][k] \in Nat /\ p < imu_data[l][k]
      BY <1>n DEF ImuOrder, p
    <3> QED
      BY <1>1, <3>1
  <2>8. ImuOrder'
    <3>1. imu_data' \in [Lidars -> Seq(ImuPackets)]
      BY <1>3, <2>3 DEF ImuOrder, a, q, p
    <3>2. left'.imu = p - 1 /\ 1 .. left'.imu \subseteq ImuPackets
      BY <1>1
    <3>3. ASSUME NEW l \in Lidars
          PROVE  Falling(imu_data'[l]) /\ \A k \in 1 .. Len(imu_data'[l]) : p - 1 < imu_data'[l][k]
      <4>1. CASE l = m
        BY <2>1, <2>5, <2>6, <4>1 DEF a
      <4>2. CASE l # m
        BY <2>1, <2>7, <4>2 DEF ImuOrder
      <4> QED
        BY <4>1, <4>2
    <3> QED
      BY <1>1, <3>1, <3>2, <3>3 DEF ImuOrder, Falling
  <2>9. ImuChannel(m)!Next
    <3>1. ImuChannel(m)!Accept(p)
      BY <1>1, <2>1, <2>2 DEF ImuChannel!Accept, q
    <3> QED
      BY <1>1, <3>1 DEF ImuChannel!Next
  <2>10. \A l \in Lidars \ {m} : UNCHANGED ImuChannel(l)!vars
    BY <1>1, <2>1 DEF ImuChannel!vars
  <2> QED BY <2>8, <2>9, <2>10 DEF ImuChannelStep
<1> QED
  BY <1>2, <1>3 DEF OnImuPacket

\* The poll thread takes the oldest packet, or finds none.
LEMMA ImuPacketGoes ==
  ASSUME ImuShapes, ImuOrder, PublishImuData
  PROVE  ImuOrder' /\ ImuChannelStep
<1>1. PICK m \in Lidars : m = Visited
  BY ImuAssumption DEF ImuShapes, Visited
<1>2. UNCHANGED left
  BY DEF PublishImuData, PollerOnly, frameVars
<1>3. CASE imu_data[m] = <<>>
  <2>1. UNCHANGED <<imu_data, imu_published>>
    BY <1>1, <1>3 DEF PublishImuData
  <2> QED
    BY <1>2, <2>1 DEF ImuOrder, Falling, ImuChannelStep, ImuChannel!vars
<1>4. CASE imu_data[m] # <<>>
  <2> DEFINE q == imu_data[m]
             t == Tail(q)
  <2>1. /\ imu_data' = [imu_data EXCEPT ![m] = t]
        /\ imu_published' = [imu_published EXCEPT ![m] = {Head(q)}]
    BY <1>1, <1>4 DEF PublishImuData
  <2>2. q \in Seq(ImuPackets) /\ Falling(q) /\ \A k \in 1 .. Len(q) : left.imu < q[k]
    BY DEF ImuOrder
  <2>3. /\ t \in Seq(ImuPackets) /\ Head(q) \in ImuPackets
        /\ \A k \in 1 .. Len(t) : k + 1 \in 1 .. Len(q) /\ t[k] = q[k + 1]
    BY <1>4, <2>2
  <2> HIDE DEF t
  <2>4. Falling(t)
    <3> SUFFICES ASSUME NEW j \in 1 .. Len(t), NEW k \in 1 .. Len(t), j < k PROVE t[k] < t[j]
      BY DEF Falling
    <3>1. j + 1 < k + 1
      OBVIOUS
    <3> QED
      BY <2>2, <2>3, <3>1 DEF Falling
  <2>5. \A k \in 1 .. Len(t) : left.imu < t[k]
    BY <2>2, <2>3
  <2>6. /\ imu_data' \in [Lidars -> Seq(ImuPackets)] /\ imu_data'[m] = t
        /\ imu_published' \in [Lidars -> SUBSET ImuPackets] /\ imu_published'[m] = {Head(q)}
        /\ \A l \in Lidars \ {m} : imu_data'[l] = imu_data[l] /\ imu_published'[l] = imu_published[l]
    BY <2>1, <2>3 DEF ImuOrder
  <2>7. ASSUME NEW l \in Lidars
        PROVE  Falling(imu_data'[l]) /\ \A k \in 1 .. Len(imu_data'[l]) : left.imu < imu_data'[l][k]
    <3>1. CASE l = m
      BY <2>4, <2>5, <2>6, <3>1
    <3>2. CASE l # m
      BY <2>6, <3>2 DEF ImuOrder
    <3> QED
      BY <3>1, <3>2
  <2>8. ImuOrder'
    BY <1>2, <2>6, <2>7 DEF ImuOrder, Falling
  <2>9. ImuChannel(m)!Next
    <3>1. ImuChannel(m)!Take
      BY <1>4, <2>6 DEF ImuChannel!Take, t
    <3> QED
      BY <3>1 DEF ImuChannel!Next
  <2>10. \A l \in Lidars \ {m} : UNCHANGED ImuChannel(l)!vars
    BY <2>6 DEF ImuChannel!vars
  <2> QED
    BY <2>8, <2>9, <2>10 DEF ImuChannelStep
<1> QED
  BY <1>3, <1>4

LEMMA ImuOrderStep ==
  ASSUME ImuShapes, ImuOrder, [Next]_vars
  PROVE  ImuOrder' /\ ImuChannelStep
<1>1. CASE UNCHANGED <<imu_data, imu_published>> /\ ~\E l \in Lidars : OnImuPacket(l)
  <2>1. left' \in Load /\ left'.imu = left.imu
    BY <1>1, LoadShrinks DEF ImuOrder
  <2> QED
    BY <1>1, <2>1 DEF ImuOrder, Falling, ImuChannelStep, ImuChannel!vars
<1>2. CASE \E l \in Lidars : OnImuPacket(l)
  BY <1>2, ImuPacketComes
<1>3. CASE PublishImuData
  BY <1>3, ImuPacketGoes
<1>4. CASE ~PublishImuData /\ ~\E l \in Lidars : OnImuPacket(l)
  <2>1. UNCHANGED <<imu_data, imu_published>>
    BY <1>4 DEF Next, vars, imuVars, StartSampling, ImuPusherFinishes, ImuLookIfEmpty,
       ImuLookAtCount, ImuSignal, PusherOnly, ImuPoller, ImuCheckExit, ImuWait, ImuVisit,
       ImuPoll, ImuCheckFuture, Destroy
  <2> QED
    BY <1>1, <1>4, <2>1
<1> QED
  BY <1>2, <1>3, <1>4

\* Each lidar's IMU packets are published in order and each once (StorageImuData,
\* PublishImuData), for any lidars, packets and interleaving, also while the
\* lidar is not sampling or the driver ends.
THEOREM ImuQueuesStayChannels == Spec => ImuQueuesAreChannels
<1>1. Init => \A l \in Lidars : ImuChannel(l)!Init
  BY DEF Init, ImuChannel!Init
<1>2. ImuShapes /\ ImuOrder /\ [Next]_vars => ImuOrder' /\ [ImuChannelStep]_vars
  BY ImuOrderStep
<1>3. WakeupInvariant => ImuShapes
  BY DEF WakeupInvariant
<1>4. Spec => [](ImuShapes /\ ImuOrder)
  BY <1>2, <1>3, WakeupInit, WakeupStep, ImuOrderInit, PTL DEF Spec
<1>5. Spec => [][ImuChannelStep]_vars
  BY <1>2, <1>4, PTL DEF Spec
<1> QED
  BY <1>1, <1>5, PTL DEF Spec, ImuQueuesAreChannels, ImuChannelStep

-----------------------------------------------------------------------------
(***************************************************************************)
(* The streams of points.  What has yet to come of a lidar is ordered,     *)
(* from the packets that are queued to the one that is sent next; a buffer *)
(* ends before all of it, holds no point twice and begins with the         *)
(* earliest, on whichever clock stamped its points.                        *)
(***************************************************************************)
Packet == [lidar : Lidars, at : Nat, time_stamp : Nat, synced : BOOLEAN]

Point == [id : Nat \X Nat, stamp : Nat, synced : BOOLEAN, posed : BOOLEAN]

\* What the host's clock can say best of the packet of l that is sent next.
NextPacket(l) == [lidar |-> l, at |-> sent[l], time_stamp |-> now, synced |-> FALSE]

Waiting == {raw_packet_queue[i] : i \in DOMAIN raw_packet_queue} \union sdk

Upcoming(l) == {packet \in Waiting : packet.lidar = l} \union {NextPacket(l)}

\* b is sent after the whole of a, if they are of one lidar.
Follows(a, b) ==
  a.lidar = b.lidar =>
    /\ a.at + PointNum <= b.at
    /\ ~a.synced /\ ~b.synced => a.time_stamp <= b.time_stamp

PacketsInOrder ==
  /\ \A packet \in Waiting : /\ packet.synced => packet.time_stamp = packet.at + SensorAhead
                             /\ Follows(packet, NextPacket(packet.lidar))
  /\ \A i, j \in DOMAIN raw_packet_queue :
       i < j => Follows(raw_packet_queue[i], raw_packet_queue[j])
  /\ \A i \in DOMAIN raw_packet_queue, packet \in sdk : Follows(raw_packet_queue[i], packet)

\* a is no later than b.
NotAfter(a, b) ==
  /\ a.id[1] <= b.id[1]
  /\ ~a.synced /\ ~b.synced => a.stamp <= b.stamp

InOrder(points) ==
  /\ \A j, k \in DOMAIN points : points[j].id = points[k].id => j = k
  /\ \A k \in DOMAIN points :
       /\ points[k].synced => points[k].stamp = points[k].id[1] + SensorAhead
       /\ NotAfter(points[1], points[k])

\* The points end before the packet.
Behind(points, packet) ==
  \A k \in DOMAIN points :
    /\ points[k].id[1] < packet.at
    /\ ~points[1].synced /\ ~packet.synced => points[1].stamp <= packet.time_stamp

StreamTypes ==
  /\ left \in Load /\ now \in Nat
  /\ sent \in [Lidars -> Nat] /\ locked \in [Lidars -> BOOLEAN]
  /\ is_timestamp_sync \in BOOLEAN /\ first \in BOOLEAN
  /\ sdk \subseteq Packet /\ \A a, b \in sdk : a = b
  /\ raw_packet_queue \in Seq(Packet)
  /\ process.at \in {"unborn", "check", "look", "timer", "ended"}
  /\ lidar_extrinsics \subseteq Configured
  /\ exit \in {"no", "quit", "joined"}

BufferTypes ==
  /\ DOMAIN handlers \subseteq Lidars
  /\ handlers \in [DOMAIN handlers -> [points : Seq(Point), is_set_extrinsic_params : BOOLEAN]]
  /\ DOMAIN frame \subseteq Lidars
  /\ frame \in [DOMAIN frame -> [base_time : Nat, points : Seq(Point)]]

StreamsInOrder ==
  /\ \A l \in DOMAIN handlers : /\ InOrder(handlers[l].points)
                                /\ \A packet \in Upcoming(l) : Behind(handlers[l].points, packet)
  /\ \A l \in DOMAIN frame : /\ InOrder(frame[l].points)
                             /\ frame[l].base_time = GetLidarBaseTime(frame[l].points)

StreamInvariant == StreamTypes /\ BufferTypes /\ PacketsInOrder /\ StreamsInOrder

-----------------------------------------------------------------------------
(***************************************************************************)
(* From one frame to the next.  The points after a frame that ended with p *)
(* are, without a gap, as many as they can be.                             *)
(***************************************************************************)
CutTypes ==
  /\ history.cut \in [Lidars -> SUBSET Point]
  /\ history = [cut |-> history.cut, start |-> history.start, cuts |-> history.cuts]
  /\ ~is_timestamp_sync => history.cut = NoCut

CutOK(l, p) ==
  /\ p.synced /\ p.stamp = p.id[1] + SensorAhead
  /\ MsOf(p.stamp) % publish_interval_ms = 0
  /\ \A packet \in Upcoming(l) : p.id[1] < packet.at

\* Points that began after the stamp x and have come to r: too few for a frame
\* yet, although they are in the millisecond in which it is due.
TooShort(r, x) ==
  MsOf(r) = MsOf(x) + publish_interval_ms => r - (x + 1) < publish_interval_tolerance

\* due: the frame that the points complete may be about to be cut.
SoFar(l, points, p, due) ==
  points # <<>> =>
    /\ Len(points) <= Echoes[l] * (Last(points).id[1] - p.id[1])
    /\ GaplessSince(l, points, p) => points[1].id[1] = p.id[1] + 1
    /\ GaplessSince(l, points, p) /\ AllSynced(points) =>
         /\ MsOf(Last(points).stamp) <= MsOf(p.stamp) + publish_interval_ms
         /\ ~due => TooShort(Last(points).stamp, p.stamp)

MayBeDue(l) == process.at = "timer" /\ l \in process.lidar

CutInvariant ==
  /\ CutTypes
  /\ \A l \in Lidars : \A p \in history.cut[l] :
       CutOK(l, p) /\ (l \in DOMAIN handlers => SoFar(l, handlers[l].points, p, MayBeDue(l)))

\* A packet takes no longer than what the tolerance leaves of the interval in
\* whole milliseconds: a millisecond at a frequency like 10 Hz, a third of one at
\* 15 Hz.
PacketsAreShort == PointNum <= publish_interval_ms * UnitsPerMs - publish_interval_tolerance

-----------------------------------------------------------------------------
\* The measurement and the echo of a point, from its place in its packet.
LEMMA EchoOf ==
  ASSUME NEW e \in 1 .. 2, NEW k \in Nat
  PROVE  /\ k \div e \in Nat /\ k % e \in 0 .. 1
         /\ k = e * (k \div e) + (k % e) /\ k % e < e
<1>1. CASE e = 1
  <2>1. k \div 1 = k /\ k % 1 = 0
    OBVIOUS
  <2> QED BY <1>1, <2>1
<1>2. CASE e = 2
  <2>1. k \div 2 \in Nat /\ k % 2 \in 0 .. 1 /\ k = 2 * (k \div 2) + (k % 2)
    OBVIOUS
  <2> QED BY <1>2, <2>1
<1> QED BY <1>1, <1>2

\* Places in a packet of n measurements are of measurements 0 to n - 1.
LEMMA EchoRange ==
  ASSUME NEW e \in 1 .. 2, NEW n \in Nat \ {0}
  PROVE  /\ n * e \in Nat \ {0}
         /\ \A k \in 1 .. n * e : (k - 1) \div e \in 0 .. n - 1
         /\ (n * e - 1) \div e = n - 1 /\ (1 - 1) \div e = 0
<1> DEFINE M(k) == (k - 1) \div e
           E(k) == (k - 1) % e
<1>1. n * e \in Nat \ {0} /\ (e = 1 => n * e = n) /\ (e = 2 => n * e = 2 * n)
  BY SMT
<1>2. \A k \in 1 .. n * e : k - 1 \in Nat
  BY <1>1
<1>3. \A k \in 1 .. n * e : M(k) \in Nat /\ E(k) \in 0 .. 1 /\ k - 1 = e * M(k) + E(k) /\ E(k) < e
  BY <1>2, EchoOf
<1> HIDE DEF M, E
<1>4. ASSUME NEW k \in 1 .. n * e PROVE M(k) \in 0 .. n - 1
  <2>1. k \in Nat /\ M(k) \in Nat /\ E(k) \in 0 .. 1 /\ k - 1 = e * M(k) + E(k) /\ k <= n * e
    BY <1>1, <1>3
  <2>2. CASE e = 1 BY <1>1, <2>1, <2>2
  <2>3. CASE e = 2 BY <1>1, <2>1, <2>3
  <2> QED BY <2>2, <2>3
<1>5. M(n * e) = n - 1
  <2>1. n * e \in 1 .. n * e
    BY <1>1
  <2>2. M(n * e) \in Nat /\ E(n * e) \in 0 .. 1 /\ n * e - 1 = e * M(n * e) + E(n * e) /\ E(n * e) < e
    BY <1>3, <2>1
  <2>3. CASE e = 1 BY <1>1, <2>2, <2>3
  <2>4. CASE e = 2 BY <1>1, <2>2, <2>4
  <2> QED BY <2>3, <2>4
<1>6. M(1) = 0
  <2>1. 1 \in 1 .. n * e
    BY <1>1
  <2>2. M(1) \in Nat /\ E(1) \in 0 .. 1 /\ 1 - 1 = e * M(1) + E(1)
    BY <1>3, <2>1
  <2> QED BY <2>2
<1> QED
  BY <1>1, <1>4, <1>5, <1>6 DEF M

\* The points of one packet: as many as its measurements have echoes, one unit
\* of time from measurement to measurement.
LEMMA PacketPoints ==
  ASSUME NEW packet \in Packet, NEW posed \in BOOLEAN
  PROVE  LET q == PointsOf(packet, posed)
         IN  /\ q \in Seq(Point) /\ Len(q) = PointNum * Echoes[packet.lidar]
             /\ \A k \in DOMAIN q :
                  /\ q[k].synced = packet.synced
                  /\ \E i \in 0 .. PointNum - 1 :
                       q[k].id[1] = packet.at + i /\ q[k].stamp = packet.time_stamp + i
             /\ \A j, k \in DOMAIN q : q[j].id = q[k].id => j = k
             /\ q # <<>> => /\ q[1].id[1] = packet.at /\ q[1].stamp = packet.time_stamp
                            /\ Last(q).id[1] = packet.at + PointNum - 1
                            /\ Last(q).stamp = packet.time_stamp + PointNum - 1
<1> DEFINE e == Echoes[packet.lidar]
           n == PointNum * e
           q == PointsOf(packet, posed)
           M == [k \in 1 .. n |-> (k - 1) \div e]
           E == [k \in 1 .. n |-> (k - 1) % e]
<1>1. /\ e \in 0 .. 2 /\ PointNum \in Nat \ {0}
      /\ packet.at \in Nat /\ packet.time_stamp \in Nat /\ packet.synced \in BOOLEAN
  BY PubAssumption DEF Packet
<1>2. q = [k \in 1 .. n |-> [id |-> <<packet.at + ((k - 1) \div e), (k - 1) % e>>,
                             stamp |-> packet.time_stamp + ((k - 1) \div e),
                             synced |-> packet.synced, posed |-> posed]]
  BY DEF PointsOf
<1> HIDE DEF q, e
<1>3. CASE e = 0
  <2>1. n = 0
    BY <1>1, <1>3
  <2>2. q = [k \in 1 .. 0 |-> k] /\ Len(q) = 0 /\ q \in Seq(Point) /\ DOMAIN q = 1 .. 0 /\ q = <<>>
    BY <1>2, <2>1
  <2> QED
    BY <2>1, <2>2 DEF q, e
<1>4. CASE e # 0
  <2>1. e \in 1 .. 2
    BY <1>1, <1>4
  <2>2. n \in Nat \ {0} /\ M[n] = PointNum - 1 /\ M[1] = 0 /\ \A k \in 1 .. n : M[k] \in 0 .. PointNum - 1
    <3>1. /\ n \in Nat \ {0} /\ \A k \in 1 .. n : (k - 1) \div e \in 0 .. PointNum - 1
          /\ (n - 1) \div e = PointNum - 1 /\ (1 - 1) \div e = 0
      BY <1>1, <2>1, EchoRange
    <3>2. n \in 1 .. n /\ 1 \in 1 .. n
      BY <3>1
    <3> HIDE DEF n
    <3> QED BY <3>1, <3>2
  <2>3. \A k \in 1 .. n : k - 1 \in Nat
    BY <2>2
  <2>4. \A k \in 1 .. n : E[k] \in 0 .. 1 /\ k - 1 = e * M[k] + E[k]
    BY <2>1, <2>3, EchoOf DEF M, E
  <2> HIDE DEF M, E, n
  <2>5. \A k \in 1 .. n : q[k] = [id |-> <<packet.at + M[k], E[k]>>, stamp |-> packet.time_stamp + M[k],
                                 synced |-> packet.synced, posed |-> posed]
    BY <1>2 DEF M, E
  <2>6. ASSUME NEW k \in 1 .. n
        PROVE  /\ q[k] \in Point /\ q[k].synced = packet.synced
               /\ q[k].stamp = packet.time_stamp + M[k]
               /\ q[k].id[1] = packet.at + M[k] /\ q[k].id[2] = E[k]
    <3> DEFINE i == packet.at + M[k]
               t == packet.time_stamp + M[k]
    <3>1. q[k] = [id |-> <<i, E[k]>>, stamp |-> t, synced |-> packet.synced, posed |-> posed]
      BY <2>5
    <3>2. i \in Nat /\ t \in Nat /\ E[k] \in Nat
      <4>1. M[k] \in 0 .. PointNum - 1 /\ E[k] \in 0 .. 1
        BY <2>2, <2>4
      <4> QED BY <1>1, <4>1
    <3> HIDE DEF i, t
    <3>3. <<i, E[k]>> \in Nat \X Nat /\ <<i, E[k]>>[1] = i /\ <<i, E[k]>>[2] = E[k]
      BY <3>2
    <3>4. q[k] \in Point
      BY <1>1, <3>1, <3>2, <3>3 DEF Point
    <3>5. q[k].id = <<i, E[k]>> /\ q[k].stamp = t /\ q[k].synced = packet.synced
      BY <3>1
    <3>6. q[k].id[1] = i /\ q[k].id[2] = E[k]
      BY <3>3, <3>5
    <3> QED BY <3>4, <3>5, <3>6 DEF i, t
  <2>7. q \in Seq(Point) /\ Len(q) = n /\ DOMAIN q = 1 .. n
    <3>1. q = [k \in 1 .. n |-> q[k]]
      BY <1>2
    <3> QED BY <2>2, <2>6, <3>1
  <2>8. ASSUME NEW j \in 1 .. n, NEW k \in 1 .. n, q[j].id = q[k].id PROVE j = k
    <3>0. q[j].id[1] = q[k].id[1] /\ q[j].id[2] = q[k].id[2]
      BY <2>8
    <3>1. packet.at + M[j] = packet.at + M[k] /\ E[j] = E[k]
      BY <2>6, <3>0
    <3>2. M[j] = M[k]
      BY <1>1, <2>2, <3>1
    <3>3. j - 1 = k - 1
      BY <2>4, <3>1, <3>2
    <3> QED BY <2>2, <3>3
  <2>9. \A k \in 1 .. n :
          /\ q[k].synced = packet.synced
          /\ \E i \in 0 .. PointNum - 1 :
               q[k].id[1] = packet.at + i /\ q[k].stamp = packet.time_stamp + i
    BY <2>2, <2>6
  <2>10. /\ q[1].id[1] = packet.at /\ q[1].stamp = packet.time_stamp
         /\ q[n].id[1] = packet.at + PointNum - 1 /\ q[n].stamp = packet.time_stamp + PointNum - 1
    <3>1. 1 \in 1 .. n /\ n \in 1 .. n
      BY <2>2
    <3>2. q[1].id[1] = packet.at + 0 /\ q[1].stamp = packet.time_stamp + 0
      BY <2>2, <2>6, <3>1
    <3>3. q[n].id[1] = packet.at + (PointNum - 1) /\ q[n].stamp = packet.time_stamp + (PointNum - 1)
      BY <2>2, <2>6, <3>1
    <3> QED BY <1>1, <3>2, <3>3
  <2>11. Last(q) = q[n]
    BY <2>7 DEF Last
  <2> QED
    BY <2>7, <2>8, <2>9, <2>10, <2>11 DEF q, e, n
<1> QED
  BY <1>3, <1>4

\* Two sequences of points after each other.
LEMMA PointsJoin ==
  ASSUME NEW a \in Seq(Point), NEW b \in Seq(Point)
  PROVE  /\ a \o b \in Seq(Point) /\ Len(a \o b) = Len(a) + Len(b)
         /\ DOMAIN (a \o b) = 1 .. Len(a) + Len(b)
         /\ \A k \in DOMAIN a : k \in DOMAIN (a \o b) /\ (a \o b)[k] = a[k]
         /\ \A k \in DOMAIN (a \o b) :
              \/ k \in DOMAIN a
              \/ k - Len(a) \in DOMAIN b /\ (a \o b)[k] = b[k - Len(a)]
         /\ b # <<>> => a \o b # <<>> /\ Last(a \o b) = Last(b)
         /\ b = <<>> => a \o b = a
<1>1. /\ a \o b \in Seq(Point) /\ Len(a \o b) = Len(a) + Len(b)
      /\ DOMAIN (a \o b) = 1 .. Len(a) + Len(b) /\ DOMAIN a = 1 .. Len(a) /\ DOMAIN b = 1 .. Len(b)
      /\ Len(a) \in Nat /\ Len(b) \in Nat
  OBVIOUS
<1>2. \A k \in 1 .. Len(a) + Len(b) : (a \o b)[k] = IF k <= Len(a) THEN a[k] ELSE b[k - Len(a)]
  OBVIOUS
<1>3. b # <<>> => a \o b # <<>> /\ Last(a \o b) = Last(b)
  <2> SUFFICES ASSUME b # <<>> PROVE a \o b # <<>> /\ Last(a \o b) = Last(b)
    OBVIOUS
  <2>1. Len(b) > 0 /\ Len(a) + Len(b) \in 1 .. Len(a) + Len(b)
    BY <1>1
  <2>2. (a \o b)[Len(a) + Len(b)] = b[Len(b)]
    BY <1>1, <1>2, <2>1
  <2>3. a \o b # <<>>
    BY <1>1, <2>1
  <2> QED
    BY <1>1, <2>2, <2>3 DEF Last
<1>4. b = <<>> => a \o b = a
  OBVIOUS
<1>5. ASSUME NEW k \in 1 .. Len(a) PROVE k \in 1 .. Len(a) + Len(b) /\ (a \o b)[k] = a[k]
  BY <1>1, <1>2
<1>6. ASSUME NEW k \in 1 .. Len(a) + Len(b)
      PROVE  \/ k \in 1 .. Len(a)
             \/ k - Len(a) \in 1 .. Len(b) /\ (a \o b)[k] = b[k - Len(a)]
  BY <1>1, <1>2
<1> QED
  BY <1>1, <1>3, <1>4, <1>5, <1>6

-----------------------------------------------------------------------------
\* A packet of l comes and is the one under way.
LEMMA PacketComes ==
  ASSUME StreamTypes, NEW l \in Lidars, OnLivoxLidarPointCloudCallback(l)
  PROVE  \E packet \in Packet :
           /\ sdk = {} /\ sdk' = {packet} /\ packet.lidar = l /\ packet.at = sent[l]
           /\ packet.synced => packet.time_stamp = packet.at + SensorAhead
           /\ ~packet.synced => packet.time_stamp = now
           /\ sent' = [sent EXCEPT ![l] = @ + PointNum] /\ now' = now
           /\ raw_packet_queue' = raw_packet_queue
           /\ is_timestamp_sync' = packet.synced
           /\ history' = IF packet.synced THEN history ELSE [history EXCEPT !.cut = NoCut]
<1> DEFINE packet == [lidar |-> l, at |-> sent[l], time_stamp |-> GetEthPacketTimestamp(l),
                      synced |-> locked[l]]
<1>1. /\ sent[l] \in Nat /\ locked[l] \in BOOLEAN /\ now \in Nat /\ SensorAhead \in Nat
  BY PubAssumption DEF StreamTypes
<1>2. /\ packet.synced => packet.time_stamp = packet.at + SensorAhead
      /\ ~packet.synced => packet.time_stamp = now
      /\ packet.time_stamp \in Nat
  BY <1>1 DEF GetEthPacketTimestamp
<1>3. packet \in Packet /\ packet.lidar = l /\ packet.at = sent[l] /\ packet.synced = locked[l]
  BY <1>1, <1>2 DEF Packet
<1>4. /\ sdk = {} /\ sdk' = {packet} /\ now' = now /\ raw_packet_queue' = raw_packet_queue
      /\ sent' = [sent EXCEPT ![l] = @ + PointNum] /\ is_timestamp_sync' = locked[l]
      /\ history' = IF locked[l] THEN history ELSE [history EXCEPT !.cut = NoCut]
  BY DEF OnLivoxLidarPointCloudCallback, Observing, PacketSent
<1> HIDE DEF packet
<1> QED
  BY <1>2, <1>3, <1>4

\* Only a few steps concern what the lidars send and what is queued.
QuietForPackets == UNCHANGED <<now, sent, sdk, raw_packet_queue>>

LEMMA PacketSteps ==
  ASSUME [Next]_vars
  PROVE  \/ QuietForPackets
         \/ Tick \/ PushRawPacket \/ TakePacket
         \/ \E l \in Lidars : OnLivoxLidarPointCloudCallback(l) \/ LosePacket(l)
<1>1. CASE Start \/ CheckQuit \/ WaitForNothing \/ CheckTimer \/ Uninit \/ \E l \in Lidars : SwitchClock(l)
  BY <1>1 DEF QuietForPackets, Start, AddLidarsExtParam, SetPointCloudsCallback, SetImuDataCallback,
     SetPointCloudConfig, Setup, CheckQuit, WaitForNothing, CheckTimer, Thread, Uninit, SwitchClock
<1>2. CASE ImuPusherFinishes \/ ImuPoller \/ Destroy \/ UNCHANGED vars
           \/ \E l \in Lidars : OnImuPacket(l) \/ StartSampling(l)
  BY <1>2 DEF QuietForPackets, ImuPusherFinishes, ImuPoller, Destroy, ImuLookIfEmpty, ImuLookAtCount,
     ImuSignal, ImuCheckExit, ImuWait, ImuVisit, ImuPoll, PublishImuData, ImuCheckFuture,
     PollerOnly, frameVars, vars, StartSampling, OnImuPacket
<1> QED
  BY <1>1, <1>2 DEF Next, FrameNext, RawDataProcess, LidarSteps

LEMMA StreamTypesStep ==
  ASSUME StreamTypes, ProcessOK, [Next]_vars
  PROVE  StreamTypes'
<1>1. left' \in Load
  BY LoadShrinks DEF StreamTypes
<1>2. /\ now' \in Nat /\ sent' \in [Lidars -> Nat] /\ raw_packet_queue' \in Seq(Packet)
      /\ sdk' \subseteq Packet /\ \A a, b \in sdk' : a = b
  <2>1. /\ now \in Nat /\ sent \in [Lidars -> Nat] /\ raw_packet_queue \in Seq(Packet)
        /\ sdk \subseteq Packet /\ \A a, b \in sdk : a = b
        /\ PointNum \in Nat
    BY PubAssumption DEF StreamTypes
  <2>2. CASE QuietForPackets
    BY <2>1, <2>2 DEF QuietForPackets
  <2>3. CASE Tick
    BY <2>1, <2>3 DEF Tick
  <2>4. CASE PushRawPacket
    BY <2>1, <2>4 DEF PushRawPacket, Environment
  <2>5. CASE TakePacket
    BY <2>1, <2>5 DEF TakePacket, Thread
  <2>6. CASE \E l \in Lidars : OnLivoxLidarPointCloudCallback(l)
    <3>1. PICK l \in Lidars : OnLivoxLidarPointCloudCallback(l)
      BY <2>6
    <3>2. PICK packet \in Packet :
            /\ sdk' = {packet} /\ sent' = [sent EXCEPT ![l] = @ + PointNum] /\ now' = now
            /\ raw_packet_queue' = raw_packet_queue
      BY <3>1, PacketComes
    <3> QED
      BY <2>1, <3>2
  <2>7. CASE \E l \in Lidars : LosePacket(l)
    BY <2>1, <2>7 DEF LosePacket, PacketSent
  <2> QED
    BY <2>2, <2>3, <2>4, <2>5, <2>6, <2>7, PacketSteps
<1>3. /\ locked' \in [Lidars -> BOOLEAN] /\ is_timestamp_sync' \in BOOLEAN /\ first' \in BOOLEAN
      /\ process'.at \in {"unborn", "check", "look", "timer", "ended"}
      /\ lidar_extrinsics' \subseteq Configured /\ exit' \in {"no", "quit", "joined"}
  <2> USE DEF StreamTypes, ProcessOK
  <2>1. CASE Start
    BY <2>1 DEF Start, AddLidarsExtParam, SetPointCloudsCallback, SetImuDataCallback,
       SetPointCloudConfig, Setup
  <2>2. CASE LidarSteps
    BY <2>2 DEF LidarSteps, Tick, OnLivoxLidarPointCloudCallback, LosePacket, SwitchClock, Environment
  <2>3. CASE PushRawPacket \/ Uninit
    BY <2>3 DEF PushRawPacket, Environment, Uninit
  <2>4. CASE CheckQuit \/ WaitForNothing \/ TakePacket
    BY <2>4 DEF CheckQuit, WaitForNothing, TakePacket, Thread
  <2>5. CASE CheckTimer
    BY <2>5 DEF CheckTimer, Thread, CutOne, CutAll
  <2>6. CASE \E l \in Lidars : OnImuPacket(l) \/ StartSampling(l)
    BY <2>6 DEF OnImuPacket, SetSyncFlag, Environment, StartSampling, frameVars
  <2>7. CASE ImuPusherFinishes \/ ImuPoller \/ Destroy \/ UNCHANGED vars
    BY <2>7 DEF ImuPusherFinishes, ImuPoller, Destroy, ImuLookIfEmpty, ImuLookAtCount,
       ImuSignal, ImuCheckExit, ImuWait, ImuVisit, ImuPoll, PublishImuData, ImuCheckFuture,
       PollerOnly, frameVars, vars
  <2> QED
    BY <2>1, <2>2, <2>3, <2>4, <2>5, <2>6, <2>7 DEF Next, FrameNext, RawDataProcess
<1> QED
  BY <1>1, <1>2, <1>3 DEF StreamTypes

-----------------------------------------------------------------------------
\* v is no earlier than u and tells no more of the host's clock.
Later(u, v) ==
  /\ u.at <= v.at
  /\ ~v.synced => ~u.synced /\ u.time_stamp <= v.time_stamp

UpcomingIsLater == \A l \in Lidars : \A v \in Upcoming(l)' : \E u \in Upcoming(l) : Later(u, v)

LEMMA LaterStaysBehind ==
  ASSUME NEW points \in Seq(Point), NEW u \in Packet, NEW v \in Packet, Later(u, v), Behind(points, u)
  PROVE  Behind(points, v)
<1> SUFFICES ASSUME NEW k \in DOMAIN points
             PROVE  /\ points[k].id[1] < v.at
                    /\ ~points[1].synced /\ ~v.synced => points[1].stamp <= v.time_stamp
  BY DEF Behind
<1>1. 1 \in DOMAIN points /\ points[1] \in Point /\ points[k] \in Point
  OBVIOUS
<1>2. points[k].id[1] \in Nat /\ points[1].stamp \in Nat
  BY <1>1 DEF Point
<1>3. u.at \in Nat /\ v.at \in Nat /\ u.time_stamp \in Nat /\ v.time_stamp \in Nat
  BY DEF Packet
<1> QED
  BY <1>2, <1>3 DEF Behind, Later

\* What is upcoming are packets.
LEMMA UpcomingPackets ==
  ASSUME StreamTypes, NEW l \in Lidars
  PROVE  \A packet \in Upcoming(l) : packet \in Packet /\ packet.lidar = l
<1>1. NextPacket(l) \in Packet /\ NextPacket(l).lidar = l
  BY DEF StreamTypes, NextPacket, Packet
<1>2. Waiting \subseteq Packet
  BY DEF Waiting, StreamTypes
<1> QED
  BY <1>1, <1>2 DEF Upcoming

LEMMA QuietIsLater ==
  ASSUME StreamTypes, PacketsInOrder, QuietForPackets
  PROVE  PacketsInOrder' /\ UpcomingIsLater
<1>1. Waiting' = Waiting /\ \A l \in Lidars : NextPacket(l)' = NextPacket(l)
  BY DEF QuietForPackets, Waiting, NextPacket
<1>2. \A l \in Lidars : Upcoming(l)' = Upcoming(l)
  BY <1>1 DEF Upcoming
<1>3. \A u \in Packet : Later(u, u)
  BY DEF Later, Packet
<1>4. UpcomingIsLater
  BY <1>2, <1>3, UpcomingPackets DEF UpcomingIsLater
<1>5. Waiting \subseteq Packet
  BY DEF Waiting, StreamTypes
<1>6. \A packet \in Packet : NextPacket(packet.lidar)' = NextPacket(packet.lidar)
  BY DEF QuietForPackets, NextPacket
<1>7. PacketsInOrder'
  BY <1>1, <1>5, <1>6 DEF PacketsInOrder, QuietForPackets, Follows
<1> QED
  BY <1>4, <1>7

\* The host's clock and the lidars go on, and nothing comes.
LEMMA TimePasses ==
  ASSUME StreamTypes, PacketsInOrder, UNCHANGED <<sdk, raw_packet_queue>>,
         now' \in Nat, now <= now', sent' \in [Lidars -> Nat], \A l \in Lidars : sent[l] <= sent'[l]
  PROVE  PacketsInOrder' /\ UpcomingIsLater
<1>1. Waiting' = Waiting /\ Waiting \subseteq Packet
  BY DEF Waiting, StreamTypes
<1>2. ASSUME NEW l \in Lidars
      PROVE  /\ NextPacket(l) \in Packet /\ NextPacket(l)' \in Packet
             /\ Later(NextPacket(l), NextPacket(l)')
             /\ \A a \in Packet : Follows(a, NextPacket(l)) => Follows(a, NextPacket(l)')
  <2>1. /\ NextPacket(l) = [lidar |-> l, at |-> sent[l], time_stamp |-> now, synced |-> FALSE]
        /\ NextPacket(l)' = [lidar |-> l, at |-> sent'[l], time_stamp |-> now', synced |-> FALSE]
    BY DEF NextPacket
  <2>2. now \in Nat /\ sent[l] \in Nat /\ sent'[l] \in Nat /\ PointNum \in Nat
    BY PubAssumption DEF StreamTypes
  <2> QED
    BY <2>1, <2>2 DEF Later, Follows, Packet
<1>3. \A u \in Packet : Later(u, u)
  BY DEF Later, Packet
<1>4. UpcomingIsLater
  BY <1>1, <1>2, <1>3 DEF UpcomingIsLater, Upcoming
<1>5. PacketsInOrder'
  <2>1. \A packet \in Waiting : packet.lidar \in Lidars /\ packet \in Packet
    BY <1>1 DEF Packet
  <2>2. \A packet \in Waiting : Follows(packet, NextPacket(packet.lidar)')
    BY <1>2, <2>1 DEF PacketsInOrder
  <2>3. \A packet \in Waiting : NextPacket(packet.lidar)' = (NextPacket(packet.lidar))'
    OBVIOUS
  <2> QED
    BY <1>1, <2>2 DEF PacketsInOrder, Follows
<1> QED
  BY <1>4, <1>5

\* A packet goes from the SDK's thread to the end of the queue.
LEMMA PushKeepsOrder ==
  ASSUME StreamTypes, PacketsInOrder, PushRawPacket
  PROVE  PacketsInOrder' /\ UpcomingIsLater
<1>1. PICK packet \in sdk : raw_packet_queue' = Append(raw_packet_queue, packet)
  BY DEF PushRawPacket
<1>2. sdk = {packet} /\ sdk' = {} /\ packet \in Packet /\ UNCHANGED <<now, sent>>
      /\ raw_packet_queue \in Seq(Packet)
  BY <1>1 DEF StreamTypes, PushRawPacket
<1> DEFINE n == Len(raw_packet_queue)
<1>3. /\ n \in Nat /\ DOMAIN raw_packet_queue = 1 .. n /\ DOMAIN raw_packet_queue' = 1 .. n + 1
      /\ \A i \in 1 .. n : raw_packet_queue'[i] = raw_packet_queue[i]
      /\ raw_packet_queue'[n + 1] = packet
  BY <1>1, <1>2
<1> HIDE DEF n
<1>4. Waiting' = Waiting /\ Waiting \subseteq Packet
  <2>1. \A i \in 1 .. n : raw_packet_queue[i] \in Waiting
    BY <1>3 DEF Waiting
  <2>2. packet \in Waiting
    BY <1>2 DEF Waiting
  <2>3. Waiting' \subseteq Waiting
    BY <1>2, <1>3, <2>1, <2>2 DEF Waiting
  <2>4. Waiting \subseteq Waiting'
    <3>1. \A i \in 1 .. n + 1 : raw_packet_queue'[i] \in Waiting'
      BY <1>3 DEF Waiting
    <3>2. \A i \in 1 .. n : raw_packet_queue[i] \in Waiting'
      BY <1>3, <3>1
    <3>3. n + 1 \in 1 .. n + 1
      BY <1>3
    <3>4. packet \in Waiting'
      BY <1>3, <3>1, <3>3
    <3> QED BY <1>2, <1>3, <3>2, <3>4 DEF Waiting
  <2> QED BY <2>3, <2>4 DEF Waiting, StreamTypes
<1>5. \A l \in Lidars : NextPacket(l)' = NextPacket(l)
  BY <1>2 DEF NextPacket
<1>6. UpcomingIsLater
  <2>1. \A l \in Lidars : Upcoming(l)' = Upcoming(l)
    BY <1>4, <1>5 DEF Upcoming
  <2>2. \A u \in Packet : Later(u, u)
    BY DEF Later, Packet
  <2> QED BY <2>1, <2>2, UpcomingPackets DEF UpcomingIsLater
<1>7. PacketsInOrder'
  <2>1. ASSUME NEW p \in Waiting'
        PROVE  /\ p.synced => p.time_stamp = p.at + SensorAhead
               /\ Follows(p, NextPacket(p.lidar))'
    <3>1. NextPacket(p.lidar)' = NextPacket(p.lidar)
      BY <1>2 DEF NextPacket
    <3> QED BY <1>4, <2>1, <3>1 DEF PacketsInOrder, Follows
  <2>2. ASSUME NEW i \in 1 .. n + 1, NEW j \in 1 .. n + 1, i < j
        PROVE  Follows(raw_packet_queue'[i], raw_packet_queue'[j])
    <3>1. i \in 1 .. n
      BY <1>3, <2>2
    <3>2. CASE j \in 1 .. n
      BY <1>3, <2>2, <3>1, <3>2 DEF PacketsInOrder
    <3>3. CASE j = n + 1
      BY <1>2, <1>3, <3>1, <3>3 DEF PacketsInOrder
    <3> QED BY <1>3, <3>2, <3>3
  <2> QED BY <1>2, <1>3, <2>1, <2>2 DEF PacketsInOrder, Follows
<1> QED
  BY <1>6, <1>7

\* A packet comes: it was the next one of its lidar.
LEMMA ComingKeepsOrder ==
  ASSUME StreamTypes, PacketsInOrder, NEW l \in Lidars, OnLivoxLidarPointCloudCallback(l)
  PROVE  PacketsInOrder' /\ UpcomingIsLater
<1>1. PICK packet \in Packet :
           /\ sdk = {} /\ sdk' = {packet} /\ packet.lidar = l /\ packet.at = sent[l]
           /\ packet.synced => packet.time_stamp = packet.at + SensorAhead
           /\ ~packet.synced => packet.time_stamp = now
           /\ sent' = [sent EXCEPT ![l] = @ + PointNum] /\ now' = now
           /\ raw_packet_queue' = raw_packet_queue
  BY PacketComes
<1>2. /\ now \in Nat /\ sent \in [Lidars -> Nat] /\ PointNum \in Nat
      /\ sent'[l] = sent[l] + PointNum /\ \A m \in Lidars \ {l} : sent'[m] = sent[m]
      /\ sent' \in [Lidars -> Nat]
  <2>1. PointNum \in Nat
    BY PubAssumption
  <2>2. now \in Nat /\ sent \in [Lidars -> Nat]
    BY DEF StreamTypes
  <2> QED
    BY <1>1, <2>1, <2>2
<1>3. Waiting' = Waiting \union {packet} /\ Waiting \subseteq Packet
  <2> DEFINE queued == {raw_packet_queue[i] : i \in DOMAIN raw_packet_queue}
  <2>1. Waiting = queued /\ Waiting' = queued \union {packet}
    BY <1>1 DEF Waiting
  <2>2. ASSUME NEW i \in DOMAIN raw_packet_queue PROVE raw_packet_queue[i] \in Packet
    BY DEF StreamTypes
  <2> QED
    BY <2>1, <2>2
<1>4. \A m \in Lidars :
        /\ NextPacket(m) = [lidar |-> m, at |-> sent[m], time_stamp |-> now, synced |-> FALSE]
        /\ NextPacket(m)' = [lidar |-> m, at |-> sent'[m], time_stamp |-> now, synced |-> FALSE]
  BY <1>1 DEF NextPacket
<1>5. /\ Later(NextPacket(l), packet) /\ Follows(packet, NextPacket(l)')
      /\ \A a \in Packet : Follows(a, NextPacket(l)) => Follows(a, packet)
  BY <1>1, <1>2, <1>4 DEF Later, Follows, Packet
<1>6. ASSUME NEW m \in Lidars
      PROVE  /\ Later(NextPacket(m), NextPacket(m)')
             /\ \A a \in Packet : Follows(a, NextPacket(m)) => Follows(a, NextPacket(m)')
  <2>1. sent[m] \in Nat /\ sent'[m] \in Nat /\ sent[m] <= sent'[m]
    BY <1>2
  <2> QED BY <1>2, <1>4, <2>1 DEF Later, Follows, Packet
<1>7. UpcomingIsLater
  <2> SUFFICES ASSUME NEW m \in Lidars, NEW v \in Upcoming(m)'
               PROVE  \E u \in Upcoming(m) : Later(u, v)
    BY DEF UpcomingIsLater
  <2>1. CASE v = NextPacket(m)'
    BY <1>6, <2>1 DEF Upcoming
  <2>2. CASE v = packet /\ m = l
    BY <1>5, <2>2 DEF Upcoming
  <2>3. CASE v \in Waiting /\ v.lidar = m
    <3>1. v \in Upcoming(m) /\ v \in Packet
      BY <1>3, <2>3 DEF Upcoming
    <3> QED BY <3>1 DEF Later, Packet
  <2> QED BY <1>1, <1>3, <2>1, <2>2, <2>3 DEF Upcoming
<1>8. PacketsInOrder'
  <2>1. ASSUME NEW p \in Waiting'
        PROVE  /\ p.synced => p.time_stamp = p.at + SensorAhead
               /\ Follows(p, NextPacket(p.lidar)')
    <3>1. CASE p = packet
      BY <1>1, <1>5, <3>1
    <3>2. CASE p \in Waiting
      <4>1. p \in Packet /\ p.lidar \in Lidars
        BY <1>3, <3>2 DEF Packet
      <4>2. Follows(p, NextPacket(p.lidar)) /\ (p.synced => p.time_stamp = p.at + SensorAhead)
        BY <3>2 DEF PacketsInOrder
      <4> QED BY <1>6, <4>1, <4>2
    <3> QED BY <1>3, <3>1, <3>2
  <2>2. ASSUME NEW i \in DOMAIN raw_packet_queue PROVE Follows(raw_packet_queue[i], packet)
    <3>1. raw_packet_queue[i] \in Packet /\ raw_packet_queue[i] \in Waiting
      BY <1>3 DEF Waiting
    <3>2. Follows(raw_packet_queue[i], NextPacket(raw_packet_queue[i].lidar))
      BY <3>1 DEF PacketsInOrder
    <3>3. CASE raw_packet_queue[i].lidar = l
      BY <1>5, <3>1, <3>2, <3>3
    <3>4. CASE raw_packet_queue[i].lidar # l
      BY <1>1, <3>4 DEF Follows
    <3> QED BY <3>3, <3>4
  <2>3. \A p \in Waiting' : NextPacket(p.lidar)' = (NextPacket(p.lidar))'
    OBVIOUS
  <2> QED BY <1>1, <2>1, <2>2 DEF PacketsInOrder, Follows
<1> QED
  BY <1>7, <1>8

\* The packet taken is followed by all that is left of its lidar.
LEMMA TakingKeepsOrder ==
  ASSUME StreamTypes, PacketsInOrder, TakePacket
  PROVE  /\ PacketsInOrder' /\ UpcomingIsLater
         /\ \E packet \in Packet :
              /\ packet = Head(raw_packet_queue) /\ packet \in Upcoming(packet.lidar)
              /\ packet.synced => packet.time_stamp = packet.at + SensorAhead
              /\ \A v \in Upcoming(packet.lidar)' : Follows(packet, v)
<1> DEFINE q == raw_packet_queue
<1>1. /\ q \in Seq(Packet) /\ q # <<>> /\ raw_packet_queue' = Tail(q)
      /\ UNCHANGED <<now, sent, sdk>>
  BY DEF StreamTypes, TakePacket, Thread
<1> DEFINE n == Len(Tail(q))
<1>2. /\ n \in Nat /\ DOMAIN q = 1 .. n + 1 /\ DOMAIN raw_packet_queue' = 1 .. n
      /\ \A i \in 1 .. n : raw_packet_queue'[i] = q[i + 1]
      /\ Head(q) = q[1] /\ Head(q) \in Packet
  BY <1>1
<1>0. PICK packet \in Packet : packet = Head(q)
  BY <1>2
<1> HIDE DEF n
<1>3. packet \in Waiting /\ Waiting' \subseteq Waiting /\ Waiting \subseteq Packet
  <2>1. \A i \in 1 .. n : i + 1 \in 1 .. n + 1
    BY <1>2
  <2>2. 1 \in 1 .. n + 1
    BY <1>2
  <2>3. Waiting' \subseteq Waiting /\ packet \in Waiting
    BY <1>0, <1>1, <1>2, <2>1, <2>2 DEF Waiting
  <2> QED BY <1>1, <2>3 DEF Waiting, StreamTypes
<1>4. \A l \in Lidars : NextPacket(l)' = NextPacket(l)
  BY <1>1 DEF NextPacket
<1>5. \A l \in Lidars : Upcoming(l)' \subseteq Upcoming(l)
  BY <1>3, <1>4 DEF Upcoming
<1>6. UpcomingIsLater
  <2>1. \A u \in Packet : Later(u, u)
    BY DEF Later, Packet
  <2> QED BY <1>5, <2>1, UpcomingPackets DEF UpcomingIsLater
<1>7. PacketsInOrder'
  <2>1. ASSUME NEW p \in Waiting'
        PROVE  /\ p.synced => p.time_stamp = p.at + SensorAhead
               /\ Follows(p, NextPacket(p.lidar)')
    <3>1. p.lidar \in Lidars
      BY <1>3, <2>1 DEF Packet
    <3> QED BY <1>3, <1>4, <2>1, <3>1 DEF PacketsInOrder
  <2>2. ASSUME NEW i \in 1 .. n, NEW j \in 1 .. n, i < j
        PROVE  Follows(raw_packet_queue'[i], raw_packet_queue'[j])
    <3>1. i + 1 \in 1 .. n + 1 /\ j + 1 \in 1 .. n + 1 /\ i + 1 < j + 1
      BY <1>2, <2>2
    <3> QED BY <1>2, <3>1 DEF PacketsInOrder
  <2>3. ASSUME NEW i \in 1 .. n, NEW p \in sdk PROVE Follows(raw_packet_queue'[i], p)
    <3>1. i + 1 \in 1 .. n + 1
      BY <1>2
    <3> QED BY <1>2, <3>1 DEF PacketsInOrder
  <2> QED BY <1>1, <1>2, <2>1, <2>2, <2>3 DEF PacketsInOrder, Follows
<1>8. packet.synced => packet.time_stamp = packet.at + SensorAhead
  BY <1>3 DEF PacketsInOrder
<1>9. packet.lidar \in Lidars /\ packet \in Upcoming(packet.lidar)
  BY <1>2, <1>3 DEF Upcoming, Packet
<1>10. ASSUME NEW v \in Upcoming(packet.lidar)' PROVE Follows(packet, v)
  <2>1. CASE v = NextPacket(packet.lidar)'
    BY <1>3, <1>4, <1>9, <2>1 DEF PacketsInOrder
  <2>2. CASE v \in sdk
    <3>1. 1 \in DOMAIN q
      BY <1>2
    <3> QED BY <1>0, <1>2, <2>2, <3>1 DEF PacketsInOrder
  <2>3. CASE \E i \in 1 .. n : v = raw_packet_queue'[i]
    <3>1. PICK i \in 1 .. n : v = q[i + 1]
      BY <1>2, <2>3
    <3>2. 1 \in 1 .. n + 1 /\ i + 1 \in 1 .. n + 1 /\ 1 < i + 1
      BY <1>2
    <3> QED BY <1>0, <1>2, <3>1, <3>2 DEF PacketsInOrder
  <2> QED BY <1>1, <1>2, <2>1, <2>2, <2>3 DEF Upcoming, Waiting
<1> QED
  BY <1>0, <1>6, <1>7, <1>8, <1>9, <1>10

LEMMA PacketsStep ==
  ASSUME StreamTypes, PacketsInOrder, [Next]_vars
  PROVE  PacketsInOrder' /\ UpcomingIsLater
<1>1. CASE QuietForPackets
  BY <1>1, QuietIsLater
<1>2. CASE Tick \/ \E l \in Lidars : LosePacket(l)
  <2>1. /\ now \in Nat /\ sent \in [Lidars -> Nat] /\ PointNum \in Nat
    BY PubAssumption DEF StreamTypes
  <2>2. UNCHANGED <<sdk, raw_packet_queue>>
    BY <1>2 DEF Tick, LosePacket
  <2>3. /\ now' \in Nat /\ now <= now' /\ sent' \in [Lidars -> Nat]
        /\ \A l \in Lidars : sent[l] <= sent'[l]
    <3>1. CASE Tick
      BY <2>1, <3>1 DEF Tick
    <3>2. CASE \E l \in Lidars : LosePacket(l)
      BY <2>1, <3>2 DEF LosePacket, PacketSent
    <3> QED BY <1>2, <3>1, <3>2
  <2> QED BY <2>2, <2>3, TimePasses
<1> QED
  BY <1>1, <1>2, PacketSteps, PushKeepsOrder, ComingKeepsOrder, TakingKeepsOrder

-----------------------------------------------------------------------------
\* The points of a packet that comes next keep a buffer in order.
LEMMA JoinedInOrder ==
  ASSUME NEW a \in Seq(Point), InOrder(a), NEW packet \in Packet, Behind(a, packet),
         packet.synced => packet.time_stamp = packet.at + SensorAhead, NEW posed \in BOOLEAN
  PROVE  InOrder(a \o PointsOf(packet, posed))
<1> DEFINE b == PointsOf(packet, posed)
           c == a \o b
<1>1. /\ b \in Seq(Point)
      /\ \A k \in DOMAIN b :
           /\ b[k].synced = packet.synced
           /\ \E i \in 0 .. PointNum - 1 :
                b[k].id[1] = packet.at + i /\ b[k].stamp = packet.time_stamp + i
      /\ \A j, k \in DOMAIN b : b[j].id = b[k].id => j = k
      /\ b # <<>> => b[1].id[1] = packet.at /\ b[1].stamp = packet.time_stamp
  BY PacketPoints
<1> HIDE DEF b
<1>2. /\ c \in Seq(Point) /\ DOMAIN c = 1 .. Len(a) + Len(b)
      /\ \A k \in DOMAIN a : k \in DOMAIN c /\ c[k] = a[k]
      /\ \A k \in DOMAIN c :
           \/ k \in DOMAIN a
           \/ k - Len(a) \in DOMAIN b /\ c[k] = b[k - Len(a)]
      /\ b = <<>> => c = a
  BY <1>1, PointsJoin
<1>3. /\ Len(a) \in Nat /\ Len(b) \in Nat /\ PointNum \in Nat /\ SensorAhead \in Nat
      /\ DOMAIN a = 1 .. Len(a) /\ DOMAIN b = 1 .. Len(b)
      /\ packet.at \in Nat /\ packet.time_stamp \in Nat /\ packet.synced \in BOOLEAN
  BY <1>1, PubAssumption DEF Packet
<1> HIDE DEF c
<1>4. \A k \in DOMAIN c : c[k].id[1] \in Nat /\ c[k].stamp \in Nat
  <2>1. \A k \in DOMAIN c : c[k] \in Point
    BY <1>2
  <2> QED BY <2>1 DEF Point
<1>5. ASSUME NEW k \in DOMAIN b
      PROVE  /\ b[k].id[1] >= packet.at /\ b[k].stamp >= packet.time_stamp
             /\ b[k].synced = packet.synced
             /\ b[k].synced => b[k].stamp = b[k].id[1] + SensorAhead
  <2>1. PICK i \in 0 .. PointNum - 1 :
             b[k].id[1] = packet.at + i /\ b[k].stamp = packet.time_stamp + i
    BY <1>1
  <2> QED BY <1>1, <1>3, <2>1
<1>6. ASSUME NEW k \in DOMAIN a PROVE a[k].id[1] < packet.at /\ a[k].id[1] \in Nat
  BY <1>2, <1>4 DEF Behind
<1>7. ASSUME NEW j \in DOMAIN c, NEW k \in DOMAIN c, c[j].id = c[k].id PROVE j = k
  <2>0. j \in Nat /\ k \in Nat
    BY <1>2, <1>3
  <2>1. CASE j \in DOMAIN a /\ k \in DOMAIN a
    BY <1>2, <1>7, <2>1 DEF InOrder
  <2>2. ASSUME j \in DOMAIN a, k \notin DOMAIN a PROVE FALSE
    <3>1. c[k] = b[k - Len(a)] /\ k - Len(a) \in DOMAIN b /\ c[j] = a[j]
      BY <1>2, <2>2
    <3>2. c[k].id[1] >= packet.at /\ c[j].id[1] < packet.at
      BY <1>5, <1>6, <2>2, <3>1
    <3> QED BY <1>3, <1>4, <1>7, <3>2
  <2>3. ASSUME k \in DOMAIN a, j \notin DOMAIN a PROVE FALSE
    <3>1. c[j] = b[j - Len(a)] /\ j - Len(a) \in DOMAIN b /\ c[k] = a[k]
      BY <1>2, <2>3
    <3>2. c[j].id[1] >= packet.at /\ c[k].id[1] < packet.at
      BY <1>5, <1>6, <2>3, <3>1
    <3> QED BY <1>3, <1>4, <1>7, <3>2
  <2>4. CASE j \notin DOMAIN a /\ k \notin DOMAIN a
    <3>1. /\ j - Len(a) \in DOMAIN b /\ c[j] = b[j - Len(a)]
          /\ k - Len(a) \in DOMAIN b /\ c[k] = b[k - Len(a)]
      BY <1>2, <2>4
    <3>2. j - Len(a) = k - Len(a)
      BY <1>1, <1>7, <3>1
    <3> QED BY <1>3, <2>0, <3>2
  <2> QED BY <2>1, <2>2, <2>3, <2>4
<1>8. ASSUME NEW k \in DOMAIN c
      PROVE  /\ c[k].synced => c[k].stamp = c[k].id[1] + SensorAhead
             /\ NotAfter(c[1], c[k])
  <2>1. CASE k \in DOMAIN a
    <3>1. 1 \in DOMAIN a /\ c[1] = a[1] /\ c[k] = a[k]
      BY <1>2, <1>3, <2>1
    <3> QED BY <2>1, <3>1 DEF InOrder
  <2>2. CASE k \notin DOMAIN a
    <3>1. k - Len(a) \in DOMAIN b /\ c[k] = b[k - Len(a)]
      BY <1>2, <2>2
    <3>2. /\ c[k].synced => c[k].stamp = c[k].id[1] + SensorAhead
          /\ c[k].id[1] >= packet.at /\ c[k].stamp >= packet.time_stamp /\ c[k].synced = packet.synced
      BY <1>5, <3>1
    <3>3. CASE DOMAIN a = {}
      <4>1. Len(a) = 0 /\ 1 \in DOMAIN c /\ 1 - Len(a) = 1 /\ b # <<>>
        BY <1>3, <1>2, <3>1, <3>3
      <4>2. c[1] = b[1]
        BY <1>2, <3>3, <4>1
      <4> QED BY <1>1, <1>3, <1>4, <3>2, <4>1, <4>2 DEF NotAfter
    <3>4. CASE DOMAIN a # {}
      <4>1. 1 \in DOMAIN a /\ c[1] = a[1] /\ 1 \in DOMAIN c
        BY <1>2, <1>3, <3>4
      <4>2. /\ c[1].id[1] < packet.at
            /\ ~c[1].synced /\ ~packet.synced => c[1].stamp <= packet.time_stamp
        BY <4>1 DEF Behind
      <4> QED BY <1>3, <1>4, <3>2, <4>1, <4>2 DEF NotAfter
    <3> QED BY <3>2, <3>3, <3>4
  <2> QED BY <2>1, <2>2
<1> QED
  BY <1>7, <1>8 DEF InOrder, c, b

\* And they end before what follows.
LEMMA JoinedBehind ==
  ASSUME NEW a \in Seq(Point), NEW packet \in Packet, NEW posed \in BOOLEAN,
         NEW v \in Packet, v.lidar = packet.lidar, Follows(packet, v), Behind(a, v)
  PROVE  Behind(a \o PointsOf(packet, posed), v)
<1> DEFINE b == PointsOf(packet, posed)
           c == a \o b
<1>1. /\ b \in Seq(Point)
      /\ \A k \in DOMAIN b :
           /\ b[k].synced = packet.synced
           /\ \E i \in 0 .. PointNum - 1 :
                b[k].id[1] = packet.at + i /\ b[k].stamp = packet.time_stamp + i
      /\ b # <<>> => b[1].id[1] = packet.at /\ b[1].stamp = packet.time_stamp
  BY PacketPoints
<1> HIDE DEF b
<1>2. /\ c \in Seq(Point) /\ DOMAIN c = 1 .. Len(a) + Len(b)
      /\ \A k \in DOMAIN a : k \in DOMAIN c /\ c[k] = a[k]
      /\ \A k \in DOMAIN c :
           \/ k \in DOMAIN a
           \/ k - Len(a) \in DOMAIN b /\ c[k] = b[k - Len(a)]
  BY <1>1, PointsJoin
<1>3. /\ Len(a) \in Nat /\ Len(b) \in Nat /\ PointNum \in Nat
      /\ DOMAIN a = 1 .. Len(a) /\ DOMAIN b = 1 .. Len(b)
      /\ packet.at \in Nat /\ packet.time_stamp \in Nat /\ packet.synced \in BOOLEAN
      /\ v.at \in Nat /\ v.time_stamp \in Nat
  <2>1. PointNum \in Nat
    BY PubAssumption
  <2>2. /\ packet.at \in Nat /\ packet.time_stamp \in Nat /\ packet.synced \in BOOLEAN
        /\ v.at \in Nat /\ v.time_stamp \in Nat
    BY DEF Packet
  <2> QED
    BY <1>1, <2>1, <2>2
<1>0. /\ packet.at + PointNum <= v.at
      /\ ~packet.synced /\ ~v.synced => packet.time_stamp <= v.time_stamp
  BY DEF Follows
<1> HIDE DEF c
<1>4. SUFFICES ASSUME NEW k \in DOMAIN c
               PROVE  /\ c[k].id[1] < v.at
                      /\ ~c[1].synced /\ ~v.synced => c[1].stamp <= v.time_stamp
  BY DEF Behind, c, b
<1>5. c[k].id[1] < v.at
  <2>1. CASE k \in DOMAIN a
    BY <1>2, <2>1 DEF Behind
  <2>2. CASE k \notin DOMAIN a
    <3>1. k - Len(a) \in DOMAIN b /\ c[k] = b[k - Len(a)]
      BY <1>2, <2>2
    <3>2. PICK i \in 0 .. PointNum - 1 : c[k].id[1] = packet.at + i
      BY <1>1, <3>1
    <3> QED BY <1>0, <1>3, <3>2
  <2> QED BY <2>1, <2>2
<1>6. ~c[1].synced /\ ~v.synced => c[1].stamp <= v.time_stamp
  <2>1. CASE DOMAIN a = {}
    <3>1. Len(a) = 0 /\ 1 \in DOMAIN c /\ 1 - Len(a) = 1
      BY <1>2, <1>3, <1>4, <2>1
    <3>2. c[1] = b[1] /\ 1 \in DOMAIN b
      BY <1>2, <2>1, <3>1
    <3>3. b # <<>>
      BY <3>2
    <3> QED BY <1>0, <1>1, <1>3, <3>2, <3>3
  <2>2. CASE DOMAIN a # {}
    <3>1. 1 \in DOMAIN a /\ c[1] = a[1]
      BY <1>2, <1>3, <2>2
    <3> QED BY <3>1 DEF Behind
  <2> QED BY <2>1, <2>2
<1> QED BY <1>5, <1>6

-----------------------------------------------------------------------------
\* The buffers and the frame are changed by the thread only.
LEMMA ThreadOnly ==
  ASSUME [Next]_vars
  PROVE  \/ UNCHANGED <<handlers, frame>>
         \/ CheckQuit \/ TakePacket \/ CheckTimer
<1>1. CASE Start \/ LidarSteps \/ PushRawPacket \/ WaitForNothing \/ Uninit
  BY <1>1 DEF Start, AddLidarsExtParam, SetPointCloudsCallback, SetImuDataCallback,
     SetPointCloudConfig, Setup, LidarSteps, Tick, OnLivoxLidarPointCloudCallback, LosePacket,
     SwitchClock, Environment, PushRawPacket, WaitForNothing, Uninit
<1>2. CASE ImuPusherFinishes \/ ImuPoller \/ Destroy \/ UNCHANGED vars
           \/ \E l \in Lidars : OnImuPacket(l) \/ StartSampling(l)
  BY <1>2 DEF ImuPusherFinishes, ImuPoller, Destroy, ImuLookIfEmpty, ImuLookAtCount,
     ImuSignal, ImuCheckExit, ImuWait, ImuVisit, ImuPoll, PublishImuData, ImuCheckFuture,
     PollerOnly, frameVars, vars, StartSampling, OnImuPacket, Environment
<1> QED
  BY <1>1, <1>2 DEF Next, FrameNext, RawDataProcess

\* The buffers after a packet is taken.
LEMMA TakenPoints ==
  ASSUME BufferTypes, TakePacket, NEW packet \in Packet, packet = Head(raw_packet_queue)
  PROVE  \E posed \in BOOLEAN :
           LET l == packet.lidar
               a == HandlerOf(l).points
           IN  /\ l \in Lidars /\ a \in Seq(Point)
               /\ l \in DOMAIN handlers => a = handlers[l].points
               /\ l \notin DOMAIN handlers => a = <<>>
               /\ DOMAIN handlers' = DOMAIN handlers \union {l}
               /\ handlers' = [m \in DOMAIN handlers' |-> handlers'[m]]
               /\ handlers'[l] = [points |-> a \o PointsOf(packet, posed), is_set_extrinsic_params |-> posed]
               /\ \A m \in DOMAIN handlers \ {l} : handlers'[m] = handlers[m]
               /\ frame' = frame /\ process' = [at |-> "timer", lidar |-> {l}]
<1> DEFINE l == packet.lidar
           h == HandlerOf(l)
<1>1. l \in Lidars
  BY DEF Packet
<1>2. <<>> \in Seq(Point)
  OBVIOUS
<1>3. /\ h.points \in Seq(Point) /\ h.is_set_extrinsic_params \in BOOLEAN
      /\ l \in DOMAIN handlers => h.points = handlers[l].points
      /\ l \notin DOMAIN handlers => h.points = <<>>
  <2>1. CASE l \in DOMAIN handlers
    <3>1. h = handlers[l] /\ handlers[l] \in [points : Seq(Point), is_set_extrinsic_params : BOOLEAN]
      BY <2>1 DEF HandlerOf, BufferTypes
    <3> QED BY <2>1, <3>1
  <2>2. CASE l \notin DOMAIN handlers
    <3>1. h = [points |-> <<>>, is_set_extrinsic_params |-> FALSE]
      BY <2>2 DEF HandlerOf, NewHandler
    <3> HIDE DEF h
    <3>2. h.points = <<>> /\ h.is_set_extrinsic_params = FALSE
      BY <3>1
    <3>3. h.points \in Seq(Point) /\ h.is_set_extrinsic_params \in BOOLEAN
      BY <1>2, <3>2
    <3> QED BY <2>2, <3>2, <3>3
  <2> QED BY <2>1, <2>2
<1>4. PICK posed \in BOOLEAN : posed = (h.is_set_extrinsic_params \/ l \in lidar_extrinsics)
  BY <1>3
<1>5. /\ handlers' = Put(handlers, l, [points |-> h.points \o PointsOf(packet, posed),
                                       is_set_extrinsic_params |-> posed])
      /\ frame' = frame /\ process' = [at |-> "timer", lidar |-> {l}]
  BY <1>4 DEF TakePacket, PointCloudProcess
<1> HIDE DEF h
<1>6. /\ DOMAIN handlers' = DOMAIN handlers \union {l}
      /\ handlers' = [m \in DOMAIN handlers' |-> handlers'[m]]
      /\ handlers'[l] = [points |-> h.points \o PointsOf(packet, posed), is_set_extrinsic_params |-> posed]
      /\ \A m \in DOMAIN handlers \ {l} : handlers'[m] = handlers[m]
  BY <1>5 DEF Put
<1> QED
  BY <1>1, <1>3, <1>5, <1>6 DEF h

\* What is handed over leaves empty buffers.
LEMMA HandedOver ==
  ASSUME BufferTypes, StreamsInOrder, NEW cut \in SUBSET DOMAIN handlers, HandOver(cut)
  PROVE  /\ BufferTypes'
         /\ DOMAIN handlers' = DOMAIN handlers
         /\ \A l \in DOMAIN handlers :
              handlers'[l].points = IF l \in cut THEN <<>> ELSE handlers[l].points
         /\ \A l \in DOMAIN frame' : /\ InOrder(frame'[l].points)
                                     /\ frame'[l].base_time = GetLidarBaseTime(frame'[l].points)
<1>1. /\ DOMAIN handlers' = DOMAIN handlers
      /\ handlers' = [l \in DOMAIN handlers |-> handlers'[l]]
      /\ \A l \in cut : handlers'[l] = [handlers[l] EXCEPT !.points = <<>>]
      /\ \A l \in DOMAIN handlers \ cut : handlers'[l] = handlers[l]
      /\ DOMAIN frame' = cut /\ frame' = [l \in cut |-> frame'[l]]
      /\ \A l \in cut : frame'[l] = [base_time |-> GetLidarBaseTime(handlers[l].points),
                                     points    |-> handlers[l].points]
  BY DEF HandOver, FrameOf
<1>2. \A l \in DOMAIN handlers :
        handlers[l] \in [points : Seq(Point), is_set_extrinsic_params : BOOLEAN]
  BY DEF BufferTypes
<1>3. ASSUME NEW l \in DOMAIN handlers
      PROVE  /\ handlers'[l] \in [points : Seq(Point), is_set_extrinsic_params : BOOLEAN]
             /\ handlers'[l].points = IF l \in cut THEN <<>> ELSE handlers[l].points
  <2>1. CASE l \in cut
    <3>1. handlers[l] = [points |-> handlers[l].points,
                         is_set_extrinsic_params |-> handlers[l].is_set_extrinsic_params]
          /\ handlers[l].is_set_extrinsic_params \in BOOLEAN
      BY <1>2
    <3>2. handlers'[l] = [points |-> <<>>,
                          is_set_extrinsic_params |-> handlers[l].is_set_extrinsic_params]
      BY <1>1, <2>1, <3>1
    <3>3. handlers'[l].points = <<>>
      BY <3>2
    <3> QED BY <2>1, <3>1, <3>2, <3>3
  <2>2. CASE l \notin cut
    BY <1>1, <1>2, <2>2
  <2> QED BY <2>1, <2>2
<1>4. \A points \in Seq(Point) : GetLidarBaseTime(points) \in Nat
  <2> SUFFICES ASSUME NEW points \in Seq(Point) PROVE GetLidarBaseTime(points) \in Nat
    OBVIOUS
  <2>1. CASE points = <<>> BY <2>1 DEF GetLidarBaseTime
  <2>2. CASE points # <<>>
    <3>1. Head(points) \in Point BY <2>2
    <3> QED BY <2>2, <3>1 DEF GetLidarBaseTime, Point
  <2> QED BY <2>1, <2>2
<1>5. ASSUME NEW l \in cut
      PROVE  /\ frame'[l] \in [base_time : Nat, points : Seq(Point)]
             /\ InOrder(frame'[l].points)
             /\ frame'[l].base_time = GetLidarBaseTime(frame'[l].points)
  <2>1. handlers[l].points \in Seq(Point) /\ InOrder(handlers[l].points)
    BY <1>2 DEF StreamsInOrder
  <2>2. GetLidarBaseTime(handlers[l].points) \in Nat
    BY <1>4, <2>1
  <2>3. frame'[l].base_time = GetLidarBaseTime(handlers[l].points) /\ frame'[l].points = handlers[l].points
    BY <1>1
  <2> QED BY <1>1, <2>1, <2>2, <2>3
<1>6. BufferTypes'
  <2>1. DOMAIN handlers' \subseteq Lidars /\ DOMAIN frame' \subseteq Lidars
    BY <1>1 DEF BufferTypes
  <2>2. handlers' \in [DOMAIN handlers' -> [points : Seq(Point), is_set_extrinsic_params : BOOLEAN]]
    BY <1>1, <1>3
  <2>3. frame' \in [DOMAIN frame' -> [base_time : Nat, points : Seq(Point)]]
    BY <1>1, <1>5
  <2> QED BY <2>1, <2>2, <2>3 DEF BufferTypes
<1> QED
  BY <1>1, <1>3, <1>5, <1>6

\* What is still to come stays behind the buffers.
LEMMA BuffersStayBehind ==
  ASSUME StreamTypes, StreamTypes', BufferTypes, StreamsInOrder, UpcomingIsLater,
         NEW l \in DOMAIN handlers, NEW v \in Upcoming(l)'
  PROVE  Behind(handlers[l].points, v)
<1>1. l \in Lidars /\ handlers[l].points \in Seq(Point)
  BY DEF BufferTypes
<1>2. PICK u \in Upcoming(l) : Later(u, v)
  BY <1>1 DEF UpcomingIsLater
<1>3. u \in Packet /\ Behind(handlers[l].points, u)
  BY <1>1, UpcomingPackets DEF StreamsInOrder
<1>4. v \in Packet
  <2>1. NextPacket(l)' \in Packet
    BY <1>1 DEF NextPacket, Packet, StreamTypes
  <2>2. Waiting' \subseteq Packet
    BY DEF Waiting, StreamTypes
  <2> QED BY <2>1, <2>2 DEF Upcoming
<1> QED
  BY <1>1, <1>2, <1>3, <1>4, LaterStaysBehind

LEMMA StreamsStep ==
  ASSUME ProcessOK, StreamInvariant, [Next]_vars
  PROVE  StreamInvariant'
<1>1. StreamTypes /\ BufferTypes /\ PacketsInOrder /\ StreamsInOrder
  BY DEF StreamInvariant
<1>2. StreamTypes' /\ PacketsInOrder' /\ UpcomingIsLater
  BY <1>1, StreamTypesStep, PacketsStep
<1>3. \A l \in DOMAIN handlers : \A v \in Upcoming(l)' : Behind(handlers[l].points, v)
  BY <1>1, <1>2, BuffersStayBehind
<1>4. \A l \in DOMAIN handlers : l \in Lidars /\ handlers[l].points \in Seq(Point) /\ InOrder(handlers[l].points)
  BY <1>1 DEF BufferTypes, StreamsInOrder
<1>5. InOrder(<<>>) /\ \A v : Behind(<<>>, v)
  <2>1. DOMAIN <<>> = {}
    OBVIOUS
  <2> QED BY <2>1 DEF InOrder, Behind
<1>6. CASE UNCHANGED <<handlers, frame>>
  <2>1. BufferTypes'
    BY <1>1, <1>6 DEF BufferTypes
  <2>2. StreamsInOrder'
    BY <1>1, <1>3, <1>6 DEF StreamsInOrder
  <2> QED BY <1>2, <2>1, <2>2 DEF StreamInvariant
<1>7. CASE CheckQuit
  <2>1. handlers' = handlers /\ frame' = <<>>
    BY <1>7 DEF CheckQuit, NoFrame
  <2>2. DOMAIN frame' = {}
    BY <2>1
  <2>3. frame' \in [DOMAIN frame' -> [base_time : Nat, points : Seq(Point)]]
    BY <2>1, <2>2
  <2>4. BufferTypes'
    BY <1>1, <2>1, <2>2, <2>3 DEF BufferTypes
  <2>5. StreamsInOrder'
    BY <1>1, <1>3, <2>1, <2>2 DEF StreamsInOrder
  <2> QED BY <1>2, <2>4, <2>5 DEF StreamInvariant
<1>8. CASE CheckTimer
  <2>1. CASE UNCHANGED <<frame, handlers>>
    BY <1>6, <2>1
  <2>2. CASE \E cut \in SUBSET DOMAIN handlers : HandOver(cut)
    <3>1. PICK cut \in SUBSET DOMAIN handlers : HandOver(cut)
      BY <2>2
    <3>2. /\ BufferTypes'
          /\ DOMAIN handlers' = DOMAIN handlers
          /\ \A l \in DOMAIN handlers :
               handlers'[l].points = IF l \in cut THEN <<>> ELSE handlers[l].points
          /\ \A l \in DOMAIN frame' : /\ InOrder(frame'[l].points)
                                      /\ frame'[l].base_time = GetLidarBaseTime(frame'[l].points)
      BY <1>1, <3>1, HandedOver
    <3>3. ASSUME NEW l \in DOMAIN handlers
          PROVE  /\ InOrder(handlers'[l].points)
                 /\ \A v \in Upcoming(l)' : Behind(handlers'[l].points, v)
      <4>1. CASE l \in cut BY <1>5, <3>2, <4>1
      <4>2. CASE l \notin cut BY <1>3, <1>4, <3>2, <4>2
      <4> QED BY <4>1, <4>2
    <3>4. (\A l \in DOMAIN frame : /\ InOrder(frame[l].points)
                                   /\ frame[l].base_time = GetLidarBaseTime(frame[l].points))'
      BY <3>2 DEF GetLidarBaseTime, InOrder, NotAfter
    <3>5. StreamsInOrder'
      BY <3>2, <3>3, <3>4 DEF StreamsInOrder
    <3> QED BY <1>2, <3>2, <3>5 DEF StreamInvariant
  <2> QED BY <1>8, <2>1, <2>2, TimerHandsOver
<1>9. CASE TakePacket
  <2>1. PICK packet \in Packet :
             /\ packet = Head(raw_packet_queue) /\ packet \in Upcoming(packet.lidar)
             /\ packet.synced => packet.time_stamp = packet.at + SensorAhead
             /\ \A v \in Upcoming(packet.lidar)' : Follows(packet, v)
    BY <1>1, <1>9, TakingKeepsOrder
  <2>2. PICK posed \in BOOLEAN :
           LET l == packet.lidar
               a == HandlerOf(l).points
           IN  /\ l \in Lidars /\ a \in Seq(Point)
               /\ l \in DOMAIN handlers => a = handlers[l].points
               /\ l \notin DOMAIN handlers => a = <<>>
               /\ DOMAIN handlers' = DOMAIN handlers \union {l}
               /\ handlers' = [m \in DOMAIN handlers' |-> handlers'[m]]
               /\ handlers'[l] = [points |-> a \o PointsOf(packet, posed), is_set_extrinsic_params |-> posed]
               /\ \A m \in DOMAIN handlers \ {l} : handlers'[m] = handlers[m]
               /\ frame' = frame /\ process' = [at |-> "timer", lidar |-> {l}]
    BY <1>1, <1>9, <2>1, TakenPoints
  <2>3. PICK l \in Lidars : l = packet.lidar
    BY <2>2
  <2>4. PICK a \in Seq(Point) : a = HandlerOf(l).points
    BY <2>2, <2>3
  <2>5. PICK c : c = a \o PointsOf(packet, posed)
    OBVIOUS
  <2>6. /\ l \in DOMAIN handlers => a = handlers[l].points
        /\ l \notin DOMAIN handlers => a = <<>>
        /\ DOMAIN handlers' = DOMAIN handlers \union {l}
        /\ handlers' = [m \in DOMAIN handlers' |-> handlers'[m]]
        /\ handlers'[l] = [points |-> c, is_set_extrinsic_params |-> posed]
        /\ \A m \in DOMAIN handlers \ {l} : handlers'[m] = handlers[m]
        /\ frame' = frame
    BY <2>2, <2>3, <2>4, <2>5
  <2>7. InOrder(a) /\ Behind(a, packet) /\ \A v \in Upcoming(l)' : Behind(a, v)
    <3>1. CASE l \in DOMAIN handlers
      BY <1>1, <1>3, <2>1, <2>3, <2>6, <3>1 DEF StreamsInOrder
    <3>2. CASE l \notin DOMAIN handlers
      BY <1>5, <2>6, <3>2
    <3> QED BY <3>1, <3>2
  <2>8. InOrder(c)
    BY <2>1, <2>5, <2>7, JoinedInOrder
  <2>9. ASSUME NEW v \in Upcoming(l)' PROVE Behind(c, v)
    <3>1. v \in Packet /\ v.lidar = l
      <4>1. NextPacket(l)' \in Packet /\ NextPacket(l)'.lidar = l
        BY <1>2 DEF NextPacket, Packet, StreamTypes
      <4>2. Waiting' \subseteq Packet
        BY <1>2 DEF Waiting, StreamTypes
      <4> QED BY <4>1, <4>2 DEF Upcoming
    <3>2. Follows(packet, v)
      BY <2>1, <2>3
    <3> QED BY <2>3, <2>5, <2>7, <3>1, <3>2, JoinedBehind
  <2>10. c \in Seq(Point)
    <3>1. PointsOf(packet, posed) \in Seq(Point)
      BY PacketPoints
    <3> QED BY <2>5, <3>1
  <2>11. handlers'[l].points = c
    BY <2>6
  <2>12. BufferTypes'
    <3>1. \A m \in DOMAIN handlers' :
            handlers'[m] \in [points : Seq(Point), is_set_extrinsic_params : BOOLEAN]
      BY <1>1, <2>6, <2>10 DEF BufferTypes
    <3>2. handlers' \in [DOMAIN handlers' -> [points : Seq(Point), is_set_extrinsic_params : BOOLEAN]]
      BY <2>6, <3>1
    <3>3. DOMAIN handlers' \subseteq Lidars
      BY <1>1, <2>6 DEF BufferTypes
    <3> QED BY <1>1, <2>6, <3>2, <3>3 DEF BufferTypes
  <2>13. StreamsInOrder'
    <3>1. ASSUME NEW m \in DOMAIN handlers'
          PROVE  /\ InOrder(handlers'[m].points)
                 /\ \A v \in Upcoming(m)' : Behind(handlers'[m].points, v)
      <4>1. CASE m = l BY <2>8, <2>9, <2>11, <4>1
      <4>2. CASE m # l BY <1>3, <1>4, <2>6, <4>2
      <4> QED BY <4>1, <4>2
    <3> QED BY <1>1, <2>6, <3>1 DEF StreamsInOrder
  <2> QED BY <1>2, <2>12, <2>13 DEF StreamInvariant
<1> QED
  BY <1>6, <1>7, <1>8, <1>9, ThreadOnly

LEMMA StreamsInit == Init => StreamInvariant
<1> SUFFICES ASSUME Init PROVE StreamInvariant
  OBVIOUS
<1>1. left \in Loads /\ left \in Load
  BY PubAssumption DEF Init, FrameInit, Load
<1>2. /\ now = 0 /\ sent = [l \in Lidars |-> 0] /\ locked = left.locked /\ lidar_extrinsics = {}
      /\ is_timestamp_sync = FALSE /\ sdk = {} /\ raw_packet_queue = <<>>
      /\ process.at = "unborn" /\ handlers = <<>> /\ frame = <<>> /\ first = TRUE /\ exit = "no"
  BY DEF Init, FrameInit, NoFrame
<1>3. StreamTypes
  <2>1. locked \in [Lidars -> BOOLEAN]
    BY <1>1, <1>2 DEF Load
  <2>2. <<>> \in Seq(Packet)
    OBVIOUS
  <2> QED BY <1>1, <1>2, <2>1, <2>2 DEF StreamTypes
<1>4. DOMAIN handlers = {} /\ DOMAIN frame = {} /\ DOMAIN raw_packet_queue = {}
  BY <1>2
<1>5. BufferTypes /\ StreamsInOrder
  BY <1>2, <1>4 DEF BufferTypes, StreamsInOrder
<1>6. PacketsInOrder
  BY <1>2, <1>4 DEF PacketsInOrder, Waiting
<1> QED
  BY <1>3, <1>5, <1>6 DEF StreamInvariant

-----------------------------------------------------------------------------
\* The remainder, from the quotient.
LEMMA ModIs ==
  ASSUME NEW m \in Nat \ {0}, NEW a \in Int, NEW k \in Int, NEW r \in 0 .. m - 1, a = k * m + r
  PROVE  a % m = r
  BY SMT

\* A millisecond and its units.
LEMMA MsRange ==
  ASSUME NEW s \in Nat
  PROVE  MsOf(s) \in Nat /\ MsOf(s) * UnitsPerMs <= s /\ s < MsOf(s) * UnitsPerMs + UnitsPerMs
<1>1. UnitsPerMs \in Nat \ {0}
  BY PubAssumption
<1> DEFINE u == UnitsPerMs
           q == s \div u
           r == s % u
<1>2. r \in 0 .. u - 1
  BY <1>1, SMT
<1>3. q \in Int /\ s = q * u + r
  BY <1>1, SMT
<1>4. q >= 0
  BY <1>1, SMT
<1> HIDE DEF q, r
<1>5. q * u \in Int
  BY <1>1, <1>3
<1>6. q * u <= s /\ s < q * u + u
  BY <1>1, <1>2, <1>3, <1>5
<1> QED
  BY <1>3, <1>4, <1>6 DEF MsOf, q

\* A smaller product of the same factor.
LEMMA LessTimes ==
  ASSUME NEW a \in Int, NEW b \in Int, NEW u \in Nat \ {0}, a < b
  PROVE  a * u + u <= b * u
<1>1. (b - a - 1) * u >= 0
  <2>1. b - a - 1 \in Nat
    OBVIOUS
  <2> QED BY <2>1, SMT
<1>2. (b - a - 1) * u = b * u - a * u - u
  BY SMT
<1> QED
  BY <1>1, <1>2, SMT

\* The interval in whole milliseconds, and what is tolerated.
LEMMA IntervalRange ==
  /\ publish_interval_ms \in Nat \ {0} /\ publish_interval_tolerance \in Nat
  /\ publish_interval_ms * UnitsPerMs <= publish_interval
  /\ publish_interval < publish_interval_ms * UnitsPerMs + UnitsPerMs
  /\ publish_interval_tolerance = publish_interval - UnitsPerMs
<1>1. UnitsPerMs \in Nat \ {0} /\ publish_interval \in Nat /\ UnitsPerMs <= publish_interval
  BY PubAssumption
<1>2. PICK n \in Nat : n = publish_interval_ms /\ n * UnitsPerMs <= publish_interval
                       /\ publish_interval < n * UnitsPerMs + UnitsPerMs
  BY <1>1, MsRange DEF MsOf, publish_interval_ms
<1>3. n # 0
  <2>1. n = 0 => n * UnitsPerMs = 0
    BY <1>1
  <2> QED BY <1>1, <1>2, <2>1
<1>4. publish_interval_tolerance = publish_interval - UnitsPerMs
  BY DEF publish_interval_tolerance
<1>5. publish_interval_tolerance \in Nat
  BY <1>1, <1>4
<1> QED
  BY <1>2, <1>3, <1>4, <1>5

\* Points that are too few do not leave the millisecond in which their frame is
\* due with the next packet.
LEMMA NotPassed ==
  ASSUME NEW v \in Nat, NEW p \in Nat, NEW d \in Nat,
         d <= publish_interval_ms * UnitsPerMs - publish_interval_tolerance,
         MsOf(v) <= MsOf(p) + publish_interval_ms, TooShort(v, p)
  PROVE  MsOf(v + d) <= MsOf(p) + publish_interval_ms
<1>1. PICK u \in Nat \ {0}, n \in Nat \ {0}, t \in Nat :
         u = UnitsPerMs /\ n = publish_interval_ms /\ t = publish_interval_tolerance
  BY PubAssumption, IntervalRange
<1>2. PICK a \in Nat, b \in Nat, c \in Nat : a = MsOf(p) /\ b = MsOf(v) /\ c = MsOf(v + d)
  BY MsRange
<1>3. /\ p < a * u + u /\ v < b * u + u /\ c * u <= v + d
      /\ a * u \in Nat /\ b * u \in Nat /\ c * u \in Nat /\ n * u \in Nat
  BY <1>1, <1>2, MsRange
<1>4. n * u - u <= t /\ d <= n * u - t /\ (b = a + n => v - (p + 1) < t) /\ b <= a + n
  <2>1. publish_interval_ms * UnitsPerMs - UnitsPerMs <= publish_interval_tolerance
    BY <1>1, <1>3, IntervalRange, PubAssumption
  <2> QED BY <1>1, <1>2, <2>1 DEF TooShort
<1>5. ASSUME a + n < c PROVE FALSE
  <2>1. (a + n) * u + u <= c * u /\ (a + n) * u = a * u + n * u
    <3>1. a + n \in Int /\ c \in Int
      OBVIOUS
    <3>2. (a + n) * u + u <= c * u
      BY <1>5, <3>1, LessTimes
    <3> QED BY <3>2, SMT
  <2>2. a * u + u + t <= v
    BY <1>3, <1>4, <2>1
  <2>3. p + 1 + t <= v
    BY <1>3, <2>2
  <2>4. b < a + n
    BY <1>4, <2>3
  <2>5. b * u + u <= (a + n) * u
    <3>1. a + n \in Int /\ b \in Int
      OBVIOUS
    <3> QED BY <2>4, <3>1, LessTimes
  <2>6. v < a * u + n * u
    BY <1>3, <2>1, <2>5
  <2> QED BY <1>3, <1>4, <2>1, <2>6
<1> QED
  BY <1>1, <1>2, <1>5

\* CheckTimer cuts a frame that began right after p in the millisecond one
\* interval after p, once its points are enough.
LEMMA DueNow ==
  ASSUME NEW p \in Nat, NEW recent \in Nat,
         MsOf(p) % publish_interval_ms = 0, MsOf(recent) = MsOf(p) + publish_interval_ms,
         ~TooShort(recent, p)
  PROVE  /\ MsOf(recent) % publish_interval_ms = 0 /\ MsOf(recent) # 0
         /\ Difference(recent, p + 1) >= publish_interval_tolerance
<1> DEFINE u == UnitsPerMs
           n == publish_interval_ms
           a == MsOf(p)
           m == 2 ^ StampBits
<1>1. u \in Nat \ {0} /\ n \in Nat \ {0} /\ m \in Nat \ {0} /\ n * u + u <= m
  <2>1. publish_interval + UnitsPerMs <= m /\ publish_interval \in Nat
    BY PubAssumption
  <2>2. /\ n \in Nat \ {0} /\ n * u <= publish_interval /\ n * u \in Nat
        /\ u \in Nat \ {0} /\ m \in Nat \ {0}
    BY PubAssumption, IntervalRange
  <2> HIDE DEF n, m
  <2> QED BY <2>1, <2>2
<1>9. publish_interval_tolerance \in Nat /\ recent - (p + 1) >= publish_interval_tolerance
  BY IntervalRange DEF TooShort
<1>2. /\ a \in Nat /\ a * u <= p /\ p < a * u + u
      /\ (a + n) * u <= recent /\ recent < (a + n) * u + u
  BY MsRange
<1> HIDE DEF u, n, a, m
<1>3. (a + n) % n = 0
  <2>1. a % n = 0 /\ a \div n \in Int /\ a = (a \div n) * n + (a % n)
    <3>1. a % n = 0
      BY DEF a, n
    <3>2. a \div n \in Int
      BY <1>1, <1>2, SMT
    <3>3. a = (a \div n) * n + (a % n)
      BY <1>1, <1>2, SMT
    <3> QED BY <3>1, <3>2, <3>3
  <2> DEFINE k == a \div n
  <2>2. k \in Int /\ a = k * n
    BY <1>1, <2>1
  <2> HIDE DEF k
  <2>3. a + n = (k + 1) * n + 0
    BY <1>1, <2>2, SMT
  <2>4. k + 1 \in Int /\ a + n \in Int /\ 0 \in 0 .. n - 1
    BY <1>1, <1>2, <2>2
  <2> QED BY <1>1, <2>3, <2>4, ModIs
<1>4. a + n # 0
  BY <1>1, <1>2
<1>5. (a + n) * u = a * u + n * u /\ a * u \in Nat /\ n * u \in Nat
  BY <1>1, <1>2, SMT
<1> DEFINE d == recent - (p + 1)
<1>6. d \in Int /\ d >= 0 /\ d < m
  BY <1>1, <1>2, <1>5, <1>9
<1>7. d % m = d
  <2>1. d \in 0 .. m - 1 /\ 0 \in Int /\ d = 0 * m + d
    BY <1>1, <1>6
  <2> HIDE DEF d
  <2> QED BY <1>1, <1>6, <2>1, ModIs
<1>8. Difference(recent, p + 1) = d
  BY <1>7 DEF Difference, m
<1> QED
  BY <1>3, <1>4, <1>8, <1>9 DEF a, n

\* How a stream without a gap goes on from p to the end of the next packet.
LEMMA SoFarTaken ==
  ASSUME PacketsAreShort, NEW l \in Lidars, NEW a \in Seq(Point), InOrder(a),
         NEW packet \in Packet, packet.lidar = l, Behind(a, packet),
         packet.synced => packet.time_stamp = packet.at + SensorAhead, NEW posed \in BOOLEAN,
         packet \in Upcoming(l), NEW p \in Point, CutOK(l, p), SoFar(l, a, p, FALSE)
  PROVE  SoFar(l, a \o PointsOf(packet, posed), p, TRUE)
<1> DEFINE b == PointsOf(packet, posed)
           c == a \o b
           e == Echoes[l]
           n == PointNum
<1>1. /\ b \in Seq(Point) /\ Len(b) = n * e
      /\ \A k \in DOMAIN b : b[k].synced = packet.synced
      /\ b # <<>> => /\ b[1].id[1] = packet.at
                     /\ Last(b).id[1] = packet.at + n - 1
                     /\ Last(b).stamp = packet.time_stamp + n - 1
  BY PacketPoints
<1> HIDE DEF b
<1>2. /\ c \in Seq(Point) /\ Len(c) = Len(a) + Len(b) /\ DOMAIN c = 1 .. Len(a) + Len(b)
      /\ \A k \in DOMAIN a : k \in DOMAIN c /\ c[k] = a[k]
      /\ \A k \in DOMAIN c :
           \/ k \in DOMAIN a
           \/ k - Len(a) \in DOMAIN b /\ c[k] = b[k - Len(a)]
      /\ b # <<>> => c # <<>> /\ Last(c) = Last(b)
      /\ b = <<>> => c = a
  BY <1>1, PointsJoin
<1> HIDE DEF c
<1>3. /\ n \in Nat \ {0} /\ e \in 0 .. 2 /\ SensorAhead \in Nat /\ publish_interval_ms \in Nat \ {0}
      /\ n <= publish_interval_ms * UnitsPerMs - publish_interval_tolerance
      /\ packet.at \in Nat /\ packet.time_stamp \in Nat /\ packet.synced \in BOOLEAN
      /\ p.stamp \in Nat
      /\ Len(a) \in Nat /\ Len(b) \in Nat
      /\ DOMAIN a = 1 .. Len(a) /\ DOMAIN b = 1 .. Len(b)
  <2>1. /\ n \in Nat \ {0} /\ e \in 0 .. 2 /\ SensorAhead \in Nat /\ publish_interval_ms \in Nat \ {0}
        /\ n <= publish_interval_ms * UnitsPerMs - publish_interval_tolerance
    BY PubAssumption, IntervalRange DEF PacketsAreShort
  <2>2. /\ packet.at \in Nat /\ packet.time_stamp \in Nat /\ packet.synced \in BOOLEAN
        /\ p.stamp \in Nat
    BY DEF Packet, Point
  <2> QED BY <1>1, <2>1, <2>2
<1>0. PICK x \in Nat, t \in Nat, s \in Nat :
        /\ x = p.id[1] /\ t = packet.at /\ s = packet.time_stamp /\ x < t
        /\ p.stamp = x + SensorAhead
  BY DEF Point, Packet, CutOK
<1>x. x < t
  BY <1>0
<1>n. /\ n \in Nat \ {0} /\ e \in 0 .. 2 /\ SensorAhead \in Nat /\ publish_interval_ms \in Nat \ {0}
      /\ n <= publish_interval_ms * UnitsPerMs - publish_interval_tolerance
  BY <1>3
<1>4. CASE b = <<>>
  BY <1>2, <1>4 DEF SoFar, c, b
<1>5. CASE b # <<>>
  <2>1. /\ c # <<>> /\ Last(c).id[1] = t + n - 1 /\ Last(c).stamp = s + n - 1
        /\ Len(b) > 0 /\ Len(b) = n * e
    BY <1>0, <1>1, <1>2, <1>3, <1>5
  <2>2. e \in 1 .. 2 /\ n * e = e * n
    <3>1. e # 0
      BY <1>3, <2>1
    <3> QED BY <1>3, <3>1, SMT
  <2>d. PICK d \in Nat, y \in Nat, z \in Nat :
          d = t - 1 - x /\ y = t + n - 1 /\ z = s + n - 1
    <3>0. t - 1 - x \in Nat 
      BY <1>x
    <3>1. t + n - 1 \in Nat /\ s + n - 1 \in Nat
      BY <1>n
    <3> QED BY <3>0, <3>1
  <2>3. Last(c).id[1] = y /\ Last(c).stamp = z /\ y - x = d + n
    <3>1. y - x = d + n
      BY <1>x, <1>n, <2>d
    <3> QED BY <2>1, <2>d, <3>1
  <2> HIDE DEF e, n
  <2>4. e * (y - x) = e * d + e * n /\ e * d \in Nat /\ e * n \in Nat /\ (e * d = 0 => d = 0)
    <3>1. e = 1 \/ e = 2
      BY <2>2
    <3>2. e * (d + n) = e * d + e * n /\ e * d \in Nat /\ e * n \in Nat /\ (e * d = 0 => d = 0)
      BY <1>n, <3>1
    <3> QED BY <2>3, <3>2
  <2>5. AllSynced(c) => packet.synced /\ AllSynced(a)
    <3> SUFFICES ASSUME AllSynced(c) PROVE packet.synced /\ AllSynced(a)
      OBVIOUS
    <3>1. AllSynced(a)
      BY <1>2 DEF AllSynced
    <3>2. Len(c) \in DOMAIN c /\ Len(c) \notin DOMAIN a
      BY <1>2, <1>3, <2>1
    <3>3. c[Len(c)].synced /\ Len(c) - Len(a) \in DOMAIN b /\ c[Len(c)] = b[Len(c) - Len(a)]
      BY <1>2, <3>2 DEF AllSynced
    <3> QED BY <1>1, <3>1, <3>3
  <2>6. packet.synced => s = t + SensorAhead
    BY <1>0
  <2>7. /\ GaplessSince(l, c, p) <=> e * (y - x) = Len(c)
        /\ MsOf(p.stamp) \in Nat /\ MsOf(z) \in Nat /\ p.stamp \in Nat /\ p.stamp = x + SensorAhead
    BY <1>0, <1>3, <2>d, <2>3, MsRange DEF GaplessSince, e
  \* What remains to show, in numbers.
  <2>8. ASSUME Len(c) <= e * (y - x), GaplessSince(l, c, p) => c[1].id[1] = x + 1,
               GaplessSince(l, c, p) /\ AllSynced(c) => MsOf(z) <= MsOf(p.stamp) + publish_interval_ms
        PROVE  SoFar(l, c, p, TRUE)
    BY <1>0, <2>3, <2>8 DEF SoFar, e
  <2>9. CASE a = <<>>
    <3>1. Len(a) = 0 /\ Len(c) = e * n
      BY <1>2, <1>3, <2>1, <2>2, <2>9
    <3>2. Len(c) <= e * (y - x)
      BY <2>4, <3>1
    <3>3. GaplessSince(l, c, p) => t = x + 1
      BY <1>x, <2>d, <2>4, <2>7, <3>1
    <3>4. c[1].id[1] = t
      <4>1. 1 \in DOMAIN c /\ 1 \notin DOMAIN a /\ 1 - Len(a) = 1
        BY <1>2, <1>3, <2>1, <3>1
      <4> QED BY <1>0, <1>1, <1>2, <1>5, <4>1
    <3>5. ASSUME GaplessSince(l, c, p), AllSynced(c)
          PROVE  MsOf(z) <= MsOf(p.stamp) + publish_interval_ms
      <4>1. s = t + SensorAhead /\ t = x + 1
        BY <2>5, <2>6, <3>3, <3>5
      <4>2. z = p.stamp + n
        BY <1>n, <2>d, <2>7, <4>1
      <4>3. MsOf(p.stamp) < MsOf(p.stamp) + publish_interval_ms /\ MsOf(p.stamp) \in Nat
        BY <1>n, <2>7
      <4>4. TooShort(p.stamp, p.stamp) /\ MsOf(p.stamp) <= MsOf(p.stamp) + publish_interval_ms
        BY <1>n, <4>3 DEF TooShort
      <4> QED BY <1>n, <2>7, <4>2, <4>4, NotPassed
    <3>7. SoFar(l, c, p, TRUE)
      BY <2>8, <3>2, <3>3, <3>4, <3>5
    <3> QED BY <3>7 DEF c, b
  <2>10. CASE a # <<>>
    <3>1. PICK q \in Point : q = Last(a) /\ q = a[Len(a)] /\ Len(a) \in DOMAIN a /\ 1 \in DOMAIN a
      BY <1>3, <2>10 DEF Last
    <3>2. PICK w \in Nat, v \in Nat : w = q.id[1] /\ v = q.stamp /\ w < t
      BY <1>0, <3>1 DEF Behind, Point
    <3>w. w < t
      BY <3>2
    <3>3. /\ Len(a) <= e * (w - x)
          /\ GaplessSince(l, a, p) => a[1].id[1] = x + 1
          /\ GaplessSince(l, a, p) /\ AllSynced(a) =>
               MsOf(v) <= MsOf(p.stamp) + publish_interval_ms /\ TooShort(v, p.stamp)
          /\ GaplessSince(l, a, p) <=> e * (w - x) = Len(a)
      BY <1>0, <2>10, <3>1, <3>2 DEF SoFar, GaplessSince, e
    <3>4. PICK g \in Nat : g = t - 1 - w
      BY <1>0, <3>2
    <3>5. e * (w - x) = e * d - e * g /\ e * g \in Nat /\ (e * g = 0 => g = 0)
      <4>1. w - x = d - g
        BY <1>x, <2>d, <3>w, <3>4
      <4>2. e = 1 \/ e = 2
        BY <2>2
      <4>3. e * (d - g) = e * d - e * g /\ e * g \in Nat /\ (e * g = 0 => g = 0)
        BY <4>2
      <4> QED BY <4>1, <4>3
    <3>6. Len(c) = Len(a) + e * n /\ Len(a) \in Nat
      BY <1>2, <1>3, <2>1, <2>2
    <3>7. Len(c) <= e * (y - x)
      BY <2>4, <3>3, <3>5, <3>6
    <3>8. GaplessSince(l, c, p) => t = w + 1 /\ GaplessSince(l, a, p)
      <4> SUFFICES ASSUME GaplessSince(l, c, p) PROVE t = w + 1 /\ GaplessSince(l, a, p)
        OBVIOUS
      <4>1. e * d = Len(a)
        BY <2>4, <2>7, <3>6
      <4>2. e * g = 0 /\ e * (w - x) = Len(a)
        BY <2>4, <3>3, <3>5, <3>6, <4>1
      <4>3. t = w + 1
        BY <3>w, <3>4, <3>5, <4>2
      <4> QED BY <3>3, <4>2, <4>3
    <3>9. GaplessSince(l, c, p) => c[1].id[1] = x + 1
      BY <1>2, <3>1, <3>3, <3>8
    <3>10. ASSUME GaplessSince(l, c, p), AllSynced(c)
           PROVE  MsOf(z) <= MsOf(p.stamp) + publish_interval_ms
      <4>1. s = t + SensorAhead /\ t = w + 1
        BY <2>5, <2>6, <3>8, <3>10
      <4>2. v = w + SensorAhead
        BY <2>5, <3>1, <3>2, <3>10 DEF InOrder, AllSynced
      <4>3. z = v + n
        BY <1>n, <2>d, <4>1, <4>2
      <4>4. MsOf(v) <= MsOf(p.stamp) + publish_interval_ms /\ TooShort(v, p.stamp)
        BY <2>5, <3>3, <3>8, <3>10
      <4> QED BY <1>n, <2>7, <4>3, <4>4, NotPassed
    <3>11. SoFar(l, c, p, TRUE)
      BY <2>8, <3>7, <3>9, <3>10
    <3> QED BY <3>11 DEF c, b
  <2> QED BY <2>9, <2>10
<1> QED
  BY <1>4, <1>5

\* Before the timer is looked at, frames are only forgotten.
LEMMA CutTypesStep ==
  ASSUME CutTypes, StreamTypes, [Next]_vars, ~CheckTimer
  PROVE  CutTypes' /\ (history'.cut = history.cut \/ history'.cut = NoCut)
<1>1. ASSUME UNCHANGED <<history, is_timestamp_sync>>
      PROVE  CutTypes' /\ (history'.cut = history.cut \/ history'.cut = NoCut)
  BY <1>1 DEF CutTypes, NoCut
<1>2. ASSUME NEW synced \in BOOLEAN, is_timestamp_sync' = synced,
             history' = IF synced THEN history ELSE [history EXCEPT !.cut = NoCut]
      PROVE  CutTypes' /\ (history'.cut = history.cut \/ history'.cut = NoCut)
  <2>1. CASE synced
    BY <1>2, <2>1 DEF CutTypes, NoCut
  <2>2. CASE ~synced
    <3>1. history' = [cut |-> NoCut, start |-> history.start, cuts |-> history.cuts]
      BY <1>2, <2>2 DEF CutTypes
    <3>2. NoCut \in [Lidars -> SUBSET Point]
      BY DEF NoCut
    <3> QED BY <1>2, <2>2, <3>1, <3>2 DEF CutTypes, NoCut
  <2> QED BY <2>1, <2>2
<1>3. CASE \E l \in Lidars : OnLivoxLidarPointCloudCallback(l)
  <2>1. PICK packet \in Packet :
          /\ is_timestamp_sync' = packet.synced
          /\ history' = IF packet.synced THEN history ELSE [history EXCEPT !.cut = NoCut]
    BY <1>3, PacketComes
  <2>2. packet.synced \in BOOLEAN
    BY DEF Packet
  <2> QED BY <1>2, <2>1, <2>2
<1>4. CASE \E l \in Lidars : OnImuPacket(l)
  <2>1. PICK l \in Lidars : SetSyncFlag(l)
    BY <1>4 DEF OnImuPacket
  <2>2. locked[l] \in BOOLEAN
    BY DEF StreamTypes
  <2> QED BY <1>2, <2>1, <2>2 DEF SetSyncFlag
<1>5. CASE Start \/ PushRawPacket \/ Tick \/ CheckQuit \/ WaitForNothing \/ TakePacket \/ Uninit
           \/ \E l \in Lidars : LosePacket(l) \/ SwitchClock(l)
  BY <1>1, <1>5 DEF Start, AddLidarsExtParam, SetPointCloudsCallback, SetImuDataCallback,
     SetPointCloudConfig, Setup, Tick, PushRawPacket, CheckQuit, WaitForNothing, TakePacket, Thread,
     Uninit, LosePacket, SwitchClock
<1>6. CASE ImuPusherFinishes \/ ImuPoller \/ Destroy \/ UNCHANGED vars
           \/ \E l \in Lidars : StartSampling(l)
  BY <1>1, <1>6 DEF ImuPusherFinishes, ImuPoller, Destroy, ImuLookIfEmpty, ImuLookAtCount,
     ImuSignal, ImuCheckExit, ImuWait, ImuVisit, ImuPoll, PublishImuData, ImuCheckFuture,
     PollerOnly, frameVars, vars, StartSampling
<1> QED
  BY <1>3, <1>4, <1>5, <1>6 DEF Next, FrameNext, LidarSteps, RawDataProcess

LEMMA CutStaysOK ==
  ASSUME StreamTypes, StreamTypes', UpcomingIsLater, NEW l \in Lidars, NEW p \in Point, CutOK(l, p)
  PROVE  CutOK(l, p)'
<1>1. ASSUME NEW v \in Upcoming(l)' PROVE p.id[1] < v.at
  <2>1. PICK u \in Upcoming(l) : Later(u, v)
    BY DEF UpcomingIsLater
  <2>2. u \in Packet
    BY UpcomingPackets
  <2>3. v \in Packet
    <3>1. NextPacket(l)' \in Packet
      BY DEF NextPacket, Packet, StreamTypes
    <3>2. Waiting' \subseteq Packet
      BY DEF Waiting, StreamTypes
    <3> QED BY <3>1, <3>2 DEF Upcoming
  <2>4. u.at \in Nat /\ v.at \in Nat /\ u.at <= v.at /\ p.id[1] \in Nat
    BY <2>1, <2>2, <2>3 DEF Packet, Later, Point
  <2>5. p.id[1] < u.at
    BY DEF CutOK
  <2> QED BY <2>4, <2>5
<1>2. p.synced /\ p.stamp = p.id[1] + SensorAhead /\ MsOf(p.stamp) % publish_interval_ms = 0
  BY DEF CutOK
<1> QED
  BY <1>1, <1>2 DEF CutOK, MsOf, publish_interval_ms

\* A frame is cut, or it is not due yet.
LEMMA CutTimer ==
  ASSUME ProcessOK, StreamInvariant, StreamInvariant', CutInvariant, CheckTimer, UpcomingIsLater
  PROVE  CutInvariant'
<1>1. StreamTypes /\ StreamTypes' /\ BufferTypes /\ StreamsInOrder /\ CutTypes
  BY DEF StreamInvariant, CutInvariant
<1>2. /\ process.at = "timer" /\ process' = [at |-> "check", lidar |-> {}]
      /\ is_timestamp_sync' = is_timestamp_sync
  BY DEF CheckTimer, Thread
<1>3. \A l \in Lidars : \A p \in history.cut[l] : p \in Point /\ CutOK(l, p)'
  BY <1>1, CutStaysOK DEF CutInvariant, CutTypes
<1>4. CASE ~is_timestamp_sync
  <2>1. history.cut = NoCut
    BY <1>1, <1>4 DEF CutTypes
  <2>2. /\ history' = [cut |-> history.cut, start |-> history'.start, cuts |-> history'.cuts]
        /\ CutAll
    BY <1>1, <1>4 DEF CheckTimer, CutAll, CutTypes
  <2>3. history'.cut = NoCut /\ NoCut \in [Lidars -> SUBSET Point]
    BY <2>1, <2>2 DEF NoCut
  <2>4. CutTypes'
    BY <1>2, <2>2, <2>3 DEF CutTypes, NoCut
  <2> QED BY <2>3, <2>4 DEF CutInvariant, NoCut
<1>5. CASE is_timestamp_sync
  <2>1. PICK l \in DOMAIN handlers : process.lidar = {l}
    BY <1>2 DEF ProcessOK
  <2>2. PICK points \in Seq(Point) : points = handlers[l].points
    BY <1>1 DEF BufferTypes
  <2>3. l \in Lidars /\ InOrder(points) /\ \A v \in Upcoming(l) : Behind(points, v)
    BY <1>1, <2>2 DEF BufferTypes, StreamsInOrder
  <2>4. CutOne(l)
    BY <1>5, <2>1 DEF CheckTimer
  <2>5. \A m \in Lidars \ {l} : ~MayBeDue(m)
    BY <2>1 DEF MayBeDue
  <2>6. ASSUME NEW m \in DOMAIN handlers, NEW p \in history.cut[m],
               m # l \/ ~FrameDue(points)
        PROVE  SoFar(m, handlers[m].points, p, FALSE)
    <3>0. m \in Lidars
      BY <1>1 DEF BufferTypes
    <3>1. SoFar(m, handlers[m].points, p, MayBeDue(m))
      BY <3>0 DEF CutInvariant
    <3>2. CASE m # l
      BY <2>5, <3>0, <3>1, <3>2 DEF SoFar
    <3>3. CASE m = l /\ ~FrameDue(points)
      <4>1. SoFar(l, points, p, TRUE)
        BY <2>2, <3>1, <3>3 DEF SoFar
      <4>2. ASSUME points # <<>>, GaplessSince(l, points, p), AllSynced(points),
                   ~TooShort(Last(points).stamp, p.stamp)
            PROVE  FALSE
        <5>1. points[1].id[1] = p.id[1] + 1
          BY <4>1, <4>2 DEF SoFar
        <5>2. p \in Point /\ CutOK(l, p)
          BY <1>1, <2>3, <3>3 DEF CutInvariant, CutTypes
        <5>3. 1 \in DOMAIN points /\ Len(points) \in DOMAIN points
          BY <4>2
        <5>4. points[1] \in Point /\ points[1].synced /\ points[Len(points)] \in Point
          BY <4>2, <5>3 DEF AllSynced
        <5>5. PICK x \in Nat, r \in Nat, f \in Nat :
                 x = p.stamp /\ r = Last(points).stamp /\ f = points[1].stamp
          BY <5>2, <5>4 DEF Point, Last
        <5>6. f = points[1].id[1] + SensorAhead /\ x = p.id[1] + SensorAhead
          BY <2>3, <5>2, <5>3, <5>4, <5>5 DEF InOrder, CutOK
        <5>7. f = x + 1
          <6>1. PICK i \in Nat, j \in Nat : i = p.id[1] /\ j = points[1].id[1]
            BY <5>2, <5>4 DEF Point
          <6>2. f = j + SensorAhead /\ x = i + SensorAhead /\ j = i + 1
            BY <5>1, <5>6, <6>1
          <6>3. SensorAhead \in Nat
            BY PubAssumption
          <6> QED BY <6>2, <6>3
        <5>8. /\ MsOf(x) % publish_interval_ms = 0 /\ MsOf(r) = MsOf(x) + publish_interval_ms
              /\ ~TooShort(r, x)
          BY <4>2, <5>2, <5>5 DEF CutOK, TooShort
        <5>9. /\ MsOf(r) % publish_interval_ms = 0 /\ MsOf(r) # 0
              /\ Difference(r, x + 1) >= publish_interval_tolerance
          BY <5>8, DueNow
        <5>10. GetRecentTimeStamp(points) = r /\ GetLidarBaseTime(points) = x + 1
          <6>1. Head(points) = points[1]
            BY <4>2
          <6> QED BY <4>2, <5>5, <5>7, <6>1 DEF GetRecentTimeStamp, GetLidarBaseTime
        <5>11. FrameDue(points)
          BY <5>9, <5>10 DEF FrameDue
        <5> QED BY <3>3, <5>11
      <4> QED BY <2>2, <3>3, <4>1, <4>2 DEF SoFar
    <3> QED BY <2>6, <3>2, <3>3
  <2>7. CASE ~FrameDue(points)
    <3>1. UNCHANGED <<frame, handlers, history>>
      BY <2>2, <2>4, <2>7 DEF CutOne
    <3>2. CutTypes'
      BY <1>1, <1>2, <3>1 DEF CutTypes, NoCut
    <3>3. ASSUME NEW m \in Lidars, NEW p \in history'.cut[m]
          PROVE  CutOK(m, p)' /\ (m \in DOMAIN handlers' => SoFar(m, handlers'[m].points, p, MayBeDue(m)'))
      <4>1. CutOK(m, p)'
        BY <1>3, <3>1
      <4>2. m \in DOMAIN handlers => SoFar(m, handlers[m].points, p, FALSE)
        BY <2>6, <2>7, <3>1
      <4>3. ~MayBeDue(m)'
        BY <1>2 DEF MayBeDue
      <4> QED BY <3>1, <4>1, <4>2, <4>3 DEF SoFar
    <3>4. ASSUME NEW m \in Lidars, NEW p \in history'.cut[m]
          PROVE  (m \in DOMAIN handlers => SoFar(m, handlers[m].points, p, MayBeDue(m)))'
      BY <3>3 DEF SoFar, TooShort, GaplessSince, AllSynced, MsOf, publish_interval_ms, publish_interval_tolerance
    <3> QED BY <3>2, <3>3, <3>4 DEF CutInvariant
  <2>8. CASE FrameDue(points)
    <3>1. /\ HandOver({l})
          /\ history' = [history EXCEPT !.cut[l] = IF AllSynced(points) THEN {Last(points)} ELSE {}]
      BY <2>2, <2>4, <2>8 DEF CutOne
    <3>2. PICK S : S = IF AllSynced(points) THEN {Last(points)} ELSE {}
      OBVIOUS
    <3>3. /\ history' = [cut |-> [history.cut EXCEPT ![l] = S], start |-> history.start, cuts |-> history.cuts]
          /\ history.cut \in [Lidars -> SUBSET Point]
      BY <1>1, <3>1, <3>2 DEF CutTypes
    <3>4. points # <<>>
      <4>1. points = <<>> => GetRecentTimeStamp(points) = 0
        BY DEF GetRecentTimeStamp
      <4>2. MsOf(0) = 0
        <5>1. MsOf(0) \in Nat /\ MsOf(0) * UnitsPerMs <= 0 /\ UnitsPerMs \in Nat \ {0}
          BY MsRange, PubAssumption
        <5> QED BY <5>1, SMT
      <4> QED BY <2>8, <4>1, <4>2 DEF FrameDue
    <3>5. Last(points) \in Point /\ Len(points) \in DOMAIN points /\ Last(points) = points[Len(points)]
      BY <3>4 DEF Last
    <3>6. S \subseteq Point
      BY <3>2, <3>5
    <3>7. /\ history'.cut[l] = S /\ \A m \in Lidars \ {l} : history'.cut[m] = history.cut[m]
          /\ history'.cut \in [Lidars -> SUBSET Point]
      BY <2>3, <3>3, <3>6
    <3>8. CutTypes'
      BY <1>2, <1>5, <3>3, <3>7 DEF CutTypes
    <3>9. ASSUME NEW p \in S PROVE CutOK(l, p)
      <4>1. p = Last(points) /\ AllSynced(points) /\ p = points[Len(points)]
        BY <3>2, <3>5
      <4>2. p.synced /\ p.stamp = p.id[1] + SensorAhead
        BY <2>3, <3>5, <4>1 DEF AllSynced, InOrder
      <4>3. MsOf(p.stamp) % publish_interval_ms = 0
        BY <2>8, <3>4, <4>1 DEF FrameDue, GetRecentTimeStamp
      <4>4. \A v \in Upcoming(l) : p.id[1] < v.at
        BY <2>3, <3>5, <4>1 DEF Behind
      <4> QED BY <4>2, <4>3, <4>4 DEF CutOK
    <3>10. \A p \in S : CutOK(l, p)'
      BY <1>1, <2>3, <3>6, <3>9, CutStaysOK
    <3>11. /\ DOMAIN handlers' = DOMAIN handlers
           /\ \A m \in DOMAIN handlers :
                handlers'[m].points = IF m \in {l} THEN <<>> ELSE handlers[m].points
      <4>1. {l} \in SUBSET DOMAIN handlers
        BY <2>1
      <4> QED BY <1>1, <3>1, <4>1, HandedOver
    <3>12. ASSUME NEW m \in Lidars, NEW p \in history'.cut[m]
           PROVE  CutOK(m, p)' /\ (m \in DOMAIN handlers' => SoFar(m, handlers'[m].points, p, MayBeDue(m)'))
      <4>1. CASE m = l
        BY <2>1, <3>7, <3>10, <3>11, <4>1 DEF SoFar
      <4>2. CASE m # l
        <5>1. p \in history.cut[m]
          BY <3>7, <4>2
        <5>2. m \in DOMAIN handlers => SoFar(m, handlers[m].points, p, FALSE)
          BY <2>6, <4>2, <5>1
        <5>3. ~MayBeDue(m)'
          BY <1>2 DEF MayBeDue
        <5> QED BY <1>3, <3>11, <4>2, <5>1, <5>2, <5>3 DEF SoFar
      <4> QED BY <4>1, <4>2
    <3>13. ASSUME NEW m \in Lidars, NEW p \in history'.cut[m]
           PROVE  (m \in DOMAIN handlers => SoFar(m, handlers[m].points, p, MayBeDue(m)))'
      BY <3>12 DEF SoFar, TooShort, GaplessSince, AllSynced, MsOf, publish_interval_ms, publish_interval_tolerance
    <3> QED BY <3>8, <3>12, <3>13 DEF CutInvariant
  <2> QED BY <2>7, <2>8
<1> QED
  BY <1>4, <1>5

LEMMA CutStep ==
  ASSUME PacketsAreShort, PosedInvariant, StreamInvariant, StreamInvariant', CutInvariant, [Next]_vars
  PROVE  CutInvariant'
<1>1. StreamTypes /\ StreamTypes' /\ BufferTypes /\ StreamsInOrder /\ PacketsInOrder /\ CutTypes
  BY DEF StreamInvariant, CutInvariant
<1>0. ProcessOK
  BY DEF PosedInvariant
<1>2. UpcomingIsLater
  BY <1>1, PacketsStep
<1>3. CASE CheckTimer
  BY <1>0, <1>2, <1>3, CutTimer
<1>4. CASE ~CheckTimer
  <2>1. CutTypes' /\ (history'.cut = history.cut \/ history'.cut = NoCut)
    BY <1>1, <1>4, CutTypesStep
  <2>2. ASSUME NEW l \in Lidars, NEW p \in history'.cut[l]
        PROVE  p \in history.cut[l] /\ p \in Point /\ CutOK(l, p)'
    <3>1. p \in history.cut[l]
      BY <2>1, <2>2 DEF NoCut
    <3>2. p \in Point /\ CutOK(l, p)
      BY <1>1, <3>1 DEF CutInvariant, CutTypes
    <3> QED BY <1>1, <1>2, <3>1, <3>2, CutStaysOK
  <2>3. CASE TakePacket
    <3>1. PICK packet \in Packet :
               /\ packet = Head(raw_packet_queue) /\ packet \in Upcoming(packet.lidar)
               /\ packet.synced => packet.time_stamp = packet.at + SensorAhead
      BY <1>1, <2>3, TakingKeepsOrder
    <3>2. PICK posed \in BOOLEAN :
             LET l == packet.lidar
                 a == HandlerOf(l).points
             IN  /\ l \in Lidars /\ a \in Seq(Point)
                 /\ l \in DOMAIN handlers => a = handlers[l].points
                 /\ l \notin DOMAIN handlers => a = <<>>
                 /\ DOMAIN handlers' = DOMAIN handlers \union {l}
                 /\ handlers' = [m \in DOMAIN handlers' |-> handlers'[m]]
                 /\ handlers'[l] = [points |-> a \o PointsOf(packet, posed), is_set_extrinsic_params |-> posed]
                 /\ \A m \in DOMAIN handlers \ {l} : handlers'[m] = handlers[m]
                 /\ frame' = frame /\ process' = [at |-> "timer", lidar |-> {l}]
      BY <1>1, <2>3, <3>1, TakenPoints
    <3>3. PICK l \in Lidars : l = packet.lidar
      BY <3>2
    <3>4. PICK a \in Seq(Point) : a = HandlerOf(l).points
      BY <3>2, <3>3
    <3>5. PICK c : c = a \o PointsOf(packet, posed)
      OBVIOUS
    <3>6. /\ l \in DOMAIN handlers => a = handlers[l].points
          /\ l \notin DOMAIN handlers => a = <<>>
          /\ DOMAIN handlers' = DOMAIN handlers \union {l}
          /\ handlers'[l] = [points |-> c, is_set_extrinsic_params |-> posed]
          /\ \A m \in DOMAIN handlers \ {l} : handlers'[m] = handlers[m]
          /\ process' = [at |-> "timer", lidar |-> {l}]
      BY <3>2, <3>3, <3>4, <3>5
    <3>7. handlers'[l].points = c
      BY <3>6
    <3>8. InOrder(a) /\ Behind(a, packet)
      <4>1. CASE l \in DOMAIN handlers
        BY <1>1, <3>1, <3>3, <3>6, <4>1 DEF StreamsInOrder
      <4>2. CASE l \notin DOMAIN handlers
        <5>1. DOMAIN <<>> = {}
          OBVIOUS
        <5> QED BY <3>6, <4>2, <5>1 DEF InOrder, Behind
      <4> QED BY <4>1, <4>2
    <3>9. \A m \in Lidars : ~MayBeDue(m)
      BY <2>3 DEF TakePacket, MayBeDue
    <3>10. MayBeDue(l)'
      BY <3>6 DEF MayBeDue
    <3>11. ASSUME NEW m \in Lidars, NEW p \in history'.cut[m]
           PROVE  m \in DOMAIN handlers' => SoFar(m, handlers'[m].points, p, MayBeDue(m)')
      <4>1. p \in history.cut[m] /\ p \in Point /\ CutOK(m, p)
        BY <2>2 DEF CutInvariant
      <4>2. m \in DOMAIN handlers => SoFar(m, handlers[m].points, p, FALSE)
        BY <3>9, <4>1 DEF CutInvariant, SoFar
      <4>3. CASE m # l
        BY <3>6, <4>2, <4>3 DEF SoFar
      <4>4. CASE m = l
        <5>1. SoFar(l, a, p, FALSE)
          BY <3>6, <4>2, <4>4 DEF SoFar
        <5>2. SoFar(l, c, p, TRUE)
          BY <3>1, <3>3, <3>5, <3>8, <4>1, <4>4, <5>1, SoFarTaken
        <5> QED BY <3>7, <3>10, <4>4, <5>2 DEF SoFar
      <4> QED BY <4>3, <4>4
    <3>12. ASSUME NEW m \in Lidars, NEW p \in history'.cut[m]
           PROVE  (m \in DOMAIN handlers => SoFar(m, handlers[m].points, p, MayBeDue(m)))'
      BY <3>11 DEF SoFar, TooShort, GaplessSince, AllSynced, MsOf, publish_interval_ms, publish_interval_tolerance
    <3> QED BY <2>1, <2>2, <3>12 DEF CutInvariant
  <2>4. CASE ~TakePacket
    <3>1. UNCHANGED handlers
      BY <1>4, <2>4, ThreadOnly DEF CheckQuit
    <3>2. \A l \in Lidars : MayBeDue(l) => MayBeDue(l)'
      <4> SUFFICES ASSUME process.at = "timer" PROVE process' = process
        BY DEF MayBeDue
      <4>0. CASE Start
        BY <4>0 DEF PosedInvariant, ConfiguredFirst, Start, AddLidarsExtParam,
           SetPointCloudsCallback, SetImuDataCallback, SetPointCloudConfig
      <4>1. CASE LidarSteps \/ PushRawPacket \/ WaitForNothing \/ CheckQuit \/ Uninit
        BY <4>1 DEF LidarSteps, Tick, OnLivoxLidarPointCloudCallback, LosePacket,
           SwitchClock, Environment, PushRawPacket, WaitForNothing, CheckQuit, Uninit
      <4>2. CASE ImuPusherFinishes \/ ImuPoller \/ Destroy \/ UNCHANGED vars
                 \/ \E l \in Lidars : OnImuPacket(l) \/ StartSampling(l)
        BY <4>2 DEF ImuPusherFinishes, ImuPoller, Destroy, ImuLookIfEmpty, ImuLookAtCount,
           ImuSignal, ImuCheckExit, ImuWait, ImuVisit, ImuPoll, PublishImuData, ImuCheckFuture,
           PollerOnly, frameVars, vars, StartSampling, OnImuPacket, Environment
      <4> QED BY <1>4, <2>4, <4>0, <4>1, <4>2 DEF Next, FrameNext, RawDataProcess
    <3>3. ASSUME NEW l \in Lidars, NEW p \in history'.cut[l]
          PROVE  l \in DOMAIN handlers' => SoFar(l, handlers'[l].points, p, MayBeDue(l)')
      <4>1. p \in history.cut[l]
        BY <2>2
      <4>2. l \in DOMAIN handlers => SoFar(l, handlers[l].points, p, MayBeDue(l))
        BY <4>1 DEF CutInvariant
      <4> QED BY <3>1, <3>2, <4>2 DEF SoFar
    <3>4. ASSUME NEW l \in Lidars, NEW p \in history'.cut[l]
          PROVE  (l \in DOMAIN handlers => SoFar(l, handlers[l].points, p, MayBeDue(l)))'
      BY <3>3 DEF SoFar, TooShort, GaplessSince, AllSynced, MsOf, publish_interval_ms, publish_interval_tolerance
    <3> QED BY <2>1, <2>2, <3>4 DEF CutInvariant
  <2> QED BY <2>3, <2>4
<1> QED
  BY <1>3, <1>4

LEMMA CutInit == Init => CutInvariant
<1> SUFFICES ASSUME Init PROVE CutInvariant
  OBVIOUS
<1>1. history = [cut |-> NoCut, start |-> 0, cuts |-> 0]
  BY DEF Init, FrameInit
<1>2. NoCut \in [Lidars -> SUBSET Point] /\ \A l \in Lidars : NoCut[l] = {}
  BY DEF NoCut
<1> QED
  BY <1>1, <1>2 DEF CutInvariant, CutTypes

-----------------------------------------------------------------------------
\* The thread's invariants together.
LEMMA StreamInductive == Spec => [](PosedInvariant /\ StreamInvariant)
<1>1. PosedInvariant => ProcessOK
  BY DEF PosedInvariant
<1> QED
  BY <1>1, PosedInit, PosedStep, StreamsInit, StreamsStep, PTL DEF Spec

\* A synchronised lidar's frames are cut before the millisecond one interval after
\* the last is over, unless a packet is lost (CheckTimer), for any lidars, number
\* of echoes and interval, a whole number of milliseconds or not, as long as a
\* packet's points span no more than the tolerance leaves of the interval.
THEOREM FramesAreOnTime == ASSUME PacketsAreShort PROVE Spec => []FramesOnTime
<1>2. Spec => []CutInvariant
  BY StreamInductive, CutInit, CutStep, PTL DEF Spec
<1>3. StreamInvariant /\ CutInvariant => FramesOnTime
  <2> SUFFICES ASSUME StreamInvariant, CutInvariant, process.at # "timer", NEW l \in WithPoints, NEW p \in history.cut[l],
                      AllSynced(handlers[l].points), GaplessSince(l, handlers[l].points, p)
               PROVE  MsOf(GetRecentTimeStamp(handlers[l].points)) <= MsOf(p.stamp) + publish_interval_ms
    BY DEF FramesOnTime
  <2>1. l \in DOMAIN handlers /\ handlers[l].points # <<>>
    BY DEF WithPoints
  <2>2. l \in Lidars
    BY <2>1 DEF StreamInvariant, BufferTypes
  <2>3. SoFar(l, handlers[l].points, p, MayBeDue(l)) /\ ~MayBeDue(l)
    BY <2>1, <2>2 DEF CutInvariant, MayBeDue
  <2> QED BY <2>1, <2>3 DEF SoFar, GetRecentTimeStamp
<1> QED
  BY <1>2, <1>3, StreamInductive, PTL

-----------------------------------------------------------------------------
(***************************************************************************)
(* Types, and what the messages say.                                       *)
(***************************************************************************)
SignalsAtZero == imu_pusher.at = "signal" => imu_semaphore = 0

LEMMA ImuTypesStep ==
  ASSUME ImuTypeOK, SignalsAtZero, ImuOrder', [Next]_vars
  PROVE  ImuTypeOK' /\ SignalsAtZero'
<1> USE DEF ImuTypeOK, SignalsAtZero
<1>1. imu_data' \in [Lidars -> Seq(ImuPackets)] /\ imu_published' \in [Lidars -> SUBSET ImuPackets]
  BY DEF ImuOrder
<1>2. CASE UNCHANGED <<connect_state, imu_semaphore, imu_pusher, imu_poller, request_exit, imu_fresh>>
  BY <1>1, <1>2
<1>3. ASSUME NEW l \in Lidars, OnImuPacket(l) PROVE ImuTypeOK' /\ SignalsAtZero'
  <2>1. /\ UNCHANGED <<connect_state, imu_semaphore, imu_poller, request_exit>>
        /\ imu_pusher' = imu_pusher \/ imu_pusher' = [at |-> "pushed", lidar |-> {l}]
        /\ imu_fresh' \subseteq imu_fresh
    BY <1>3 DEF OnImuPacket
  <2> QED
    BY <1>1, <2>1
<1>4. ASSUME NEW l \in Lidars, StartSampling(l) PROVE ImuTypeOK' /\ SignalsAtZero'
  <2>1. /\ connect_state' = [connect_state EXCEPT ![l] = "sampling"]
        /\ imu_fresh' = imu_fresh \union {l}
        /\ UNCHANGED <<imu_semaphore, imu_pusher, imu_poller, request_exit>>
    BY <1>4 DEF StartSampling
  <2> QED
    BY <1>1, <2>1
<1>5. CASE ImuPusherFinishes
  <2>1. UNCHANGED <<connect_state, imu_poller, request_exit, imu_fresh>>
    BY <1>5 DEF ImuPusherFinishes, ImuLookIfEmpty, ImuLookAtCount, ImuSignal, PusherOnly
  <2>2. imu_pusher' \in [at : {"idle", "pushed", "count", "signal"}, lidar : SUBSET Lidars]
    BY <1>5 DEF ImuPusherFinishes, ImuLookIfEmpty, ImuLookAtCount, ImuSignal, ImuIdle
  <2>3. imu_semaphore' \in 0 .. 1 /\ SignalsAtZero'
    BY <1>5 DEF ImuPusherFinishes, ImuLookIfEmpty, ImuLookAtCount, ImuSignal, ImuIdle
  <2> QED
    BY <1>1, <2>1, <2>2, <2>3
<1>6. CASE ImuPoller
  <2>1. UNCHANGED <<connect_state, imu_pusher, request_exit>> /\ imu_fresh' \subseteq imu_fresh
    BY <1>6 DEF ImuPoller, ImuCheckExit, ImuWait, ImuVisit, ImuPoll, PublishImuData,
       ImuCheckFuture, PollerOnly
  <2>2. imu_semaphore' \in 0 .. 1 /\ imu_semaphore' <= imu_semaphore
    BY <1>6 DEF ImuPoller, ImuCheckExit, ImuWait, ImuVisit, ImuPoll, PublishImuData, ImuCheckFuture
  <2>3. DOMAIN lidars_ = 1 .. Len(lidars_) /\ Len(lidars_) \in Nat \ {0}
    BY ImuAssumption
  <2>4. ImuNextLidar => imu_poller' \in [at : {"visit", "future"}, index : DOMAIN lidars_]
    BY <2>3 DEF ImuNextLidar
  <2>5. imu_poller' \in [at : {"check", "wait", "visit", "poll", "pop", "future", "ended"},
                         index : DOMAIN lidars_]
    BY <1>6, <2>3, <2>4 DEF ImuPoller, ImuCheckExit, ImuWait, ImuVisit, ImuPoll, PublishImuData,
       ImuCheckFuture, ImuPollerGoes
  <2> QED
    BY <1>1, <2>1, <2>2, <2>5
<1>7. CASE Destroy
  BY <1>1, <1>7 DEF Destroy
<1>8. CASE UNCHANGED imuVars
  BY <1>2, <1>8 DEF imuVars
<1> QED
  BY <1>3, <1>4, <1>5, <1>6, <1>7, <1>8 DEF Next, vars

LEMMA ImuTypesInit == Init => ImuTypeOK /\ SignalsAtZero
<1> SUFFICES ASSUME Init PROVE ImuTypeOK /\ SignalsAtZero
  OBVIOUS
<1>1. imu_data \in [Lidars -> Seq(ImuPackets)] /\ imu_published \in [Lidars -> SUBSET ImuPackets]
  BY ImuOrderInit DEF ImuOrder
<1>2. 1 \in DOMAIN lidars_
  BY ImuAssumption
<1> QED
  BY <1>1, <1>2 DEF Init, ImuTypeOK, SignalsAtZero, ImuIdle

LEMMA FrameTypes ==
  ASSUME PosedInvariant, StreamInvariant, ClockInvariant
  PROVE  FrameTypeOK
<1>1. /\ left.packets \in [Lidars -> Nat]
      /\ {left.losses, left.delays, left.switches, now, last_pub_time} \subseteq Nat
  BY DEF StreamInvariant, StreamTypes, Load, ClockInvariant
<1>2. Cardinality(sdk) <= 1
  <2>1. CASE sdk = {}
    BY <2>1, FS_EmptySet
  <2>2. CASE sdk # {}
    <3>1. PICK packet \in sdk : sdk = {packet}
      BY <2>2 DEF StreamInvariant, StreamTypes
    <3>2. Cardinality({packet}) = 1
      BY FS_Singleton
    <3> QED
      BY <3>1, <3>2
  <2> QED
    BY <2>1, <2>2
<1>3. ASSUME NEW l \in DOMAIN handlers PROVE IsInjective(handlers[l].points)
  BY <1>3 DEF StreamInvariant, StreamsInOrder, InOrder, IsInjective
<1>4. startup \in {"configs", "observed", "imu", "running"}
  BY DEF PosedInvariant, ConfiguredFirst
<1> QED
  BY <1>1, <1>2, <1>3, <1>4 DEF FrameTypeOK, StreamInvariant, StreamTypes, BufferTypes

\* The points of a frame are at most so far after its first one that the offsets
\* of a custom message hold their distance: in nanoseconds, a little over 4 s.
FramesAreShort ==
  \A l \in DOMAIN frame :
    LET points == frame[l].points
    IN  \A k \in DOMAIN points : points[k].stamp < points[1].stamp + 2 ^ OffsetBits

\* The nearest double is at most half a step away.
LEMMA DoubleIsNear ==
  ASSUME NEW s \in Nat
  PROVE  /\ 2 * (Double(s) - s) <= DoubleStep
         /\ 2 * (s - Double(s)) <= DoubleStep
<1>1. PICK m \in Nat \ {0} : m = DoubleStep
  BY PubAssumption
<1>2. s % m \in 0 .. m - 1
  BY SMT
<1>3. PICK over \in 0 .. m - 1 : over = s % m
  BY <1>2
<1>4. CASE 2 * over > m \/ (2 * over = m /\ (s \div m) % 2 = 1)
  <2>1. Double(s) = s - over + m
    BY <1>1, <1>3, <1>4 DEF Double
  <2> QED BY <1>1, <1>4, <2>1
<1>5. CASE ~(2 * over > m \/ (2 * over = m /\ (s \div m) % 2 = 1))
  <2>1. Double(s) = s - over
    BY <1>1, <1>3, <1>5 DEF Double
  <2>2. 2 * over <= m
    BY <1>5
  <2> QED BY <1>1, <2>1, <2>2
<1> QED
  BY <1>4, <1>5

LEMMA MessagesOfShortFrames ==
  ASSUME StreamInvariant, FramesAreShort
  PROVE  MessagesAgree
<1> SUFFICES ASSUME NEW l \in DOMAIN frame,
                    NEW k \in DOMAIN frame[l].points, CanTell(frame[l], k)
             PROVE  LET custom == CustomMsg(frame[l])
                        double == PointCloud2Msg(frame[l]).timestamp
                    IN  /\ TimeIn(custom, k) = frame[l].points[k].stamp
                        /\ 2 * (double[k] - TimeIn(custom, k)) <= DoubleStep
                        /\ 2 * (TimeIn(custom, k) - double[k]) <= DoubleStep
  <2>1. \A f : DOMAIN PointCloud2Msg(f).timestamp = DOMAIN f.points
    BY DEF PointCloud2Msg
  <2> QED BY <2>1 DEF MessagesAgree
<1> DEFINE points == frame[l].points
           base   == frame[l].base_time
<1>0. /\ k \in DOMAIN points
      /\ CustomMsg(frame[l]).timebase = base
      /\ CustomMsg(frame[l]).offset_time[k] = Difference(points[k].stamp, base) % 2 ^ OffsetBits
      /\ PointCloud2Msg(frame[l]).timestamp[k] = Double(points[k].stamp)
  BY DEF CustomMsg, PointCloud2Msg
<1>1. /\ points \in Seq(Point) /\ InOrder(points)
      /\ base = GetLidarBaseTime(points)
  BY DEF StreamInvariant, BufferTypes, StreamsInOrder
<1>2. 1 \in DOMAIN points /\ base = points[1].stamp
  <2> HIDE DEF points
  <2>1. points # <<>> /\ 1 \in DOMAIN points /\ Head(points) = points[1]
    BY <1>0, <1>1
  <2> QED
    BY <1>1, <2>1 DEF GetLidarBaseTime
<1>3. points[1] \in Point /\ points[k] \in Point
  BY <1>0, <1>1, <1>2
<1>4. PICK a \in Nat, b \in Nat, i \in Nat, j \in Nat :
        a = points[1].stamp /\ b = points[k].stamp /\ i = points[1].id[1] /\ j = points[k].id[1]
  BY <1>3 DEF Point
<1>5. a <= b
  <2>1. /\ i <= j
        /\ ~points[1].synced /\ ~points[k].synced => a <= b
        /\ points[1].synced => a = i + SensorAhead
        /\ points[k].synced => b = j + SensorAhead
    BY <1>0, <1>1, <1>2, <1>4 DEF InOrder, NotAfter
  <2>2. (points[1].synced = points[k].synced) \/ a <= b
    <3>1. CASE OneClock(points)
      BY <1>0, <1>2, <3>1 DEF OneClock
    <3>2. CASE ~OneClock(points)
      BY <1>2, <1>4, <3>2 DEF CanTell
    <3> QED
      BY <3>1, <3>2
  <2>3. SensorAhead \in Nat
    BY PubAssumption
  <2>4. CASE points[1].synced = points[k].synced /\ points[1].synced
    <3>1. a = i + SensorAhead /\ b = j + SensorAhead /\ i <= j
      BY <2>1, <2>4
    <3> QED
      BY <2>3, <3>1
  <2>5. CASE points[1].synced = points[k].synced /\ ~points[1].synced
    BY <2>1, <2>5
  <2> QED
    BY <2>2, <2>4, <2>5
<1>6. b < a + 2 ^ OffsetBits
  BY <1>0, <1>4 DEF FramesAreShort
<1>7. Difference(b, a) % 2 ^ OffsetBits = b - a
  <2>1. PICK m \in Nat \ {0}, n \in Nat \ {0} : m = 2 ^ OffsetBits /\ n = 2 ^ StampBits /\ m <= n
    BY PubAssumption
  <2>2. b - a \in 0 .. m - 1 /\ b - a \in 0 .. n - 1
    BY <1>5, <1>6, <2>1
  <2>3. (b - a) % n = b - a
    BY <2>2, ModIs
  <2>4. (b - a) % m = b - a
    BY <2>2, ModIs
  <2> QED
    BY <2>1, <2>3, <2>4 DEF Difference
<1>8. base = a /\ points[k].stamp = b /\ a + (b - a) = b
  BY <1>2, <1>4
<1> HIDE DEF base
<1>9. TimeIn(CustomMsg(frame[l]), k) = b
  BY <1>0, <1>7, <1>8 DEF TimeIn
<1>10. PointCloud2Msg(frame[l]).timestamp[k] = Double(b)
  BY <1>0, <1>8
<1> QED
  BY <1>8, <1>9, <1>10, DoubleIsNear

\* The state has its types: the IMU semaphore never counts past one (its count is
\* read before it is raised), and no point lies in a buffer twice.
THEOREM StreamsAreTyped == Spec => []TypeOK
<1>1. Spec => [](ImuShapes /\ ImuOrder)
  <2>1. WakeupInvariant => ImuShapes
    BY DEF WakeupInvariant
  <2>2. ImuShapes /\ ImuOrder /\ [Next]_vars => ImuOrder'
    BY ImuOrderStep
  <2> QED
    BY <2>1, <2>2, WakeupInit, WakeupStep, ImuOrderInit, PTL DEF Spec
<1>2. ImuTypeOK /\ SignalsAtZero /\ ImuOrder' /\ [Next]_vars => ImuTypeOK' /\ SignalsAtZero'
  BY ImuTypesStep
<1>3. Spec => []ImuTypeOK
  BY <1>1, <1>2, ImuTypesInit, PTL DEF Spec
<1>4. PosedInvariant /\ StreamInvariant /\ ClockInvariant => FrameTypeOK
  BY FrameTypes
<1> QED
  BY <1>3, <1>4, ClockHolds, StreamInductive, PTL DEF TypeOK

\* Of each point of a frame of one clock, and of the points of a frame of two that
\* are not before its base time, the custom message (InitCustomMsg) says exactly
\* when it was measured, and the PointCloud2 (InitPointcloud2Msg), which has a
\* double there, the same up to half the distance of two doubles: for any lidars,
\* clocks, losses and doubles, as long as no frame spans more than an offset can
\* hold.
THEOREM MessagesStaySound == Spec /\ []FramesAreShort => []StreamsAreSound
<1>1. StreamInvariant /\ FramesAreShort => MessagesAgree
  BY MessagesOfShortFrames
<1> QED
  BY <1>1, StreamInductive, StreamsAreTyped, PTL DEF StreamsAreSound

-----------------------------------------------------------------------------
(***************************************************************************)
(* The queue as a stream of points.  Entries of s spread out: each is w    *)
(* long, and g says what it is made of.                                    *)
(***************************************************************************)
Spread(s, w, g) == [k \in 1 .. Len(s) * w |-> g[s[((k - 1) \div w) + 1]][((k - 1) % w) + 1]]

\* A place is in one entry.
LEMMA PlaceOf ==
  ASSUME NEW w \in Nat \ {0}, NEW n \in Nat, NEW k \in 1 .. n * w
  PROVE  /\ (k - 1) \div w \in 0 .. n - 1 /\ (k - 1) % w \in 0 .. w - 1
         /\ k - 1 = ((k - 1) \div w) * w + ((k - 1) % w)
<1> DEFINE q == (k - 1) \div w
           r == (k - 1) % w
<1>1. n * w \in Nat
  BY SMT
<1>2. k - 1 \in Nat /\ k - 1 < n * w
  BY <1>1
<1>3. q \in Int /\ r \in 0 .. w - 1 /\ k - 1 = q * w + r
  BY <1>2, SMT
<1>4. q >= 0
  BY <1>2, SMT
<1> HIDE DEF q, r
<1>5. q * w < n * w
  <2>1. q * w \in Int
    BY <1>3
  <2> QED
    BY <1>1, <1>2, <1>3, <2>1
<1>6. q < n
  <2> SUFFICES ASSUME n <= q PROVE FALSE
    BY <1>3
  <2>1. (q - n) * w >= 0
    BY <1>3, SMT
  <2>2. (q - n) * w = q * w - n * w
    BY <1>3, SMT
  <2>3. q * w \in Int
    BY <1>3
  <2> QED
    BY <1>1, <1>5, <2>1, <2>2, <2>3
<1>7. q \in 0 .. n - 1
  BY <1>3, <1>4, <1>6
<1> QED
  BY <1>3, <1>7 DEF q, r

LEMMA PlaceIs ==
  ASSUME NEW w \in Nat \ {0}, NEW n \in Nat, NEW r \in 0 .. w - 1, NEW a \in Int, a = n * w + r
  PROVE  a \div w = n /\ a % w = r
<1>1. a % w = r
  BY ModIs
<1> DEFINE q == a \div w
<1>2. q \in Int /\ a = q * w + (a % w)
  BY SMT
<1> HIDE DEF q
<1>3. (q - n) * w = 0
  <2>1. q * w = n * w /\ q * w \in Int /\ n * w \in Int
    BY <1>1, <1>2
  <2>2. (q - n) * w = q * w - n * w
    BY <1>2, SMT
  <2> QED
    BY <2>1, <2>2
<1>4. q = n
  BY <1>2, <1>3, SMT
<1> QED
  BY <1>1, <1>4 DEF q

LEMMA FirstPlace ==
  ASSUME NEW w \in Nat \ {0}, NEW r \in 0 .. w - 1
  PROVE  r \div w = 0 /\ r % w = r
<1>1. PICK n \in Nat : n = 0
  OBVIOUS
<1>2. n * w = 0
  BY <1>1, SMT
<1>3. r = n * w + r /\ r \in Int
  BY <1>2
<1>4. r \div w = n /\ r % w = r
  BY <1>3, PlaceIs
<1> QED
  BY <1>1, <1>4

LEMMA SpreadOfNone ==
  ASSUME NEW w \in Nat, NEW g
  PROVE  Spread(<<>>, w, g) = <<>>
<1>1. Len(<<>>) * w = 0
  BY SMT
<1> QED
  BY <1>1 DEF Spread

\* One entry.
LEMMA SpreadOfOne ==
  ASSUME NEW T, NEW X, NEW w \in Nat, NEW g \in [T -> Seq(X)], NEW e \in T, Len(g[e]) = w
  PROVE  Spread(<<e>>, w, g) = g[e]
<1>1. g[e] \in Seq(X) /\ DOMAIN g[e] = 1 .. w
  OBVIOUS
<1>2. g[e] = [k \in 1 .. w |-> g[e][k]]
  BY <1>1
<1>3. Len(<<e>>) * w = w
  BY SMT
<1> DEFINE F(k) == g[<<e>>[((k - 1) \div w) + 1]][((k - 1) % w) + 1]
<1>4. ASSUME NEW k \in 1 .. w
      PROVE  F(k) = g[e][k]
  <2>1. w \in Nat \ {0} /\ k - 1 \in 0 .. w - 1
    OBVIOUS
  <2>2. (k - 1) \div w = 0 /\ (k - 1) % w = k - 1
    BY <2>1, FirstPlace
  <2>3. <<e>>[0 + 1] = e /\ (k - 1) + 1 = k
    OBVIOUS
  <2> QED
    BY <2>2, <2>3
<1>5. Spread(<<e>>, w, g) = [k \in 1 .. w |-> F(k)]
  BY <1>3 DEF Spread
<1> HIDE DEF F
<1> QED
  BY <1>2, <1>4, <1>5

\* A sequence from its entries.
LEMMA SeqByEntries ==
  ASSUME NEW X, NEW n \in Nat, NEW f \in [1 .. n -> X]
  PROVE  f \in Seq(X) /\ Len(f) = n
OBVIOUS

\* Two lists of entries.
Even(T, X, w, g) == w \in Nat /\ g \in [T -> Seq(X)] /\ \A e \in T : Len(g[e]) = w

LEMMA SpreadOfConcat ==
  ASSUME NEW T, NEW X, NEW w, NEW g, Even(T, X, w, g), NEW s \in Seq(T), NEW t \in Seq(T)
  PROVE  /\ Spread(s, w, g) \in Seq(X) /\ Spread(t, w, g) \in Seq(X)
         /\ Spread(s \o t, w, g) = Spread(s, w, g) \o Spread(t, w, g)
<1>0. w \in Nat /\ g \in [T -> Seq(X)] /\ \A e \in T : Len(g[e]) = w
  BY DEF Even
<1> USE <1>0
<1>1. PICK n \in Nat, m \in Nat : n = Len(s) /\ m = Len(t)
  OBVIOUS
<1>2. PICK a \in Nat, b \in Nat : a = n * w /\ b = m * w
  <2>1. n * w \in Nat /\ m * w \in Nat
    BY SMT
  <2> QED
    BY <2>1
<1>3. (n + m) * w = a + b
  BY <1>2, SMT
<1>4. PICK u \in Seq(T) : u = s \o t
  BY ConcatProperties
<1>5. Len(u) = n + m /\ (\A i \in 1 .. n : u[i] = s[i]) /\ \A i \in 1 .. m : u[n + i] = t[i]
  BY <1>1, <1>4
<1>6. CASE w = 0
  <2>1. a = 0 /\ b = 0
    BY <1>2, <1>6, SMT
  <2>2. Len(u) * w = 0 /\ Len(s) * w = 0 /\ Len(t) * w = 0
    BY <1>1, <1>2, <1>3, <1>5, <2>1
  <2>3. Spread(u, w, g) = <<>> /\ Spread(s, w, g) = <<>> /\ Spread(t, w, g) = <<>>
    BY <2>2 DEF Spread
  <2> QED
    BY <1>4, <2>3
<1>7. CASE w # 0
  <2>1. w \in Nat \ {0}
    BY <1>7
  <2> DEFINE At(v, k) == g[v[((k - 1) \div w) + 1]][((k - 1) % w) + 1]
  <2>2. ASSUME NEW k \in 1 .. a
        PROVE  At(s, k) \in X /\ At(u, k) = At(s, k)
    <3>1. PICK i \in 0 .. n - 1, r \in 0 .. w - 1 : i = (k - 1) \div w /\ r = (k - 1) % w
      BY <1>2, <2>1, PlaceOf
    <3>2. i + 1 \in 1 .. n /\ r + 1 \in 1 .. w
      OBVIOUS
    <3>3. s[i + 1] \in T /\ u[i + 1] = s[i + 1]
      <4>1. u[i + 1] = s[i + 1] /\ i + 1 \in 1 .. Len(s)
        BY <1>1, <1>5, <3>2
      <4>2. s[i + 1] \in T
        BY <4>1
      <4> QED
        BY <4>1, <4>2
    <3>4. g[s[i + 1]] \in Seq(X) /\ Len(g[s[i + 1]]) = w
      BY <1>0, <3>3
    <3>5. g[s[i + 1]][r + 1] \in X
      BY <3>2, <3>4
    <3> QED
      BY <3>1, <3>3, <3>5
  <2>3. ASSUME NEW k \in 1 .. b
        PROVE  At(t, k) \in X /\ At(u, a + k) = At(t, k)
    <3>0. /\ (k - 1) \div w \in 0 .. m - 1 /\ (k - 1) % w \in 0 .. w - 1
          /\ k - 1 = ((k - 1) \div w) * w + ((k - 1) % w)
      BY <1>2, <2>1, PlaceOf
    <3>1. PICK i \in 0 .. m - 1, r \in 0 .. w - 1 :
            i = (k - 1) \div w /\ r = (k - 1) % w /\ k - 1 = i * w + r
      <4> DEFINE q == (k - 1) \div w
                 p == (k - 1) % w
      <4>1. q \in 0 .. m - 1 /\ p \in 0 .. w - 1 /\ k - 1 = q * w + p
        BY <3>0
      <4> HIDE DEF q, p
      <4>2. \E i \in 0 .. m - 1, r \in 0 .. w - 1 : i = q /\ r = p /\ k - 1 = i * w + r
        BY <4>1
      <4> QED
        BY <4>2 DEF q, p
    <3>2. i + 1 \in 1 .. m /\ r + 1 \in 1 .. w
      OBVIOUS
    <3>3. t[i + 1] \in T /\ u[n + i + 1] = t[i + 1]
      <4>1. n + (i + 1) = n + i + 1
        OBVIOUS
      <4>2. u[n + (i + 1)] = t[i + 1] /\ i + 1 \in 1 .. Len(t)
        BY <1>1, <1>5, <3>2
      <4>3. t[i + 1] \in T
        BY <4>2
      <4> QED
        BY <4>1, <4>2, <4>3
    <3>4. g[t[i + 1]] \in Seq(X) /\ Len(g[t[i + 1]]) = w
      BY <1>0, <3>3
    <3>5. g[t[i + 1]][r + 1] \in X
      BY <3>2, <3>4
    <3>6. (a + k) - 1 = (n + i) * w + r /\ (a + k) - 1 \in Int /\ n + i \in Nat
      <4>1. (n + i) * w = n * w + i * w /\ i * w \in Int /\ (n + i) * w \in Int
        BY SMT
      <4>2. PICK p \in Int, q \in Int : p = i * w /\ q = (n + i) * w
        BY <4>1
      <4>3. q = a + p /\ k - 1 = p + r
        BY <1>2, <3>1, <4>1, <4>2
      <4>4. (a + k) - 1 = q + r /\ (a + k) - 1 \in Int /\ n + i \in Nat
        BY <4>3
      <4> QED
        BY <4>2, <4>4
    <3>7. ((a + k) - 1) \div w = n + i /\ ((a + k) - 1) % w = r
      BY <2>1, <3>6, PlaceIs
    <3> QED
      BY <3>1, <3>3, <3>5, <3>7
  <2> HIDE DEF At
  <2>4. PICK x \in Seq(X) : x = Spread(s, w, g) /\ Len(x) = a /\ \A k \in 1 .. a : x[k] = At(s, k)
    <3>1. Spread(s, w, g) = [k \in 1 .. a |-> At(s, k)]
      BY <1>1, <1>2 DEF Spread, At
    <3>2. PICK f : f = [k \in 1 .. a |-> At(s, k)]
      OBVIOUS
    <3>3. f \in [1 .. a -> X] /\ \A k \in 1 .. a : f[k] = At(s, k)
      BY <2>2, <3>2
    <3>4. f \in Seq(X) /\ Len(f) = a
      BY <3>3, SeqByEntries
    <3> QED
      BY <3>1, <3>2, <3>3, <3>4
  <2>5. PICK y \in Seq(X) : y = Spread(t, w, g) /\ Len(y) = b /\ \A k \in 1 .. b : y[k] = At(t, k)
    <3>1. Spread(t, w, g) = [k \in 1 .. b |-> At(t, k)]
      BY <1>1, <1>2 DEF Spread, At
    <3>2. PICK f : f = [k \in 1 .. b |-> At(t, k)]
      OBVIOUS
    <3>3. f \in [1 .. b -> X] /\ \A k \in 1 .. b : f[k] = At(t, k)
      BY <2>3, <3>2
    <3>4. f \in Seq(X) /\ Len(f) = b
      BY <3>3, SeqByEntries
    <3> QED
      BY <3>1, <3>2, <3>3, <3>4
  <2>6. Spread(u, w, g) = [k \in 1 .. a + b |-> At(u, k)]
    BY <1>3, <1>5 DEF Spread, At
  <2>7. ASSUME NEW k \in 1 .. a + b
        PROVE  At(u, k) = IF k <= a THEN x[k] ELSE y[k - a]
    <3>1. CASE k <= a
      BY <2>2, <2>4, <3>1
    <3>2. CASE ~(k <= a)
      <4>1. k - a \in 1 .. b /\ a + (k - a) = k
        BY <3>2
      <4>2. At(u, a + (k - a)) = At(t, k - a)
        BY <2>3, <4>1
      <4> QED
        BY <2>5, <3>2, <4>1, <4>2
    <3> QED
      BY <3>1, <3>2
  <2>8. PICK z \in Seq(X) : z = x \o y
    BY ConcatProperties
  <2>9. Len(z) = a + b /\ \A k \in 1 .. a + b : z[k] = IF k <= a THEN x[k] ELSE y[k - a]
    <3>1. Len(x) = a /\ Len(y) = b
      BY <2>4, <2>5
    <3>2. Len(z) = Len(x) + Len(y)
      BY <2>8
    <3>3. \A k \in 1 .. Len(x) + Len(y) : z[k] = IF k <= Len(x) THEN x[k] ELSE y[k - Len(x)]
      BY <2>8
    <3> QED
      BY <3>1, <3>2, <3>3
  <2>10. z = [k \in 1 .. a + b |-> At(u, k)]
    <3>1. DOMAIN z = 1 .. a + b /\ z = [k \in DOMAIN z |-> z[k]]
      BY <2>9
    <3>2. \A k \in 1 .. a + b : z[k] = At(u, k)
      BY <2>7, <2>9
    <3> QED
      BY <3>1, <3>2
  <2> QED
    BY <1>4, <2>4, <2>5, <2>6, <2>8, <2>10
<1> QED
  BY <1>6, <1>7

-----------------------------------------------------------------------------
(***************************************************************************)
(* Points by their place in the stream alone.                              *)
(***************************************************************************)
PointId == Nat \X Nat

IdOf == [point \in Point |-> point.id]

LEMMA IdsAreMapped ==
  ASSUME NEW q \in Seq(Point)
  PROVE  IdsOf(q) = Mapped(q, IdOf)
<1>1. \A k \in DOMAIN q : q[k] \in Point
  OBVIOUS
<1> QED
  BY <1>1 DEF IdsOf, Mapped, IdOf

LEMMA IdTypes == IdOf \in [Point -> PointId]
  BY DEF IdOf, Point, PointId

LEMMA IdsType ==
  ASSUME NEW q \in Seq(Point)
  PROVE  IdsOf(q) \in Seq(PointId) /\ Len(IdsOf(q)) = Len(q)
BY IdsAreMapped, IdTypes, MappedIsASeq, MappedLen

LEMMA IdsOfNone == IdsOf(<<>>) = <<>>
  BY DEF IdsOf

LEMMA IdsOfConcat ==
  ASSUME NEW p \in Seq(Point), NEW q \in Seq(Point)
  PROVE  IdsOf(p \o q) = IdsOf(p) \o IdsOf(q)
<1>1. p \o q \in Seq(Point)
  BY ConcatProperties
<1>2. Mapped(p \o q, IdOf) = Mapped(p, IdOf) \o Mapped(q, IdOf)
  BY IdTypes, MappedOfConcat
<1> QED
  BY <1>1, <1>2, IdsAreMapped

-----------------------------------------------------------------------------
\* What a packet has of points, before and after the extrinsics.
PacketIds(packet) == IdsOf(PointsOf(packet, FALSE))

LEMMA PosedOrNot ==
  ASSUME NEW packet \in Packet, NEW posed \in BOOLEAN
  PROVE  IdsOf(PointsOf(packet, posed)) = PacketIds(packet)
BY DEF IdsOf, PointsOf, PacketIds

LEMMA PacketIdsType ==
  ASSUME NEW packet \in Packet
  PROVE  PacketIds(packet) \in Seq(PointId) /\ Len(PacketIds(packet)) = PointNum * Echoes[packet.lidar]
<1>1. PICK q \in Seq(Point) : q = PointsOf(packet, FALSE) /\ Len(q) = PointNum * Echoes[packet.lidar]
  BY PacketPoints
<1> QED
  BY <1>1, IdsType DEF PacketIds

-----------------------------------------------------------------------------
\* What a queue has of points of l.
OfLidar(l) == {packet \in Packet : packet.lidar = l}

IdsIn(l) == [packet \in OfLidar(l) |-> PacketIds(packet)]

Width(l) == PointNum * Echoes[l]

QueueIds(queue, l) == Spread(Kept(queue, OfLidar(l)), Width(l), IdsIn(l))

LEMMA WidthIsNat == ASSUME NEW l \in Lidars PROVE Width(l) \in Nat
<1>1. PointNum \in Nat /\ Echoes[l] \in Nat
  BY PubAssumption
<1> QED
  BY <1>1, SMT DEF Width

LEMMA IdsInType ==
  ASSUME NEW l \in Lidars
  PROVE  /\ IdsIn(l) \in [OfLidar(l) -> Seq(PointId)]
         /\ \A packet \in OfLidar(l) : Len(IdsIn(l)[packet]) = Width(l)
<1>1. ASSUME NEW packet \in OfLidar(l)
      PROVE  PacketIds(packet) \in Seq(PointId) /\ Len(PacketIds(packet)) = Width(l)
  <2>1. packet \in Packet /\ packet.lidar = l
    BY DEF OfLidar
  <2> QED
    BY <2>1, PacketIdsType DEF Width
<1> QED
  BY <1>1 DEF IdsIn

LEMMA KeptOfLidar ==
  ASSUME NEW l \in Lidars, NEW queue \in Seq(Packet)
  PROVE  Kept(queue, OfLidar(l)) \in Seq(OfLidar(l))
<1>1. Packet \intersect OfLidar(l) = OfLidar(l)
  BY DEF OfLidar
<1>2. Kept(queue, OfLidar(l)) \in Seq(Packet \intersect OfLidar(l))
  BY KeptEntries
<1> QED
  BY <1>1, <1>2

LEMMA QueueIdsType ==
  ASSUME NEW l \in Lidars, NEW queue \in Seq(Packet)
  PROVE  QueueIds(queue, l) \in Seq(PointId)
<1>1. PICK s \in Seq(OfLidar(l)) : s = Kept(queue, OfLidar(l))
  BY KeptOfLidar
<1>2. Even(OfLidar(l), PointId, Width(l), IdsIn(l))
  BY WidthIsNat, IdsInType DEF Even
<1>3. Spread(s, Width(l), IdsIn(l)) \in Seq(PointId)
  BY <1>2, SpreadOfConcat
<1> QED
  BY <1>1, <1>3 DEF QueueIds

LEMMA QueueIdsOfNone ==
  ASSUME NEW l \in Lidars
  PROVE  QueueIds(<<>>, l) = <<>>
BY KeptOfNothing, SpreadOfNone, WidthIsNat DEF QueueIds

LEMMA QueueIdsOfOne ==
  ASSUME NEW l \in Lidars, NEW packet \in Packet
  PROVE  QueueIds(<<packet>>, l) = IF packet.lidar = l THEN PacketIds(packet) ELSE <<>>
<1>0. <<packet>> \in Seq(Packet)
  OBVIOUS
<1>1. PICK q \in Seq(Packet) : q = <<packet>>
  BY <1>0, Zenon
<1>2. ToSet(q) = {packet}
  BY <1>1 DEF ToSet
<1>3. CASE packet.lidar = l
  <2>1. packet \in OfLidar(l)
    BY <1>3 DEF OfLidar
  <2>2. Kept(q, OfLidar(l)) = q
    BY <1>2, <2>1, KeptAll
  <2>3. IdsIn(l)[packet] = PacketIds(packet)
    BY <2>1 DEF IdsIn
  <2>4. Len(IdsIn(l)[packet]) = Width(l)
    BY <2>1, IdsInType
  <2>5. Spread(<<packet>>, Width(l), IdsIn(l)) = IdsIn(l)[packet]
    BY <2>1, <2>4, WidthIsNat, IdsInType, SpreadOfOne
  <2> QED
    BY <1>1, <1>3, <2>2, <2>3, <2>5 DEF QueueIds
<1>4. CASE packet.lidar # l
  <2>1. ToSet(q) \intersect OfLidar(l) = {}
    BY <1>2, <1>4 DEF OfLidar
  <2>2. Kept(q, OfLidar(l)) = <<>>
    BY <2>1, KeptNone
  <2> QED
    BY <1>1, <1>4, <2>2, SpreadOfNone, WidthIsNat DEF QueueIds
<1> QED
  BY <1>3, <1>4

LEMMA QueueIdsOfConcat ==
  ASSUME NEW l \in Lidars, NEW p \in Seq(Packet), NEW q \in Seq(Packet)
  PROVE  QueueIds(p \o q, l) = QueueIds(p, l) \o QueueIds(q, l)
<1>1. PICK s \in Seq(OfLidar(l)), t \in Seq(OfLidar(l)) :
        s = Kept(p, OfLidar(l)) /\ t = Kept(q, OfLidar(l))
  BY KeptOfLidar
<1>2. Kept(p \o q, OfLidar(l)) = s \o t
  BY <1>1, KeptOfConcat
<1>3. Spread(s \o t, Width(l), IdsIn(l)) = Spread(s, Width(l), IdsIn(l)) \o Spread(t, Width(l), IdsIn(l))
  <2>1. Even(OfLidar(l), PointId, Width(l), IdsIn(l))
    BY WidthIsNat, IdsInType DEF Even
  <2> QED
    BY <2>1, SpreadOfConcat
<1> QED
  BY <1>1, <1>2, <1>3 DEF QueueIds

\* QueuedIds says the same of the queue.
QueuedIdsOf(queue, l) ==
  LET mine  == Kept(queue, {packet \in ToSet(queue) : packet.lidar = l})
      width == PointNum * Echoes[l]
  IN  [k \in 1 .. Len(mine) * width |->
         PointsOf(mine[(k - 1) \div width + 1], FALSE)[((k - 1) % width) + 1].id]

LEMMA QueuedIdsAreSpread ==
  ASSUME NEW l \in Lidars, NEW queue \in Seq(Packet)
  PROVE  QueuedIdsOf(queue, l) = QueueIds(queue, l)
<1>1. PICK S : S = {packet \in ToSet(queue) : packet.lidar = l}
  OBVIOUS
<1>2. \A packet \in ToSet(queue) : packet \in S <=> packet \in OfLidar(l)
  <2>1. ToSet(queue) \subseteq Packet
    BY DEF ToSet
  <2> QED
    BY <1>1, <2>1 DEF OfLidar
<1>3. Kept(queue, S) = Kept(queue, OfLidar(l))
  BY <1>2, KeptAlike
<1>4. PICK s \in Seq(OfLidar(l)) : s = Kept(queue, OfLidar(l))
  BY KeptOfLidar
<1>5. PICK w \in Nat : w = Width(l)
  BY WidthIsNat
<1>6. PICK n \in Nat : n = Len(s)
  BY <1>4
<1> DEFINE A(k) == PointsOf(s[(k - 1) \div w + 1], FALSE)[((k - 1) % w) + 1].id
           B(k) == IdsIn(l)[s[((k - 1) \div w) + 1]][((k - 1) % w) + 1]
<1>7. QueuedIdsOf(queue, l) = [k \in 1 .. n * w |-> A(k)]
  BY <1>1, <1>3, <1>4, <1>5, <1>6 DEF QueuedIdsOf, Width
<1>8. QueueIds(queue, l) = [k \in 1 .. n * w |-> B(k)]
  BY <1>4, <1>5, <1>6 DEF QueueIds, Spread
<1>9. ASSUME NEW k \in 1 .. n * w PROVE A(k) = B(k)
  <2>1. w \in Nat \ {0}
    <3>1. CASE w = 0
      <4>1. n * w = 0
        BY <3>1, SMT
      <4> QED BY <4>1
    <3> QED BY <3>1
  <2>2. PICK i \in 0 .. n - 1, r \in 0 .. w - 1 : i = (k - 1) \div w /\ r = (k - 1) % w
    BY <2>1, PlaceOf
  <2>3. i + 1 \in 1 .. n /\ r + 1 \in 1 .. w
    OBVIOUS
  <2>4. s[i + 1] \in OfLidar(l)
    BY <1>6, <2>3
  <2>5. PICK packet \in OfLidar(l) : packet = s[i + 1]
    BY <2>4
  <2>6. packet \in Packet /\ IdsIn(l)[packet] = IdsOf(PointsOf(packet, FALSE)) /\ Len(IdsIn(l)[packet]) = w
    BY <1>5, <2>5, IdsInType DEF OfLidar, IdsIn, PacketIds
  <2>7. PICK q \in Seq(Point) : q = PointsOf(packet, FALSE)
    BY <2>6, PacketPoints
  <2>8. Len(q) = w
    BY <2>6, <2>7, IdsType
  <2>9. IdsOf(q)[r + 1] = q[r + 1].id
    BY <2>3, <2>8 DEF IdsOf
  <2> QED
    BY <2>2, <2>5, <2>6, <2>7, <2>9
<1> HIDE DEF A, B
<1> QED
  BY <1>7, <1>8, <1>9

-----------------------------------------------------------------------------
\* A lidar's points in its buffer, and in the frame handed over.
IdsAt(f, l) == IF l \in DOMAIN f THEN IdsOf(f[l].points) ELSE <<>>

PendingOf(h, queue, l) == IdsAt(h, l) \o QueueIds(queue, l)

Pending == [l \in Lidars |-> PendingOf(handlers, raw_packet_queue, l)]

Delivered == [l \in Lidars |-> IdsAt(frame, l)]

LEMMA IdsAtType ==
  ASSUME BufferTypes, NEW l \in Lidars
  PROVE  IdsAt(handlers, l) \in Seq(PointId) /\ IdsAt(frame, l) \in Seq(PointId)
<1>1. <<>> \in Seq(PointId)
  OBVIOUS
<1>2. ASSUME l \in DOMAIN handlers PROVE IdsAt(handlers, l) \in Seq(PointId)
  <2>1. handlers[l] \in [points : Seq(Point), is_set_extrinsic_params : BOOLEAN]
    BY <1>2 DEF BufferTypes
  <2>2. handlers[l].points \in Seq(Point)
    BY <2>1
  <2> QED
    BY <1>2, <2>2, IdsType DEF IdsAt
<1>3. ASSUME l \in DOMAIN frame PROVE IdsAt(frame, l) \in Seq(PointId)
  <2>1. frame[l] \in [base_time : Nat, points : Seq(Point)]
    BY <1>3 DEF BufferTypes
  <2>2. frame[l].points \in Seq(Point)
    BY <2>1
  <2> QED
    BY <1>3, <2>2, IdsType DEF IdsAt
<1>4. IdsAt(handlers, l) \in Seq(PointId)
  BY <1>1, <1>2 DEF IdsAt
<1>5. IdsAt(frame, l) \in Seq(PointId)
  BY <1>1, <1>3 DEF IdsAt
<1> QED
  BY <1>4, <1>5

\* They are what FrameStream is told.
LEMMA StreamIsPending ==
  ASSUME StreamTypes
  PROVE  /\ [l \in Lidars |-> IdsOf(HandlerOf(l).points) \o QueuedIds(l)] = Pending
         /\ [l \in Lidars |-> IF l \in DOMAIN frame THEN IdsOf(frame[l].points) ELSE <<>>] = Delivered
<1>1. ASSUME NEW l \in Lidars
      PROVE  IdsOf(HandlerOf(l).points) \o QueuedIds(l) = PendingOf(handlers, raw_packet_queue, l)
  <2>1. IdsOf(HandlerOf(l).points) = IdsAt(handlers, l)
    BY IdsOfNone DEF HandlerOf, NewHandler, IdsAt
  <2>2. QueuedIds(l) = QueuedIdsOf(raw_packet_queue, l)
    BY DEF QueuedIds, QueuedIdsOf
  <2>3. QueuedIds(l) = QueueIds(raw_packet_queue, l)
    BY <2>2, QueuedIdsAreSpread DEF StreamTypes
  <2> QED
    BY <2>1, <2>3 DEF PendingOf
<1>2. [l \in Lidars |-> IdsOf(HandlerOf(l).points) \o QueuedIds(l)] = Pending
  BY <1>1 DEF Pending
<1> QED
  BY <1>2 DEF Delivered, IdsAt

LEMMA StreamIsPendingNext ==
  ASSUME StreamTypes'
  PROVE  /\ [l \in Lidars |-> IdsOf(HandlerOf(l).points) \o QueuedIds(l)]' = Pending'
         /\ [l \in Lidars |-> IF l \in DOMAIN frame THEN IdsOf(frame[l].points) ELSE <<>>]' = Delivered'
<1>1. ASSUME NEW l \in Lidars
      PROVE  (IdsOf(HandlerOf(l).points) \o QueuedIds(l))' = PendingOf(handlers', raw_packet_queue', l)
  <2>1. IdsOf(HandlerOf(l).points)' = IdsAt(handlers', l)
    BY IdsOfNone DEF HandlerOf, NewHandler, IdsAt
  <2>2. QueuedIds(l)' = QueuedIdsOf(raw_packet_queue', l)
    BY DEF QueuedIds, QueuedIdsOf
  <2>3. QueuedIds(l)' = QueueIds(raw_packet_queue', l)
    BY <2>2, QueuedIdsAreSpread DEF StreamTypes
  <2> QED
    BY <2>1, <2>3 DEF PendingOf
<1>2. [l \in Lidars |-> IdsOf(HandlerOf(l).points) \o QueuedIds(l)]' = Pending'
  BY <1>1 DEF Pending
<1> QED
  BY <1>2 DEF Delivered, IdsAt

-----------------------------------------------------------------------------
(***************************************************************************)
(* The steps of the streams.                                               *)
(***************************************************************************)

\* One stream is longer, or just as long.
LEMMA Longer ==
  ASSUME NEW s \in Seq(PointId), NEW t \in Seq(PointId)
  PROVE  s \o t = s \/ IsStrictPrefix(s, s \o t)
<1>1. PICK u \in Seq(PointId) : u = s \o t
  BY ConcatProperties
<1>2. Len(u) = Len(s) + Len(t) /\ \A i \in 1 .. Len(s) : u[i] = s[i]
  BY <1>1
<1>3. SubSeq(s, 1, Len(s)) = SubSeq(u, 1, Len(s)) /\ Len(s) <= Len(u)
  BY <1>2
<1> QED
  BY <1>1, <1>3 DEF IsStrictPrefix, IsPrefix

LEMMA ConcatAssoc ==
  ASSUME NEW X, NEW s \in Seq(X), NEW t \in Seq(X), NEW u \in Seq(X)
  PROVE  (s \o t) \o u = s \o (t \o u)
OBVIOUS

\* PushRawPacket adds to one stream.
LEMMA PushReceives ==
  ASSUME StreamInvariant, PushRawPacket
  PROVE  /\ Delivered' = Delivered
         /\ \E l \in Lidars : /\ Pending'[l] = Pending[l] \/ IsStrictPrefix(Pending[l], Pending'[l])
                              /\ \A m \in Lidars \ {l} : Pending'[m] = Pending[m]
<1>1. PICK packet \in sdk : raw_packet_queue' = Append(raw_packet_queue, packet)
  BY DEF PushRawPacket
<1>2. UNCHANGED <<handlers, frame>>
  BY DEF PushRawPacket, Environment
<1>3. packet \in Packet /\ raw_packet_queue \in Seq(Packet)
  BY DEF StreamInvariant, StreamTypes
<1>4. packet.lidar \in Lidars
  BY <1>3 DEF Packet
<1>5. PICK q \in Seq(Packet) : q = <<packet>>
  <2>1. <<packet>> \in Seq(Packet)
    BY <1>3
  <2> QED BY <2>1, Zenon
<1>6. raw_packet_queue' = raw_packet_queue \o q
  BY <1>1, <1>3, <1>5
<1>7. ASSUME NEW m \in Lidars
      PROVE  /\ m # packet.lidar => PendingOf(handlers', raw_packet_queue', m) = PendingOf(handlers, raw_packet_queue, m)
             /\ m = packet.lidar =>
                  \/ PendingOf(handlers', raw_packet_queue', m) = PendingOf(handlers, raw_packet_queue, m)
                  \/ IsStrictPrefix(PendingOf(handlers, raw_packet_queue, m),
                                    PendingOf(handlers', raw_packet_queue', m))
  <2>1. PICK a \in Seq(PointId), b \in Seq(PointId) :
          a = IdsAt(handlers, m) /\ b = QueueIds(raw_packet_queue, m)
    BY <1>3, IdsAtType, QueueIdsType DEF StreamInvariant
  <2>2. QueueIds(q, m) = IF packet.lidar = m THEN PacketIds(packet) ELSE <<>>
    BY <1>3, <1>5, QueueIdsOfOne
  <2>3. QueueIds(raw_packet_queue', m) = b \o QueueIds(q, m)
    BY <1>3, <1>6, <2>1, QueueIdsOfConcat
  <2>4. IdsAt(handlers', m) = a
    BY <1>2, <2>1
  <2>5. PICK c \in Seq(PointId) : c = QueueIds(q, m)
    BY QueueIdsType
  <2>6. PICK d \in Seq(PointId) : d = a \o b
    BY ConcatProperties
  <2>7. PendingOf(handlers, raw_packet_queue, m) = d
    BY <2>1, <2>6 DEF PendingOf
  <2>8. PendingOf(handlers', raw_packet_queue', m) = a \o (b \o c)
    BY <2>3, <2>4, <2>5 DEF PendingOf
  <2>9. a \o (b \o c) = d \o c
    BY <2>6, ConcatAssoc
  <2>10. d \o c = d \/ IsStrictPrefix(d, d \o c)
    BY Longer
  <2>11. c = <<>> => d \o c = d
    BY ConcatEmptySeq
  <2> QED
    BY <2>2, <2>5, <2>7, <2>8, <2>9, <2>10, <2>11
<1>8. \A m \in Lidars : /\ Pending[m] = PendingOf(handlers, raw_packet_queue, m)
                        /\ Pending'[m] = PendingOf(handlers', raw_packet_queue', m)
  BY DEF Pending
<1>9. Delivered' = Delivered
  BY <1>2 DEF Delivered
<1> QED
  BY <1>4, <1>7, <1>8, <1>9

\* TakePacket moves points within a stream.
LEMMA TakeMovesOn ==
  ASSUME StreamInvariant, TakePacket
  PROVE  UNCHANGED <<Pending, Delivered>>
<1>1. raw_packet_queue \in Seq(Packet) /\ raw_packet_queue # <<>> /\ raw_packet_queue' = Tail(raw_packet_queue)
  BY DEF StreamInvariant, StreamTypes, TakePacket
<1>2. PICK packet \in Packet, rest \in Seq(Packet) :
        packet = Head(raw_packet_queue) /\ rest = Tail(raw_packet_queue)
  BY <1>1
<1>3. PICK posed \in BOOLEAN, a \in Seq(Point) :
        /\ packet.lidar \in Lidars
        /\ packet.lidar \in DOMAIN handlers => a = handlers[packet.lidar].points
        /\ packet.lidar \notin DOMAIN handlers => a = <<>>
        /\ DOMAIN handlers' = DOMAIN handlers \union {packet.lidar}
        /\ handlers'[packet.lidar] = [points |-> a \o PointsOf(packet, posed), is_set_extrinsic_params |-> posed]
        /\ \A m \in DOMAIN handlers \ {packet.lidar} : handlers'[m] = handlers[m]
        /\ frame' = frame
  <2>1. BufferTypes
    BY DEF StreamInvariant
  <2> QED
    BY <1>2, <2>1, TakenPoints
<1>4. PICK q \in Seq(Packet) : q = <<packet>>
  <2>1. <<packet>> \in Seq(Packet)
    OBVIOUS
  <2> QED BY <2>1, Zenon
<1>5. raw_packet_queue = q \o rest
  BY <1>1, <1>2, <1>4
<1>6. ASSUME NEW m \in Lidars
      PROVE  PendingOf(handlers', raw_packet_queue', m) = PendingOf(handlers, raw_packet_queue, m)
  <2>1. QueueIds(raw_packet_queue, m) = QueueIds(q, m) \o QueueIds(rest, m)
    BY <1>5, QueueIdsOfConcat
  <2>2. QueueIds(q, m) = IF packet.lidar = m THEN PacketIds(packet) ELSE <<>>
    BY <1>4, QueueIdsOfOne
  <2>3. PICK a0 \in Seq(PointId), b \in Seq(PointId), c \in Seq(PointId) :
          a0 = IdsAt(handlers, m) /\ b = QueueIds(q, m) /\ c = QueueIds(rest, m)
    BY IdsAtType, QueueIdsType DEF StreamInvariant
  <2>4. IdsAt(handlers', m) = a0 \o b
    <3>1. CASE m = packet.lidar
      <4>1. handlers'[m].points = a \o PointsOf(packet, posed) /\ m \in DOMAIN handlers'
        BY <1>3, <3>1
      <4>2. PICK p \in Seq(Point) : p = PointsOf(packet, posed)
        BY PacketPoints
      <4>3. IdsOf(a \o p) = IdsOf(a) \o IdsOf(p)
        BY <1>3, IdsOfConcat
      <4>4. IdsOf(p) = b
        BY <2>2, <2>3, <3>1, <4>2, PosedOrNot
      <4>5. IdsOf(a) = a0
        BY <1>3, <2>3, <3>1, IdsOfNone DEF IdsAt
      <4>6. IdsAt(handlers', m) = IdsOf(a \o p)
        BY <4>1, <4>2 DEF IdsAt
      <4> QED
        BY <4>3, <4>4, <4>5, <4>6
    <3>2. CASE m # packet.lidar
      <4>1. IdsAt(handlers', m) = a0
        BY <1>3, <2>3, <3>2 DEF IdsAt
      <4>2. b = <<>>
        BY <2>2, <2>3, <3>2
      <4>3. a0 \o <<>> = a0
        BY ConcatEmptySeq
      <4> QED
        BY <4>1, <4>2, <4>3
    <3> QED
      BY <3>1, <3>2
  <2>5. (a0 \o b) \o c = a0 \o (b \o c)
    BY ConcatAssoc
  <2>6. QueueIds(raw_packet_queue', m) = c
    BY <1>1, <1>2, <2>3
  <2> QED
    BY <2>1, <2>3, <2>4, <2>5, <2>6 DEF PendingOf
<1>7. Pending' = Pending
  BY <1>6 DEF Pending
<1>8. Delivered' = Delivered
  BY <1>3 DEF Delivered
<1> QED
  BY <1>7, <1>8

\* CheckTimer parts a stream, or leaves it.
LEMMA TimerDelivers ==
  ASSUME StreamInvariant, ProcessOK, CheckTimer
  PROVE  \/ UNCHANGED <<Pending, Delivered>>
         \/ \A l \in Lidars : Pending[l] = Delivered'[l] \o Pending'[l] /\ Pending'[l] \in Seq(PointId)
<1>1. raw_packet_queue' = raw_packet_queue /\ raw_packet_queue \in Seq(Packet)
  BY DEF CheckTimer, StreamInvariant, StreamTypes
<1>2. CASE UNCHANGED <<frame, handlers>>
  BY <1>1, <1>2 DEF Pending, Delivered
<1>3. ASSUME NEW cut \in SUBSET DOMAIN handlers, HandOver(cut), NEW l \in Lidars
      PROVE  Pending[l] = Delivered'[l] \o Pending'[l] /\ Pending'[l] \in Seq(PointId)
  <2>1. /\ DOMAIN handlers' = DOMAIN handlers
        /\ \A m \in cut : handlers'[m].points = <<>> 
        /\ \A m \in DOMAIN handlers \ cut : handlers'[m] = handlers[m]
        /\ DOMAIN frame' = cut
        /\ \A m \in cut : frame'[m].points = handlers[m].points
    <3>1. \A m \in DOMAIN handlers : handlers[m] \in [points : Seq(Point), is_set_extrinsic_params : BOOLEAN]
      BY DEF StreamInvariant, BufferTypes
    <3> QED
      BY <1>3, <3>1 DEF HandOver, FrameOf
  <2>2. PICK a \in Seq(PointId), b \in Seq(PointId) : a = IdsAt(handlers, l) /\ b = QueueIds(raw_packet_queue, l)
    BY <1>1, IdsAtType, QueueIdsType DEF StreamInvariant
  <2>3. Pending[l] = a \o b
    BY <2>2 DEF Pending, PendingOf
  <2>4. Pending'[l] = IdsAt(handlers', l) \o b
    BY <1>1, <2>2 DEF Pending, PendingOf
  <2>5. Delivered'[l] = IdsAt(frame', l)
    BY DEF Delivered
  <2>6. <<>> \o b = b /\ <<>> \o (a \o b) = a \o b /\ a \o b \in Seq(PointId)
    <3>1. PICK c \in Seq(PointId) : c = a \o b
      BY ConcatProperties
    <3> QED
      BY <3>1, ConcatEmptySeq
  <2>7. CASE l \in cut
    <3>1. IdsAt(handlers', l) = <<>>
      BY <2>1, <2>7, IdsOfNone DEF IdsAt
    <3>2. IdsAt(frame', l) = a
      BY <2>1, <2>2, <2>7 DEF IdsAt
    <3> QED
      BY <2>3, <2>4, <2>5, <2>6, <3>1, <3>2
  <2>8. CASE l \notin cut
    <3>1. IdsAt(handlers', l) = a
      BY <2>1, <2>2, <2>8 DEF IdsAt
    <3>2. IdsAt(frame', l) = <<>>
      BY <2>1, <2>8 DEF IdsAt
    <3> QED
      BY <2>3, <2>4, <2>5, <2>6, <3>1, <3>2
  <2> QED
    BY <2>7, <2>8
<1> QED
  BY <1>2, <1>3, TimerHandsOver

LEMMA StreamsStepOn ==
  ASSUME StreamInvariant, StreamInvariant', ProcessOK, [Next]_vars
  PROVE  [Stream!Next]_(Stream!vars)
<1>1. DOMAIN Pending = Lidars /\ DOMAIN Pending' = Lidars /\ DOMAIN Delivered' = Lidars
  BY DEF Pending, Delivered
<1>2. StreamTypes /\ StreamTypes'
  BY DEF StreamInvariant
<1>3. UNCHANGED <<Pending, Delivered>> => UNCHANGED Stream!vars
  BY <1>2, StreamIsPending, StreamIsPendingNext DEF Stream!vars
<1>4. CASE PushRawPacket
  <2>1. PICK l \in Lidars : /\ Pending'[l] = Pending[l] \/ IsStrictPrefix(Pending[l], Pending'[l])
                            /\ \A m \in Lidars \ {l} : Pending'[m] = Pending[m]
    BY <1>4, PushReceives
  <2>2. Delivered' = Delivered
    BY <1>4, PushReceives
  <2>3. CASE Pending'[l] = Pending[l]
    <3>1. \A m \in Lidars : Pending'[m] = Pending[m]
      BY <2>1, <2>3
    <3>2. Pending' = Pending
      BY <3>1 DEF Pending
    <3> QED
      BY <1>3, <2>2, <3>2
  <2>4. CASE IsStrictPrefix(Pending[l], Pending'[l])
    <3>1. Stream!IsStrictPrefix(Pending[l], Pending'[l])
      BY <2>4 DEF IsStrictPrefix, IsPrefix, Stream!IsStrictPrefix, Stream!IsPrefix
    <3>2. Stream!Receive
      BY <1>2, <2>1, <2>2, <3>1, StreamIsPending, StreamIsPendingNext DEF Stream!Receive
    <3> QED
      BY <3>2 DEF Stream!Next
  <2> QED
    BY <2>1, <2>3, <2>4
<1>5. CASE TakePacket
  BY <1>3, <1>5, TakeMovesOn
<1>6. CASE CheckTimer
  <2>1. CASE \A l \in Lidars : Pending[l] = Delivered'[l] \o Pending'[l] /\ Pending'[l] \in Seq(PointId)
    <3>1. CASE Delivered' = [l \in Lidars |-> <<>>]
      <4>1. ASSUME NEW l \in Lidars PROVE Pending'[l] = Pending[l]
        <5>1. Delivered'[l] = <<>>
          BY <3>1
        <5>2. PICK p \in Seq(PointId) : p = Pending'[l]
          BY <2>1
        <5>3. <<>> \o p = p
          BY ConcatEmptySeq
        <5> QED
          BY <2>1, <5>1, <5>2, <5>3
      <4>2. Pending' = Pending
        BY <4>1 DEF Pending
      <4>3. Stream!Return
        BY <1>2, <3>1, <4>2, StreamIsPending, StreamIsPendingNext DEF Stream!Return, Stream!Nothing
      <4> QED
        BY <4>3 DEF Stream!Next
    <3>2. CASE Delivered' # [l \in Lidars |-> <<>>]
      <4>1. Stream!Deliver
        BY <1>2, <2>1, <3>2, StreamIsPending, StreamIsPendingNext DEF Stream!Deliver, Stream!Nothing
      <4> QED
        BY <4>1 DEF Stream!Next
    <3> QED
      BY <3>1, <3>2
  <2> QED
    BY <1>3, <1>6, <2>1, TimerDelivers
<1>7. CASE CheckQuit
  <2>1. frame' = NoFrame /\ UNCHANGED <<raw_packet_queue, handlers>>
    BY <1>7 DEF CheckQuit
  <2>2. Delivered' = [l \in Lidars |-> <<>>]
    BY <2>1 DEF Delivered, IdsAt, NoFrame
  <2>3. Pending' = Pending
    BY <2>1 DEF Pending
  <2>4. Stream!Return
    BY <1>2, <2>2, <2>3, StreamIsPending, StreamIsPendingNext DEF Stream!Return, Stream!Nothing
  <2> QED
    BY <2>4 DEF Stream!Next
<1>8. CASE UNCHANGED <<handlers, frame>> /\ ~PushRawPacket /\ ~TakePacket
  <2>1. raw_packet_queue' = raw_packet_queue
    BY <1>8, PacketSteps DEF QuietForPackets, Tick, OnLivoxLidarPointCloudCallback, LosePacket
  <2>2. UNCHANGED <<Pending, Delivered>>
    BY <1>8, <2>1 DEF Pending, Delivered
  <2> QED
    BY <1>3, <2>2
<1> QED
  BY <1>4, <1>5, <1>6, <1>7, <1>8, ThreadOnly

LEMMA StreamsStartEmpty == Init => Stream!Init
<1> SUFFICES ASSUME Init PROVE Stream!Init
  OBVIOUS
<1>1. raw_packet_queue = <<>> /\ handlers = <<>> /\ frame = <<>>
  BY DEF Init, FrameInit, NoFrame
<1>2. StreamTypes
  BY StreamsInit DEF StreamInvariant
<1>3. ASSUME NEW l \in Lidars PROVE PendingOf(handlers, raw_packet_queue, l) = <<>>
  <2>1. IdsAt(handlers, l) = <<>>
    BY <1>1 DEF IdsAt
  <2>2. QueueIds(raw_packet_queue, l) = <<>>
    BY <1>1, QueueIdsOfNone
  <2> QED
    BY <2>1, <2>2 DEF PendingOf
<1>4. Pending = [l \in Lidars |-> <<>>]
  BY <1>3 DEF Pending
<1>5. Delivered = [l \in Lidars |-> <<>>]
  BY <1>1 DEF Delivered, IdsAt
<1> QED
  BY <1>2, <1>4, <1>5, StreamIsPending DEF Stream!Init, Stream!Nothing

\* Each lidar's points leave in the order they came, each once, in frames that
\* are never empty (OnLivoxLidarPointCloudCallback, RawDataProcess), for any
\* lidars, packets, clocks and interleaving.
THEOREM StreamsStayWhole == Spec => FramesAreTheStream
<1>1. PosedInvariant => ProcessOK
  BY DEF PosedInvariant
<1>2. StreamInvariant /\ StreamInvariant' /\ ProcessOK /\ [Next]_vars => [Stream!Next]_(Stream!vars)
  BY StreamsStepOn
<1> QED
  BY <1>1, <1>2, StreamsStartEmpty, StreamInductive, PTL DEF Spec, FramesAreTheStream

=============================================================================
