------------------------------- MODULE ImuPath -------------------------------
(***************************************************************************)
(* IMU packets come through the same callback as the points.  The SDK's    *)
(* thread pushes them straight into a queue per lidar, guarded by a mutex, *)
(* and signals the semaphore the IMU poll thread sleeps on; that thread    *)
(* empties the queues of the lidars that are sampling and publishes.       *)
(* ~DriverNode asks it to end and joins it.  Pushes, tests and pops each   *)
(* take the mutex, but the test and what follows from it are two steps.    *)
(***************************************************************************)
EXTENDS PubHandler

CONSTANT lidars_   \* the lidars in the order of their index

\* The numbers IMU packets may have.
ImuPackets == UNION {1 .. load.imu : load \in Loads}

ASSUME ImuAssumption ==
  /\ lidars_ \in Seq(Lidars) /\ lidars_ # <<>>
  /\ \A l \in Lidars : \E i \in DOMAIN lidars_ : lidars_[i] = l
  /\ IsFiniteSet(ImuPackets)

VARIABLES
  imu_data,        \* lidar -> its queue
  connect_state,   \* lidar -> "off" or "sampling"
  imu_semaphore,   \* count of the semaphore
  imu_pusher,      \* the SDK's thread inside StorageImuData
  imu_poller,      \* the IMU poll thread: where it is, index of the lidar it visits
  request_exit,    \* ~DriverNode: "none", "requested", "signalled", "joined"
  imu_published,   \* lidar -> set with the last packet published, empty before
  imu_fresh        \* history: lidars with neither a packet nor a visit since they began sampling

imuVars == <<imu_data, connect_state, imu_semaphore, imu_pusher, imu_poller,
             request_exit, imu_published, imu_fresh>>

vars == <<frameVars, imuVars>>

ImuIdle == [at |-> "idle", lidar |-> {}]

Init ==
  /\ FrameInit
  /\ imu_data = [l \in Lidars |-> <<>>]
  /\ connect_state = [l \in Lidars |-> "off"]
  /\ imu_semaphore = 0
  /\ imu_pusher = ImuIdle
  /\ imu_poller = [at |-> "check", index |-> 1]
  /\ request_exit = "none"
  /\ imu_published = [l \in Lidars |-> {}]
  /\ imu_fresh = {}

IsRequestExit == request_exit # "none"

-----------------------------------------------------------------------------
(***************************************************************************)
(* The SDK's thread: StorageImuData.                                       *)
(***************************************************************************)
PusherOnly == UNCHANGED <<connect_state, imu_poller, request_exit, imu_published, imu_fresh>>

\* GetIndex: a lidar nobody configured has no index before it is announced.
MayLackIndex(l) == l \notin Configured /\ connect_state[l] = "off"

\* The callback with an IMU packet, up to the push; packets are numbered down.
\* Before SetImuDataCallback there is nobody to take it.
OnImuPacket(l) ==
  /\ imu_pusher.at = "idle"
  /\ left.imu > 0
  /\ left' = [left EXCEPT !.imu = @ - 1]
  /\ SetSyncFlag(l)
  /\ \/ /\ startup = "observed" \/ MayLackIndex(l)
        /\ UNCHANGED <<imu_data, imu_pusher, imu_fresh>>
     \/ /\ startup # "observed"
        /\ imu_data' = [imu_data EXCEPT ![l] = Append(@, left.imu)]
        /\ imu_pusher' = [at |-> "pushed", lidar |-> {l}]
        /\ imu_fresh' = imu_fresh \ {l}
  /\ UNCHANGED <<now, sent, locked, sdk, raw_packet_queue, imu_semaphore,
                 connect_state, imu_poller, request_exit, imu_published>>
  /\ Environment

\* if (!imu_queue->Empty())
ImuLookIfEmpty ==
  /\ imu_pusher.at = "pushed"
  /\ imu_pusher' = IF \A l \in imu_pusher.lidar : imu_data[l] = <<>>
                     THEN ImuIdle ELSE [imu_pusher EXCEPT !.at = "count"]
  /\ UNCHANGED <<frameVars, imu_data, imu_semaphore>>
  /\ PusherOnly

\* if (imu_semaphore_.GetCount() <= 0)
ImuLookAtCount ==
  /\ imu_pusher.at = "count"
  /\ imu_pusher' = IF imu_semaphore <= 0
                     THEN [imu_pusher EXCEPT !.at = "signal"] ELSE ImuIdle
  /\ UNCHANGED <<frameVars, imu_data, imu_semaphore>>
  /\ PusherOnly

\* Semaphore::Signal
ImuSignal ==
  /\ imu_pusher.at = "signal"
  /\ imu_semaphore' = imu_semaphore + 1
  /\ imu_pusher' = ImuIdle
  /\ UNCHANGED <<frameVars, imu_data>>
  /\ PusherOnly

-----------------------------------------------------------------------------
(***************************************************************************)
(* The IMU poll thread.                                                    *)
(***************************************************************************)
PollerOnly == UNCHANGED <<frameVars, connect_state, imu_pusher, request_exit>>

ImuPollerGoes(place) == imu_poller' = [imu_poller EXCEPT !.at = place]

\* DistributeImuData returns at once when exit is requested.
ImuCheckExit ==
  /\ imu_poller.at = "check"
  /\ ImuPollerGoes(IF IsRequestExit THEN "future" ELSE "wait")
  /\ UNCHANGED <<imu_data, imu_semaphore, imu_published, imu_fresh>>
  /\ PollerOnly

ImuWait ==
  /\ imu_poller.at = "wait"
  /\ imu_semaphore > 0
  /\ imu_semaphore' = imu_semaphore - 1
  /\ imu_poller' = [at |-> "visit", index |-> 1]
  /\ UNCHANGED <<imu_data, imu_published, imu_fresh>>
  /\ PollerOnly

ImuNextLidar ==
  imu_poller' = IF imu_poller.index = Len(lidars_)
                  THEN [imu_poller EXCEPT !.at = "future"]
                  ELSE [at |-> "visit", index |-> imu_poller.index + 1]

Visited == lidars_[imu_poller.index]

\* A lidar that is not sampling is passed over.
ImuVisit ==
  /\ imu_poller.at = "visit"
  /\ IF connect_state[Visited] = "sampling" THEN ImuPollerGoes("poll") ELSE ImuNextLidar
  /\ imu_fresh' = IF connect_state[Visited] = "sampling"
                    THEN imu_fresh \ {Visited} ELSE imu_fresh
  /\ UNCHANGED <<imu_data, imu_semaphore, imu_published>>
  /\ PollerOnly

\* while (!lds_->IsRequestExit() && !p_queue.Empty())
ImuPoll ==
  /\ imu_poller.at = "poll"
  /\ IF ~IsRequestExit /\ imu_data[Visited] # <<>> THEN ImuPollerGoes("pop") ELSE ImuNextLidar
  /\ UNCHANGED <<imu_data, imu_semaphore, imu_published, imu_fresh>>
  /\ PollerOnly

\* Mutant: one packet is published per visit.
PublishOneImu ==
  /\ imu_poller.at = "pop"
  /\ imu_data' = [imu_data EXCEPT ![Visited] = Tail(@)]
  /\ imu_published' = [imu_published EXCEPT ![Visited] = {Head(imu_data[Visited])}]
  /\ ImuNextLidar
  /\ UNCHANGED <<imu_semaphore, imu_fresh>>
  /\ PollerOnly

\* Mutant: the newest packet is published and the older ones are dropped.
PublishNewestImu ==
  /\ imu_poller.at = "pop"
  /\ imu_data' = [imu_data EXCEPT ![Visited] = <<>>]
  /\ imu_published' = [imu_published EXCEPT ![Visited] = {Last(imu_data[Visited])}]
  /\ ImuPollerGoes("poll")
  /\ UNCHANGED <<imu_semaphore, imu_fresh>>
  /\ PollerOnly

\* PublishImuData: Pop may find nothing.
PublishImuData ==
  /\ imu_poller.at = "pop"
  /\ IF imu_data[Visited] = <<>> THEN UNCHANGED <<imu_data, imu_published>>
     ELSE /\ imu_data' = [imu_data EXCEPT ![Visited] = Tail(@)]
          /\ imu_published' = [imu_published EXCEPT ![Visited] = {Head(imu_data[Visited])}]
  /\ ImuPollerGoes("poll")
  /\ UNCHANGED <<imu_semaphore, imu_fresh>>
  /\ PollerOnly

\* ImuDataPollThread
ImuCheckFuture ==
  /\ imu_poller.at = "future"
  /\ ImuPollerGoes(IF request_exit = "signalled" THEN "ended" ELSE "check")
  /\ UNCHANGED <<imu_data, imu_semaphore, imu_published, imu_fresh>>
  /\ PollerOnly

-----------------------------------------------------------------------------
StartSampling(l) ==
  /\ left.imu > 0
  /\ connect_state[l] = "off"
  /\ connect_state' = [connect_state EXCEPT ![l] = "sampling"]
  /\ imu_fresh' = imu_fresh \union {l}
  /\ UNCHANGED <<frameVars, imu_data, imu_semaphore, imu_pusher, imu_poller,
                 request_exit, imu_published>>

\* ~DriverNode: RequestExit, set_value, join.
Destroy ==
  /\ "DriverNode" \in left.ends
  /\ \/ request_exit = "none"      /\ request_exit' = "requested"
     \/ request_exit = "requested" /\ request_exit' = "signalled"
     \/ request_exit = "signalled" /\ imu_poller.at = "ended" /\ request_exit' = "joined"
  /\ UNCHANGED <<frameVars, imu_data, connect_state, imu_semaphore, imu_pusher,
                 imu_poller, imu_published, imu_fresh>>

ImuPusherFinishes == ImuLookIfEmpty \/ ImuLookAtCount \/ ImuSignal

ImuPoller == ImuCheckExit \/ ImuWait \/ ImuVisit \/ ImuPoll \/ PublishImuData \/ ImuCheckFuture

\* One callback runs at a time.
Next ==
  \/ /\ FrameNext
     /\ imu_pusher.at # "idle" => UNCHANGED sdk
     /\ UNCHANGED imuVars
  \/ \E l \in Lidars : OnImuPacket(l) \/ StartSampling(l)
  \/ ImuPusherFinishes
  \/ ImuPoller
  \/ Destroy

(***************************************************************************)
(* Every thread runs on while it can; that packets come is not assumed.    *)
(***************************************************************************)
Fairness ==
  /\ WF_vars(RawDataProcess /\ UNCHANGED imuVars)
  /\ WF_vars(PushRawPacket /\ imu_pusher.at = "idle" /\ UNCHANGED imuVars)
  /\ WF_vars(exit = "quit" /\ Uninit /\ UNCHANGED imuVars)
  /\ WF_vars(ImuPusherFinishes)
  /\ WF_vars(ImuPoller)
  /\ WF_vars(request_exit # "none" /\ Destroy)

Spec == Init /\ [][Next]_vars /\ Fairness

-----------------------------------------------------------------------------
(***************************************************************************)
(* Properties.                                                             *)
(***************************************************************************)

ImuTypeOK ==
  /\ imu_data \in [Lidars -> Seq(ImuPackets)]
  /\ connect_state \in [Lidars -> {"off", "sampling"}]
  /\ imu_semaphore \in 0 .. 1
  /\ imu_pusher \in [at : {"idle", "pushed", "count", "signal"}, lidar : SUBSET Lidars]
  /\ imu_poller \in [at : {"check", "wait", "visit", "poll", "pop", "future", "ended"},
                     index : DOMAIN lidars_]
  /\ request_exit \in {"none", "requested", "signalled", "joined"}
  /\ imu_published \in [Lidars -> SUBSET ImuPackets]
  /\ imu_fresh \subseteq Lidars

\* The state has its types; the IMU semaphore never counts past one.
TypeOK == FrameTypeOK /\ ImuTypeOK

ImuUnseen(l) == connect_state[l] = "sampling" /\ l \notin imu_fresh /\ imu_data[l] # <<>>

\* No IMU wakeup is lost: when the IMU poll thread sleeps and no push is under
\* way, no sampling lidar has a packet left, unless from before it was sampling.
NoLostImuWakeup ==
  (imu_poller.at = "wait" /\ imu_semaphore = 0 /\ imu_pusher.at = "idle")
    => \A l \in Lidars : ~ImuUnseen(l)

\* Each lidar's IMU packets are published in order and each once: GLIM
\* integrates them, so a packet lost or out of order bends the trajectory.
ImuChannel(l) ==
  INSTANCE BoundedChannel WITH
    Packets   <- ImuPackets,
    Capacity  <- Cardinality(ImuPackets),
    waiting   <- imu_data[l],
    delivered <- imu_published[l],
    refusing  <- FALSE

ImuQueuesAreChannels ==
  /\ \A l \in Lidars : ImuChannel(l)!Init
  /\ [][\A l \in Lidars : ImuChannel(l)!Next \/ UNCHANGED ImuChannel(l)!vars]_vars

\* An IMU packet of a sampling lidar is published although no other may ever
\* come, unless exit is requested.
ImuPacketsFlow ==
  \A l \in Lidars :
    ImuUnseen(l) ~> (imu_data[l] = <<>> \/ IsRequestExit)

\* The state has its types, and what leaves it says one time of each point.
StreamsAreSound == TypeOK /\ MessagesAgree

\* No thread of the driver waits for a packet that need not come: neither to
\* end nor to publish what it has.
ThreadsGoOn == ThreadEnds /\ ImuPacketsFlow
=============================================================================
