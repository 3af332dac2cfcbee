--------------------------- MODULE PointCloudPath ---------------------------
(***************************************************************************)
(* The last stage of the Livox driver: the PubHandler thread pushes the    *)
(* point frames it has assembled into one ring per lidar, the poll thread  *)
(* sleeps on a counting semaphore, drains the rings of the lidars that are *)
(* sampling and publishes what it finds, the SDK's callbacks switch lidars *)
(* to sampling, and ~DriverNode stops the poll thread and joins it.        *)
(*                                                                         *)
(* Nothing but the semaphore is locked: every access to an index, a slot,  *)
(* connect_state, the semaphore's count or request_exit_ is a step of its  *)
(* own.  The indices are volatile and not atomic; steps are taken in       *)
(* program order, as on a machine that does not reorder them.              *)
(***************************************************************************)
EXTENDS LidarDataQueue

CONSTANTS
  LidarCount,   \* number of lidars; the poll thread visits 0 .. LidarCount - 1
  PacketsOf,    \* lidar -> the packets it may send
  QueueSize,    \* what CalculatePacketQueueSize asks for
  NoPacket      \* no packet is being copied

Size == RoundupPowerOf2(QueueSize)   \* what InitQueue makes of it

\* The last four conjuncts follow from the others; they are stated because the
\* provers know neither exponentiation nor the least element of a set.
ASSUME PathAssumption ==
  /\ LidarCount \in Nat \ {0}
  /\ PacketsOf \in [0 .. LidarCount - 1 -> SUBSET Packets]
  /\ QueueSize \in 1 .. 2 ^ (IndexBits - 1)
  /\ NoPacket \notin Packets \union {Torn}
  /\ Size \in Nat \ {0}
  /\ 2 ^ IndexBits \in Nat \ {0}
  /\ Size < 2 ^ IndexBits
  /\ 2 ^ IndexBits % Size = 0

VARIABLES
  data,            \* lidar -> its queue
  connect_state,   \* lidar -> "off" or "sampling"
  pcd_semaphore,   \* count of the semaphore the poll thread sleeps on
  pusher,          \* the PubHandler thread inside PushLidarData
  poller,          \* the poll thread
  exit,            \* ~DriverNode: "none", "requested", "signalled", "joined"
  published,       \* lidar -> set with the last packet published, empty before
  fresh            \* history: lidars that began sampling and were not visited since

vars == <<data, connect_state, pcd_semaphore, pusher, poller, exit, published, fresh>>

Lidars == 0 .. LidarCount - 1

Idle == [at |-> "idle", lidar |-> 0, packet |-> NoPacket]

Init ==
  /\ data = [l \in Lidars |-> NoQueue]
  /\ connect_state = [l \in Lidars |-> "off"]
  /\ pcd_semaphore = 0
  /\ pusher = Idle
  /\ poller = [at |-> "check", lidar |-> 0, packet |-> NoPacket]
  /\ exit = "none"
  /\ published = [l \in Lidars |-> {}]
  /\ fresh = {}

IsRequestExit == exit # "none"

-----------------------------------------------------------------------------
(***************************************************************************)
(* The PubHandler thread: StoragePointData, PushLidarData, QueuePushAny.   *)
(***************************************************************************)
PusherGoes(place) == pusher' = [pusher EXCEPT !.at = place]

\* PushLidarData up to the branch on QueueIsFull; the first packet of a lidar
\* allocates its queue.  The copy begins: the slot holds neither packet.
PushLidarData(l, p) ==
  LET q == IF Allocated(data[l]) THEN data[l] ELSE InitQueue(QueueSize)
  IN  /\ pusher.at = "idle"
      /\ IF QueueIsFull(q)
           THEN /\ data' = [data EXCEPT ![l] = q]
                /\ pusher' = [at |-> "full", lidar |-> l, packet |-> NoPacket]
           ELSE /\ data' = [data EXCEPT ![l] = FillSlot(q, Torn)]
                /\ pusher' = [at |-> "fill", lidar |-> l, packet |-> p]
      /\ UNCHANGED <<connect_state, pcd_semaphore, poller, exit, published, fresh>>

\* The copy ends.
Fill ==
  /\ pusher.at = "fill"
  /\ data' = [data EXCEPT ![pusher.lidar] = FillSlot(@, pusher.packet)]
  /\ PusherGoes("advance")
  /\ UNCHANGED <<connect_state, pcd_semaphore, poller, exit, published, fresh>>

\* wr_idx++
Advance ==
  /\ pusher.at = "advance"
  /\ data' = [data EXCEPT ![pusher.lidar] = AdvanceWrite(@)]
  /\ PusherGoes("pushed")
  /\ UNCHANGED <<connect_state, pcd_semaphore, poller, exit, published, fresh>>

\* Mutant: a wakeup only when a packet could not be stored.
LookIfEmptyMutant ==
  /\ pusher.at = "pushed"
  /\ pusher' = Idle
  /\ UNCHANGED <<data, connect_state, pcd_semaphore, poller, exit, published, fresh>>

\* if (!QueueIsEmpty(queue))
LookIfEmpty ==
  /\ pusher.at = "pushed"
  /\ pusher' = IF QueueIsEmpty(data[pusher.lidar])
                 THEN Idle ELSE [pusher EXCEPT !.at = "count"]
  /\ UNCHANGED <<data, connect_state, pcd_semaphore, poller, exit, published, fresh>>

\* Mutant: a packet that finds the ring full is dropped without a wakeup.
LookAtCountWhenPushed ==
  /\ pusher.at \in {"count", "full"}
  /\ pusher' = IF pusher.at = "count" /\ pcd_semaphore <= 0
                 THEN [pusher EXCEPT !.at = "signal"] ELSE Idle
  /\ UNCHANGED <<data, connect_state, pcd_semaphore, poller, exit, published, fresh>>

\* if (pcd_semaphore_.GetCount() <= 0), in either branch
LookAtCount ==
  /\ pusher.at \in {"count", "full"}
  /\ pusher' = IF pcd_semaphore <= 0 THEN [pusher EXCEPT !.at = "signal"] ELSE Idle
  /\ UNCHANGED <<data, connect_state, pcd_semaphore, poller, exit, published, fresh>>

\* Semaphore::Signal
Signal ==
  /\ pusher.at = "signal"
  /\ pcd_semaphore' = pcd_semaphore + 1
  /\ pusher' = Idle
  /\ UNCHANGED <<data, connect_state, poller, exit, published, fresh>>

-----------------------------------------------------------------------------
(***************************************************************************)
(* The poll thread.                                                        *)
(***************************************************************************)
PollerGoes(place) == poller' = [poller EXCEPT !.at = place]

\* DistributePointCloudData returns at once when exit is requested.
CheckExit ==
  /\ poller.at = "check"
  /\ PollerGoes(IF IsRequestExit THEN "future" ELSE "wait")
  /\ UNCHANGED <<data, connect_state, pcd_semaphore, pusher, exit, published, fresh>>

\* Semaphore::Wait returns with the count taken.
Wait ==
  /\ poller.at = "wait"
  /\ pcd_semaphore > 0
  /\ pcd_semaphore' = pcd_semaphore - 1
  /\ poller' = [at |-> "visit", lidar |-> 0, packet |-> NoPacket]
  /\ UNCHANGED <<data, connect_state, pusher, exit, published, fresh>>

\* Leave the current lidar for the next one, or the loop over them.
NextLidar ==
  poller' = IF poller.lidar = LidarCount - 1
              THEN [poller EXCEPT !.at = "future"]
              ELSE [poller EXCEPT !.at = "visit", !.lidar = @ + 1]

\* Head of the for loop and of PollingLidarPointCloudData: a lidar that is
\* not sampling, or has no queue yet, is passed over.
Visit ==
  LET l == poller.lidar
  IN  /\ poller.at = "visit"
      /\ IF connect_state[l] = "sampling" /\ Allocated(data[l])
           THEN PollerGoes("poll") ELSE NextLidar
      /\ fresh' = IF connect_state[l] = "sampling" THEN fresh \ {l} ELSE fresh
      /\ UNCHANGED <<data, connect_state, pcd_semaphore, pusher, exit, published>>

\* while (!lds_->IsRequestExit() && !QueueIsEmpty(p_queue))
Poll ==
  /\ poller.at = "poll"
  /\ IF ~IsRequestExit /\ ~QueueIsEmpty(data[poller.lidar])
       THEN PollerGoes("drain") ELSE NextLidar
  /\ UNCHANGED <<data, connect_state, pcd_semaphore, pusher, exit, published, fresh>>

\* PublishPointcloud2: while (!QueueIsEmpty(queue)) and QueuePrePop's copy.
Drain ==
  LET q == data[poller.lidar]
  IN  /\ poller.at = "drain"
      /\ poller' = IF QueueIsEmpty(q) THEN [poller EXCEPT !.at = "poll"]
                   ELSE [poller EXCEPT !.at = "copied", !.packet = QueuePrePop(q)]
      /\ UNCHANGED <<data, connect_state, pcd_semaphore, pusher, exit, published, fresh>>

\* Mutant: one packet is published per visit.
PublishOne ==
  LET l == poller.lidar
  IN  /\ poller.at = "copied"
      /\ data' = [data EXCEPT ![l] = QueuePopUpdate(@)]
      /\ published' = [published EXCEPT ![l] = {poller.packet}]
      /\ NextLidar
      /\ UNCHANGED <<connect_state, pcd_semaphore, pusher, exit, fresh>>

\* QueuePopUpdate, and the packet is published.
Publish ==
  LET l == poller.lidar
  IN  /\ poller.at = "copied"
      /\ data' = [data EXCEPT ![l] = QueuePopUpdate(@)]
      /\ published' = [published EXCEPT ![l] = {poller.packet}]
      /\ poller' = [poller EXCEPT !.at = "drain", !.packet = NoPacket]
      /\ UNCHANGED <<connect_state, pcd_semaphore, pusher, exit, fresh>>

\* PointCloudDataPollThread: future_.wait_for(0) ends the thread or repeats.
CheckFuture ==
  /\ poller.at = "future"
  /\ PollerGoes(IF exit = "signalled" THEN "ended" ELSE "check")
  /\ UNCHANGED <<data, connect_state, pcd_semaphore, pusher, exit, published, fresh>>

-----------------------------------------------------------------------------
(***************************************************************************)
(* The SDK's callbacks and ~DriverNode.                                    *)
(***************************************************************************)
StartSampling(l) ==
  /\ connect_state[l] = "off"
  /\ connect_state' = [connect_state EXCEPT ![l] = "sampling"]
  /\ fresh' = fresh \union {l}
  /\ UNCHANGED <<data, pcd_semaphore, pusher, poller, exit, published>>

ControlSteps ==
  \/ exit = "none"      /\ exit' = "requested"
  \/ exit = "requested" /\ exit' = "signalled"
  \/ exit = "signalled" /\ poller.at = "ended" /\ exit' = "joined"

Destroy ==
  /\ ControlSteps
  /\ UNCHANGED <<data, connect_state, pcd_semaphore, pusher, poller, published, fresh>>

-----------------------------------------------------------------------------
PusherFinishes == Fill \/ Advance \/ LookIfEmpty \/ LookAtCount \/ Signal

Poller == CheckExit \/ Wait \/ Visit \/ Poll \/ Drain \/ Publish \/ CheckFuture

Next ==
  \/ \E l \in Lidars : \E p \in PacketsOf[l] : PushLidarData(l, p)
  \/ PusherFinishes
  \/ Poller
  \/ \E l \in Lidars : StartSampling(l)
  \/ Destroy

Spec == Init /\ [][Next]_vars

(***************************************************************************)
(* Every thread runs on while it can.  That frames keep coming is not      *)
(* assumed here.                                                           *)
(***************************************************************************)
FairSpec ==
  /\ Spec
  /\ WF_vars(PusherFinishes)
  /\ WF_vars(Poller)
  /\ WF_vars(exit # "none" /\ Destroy)

-----------------------------------------------------------------------------
(***************************************************************************)
(* Properties.                                                             *)
(***************************************************************************)

Queue ==
  UNION { [storage_packet : [1 .. n -> Packets \union {Torn}],
           rd_idx : Index, wr_idx : Index, size : {n}] : n \in {0, Size} }

AnyPacket == Packets \union {Torn, NoPacket}

\* The state has its types, and the semaphore never counts past one: the
\* unlocked test of GetCount in PushLidarData is enough with one pusher.
TypeOK ==
  /\ data \in [Lidars -> Queue]
  /\ connect_state \in [Lidars -> {"off", "sampling"}]
  /\ pcd_semaphore \in 0 .. 1
  /\ pusher \in [at : {"idle", "fill", "advance", "pushed", "count", "full", "signal"},
                 lidar : Lidars, packet : AnyPacket]
  /\ poller \in [at : {"check", "wait", "visit", "poll", "drain", "copied", "future", "ended"},
                 lidar : Lidars, packet : AnyPacket]
  /\ exit \in {"none", "requested", "signalled", "joined"}
  /\ published \in [Lidars -> SUBSET AnyPacket]
  /\ fresh \subseteq Lidars

\* A packet the poll thread has still to be woken for.
Unseen(l) ==
  /\ connect_state[l] = "sampling"
  /\ l \notin fresh
  /\ ~QueueIsEmpty(data[l])

\* No wakeup is lost: when the poll thread sleeps and no push is under way,
\* no lidar it was already publishing has a packet left in its ring.
NoLostWakeup ==
  (poller.at = "wait" /\ pcd_semaphore = 0 /\ pusher.at = "idle")
    => \A l \in Lidars : ~Unseen(l)

\* The semaphore counts every wakeup that is needed, and never past one.
WakeupsAreSound == TypeOK /\ NoLostWakeup

\* Seen from outside, each lidar's ring, filled and drained without a lock by
\* two threads, with indices that wrap, is a bounded first-in first-out channel
\* of whole packets that refuses only when it is full.
Channel(l) ==
  INSTANCE BoundedChannel WITH
    Capacity  <- Size,
    waiting   <- Held(data[l]),
    delivered <- published[l],
    refusing  <- pusher.at = "full" /\ pusher.lidar = l

RingsAreChannels ==
  /\ \A l \in Lidars : Channel(l)!Init
  /\ [][\A l \in Lidars : Channel(l)!Next \/ UNCHANGED Channel(l)!vars]_vars

\* The poll thread drains a lidar's ring faster than frames arrive for it, so
\* that it does not stay with one lidar for good: both loops of the drain end
\* only when they find the ring empty, the inner one without looking at exit.
Draining(l) == poller.lidar = l /\ poller.at \in {"poll", "drain", "copied"}
KeepsUp(l)  == []<>~Draining(l)

\* A packet of a lidar the poll thread has seen does not stay in its ring for
\* good, although no other frame may ever arrive: the ring is found empty, or
\* packets are taken out of it, again and again, unless exit is requested or
\* the poll thread cannot keep up with another lidar.
PacketsFlow ==
  \A l \in Lidars :
    (\A m \in Lidars \ {l} : KeepsUp(m))
      => \/ []<>(~Unseen(l) \/ IsRequestExit)
         \/ []<><<data'[l].rd_idx # data[l].rd_idx>>_data

\* ~DriverNode returns, provided that frames keep coming: nothing else wakes
\* the poll thread from its semaphore.
FramesKeepComing == []<>(pusher.at # "idle")

DestructorReturns ==
  (FramesKeepComing /\ \A l \in Lidars : KeepsUp(l))
    => []<>(IsRequestExit => exit = "joined")
=============================================================================
