------------------------ MODULE PointCloudPathProofs ------------------------
(***************************************************************************)
(* No wakeup is lost between the PubHandler thread and the poll thread,    *)
(* and every ring between them behaves as a first-in first-out channel,    *)
(* for any number of lidars, any queue size and any index width.           *)
(***************************************************************************)
EXTENDS PointCloudPath, TLAPS

-----------------------------------------------------------------------------
(***************************************************************************)
(* The inductive invariant.                                                *)
(***************************************************************************)

\* The pusher raises the count only from zero: only it raises the count, and
\* the poll thread can only lower it.
SignalFromZero == pusher.at = "signal" => pcd_semaphore = 0

\* While a slot is being filled the pusher has a packet in hand.
PacketInHand == pusher.at = "fill" => pusher.packet \in Packets

\* Only a queue that exists is written or read.
OnlyAllocatedUsed ==
  /\ \A l \in Lidars : ~Allocated(data[l]) => QueueIsEmpty(data[l])
  /\ pusher.at \in {"fill", "advance", "pushed"} => Allocated(data[pusher.lidar])
  /\ poller.at \in {"poll", "drain", "copied"} => Allocated(data[poller.lidar])

\* Whoever will see to a packet of lidar l.
Attended(l) ==
  \/ pcd_semaphore > 0
  \/ pusher.at \in {"count", "full", "signal"}
  \/ pusher.at = "pushed" /\ pusher.lidar = l
  \/ poller.at \in {"visit", "poll", "drain", "copied"} /\ poller.lidar <= l
  \/ IsRequestExit /\ poller.at # "wait"

UnseenAttended == \A l \in Lidars : Unseen(l) => Attended(l)

IInv == TypeOK /\ SignalFromZero /\ PacketInHand /\ OnlyAllocatedUsed /\ UnseenAttended

-----------------------------------------------------------------------------
(***************************************************************************)
(* The operators of the ring.                                              *)
(***************************************************************************)
LEMMA QueueFields ==
  ASSUME NEW q \in Queue
  PROVE  /\ q.rd_idx \in Index /\ q.wr_idx \in Index /\ q.size \in {0, Size}
         /\ q.storage_packet \in [1 .. q.size -> Packets \union {Torn}]
         /\ q = [storage_packet |-> q.storage_packet, rd_idx |-> q.rd_idx,
                 wr_idx |-> q.wr_idx, size |-> q.size]
BY DEF Queue

LEMMA IndexStays == ASSUME NEW i \in Index PROVE Increment(i) \in Index
<1> DEFINE M == 2 ^ IndexBits
<1>1. M \in Nat \ {0} BY PathAssumption
<1>2. i + 1 \in Nat BY <1>1 DEF Index
<1>3. (i + 1) % M \in 0 .. M - 1
  <2> HIDE DEF M
  <2> QED BY <1>1, <1>2, SMT
<1> QED BY <1>3 DEF Increment, Index

LEMMA SlotInRange ==
  ASSUME NEW q \in Queue, Allocated(q), NEW i \in Index
  PROVE  Slot(q, i) \in 1 .. q.size
<1>1. q.size \in Nat \ {0} BY QueueFields, PathAssumption DEF Allocated
<1>2. i \in Nat BY PathAssumption DEF Index
<1>3. i % q.size \in 0 .. q.size - 1 BY <1>1, <1>2, SMT
<1> QED BY <1>1, <1>3 DEF Slot

LEMMA InitQueueType ==
  /\ InitQueue(QueueSize) \in Queue
  /\ Allocated(InitQueue(QueueSize))
  /\ QueueIsEmpty(InitQueue(QueueSize))
<1>1. 0 \in Index BY PathAssumption DEF Index
<1> QED BY <1>1, PathAssumption DEF InitQueue, Queue, Size, Allocated, QueueIsEmpty

LEMMA NoQueueType == NoQueue \in Queue /\ ~Allocated(NoQueue) /\ QueueIsEmpty(NoQueue)
<1>1. 0 \in Index BY PathAssumption DEF Index
<1>2. <<>> \in [1 .. 0 -> Packets \union {Torn}] OBVIOUS
<1> QED BY <1>1, <1>2 DEF NoQueue, Queue, Allocated, QueueIsEmpty

LEMMA FillSlotType ==
  ASSUME NEW q \in Queue, Allocated(q), NEW content \in Packets \union {Torn}
  PROVE  /\ FillSlot(q, content) \in Queue
         /\ Allocated(FillSlot(q, content))
         /\ QueueIsEmpty(FillSlot(q, content)) <=> QueueIsEmpty(q)
<1> DEFINE i == Slot(q, q.wr_idx)
<1>1. i \in 1 .. q.size BY SlotInRange, QueueFields
<1> HIDE DEF i
<1>2. [q.storage_packet EXCEPT ![i] = content] \in [1 .. q.size -> Packets \union {Torn}]
  BY <1>1, QueueFields
<1>3. FillSlot(q, content) =
        [storage_packet |-> [q.storage_packet EXCEPT ![i] = content],
         rd_idx |-> q.rd_idx, wr_idx |-> q.wr_idx, size |-> q.size]
  BY QueueFields DEF FillSlot, i
<1> QED BY <1>2, <1>3, QueueFields DEF Queue, Allocated, QueueIsEmpty

LEMMA AdvanceType ==
  ASSUME NEW q \in Queue
  PROVE  /\ AdvanceWrite(q) \in Queue /\ QueuePopUpdate(q) \in Queue
         /\ Allocated(q) => Allocated(AdvanceWrite(q)) /\ Allocated(QueuePopUpdate(q))
<1>1. Increment(q.wr_idx) \in Index /\ Increment(q.rd_idx) \in Index
  BY IndexStays, QueueFields
<1>2. AdvanceWrite(q) = [storage_packet |-> q.storage_packet, rd_idx |-> q.rd_idx,
                         wr_idx |-> Increment(q.wr_idx), size |-> q.size]
  BY QueueFields DEF AdvanceWrite
<1>3. QueuePopUpdate(q) = [storage_packet |-> q.storage_packet,
                           rd_idx |-> Increment(q.rd_idx), wr_idx |-> q.wr_idx, size |-> q.size]
  BY QueueFields DEF QueuePopUpdate
<1> QED BY <1>1, <1>2, <1>3, QueueFields DEF Queue, Allocated

-----------------------------------------------------------------------------
(***************************************************************************)
(* The invariant holds initially and every step keeps it.                  *)
(***************************************************************************)
LEMMA InitIInv == Init => IInv
<1> SUFFICES ASSUME Init PROVE IInv OBVIOUS
<1> USE DEF Init
<1>1. 0 \in Lidars /\ NoPacket \in AnyPacket BY PathAssumption DEF Lidars, AnyPacket
<1>2. TypeOK BY <1>1, NoQueueType DEF TypeOK, Idle
<1>3. SignalFromZero /\ PacketInHand BY DEF SignalFromZero, PacketInHand, Idle
<1>4. OnlyAllocatedUsed BY NoQueueType DEF OnlyAllocatedUsed, Idle
<1>5. UnseenAttended BY DEF UnseenAttended, Unseen
<1> QED BY <1>2, <1>3, <1>4, <1>5 DEF IInv

\* What a lidar sends is a packet.
LEMMA FramesArePackets == \A l \in Lidars : PacketsOf[l] \subseteq Packets
BY PathAssumption DEF Lidars

\* Steps of the pusher that touch a queue.
LEMMA PushLidarDataIInv ==
  ASSUME IInv, NEW l \in Lidars, NEW p \in Packets, PushLidarData(l, p)
  PROVE  IInv'
<1> DEFINE q == IF Allocated(data[l]) THEN data[l] ELSE InitQueue(QueueSize)
<1>0. /\ data \in [Lidars -> Queue] /\ poller.lidar \in Lidars
     /\ p \in AnyPacket /\ NoPacket \in AnyPacket
  BY DEF IInv, TypeOK, AnyPacket
<1>1. q \in Queue /\ Allocated(q) /\ (QueueIsEmpty(q) <=> QueueIsEmpty(data[l]))
  BY <1>0, InitQueueType DEF IInv, OnlyAllocatedUsed
<1>2. PICK r \in Queue : /\ data' = [data EXCEPT ![l] = r]
                         /\ Allocated(r)
                         /\ QueueIsEmpty(r) <=> QueueIsEmpty(data[l])
  <2>1. CASE QueueIsFull(q) BY <2>1, <1>1 DEF PushLidarData
  <2>2. CASE ~QueueIsFull(q)
    <3>1. data' = [data EXCEPT ![l] = FillSlot(q, Torn)] BY <2>2 DEF PushLidarData
    <3> HIDE DEF q
    <3> QED BY <3>1, <1>1, FillSlotType
  <2> QED BY <2>1, <2>2
<1>3. \/ pusher' = [at |-> "full", lidar |-> l, packet |-> NoPacket]
     \/ pusher' = [at |-> "fill", lidar |-> l, packet |-> p]
  BY DEF PushLidarData
<1>4. /\ pusher.at = "idle"
     /\ UNCHANGED <<connect_state, pcd_semaphore, poller, exit, published, fresh>>
  BY DEF PushLidarData
<1> HIDE DEF q
<1>5. TypeOK' BY <1>0, <1>2, <1>3, <1>4 DEF IInv, TypeOK
<1>6. SignalFromZero' /\ PacketInHand' BY <1>3 DEF SignalFromZero, PacketInHand
<1>7. data' \in [Lidars -> Queue] /\ data'[l] = r /\ \A m \in Lidars \ {l} : data'[m] = data[m]
  BY <1>0, <1>2
<1>8. OnlyAllocatedUsed'
  BY <1>0, <1>2, <1>3, <1>4, <1>7 DEF IInv, OnlyAllocatedUsed
<1>9. \A m \in Lidars : (Unseen(m))' => Unseen(m) BY <1>2, <1>4, <1>7 DEF Unseen
<1>10. \A m \in Lidars : Attended(m) => Attended(m)'
  BY <1>4 DEF Attended, IsRequestExit
<1> QED BY <1>5, <1>6, <1>8, <1>9, <1>10 DEF IInv, UnseenAttended

LEMMA PusherFinishesIInv == ASSUME IInv, PusherFinishes PROVE IInv'
<1> DEFINE l == pusher.lidar
<1>0. /\ data \in [Lidars -> Queue] /\ l \in Lidars /\ pcd_semaphore \in 0 .. 1
     /\ pusher = [at |-> pusher.at, lidar |-> l, packet |-> pusher.packet]
     /\ 0 \in Lidars /\ poller.lidar \in Lidars /\ NoPacket \in AnyPacket
  BY PathAssumption DEF IInv, TypeOK, AnyPacket, Lidars
<1>1. CASE Fill
  <2>1. Allocated(data[l]) /\ pusher.packet \in Packets
    BY <1>1 DEF Fill, IInv, OnlyAllocatedUsed, PacketInHand
  <2> DEFINE r == FillSlot(data[l], pusher.packet)
  <2>2. r \in Queue /\ Allocated(r) /\ (QueueIsEmpty(r) <=> QueueIsEmpty(data[l]))
    BY <1>0, <2>1, FillSlotType
  <2>3. data' = [data EXCEPT ![l] = r] BY <1>1 DEF Fill
  <2> HIDE DEF r
  <2>4. data' \in [Lidars -> Queue] /\ data'[l] = r /\ \A m \in Lidars \ {l} : data'[m] = data[m]
    BY <1>0, <2>2, <2>3
  <2>5. pusher' = [at |-> "advance", lidar |-> l, packet |-> pusher.packet]
    BY <1>0, <1>1 DEF Fill, PusherGoes
  <2>6. /\ pusher.at = "fill"
        /\ UNCHANGED <<connect_state, pcd_semaphore, poller, exit, published, fresh>>
    BY <1>1 DEF Fill
  <2>7. TypeOK' BY <1>0, <2>4, <2>5, <2>6 DEF IInv, TypeOK
  <2>8. SignalFromZero' /\ PacketInHand' BY <2>5 DEF SignalFromZero, PacketInHand
  <2>9. OnlyAllocatedUsed' BY <1>0, <2>2, <2>4, <2>5, <2>6 DEF IInv, OnlyAllocatedUsed
  <2>10. \A m \in Lidars : (Unseen(m))' => Unseen(m) BY <2>2, <2>4, <2>6 DEF Unseen
  <2>11. \A m \in Lidars : Attended(m) => Attended(m)' BY <2>6 DEF Attended, IsRequestExit
  <2> QED BY <2>7, <2>8, <2>9, <2>10, <2>11 DEF IInv, UnseenAttended
<1>2. CASE Advance
  <2>1. Allocated(data[l]) BY <1>2 DEF Advance, IInv, OnlyAllocatedUsed
  <2> DEFINE r == AdvanceWrite(data[l])
  <2>2. r \in Queue /\ Allocated(r) BY <1>0, <2>1, AdvanceType
  <2>3. data' = [data EXCEPT ![l] = r] BY <1>2 DEF Advance
  <2> HIDE DEF r
  <2>4. data' \in [Lidars -> Queue] /\ data'[l] = r /\ \A m \in Lidars \ {l} : data'[m] = data[m]
    BY <1>0, <2>2, <2>3
  <2>5. pusher' = [at |-> "pushed", lidar |-> l, packet |-> pusher.packet]
    BY <1>0, <1>2 DEF Advance, PusherGoes
  <2>6. /\ pusher.at = "advance"
        /\ UNCHANGED <<connect_state, pcd_semaphore, poller, exit, published, fresh>>
    BY <1>2 DEF Advance
  <2>7. TypeOK' BY <1>0, <2>4, <2>5, <2>6 DEF IInv, TypeOK
  <2>8. SignalFromZero' /\ PacketInHand' BY <2>5 DEF SignalFromZero, PacketInHand
  <2>9. OnlyAllocatedUsed' BY <1>0, <2>2, <2>4, <2>5, <2>6 DEF IInv, OnlyAllocatedUsed
  <2>10. \A m \in Lidars \ {l} : (Unseen(m))' => Unseen(m) BY <2>4, <2>6 DEF Unseen
  <2>11. \A m \in Lidars : Attended(m) => Attended(m)' BY <2>6 DEF Attended, IsRequestExit
  <2>12. \A m \in Lidars : m = l => Attended(m)' BY <2>5 DEF Attended
  <2>13. \A m \in Lidars : (Unseen(m))' => (Attended(m))'
    <3> SUFFICES ASSUME NEW m \in Lidars, (Unseen(m))' PROVE (Attended(m))' OBVIOUS
    <3>1. CASE m = l BY <3>1, <2>12
    <3>2. CASE m # l
      <4>1. Unseen(m) => Attended(m) BY DEF IInv, UnseenAttended
      <4>2. m \in Lidars \ {l} BY <3>2
      <4> QED BY <4>1, <4>2, <2>10, <2>11
    <3> QED BY <3>1, <3>2
  <2> QED BY <2>7, <2>8, <2>9, <2>13 DEF IInv, UnseenAttended
<1>3. CASE LookIfEmpty
  <2>1. /\ pusher.at = "pushed"
        /\ UNCHANGED <<data, connect_state, pcd_semaphore, poller, exit, published, fresh>>
    BY <1>3 DEF LookIfEmpty
  <2>2. \/ QueueIsEmpty(data[l]) /\ pusher' = Idle
        \/ pusher' = [at |-> "count", lidar |-> l, packet |-> pusher.packet]
    BY <1>0, <1>3 DEF LookIfEmpty
  <2>3. TypeOK' BY <1>0, <2>1, <2>2 DEF IInv, TypeOK, Idle
  <2>4. SignalFromZero' /\ PacketInHand' BY <2>2 DEF SignalFromZero, PacketInHand, Idle
  <2>5. OnlyAllocatedUsed' BY <2>1, <2>2 DEF IInv, OnlyAllocatedUsed, Idle
  <2>6. \A m \in Lidars : (Unseen(m))' => Unseen(m) BY <2>1 DEF Unseen
  <2>7. \A m \in Lidars : Unseen(m) /\ Attended(m) => Attended(m)'
    BY <2>1, <2>2 DEF Attended, IsRequestExit, Unseen
  <2> QED BY <2>3, <2>4, <2>5, <2>6, <2>7 DEF IInv, UnseenAttended
<1>4. CASE LookAtCount
  <2>1. /\ pusher.at \in {"count", "full"}
        /\ UNCHANGED <<data, connect_state, pcd_semaphore, poller, exit, published, fresh>>
    BY <1>4 DEF LookAtCount
  <2>2. \/ pcd_semaphore = 0 /\ pusher' = [at |-> "signal", lidar |-> l, packet |-> pusher.packet]
        \/ pcd_semaphore > 0 /\ pusher' = Idle
    BY <1>0, <1>4 DEF LookAtCount
  <2>3. TypeOK' BY <1>0, <2>1, <2>2 DEF IInv, TypeOK, Idle
  <2>4. SignalFromZero' /\ PacketInHand' BY <2>1, <2>2 DEF SignalFromZero, PacketInHand, Idle
  <2>5. OnlyAllocatedUsed' BY <2>1, <2>2 DEF IInv, OnlyAllocatedUsed, Idle
  <2>6. \A m \in Lidars : (Attended(m))' BY <2>1, <2>2 DEF Attended
  <2> QED BY <2>3, <2>4, <2>5, <2>6 DEF IInv, UnseenAttended
<1>5. CASE Signal
  <2>1. /\ pusher.at = "signal" /\ pcd_semaphore' = pcd_semaphore + 1 /\ pusher' = Idle
        /\ UNCHANGED <<data, connect_state, poller, exit, published, fresh>>
    BY <1>5 DEF Signal
  <2>2. pcd_semaphore' = 1 BY <2>1 DEF IInv, SignalFromZero
  <2>3. TypeOK' BY <1>0, <2>1, <2>2 DEF IInv, TypeOK, Idle
  <2>4. SignalFromZero' /\ PacketInHand' BY <2>1 DEF SignalFromZero, PacketInHand, Idle
  <2>5. OnlyAllocatedUsed' BY <2>1 DEF IInv, OnlyAllocatedUsed, Idle
  <2>6. \A m \in Lidars : (Attended(m))' BY <2>2 DEF Attended
  <2> QED BY <2>3, <2>4, <2>5, <2>6 DEF IInv, UnseenAttended
<1> QED BY <1>1, <1>2, <1>3, <1>4, <1>5 DEF PusherFinishes

\* The next lidar, or the end of the loop, attends to every lidar after this one.
LEMMA NextLidarMoves ==
  ASSUME TypeOK, NextLidar
  PROVE  /\ poller' \in [at : {"visit", "future"}, lidar : Lidars, packet : AnyPacket]
         /\ \A m \in Lidars \ {poller.lidar} :
              poller.lidar <= m => poller'.at = "visit" /\ poller'.lidar <= m
<1>1. /\ poller.lidar \in 0 .. LidarCount - 1 /\ poller.packet \in AnyPacket
     /\ poller = [at |-> poller.at, lidar |-> poller.lidar, packet |-> poller.packet]
  BY DEF TypeOK, Lidars
<1>2. CASE poller.lidar = LidarCount - 1
  <2>1. poller' = [at |-> "future", lidar |-> poller.lidar, packet |-> poller.packet]
    BY <1>1, <1>2 DEF NextLidar
  <2> QED BY <1>1, <1>2, <2>1, PathAssumption DEF Lidars
<1>3. CASE poller.lidar # LidarCount - 1
  <2>1. poller' = [at |-> "visit", lidar |-> poller.lidar + 1, packet |-> poller.packet]
    BY <1>1, <1>3 DEF NextLidar
  <2> QED BY <1>1, <1>3, <2>1, PathAssumption DEF Lidars
<1> QED BY <1>2, <1>3

LEMMA PollerIInv == ASSUME IInv, Poller PROVE IInv'
<1> DEFINE k == poller.lidar
<1>0. /\ data \in [Lidars -> Queue] /\ k \in Lidars /\ pcd_semaphore \in 0 .. 1
     /\ poller = [at |-> poller.at, lidar |-> k, packet |-> poller.packet]
     /\ poller.packet \in AnyPacket /\ NoPacket \in AnyPacket /\ pusher.lidar \in Lidars
     /\ 0 \in Lidars /\ \A m \in Lidars : m \in Nat /\ 0 <= m
  BY PathAssumption DEF IInv, TypeOK, AnyPacket, Lidars
<1>1. CASE CheckExit
  <2>1. /\ poller.at = "check"
        /\ UNCHANGED <<data, connect_state, pcd_semaphore, pusher, exit, published, fresh>>
    BY <1>1 DEF CheckExit
  <2>2. \/ IsRequestExit /\ poller' = [at |-> "future", lidar |-> k, packet |-> poller.packet]
        \/ ~IsRequestExit /\ poller' = [at |-> "wait", lidar |-> k, packet |-> poller.packet]
    BY <1>0, <1>1 DEF CheckExit, PollerGoes
  <2>3. TypeOK' BY <1>0, <2>1, <2>2 DEF IInv, TypeOK
  <2>4. SignalFromZero' /\ PacketInHand' BY <2>1 DEF IInv, SignalFromZero, PacketInHand
  <2>5. OnlyAllocatedUsed' BY <1>0, <2>1, <2>2 DEF IInv, OnlyAllocatedUsed
  <2>6. \A m \in Lidars : (Unseen(m))' => Unseen(m) BY <2>1 DEF Unseen
  <2>7. \A m \in Lidars : Attended(m) => Attended(m)'
    BY <2>1, <2>2 DEF Attended, IsRequestExit
  <2> QED BY <2>3, <2>4, <2>5, <2>6, <2>7 DEF IInv, UnseenAttended
<1>2. CASE Wait
  <2>1. /\ poller.at = "wait" /\ pcd_semaphore = 1 /\ pcd_semaphore' = 0
        /\ poller' = [at |-> "visit", lidar |-> 0, packet |-> NoPacket]
        /\ UNCHANGED <<data, connect_state, pusher, exit, published, fresh>>
    BY <1>0, <1>2 DEF Wait
  <2>2. TypeOK' BY <1>0, <2>1 DEF IInv, TypeOK
  <2>3. SignalFromZero' /\ PacketInHand' BY <2>1 DEF IInv, SignalFromZero, PacketInHand
  <2>4. OnlyAllocatedUsed' BY <1>0, <2>1 DEF IInv, OnlyAllocatedUsed
  <2>5. \A m \in Lidars : (Attended(m))' BY <1>0, <2>1 DEF Attended
  <2> QED BY <2>2, <2>3, <2>4, <2>5 DEF IInv, UnseenAttended
<1>3. CASE Visit
  <2>1. /\ poller.at = "visit"
        /\ fresh' = IF connect_state[k] = "sampling" THEN fresh \ {k} ELSE fresh
        /\ UNCHANGED <<data, connect_state, pcd_semaphore, pusher, exit, published>>
    BY <1>3 DEF Visit
  <2>2. \/ /\ connect_state[k] = "sampling" /\ Allocated(data[k])
           /\ poller' = [at |-> "poll", lidar |-> k, packet |-> poller.packet]
        \/ /\ connect_state[k] # "sampling" \/ ~Allocated(data[k])
           /\ NextLidar
    BY <1>0, <1>3 DEF Visit, PollerGoes
  <2>3. TypeOK BY DEF IInv
  <2>4. TypeOK' BY <1>0, <2>1, <2>2, <2>3, NextLidarMoves DEF TypeOK
  <2>5. SignalFromZero' /\ PacketInHand' BY <2>1 DEF IInv, SignalFromZero, PacketInHand
  <2>6. OnlyAllocatedUsed'
    BY <1>0, <2>1, <2>2, <2>3, NextLidarMoves DEF IInv, OnlyAllocatedUsed
  <2>7. \A m \in Lidars \ {k} : (Unseen(m))' => Unseen(m) BY <2>1 DEF Unseen
  <2>8. \A m \in Lidars \ {k} : Attended(m) => Attended(m)'
    BY <1>0, <2>1, <2>2, <2>3, NextLidarMoves DEF Attended, IsRequestExit
  <2>9. \A m \in Lidars : m = k /\ (Unseen(m))' => (Attended(m))'
    BY <1>0, <2>1, <2>2 DEF IInv, OnlyAllocatedUsed, Unseen, Attended
  <2>10. \A m \in Lidars : (Unseen(m))' => (Attended(m))'
    <3> SUFFICES ASSUME NEW m \in Lidars, (Unseen(m))' PROVE (Attended(m))' OBVIOUS
    <3>1. CASE m = k BY <3>1, <2>9
    <3>2. CASE m # k
      <4>1. Unseen(m) => Attended(m) BY DEF IInv, UnseenAttended
      <4>2. m \in Lidars \ {k} BY <3>2
      <4> QED BY <4>1, <4>2, <2>7, <2>8
    <3> QED BY <3>1, <3>2
  <2> QED BY <2>4, <2>5, <2>6, <2>10 DEF IInv, UnseenAttended
<1>4. CASE Poll
  <2>1. /\ poller.at = "poll"
        /\ UNCHANGED <<data, connect_state, pcd_semaphore, pusher, exit, published, fresh>>
    BY <1>4 DEF Poll
  <2>2. \/ poller' = [at |-> "drain", lidar |-> k, packet |-> poller.packet]
        \/ (IsRequestExit \/ QueueIsEmpty(data[k])) /\ NextLidar
    BY <1>0, <1>4 DEF Poll, PollerGoes
  <2>3. TypeOK BY DEF IInv
  <2>4. TypeOK' BY <1>0, <2>1, <2>2, <2>3, NextLidarMoves DEF TypeOK
  <2>5. SignalFromZero' /\ PacketInHand' BY <2>1 DEF IInv, SignalFromZero, PacketInHand
  <2>6. OnlyAllocatedUsed'
    BY <1>0, <2>1, <2>2, <2>3, NextLidarMoves DEF IInv, OnlyAllocatedUsed
  <2>7. \A m \in Lidars : (Unseen(m))' => Unseen(m) BY <2>1 DEF Unseen
  <2>8. \A m \in Lidars \ {k} : Attended(m) => Attended(m)'
    BY <1>0, <2>1, <2>2, <2>3, NextLidarMoves DEF Attended, IsRequestExit
  <2>9. \A m \in Lidars : m = k /\ Unseen(m) => Attended(m)'
    BY <1>0, <2>1, <2>2, <2>3, NextLidarMoves DEF Attended, IsRequestExit, Unseen
  <2>10. \A m \in Lidars : (Unseen(m))' => (Attended(m))'
    <3> SUFFICES ASSUME NEW m \in Lidars, (Unseen(m))' PROVE (Attended(m))' OBVIOUS
    <3>1. CASE m = k BY <3>1, <2>7, <2>9
    <3>2. CASE m # k
      <4>1. Unseen(m) => Attended(m) BY DEF IInv, UnseenAttended
      <4>2. m \in Lidars \ {k} BY <3>2
      <4> QED BY <4>1, <4>2, <2>7, <2>8
    <3> QED BY <3>1, <3>2
  <2> QED BY <2>4, <2>5, <2>6, <2>10 DEF IInv, UnseenAttended
<1>5. CASE Drain
  <2>1. /\ poller.at = "drain"
        /\ UNCHANGED <<data, connect_state, pcd_semaphore, pusher, exit, published, fresh>>
    BY <1>5 DEF Drain
  <2>2. QueuePrePop(data[k]) \in AnyPacket
    <3>1. Allocated(data[k]) BY <2>1 DEF IInv, OnlyAllocatedUsed
    <3>2. /\ data[k] \in Queue /\ data[k].rd_idx \in Index
          /\ data[k].storage_packet \in [1 .. data[k].size -> Packets \union {Torn}]
      BY <1>0, QueueFields
    <3>3. Slot(data[k], data[k].rd_idx) \in 1 .. data[k].size BY <3>1, <3>2, SlotInRange
    <3> QED BY <3>2, <3>3 DEF QueuePrePop, AnyPacket
  <2>3. \/ poller' = [at |-> "poll", lidar |-> k, packet |-> poller.packet]
        \/ poller' = [at |-> "copied", lidar |-> k, packet |-> QueuePrePop(data[k])]
    BY <1>0, <1>5 DEF Drain
  <2>4. TypeOK' BY <1>0, <2>1, <2>2, <2>3 DEF IInv, TypeOK
  <2>5. SignalFromZero' /\ PacketInHand' BY <2>1 DEF IInv, SignalFromZero, PacketInHand
  <2>6. OnlyAllocatedUsed' BY <1>0, <2>1, <2>3 DEF IInv, OnlyAllocatedUsed
  <2>7. \A m \in Lidars : (Unseen(m))' => Unseen(m) BY <2>1 DEF Unseen
  <2>8. \A m \in Lidars : Attended(m) => Attended(m)'
    BY <1>0, <2>1, <2>3 DEF Attended, IsRequestExit
  <2> QED BY <2>4, <2>5, <2>6, <2>7, <2>8 DEF IInv, UnseenAttended
<1>6. CASE Publish
  <2>1. Allocated(data[k]) BY <1>6 DEF Publish, IInv, OnlyAllocatedUsed
  <2> DEFINE r == QueuePopUpdate(data[k])
  <2>2. r \in Queue /\ Allocated(r) BY <1>0, <2>1, AdvanceType
  <2>3. data' = [data EXCEPT ![k] = r] BY <1>6 DEF Publish
  <2> HIDE DEF r
  <2>4. data' \in [Lidars -> Queue] /\ data'[k] = r /\ \A m \in Lidars \ {k} : data'[m] = data[m]
    BY <1>0, <2>2, <2>3
  <2>5. /\ poller.at = "copied"
        /\ poller' = [at |-> "drain", lidar |-> k, packet |-> NoPacket]
        /\ published' = [published EXCEPT ![k] = {poller.packet}]
        /\ UNCHANGED <<connect_state, pcd_semaphore, pusher, exit, fresh>>
    BY <1>0, <1>6 DEF Publish
  <2>6. TypeOK' BY <1>0, <2>4, <2>5 DEF IInv, TypeOK
  <2>7. SignalFromZero' /\ PacketInHand' BY <2>5 DEF IInv, SignalFromZero, PacketInHand
  <2>8. OnlyAllocatedUsed' BY <1>0, <2>2, <2>4, <2>5 DEF IInv, OnlyAllocatedUsed
  <2>9. \A m \in Lidars \ {k} : (Unseen(m))' => Unseen(m) BY <2>4, <2>5 DEF Unseen
  <2>10. \A m \in Lidars : Attended(m) => Attended(m)' BY <1>0, <2>5 DEF Attended, IsRequestExit
  <2>11. \A m \in Lidars : m = k => (Attended(m))' BY <1>0, <2>5 DEF Attended
  <2>12. \A m \in Lidars : (Unseen(m))' => (Attended(m))'
    <3> SUFFICES ASSUME NEW m \in Lidars, (Unseen(m))' PROVE (Attended(m))' OBVIOUS
    <3>1. CASE m = k BY <3>1, <2>11
    <3>2. CASE m # k
      <4>1. Unseen(m) => Attended(m) BY DEF IInv, UnseenAttended
      <4>2. m \in Lidars \ {k} BY <3>2
      <4> QED BY <4>1, <4>2, <2>9, <2>10
    <3> QED BY <3>1, <3>2
  <2> QED BY <2>6, <2>7, <2>8, <2>12 DEF IInv, UnseenAttended
<1>7. CASE CheckFuture
  <2>1. /\ poller.at = "future"
        /\ UNCHANGED <<data, connect_state, pcd_semaphore, pusher, exit, published, fresh>>
    BY <1>7 DEF CheckFuture
  <2>2. PICK a \in {"ended", "check"} :
          poller' = [at |-> a, lidar |-> k, packet |-> poller.packet]
    BY <1>0, <1>7 DEF CheckFuture, PollerGoes
  <2>3. TypeOK' BY <1>0, <2>1, <2>2 DEF IInv, TypeOK
  <2>4. SignalFromZero' /\ PacketInHand' BY <2>1 DEF IInv, SignalFromZero, PacketInHand
  <2>5. OnlyAllocatedUsed' BY <1>0, <2>1, <2>2 DEF IInv, OnlyAllocatedUsed
  <2>6. \A m \in Lidars : (Unseen(m))' => Unseen(m) BY <2>1 DEF Unseen
  <2>7. \A m \in Lidars : Attended(m) => Attended(m)'
    BY <2>1, <2>2 DEF Attended, IsRequestExit
  <2> QED BY <2>3, <2>4, <2>5, <2>6, <2>7 DEF IInv, UnseenAttended
<1> QED BY <1>1, <1>2, <1>3, <1>4, <1>5, <1>6, <1>7 DEF Poller

LEMMA StartSamplingIInv == ASSUME IInv, NEW l \in Lidars, StartSampling(l) PROVE IInv'
<1>1. /\ connect_state' = [connect_state EXCEPT ![l] = "sampling"]
     /\ fresh' = fresh \union {l}
     /\ UNCHANGED <<data, pcd_semaphore, pusher, poller, exit, published>>
  BY DEF StartSampling
<1>2. TypeOK' BY <1>1 DEF IInv, TypeOK
<1>3. SignalFromZero' /\ PacketInHand' /\ OnlyAllocatedUsed'
  BY <1>1 DEF IInv, SignalFromZero, PacketInHand, OnlyAllocatedUsed
<1>4. \A m \in Lidars : (Unseen(m))' => Unseen(m) BY <1>1 DEF IInv, TypeOK, Unseen
<1>5. \A m \in Lidars : Attended(m) => Attended(m)' BY <1>1 DEF Attended, IsRequestExit
<1> QED BY <1>2, <1>3, <1>4, <1>5 DEF IInv, UnseenAttended

LEMMA DestroyIInv == ASSUME IInv, Destroy PROVE IInv'
<1>1. /\ exit' \in {"requested", "signalled", "joined"}
     /\ UNCHANGED <<data, connect_state, pcd_semaphore, pusher, poller, published, fresh>>
  BY DEF Destroy, ControlSteps
<1>2. TypeOK' BY <1>1 DEF IInv, TypeOK
<1>3. SignalFromZero' /\ PacketInHand' /\ OnlyAllocatedUsed'
  BY <1>1 DEF IInv, SignalFromZero, PacketInHand, OnlyAllocatedUsed
<1>4. \A m \in Lidars : (Unseen(m))' => Unseen(m) BY <1>1 DEF Unseen
<1>5. \A m \in Lidars : Attended(m) => Attended(m)' BY <1>1 DEF Attended, IsRequestExit
<1> QED BY <1>2, <1>3, <1>4, <1>5 DEF IInv, UnseenAttended

LEMMA StutterIInv == ASSUME IInv, UNCHANGED vars PROVE IInv'
<1>1. TypeOK' BY DEF IInv, TypeOK, vars
<1>2. SignalFromZero' /\ PacketInHand' /\ OnlyAllocatedUsed'
  BY DEF IInv, SignalFromZero, PacketInHand, OnlyAllocatedUsed, vars
<1>3. \A m \in Lidars : ((Unseen(m))' => Unseen(m)) /\ (Attended(m) => Attended(m)')
  BY DEF Unseen, Attended, IsRequestExit, vars
<1> QED BY <1>1, <1>2, <1>3 DEF IInv, UnseenAttended

-----------------------------------------------------------------------------
\* Every reachable state of the driver's threads satisfies the inductive
\* invariant: a packet the poll thread has to publish is always somebody's job.
THEOREM InductiveInvariant == Spec => []IInv
<1>1. IInv /\ [Next]_vars => IInv'
  BY FramesArePackets, PushLidarDataIInv, PusherFinishesIInv, PollerIInv,
     StartSamplingIInv, DestroyIInv,
     StutterIInv DEF Next
<1> QED BY InitIInv, <1>1, PTL DEF Spec

\* PushLidarData and DistributePointCloudData lose no wakeup: the poll thread
\* does not sleep on a packet of a lidar it has been publishing, and the
\* semaphore of PushLidarData's unlocked test never counts past one.
THEOREM WakeupsAreKept == Spec => []WakeupsAreSound
<1>1. IInv => NoLostWakeup
  <2> SUFFICES ASSUME IInv, poller.at = "wait", pcd_semaphore = 0, pusher.at = "idle",
                      NEW l \in Lidars, Unseen(l)
               PROVE  FALSE
    BY DEF NoLostWakeup
  <2>1. Attended(l) BY DEF IInv, UnseenAttended
  <2> QED BY <2>1 DEF Attended
<1>2. IInv => WakeupsAreSound
  BY <1>1 DEF IInv, WakeupsAreSound
<1> QED BY InductiveInvariant, <1>2, PTL

-----------------------------------------------------------------------------
(***************************************************************************)
(* Remainders.  The indices run modulo 2 ^ IndexBits and the slots modulo  *)
(* the size of the ring, which divides it.                                 *)
(***************************************************************************)
\* The remainder, from the quotient.
LEMMA ModIs ==
  ASSUME NEW m \in Nat \ {0}, NEW a \in Int, NEW k \in Int, NEW r \in 0 .. m - 1, a = k * m + r
  PROVE  a % m = r
  BY SMT

\* A number is a multiple of the modulus and its remainder.
LEMMA ModDivides ==
  ASSUME NEW m \in Nat \ {0}, NEW a \in Int
  PROVE  /\ a % m \in 0 .. m - 1
         /\ a \div m \in Int
         /\ a = (a \div m) * m + (a % m)
<1>1. a % m \in 0 .. m - 1
  BY SMT
<1>2. a = (a \div m) * m + (a % m)
  BY SMT
<1> QED
  BY <1>1, <1>2, SMT

\* No multiple but zero is smaller than the modulus.
LEMMA Multiple ==
  ASSUME NEW m \in Nat \ {0}, NEW d \in Int, d * m \in 1 - m .. m - 1
  PROVE  d = 0
<1>1. ~ (d >= 1)
  <2>1. d >= 1 => d * m >= m
    BY SMT
  <2> QED
    BY <2>1
<1>2. ~ (d <= -1)
  <2>1. d <= -1 => d * m <= -m
    BY SMT
  <2> QED
    BY <2>1
<1> QED
  BY <1>1, <1>2

\* Numbers with the same remainder are equal or at least the modulus apart.
LEMMA ModApart ==
  ASSUME NEW m \in Nat \ {0}, NEW a \in Int, NEW b \in Int, a % m = b % m, b - a \in 1 - m .. m - 1
  PROVE  a = b
<1> DEFINE qa == a \div m
           qb == b \div m
<1>1. qa \in Int /\ qb \in Int /\ a = qa * m + (a % m) /\ b = qb * m + (a % m) /\ a % m \in Int
  BY ModDivides
<1> HIDE DEF qa, qb
<1>2. b - a = (qb - qa) * m
  BY <1>1, SMT
<1>3. qb - qa = 0
  BY <1>1, <1>2, Multiple
<1> QED
  BY <1>1, <1>3

\* Going round once does not change the remainder.
LEMMA ModRound ==
  ASSUME NEW m \in Nat \ {0}, NEW a \in Int
  PROVE  (a - m) % m = a % m
<1> DEFINE q == a \div m
           r == a % m
<1>1. q \in Int /\ r \in 0 .. m - 1 /\ a = q * m + r
  BY ModDivides
<1> HIDE DEF q, r
<1>2. a - m = (q - 1) * m + r /\ q - 1 \in Int /\ a - m \in Int
  BY <1>1, SMT
<1>3. \A b \in Int, k \in Int : b = k * m + r => b % m = r
  BY <1>1, ModIs
<1> QED
  BY <1>2, <1>3 DEF r

\* A remainder can be taken in two steps if the moduli divide.
LEMMA ModMod ==
  ASSUME NEW s \in Nat \ {0}, NEW k \in Nat \ {0}, NEW m \in Nat \ {0}, m = k * s, NEW a \in Int
  PROVE  (a % m) % s = a % s
<1> DEFINE q == a \div m
           r == a % m
           t == r \div s
           u == r % s
<1>1. q \in Int /\ r \in 0 .. m - 1 /\ a = q * m + r
  BY ModDivides
<1>2. t \in Int /\ u \in 0 .. s - 1 /\ r = t * s + u
  <2> HIDE DEF r
  <2>1. r \in Int
    BY <1>1
  <2> QED
    BY <2>1, ModDivides DEF t, u
<1> HIDE DEF q, r, t, u
<1>3. a = (q * k + t) * s + u /\ q * k + t \in Int
  BY <1>1, <1>2, SMT
<1>4. a % s = u
  BY <1>2, <1>3, ModIs
<1> QED
  BY <1>4 DEF u, r

-----------------------------------------------------------------------------
(***************************************************************************)
(* What a ring holds.                                                      *)
(***************************************************************************)
Modulus == 2 ^ IndexBits

\* The slot of the packet that is read after i others.
Place(q, i) == Slot(q, (q.rd_idx + i) % Modulus)

LEMMA RingNumbers ==
  /\ Modulus \in Nat \ {0} /\ Size \in Nat \ {0} /\ Size < Modulus
  /\ Modulus \div Size \in Nat \ {0} /\ Modulus = (Modulus \div Size) * Size
  /\ Index = 0 .. Modulus - 1
<1>1. Modulus \in Nat \ {0} /\ Size \in Nat \ {0} /\ Size < Modulus /\ Modulus % Size = 0
  BY PathAssumption DEF Modulus
<1> HIDE DEF Modulus
<1>2. Modulus \div Size \in Int /\ Modulus = (Modulus \div Size) * Size + (Modulus % Size)
  BY <1>1, ModDivides
<1>3. Modulus = (Modulus \div Size) * Size
  BY <1>1, <1>2
<1>4. Modulus \div Size > 0
  <2> DEFINE k == Modulus \div Size
  <2>1. k \in Int /\ Modulus = k * Size
    BY <1>2, <1>3
  <2> HIDE DEF k
  <2>2. ~ (k <= 0)
    <3>1. k <= 0 => k * Size <= 0
      BY <1>1, <2>1, SMT
    <3> QED BY <1>1, <2>1, <3>1
  <2> QED BY <2>1, <2>2 DEF k
<1>5. Modulus \div Size \in Nat \ {0}
  BY <1>2, <1>4
<1>6. Index = 0 .. Modulus - 1
  BY DEF Index, Modulus
<1> QED BY <1>1, <1>3, <1>5, <1>6

\* How many packets are between the indices, wrapped or not.
LEMMA UsedIs ==
  ASSUME NEW q \in Queue
  PROVE  /\ QueueUsedSize(q) = IF q.wr_idx >= q.rd_idx THEN q.wr_idx - q.rd_idx
                               ELSE q.wr_idx - q.rd_idx + Modulus
         /\ QueueUsedSize(q) \in 0 .. Modulus - 1
         /\ QueueIsEmpty(q) <=> QueueUsedSize(q) = 0
<1>1. q.rd_idx \in 0 .. Modulus - 1 /\ q.wr_idx \in 0 .. Modulus - 1 /\ Modulus \in Nat \ {0}
  BY QueueFields, RingNumbers
<1>2. QueueUsedSize(q) = (q.wr_idx - q.rd_idx) % Modulus
  BY DEF QueueUsedSize, Modulus
<1>3. ASSUME NEW d \in Int, d = q.wr_idx - q.rd_idx
      PROVE  d % Modulus = IF q.wr_idx >= q.rd_idx THEN d ELSE d + Modulus
  <2>1. CASE q.wr_idx >= q.rd_idx
    <3>1. d \in 0 .. Modulus - 1 /\ d = 0 * Modulus + d
      BY <1>1, <1>3, <2>1
    <3>2. d % Modulus = d
      BY <1>1, <3>1, ModIs
    <3> QED BY <2>1, <3>2
  <2>2. CASE ~ (q.wr_idx >= q.rd_idx)
    <3>1. d + Modulus \in 0 .. Modulus - 1 /\ d = (-1) * Modulus + (d + Modulus) /\ -1 \in Int
      BY <1>1, <1>3, <2>2
    <3>2. d % Modulus = d + Modulus
      <4> DEFINE r == d + Modulus
                 k == -1
      <4> HIDE DEF r, k
      <4>1. r \in 0 .. Modulus - 1 /\ k \in Int /\ d = k * Modulus + r
        BY <3>1 DEF r, k
      <4> QED BY <1>1, <4>1, ModIs DEF r
    <3> QED BY <2>2, <3>2
  <2> QED BY <2>1, <2>2
<1>4. QueueUsedSize(q) = IF q.wr_idx >= q.rd_idx THEN q.wr_idx - q.rd_idx
                         ELSE q.wr_idx - q.rd_idx + Modulus
  BY <1>1, <1>2, <1>3
<1> QED BY <1>1, <1>4 DEF QueueIsEmpty

LEMMA IncrementIs ==
  ASSUME NEW i \in Index
  PROVE  Increment(i) = IF i = Modulus - 1 THEN 0 ELSE i + 1
<1>1. Modulus \in Nat \ {0} /\ i \in 0 .. Modulus - 1 /\ Increment(i) = (i + 1) % Modulus
  BY RingNumbers DEF Increment, Modulus
<1>2. CASE i = Modulus - 1
  <2>1. i + 1 = 1 * Modulus + 0 /\ 0 \in 0 .. Modulus - 1 /\ i + 1 \in Int
    BY <1>1, <1>2
  <2>2. (i + 1) % Modulus = 0
    BY <1>1, <2>1, ModIs
  <2> QED BY <1>1, <1>2, <2>2
<1>3. CASE i # Modulus - 1
  <2>1. i + 1 = 0 * Modulus + (i + 1) /\ i + 1 \in 0 .. Modulus - 1
    BY <1>1, <1>3
  <2>2. (i + 1) % Modulus = i + 1
    BY <1>1, <2>1, ModIs
  <2> QED BY <1>1, <1>3, <2>2
<1> QED BY <1>2, <1>3

\* The next free slot comes after those of the packets in the ring.
LEMMA WritePlace ==
  ASSUME NEW q \in Queue
  PROVE  Slot(q, q.wr_idx) = Place(q, QueueUsedSize(q))
<1> DEFINE u == QueueUsedSize(q)
<1>1. q.rd_idx \in 0 .. Modulus - 1 /\ q.wr_idx \in 0 .. Modulus - 1 /\ Modulus \in Nat \ {0}
  BY QueueFields, RingNumbers
<1>2. u = IF q.wr_idx >= q.rd_idx THEN q.wr_idx - q.rd_idx ELSE q.wr_idx - q.rd_idx + Modulus
  BY UsedIs
<1> HIDE DEF u
<1>3. \E k \in Int : q.rd_idx + u = k * Modulus + q.wr_idx
  <2>1. CASE q.wr_idx >= q.rd_idx
    <3>1. q.rd_idx + u = 0 * Modulus + q.wr_idx BY <1>1, <1>2, <2>1
    <3> QED BY <3>1
  <2>2. CASE q.wr_idx < q.rd_idx
    <3>1. q.rd_idx + u = 1 * Modulus + q.wr_idx BY <1>1, <1>2, <2>2
    <3> QED BY <3>1
  <2> QED BY <1>1, <2>1, <2>2
<1>4. q.rd_idx + u \in Int
  BY <1>1, <1>2
<1>5. (q.rd_idx + u) % Modulus = q.wr_idx
  BY <1>1, <1>3, <1>4, ModIs
<1> QED BY <1>5 DEF Place, u

\* As many packets as the ring has slots are in different slots.
LEMMA PlacesDiffer ==
  ASSUME NEW q \in Queue, Allocated(q), NEW i \in 0 .. Size - 1, NEW j \in 0 .. Size - 1,
         Place(q, i) = Place(q, j)
  PROVE  i = j
<1>1. /\ q.rd_idx \in Nat /\ q.size = Size /\ Size \in Nat \ {0} /\ Modulus \in Nat \ {0}
      /\ i \in Int /\ j \in Int
  BY QueueFields, RingNumbers DEF Allocated
<1>2. ASSUME NEW n \in Nat
      PROVE  Slot(q, n % Modulus) = (n % Size) + 1
  <2> DEFINE k == Modulus \div Size
  <2>1. k \in Nat \ {0} /\ Modulus = k * Size
    BY RingNumbers
  <2> HIDE DEF k
  <2>2. /\ Size \in Nat \ {0} /\ Modulus \in Nat \ {0} /\ n \in Int
    BY <1>1
  <2>3. (n % Modulus) % Size = n % Size
    BY <2>1, <2>2, ModMod, Zenon
  <2> QED BY <1>1, <2>3 DEF Slot
<1>3. ((q.rd_idx + i) % Size) + 1 = ((q.rd_idx + j) % Size) + 1
  BY <1>1, <1>2 DEF Place
<1>4. (q.rd_idx + i) % Size = (q.rd_idx + j) % Size
  <2>1. (q.rd_idx + i) % Size \in Int /\ (q.rd_idx + j) % Size \in Int
    BY <1>1, ModDivides
  <2> QED BY <1>3, <2>1
<1>5. (q.rd_idx + j) - (q.rd_idx + i) \in 1 - Size .. Size - 1 /\ q.rd_idx + i \in Int /\ q.rd_idx + j \in Int
  BY <1>1
<1>6. q.rd_idx + i = q.rd_idx + j
  BY <1>1, <1>4, <1>5, ModApart
<1> QED BY <1>1, <1>6

\* What the ring holds is a sequence of as many packets as there are between the
\* indices; a queue that was never allocated holds none.
LEMMA HeldIs ==
  ASSUME NEW q \in Queue, Allocated(q) \/ QueueIsEmpty(q)
  PROVE  /\ Held(q) \in Seq(Packets \union {Torn})
         /\ Len(Held(q)) = QueueUsedSize(q)
         /\ \A k \in 1 .. QueueUsedSize(q) : Held(q)[k] = q.storage_packet[Place(q, k - 1)]
<1> DEFINE u == QueueUsedSize(q)
<1>1. u \in Nat /\ q.rd_idx \in Int /\ Modulus \in Nat \ {0}
      /\ q.storage_packet \in [1 .. q.size -> Packets \union {Torn}]
  BY UsedIs, RingNumbers, QueueFields
<1>2. Held(q) = [k \in 1 .. u |-> q.storage_packet[Slot(q, (q.rd_idx + k - 1) % Modulus)]]
  BY DEF Held, Modulus
<1>3. \A k \in 1 .. u : q.rd_idx + k - 1 = q.rd_idx + (k - 1) /\ q.rd_idx + (k - 1) \in Int
  BY <1>1
<1>4. \A k \in 1 .. u : Slot(q, (q.rd_idx + k - 1) % Modulus) = Place(q, k - 1)
  BY <1>3 DEF Place
<1>5. ASSUME NEW k \in 1 .. u PROVE q.storage_packet[Place(q, k - 1)] \in Packets \union {Torn}
  <2>1. Allocated(q)
    BY <1>1, UsedIs
  <2>2. (q.rd_idx + (k - 1)) % Modulus \in Index
    BY <1>1, <1>3, ModDivides, RingNumbers
  <2>3. Place(q, k - 1) \in 1 .. q.size
    BY <2>1, <2>2, SlotInRange DEF Place
  <2> QED BY <1>1, <2>3
<1> HIDE DEF u
<1>6. /\ DOMAIN Held(q) = 1 .. u
      /\ \A k \in 1 .. u : Held(q)[k] = q.storage_packet[Place(q, k - 1)]
      /\ Held(q) = [k \in 1 .. u |-> Held(q)[k]]
  BY <1>2, <1>4
<1>7. Held(q) \in [1 .. u -> Packets \union {Torn}]
  BY <1>5, <1>6
<1> QED BY <1>1, <1>6, <1>7 DEF u

\* The sequence that is found in the slots from the read index on is what the
\* ring holds.
LEMMA HeldSame ==
  ASSUME NEW r \in Queue, Allocated(r),
         NEW s \in Seq(Packets \union {Torn}), Len(s) = QueueUsedSize(r),
         \A k \in 1 .. Len(s) : s[k] = r.storage_packet[Place(r, k - 1)]
  PROVE  Held(r) = s
<1> DEFINE h == Held(r)
<1>1. h \in Seq(Packets \union {Torn}) /\ Len(h) = Len(s)
      /\ \A k \in 1 .. Len(s) : h[k] = s[k]
  BY HeldIs
<1> HIDE DEF h
<1>2. h = s BY <1>1
<1> QED BY <1>2 DEF h

\* Filling the next free slot leaves the packets in the ring as they were.
LEMMA FillKeepsHeld ==
  ASSUME NEW q \in Queue, Allocated(q), NEW content \in Packets \union {Torn},
         QueueUsedSize(q) < Size
  PROVE  LET r == FillSlot(q, content)
         IN  /\ Held(r) = Held(q) /\ QueueUsedSize(r) = QueueUsedSize(q)
             /\ r.storage_packet[Slot(r, r.wr_idx)] = content
             /\ ~QueueIsEmpty(q) => QueuePrePop(r) = QueuePrePop(q)
<1> DEFINE r == FillSlot(q, content)
           i == Slot(q, q.wr_idx)
           u == QueueUsedSize(q)
<1>1. i \in 1 .. q.size /\ i = Place(q, u) /\ u \in 0 .. Size - 1 /\ Size \in Nat
  BY SlotInRange, WritePlace, QueueFields, UsedIs, RingNumbers
<1>2. r \in Queue /\ Allocated(r)
  BY FillSlotType
<1>3. /\ r.storage_packet = [q.storage_packet EXCEPT ![i] = content]
      /\ r.rd_idx = q.rd_idx /\ r.wr_idx = q.wr_idx /\ r.size = q.size
  BY QueueFields DEF FillSlot
<1>4. QueueUsedSize(r) = u /\ Slot(r, r.wr_idx) = i /\ \A k : Place(r, k) = Place(q, k)
  BY <1>3 DEF QueueUsedSize, Slot, Place
<1>5. ASSUME NEW k \in 0 .. Size - 1, k # u
      PROVE  r.storage_packet[Place(q, k)] = q.storage_packet[Place(q, k)]
  <2>1. Place(q, k) # i
    BY <1>1, <1>5, PlacesDiffer
  <2> HIDE DEF i, r
  <2> QED BY <1>3, <2>1, QueueFields
<1>6. Held(r) = Held(q)
  <2>1. /\ Held(q) \in Seq(Packets \union {Torn}) /\ Len(Held(q)) = u
        /\ \A k \in 1 .. u : Held(q)[k] = q.storage_packet[Place(q, k - 1)]
    BY HeldIs
  <2> HIDE DEF r, u
  <2>2. \A k \in 1 .. u : k - 1 \in 0 .. Size - 1 /\ k - 1 # u
    BY <1>1
  <2>3. \A k \in 1 .. u : Held(q)[k] = r.storage_packet[Place(r, k - 1)]
    BY <1>4, <1>5, <2>1, <2>2
  <2> QED BY <1>2, <1>4, <2>1, <2>3, HeldSame
<1>7. r.storage_packet[i] = content
  BY <1>1, <1>3, QueueFields
<1>8. ~QueueIsEmpty(q) => QueuePrePop(r) = QueuePrePop(q)
  <2> SUFFICES ASSUME ~QueueIsEmpty(q) PROVE QueuePrePop(r) = QueuePrePop(q)
    OBVIOUS
  <2>1. u # 0 /\ 0 \in 0 .. Size - 1
    BY <1>1, UsedIs
  <2>2. r.storage_packet[Place(q, 0)] = q.storage_packet[Place(q, 0)]
    BY <1>5, <2>1
  <2>3. q.rd_idx \in 0 .. Modulus - 1 /\ q.rd_idx + 0 = q.rd_idx /\ Modulus \in Nat \ {0}
    BY QueueFields, RingNumbers
  <2>4. q.rd_idx % Modulus = q.rd_idx
    <3>1. q.rd_idx = 0 * Modulus + q.rd_idx /\ q.rd_idx \in Int
      BY <2>3
    <3> QED BY <2>3, <3>1, ModIs
  <2>5. Place(q, 0) = Slot(q, q.rd_idx) /\ Slot(r, r.rd_idx) = Slot(q, q.rd_idx)
    BY <1>3, <2>3, <2>4 DEF Place, Slot
  <2> HIDE DEF r
  <2> QED BY <2>2, <2>5 DEF QueuePrePop
<1> QED BY <1>4, <1>6, <1>7, <1>8

\* Handing over a filled slot adds its packet at the end, the indices wrapped or not.
LEMMA AdvanceAppends ==
  ASSUME NEW q \in Queue, Allocated(q), QueueUsedSize(q) < Size
  PROVE  /\ QueueUsedSize(AdvanceWrite(q)) = QueueUsedSize(q) + 1
         /\ Held(AdvanceWrite(q)) = Append(Held(q), q.storage_packet[Slot(q, q.wr_idx)])
<1> DEFINE r == AdvanceWrite(q)
           u == QueueUsedSize(q)
           p == q.storage_packet[Slot(q, q.wr_idx)]
<1>1. /\ q.rd_idx \in 0 .. Modulus - 1 /\ q.wr_idx \in 0 .. Modulus - 1
      /\ Modulus \in Nat \ {0} /\ u \in Nat /\ u < Modulus - 1
  BY QueueFields, UsedIs, RingNumbers
<1>2. /\ r \in Queue /\ Allocated(r)
      /\ r.storage_packet = q.storage_packet /\ r.rd_idx = q.rd_idx /\ r.size = q.size
      /\ r.wr_idx = IF q.wr_idx = Modulus - 1 THEN 0 ELSE q.wr_idx + 1
  BY AdvanceType, IncrementIs, QueueFields DEF AdvanceWrite
<1>3. QueueUsedSize(r) = u + 1
  <2>1. u = IF q.wr_idx >= q.rd_idx THEN q.wr_idx - q.rd_idx ELSE q.wr_idx - q.rd_idx + Modulus
    BY UsedIs
  <2>2. QueueUsedSize(r) = IF r.wr_idx >= r.rd_idx THEN r.wr_idx - r.rd_idx ELSE r.wr_idx - r.rd_idx + Modulus
    BY <1>2, UsedIs
  <2> HIDE DEF r, u
  <2> QED BY <1>1, <1>2, <2>1, <2>2
<1>4. Held(r) = Append(Held(q), p)
  <2>1. /\ Held(q) \in Seq(Packets \union {Torn}) /\ Len(Held(q)) = u
        /\ \A k \in 1 .. u : Held(q)[k] = q.storage_packet[Place(q, k - 1)]
    BY HeldIs
  <2>2. p = q.storage_packet[Place(q, u)] /\ p \in Packets \union {Torn}
    BY WritePlace, SlotInRange, QueueFields
  <2>3. \A k : Place(r, k) = Place(q, k)
    BY <1>2 DEF Place, Slot
  <2> DEFINE h == Held(q)
             a == Append(h, p)
  <2> HIDE DEF r, u, p, h
  <2>4. /\ a \in Seq(Packets \union {Torn}) /\ Len(a) = u + 1
        /\ \A k \in 1 .. u : a[k] = h[k]
        /\ a[u + 1] = p
    BY <1>1, <2>1, <2>2 DEF h
  <2>5. ASSUME NEW k \in 1 .. u + 1 PROVE a[k] = r.storage_packet[Place(r, k - 1)]
    <3>1. CASE k = u + 1
      <4>1. k - 1 = u BY <1>1, <3>1
      <4> QED BY <1>2, <2>2, <2>3, <2>4, <3>1, <4>1
    <3>2. CASE k # u + 1
      <4>1. k \in 1 .. u BY <1>1, <3>2
      <4> QED BY <1>2, <2>1, <2>3, <2>4, <4>1 DEF h
    <3> QED BY <3>1, <3>2
  <2> HIDE DEF a
  <2>6. Held(r) = a
    BY <1>2, <1>3, <2>4, <2>5, HeldSame
  <2> QED BY <2>6 DEF a, h
<1> QED BY <1>3, <1>4

\* Taking a packet takes the oldest, which is the one that was copied.
LEMMA PopTakesHead ==
  ASSUME NEW q \in Queue, Allocated(q), ~QueueIsEmpty(q)
  PROVE  LET r == QueuePopUpdate(q)
         IN  /\ QueueUsedSize(r) = QueueUsedSize(q) - 1
             /\ Held(q) # <<>> /\ Held(r) = Tail(Held(q)) /\ Head(Held(q)) = QueuePrePop(q)
             /\ r.storage_packet[Slot(r, r.wr_idx)] = q.storage_packet[Slot(q, q.wr_idx)]
<1> DEFINE r == QueuePopUpdate(q)
           u == QueueUsedSize(q)
           h == Held(q)
<1>1. /\ q.rd_idx \in 0 .. Modulus - 1 /\ q.wr_idx \in 0 .. Modulus - 1
      /\ Modulus \in Nat \ {0} /\ u \in Nat \ {0}
  BY QueueFields, UsedIs, RingNumbers
<1>2. /\ r \in Queue /\ Allocated(r)
      /\ r.storage_packet = q.storage_packet /\ r.wr_idx = q.wr_idx /\ r.size = q.size
      /\ r.rd_idx = IF q.rd_idx = Modulus - 1 THEN 0 ELSE q.rd_idx + 1
  BY AdvanceType, IncrementIs, QueueFields DEF QueuePopUpdate
<1>3. QueueUsedSize(r) = u - 1
  <2>1. u = IF q.wr_idx >= q.rd_idx THEN q.wr_idx - q.rd_idx ELSE q.wr_idx - q.rd_idx + Modulus
    BY UsedIs
  <2>2. QueueUsedSize(r) = IF r.wr_idx >= r.rd_idx THEN r.wr_idx - r.rd_idx ELSE r.wr_idx - r.rd_idx + Modulus
    BY <1>2, UsedIs
  <2> HIDE DEF r, u
  <2> QED BY <1>1, <1>2, <2>1, <2>2
<1>4. ASSUME NEW k \in Nat PROVE Place(r, k) = Place(q, k + 1)
  <2> DEFINE x == q.rd_idx + (k + 1)
  <2>1. x \in Int /\ (r.rd_idx + k = x \/ r.rd_idx + k = x - Modulus)
    BY <1>1, <1>2
  <2> HIDE DEF x, r
  <2>2. (x - Modulus) % Modulus = x % Modulus
    BY <1>1, <2>1, ModRound
  <2>3. (r.rd_idx + k) % Modulus = x % Modulus
    BY <2>1, <2>2
  <2> QED BY <1>2, <2>3 DEF Place, Slot, x
<1>5. /\ h \in Seq(Packets \union {Torn}) /\ Len(h) = u
      /\ \A k \in 1 .. u : h[k] = q.storage_packet[Place(q, k - 1)]
  BY HeldIs
<1>6. Held(r) = Tail(h)
  <2> DEFINE t == Tail(h)
  <2> HIDE DEF r, u, h
  <2>1. /\ t \in Seq(Packets \union {Torn}) /\ Len(t) = u - 1
        /\ \A k \in 1 .. u - 1 : t[k] = h[k + 1]
    BY <1>1, <1>5
  <2> HIDE DEF t
  <2>2. ASSUME NEW k \in 1 .. u - 1 PROVE t[k] = r.storage_packet[Place(r, k - 1)]
    <3>1. k + 1 \in 1 .. u /\ k - 1 \in Nat /\ (k - 1) + 1 = k /\ (k + 1) - 1 = k
      BY <1>1
    <3>2. t[k] = q.storage_packet[Place(q, k)]
      BY <1>5, <2>1, <3>1
    <3>3. Place(r, k - 1) = Place(q, k)
      BY <1>4, <3>1
    <3> QED BY <1>2, <3>2, <3>3
  <2>3. Held(r) = t
    BY <1>2, <1>3, <2>1, <2>2, HeldSame
  <2> QED BY <2>3 DEF t
<1>7. Head(h) = QueuePrePop(q) /\ h # <<>>
  <2>1. q.rd_idx % Modulus = q.rd_idx
    <3>1. q.rd_idx = 0 * Modulus + q.rd_idx /\ q.rd_idx \in Int
      BY <1>1
    <3> QED BY <1>1, <3>1, ModIs
  <2>2. Place(q, 0) = Slot(q, q.rd_idx)
    <3>1. q.rd_idx + 0 = q.rd_idx BY <1>1
    <3> QED BY <2>1, <3>1 DEF Place
  <2> HIDE DEF u, h
  <2>3. 1 \in 1 .. u /\ 1 - 1 = 0
    BY <1>1
  <2>4. h[1] = q.storage_packet[Place(q, 0)]
    BY <1>5, <2>3
  <2>5. h # <<>> /\ Head(h) = h[1]
    BY <1>1, <1>5
  <2> QED BY <2>2, <2>4, <2>5 DEF QueuePrePop
<1>8. r.storage_packet[Slot(r, r.wr_idx)] = q.storage_packet[Slot(q, q.wr_idx)]
  BY <1>2 DEF Slot
<1> QED BY <1>3, <1>6, <1>7, <1>8

\* A queue without packets, allocated or not, holds none.
LEMMA EmptyHeld ==
  ASSUME NEW q \in Queue, QueueIsEmpty(q)
  PROVE  QueueUsedSize(q) = 0 /\ Held(q) = <<>>
<1>1. QueueUsedSize(q) = 0 /\ Held(q) \in Seq(Packets \union {Torn}) /\ Len(Held(q)) = 0
  BY UsedIs, HeldIs
<1> QED BY <1>1

-----------------------------------------------------------------------------
(***************************************************************************)
(* Every ring is a channel.  Between two steps of a thread the other may   *)
(* move its index; the packet that is copied out stays the oldest, and     *)
(* there stays room for the one that is copied in.                         *)
(***************************************************************************)
RingInv ==
  /\ \A l \in Lidars : QueueUsedSize(data[l]) <= Size
  /\ pusher.at \in {"fill", "advance"} => QueueUsedSize(data[pusher.lidar]) < Size
  /\ pusher.at = "advance" =>
       LET q == data[pusher.lidar]
       IN  pusher.packet \in Packets /\ q.storage_packet[Slot(q, q.wr_idx)] = pusher.packet
  /\ poller.at = "copied" =>
       LET q == data[poller.lidar]
       IN  ~QueueIsEmpty(q) /\ poller.packet = QueuePrePop(q)

ChannelStep == \A l \in Lidars : Channel(l)!Next \/ UNCHANGED Channel(l)!vars

\* A lidar's channel does not change while its packets and its refusal do not.
LEMMA ChannelRests ==
  ASSUME NEW l \in Lidars, Held(data'[l]) = Held(data[l]), published'[l] = published[l],
         (pusher'.at = "full" /\ pusher'.lidar = l) <=> (pusher.at = "full" /\ pusher.lidar = l)
  PROVE  UNCHANGED Channel(l)!vars
<1> QED BY DEF Channel!vars, Held, QueueUsedSize, Slot

\* A step of the pusher that leaves the queues alone.
LEMMA QuietStep ==
  ASSUME IInv, RingInv, UNCHANGED <<data, published>>, pusher.at # "full", pusher'.at # "full",
         pusher'.at \notin {"fill", "advance"} \/ pusher' = pusher,
         poller'.at # "copied" \/ poller' = poller
  PROVE  RingInv' /\ ChannelStep
<1>1. RingInv' BY DEF RingInv, QueueUsedSize, QueueIsEmpty, QueuePrePop, Slot
<1>2. ChannelStep BY ChannelRests DEF ChannelStep
<1> QED BY <1>1, <1>2

\* The same for a step of another thread, whatever the pusher is at.
LEMMA OtherStep ==
  ASSUME IInv, RingInv, UNCHANGED <<data, published, pusher>>,
         \/ poller'.at # "copied"
         \/ poller' = poller
         \/ /\ poller.lidar = poller'.lidar /\ ~QueueIsEmpty(data[poller.lidar])
            /\ poller'.packet = QueuePrePop(data[poller.lidar])
  PROVE  RingInv' /\ ChannelStep
<1>1. RingInv' BY DEF RingInv, QueueUsedSize, QueueIsEmpty, QueuePrePop, Slot
<1>2. ChannelStep BY ChannelRests DEF ChannelStep
<1> QED BY <1>1, <1>2

LEMMA PushLidarDataRing ==
  ASSUME IInv, RingInv, NEW l \in Lidars, NEW p \in Packets, PushLidarData(l, p)
  PROVE  RingInv' /\ ChannelStep
<1> DEFINE q == IF Allocated(data[l]) THEN data[l] ELSE InitQueue(QueueSize)
<1>0. data \in [Lidars -> Queue] /\ poller.lidar \in Lidars /\ data[l] \in Queue /\ Size \in Nat \ {0}
  BY PathAssumption DEF IInv, TypeOK
<1>1. /\ q \in Queue /\ Allocated(q) /\ (QueueIsEmpty(q) <=> QueueIsEmpty(data[l]))
      /\ ~QueueIsEmpty(data[l]) => q = data[l]
      /\ Held(q) = Held(data[l]) /\ QueueUsedSize(q) = QueueUsedSize(data[l])
  <2>1. CASE Allocated(data[l]) BY <1>0, <2>1
  <2>2. CASE ~Allocated(data[l])
    <3>1. QueueIsEmpty(data[l]) /\ q = InitQueue(QueueSize)
      BY <2>2 DEF IInv, OnlyAllocatedUsed
    <3> QED BY <1>0, <3>1, InitQueueType, EmptyHeld
  <2> QED BY <2>1, <2>2
<1>2. /\ pusher.at = "idle"
      /\ UNCHANGED <<connect_state, pcd_semaphore, poller, exit, published, fresh>>
      /\ IF QueueIsFull(q)
           THEN /\ data' = [data EXCEPT ![l] = q]
                /\ pusher' = [at |-> "full", lidar |-> l, packet |-> NoPacket]
           ELSE /\ data' = [data EXCEPT ![l] = FillSlot(q, Torn)]
                /\ pusher' = [at |-> "fill", lidar |-> l, packet |-> p]
  BY DEF PushLidarData
<1> HIDE DEF q
<1>3. PICK r \in Queue : /\ data' = [data EXCEPT ![l] = r]
                         /\ Held(r) = Held(data[l]) /\ QueueUsedSize(r) = QueueUsedSize(data[l])
                         /\ ~QueueIsEmpty(data[l]) => ~QueueIsEmpty(r) /\ QueuePrePop(r) = QueuePrePop(data[l])
                         /\ pusher'.at = "fill" => QueueUsedSize(r) < Size
                         /\ pusher'.at = "full" => QueueUsedSize(r) = Size
                         /\ pusher'.at \in {"fill", "full"} /\ pusher'.lidar = l
  <2>1. CASE QueueIsFull(q)
    <3>1. QueueUsedSize(q) <= Size /\ QueueUsedSize(q) \in Nat
      BY <1>0, <1>1, UsedIs DEF RingInv
    <3>2. QueueUsedSize(q) = Size
      BY <1>0, <1>1, <2>1, <3>1, QueueFields DEF QueueIsFull, Allocated
    <3> QED BY <1>1, <1>2, <2>1, <3>2
  <2>2. CASE ~QueueIsFull(q)
    <3>1. QueueUsedSize(q) < Size
      BY <1>0, <1>1, <2>2, UsedIs, QueueFields DEF QueueIsFull, Allocated
    <3> DEFINE r == FillSlot(q, Torn)
    <3>2. /\ Held(r) = Held(q) /\ QueueUsedSize(r) = QueueUsedSize(q)
          /\ r \in Queue /\ (QueueIsEmpty(r) <=> QueueIsEmpty(q))
          /\ ~QueueIsEmpty(q) => QueuePrePop(r) = QueuePrePop(q)
      BY <1>1, <3>1, FillKeepsHeld, FillSlotType
    <3>3. data' = [data EXCEPT ![l] = r] /\ pusher' = [at |-> "fill", lidar |-> l, packet |-> p]
      BY <1>2, <2>2
    <3> HIDE DEF r
    <3> QED BY <1>1, <3>1, <3>2, <3>3
  <2> QED BY <2>1, <2>2
<1>4. data'[l] = r /\ \A m \in Lidars \ {l} : data'[m] = data[m]
  BY <1>0, <1>3
<1>5. RingInv'
  <2>1. \A m \in Lidars : QueueUsedSize(data'[m]) <= Size
    BY <1>3, <1>4 DEF RingInv
  <2>2. pusher'.at \in {"fill", "advance"} => QueueUsedSize(data'[pusher'.lidar]) < Size
    BY <1>3, <1>4
  <2>3. poller'.at = "copied" => ~QueueIsEmpty(data'[poller'.lidar]) /\ poller'.packet = QueuePrePop(data'[poller'.lidar])
    BY <1>0, <1>2, <1>3, <1>4 DEF RingInv
  <2>4. pusher'.at # "advance"
    BY <1>3
  <2> QED BY <2>1, <2>2, <2>3, <2>4 DEF RingInv, QueueUsedSize, QueueIsEmpty, QueuePrePop, Slot
<1>6. \A m \in Lidars \ {l} : UNCHANGED Channel(m)!vars
  BY <1>2, <1>3, <1>4, ChannelRests
<1>7. Channel(l)!Next \/ UNCHANGED Channel(l)!vars
  <2>1. CASE pusher'.at = "fill"
    BY <1>2, <1>3, <1>4, <2>1, ChannelRests
  <2>2. CASE pusher'.at = "full"
    <3>1. Len(Held(data[l])) = Size
      BY <1>0, <1>3, <2>2, HeldIs DEF IInv, OnlyAllocatedUsed
    <3>2. Held(data[l])' = Held(data[l]) /\ published'[l] = published[l]
      BY <1>2, <1>3, <1>4 DEF Held, QueueUsedSize, Slot
    <3>3. Channel(l)!Refuse
      BY <1>3, <2>2, <3>1, <3>2 DEF Channel!Refuse
    <3> QED BY <3>3 DEF Channel!Next
  <2> QED BY <1>3, <2>1, <2>2
<1> QED BY <1>5, <1>6, <1>7 DEF ChannelStep

LEMMA PusherFinishesRing ==
  ASSUME IInv, RingInv, PusherFinishes
  PROVE  RingInv' /\ ChannelStep
<1>p. PICK l \in Lidars : l = pusher.lidar
  BY DEF IInv, TypeOK
<1> DEFINE q == data[l]
<1>0. /\ data \in [Lidars -> Queue] /\ l = pusher.lidar /\ poller.lidar \in Lidars
      /\ q \in Queue /\ Size \in Nat \ {0} /\ QueueUsedSize(q) \in Nat
      /\ pusher = [at |-> pusher.at, lidar |-> l, packet |-> pusher.packet]
  BY <1>p, PathAssumption, UsedIs DEF IInv, TypeOK
<1>1. CASE Fill
  <2>1. /\ pusher.at = "fill" /\ UNCHANGED <<poller, published>>
        /\ data' = [data EXCEPT ![l] = FillSlot(q, pusher.packet)]
        /\ pusher' = [at |-> "advance", lidar |-> l, packet |-> pusher.packet]
    BY <1>0, <1>1 DEF Fill, PusherGoes
  <2>2. pusher.packet \in Packets /\ Allocated(q) /\ QueueUsedSize(q) < Size
    BY <1>0, <2>1 DEF IInv, PacketInHand, OnlyAllocatedUsed, RingInv
  <2> DEFINE r == FillSlot(q, pusher.packet)
  <2>3. /\ Held(r) = Held(q) /\ QueueUsedSize(r) = QueueUsedSize(q)
        /\ r.storage_packet[Slot(r, r.wr_idx)] = pusher.packet
        /\ ~QueueIsEmpty(q) => QueuePrePop(r) = QueuePrePop(q)
        /\ QueueIsEmpty(r) <=> QueueIsEmpty(q)
    BY <1>0, <2>2, FillKeepsHeld, FillSlotType
  <2>4. data' = [data EXCEPT ![l] = r]
    BY <2>1
  <2> HIDE DEF r
  <2>5. data'[l] = r /\ \A m \in Lidars \ {l} : data'[m] = data[m]
    BY <1>0, <2>4
  <2>6. \A m \in Lidars : QueueUsedSize(data'[m]) <= Size
    BY <2>3, <2>5 DEF RingInv
  <2>7. poller'.at = "copied" =>
          ~QueueIsEmpty(data'[poller'.lidar]) /\ poller'.packet = QueuePrePop(data'[poller'.lidar])
    BY <1>0, <2>1, <2>3, <2>5 DEF RingInv
  <2>8. RingInv'
    BY <2>1, <2>2, <2>3, <2>5, <2>6, <2>7
       DEF RingInv, QueueUsedSize, QueueIsEmpty, QueuePrePop, Slot
  <2>9. \A m \in Lidars : UNCHANGED Channel(m)!vars
    BY <2>1, <2>3, <2>5, ChannelRests
  <2> QED BY <2>8, <2>9 DEF ChannelStep
<1>2. CASE Advance
  <2>1. /\ pusher.at = "advance" /\ UNCHANGED <<poller, published>>
        /\ data' = [data EXCEPT ![l] = AdvanceWrite(q)]
        /\ pusher' = [at |-> "pushed", lidar |-> l, packet |-> pusher.packet]
    BY <1>0, <1>2 DEF Advance, PusherGoes
  <2>2. /\ Allocated(q) /\ QueueUsedSize(q) < Size
        /\ pusher.packet \in Packets /\ q.storage_packet[Slot(q, q.wr_idx)] = pusher.packet
    BY <1>0, <2>1 DEF IInv, OnlyAllocatedUsed, RingInv
  <2> DEFINE r == AdvanceWrite(q)
  <2>3. /\ QueueUsedSize(r) = QueueUsedSize(q) + 1
        /\ Held(r) = Append(Held(q), pusher.packet)
        /\ r \in Queue
    BY <1>0, <2>2, AdvanceAppends, AdvanceType
  <2>4. ~QueueIsEmpty(r) /\ QueuePrePop(r) = QueuePrePop(q)
    <3>1. QueueUsedSize(r) # 0
      BY <1>0, <2>3
    <3>2. ~QueueIsEmpty(r)
      BY <2>3, <3>1, EmptyHeld
    <3>3. r.storage_packet = q.storage_packet /\ r.rd_idx = q.rd_idx /\ r.size = q.size
      BY <1>0, QueueFields DEF AdvanceWrite
    <3> QED BY <3>2, <3>3 DEF QueuePrePop, Slot
  <2>5. Len(Held(q)) = QueueUsedSize(q)
    BY <1>0, <2>2, HeldIs
  <2>6. data' = [data EXCEPT ![l] = r]
    BY <2>1
  <2> HIDE DEF r
  <2>7. data'[l] = r /\ \A m \in Lidars \ {l} : data'[m] = data[m]
    BY <1>0, <2>6
  <2>8. \A m \in Lidars : QueueUsedSize(data'[m]) <= Size
    BY <1>0, <2>2, <2>3, <2>7 DEF RingInv
  <2>9. poller'.at = "copied" =>
          ~QueueIsEmpty(data'[poller'.lidar]) /\ poller'.packet = QueuePrePop(data'[poller'.lidar])
    BY <1>0, <2>1, <2>4, <2>7 DEF RingInv
  <2>10. RingInv'
    BY <2>1, <2>8, <2>9 DEF RingInv, QueueUsedSize, QueueIsEmpty, QueuePrePop, Slot
  <2>11. \A m \in Lidars \ {l} : UNCHANGED Channel(m)!vars
    BY <2>1, <2>7, ChannelRests
  <2>12. Channel(l)!Accept(pusher.packet)
    <3>1. Held(data[l])' = Append(Held(data[l]), pusher.packet)
      BY <2>3, <2>7 DEF Held, QueueUsedSize, Slot
    <3> QED BY <2>1, <2>2, <2>5, <3>1 DEF Channel!Accept
  <2>13. Channel(l)!Next BY <2>2, <2>12 DEF Channel!Next
  <2> QED BY <2>10, <2>11, <2>13 DEF ChannelStep
<1>3. CASE LookIfEmpty
  <2>1. /\ pusher.at = "pushed" /\ UNCHANGED <<data, poller, published>>
        /\ pusher'.at \in {"idle", "count"}
    BY <1>0, <1>3 DEF LookIfEmpty, Idle
  <2> QED BY <2>1, QuietStep
<1>4. CASE LookAtCount
  <2>1. /\ pusher.at \in {"count", "full"} /\ UNCHANGED <<data, poller, published>>
        /\ pusher'.at \in {"idle", "signal"}
    BY <1>0, <1>4 DEF LookAtCount, Idle
  <2>2. CASE pusher.at = "count"
    BY <2>1, <2>2, QuietStep
  <2>3. CASE pusher.at = "full"
    <3>1. RingInv'
      BY <2>1 DEF RingInv, QueueUsedSize, QueueIsEmpty, QueuePrePop, Slot
    <3>2. Channel(l)!Refused
      BY <1>0, <2>1, <2>3 DEF Channel!Refused, Held, QueueUsedSize, Slot
    <3>3. \A m \in Lidars \ {l} : UNCHANGED Channel(m)!vars
      BY <1>0, <2>1, <2>3, ChannelRests
    <3>4. Channel(l)!Next BY <3>2 DEF Channel!Next
    <3> QED BY <3>1, <3>3, <3>4 DEF ChannelStep
  <2> QED BY <2>1, <2>2, <2>3
<1>5. CASE Signal
  <2>1. pusher.at = "signal" /\ UNCHANGED <<data, poller, published>> /\ pusher'.at = "idle"
    BY <1>5 DEF Signal, Idle
  <2> QED BY <2>1, QuietStep
<1> QED BY <1>1, <1>2, <1>3, <1>4, <1>5 DEF PusherFinishes

LEMMA PollerRing ==
  ASSUME IInv, RingInv, Poller
  PROVE  RingInv' /\ ChannelStep
<1>p. PICK l \in Lidars : l = poller.lidar
  BY DEF IInv, TypeOK
<1> DEFINE q == data[l]
<1>0. /\ data \in [Lidars -> Queue] /\ l = poller.lidar /\ pusher.lidar \in Lidars
      /\ q \in Queue /\ Size \in Nat \ {0} /\ QueueUsedSize(q) \in Nat
      /\ published \in [Lidars -> SUBSET AnyPacket]
      /\ poller = [at |-> poller.at, lidar |-> l, packet |-> poller.packet]
  BY <1>p, PathAssumption, UsedIs DEF IInv, TypeOK
<1>1. CASE CheckExit \/ Wait \/ CheckFuture
  <2>1. UNCHANGED <<data, published, pusher>> /\ poller'.at # "copied"
    BY <1>0, <1>1 DEF CheckExit, Wait, CheckFuture, PollerGoes
  <2> QED BY <2>1, OtherStep
<1>2. CASE Visit \/ Poll
  <2>1. NextLidar => poller'.at # "copied"
    BY NextLidarMoves DEF IInv
  <2>2. UNCHANGED <<data, published, pusher>> /\ poller'.at # "copied"
    BY <1>0, <1>2, <2>1 DEF Visit, Poll, PollerGoes
  <2> QED BY <2>2, OtherStep
<1>3. CASE Drain
  <2>1. UNCHANGED <<data, published, pusher>>
    BY <1>3 DEF Drain
  <2>2. \/ poller'.at # "copied"
        \/ /\ poller.lidar = poller'.lidar /\ ~QueueIsEmpty(data[poller.lidar])
           /\ poller'.packet = QueuePrePop(data[poller.lidar])
    BY <1>0, <1>3 DEF Drain
  <2> QED BY <2>1, <2>2, OtherStep
<1>4. CASE Publish
  <2>1. /\ poller.at = "copied" /\ UNCHANGED pusher
        /\ data' = [data EXCEPT ![l] = QueuePopUpdate(q)]
        /\ published' = [published EXCEPT ![l] = {poller.packet}]
        /\ poller' = [at |-> "drain", lidar |-> l, packet |-> NoPacket]
    BY <1>0, <1>4 DEF Publish
  <2>2. Allocated(q) /\ ~QueueIsEmpty(q) /\ poller.packet = QueuePrePop(q)
    BY <1>0, <2>1 DEF IInv, OnlyAllocatedUsed, RingInv
  <2> DEFINE r == QueuePopUpdate(q)
  <2>3. /\ QueueUsedSize(r) = QueueUsedSize(q) - 1
        /\ Held(q) # <<>> /\ Held(r) = Tail(Held(q)) /\ Head(Held(q)) = QueuePrePop(q)
        /\ r.storage_packet[Slot(r, r.wr_idx)] = q.storage_packet[Slot(q, q.wr_idx)]
    BY <1>0, <2>2, PopTakesHead
  <2>4. data' = [data EXCEPT ![l] = r]
    BY <2>1
  <2> HIDE DEF r
  <2>5. data'[l] = r /\ \A m \in Lidars \ {l} : data'[m] = data[m]
    BY <1>0, <2>4
  <2>6. published'[l] = {poller.packet} /\ \A m \in Lidars \ {l} : published'[m] = published[m]
    BY <1>0, <2>1
  <2>7. \A m \in Lidars : QueueUsedSize(data'[m]) <= Size
    <3>1. QueueUsedSize(r) <= Size
      BY <1>0, <2>3 DEF RingInv
    <3> QED BY <2>5, <3>1 DEF RingInv
  <2>8. pusher.at \in {"fill", "advance"} => QueueUsedSize(data'[pusher.lidar]) < Size
    <3>1. QueueUsedSize(q) < Size => QueueUsedSize(r) < Size
      BY <1>0, <2>3
    <3> QED BY <1>0, <2>5, <3>1 DEF RingInv
  <2>9. pusher.at = "advance" =>
          /\ pusher.packet \in Packets
          /\ data'[pusher.lidar].storage_packet[Slot(data'[pusher.lidar], data'[pusher.lidar].wr_idx)]
               = pusher.packet
    BY <1>0, <2>3, <2>5 DEF RingInv
  <2>10. RingInv'
    BY <2>1, <2>7, <2>8, <2>9 DEF RingInv, QueueUsedSize, QueueIsEmpty, QueuePrePop, Slot
  <2>11. \A m \in Lidars \ {l} : UNCHANGED Channel(m)!vars
    BY <2>1, <2>5, <2>6, ChannelRests
  <2>12. Channel(l)!Take
    <3>1. Held(data[l])' = Tail(Held(data[l]))
      BY <2>3, <2>5 DEF Held, QueueUsedSize, Slot
    <3> QED BY <2>1, <2>2, <2>3, <2>6, <3>1 DEF Channel!Take
  <2>13. Channel(l)!Next BY <2>12 DEF Channel!Next
  <2> QED BY <2>10, <2>11, <2>13 DEF ChannelStep
<1> QED BY <1>1, <1>2, <1>3, <1>4 DEF Poller

LEMMA NextRing ==
  ASSUME IInv, RingInv, [Next]_vars
  PROVE  RingInv' /\ ChannelStep
<1>1. CASE \E l \in Lidars : \E p \in PacketsOf[l] : PushLidarData(l, p)
  BY <1>1, FramesArePackets, PushLidarDataRing
<1>2. CASE PusherFinishes
  BY <1>2, PusherFinishesRing
<1>3. CASE Poller
  BY <1>3, PollerRing
<1>4. CASE (\E l \in Lidars : StartSampling(l)) \/ Destroy \/ UNCHANGED vars
  <2>1. UNCHANGED <<data, published, pusher, poller>>
    BY <1>4 DEF StartSampling, Destroy, vars
  <2> QED BY <2>1, OtherStep
<1> QED BY <1>1, <1>2, <1>3, <1>4 DEF Next

LEMMA InitRing == ASSUME Init PROVE RingInv /\ \A l \in Lidars : Channel(l)!Init
<1>1. \A l \in Lidars : QueueUsedSize(data[l]) = 0 /\ Held(data[l]) = <<>> /\ published[l] = {}
  BY NoQueueType, EmptyHeld DEF Init
<1>2. pusher.at = "idle" /\ poller.at = "check" /\ Size \in Nat
  BY PathAssumption DEF Init, Idle
<1> QED BY <1>1, <1>2 DEF RingInv, Channel!Init

\* What the rings rest on: there is room for the packet that is being copied
\* in, and the packet that has been copied out is still the oldest, whatever the
\* other thread does meanwhile.
THEOREM RingInvariant == Spec => [](IInv /\ RingInv)
<1>1. Init => IInv /\ RingInv BY InitIInv, InitRing
<1>2. IInv /\ [Next]_vars => IInv'
  BY FramesArePackets, PushLidarDataIInv, PusherFinishesIInv, PollerIInv,
     StartSamplingIInv, DestroyIInv,
     StutterIInv DEF Next
<1>3. (IInv /\ RingInv) /\ [Next]_vars => (IInv /\ RingInv)'
  BY <1>2, NextRing
<1> QED BY <1>1, <1>3, PTL DEF Spec

\* Each lidar's ring, filled and drained by two threads without a lock, with
\* indices that wrap at any width, is a bounded first-in first-out channel of
\* whole packets that turns a packet away only when it is full.
THEOREM RingsStayChannels == Spec => RingsAreChannels
<1>1. Init => \A l \in Lidars : Channel(l)!Init BY InitRing
<1>2. IInv /\ RingInv /\ [Next]_vars => [ChannelStep]_vars BY NextRing
<1>3. Spec => [](IInv /\ RingInv) BY RingInvariant
<1>4. Spec => [][ChannelStep]_vars BY <1>2, <1>3, PTL DEF Spec
<1> QED BY <1>1, <1>4, PTL DEF Spec, RingsAreChannels, ChannelStep

=============================================================================
