--------------------------- MODULE LidarDataQueue ---------------------------
(***************************************************************************)
(* The ring buffer between the thread that assembles point frames and the  *)
(* thread that publishes them, as operators on one LidarDataQueue.  The    *)
(* two indices run freely over unsigned integers of IndexBits bits (32 in  *)
(* the code) and wrap; a slot is addressed by an index & (size - 1), which *)
(* for the powers of two InitQueue allows is the index modulo the size.    *)
(***************************************************************************)
EXTENDS Integers, Sequences

CONSTANTS
  Packets,    \* point packets
  Torn,       \* what a slot holds while a packet is being copied into it
  IndexBits   \* width of rd_idx and wr_idx

ASSUME QueueAssumption ==
  /\ Torn \notin Packets
  /\ IndexBits \in Nat \ {0}

Index == 0 .. 2 ^ IndexBits - 1

\* A default-constructed slot holds no points; nobody reads one.
NoQueue == [storage_packet |-> <<>>, rd_idx |-> 0, wr_idx |-> 0, size |-> 0]

RoundupPowerOf2(n) ==
  LET powers == { 2 ^ i : i \in 0 .. IndexBits - 1 }
  IN  CHOOSE p \in powers : n <= p /\ \A q \in powers : n <= q => p <= q

InitQueue(queue_size) ==
  LET size == RoundupPowerOf2(queue_size)
  IN  [storage_packet |-> [i \in 1 .. size |-> Torn], rd_idx |-> 0, wr_idx |-> 0, size |-> size]

Allocated(q)     == q.size # 0
QueueUsedSize(q) == (q.wr_idx - q.rd_idx) % 2 ^ IndexBits

QueueIsFull(q)  == QueueUsedSize(q) > q.size - 1
QueueIsEmpty(q) == q.rd_idx = q.wr_idx

Increment(index) == (index + 1) % 2 ^ IndexBits
Slot(q, index)   == (index % q.size) + 1

\* The two halves of QueuePushAny: fill the slot, then hand it over.
FillSlot(q, content) == [q EXCEPT !.storage_packet[Slot(q, q.wr_idx)] = content]
AdvanceWrite(q)      == [q EXCEPT !.wr_idx = Increment(@)]

\* Mutant: the newest packet is taken, not the oldest.
QueuePrePopNewest(q) == q.storage_packet[Slot(q, (q.wr_idx - 1) % 2 ^ IndexBits)]

\* The two halves of QueuePop.
QueuePrePop(q)    == q.storage_packet[Slot(q, q.rd_idx)]
QueuePopUpdate(q) == [q EXCEPT !.rd_idx = Increment(@)]

\* The packets between the two indices, oldest first.
Held(q) == [k \in 1 .. QueueUsedSize(q) |->
              q.storage_packet[Slot(q, (q.rd_idx + k - 1) % 2 ^ IndexBits)]]
=============================================================================
