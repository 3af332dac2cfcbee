--------------------------- MODULE BoundedChannel ---------------------------
(***************************************************************************)
(* What a point queue promises: packets come out whole and in the order    *)
(* they went in, and one is turned away only when Capacity are waiting.    *)
(***************************************************************************)
EXTENDS Integers, Sequences

CONSTANTS Packets, Capacity

VARIABLES
  waiting,     \* packets accepted and not yet taken, oldest first
  delivered,   \* the last packet taken: a set, empty before the first
  refusing     \* a packet is being turned away

vars == <<waiting, delivered, refusing>>

Init == waiting = <<>> /\ delivered = {} /\ refusing = FALSE

Accept(p) ==
  /\ Len(waiting) < Capacity
  /\ waiting' = Append(waiting, p)
  /\ UNCHANGED <<delivered, refusing>>

Refuse ==
  /\ Len(waiting) = Capacity
  /\ refusing' = TRUE
  /\ UNCHANGED <<waiting, delivered>>

Refused ==
  /\ refusing
  /\ refusing' = FALSE
  /\ UNCHANGED <<waiting, delivered>>

Take ==
  /\ waiting # <<>>
  /\ delivered' = {Head(waiting)}
  /\ waiting' = Tail(waiting)
  /\ UNCHANGED refusing

Next == \/ \E p \in Packets : Accept(p)
        \/ Refuse
        \/ Refused
        \/ Take

Spec == Init /\ [][Next]_vars
=============================================================================
