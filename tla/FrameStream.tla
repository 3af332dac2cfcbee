----------------------------- MODULE FrameStream -----------------------------
(***************************************************************************)
(* What the assembly of frames promises: a lidar's points leave in the     *)
(* order they came, each once, in frames that are never empty; where the   *)
(* stream is cut is left open.                                             *)
(***************************************************************************)
EXTENDS Integers, Sequences, SequencesExt

CONSTANT Lidars

VARIABLES
  pending,     \* lidar -> its points received and not handed over, oldest first
  delivered    \* lidar -> its points in the frame being handed over, if any

vars == <<pending, delivered>>

Nothing == [l \in Lidars |-> <<>>]

Init == pending = Nothing /\ delivered = Nothing

\* A packet of one lidar arrives.
Receive ==
  /\ \E l \in Lidars :
       /\ IsStrictPrefix(pending[l], pending'[l])
       /\ \A m \in Lidars \ {l} : pending'[m] = pending[m]
  /\ UNCHANGED delivered

\* A frame is handed over: of each lidar in it, the oldest points.
Deliver ==
  /\ delivered' # Nothing
  /\ \A l \in Lidars : pending[l] = delivered'[l] \o pending'[l]

\* The receiver has returned.
Return == delivered' = Nothing /\ UNCHANGED pending

Next == Receive \/ Deliver \/ Return

Spec == Init /\ [][Next]_vars
=============================================================================
