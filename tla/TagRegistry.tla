----------------------------- MODULE TagRegistry -----------------------------
(***************************************************************************)
(* What the waypoint services promise, with no submaps, no pending list    *)
(* and no map corrections: a name stands for the place it was last tagged  *)
(* at, and from some moment on the place can be asked for.                 *)
(***************************************************************************)
CONSTANTS Names, Places

VARIABLES
  tags,        \* name -> the set with the place it stands for, empty if none
  answerable   \* names get_waypoint answers for

vars == <<tags, answerable>>

Init ==
  /\ tags = [n \in Names |-> {}]
  /\ answerable = {}

\* An operator tags a place.  The answer may be available at once, or not yet
\* even though it was for the name's previous place.
Tag(n, place) ==
  /\ tags' = [tags EXCEPT ![n] = {place}]
  /\ answerable' \in {answerable \ {n}, answerable \union {n}}

\* Places become available; no tag changes and no answer is withdrawn.
Publish(names) ==
  /\ \A n \in names : tags[n] # {}
  /\ answerable' = answerable \union names
  /\ UNCHANGED tags

Next ==
  \/ \E n \in Names, place \in Places : Tag(n, place)
  \/ \E names \in SUBSET Names : Publish(names)

Spec == Init /\ [][Next]_vars
=============================================================================
