--------------------------- MODULE MCWaypointStore ---------------------------
(***************************************************************************)
(* WaypointStore over the motions of a triangle, as in MCWaypointManager.  *)
(***************************************************************************)
EXTENDS WaypointStore, TLC

Perms == Permutations(1 .. 3)
Compose(a, b) == [i \in 1 .. 3 |-> a[b[i]]]
Invert(a) == CHOOSE b \in Perms : Compose(a, b) = [i \in 1 .. 3 |-> i]
Identity == [i \in 1 .. 3 |-> i]

Turn == [i \in 1 .. 3 |-> (i % 3) + 1]
Flip == [i \in 1 .. 3 |-> IF i = 3 THEN 3 ELSE 3 - i]

OnlyFlip == {Flip}
TurnOrFlip == {Turn, Flip}
IdentityOrTurn == {Identity, Turn}
=============================================================================
