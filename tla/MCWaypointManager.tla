-------------------------- MODULE MCWaypointManager --------------------------
(***************************************************************************)
(* WaypointManager over the smallest group that is not commutative: the    *)
(* permutations of three points, that is, the motions of a triangle.       *)
(***************************************************************************)
EXTENDS WaypointManager, TLC

Perms == Permutations(1 .. 3)
Compose(a, b) == [i \in 1 .. 3 |-> a[b[i]]]
Invert(a) == CHOOSE b \in Perms : Compose(a, b) = [i \in 1 .. 3 |-> i]
Identity == [i \in 1 .. 3 |-> i]

Turn == [i \in 1 .. 3 |-> (i % 3) + 1]
Flip == [i \in 1 .. 3 |-> IF i = 3 THEN 3 ELSE 3 - i]

TurnOrFlip == {Turn, Flip}
IdentityOrTurn == {Identity, Turn}
=============================================================================
