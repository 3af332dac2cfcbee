--------------------------- MODULE MCMappingChain ---------------------------
(***************************************************************************)
(* The chain for TLC: a grid of 4 x 3 cells of 2 x 2, a wall in it, one    *)
(* half over its far corner and one on the negative side of its origin,    *)
(* the rover's body at the front and, over the seam, at the back, and      *)
(* points too near, too low, too far, not finite, alone or alone until     *)
(* later.                                                                  *)
(***************************************************************************)
EXTENDS MappingChain

Point(bearing, elevation, range, place) ==
  [bearing |-> bearing, elevation |-> elevation, range |-> range, nan |-> {},
   place |-> place]

Body(bearing, place) == Point(bearing, 0, 10, place)

BodyPoints == {Body(14, <<4, 3, 1>>), Body(-175, <<4, 2, 1>>), Body(166, <<5, 2, 1>>)}
Wall       == {Point(90, 0, 20, <<2, 3, 1>>), Point(80, 0, 21, <<3, 3, 1>>)}
FarCorner  == {Point(50, 0, 40, <<7, 5, 1>>), Point(49, 0, 41, <<8, 5, 1>>)}
Outside    == {Point(-120, 0, 30, <<-1, 3, 1>>), Point(-121, 0, 30, <<-1, 4, 1>>)}
Alone      == Point(20, 0, 30, <<6, 0, 1>>)
Company    == Point(22, 0, 28, <<5, 0, 1>>)
Floor      == Point(70, -5, 20, <<2, 2, 0>>)
Ceiling    == Point(70, 60, 20, <<2, 2, 1>>)
Near       == {Point(b, 0, 4, <<1, 1, 1>>) : b \in {60, 61}}
FarOff     == {Point(b, 0, 120, <<1, 2, 1>>) : b \in {100, 101}}
Invalid    == [Point(0, 0, 0, <<0, 0, 0>>) EXCEPT !.nan = {"xy"}]

Scan(points) == [wellformed |-> TRUE, points |-> points]

MCScans ==
  { Scan(Wall \union BodyPoints \union {Floor, Ceiling, Invalid}),
    Scan(Outside \union {Alone}),
    Scan(FarCorner \union {Company, Floor}),
    Scan(BodyPoints \union Near),
    Scan(FarOff \union Near),
    [Scan(Wall) EXCEPT !.wellformed = FALSE] }

\* A wall across, one along an axis, nothing of use, nothing.
MCFiles ==
  { {<<0, 0, 1>>, <<1, 1, 1>>, <<2, 1, 1>>, <<3, 2, 1>>, <<3, 3, 1>>},
    {<<-3, 0, 1>>, <<-3, 1, 1>>, <<-3, 2, 1>>},
    {<<0, 0, 0>>}, {} }

MCMinElevation == -10
MCFixedOrigin  == <<0, 0>>
MCFixedSize    == <<8, 5>>
MCOdomToLidar  == <<2, -1, 0>>
=============================================================================
