----------------------------- MODULE AngleFilter -----------------------------
(***************************************************************************)
(* lidar_angle_filter: which points of a scan reach GLIM, and whether the  *)
(* scan does.  Angles are whole degrees.  A point has its bearing,         *)
(* elevation and range, and nan says which of its coordinates, "xy" or     *)
(* "z", are not finite.                                                    *)
(***************************************************************************)
EXTENDS Integers, FiniteSets

CONSTANTS
  FrontCenter, FrontSector, BackSector,  \* degrees, the sectors' full widths
  MinElevation, MaxElevation,            \* degrees
  MinUsablePoints, MinUsableRange

\* validate_parameters and valid_sector_width: the node does not start otherwise.
ASSUME validate_parameters ==
  /\ FrontCenter \in Int
  /\ FrontSector \in 0 .. 180 /\ BackSector \in 0 .. 180
  /\ MinElevation \in -90 .. 90 /\ MaxElevation \in -90 .. 90
  /\ MinElevation < MaxElevation
  /\ MinUsablePoints \in Nat /\ MinUsableRange \in Nat

\* Mutant: the angles are subtracted without going round.
AngularDistanceNoWrap(first, second) == IF first >= second THEN first - second
                                                           ELSE second - first

\* | remainder(first - second, 360) |
AngularDistance(first, second) ==
  LET d == (first - second) % 360 IN IF d <= 180 THEN d ELSE 360 - d

InSector(bearing, center, width) ==
  width > 0 /\ 2 * AngularDistance(bearing, center) <= width

\* x and y are 0: the point has no bearing.
OnAxis(p) == p.range = 0 \/ p.elevation \in {-90, 90}

PointIsMasked(p, center, front, back) ==
  /\ "xy" \notin p.nan
  /\ ~OnAxis(p)
  /\ InSector(p.bearing, center, front) \/ InSector(p.bearing, center + 180, back)

PointInElevationRange(p) == p.nan = {} => p.elevation \in MinElevation .. MaxElevation

PointIsUsable(p) == p.nan = {} /\ p.range >= MinUsableRange

Kept(points) ==
  {p \in points : PointInElevationRange(p) /\ ~PointIsMasked(p, FrontCenter, FrontSector, BackSector)}

\* Mutant: the points are counted before they are masked.
EnoughBeforeMasking(points) ==
  Cardinality({p \in points : PointIsUsable(p)}) >= MinUsablePoints

\* scan_has_enough_points: of those kept.
HasEnoughPoints(points) ==
  Cardinality({p \in Kept(points) : PointIsUsable(p)}) >= MinUsablePoints

\* filter_cloud: what is published, if anything.  A scan without the fields or
\* the bytes it declares throws, and nothing of it is.
FilterCloud(scan) ==
  IF scan.wellformed /\ HasEnoughPoints(scan.points) THEN {Kept(scan.points)} ELSE {}
=============================================================================
