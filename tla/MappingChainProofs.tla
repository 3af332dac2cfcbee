-------------------------- MODULE MappingChainProofs --------------------------
(***************************************************************************)
(* Proofs about MappingChain, for any lidar, filter and grid: GLIM is      *)
(* never sent a scan it aborts on unless it saw something beyond GLIM's    *)
(* far threshold, and obstacles stay on the live map.                      *)
(* Then about pcd2pgm's grid, for any cloud, filters, resolution and       *)
(* bounds: a cell of the grid is marked exactly if an obstacle of the      *)
(* cloud lies in it, and a map made from a file loses only the far edges.  *)
(* And that every grid has its type and the rover's body is on none.       *)
(***************************************************************************)
EXTENDS MappingChain, TLAPS, FiniteSetTheorems, SequenceTheorems

-----------------------------------------------------------------------------
(***************************************************************************)
(* The gate.                                                               *)
(***************************************************************************)

\* A scan the filter publishes has points beyond GLIM's near threshold: the gate
\* counts after masking, and farther out.  If GLIM can use none of them, they are
\* all beyond its far threshold.
LEMMA PublishedScanIsUsable ==
  ASSUME NEW scan \in Scans, NEW points \in FilterCloud(scan), InGlimRange(points) = {}
  PROVE  Cardinality(BeyondFar(points)) >= MinUsablePoints
<1> DEFINE usable == {p \in Kept(scan.points) : PointIsUsable(p)}
<1>1. points = Kept(scan.points) /\ Cardinality(usable) >= MinUsablePoints
  BY DEF FilterCloud, HasEnoughPoints
<1>2. ASSUME NEW p \in usable PROVE p \in BeyondFar(points)
  <2>1. p.range \in Nat
    BY <1>2, ChainAssumption DEF Kept
  <2>2. p \in points /\ p.nan = {} /\ p.range > GlimNear
    BY <1>1, <1>2, <2>1, GateAboveGlim, ChainAssumption, validate_parameters DEF PointIsUsable
  <2> QED
    BY <2>2 DEF InGlimRange
<1>3. IsFiniteSet(BeyondFar(points))
  <2>1. IsFiniteSet(scan.points) /\ BeyondFar(points) \subseteq scan.points
    BY <1>1, ChainAssumption DEF BeyondFar, Kept
  <2> QED
    BY <2>1, FS_Subset
<1>4. usable \subseteq BeyondFar(points)
  BY <1>2
<1> HIDE DEF usable
<1>5. IsFiniteSet(usable) /\ Cardinality(usable) <= Cardinality(BeyondFar(points))
  BY <1>3, <1>4, FS_Subset
<1>6. Cardinality(usable) \in Nat /\ Cardinality(BeyondFar(points)) \in Nat
  BY <1>3, <1>5, FS_CardinalityType
<1> QED
  BY <1>1, <1>5, <1>6, validate_parameters

\* Whatever covers the lidar, and with any scans and sectors, GLIM aborts only on
\* a scan of which enough lies beyond its far threshold, as long as the gate is on
\* and above GLIM's near threshold (scan_has_enough_points after masking).
THEOREM GlimIsNotStarvedByCover == Spec => []CoverNeverStarvesGlim
<1>1. Init => CoverNeverStarvesGlim
  BY DEF Init, CoverNeverStarvesGlim
<1>2. CoverNeverStarvesGlim /\ [Next]_vars => CoverNeverStarvesGlim'
  <2> SUFFICES ASSUME CoverNeverStarvesGlim, [Next]_vars PROVE CoverNeverStarvesGlim'
    OBVIOUS
  <2> USE DEF CoverNeverStarvesGlim
  <2>1. CASE GlimTakesScan
    <3>0. PICK scan \in Scans : \E points \in FilterCloud(scan) :
             aborted_on' = IF InGlimRange(points) = {} THEN {points} ELSE {}
      BY <2>1 DEF GlimTakesScan
    <3>1. PICK points \in FilterCloud(scan) :
             aborted_on' = IF InGlimRange(points) = {} THEN {points} ELSE {}
      BY <3>0
    <3>2. CASE InGlimRange(points) = {}
      <4>1. Cardinality(BeyondFar(points)) >= MinUsablePoints
        BY <3>2, PublishedScanIsUsable
      <4> QED
        BY <3>1, <3>2, <4>1 DEF BeyondFar
    <3>3. CASE InGlimRange(points) # {}
      BY <3>1, <3>3
    <3> QED
      BY <3>2, <3>3
  <2>2. CASE GlimPublishes
    BY <2>2 DEF GlimPublishes, BeyondFar
  <2>3. CASE GlimRestarts
    BY <2>3 DEF GlimRestarts
  <2>4. CASE UNCHANGED glimVars
    BY <2>4 DEF glimVars, BeyondFar
  <2> QED
    BY <2>1, <2>2, <2>3, <2>4 DEF Next, vars
<1> QED
  BY <1>1, <1>2, PTL DEF Spec

\* A lidar that sees no farther than GLIM's far threshold.
LidarWithinGlim == \A scan \in Scans : \A p \in scan.points : p.nan = {} => p.range < GlimFar

\* With such a lidar GLIM aborts on no scan, for any scans, sectors and gate that
\* is on and above GLIM's near threshold.
THEOREM GlimIsNeverStarved == ASSUME LidarWithinGlim PROVE Spec => []GlimNeverStarved
<1>1. Init => GlimNeverStarved
  BY DEF Init, GlimNeverStarved
<1>2. GlimNeverStarved /\ [Next]_vars => GlimNeverStarved'
  <2> SUFFICES ASSUME GlimNeverStarved, [Next]_vars PROVE GlimNeverStarved'
    OBVIOUS
  <2> USE DEF GlimNeverStarved
  <2>1. ASSUME NEW scan \in Scans, NEW points \in FilterCloud(scan)
        PROVE  InGlimRange(points) # {}
    <3>1. points \subseteq scan.points
      BY DEF FilterCloud, Kept
    <3>2. BeyondFar(points) = {}
      <4> SUFFICES ASSUME NEW p \in BeyondFar(points) PROVE FALSE
        OBVIOUS
      <4>1. p \in scan.points /\ p.nan = {} /\ p.range >= GlimFar
        BY <3>1 DEF BeyondFar
      <4>2. p.range \in Nat /\ GlimFar \in Nat /\ p.range < GlimFar
        BY <4>1, ChainAssumption DEF LidarWithinGlim
      <4> QED
        BY <4>1, <4>2
    <3>3. Cardinality(BeyondFar(points)) = 0
      BY <3>2, FS_EmptySet
    <3>4. ~(0 >= MinUsablePoints)
      BY GateAboveGlim, validate_parameters
    <3> QED
      BY <3>3, <3>4, PublishedScanIsUsable
  <2>2. CASE GlimTakesScan
    BY <2>1, <2>2 DEF GlimTakesScan
  <2>3. CASE GlimPublishes
    BY <2>3 DEF GlimPublishes
  <2>4. CASE GlimRestarts
    BY <2>4 DEF GlimRestarts
  <2>5. CASE UNCHANGED glimVars
    BY <2>5 DEF glimVars
  <2> QED
    BY <2>2, <2>3, <2>4, <2>5 DEF Next, vars
<1> QED
  BY <1>1, <1>2, PTL DEF Spec

-----------------------------------------------------------------------------
(***************************************************************************)
(* A larger cloud makes a larger grid.                                     *)
(***************************************************************************)

\* Each point of a part of a cloud has no fewer neighbours in the whole.
LEMMA OutlierFilterGrows ==
  ASSUME NEW S, NEW T, S \subseteq T, IsFiniteSet(T)
  PROVE  RadiusOutlierFilter(S) \subseteq RadiusOutlierFilter(T)
<1> SUFFICES ASSUME NEW p \in RadiusOutlierFilter(S) PROVE p \in RadiusOutlierFilter(T)
  OBVIOUS
<1>1. p \in T /\ Cardinality(Neighbours(S, p)) >= MinNeighbours
  BY DEF RadiusOutlierFilter
<1>2. Neighbours(S, p) \subseteq Neighbours(T, p)
  BY DEF Neighbours
<1>3. IsFiniteSet(Neighbours(T, p))
  BY FS_Subset DEF Neighbours
<1>4. Cardinality(Neighbours(S, p)) <= Cardinality(Neighbours(T, p))
  BY <1>2, <1>3, FS_Subset
<1>5. Cardinality(Neighbours(S, p)) \in Nat /\ Cardinality(Neighbours(T, p)) \in Nat
  BY <1>2, <1>3, FS_Subset, FS_CardinalityType
<1>6. Cardinality(Neighbours(T, p)) >= MinNeighbours
  BY <1>1, <1>4, <1>5, LiveMapAssumption
<1> QED
  BY <1>1, <1>6 DEF RadiusOutlierFilter

LEMMA ObstaclesGrow ==
  ASSUME NEW S, NEW T, S \subseteq T, IsFiniteSet(T)
  PROVE  Obstacles(S) \subseteq Obstacles(T)
<1>1. PassThroughFilter(S) \subseteq PassThroughFilter(T)
  BY DEF PassThroughFilter
<1>2. IsFiniteSet(PassThroughFilter(T))
  BY FS_Subset DEF PassThroughFilter
<1> QED
  BY <1>1, <1>2, OutlierFilterGrows DEF Obstacles

\* The stamp does not matter.
LEMMA GridGrows ==
  ASSUME NEW S, NEW T, S \subseteq T, NEW m, NEW n, NEW origin, NEW size
  PROVE  Grid(m, S, origin, size).data \subseteq Grid(n, T, origin, size).data
<1> DEFINE width    == CeilDiv(size[1], Resolution)
           cells(P) == {CellOf(p, origin) : p \in P} \intersect
                         ((0 .. width - 1) \X (0 .. CeilDiv(size[2], Resolution) - 1))
           data(P)  == {c[1] + c[2] * width : c \in cells(P)}
<1>1. cells(S) \subseteq cells(T)
  OBVIOUS
<1>2. data(S) \subseteq data(T)
  <2> HIDE DEF cells
  <2> QED
    BY <1>1
<1>3. Grid(m, S, origin, size).data = data(S) /\ Grid(n, T, origin, size).data = data(T)
  BY DEF Grid
<1> QED
  BY <1>2, <1>3

-----------------------------------------------------------------------------
(***************************************************************************)
(* The inductive invariant: the cloud on the grid, those waiting and the   *)
(* one GLIM holds are in order, each within a run of GLIM a part of the    *)
(* next; and the live grid is that of source.                              *)
(***************************************************************************)
Clouds == [n : Nat, run : Nat, points : SUBSET Places]

Before(c, d) == c.run < d.run \/ (c.run = d.run /\ c.points \subseteq d.points)

GlimCloud == [n |-> published, run |-> glim_run, points |-> glim_map]

GlimCloudOK ==
  /\ published \in Nat /\ glim_run \in Nat \ {0}
  /\ glim_map \subseteq Places /\ IsFiniteSet(glim_map)

CloudsInOrder ==
  /\ clouds \in Seq(Clouds)
  /\ \A k \in 1 .. Len(clouds) :
       /\ clouds[k].run > 0 /\ IsFiniteSet(clouds[k].points)
       /\ Before(clouds[k], GlimCloud)
  /\ \A j, k \in 1 .. Len(clouds) : j <= k => Before(clouds[j], clouds[k])

SourceInOrder ==
  pgm = "live" => /\ source \in Clouds
                  /\ Before(source, GlimCloud)
                  /\ \A k \in 1 .. Len(clouds) : Before(source, clouds[k])

GridOfSource ==
  /\ pgm = "off" => source = NoCloud /\ map_topic_msg = NoGrid
  /\ pgm = "live" =>
       \/ source = NoCloud /\ map_topic_msg = NoGrid
       \/ map_topic_msg = SetMapTopicMsgFixedBounds(source.n, Obstacles(source.points))
  /\ pgm # "live" => clouds = <<>>

InductiveInvariant == GlimCloudOK /\ CloudsInOrder /\ SourceInOrder /\ GridOfSource

\* Waiting in the order they came.
LEMMA BeforeIsTransitive ==
  ASSUME NEW c, NEW d, NEW e, c.run \in Nat, d.run \in Nat, e.run \in Nat,
         Before(c, d), Before(d, e)
  PROVE  Before(c, e)
BY DEF Before

LEMMA InitInvariant == Init => InductiveInvariant
<1> SUFFICES ASSUME Init PROVE InductiveInvariant
  OBVIOUS
<1>1. GlimCloudOK
  BY FS_EmptySet DEF Init, GlimCloudOK
<1>2. clouds = <<>> /\ pgm = "off" /\ source = NoCloud /\ map_topic_msg = NoGrid
  BY DEF Init, MapInit
<1>3. CloudsInOrder
  BY <1>2 DEF CloudsInOrder
<1> QED
  BY <1>1, <1>2, <1>3 DEF InductiveInvariant, SourceInOrder, GridOfSource

\* What a scan adds to GLIM's map is finite.
LEMMA PlacesAreFinite ==
  ASSUME NEW scan \in Scans, NEW points \in FilterCloud(scan)
  PROVE  /\ {p.place : p \in InGlimRange(points)} \subseteq Places
         /\ IsFiniteSet({p.place : p \in InGlimRange(points)})
<1> DEFINE B == InGlimRange(points)
           T == {p.place : p \in B}
           f == [p \in B |-> p.place]
<1>1. B \subseteq scan.points
  BY DEF FilterCloud, Kept, InGlimRange
<1>2. IsFiniteSet(B)
  BY <1>1, ChainAssumption, FS_Subset
<1>3. f \in Surjection(B, T)
  BY DEF Surjection
<1>4. IsFiniteSet(T)
  <2> HIDE DEF f, T, B
  <2> QED
    BY <1>2, <1>3, FS_Surjection
<1>5. T \subseteq Places
  BY <1>1, ChainAssumption DEF Places
<1> QED
  BY <1>4, <1>5

\* GLIM's cloud only grows, or its run does; clouds and source stay.
LEMMA GlimMovesOn ==
  ASSUME InductiveInvariant, GlimCloudOK', Before(GlimCloud, GlimCloud'),
         UNCHANGED <<pgm, clouds, source, map_topic_msg>>
  PROVE  InductiveInvariant'
<1> USE DEF InductiveInvariant
<1>1. GlimCloud.run \in Nat /\ GlimCloud'.run \in Nat
  BY DEF GlimCloudOK, GlimCloud
<1>2. CloudsInOrder'
  <2>1. ASSUME NEW k \in 1 .. Len(clouds) PROVE Before(clouds[k], GlimCloud')
    <3>1. clouds[k] \in Clouds /\ Before(clouds[k], GlimCloud)
      BY DEF CloudsInOrder
    <3>2. clouds[k].run \in Nat
      BY <3>1 DEF Clouds
    <3> QED
      BY <1>1, <3>1, <3>2, BeforeIsTransitive
  <2> QED
    BY <2>1 DEF CloudsInOrder, Before
<1>3. SourceInOrder'
  <2> SUFFICES ASSUME pgm = "live" PROVE Before(source, GlimCloud')
    BY DEF SourceInOrder, Before
  <2>1. source.run \in Nat /\ Before(source, GlimCloud)
    BY DEF SourceInOrder, Clouds
  <2> QED
    BY <1>1, <2>1, BeforeIsTransitive
<1>4. GridOfSource'
  BY DEF GridOfSource, SetMapTopicMsgFixedBounds, Obstacles, Grid, PassThroughFilter,
         RadiusOutlierFilter, Neighbours, CellOf
<1> QED
  BY <1>2, <1>3, <1>4

\* kept is queue, or queue without its first element, with c at the end.
FollowsFrom(kept, queue, c) ==
  /\ kept[Len(kept)] = c
  /\ \E skip \in {0, 1} : \A k \in 1 .. Len(kept) - 1 :
       k + skip \in 1 .. Len(queue) /\ kept[k] = queue[k + skip]

\* A received cloud is put at the end, and the oldest may go.
LEMMA KeepLastAppends ==
  ASSUME NEW S, NEW queue \in Seq(S), NEW c \in S, NEW kept, kept = KeepLast(queue, c)
  PROVE  /\ kept \in Seq(S)
         /\ Len(kept) > 0
         /\ FollowsFrom(kept, queue, c)
<1>1. CASE Len(queue) < QueueDepth
  <2>1. kept = Append(queue, c)
    BY <1>1 DEF KeepLast
  <2>2. \A k \in 1 .. Len(kept) - 1 : k + 0 \in 1 .. Len(queue) /\ kept[k] = queue[k + 0]
    BY <2>1
  <2> QED
    BY <2>1, <2>2 DEF FollowsFrom
<1>2. CASE ~(Len(queue) < QueueDepth)
  <2>1. Len(queue) > 0 /\ queue # <<>>
    BY <1>2, LiveMapAssumption
  <2>2. kept = Append(Tail(queue), c)
    BY <1>2 DEF KeepLast
  <2>3. /\ Tail(queue) \in Seq(S) /\ Len(Tail(queue)) = Len(queue) - 1
        /\ \A k \in 1 .. Len(Tail(queue)) : Tail(queue)[k] = queue[k + 1]
    BY <2>1, HeadTailProperties
  <2>4. \A k \in 1 .. Len(kept) - 1 : k + 1 \in 1 .. Len(queue) /\ kept[k] = queue[k + 1]
    BY <2>2, <2>3
  <2> QED
    BY <2>2, <2>3, <2>4 DEF FollowsFrom
<1> QED
  BY <1>1, <1>2

\* A cloud GLIM publishes is its own: behind those that wait, in order with them.
LEMMA PublishKeepsOrder ==
  ASSUME InductiveInvariant, GlimPublishes
  PROVE  InductiveInvariant'
<1> USE DEF InductiveInvariant
<1> DEFINE new == [n |-> published', run |-> glim_run, points |-> glim_map]
<1>1. /\ GlimCloudOK' /\ new \in Clouds
      /\ new.run = glim_run /\ new.points = glim_map /\ new.run > 0 /\ IsFiniteSet(new.points)
  BY DEF GlimPublishes, GlimCloudOK, Clouds
<1>2. GlimCloud.run = glim_run /\ GlimCloud.points = glim_map /\ GlimCloud' = new
  BY DEF GlimCloud, GlimPublishes
<1>3. UNCHANGED <<pgm, source, map_topic_msg>>
  BY DEF GlimPublishes
<1> HIDE DEF new
<1>4. \A c : Before(c, GlimCloud) => Before(c, new)
  BY <1>1, <1>2 DEF Before
<1>5. CASE pgm # "live"
  <2>1. clouds' = clouds /\ clouds = <<>>
    BY <1>5 DEF GlimPublishes, GridOfSource
  <2>2. CloudsInOrder'
    BY <2>1 DEF CloudsInOrder
  <2> QED
    BY <1>1, <1>3, <1>5, <2>1, <2>2 DEF SourceInOrder, GridOfSource
<1>6. CASE pgm = "live"
  <2>1. clouds' = KeepLast(clouds, new) /\ clouds \in Seq(Clouds)
    BY <1>6 DEF GlimPublishes, CloudsInOrder, new
  <2>2. /\ clouds' \in Seq(Clouds)
        /\ Len(clouds') > 0
        /\ FollowsFrom(clouds', clouds, new)
    BY <1>1, <2>1, KeepLastAppends
  <2>3. PICK skip \in {0, 1} :
          \A k \in 1 .. Len(clouds') - 1 :
            k + skip \in 1 .. Len(clouds) /\ clouds'[k] = clouds[k + skip]
    BY <2>2 DEF FollowsFrom
  <2>3a. clouds'[Len(clouds')] = new
    BY <2>2 DEF FollowsFrom
  <2>4. Len(clouds') \in Nat
    BY <2>2
  <2>5. \A c : Before(c, c)
    BY DEF Before
  <2>6. ASSUME NEW k \in 1 .. Len(clouds')
        PROVE  clouds'[k].run > 0 /\ IsFiniteSet(clouds'[k].points) /\ Before(clouds'[k], new)
    <3>1. CASE k = Len(clouds')
      BY <1>1, <2>3a, <2>5, <3>1
    <3>2. CASE k \in 1 .. Len(clouds') - 1
      BY <1>4, <2>3, <3>2 DEF CloudsInOrder
    <3> QED
      BY <2>4, <3>1, <3>2
  <2>7. ASSUME NEW j \in 1 .. Len(clouds'), NEW k \in 1 .. Len(clouds'), j <= k
        PROVE  Before(clouds'[j], clouds'[k])
    <3>1. CASE k = Len(clouds')
      BY <2>3a, <2>6, <3>1
    <3>2. CASE k \in 1 .. Len(clouds') - 1
      <4>1. j \in 1 .. Len(clouds') - 1
        BY <2>4, <2>7, <3>2
      <4>2. j + skip <= k + skip
        BY <2>7
      <4> QED
        BY <2>3, <3>2, <4>1, <4>2 DEF CloudsInOrder
    <3> QED
      BY <2>4, <3>1, <3>2
  <2>8. CloudsInOrder'
    BY <1>2, <2>2, <2>6, <2>7 DEF CloudsInOrder
  <2>9. SourceInOrder'
    <3>1. source' \in Clouds /\ Before(source', new)
      BY <1>3, <1>4, <1>6 DEF SourceInOrder
    <3>2. ASSUME NEW k \in 1 .. Len(clouds') PROVE Before(source', clouds'[k])
      <4>1. CASE k = Len(clouds')
        BY <2>3a, <3>1, <4>1
      <4>2. CASE k \in 1 .. Len(clouds') - 1
        BY <1>3, <1>6, <2>3, <4>2 DEF SourceInOrder
      <4> QED
        BY <2>4, <4>1, <4>2
    <3> QED
      BY <1>2, <3>1, <3>2 DEF SourceInOrder
  <2>10. GridOfSource'
    BY <1>3, <1>6 DEF GridOfSource
  <2> QED
    BY <1>1, <2>8, <2>9, <2>10
<1> QED
  BY <1>5, <1>6

\* The oldest cloud is handled, and put on the grid or passed over.
LEMMA CallbackKeepsOrder ==
  ASSUME InductiveInvariant, LiveCloudCallback, UNCHANGED glimVars
  PROVE  InductiveInvariant'
<1> USE DEF InductiveInvariant
<1>1. /\ pgm = "live" /\ pgm' = "live"
      /\ clouds # <<>> /\ clouds' = Tail(clouds) /\ clouds \in Seq(Clouds)
  BY DEF LiveCloudCallback, CloudsInOrder
<1>2. GlimCloudOK' /\ GlimCloud' = GlimCloud
  BY DEF glimVars, GlimCloudOK, GlimCloud
<1>3. /\ clouds' \in Seq(Clouds)
      /\ Len(clouds) \in Nat /\ Len(clouds) > 0 /\ Len(clouds') = Len(clouds) - 1
      /\ \A k \in 1 .. Len(clouds') : k + 1 \in 1 .. Len(clouds) /\ clouds'[k] = clouds[k + 1]
      /\ 1 \in 1 .. Len(clouds) /\ clouds[1] \in Clouds
  BY <1>1, HeadTailProperties
<1>4. CloudsInOrder'
  <2>1. ASSUME NEW k \in 1 .. Len(clouds')
        PROVE  clouds'[k].run > 0 /\ IsFiniteSet(clouds'[k].points) /\ Before(clouds'[k], GlimCloud)
    BY <1>3 DEF CloudsInOrder
  <2>2. ASSUME NEW j \in 1 .. Len(clouds'), NEW k \in 1 .. Len(clouds'), j <= k
        PROVE  Before(clouds'[j], clouds'[k])
    <3>1. j + 1 <= k + 1
      BY <2>2
    <3> QED
      BY <1>3, <3>1 DEF CloudsInOrder
  <2> QED
    BY <1>2, <1>3, <2>1, <2>2 DEF CloudsInOrder
<1>5. source' = source \/ source' = clouds[1]
  BY <1>1 DEF LiveCloudCallback
<1>6. SourceInOrder'
  <2>1. source' \in Clouds /\ Before(source', GlimCloud)
    BY <1>1, <1>3, <1>5 DEF SourceInOrder, CloudsInOrder
  <2>2. ASSUME NEW k \in 1 .. Len(clouds') PROVE Before(source', clouds'[k])
    <3>1. Before(source, clouds[k + 1])
      BY <1>1, <1>3 DEF SourceInOrder
    <3>2. Before(clouds[1], clouds[k + 1])
      BY <1>3 DEF CloudsInOrder
    <3> QED
      BY <1>3, <1>5, <3>1, <3>2
  <2> QED
    BY <1>2, <2>1, <2>2 DEF SourceInOrder
<1>7. GridOfSource'
  BY <1>1 DEF GridOfSource, LiveCloudCallback
<1> QED
  BY <1>2, <1>4, <1>6, <1>7

LEMMA StepInvariant == InductiveInvariant /\ [Next]_vars => InductiveInvariant'
<1> SUFFICES ASSUME InductiveInvariant, [Next]_vars PROVE InductiveInvariant'
  OBVIOUS
<1>1. CASE GlimTakesScan
  <2>0. PICK scan \in Scans : \E points \in FilterCloud(scan) :
          glim_map' = glim_map \union {p.place : p \in InGlimRange(points)}
    BY <1>1 DEF GlimTakesScan
  <2>1. PICK points \in FilterCloud(scan) :
          glim_map' = glim_map \union {p.place : p \in InGlimRange(points)}
    BY <2>0
  <2>2. UNCHANGED <<pgm, clouds, source, map_topic_msg, glim_run, published>>
    BY <1>1 DEF GlimTakesScan, mapVars
  <2>3. GlimCloudOK'
    BY <2>1, <2>2, PlacesAreFinite, FS_Union DEF InductiveInvariant, GlimCloudOK
  <2>4. Before(GlimCloud, GlimCloud')
    BY <2>1, <2>2 DEF Before, GlimCloud
  <2> QED
    BY <2>2, <2>3, <2>4, GlimMovesOn
<1>2. CASE GlimPublishes
  BY <1>2, PublishKeepsOrder
<1>3. CASE GlimRestarts
  <2>1. /\ glim_run' = glim_run + 1 /\ glim_map' = {}
        /\ UNCHANGED <<pgm, clouds, source, map_topic_msg, published>>
    BY <1>3 DEF GlimRestarts, mapVars
  <2>2. GlimCloudOK' /\ Before(GlimCloud, GlimCloud')
    BY <2>1, FS_EmptySet DEF InductiveInvariant, GlimCloudOK, Before, GlimCloud
  <2> QED
    BY <2>1, <2>2, GlimMovesOn
<1>4. CASE Pcd2PgmNode /\ UNCHANGED glimVars
  <2>1. /\ pgm = "off" /\ pgm' # "off"
        /\ clouds = <<>> /\ clouds' = <<>>
        /\ pgm' = "live" => UNCHANGED <<source, map_topic_msg>>
    BY <1>4 DEF Pcd2PgmNode, InductiveInvariant, GridOfSource
  <2>2. GlimCloudOK' /\ GlimCloud' = GlimCloud
    BY <1>4 DEF InductiveInvariant, GlimCloudOK, glimVars, GlimCloud
  <2>3. source = NoCloud /\ map_topic_msg = NoGrid
    BY <2>1 DEF InductiveInvariant, GridOfSource
  <2>4. NoCloud \in Clouds /\ Before(NoCloud, GlimCloud)
    BY DEF NoCloud, Clouds, Before, GlimCloud, InductiveInvariant, GlimCloudOK
  <2>5. CloudsInOrder'
    BY <2>1 DEF CloudsInOrder
  <2>6. SourceInOrder' /\ GridOfSource'
    BY <2>1, <2>2, <2>3, <2>4 DEF SourceInOrder, GridOfSource
  <2> QED
    BY <2>2, <2>5, <2>6 DEF InductiveInvariant
<1>5. CASE LiveCloudCallback /\ UNCHANGED glimVars
  BY <1>5, CallbackKeepsOrder
<1>6. CASE UNCHANGED <<pgm, clouds, source, map_topic_msg, glimVars>>
  <2>1. GlimCloudOK' /\ Before(GlimCloud, GlimCloud')
    BY <1>6 DEF InductiveInvariant, GlimCloudOK, glimVars, Before, GlimCloud
  <2> QED
    BY <1>6, <2>1, GlimMovesOn
<1>7. CASE (Timer \/ NavStart \/ NavStop \/ NavReceive) /\ UNCHANGED glimVars
  BY <1>6, <1>7 DEF Timer, NavStart, NavStop, NavReceive, Node
<1>8. CASE UNCHANGED vars
  BY <1>6, <1>8 DEF vars, mapVars, glimVars
<1> QED
  BY <1>1, <1>2, <1>3, <1>4, <1>5, <1>7, <1>8 DEF Next, MapNext

LEMMA Invariance == Spec => []InductiveInvariant
BY InitInvariant, StepInvariant, PTL DEF Spec

\* Obstacles stay on the live map within a run of GLIM, for any filters, grid
\* and length of the queue: the cloud handled next holds the last one.
THEOREM ObstaclesStayOnTheMap == Spec => ObstaclesStay
<1>1. ASSUME InductiveInvariant, [Next]_vars, source.run = source'.run, pgm = "live"
      PROVE  map_topic_msg.data \subseteq map_topic_msg'.data
  <2>1. CASE LiveCloudCallback
    <3>1. CASE map_topic_msg' = map_topic_msg
      BY <3>1
    <3>2. CASE map_topic_msg' # map_topic_msg
      <4>1. /\ source' = Head(clouds) /\ clouds # <<>>
            /\ map_topic_msg' = SetMapTopicMsgFixedBounds(source'.n, Obstacles(source'.points))
        BY <2>1, <3>2 DEF LiveCloudCallback
      <4>2. /\ source' = clouds[1] /\ 1 \in 1 .. Len(clouds)
            /\ source'.run > 0 /\ IsFiniteSet(source'.points)
        BY <1>1, <4>1 DEF InductiveInvariant, CloudsInOrder
      <4>3. Before(source, source') /\ source.run \in Nat
        BY <1>1, <4>2 DEF InductiveInvariant, SourceInOrder, Clouds
      <4>4. source.points \subseteq source'.points
        BY <1>1, <4>3 DEF Before
      <4>5. map_topic_msg = SetMapTopicMsgFixedBounds(source.n, Obstacles(source.points))
        BY <1>1, <4>2 DEF InductiveInvariant, GridOfSource, NoCloud
      <4>6. Obstacles(source.points) \subseteq Obstacles(source'.points)
        BY <4>2, <4>4, ObstaclesGrow
      <4> QED
        BY <4>1, <4>5, <4>6, GridGrows DEF SetMapTopicMsgFixedBounds
    <3> QED
      BY <3>1, <3>2
  <2>2. CASE ~LiveCloudCallback
    <3>1. map_topic_msg' = map_topic_msg
      BY <1>1, <2>2 DEF Next, MapNext, GlimTakesScan, GlimPublishes, GlimRestarts, Pcd2PgmNode,
         Timer, NavStart, NavStop, NavReceive, Node, vars, mapVars
    <3> QED
      BY <3>1
  <2> QED
    BY <2>1, <2>2
<1>2. InductiveInvariant /\ [Next]_vars =>
        [source.run = source'.run /\ pgm = "live" =>
           map_topic_msg.data \subseteq map_topic_msg'.data]_vars
  BY <1>1
<1> QED
  BY <1>2, Invariance, PTL DEF Spec, ObstaclesStay

\* For any filters and grid, the map is wiped only for a cloud with obstacles:
\* neither an empty cloud nor GLIM starting again does it.
THEOREM MapIsNotWipedSilently == Spec => NoSilentWipe
<1>1. ASSUME InductiveInvariant, [Next]_vars, map_topic_msg.data # {}, map_topic_msg'.data = {}
      PROVE  \E p \in Obstacles(source'.points) : TRUE
  <2>1. CASE LiveCloudCallback
    <3>1. source' = Head(clouds) /\ Obstacles(Head(clouds).points) # {}
      BY <1>1, <2>1 DEF LiveCloudCallback
    <3> QED
      BY <3>1
  <2>2. CASE ~LiveCloudCallback
    <3>1. ~Pcd2PgmNode
      BY <1>1 DEF Pcd2PgmNode, InductiveInvariant, GridOfSource, NoGrid
    <3>2. map_topic_msg' = map_topic_msg
      BY <1>1, <2>2, <3>1 DEF Next, MapNext, GlimTakesScan, GlimPublishes, GlimRestarts,
         Timer, NavStart, NavStop, NavReceive, Node, vars, mapVars
    <3> QED
      BY <1>1, <3>2
  <2> QED
    BY <2>1, <2>2
<1>2. InductiveInvariant /\ [Next]_vars =>
        [(map_topic_msg.data # {} /\ map_topic_msg'.data = {}) =>
           \E p \in Obstacles(source'.points) : TRUE]_vars
  BY <1>1
<1> QED
  BY <1>2, Invariance, PTL DEF Spec, NoSilentWipe

\* For any filters, grid, clouds and restarts, the live map loses no obstacle
\* within a run of GLIM, and all of them only to a cloud that has some.
THEOREM MapStaysKept == Spec => MapIsKept
<1> QED
  BY ObstaclesStayOnTheMap, MapIsNotWipedSilently DEF MapIsKept

-----------------------------------------------------------------------------
(***************************************************************************)
(* Whole numbers: division, the index of a cell, the least of a set.       *)
(***************************************************************************)
LEMMA ProductGrows ==
  ASSUME NEW j \in Int, NEW k \in Int, NEW r \in Nat, j <= k
  PROVE  j * r <= k * r
BY SMT

LEMMA QuotientBounds ==
  ASSUME NEW a \in Int, NEW r \in Nat \ {0}
  PROVE  a \div r \in Int /\ (a \div r) * r <= a /\ a < (a \div r + 1) * r
BY SMT

\* A quotient is the number between whose multiples the dividend lies.
LEMMA QuotientIs ==
  ASSUME NEW a \in Int, NEW r \in Nat \ {0}, NEW k \in Int
  PROVE  a \div r = k <=> (k * r <= a /\ a < (k + 1) * r)
<1> DEFINE q == a \div r
<1>1. q \in Int /\ q * r <= a /\ a < (q + 1) * r
  BY QuotientBounds
<1> HIDE DEF q
<1>2. ASSUME k * r <= a, a < (k + 1) * r, q < k PROVE FALSE
  <2>1. (q + 1) * r <= k * r /\ (q + 1) * r \in Int /\ k * r \in Int
    BY <1>1, <1>2, ProductGrows
  <2> QED
    BY <1>1, <1>2, <2>1
<1>3. ASSUME k * r <= a, a < (k + 1) * r, k < q PROVE FALSE
  <2>1. (k + 1) * r <= q * r /\ (k + 1) * r \in Int /\ q * r \in Int
    BY <1>1, <1>3, ProductGrows
  <2> QED
    BY <1>1, <1>3, <2>1
<1>4. (k * r <= a /\ a < (k + 1) * r) => q = k
  BY <1>1, <1>2, <1>3
<1>5. q = k => (k * r <= a /\ a < (k + 1) * r)
  BY <1>1
<1> QED
  BY <1>4, <1>5 DEF q

\* Rounding up covers the whole extent.
LEMMA CeilDivCovers ==
  ASSUME NEW a \in Int, NEW r \in Nat \ {0}
  PROVE  CeilDiv(a, r) \in Int /\ a <= CeilDiv(a, r) * r
<1> DEFINE q == (-a) \div r
<1>1. q \in Int /\ q * r <= -a
  BY QuotientBounds
<1> HIDE DEF q
<1>2. (-q) * r = -(q * r) /\ q * r \in Int
  BY <1>1, SMT
<1>3. CeilDiv(a, r) = -q
  BY DEF CeilDiv, q
<1> QED
  BY <1>1, <1>2, <1>3

\* Row by row no two cells share an index.
LEMMA IndexIsOneCell ==
  ASSUME NEW w \in Nat, NEW i \in 0 .. w - 1, NEW m \in 0 .. w - 1,
         NEW j \in Int, NEW n \in Int, i + j * w = m + n * w
  PROVE  i = m /\ j = n
<1>1. CASE j < n
  <2>1. (j + 1) * w <= n * w
    BY <1>1, ProductGrows
  <2>2. (j + 1) * w = j * w + w /\ j * w \in Int /\ n * w \in Int
    BY SMT
  <2> QED
    BY <2>1, <2>2, SMT
<1>2. CASE n < j
  <2>1. (n + 1) * w <= j * w
    BY <1>2, ProductGrows
  <2>2. (n + 1) * w = n * w + w /\ j * w \in Int /\ n * w \in Int
    BY SMT
  <2> QED
    BY <2>1, <2>2, SMT
<1> QED
  BY <1>1, <1>2, SMT

\* A finite set of numbers has a least one: that with the fewest below it.
LEMMA MinIsLeast ==
  ASSUME NEW S \in SUBSET Int, IsFiniteSet(S), S # {}
  PROVE  Min(S) \in S /\ \A y \in S : Min(S) <= y
<1> DEFINE Below(x) == {y \in S : y < x}
           T == {Below(x) : x \in S}
           R == StrictSubsetOrdering(S)
<1>1. IsWellFoundedOn(R, FiniteSubsetsOf(S))
  BY FS_StrictSubsetOrderingWellFounded
<1>2. T \subseteq FiniteSubsetsOf(S) /\ T # {}
  <2>1. ASSUME NEW x \in S PROVE Below(x) \in FiniteSubsetsOf(S)
    <3>1. Below(x) \in SUBSET S
      OBVIOUS
    <3> QED
      BY <3>1, FS_Subset DEF FiniteSubsetsOf
  <2> QED
    BY <2>1
<1>3. PICK Y \in T : \A Z \in T : ~(<<Z, Y>> \in R)
  <2> HIDE DEF T, R
  <2> QED
    BY <1>1, <1>2, WFMin
<1>4. PICK x \in S : Y = Below(x)
  BY <1>3
<1>5. \A y \in S : x <= y
  <2> SUFFICES ASSUME NEW y \in S, y < x PROVE FALSE
    OBVIOUS
  <2>1. Below(y) \in SUBSET S /\ Below(x) \in SUBSET S
    OBVIOUS
  <2>2. Below(y) \subseteq Below(x)
    <3> SUFFICES ASSUME NEW z \in S, z < y PROVE z < x
      OBVIOUS
    <3>1. x \in Int /\ y \in Int /\ z \in Int
      OBVIOUS
    <3> QED
      BY <3>1
  <2>3. y \in Below(x) /\ y \notin Below(y)
    <3>1. y \in Int
      OBVIOUS
    <3> QED
      BY <3>1
  <2>4. Below(y) \in T
    OBVIOUS
  <2> HIDE DEF Below, T
  <2>5. <<Below(y), Below(x)>> \in R
    BY <2>1, <2>2, <2>3 DEF StrictSubsetOrdering
  <2> QED
    BY <1>3, <1>4, <2>4, <2>5
<1> QED
  BY <1>5 DEF Min

\* The same upside down.
LEMMA MaxIsGreatest ==
  ASSUME NEW S \in SUBSET Int, IsFiniteSet(S), S # {}
  PROVE  Max(S) \in S /\ \A y \in S : Max(S) >= y
<1> DEFINE Above(x) == {y \in S : y > x}
           T == {Above(x) : x \in S}
           R == StrictSubsetOrdering(S)
<1>1. IsWellFoundedOn(R, FiniteSubsetsOf(S))
  BY FS_StrictSubsetOrderingWellFounded
<1>2. T \subseteq FiniteSubsetsOf(S) /\ T # {}
  <2>1. ASSUME NEW x \in S PROVE Above(x) \in FiniteSubsetsOf(S)
    <3>1. Above(x) \in SUBSET S
      OBVIOUS
    <3> QED
      BY <3>1, FS_Subset DEF FiniteSubsetsOf
  <2> QED
    BY <2>1
<1>3. PICK Y \in T : \A Z \in T : ~(<<Z, Y>> \in R)
  <2> HIDE DEF T, R
  <2> QED
    BY <1>1, <1>2, WFMin
<1>4. PICK x \in S : Y = Above(x)
  BY <1>3
<1>5. \A y \in S : x >= y
  <2> SUFFICES ASSUME NEW y \in S, y > x PROVE FALSE
    OBVIOUS
  <2>1. Above(y) \in SUBSET S /\ Above(x) \in SUBSET S
    OBVIOUS
  <2>2. Above(y) \subseteq Above(x)
    <3> SUFFICES ASSUME NEW z \in S, z > y PROVE z > x
      OBVIOUS
    <3>1. x \in Int /\ y \in Int /\ z \in Int
      OBVIOUS
    <3> QED
      BY <3>1
  <2>3. y \in Above(x) /\ y \notin Above(y)
    <3>1. y \in Int
      OBVIOUS
    <3> QED
      BY <3>1
  <2>4. Above(y) \in T
    OBVIOUS
  <2> HIDE DEF Above, T
  <2>5. <<Above(y), Above(x)>> \in R
    BY <2>1, <2>2, <2>3 DEF StrictSubsetOrdering
  <2> QED
    BY <1>3, <1>4, <2>4, <2>5
<1> QED
  BY <1>5 DEF Max

-----------------------------------------------------------------------------
(***************************************************************************)
(* One grid.                                                               *)
(***************************************************************************)

\* A point is in a cell if it lies between its borders.
LEMMA CellOfPoint ==
  ASSUME NEW p \in Places, NEW origin \in Int \X Int, NEW i \in Int, NEW j \in Int
  PROVE  CellOf(p, origin) = <<i, j>> <=>
           /\ origin[1] + i * Resolution <= p[1] /\ p[1] < origin[1] + (i + 1) * Resolution
           /\ origin[2] + j * Resolution <= p[2] /\ p[2] < origin[2] + (j + 1) * Resolution
<1>1. /\ p[1] \in Int /\ p[2] \in Int /\ origin[1] \in Int /\ origin[2] \in Int
      /\ Resolution \in Nat \ {0}
  BY LiveMapAssumption DEF Places
<1> DEFINE a == p[1] - origin[1]
           b == p[2] - origin[2]
<1>2. a \in Int /\ b \in Int
  BY <1>1
<1>3. a \div Resolution = i <=> (i * Resolution <= a /\ a < (i + 1) * Resolution)
  <2> HIDE DEF a
  <2> QED
    BY <1>1, <1>2, QuotientIs
<1>4. b \div Resolution = j <=> (j * Resolution <= b /\ b < (j + 1) * Resolution)
  <2> HIDE DEF b
  <2> QED
    BY <1>1, <1>2, QuotientIs
<1>5. CellOf(p, origin) = <<i, j>> <=> (a \div Resolution = i /\ b \div Resolution = j)
  BY DEF CellOf
<1>6. \A k \in Int : k * Resolution \in Int
  BY <1>1
<1>7. (i * Resolution <= a /\ a < (i + 1) * Resolution) <=>
        (origin[1] + i * Resolution <= p[1] /\ p[1] < origin[1] + (i + 1) * Resolution)
  BY <1>1, <1>6
<1>8. (j * Resolution <= b /\ b < (j + 1) * Resolution) <=>
        (origin[2] + j * Resolution <= p[2] /\ p[2] < origin[2] + (j + 1) * Resolution)
  BY <1>1, <1>6
<1> HIDE DEF a, b
<1> QED
  BY <1>3, <1>4, <1>5, <1>7, <1>8

\* A grid's width and height are numbers that cover its size, and its data are
\* the indices of the cells inside it that hold a point.
IsGridOf(msg, points, origin, size) ==
  /\ msg.origin = origin
  /\ msg.width \in Int /\ size[1] <= msg.width * Resolution
  /\ msg.height \in Int /\ size[2] <= msg.height * Resolution
  /\ \A i \in 0 .. msg.width - 1, j \in 0 .. msg.height - 1 :
       i + j * msg.width \in msg.data <=> \E p \in points : CellOf(p, origin) = <<i, j>>

LEMMA GridIs ==
  ASSUME NEW n, NEW points \in SUBSET Places, NEW origin \in Int \X Int,
         NEW size \in Int \X Int
  PROVE  IsGridOf(Grid(n, points, origin, size), points, origin, size)
<1> DEFINE w == CeilDiv(size[1], Resolution)
           h == CeilDiv(size[2], Resolution)
           cells == {CellOf(p, origin) : p \in points} \intersect ((0 .. w - 1) \X (0 .. h - 1))
           data == {c[1] + c[2] * w : c \in cells}
<1>1. Grid(n, points, origin, size) =
        [stamp |-> n, origin |-> origin, width |-> w, height |-> h, data |-> data]
  BY DEF Grid
<1>2. w \in Int /\ h \in Int /\ size[1] <= w * Resolution /\ size[2] <= h * Resolution
  BY CeilDivCovers, LiveMapAssumption
<1>3. ASSUME NEW i \in 0 .. w - 1, NEW j \in 0 .. h - 1
      PROVE  i + j * w \in data <=> \E p \in points : CellOf(p, origin) = <<i, j>>
  <2>1. w \in Nat /\ j \in Int
    BY <1>2, <1>3
  <2>2. ASSUME NEW p \in points, CellOf(p, origin) = <<i, j>>
        PROVE  i + j * w \in data
    <3>1. <<i, j>> \in cells
      BY <1>3, <2>2
    <3> QED
      BY <3>1
  <2>3. ASSUME i + j * w \in data
        PROVE  \E p \in points : CellOf(p, origin) = <<i, j>>
    <3>1. PICK c \in cells : i + j * w = c[1] + c[2] * w
      BY <2>3
    <3>2. c[1] \in 0 .. w - 1 /\ c[2] \in 0 .. h - 1 /\ c = <<c[1], c[2]>>
      BY <3>1
    <3>3. c[1] = i /\ c[2] = j
      <4> HIDE DEF w, h
      <4>1. c[2] \in Int
        BY <3>2, <1>2
      <4> QED
        BY <2>1, <3>1, <3>2, <4>1, IndexIsOneCell
    <3> QED
      BY <3>1, <3>2, <3>3
  <2> QED
    BY <2>2, <2>3
<1> HIDE DEF w, h, data
<1> QED
  BY <1>1, <1>2, <1>3 DEF IsGridOf

-----------------------------------------------------------------------------
(***************************************************************************)
(* The grid of the node.                                                   *)
(***************************************************************************)

\* The grid of the bounding box.
BoundingGrid(points) ==
  LET xs == {p[1] : p \in points}
      ys == {p[2] : p \in points}
  IN  Grid(0, points, <<Min(xs), Min(ys)>>, <<Max(xs) - Min(xs), Max(ys) - Min(ys)>>)

\* Besides InductiveInvariant: what a file's map was made of.
FileInvariant ==
  /\ source.points \subseteq Places
  /\ pgm \in {"off", "live", "file", "failed"}
  /\ pgm = "failed" => map_topic_msg = NoGrid
  /\ pgm = "file" =>
       /\ IsFiniteSet(source.points)
       /\ map_topic_msg = IF Obstacles(source.points) = {} THEN NoGrid
                          ELSE BoundingGrid(Obstacles(source.points))

LEMMA TransformedFile ==
  ASSUME NEW file \in Files
  PROVE  ApplyTransform(file) \subseteq Places /\ IsFiniteSet(ApplyTransform(file))
<1> DEFINE Moved(p) == <<p[1] - OdomToLidar[1], p[2] - OdomToLidar[2], p[3] - OdomToLidar[3]>>
           f == [p \in file |-> Moved(p)]
           T == ApplyTransform(file)
<1>1. IsFiniteSet(file) /\ file \subseteq Places /\ OdomToLidar \in Places
  BY LiveMapAssumption DEF Places
<1>2. f \in Surjection(file, T)
  BY DEF Surjection, ApplyTransform
<1>3. IsFiniteSet(T)
  <2> HIDE DEF f, T
  <2> QED
    BY <1>1, <1>2, FS_Surjection
<1>4. T \subseteq Places
  BY <1>1 DEF ApplyTransform, Places
<1> QED
  BY <1>3, <1>4

LEMMA FileInvariance == Spec => []FileInvariant
<1>1. Init => FileInvariant
  BY DEF Init, MapInit, FileInvariant, NoCloud
<1>2. ASSUME InductiveInvariant, FileInvariant, [Next]_vars PROVE FileInvariant'
  <2>1. CASE Pcd2PgmNode
    <3>1. pgm = "off" /\ map_topic_msg = NoGrid /\ source = NoCloud
      BY <1>2, <2>1 DEF Pcd2PgmNode, InductiveInvariant, GridOfSource
    <3>2. CASE pgm' = "file"
      <4>1. PICK file \in Files :
              /\ source' = [NoCloud EXCEPT !.points = ApplyTransform(file)]
              /\ map_topic_msg' = SetMapTopicMsgDynamicBounds(Obstacles(ApplyTransform(file)))
        BY <2>1, <3>2 DEF Pcd2PgmNode
      <4>2. source'.points = ApplyTransform(file)
        BY <4>1 DEF NoCloud
      <4>3. map_topic_msg' = IF Obstacles(source'.points) = {} THEN NoGrid
                             ELSE BoundingGrid(Obstacles(source'.points))
        BY <3>1, <4>1, <4>2 DEF SetMapTopicMsgDynamicBounds, BoundingGrid
      <4> QED
        BY <3>2, <4>2, <4>3, TransformedFile DEF FileInvariant
    <3>3. CASE pgm' # "file"
      <4>1. UNCHANGED <<source, map_topic_msg>>
        BY <2>1, <3>3 DEF Pcd2PgmNode
      <4>2. pgm' \in {"off", "live", "failed"}
        BY <2>1, <3>3 DEF Pcd2PgmNode
      <4> QED
        BY <1>2, <3>1, <3>3, <4>1, <4>2 DEF FileInvariant
    <3> QED
      BY <3>2, <3>3
  <2>2. CASE LiveCloudCallback
    <3>1. pgm' = "live" /\ (source' = source \/ source' = Head(clouds)) /\ clouds # <<>>
      BY <2>2 DEF LiveCloudCallback
    <3>2. Head(clouds).points \subseteq Places
      <4>1. clouds \in Seq(Clouds)
        BY <1>2 DEF InductiveInvariant, CloudsInOrder
      <4>2. Head(clouds) \in Clouds
        BY <3>1, <4>1
      <4> QED
        BY <4>2 DEF Clouds
    <3> QED
      BY <1>2, <3>1, <3>2 DEF FileInvariant
  <2>3. CASE ~Pcd2PgmNode /\ ~LiveCloudCallback
    <3>1. UNCHANGED <<pgm, source, map_topic_msg>>
      BY <1>2, <2>3 DEF Next, MapNext, GlimTakesScan, GlimPublishes, GlimRestarts,
         Timer, NavStart, NavStop, NavReceive, Node, vars, mapVars
    <3> QED
      BY <1>2, <3>1 DEF FileInvariant
  <2> QED
    BY <2>1, <2>2, <2>3
<1> QED
  BY <1>1, <1>2, Invariance, PTL DEF Spec

\* The grid of some obstacles shows them, cell by cell.
Shows(msg, obstacles) ==
  \A i \in 0 .. msg.width - 1, j \in 0 .. msg.height - 1 :
    i + j * msg.width \in msg.data <=>
      \E p \in obstacles :
        /\ msg.origin[1] + i * Resolution <= p[1]
        /\ p[1] < msg.origin[1] + (i + 1) * Resolution
        /\ msg.origin[2] + j * Resolution <= p[2]
        /\ p[2] < msg.origin[2] + (j + 1) * Resolution

LEMMA GridShows ==
  ASSUME NEW n, NEW points \in SUBSET Places, NEW origin \in Int \X Int,
         NEW size \in Int \X Int
  PROVE  Shows(Grid(n, points, origin, size), points)
<1> DEFINE msg == Grid(n, points, origin, size)
<1>0. IsGridOf(msg, points, origin, size)
  BY GridIs
<1> HIDE DEF msg
<1>1. msg.origin = origin /\ msg.width \in Int /\ msg.height \in Int
  BY <1>0 DEF IsGridOf
<1>2. \A i \in 0 .. msg.width - 1, j \in 0 .. msg.height - 1 :
        i + j * msg.width \in msg.data <=> \E p \in points : CellOf(p, origin) = <<i, j>>
  BY <1>0 DEF IsGridOf
<1>3. ASSUME NEW i \in 0 .. msg.width - 1, NEW j \in 0 .. msg.height - 1, NEW p \in points
      PROVE  CellOf(p, origin) = <<i, j>> <=>
               /\ origin[1] + i * Resolution <= p[1] /\ p[1] < origin[1] + (i + 1) * Resolution
               /\ origin[2] + j * Resolution <= p[2] /\ p[2] < origin[2] + (j + 1) * Resolution
  <2>1. i \in Int /\ j \in Int /\ p \in Places
    BY <1>1, <1>3
  <2> QED
    BY <2>1, CellOfPoint
<1>4. Shows(msg, points)
  <2> SUFFICES ASSUME NEW i \in 0 .. msg.width - 1, NEW j \in 0 .. msg.height - 1
               PROVE  i + j * msg.width \in msg.data <=>
                 \E p \in points :
                   /\ msg.origin[1] + i * Resolution <= p[1]
                   /\ p[1] < msg.origin[1] + (i + 1) * Resolution
                   /\ msg.origin[2] + j * Resolution <= p[2]
                   /\ p[2] < msg.origin[2] + (j + 1) * Resolution
    BY DEF Shows
  <2>1. i + j * msg.width \in msg.data <=> \E p \in points : CellOf(p, origin) = <<i, j>>
    BY <1>2
  <2> QED
    BY <1>1, <1>3, <2>1
<1> QED
  BY <1>4 DEF msg

\* The least and greatest coordinates of a finite cloud.
LEMMA Bounds ==
  ASSUME NEW points \in SUBSET Places, IsFiniteSet(points), points # {}
  PROVE  LET xs == {p[1] : p \in points}
             ys == {p[2] : p \in points}
         IN  /\ Min(xs) \in Int /\ Max(xs) \in Int /\ \A x \in xs : Min(xs) <= x /\ x <= Max(xs)
             /\ Min(ys) \in Int /\ Max(ys) \in Int /\ \A y \in ys : Min(ys) <= y /\ y <= Max(ys)
<1> DEFINE xs == {p[1] : p \in points}
           ys == {p[2] : p \in points}
           f  == [p \in points |-> p[1]]
           g  == [p \in points |-> p[2]]
<1>1. xs \in SUBSET Int /\ ys \in SUBSET Int /\ xs # {} /\ ys # {}
  BY DEF Places
<1>2. f \in Surjection(points, xs) /\ g \in Surjection(points, ys)
  BY DEF Surjection
<1> HIDE DEF xs, ys, f, g
<1>3. IsFiniteSet(xs) /\ IsFiniteSet(ys)
  BY <1>2, FS_Surjection
<1>4. Min(xs) \in xs /\ Max(xs) \in xs /\ \A x \in xs : Min(xs) <= x /\ Max(xs) >= x
  BY <1>1, <1>3, MinIsLeast, MaxIsGreatest
<1>5. Min(ys) \in ys /\ Max(ys) \in ys /\ \A y \in ys : Min(ys) <= y /\ Max(ys) >= y
  BY <1>1, <1>3, MinIsLeast, MaxIsGreatest
<1>6. /\ Min(xs) \in Int /\ Max(xs) \in Int /\ \A x \in xs : Min(xs) <= x /\ x <= Max(xs)
      /\ Min(ys) \in Int /\ Max(ys) \in Int /\ \A y \in ys : Min(ys) <= y /\ y <= Max(ys)
  BY <1>1, <1>4, <1>5
<1> QED
  BY <1>6 DEF xs, ys

\* The live and the file's grid show, cell by cell, the obstacles of the cloud
\* they were made of, for any filters, resolution and bounds.
THEOREM GridShowsItsCloud == Spec => []GridShowsCloud
<1>1. ASSUME InductiveInvariant, FileInvariant PROVE GridShowsCloud
  <2> DEFINE O == Obstacles(source.points)
  <2>1. O \in SUBSET Places /\ O \subseteq source.points
    BY <1>1 DEF FileInvariant, Obstacles, RadiusOutlierFilter, PassThroughFilter
  <2>2. CASE map_topic_msg = NoGrid
    BY <2>2 DEF NoGrid, GridShowsCloud
  <2>3. ASSUME Shows(map_topic_msg, O) PROVE GridShowsCloud
    BY <2>3 DEF Shows, GridShowsCloud
  <2>4. CASE pgm = "live" /\ map_topic_msg # NoGrid
    <3>1. map_topic_msg = Grid(source.n, O, FixedOrigin, FixedSize)
      BY <1>1, <2>4 DEF InductiveInvariant, GridOfSource, SetMapTopicMsgFixedBounds
    <3>2. FixedOrigin \in Int \X Int /\ FixedSize \in Int \X Int
      BY LiveMapAssumption
    <3> HIDE DEF O
    <3> QED
      BY <2>1, <2>3, <3>1, <3>2, GridShows
  <2>5. CASE pgm = "file" /\ map_topic_msg # NoGrid
    <3>1. map_topic_msg = BoundingGrid(O) /\ O # {} /\ IsFiniteSet(source.points)
      BY <1>1, <2>5 DEF FileInvariant
    <3>2. IsFiniteSet(O)
      BY <2>1, <3>1, FS_Subset
    <3> HIDE DEF O
    <3> DEFINE xs == {p[1] : p \in O}
               ys == {p[2] : p \in O}
    <3>3. Min(xs) \in Int /\ Max(xs) \in Int /\ Min(ys) \in Int /\ Max(ys) \in Int
      BY <2>1, <3>1, <3>2, Bounds
    <3>4. map_topic_msg = Grid(0, O, <<Min(xs), Min(ys)>>, <<Max(xs) - Min(xs), Max(ys) - Min(ys)>>)
      BY <3>1 DEF BoundingGrid
    <3> HIDE DEF xs, ys
    <3>5. /\ <<Min(xs), Min(ys)>> \in Int \X Int
          /\ <<Max(xs) - Min(xs), Max(ys) - Min(ys)>> \in Int \X Int
      BY <3>3
    <3> QED
      BY <2>1, <2>3, <3>4, <3>5, GridShows
  <2>6. CASE pgm \notin {"live", "file"}
    <3>1. map_topic_msg = NoGrid
      BY <1>1, <2>6 DEF InductiveInvariant, GridOfSource, FileInvariant
    <3> QED
      BY <2>2, <3>1
  <2> QED
    BY <2>2, <2>4, <2>5, <2>6
<1> QED
  BY <1>1, Invariance, FileInvariance, PTL

\* A number between 0 and the extent, short of it, has its cell in the grid.
LEMMA CellInGrid ==
  ASSUME NEW a \in Int, NEW extent \in Int, NEW w \in Int, NEW r \in Nat \ {0},
         0 <= a, a < extent, extent <= w * r
  PROVE  a \div r \in 0 .. w - 1
<1> DEFINE q == a \div r
<1>1. q \in Int /\ q * r <= a /\ a < (q + 1) * r
  BY QuotientBounds
<1> HIDE DEF q
<1>2. ASSUME q < 0 PROVE FALSE
  <2>1. (q + 1) * r <= 0 * r /\ (q + 1) * r \in Int
    BY <1>1, <1>2, ProductGrows
  <2> QED
    BY <1>1, <2>1
<1>3. ASSUME w <= q PROVE FALSE
  <2>1. w * r <= q * r /\ w * r \in Int /\ q * r \in Int
    BY <1>1, <1>3, ProductGrows
  <2> QED
    BY <1>1, <2>1
<1>4. q \in 0 .. w - 1
  BY <1>1, <1>2, <1>3
<1> QED
  BY <1>4 DEF q

\* For any file, filters and resolution, a map made from a file marks every
\* obstacle but those farthest out, at the end of the last column or row.
THEOREM FileLosesOnlyTheEdge == Spec => []FileMapLosesOnlyTheEdge
<1>1. ASSUME FileInvariant PROVE FileMapLosesOnlyTheEdge
  <2> DEFINE O == Obstacles(source.points)
             c(p) == CellOf(p, map_topic_msg.origin)
             In(p) == /\ c(p)[1] < map_topic_msg.width /\ c(p)[2] < map_topic_msg.height
                      /\ c(p)[1] + c(p)[2] * map_topic_msg.width \in map_topic_msg.data
             Far(p) == \E axis \in {1, 2} : \A q \in O : q[axis] <= p[axis]
  <2> SUFFICES ASSUME pgm = "file", NEW p \in O, ~Far(p) PROVE In(p)
    BY DEF FileMapLosesOnlyTheEdge
  <2>1. O \in SUBSET Places /\ O \subseteq source.points
    BY <1>1 DEF FileInvariant, Obstacles, RadiusOutlierFilter, PassThroughFilter
  <2>2. map_topic_msg = BoundingGrid(O) /\ IsFiniteSet(source.points)
    BY <1>1 DEF FileInvariant
  <2>3. IsFiniteSet(O)
    BY <2>1, <2>2, FS_Subset
  <2>4. PICK q \in O : ~(q[1] <= p[1])
    OBVIOUS
  <2>5. PICK r \in O : ~(r[2] <= p[2])
    OBVIOUS
  <2> DEFINE xs == {v[1] : v \in O}
             ys == {v[2] : v \in O}
             x0 == Min(xs)
             y0 == Min(ys)
             size == <<Max(xs) - x0, Max(ys) - y0>>
  <2>6. map_topic_msg = Grid(0, O, <<x0, y0>>, size)
    BY <2>2 DEF BoundingGrid
  <2> HIDE DEF O
  <2>7. /\ p[1] \in Int /\ p[2] \in Int /\ q[1] \in Int /\ r[2] \in Int
        /\ p[1] \in xs /\ q[1] \in xs /\ p[2] \in ys /\ r[2] \in ys
    BY <2>1 DEF Places
  <2>8. /\ x0 \in Int /\ Max(xs) \in Int /\ \A x \in xs : x0 <= x /\ x <= Max(xs)
        /\ y0 \in Int /\ Max(ys) \in Int /\ \A y \in ys : y0 <= y /\ y <= Max(ys)
    BY <2>1, <2>3, Bounds
  <2> HIDE DEF xs, ys, x0, y0
  <2>9. <<x0, y0>> \in Int \X Int /\ size \in Int \X Int
    BY <2>8
  <2>10. IsGridOf(map_topic_msg, O, <<x0, y0>>, size)
    <3> HIDE DEF size
    <3> QED
      BY <2>1, <2>6, <2>9, GridIs
  <2>11. /\ map_topic_msg.origin = <<x0, y0>>
         /\ map_topic_msg.width \in Int /\ Max(xs) - x0 <= map_topic_msg.width * Resolution
         /\ map_topic_msg.height \in Int /\ Max(ys) - y0 <= map_topic_msg.height * Resolution
    BY <2>10 DEF IsGridOf
  <2>12. /\ 0 <= p[1] - x0 /\ p[1] - x0 < Max(xs) - x0 /\ p[1] - x0 \in Int
         /\ 0 <= p[2] - y0 /\ p[2] - y0 < Max(ys) - y0 /\ p[2] - y0 \in Int
    BY <2>4, <2>5, <2>7, <2>8
  <2> DEFINE i == (p[1] - x0) \div Resolution
             j == (p[2] - y0) \div Resolution
  <2>13. i \in 0 .. map_topic_msg.width - 1
    <3>1. Max(xs) - x0 \in Int
      BY <2>8
    <3> QED
      BY <2>11, <2>12, <3>1, CellInGrid, LiveMapAssumption
  <2>14. j \in 0 .. map_topic_msg.height - 1
    <3>1. Max(ys) - y0 \in Int
      BY <2>8
    <3> QED
      BY <2>11, <2>12, <3>1, CellInGrid, LiveMapAssumption
  <2>15. c(p) = <<i, j>> /\ CellOf(p, <<x0, y0>>) = <<i, j>>
    BY <2>11 DEF CellOf
  <2> HIDE DEF i, j, c
  <2>16. i + j * map_topic_msg.width \in map_topic_msg.data
    BY <2>10, <2>13, <2>14, <2>15 DEF IsGridOf
  <2> QED
    BY <2>11, <2>13, <2>14, <2>15, <2>16
<1> QED
  BY <1>1, FileInvariance, PTL

-----------------------------------------------------------------------------
(***************************************************************************)
(* Types.                                                                  *)
(***************************************************************************)

\* A grid of a size that is not negative has the indices of its cells as data.
LEMMA GridIsTyped ==
  ASSUME NEW n \in Nat, NEW points \in SUBSET Places, NEW origin \in Int \X Int,
         NEW size \in Nat \X Nat
  PROVE  IsGrid(Grid(n, points, origin, size))
<1> DEFINE w == CeilDiv(size[1], Resolution)
           h == CeilDiv(size[2], Resolution)
           cells == {CellOf(p, origin) : p \in points} \intersect ((0 .. w - 1) \X (0 .. h - 1))
           data == {c[1] + c[2] * w : c \in cells}
<1>1. Grid(n, points, origin, size) =
        [stamp |-> n, origin |-> origin, width |-> w, height |-> h, data |-> data]
  BY DEF Grid
<1>2. ASSUME NEW a \in Nat PROVE CeilDiv(a, Resolution) \in Nat
  <2> DEFINE q == CeilDiv(a, Resolution)
  <2>1. Resolution \in Nat \ {0} /\ a \in Int
    BY LiveMapAssumption
  <2>2. q \in Int /\ a <= q * Resolution
    BY <2>1, CeilDivCovers, Zenon
  <2> HIDE DEF q
  <2>3. q <= -1 => q * Resolution <= (-1) * Resolution
    BY <2>1, <2>2, ProductGrows
  <2>4. ~(q <= -1)
    BY <2>1, <2>2, <2>3
  <2>5. q \in Nat
    BY <2>2, <2>4
  <2> QED
    BY <2>5 DEF q
<1>3. w \in Nat /\ h \in Nat
  BY <1>2
<1>4. ASSUME NEW c \in cells PROVE c[1] + c[2] * w \in 0 .. w * h - 1
  <2>1. c[1] \in 0 .. w - 1 /\ c[2] \in 0 .. h - 1
    OBVIOUS
  <2> HIDE DEF w, h, cells
  <2>2. c[2] \in Nat /\ h - 1 \in Int /\ c[2] <= h - 1
    BY <1>3, <2>1
  <2>3. c[2] * w <= (h - 1) * w
    BY <1>3, <2>2, ProductGrows
  <2>4. (h - 1) * w = w * h - w /\ w * h \in Nat
    BY <1>3
  <2>5. c[2] * w \in Nat
    BY <1>3, <2>2
  <2> QED
    BY <1>3, <2>1, <2>3, <2>4, <2>5
<1> HIDE DEF w, h, cells
<1>5. data \subseteq 0 .. w * h - 1
  BY <1>4
<1> HIDE DEF data
<1> QED
  BY <1>1, <1>3, <1>5 DEF IsGrid

LEMMA LiveGridIsTyped ==
  ASSUME NEW cloud, IsCloud(cloud)
  PROVE  IsGrid(SetMapTopicMsgFixedBounds(cloud.n, Obstacles(cloud.points)))
<1>1. cloud.n \in Nat
  BY ChainAssumption DEF IsCloud
<1>2. Obstacles(cloud.points) \in SUBSET Places
  BY DEF IsCloud, Obstacles, RadiusOutlierFilter, PassThroughFilter
<1> QED
  BY <1>1, <1>2, GridIsTyped, LiveMapAssumption DEF SetMapTopicMsgFixedBounds

LEMMA FileGridIsTyped ==
  ASSUME NEW points \in SUBSET Places, IsFiniteSet(points), IsGrid(map_topic_msg)
  PROVE  IsGrid(SetMapTopicMsgDynamicBounds(points))
<1>1. CASE points = {}
  BY <1>1 DEF SetMapTopicMsgDynamicBounds
<1>2. CASE points # {}
  <2> DEFINE xs == {p[1] : p \in points}
             ys == {p[2] : p \in points}
             origin == <<Min(xs), Min(ys)>>
             size == <<Max(xs) - Min(xs), Max(ys) - Min(ys)>>
  <2>1. /\ Min(xs) \in Int /\ Max(xs) \in Int /\ \A x \in xs : Min(xs) <= x /\ x <= Max(xs)
        /\ Min(ys) \in Int /\ Max(ys) \in Int /\ \A y \in ys : Min(ys) <= y /\ y <= Max(ys)
    BY <1>2, Bounds
  <2>2. PICK p \in points : p[1] \in Int /\ p[2] \in Int
    BY <1>2 DEF Places
  <2>3. p[1] \in xs /\ p[2] \in ys
    OBVIOUS
  <2>4. SetMapTopicMsgDynamicBounds(points) = Grid(0, points, origin, size)
    BY <1>2 DEF SetMapTopicMsgDynamicBounds
  <2> HIDE DEF xs, ys
  <2>5. Max(xs) - Min(xs) \in Nat /\ Max(ys) - Min(ys) \in Nat
    BY <2>1, <2>2, <2>3
  <2>6. origin \in Int \X Int /\ size \in Nat \X Nat
    BY <2>1, <2>5
  <2> HIDE DEF origin, size
  <2> QED
    BY <2>4, <2>6, GridIsTyped
<1> QED
  BY <1>1, <1>2

\* The grids that are about.
Grids == {map_topic_msg} \union retained \union nav.inbox \union nav.map

TypeInvariant ==
  /\ TypeOK
  /\ nav = [starts |-> nav.starts, up |-> nav.up, inbox |-> nav.inbox, map |-> nav.map]

\* What GLIM does.
LEMMA GlimKeepsTypes ==
  ASSUME InductiveInvariant, TypeInvariant, GlimTakesScan \/ GlimPublishes \/ GlimRestarts
  PROVE  TypeInvariant'
<1> USE DEF TypeInvariant, TypeOK
<1>1. CASE GlimTakesScan
  <2>0. PICK scan \in Scans : \E points \in FilterCloud(scan) :
          /\ aborted_on' = IF InGlimRange(points) = {} THEN {points} ELSE {}
          /\ glim_map' = glim_map \union {p.place : p \in InGlimRange(points)}
    BY <1>1 DEF GlimTakesScan
  <2>1. PICK points \in FilterCloud(scan) :
          /\ aborted_on' = IF InGlimRange(points) = {} THEN {points} ELSE {}
          /\ glim_map' = glim_map \union {p.place : p \in InGlimRange(points)}
    BY <2>0
  <2>2. Cardinality(aborted_on') <= 1 /\ glim_map' \subseteq Places
    <3>1. Cardinality({points}) = 1
      BY FS_Singleton
    <3>2. Cardinality({}) = 0
      BY FS_EmptySet
    <3>3. Cardinality(aborted_on') <= 1
      <4>1. CASE aborted_on' = {}
        BY <3>2, <4>1
      <4>2. CASE aborted_on' = {points}
        BY <3>1, <4>2
      <4> QED
        BY <2>1, <4>1, <4>2
    <3>4. glim_map' \subseteq Places
      BY <2>1, PlacesAreFinite
    <3> QED
      BY <3>3, <3>4
  <2>3. UNCHANGED <<mapVars, glim_run, published>>
    BY <1>1 DEF GlimTakesScan
  <2> QED
    BY <2>2, <2>3 DEF mapVars
<1>2. CASE GlimRestarts
  <2>1. /\ aborted_on' = {} /\ glim_run' = glim_run + 1 /\ glim_run < MaxRuns /\ glim_map' = {}
        /\ UNCHANGED <<mapVars, published>>
    BY <1>2 DEF GlimRestarts
  <2>2. glim_run' \in 1 .. MaxRuns /\ Cardinality(aborted_on') <= 1
    BY <2>1, ChainAssumption, FS_EmptySet
  <2> QED
    BY <2>1, <2>2 DEF mapVars
<1>3. CASE GlimPublishes
  <2> DEFINE new == [n |-> published', run |-> glim_run, points |-> glim_map]
  <2>1. /\ published' = published + 1 /\ published < MaxClouds
        /\ clouds' = IF pgm = "live" THEN KeepLast(clouds, new) ELSE clouds
        /\ UNCHANGED <<live_topic, pgm, map_topic_msg, retained, nav, source,
                       aborted_on, glim_run, glim_map>>
    BY <1>3 DEF GlimPublishes
  <2>2. published' \in 0 .. MaxClouds
    BY <2>1, ChainAssumption
  <2>3. IsCloud(new)
    BY <2>2, ChainAssumption DEF IsCloud
  <2>4. clouds \in Seq(Clouds) /\ new \in Clouds
    BY <2>2 DEF InductiveInvariant, CloudsInOrder, Clouds, GlimCloudOK
  <2> HIDE DEF new
  <2>5. Len(clouds') <= QueueDepth /\ \A k \in DOMAIN clouds' : IsCloud(clouds'[k])
    <3>1. CASE pgm = "live"
      <4>1. clouds' = KeepLast(clouds, new)
        BY <2>1, <3>1
      <4>2. clouds' \in Seq(Clouds) /\ Len(clouds') > 0 /\ FollowsFrom(clouds', clouds, new)
        BY <2>4, <4>1, KeepLastAppends
      <4>3. PICK skip \in {0, 1} : \A k \in 1 .. Len(clouds') - 1 :
              k + skip \in 1 .. Len(clouds) /\ clouds'[k] = clouds[k + skip]
        BY <4>2 DEF FollowsFrom
      <4>4. clouds'[Len(clouds')] = new /\ Len(clouds') \in Nat /\ DOMAIN clouds' = 1 .. Len(clouds')
        BY <4>2 DEF FollowsFrom
      <4>5. \A k \in DOMAIN clouds' : IsCloud(clouds'[k])
        <5> SUFFICES ASSUME NEW k \in 1 .. Len(clouds') PROVE IsCloud(clouds'[k])
          BY <4>4
        <5>1. CASE k = Len(clouds')
          BY <2>3, <4>4, <5>1
        <5>2. CASE k \in 1 .. Len(clouds') - 1
          <6>1. k + skip \in DOMAIN clouds
            BY <2>4, <4>3, <5>2
          <6> QED
            BY <4>3, <5>2, <6>1
        <5> QED
          BY <4>4, <5>1, <5>2
      <4>6. Len(clouds') <= QueueDepth
        <5>1. QueueDepth \in Nat \ {0}
          BY LiveMapAssumption
        <5>2. CASE Len(clouds) < QueueDepth
          <6>1. clouds' = Append(clouds, new)
            BY <4>1, <5>2 DEF KeepLast
          <6> QED
            BY <2>4, <5>1, <5>2, <6>1
        <5>3. CASE ~(Len(clouds) < QueueDepth)
          <6>1. clouds' = Append(Tail(clouds), new)
            BY <4>1, <5>3 DEF KeepLast
          <6>2. clouds # <<>> /\ Len(clouds) \in Nat /\ Len(clouds) <= QueueDepth
            BY <2>4, <5>1, <5>3
          <6>3. Tail(clouds) \in Seq(Clouds) /\ Len(Tail(clouds)) = Len(clouds) - 1
            BY <2>4, <6>2, HeadTailProperties
          <6> QED
            BY <2>4, <5>1, <6>1, <6>2, <6>3
        <5> QED
          BY <5>2, <5>3
      <4> QED
        BY <4>5, <4>6
    <3>2. CASE pgm # "live"
      BY <2>1, <3>2
    <3> QED
      BY <3>1, <3>2
  <2> QED
    BY <2>1, <2>2, <2>5
<1> QED
  BY <1>1, <1>2, <1>3

\* What the node and Nav2 do.
LEMMA NodeKeepsTypes ==
  ASSUME InductiveInvariant, TypeInvariant, MapNext, UNCHANGED glimVars
  PROVE  TypeInvariant'
<1> USE DEF TypeInvariant, TypeOK
<1>1. UNCHANGED <<aborted_on, glim_run, glim_map, published>>
  BY DEF glimVars
<1>2. ASSUME \/ UNCHANGED <<clouds, source>>
             \/ clouds' = Tail(clouds) /\ clouds # <<>> /\ source' \in {source, Head(clouds)},
             <<live_topic', nav'.up>> \in BOOLEAN \X BOOLEAN,
             pgm' \in {"off", "live", "file", "failed"},
             nav'.starts \in 0 .. MaxNavStarts,
             nav' = [starts |-> nav'.starts, up |-> nav'.up, inbox |-> nav'.inbox,
                     map |-> nav'.map],
             IsGrid(map_topic_msg'),
             Grids' \subseteq Grids \union {map_topic_msg'}
      PROVE  TypeInvariant'
  <2>1. clouds \in Seq(Clouds)
    BY DEF InductiveInvariant, CloudsInOrder
  <2>2. Len(clouds') <= QueueDepth /\ (\A k \in DOMAIN clouds' : IsCloud(clouds'[k])) /\ IsCloud(source')
    <3>1. CASE UNCHANGED <<clouds, source>>
      BY <3>1
    <3>2. CASE clouds' = Tail(clouds) /\ clouds # <<>> /\ source' \in {source, Head(clouds)}
      <4>1. /\ clouds' \in Seq(Clouds) /\ Len(clouds') = Len(clouds) - 1
            /\ \A k \in 1 .. Len(clouds') : clouds'[k] = clouds[k + 1]
        BY <2>1, <3>2, HeadTailProperties
      <4>2. Len(clouds) \in Nat /\ QueueDepth \in Nat /\ DOMAIN clouds = 1 .. Len(clouds)
        BY <2>1, LiveMapAssumption
      <4>3. ASSUME NEW k \in DOMAIN clouds' PROVE IsCloud(clouds'[k])
        <5>1. k + 1 \in DOMAIN clouds /\ clouds'[k] = clouds[k + 1]
          BY <4>1, <4>2
        <5> QED
          BY <5>1
      <4>4. Head(clouds) = clouds[1] /\ 1 \in DOMAIN clouds
        BY <2>1, <3>2
      <4>5. IsCloud(source')
        BY <3>2, <4>4
      <4> QED
        BY <4>1, <4>2, <4>3, <4>5
    <3> QED
      BY <1>2, <3>1, <3>2
  <2>3. \A msg \in Grids' : IsGrid(msg)
    BY <1>2 DEF Grids
  <2> QED
    BY <1>1, <1>2, <2>2, <2>3 DEF Grids
<1>3. CASE Pcd2PgmNode
  <2>1. UNCHANGED <<live_topic, clouds, retained, nav>> /\ pgm' \in {"live", "file", "failed"}
    BY <1>3 DEF Pcd2PgmNode
  <2>2. /\ \/ source' = source
           \/ \E file \in Files : source' = [NoCloud EXCEPT !.points = ApplyTransform(file)]
        /\ \/ map_topic_msg' = map_topic_msg
           \/ \E file \in Files :
                map_topic_msg' = SetMapTopicMsgDynamicBounds(Obstacles(ApplyTransform(file)))
    BY <1>3 DEF Pcd2PgmNode
  <2>3. ASSUME NEW file \in Files
        PROVE  /\ IsCloud([NoCloud EXCEPT !.points = ApplyTransform(file)])
               /\ IsGrid(SetMapTopicMsgDynamicBounds(Obstacles(ApplyTransform(file))))
    <3> DEFINE points == ApplyTransform(file)
    <3>1. points \in SUBSET Places /\ IsFiniteSet(points)
      BY TransformedFile
    <3>2. IsCloud([NoCloud EXCEPT !.points = points])
      BY <3>1, ChainAssumption DEF NoCloud, IsCloud
    <3> HIDE DEF points
    <3>3. Obstacles(points) \in SUBSET Places /\ IsFiniteSet(Obstacles(points))
      BY <3>1, FS_Subset DEF Obstacles, RadiusOutlierFilter, PassThroughFilter
    <3>4. IsGrid(SetMapTopicMsgDynamicBounds(Obstacles(points)))
      BY <3>3, FileGridIsTyped
    <3> QED
      BY <3>2, <3>4 DEF points
  <2>4. IsCloud(source') /\ IsGrid(map_topic_msg')
    BY <2>2, <2>3
  <2>5. \A msg \in Grids' : IsGrid(msg)
    BY <2>1, <2>4 DEF Grids
  <2> QED
    BY <1>1, <2>1, <2>4, <2>5 DEF Grids
<1>4. CASE LiveCloudCallback
  <2>1. /\ clouds # <<>> /\ clouds' = Tail(clouds) /\ UNCHANGED <<live_topic, pgm>>
        /\ source' \in {source, Head(clouds)}
    BY <1>4 DEF LiveCloudCallback
  <2>2. IsCloud(Head(clouds))
    <3>1. clouds \in Seq(Clouds)
      BY DEF InductiveInvariant, CloudsInOrder
    <3>2. Head(clouds) = clouds[1] /\ 1 \in DOMAIN clouds
      BY <2>1, <3>1
    <3> QED
      BY <3>2
  <2>3. IsGrid(map_topic_msg')
    BY <1>4, <2>2, LiveGridIsTyped DEF LiveCloudCallback
  <2>4. /\ Grids' \subseteq Grids \union {map_topic_msg'}
        /\ nav' = nav \/ nav' = [nav EXCEPT !.inbox = {map_topic_msg'}]
    BY <1>4 DEF LiveCloudCallback, PublishCallback, Grids
  <2> QED
    BY <1>2, <2>1, <2>3, <2>4
<1>5. CASE Timer
  <2>1. UNCHANGED <<live_topic, pgm, clouds, map_topic_msg, source>>
    BY <1>5 DEF Timer
  <2>2. /\ Grids' \subseteq Grids \union {map_topic_msg'}
        /\ nav' = nav \/ nav' = [nav EXCEPT !.inbox = {map_topic_msg}]
    BY <1>5 DEF Timer, PublishCallback, Grids
  <2> QED
    BY <1>2, <2>1, <2>2
<1>6. CASE NavStart \/ NavStop \/ NavReceive
  <2>1. UNCHANGED <<live_topic, pgm, clouds, map_topic_msg, retained, source>>
    BY <1>6 DEF NavStart, NavStop, NavReceive, Node
  <2>2. /\ nav' = [starts |-> nav'.starts, up |-> nav'.up, inbox |-> nav'.inbox, map |-> nav'.map]
        /\ nav'.up \in BOOLEAN
        /\ nav'.inbox \subseteq nav.inbox \union retained
        /\ nav'.map \subseteq nav.map \union nav.inbox
        /\ nav'.starts = nav.starts \/ (nav'.starts = nav.starts + 1 /\ nav.starts < MaxNavStarts)
    <3>1. CASE NavStart
      BY <3>1 DEF NavStart
    <3>2. CASE NavStop
      BY <3>2 DEF NavStop
    <3>3. CASE NavReceive
      BY <3>3 DEF NavReceive
    <3> QED
      BY <1>6, <3>1, <3>2, <3>3
  <2>3. nav'.starts \in 0 .. MaxNavStarts
    <3>1. PICK n \in 0 .. MaxNavStarts : n = nav.starts
      OBVIOUS
    <3>2. nav'.starts = n \/ (nav'.starts = n + 1 /\ n < MaxNavStarts)
      BY <2>2, <3>1
    <3>3. MaxNavStarts \in Nat
      BY LiveMapAssumption
    <3> QED
      BY <3>2, <3>3
  <2>4. Grids' \subseteq Grids \union {map_topic_msg'}
    BY <2>1, <2>2 DEF Grids
  <2> QED
    BY <1>2, <2>1, <2>2, <2>3, <2>4
<1> QED
  BY <1>3, <1>4, <1>5, <1>6 DEF MapNext

LEMMA TypesHold == Spec => [](InductiveInvariant /\ TypeInvariant)
<1>1. Init => TypeInvariant
  <2> SUFFICES ASSUME Init PROVE TypeInvariant
    OBVIOUS
  <2>1. IsCloud(NoCloud) /\ IsGrid(NoGrid)
    BY ChainAssumption DEF IsCloud, IsGrid, NoCloud, NoGrid
  <2>2. 0 <= QueueDepth /\ 0 \in 0 .. MaxNavStarts /\ 1 \in 1 .. MaxRuns /\ 0 \in 0 .. MaxClouds
    BY LiveMapAssumption, ChainAssumption
  <2>3. clouds = <<>> /\ Len(clouds) = 0 /\ DOMAIN clouds = {}
    BY DEF Init, MapInit
  <2>4. Cardinality(aborted_on) <= 1
    BY FS_EmptySet DEF Init
  <2> QED
    BY <2>1, <2>2, <2>3, <2>4 DEF Init, MapInit, TypeInvariant, TypeOK
<1>2. InductiveInvariant /\ TypeInvariant /\ [Next]_vars => TypeInvariant'
  <2> SUFFICES ASSUME InductiveInvariant, TypeInvariant, [Next]_vars PROVE TypeInvariant'
    OBVIOUS
  <2>1. CASE UNCHANGED vars
    BY <2>1 DEF vars, mapVars, glimVars, TypeInvariant, TypeOK
  <2>2. CASE GlimTakesScan \/ GlimPublishes \/ GlimRestarts
    BY <2>2, GlimKeepsTypes
  <2>3. CASE MapNext /\ UNCHANGED glimVars
    BY <2>3, NodeKeepsTypes
  <2> QED
    BY <2>1, <2>2, <2>3 DEF Next
<1> QED
  BY <1>1, <1>2, Invariance, PTL DEF Spec

-----------------------------------------------------------------------------
(***************************************************************************)
(* The rover's body.                                                       *)
(***************************************************************************)

\* A bearing between the edges of a sector, however often it turns, is less than
\* half its width from the centre.
LEMMA SectorIsMasked ==
  ASSUME NEW b \in Int, NEW center \in Int, NEW width \in 0 .. 180,
         width > 0, NEW turn \in -2 .. 2, 2 * (b + 360 * turn - center) \in -width .. width
  PROVE  InSector(b, center, width)
<1>1. (b - center) % 360 \in 0 .. 359
  OBVIOUS
<1>2. AngularDistance(b, center) \in Int /\ 2 * AngularDistance(b, center) <= width
  BY <1>1 DEF AngularDistance
<1> QED
  BY <1>2 DEF InSector

\* What the filter passes on is not the body.
LEMMA BodyIsMasked ==
  ASSUME NEW scan \in Scans, NEW p \in Kept(scan.points)
  PROVE  p \in scan.points /\ (p.nan = {} => ~IsBody(p))
<1>1. p \in scan.points /\ ~PointIsMasked(p, FrontCenter, FrontSector, BackSector)
  BY DEF Kept
<1>2. p.bearing \in Int
  BY <1>1, ChainAssumption
<1>3. /\ FrontCenter \in Int /\ FrontCenter + 180 \in Int
      /\ FrontSector \in 0 .. 180 /\ BackSector \in 0 .. 180
  BY validate_parameters
<1>4. ASSUME LiesIn(p, FrontCenter, FrontSector) PROVE PointIsMasked(p, FrontCenter, FrontSector, BackSector)
  <2>1. InSector(p.bearing, FrontCenter, FrontSector)
    BY <1>2, <1>3, <1>4, SectorIsMasked DEF LiesIn
  <2> QED
    BY <1>4, <2>1 DEF LiesIn, PointIsMasked
<1>5. ASSUME LiesIn(p, FrontCenter + 180, BackSector) PROVE PointIsMasked(p, FrontCenter, FrontSector, BackSector)
  <2>1. InSector(p.bearing, FrontCenter + 180, BackSector)
    BY <1>2, <1>3, <1>5, SectorIsMasked DEF LiesIn
  <2> QED
    BY <1>5, <2>1 DEF LiesIn, PointIsMasked
<1> QED
  BY <1>1, <1>4, <1>5 DEF IsBody

\* The state has its types, and nothing of the rover is on the map, for any scans,
\* sectors, filters, grids and restarts of GLIM and Nav2.
THEOREM MapStaysSound == Spec => []MapIsSound
<1>1. Init => BodyNeverInMap
  BY DEF Init, BodyNeverInMap
<1>2. BodyNeverInMap /\ [Next]_vars => BodyNeverInMap'
  <2> SUFFICES ASSUME BodyNeverInMap, [Next]_vars, NEW place \in glim_map'
               PROVE  \E scan \in Scans : \E p \in scan.points : p.place = place /\ ~IsBody(p)
    BY DEF BodyNeverInMap
  <2>1. CASE place \in glim_map
    BY <2>1 DEF BodyNeverInMap
  <2>2. CASE place \notin glim_map
    <3>1. GlimTakesScan
      BY <2>2 DEF Next, GlimPublishes, GlimRestarts, vars, glimVars
    <3>2. PICK scan \in Scans : \E points \in FilterCloud(scan) :
            glim_map' = glim_map \union {p.place : p \in InGlimRange(points)}
      BY <3>1 DEF GlimTakesScan
    <3>3. PICK points \in FilterCloud(scan) :
            glim_map' = glim_map \union {p.place : p \in InGlimRange(points)}
      BY <3>2
    <3>4. PICK p \in points : p.place = place /\ p.nan = {}
      BY <2>2, <3>3 DEF InGlimRange
    <3>5. p \in Kept(scan.points)
      BY <3>3, <3>4 DEF FilterCloud
    <3> QED
      BY <3>4, <3>5, BodyIsMasked
  <2> QED
    BY <2>1, <2>2
<1> QED
  BY <1>1, <1>2, TypesHold, PTL DEF Spec, MapIsSound, TypeInvariant

=============================================================================
