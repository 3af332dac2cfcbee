------------------------ MODULE WaypointManagerProofs ------------------------
(***************************************************************************)
(* For every set of names, every group of poses and every number of        *)
(* frames: the tags of WaypointManager are neither lost nor duplicated,    *)
(* are bound to the submap built around them, and are answered at their    *)
(* corrected pose.  Then, for any paths and number of sessions and however *)
(* often GLIM dies (WaypointStore): what a save writes is every tag, and a *)
(* session that holds no tag leaves the autosave of the one before alone.  *)
(***************************************************************************)
EXTENDS WaypointStore, TLAPS

(***************************************************************************)
(* Finding the submap of a stamp.                                          *)
(***************************************************************************)

\* The reverse scan finds at most one submap.
LEMMA SubmapForStampUnique ==
  ASSUME NEW refs \in Seq(SubmapReference), NEW stamp \in Stamp,
         NEW s \in SubmapForStamp(refs, stamp), NEW t \in SubmapForStamp(refs, stamp)
  PROVE  s = t
  BY DEF SubmapForStamp

\* What the scan finds spans the stamp and is one of the submaps.
LEMMA SubmapForStampCovers ==
  ASSUME NEW refs \in Seq(SubmapReference), NEW stamp \in Stamp,
         NEW s \in SubmapForStamp(refs, stamp)
  PROVE  s \in SubmapReference /\ Covers(s, stamp) /\ \E i \in DOMAIN refs : refs[i] = s
  BY DEF SubmapForStamp

\* If the submaps are in order, the scan fails only when none spans the stamp.
LEMMA SubmapForStampFinds ==
  ASSUME NEW refs \in Seq(SubmapReference), NEW stamp \in Stamp,
         SubmapsOrdered(refs),
         SubmapForStamp(refs, stamp) = {}
  PROVE  \A i \in DOMAIN refs : ~Covers(refs[i], stamp)
  <1> SUFFICES ASSUME NEW i \in DOMAIN refs, Covers(refs[i], stamp)
               PROVE  FALSE
    OBVIOUS
  <1>1. ASSUME NEW k \in DOMAIN refs, k > i
        PROVE  ~Covers(refs[k], stamp)
    <2>1. refs[i].last_stamp < refs[k].first_stamp
      BY <1>1 DEF SubmapsOrdered
    <2>2. /\ stamp <= refs[i].last_stamp
          /\ refs[i] \in SubmapReference /\ refs[k] \in SubmapReference
      BY <1>1 DEF Covers
    <2>. QED
      BY <2>1, <2>2 DEF Covers, SubmapReference, Stamp
  <1>2. refs[i] \in SubmapForStamp(refs, stamp)
    BY <1>1 DEF SubmapForStamp
  <1>. QED
    BY <1>2

\* A tag is bound at the place it was made.
LEMMA BoundEntryCorrect ==
  ASSUME NEW name \in Names, NEW pose \in Pose, NEW s \in SubmapReference
  PROVE  /\ BoundEntry(name, pose, s) \in WaypointEntry
         /\ BoundEntry(name, pose, s).name = name
         /\ BoundEntry(name, pose, s).submap_id = s.id
         /\ Mul(s.T_odom_origin_sensor, BoundEntry(name, pose, s).T_submap_sensor) = pose
  <1> DEFINE O == s.T_odom_origin_sensor
  <1>1. O \in Pose /\ Inv(O) \in Pose /\ Mul(Inv(O), pose) \in Pose
    BY PoseGroup DEF SubmapReference
  <1>2. Mul(O, Mul(Inv(O), pose)) = pose
    <2>1. Mul(O, Mul(Inv(O), pose)) = Mul(Mul(O, Inv(O)), pose)
      BY <1>1, PoseGroup
    <2>2. Mul(O, Inv(O)) = Id /\ Mul(Id, pose) = pose
      BY <1>1, PoseGroup
    <2>. QED
      BY <2>1, <2>2
  <1>. QED
    BY <1>1, <1>2 DEF BoundEntry, WaypointEntry, SubmapReference

-----------------------------------------------------------------------------
(***************************************************************************)
(* Type correctness.                                                       *)
(***************************************************************************)

\* What a finished submap does to the pending tags stays within the types.
LEMMA NewlyBoundType ==
  ASSUME NEW refs \in Seq(SubmapReference), pending_waypoints \subseteq PendingWaypoint
  PROVE  NewlyBound(refs) \subseteq WaypointEntry
  <1> SUFFICES ASSUME NEW p \in Bindable(refs), NEW s \in SubmapForStamp(refs, p.stamp)
               PROVE  BoundEntry(p.name, p.T_odom_sensor, s) \in WaypointEntry
    BY DEF NewlyBound
  <1>1. p.name \in Names /\ p.stamp \in Stamp /\ p.T_odom_sensor \in Pose
    BY DEF Bindable, PendingWaypoint
  <1>. QED
    BY <1>1, SubmapForStampCovers, BoundEntryCorrect

LEMMA TypeInit == Init => TypeOK
  <1> SUFFICES ASSUME Init
               PROVE  TypeOK
    OBVIOUS
  <1>1. /\ DOMAIN submap_world_pose = {}
        /\ submap_world_pose \in [{} -> Pose]
    BY DEF Init
  <1>2. tagged \in [Names -> [stamp : Stamp, pose : Pose] \union {NoTag}]
    BY DEF Init
  <1>3. submap_references \in Seq(SubmapReference)
    BY DEF Init
  <1>4. has_frame \in BOOLEAN /\ latest_frame_pose \in Pose
        /\ latest_frame_stamp \in Stamp /\ consumed \in Stamp
    BY PoseGroup DEF Init, Stamp
  <1>5. waypoints \subseteq WaypointEntry /\ pending_waypoints \subseteq PendingWaypoint
    BY DEF Init
  <1>. QED
    BY <1>1, <1>2, <1>3, <1>4, <1>5 DEF TypeOK

\* Every handler keeps the types.
LEMMA TypeStep == TypeOK /\ [Next]_vars => TypeOK'
  <1> SUFFICES ASSUME TypeOK, [Next]_vars
               PROVE  TypeOK'
    OBVIOUS
  <1> USE DEF TypeOK, frameVars, tagVars
  <1>1. ASSUME NEW pose \in OdomPoses, OnUpdateNewFrame(pose)
        PROVE  TypeOK'
    BY <1>1, ConstantsAssumption DEF OnUpdateNewFrame, Stamp
  <1>2. ASSUME NEW first \in 1 .. MaxStamp, NEW last \in 1 .. MaxStamp,
               NEW origin \in OdomPoses, OnNewSubmap(first, last, origin)
        PROVE  TypeOK'
    <2> DEFINE submap == [id |-> Len(submap_references), first_stamp |-> first,
                          last_stamp |-> last, T_odom_origin_sensor |-> origin]
               refs == Append(submap_references, submap)
    <2>1. submap \in SubmapReference
      BY ConstantsAssumption DEF SubmapReference, SubmapId, Stamp
    <2>2. refs \in Seq(SubmapReference)
      BY <2>1
    <2>3. NewlyBound(refs) \subseteq WaypointEntry
      BY <2>2, NewlyBoundType
    <2> HIDE DEF refs
    <2>. QED
      BY <1>2, <2>2, <2>3, ConstantsAssumption DEF OnNewSubmap, Stamp, refs
  <1>3. ASSUME NEW id \in 0 .. MaxStamp - 1, NEW pose \in MapPoses,
               OnInsertSubmap(id, pose)
        PROVE  TypeOK'
    <2>1. submap_world_pose' \in [0 .. id -> Pose]
      BY <1>3, ConstantsAssumption DEF OnInsertSubmap
    <2>. QED
      BY <1>3, <2>1 DEF OnInsertSubmap, SubmapId
  <1>4. ASSUME NEW ids \in SUBSET DOMAIN submap_world_pose,
               NEW poses \in [ids -> MapPoses], OnUpdateSubmaps(poses)
        PROVE  TypeOK'
    <2>1. submap_world_pose' \in [DOMAIN submap_world_pose -> Pose]
      BY <1>4, ConstantsAssumption DEF OnUpdateSubmaps
    <2>. QED
      BY <1>4, <2>1 DEF OnUpdateSubmaps
  <1>5. ASSUME NEW name \in Names \union {EmptyName}, AddWaypoint(name)
        PROVE  TypeOK'
    <2>1. name \in Names
      BY <1>5 DEF AddWaypoint, AddWaypointAccepts
    <2>2. \A s \in SubmapForStamp(submap_references, latest_frame_stamp) :
            BoundEntry(name, latest_frame_pose, s) \in WaypointEntry
      BY <2>1, SubmapForStampCovers, BoundEntryCorrect
    <2>3. waypoints' \subseteq WaypointEntry
      BY <1>5, <2>2 DEF AddWaypoint, EraseNamed
    <2>4. pending_waypoints' \subseteq PendingWaypoint
      BY <1>5, <2>1 DEF AddWaypoint, EraseNamed, PendingWaypoint
    <2>. QED
      BY <1>5, <2>1, <2>3, <2>4 DEF AddWaypoint
  <1>6. CASE UNCHANGED vars
    BY <1>6 DEF vars
  <1>. QED
    BY <1>1, <1>2, <1>3, <1>4, <1>5, <1>6 DEF Next

\* Every reachable state has its variables within their types.
THEOREM TypeCorrect == Spec => []TypeOK
  BY TypeInit, TypeStep, PTL DEF Spec

-----------------------------------------------------------------------------
(***************************************************************************)
(* The inductive invariant.  That no tag is lost or bound twice needs to   *)
(* know which tags wait (PendingIsUncovered), and that the reverse scan    *)
(* misses none needs the submaps in order.                                 *)
(***************************************************************************)
IInv ==
  /\ SubmapsInOrder
  /\ PendingHoldsTag
  /\ NameUnique
  /\ NoTagLost
  /\ PendingIsUncovered
  /\ BoundWhereTagged

\* Handlers that touch neither the tags nor the list of submaps keep the
\* invariant if frames only advance.
LEMMA TagsUntouched ==
  ASSUME TypeOK, IInv, TypeOK',
         UNCHANGED <<tagVars, submap_references, consumed>>,
         latest_frame_stamp <= latest_frame_stamp'
  PROVE  IInv'
  <1> USE DEF IInv, tagVars
  <1>1. SubmapsInOrder'
    BY DEF SubmapsInOrder, TypeOK, Stamp
  <1>2. PendingHoldsTag' /\ NameUnique' /\ NoTagLost'
    BY DEF PendingHoldsTag, NameUnique, NoTagLost, NamesOf
  <1>3. PendingIsUncovered' /\ BoundWhereTagged'
    BY DEF PendingIsUncovered, BoundWhereTagged
  <1>. QED
    BY <1>1, <1>2, <1>3

\* A finished submap: exactly the pending tags it spans move to the bound list.
LEMMA OnNewSubmapKeepsIInv ==
  ASSUME TypeOK, IInv, TypeOK',
         NEW first \in 1 .. MaxStamp, NEW last \in 1 .. MaxStamp,
         NEW origin \in OdomPoses, OnNewSubmap(first, last, origin)
  PROVE  IInv'
  <1> DEFINE old == submap_references
             submap == [id |-> Len(old), first_stamp |-> first,
                        last_stamp |-> last, T_odom_origin_sensor |-> origin]
             refs == Append(old, submap)
  <1>1. /\ submap \in SubmapReference
        /\ old \in Seq(SubmapReference) /\ refs \in Seq(SubmapReference)
        /\ submap_references' = refs
        /\ first \in Nat /\ last \in Nat /\ consumed \in Nat /\ latest_frame_stamp \in Nat
    BY ConstantsAssumption DEF OnNewSubmap, SubmapReference, SubmapId, Stamp, TypeOK
  <1>2. /\ DOMAIN old = 1 .. Len(old) /\ Len(old) \in Nat
        /\ DOMAIN refs = 1 .. Len(old) + 1
        /\ \A i \in DOMAIN old : refs[i] = old[i] /\ old[i] \in SubmapReference
        /\ refs[Len(old) + 1] = submap
    BY <1>1
  <1>3. /\ consumed < first /\ first <= last /\ last <= latest_frame_stamp
        /\ consumed' = last
        /\ waypoints' = waypoints \union NewlyBound(refs)
        /\ pending_waypoints' = pending_waypoints \ Bindable(refs)
        /\ UNCHANGED <<frameVars, tagged>>
    BY DEF OnNewSubmap
  <1> HIDE DEF refs, submap
  <1>4. SubmapsInOrder'
    <2>1. SubmapsOrdered(refs)
      <3>1. ASSUME NEW i \in DOMAIN refs
            PROVE  refs[i].id = i - 1
        BY <1>2 DEF IInv, SubmapsInOrder, SubmapsOrdered, submap
      <3>2. ASSUME NEW i \in DOMAIN refs, NEW j \in DOMAIN refs, i < j
            PROVE  refs[i].last_stamp < refs[j].first_stamp
        <4>1. i \in DOMAIN old
          BY <1>2, <3>2
        <4>2. old[i].last_stamp <= consumed /\ old[i].last_stamp \in Nat
          BY <4>1, <1>2 DEF IInv, SubmapsInOrder, SubmapReference, Stamp
        <4>3. CASE j \in DOMAIN old
          BY <4>1, <4>3, <3>2, <1>2 DEF IInv, SubmapsInOrder, SubmapsOrdered
        <4>4. CASE j = Len(old) + 1
          BY <4>1, <4>2, <4>4, <1>1, <1>2, <1>3 DEF submap
        <4>. QED
          BY <4>3, <4>4, <1>2
      <3>. QED
        BY <3>1, <3>2 DEF SubmapsOrdered
    <2>2. \A i \in DOMAIN refs : refs[i].last_stamp <= last
      <3> SUFFICES ASSUME NEW i \in DOMAIN refs
                   PROVE  refs[i].last_stamp <= last
        OBVIOUS
      <3>1. CASE i \in DOMAIN old
        <4>1. old[i].last_stamp <= consumed /\ old[i].last_stamp \in Nat
          BY <3>1, <1>2 DEF IInv, SubmapsInOrder, SubmapReference, Stamp
        <4>. QED
          BY <4>1, <3>1, <1>1, <1>2, <1>3
      <3>2. CASE i = Len(old) + 1
        BY <3>2, <1>1, <1>2 DEF submap
      <3>. QED
        BY <3>1, <3>2, <1>2
    <2>. QED
      BY <2>1, <2>2, <1>1, <1>3 DEF SubmapsInOrder, frameVars
  <1>5. \A p \in pending_waypoints :
          /\ p \in PendingWaypoint /\ p.name \in Names /\ p.stamp \in Stamp
          /\ p.T_odom_sensor \in Pose
    BY DEF TypeOK, PendingWaypoint
  \* Only the new submap can span a pending tag.
  <1>6. ASSUME NEW p \in pending_waypoints
        PROVE  /\ SubmapForStamp(refs, p.stamp) \subseteq {submap}
               /\ p \in Bindable(refs) <=> Covers(submap, p.stamp)
    <2>1. \A i \in DOMAIN refs : i # Len(old) + 1 => ~Covers(refs[i], p.stamp)
      BY <1>2 DEF IInv, PendingIsUncovered, Spans, Covers
    <2>2. SubmapForStamp(refs, p.stamp) \subseteq {submap}
      BY <2>1, <1>2 DEF SubmapForStamp
    <2>3. Covers(submap, p.stamp) => submap \in SubmapForStamp(refs, p.stamp)
      BY <1>2 DEF SubmapForStamp
    <2>4. submap \in SubmapForStamp(refs, p.stamp) => Covers(submap, p.stamp)
      BY <1>2 DEF SubmapForStamp
    <2>. QED
      BY <2>2, <2>3, <2>4 DEF Bindable
  <1>7. ASSUME NEW w \in NewlyBound(refs)
        PROVE  \E p \in Bindable(refs) : w = BoundEntry(p.name, p.T_odom_sensor, submap)
    BY <1>6 DEF NewlyBound, Bindable
  <1>8. ASSUME NEW p \in Bindable(refs)
        PROVE  /\ p \in pending_waypoints
               /\ BoundEntry(p.name, p.T_odom_sensor, submap) \in NewlyBound(refs)
    BY <1>6 DEF NewlyBound, Bindable
  <1>9. PendingHoldsTag'
    BY <1>3 DEF IInv, PendingHoldsTag
  <1>10. NameUnique'
    <2>1. ASSUME NEW v \in waypoints', NEW w \in waypoints', v.name = w.name
          PROVE  v = w
      <3>1. CASE v \in waypoints /\ w \in waypoints
        BY <3>1, <2>1 DEF IInv, NameUnique
      <3>2. CASE v \in NewlyBound(refs) /\ w \in NewlyBound(refs)
        BY <3>2, <2>1, <1>7, <1>8 DEF IInv, NameUnique, BoundEntry
      <3>3. ASSUME NEW x \in waypoints, NEW y \in NewlyBound(refs)
            PROVE  x.name # y.name
        BY <1>7, <1>8 DEF IInv, NameUnique, NamesOf, BoundEntry
      <3>. QED
        BY <3>1, <3>2, <3>3, <2>1, <1>3
    <2>2. ASSUME NEW p \in pending_waypoints', NEW q \in pending_waypoints', p.name = q.name
          PROVE  p = q
      BY <2>2, <1>3 DEF IInv, NameUnique
    <2>3. ASSUME NEW w \in waypoints', NEW p \in pending_waypoints'
          PROVE  w.name # p.name
      <3>1. CASE w \in waypoints
        BY <3>1, <1>3 DEF IInv, NameUnique, NamesOf
      <3>2. CASE w \in NewlyBound(refs)
        BY <3>2, <1>3, <1>7, <1>8 DEF IInv, NameUnique, BoundEntry
      <3>. QED
        BY <3>1, <3>2, <1>3
    <2>. QED
      BY <2>1, <2>2, <2>3 DEF NameUnique, NamesOf
  <1>11. NoTagLost'
    <2>1. NamesOf(waypoints)' \union NamesOf(pending_waypoints)'
            = NamesOf(waypoints) \union NamesOf(pending_waypoints)
      <3>1. ASSUME NEW w \in NewlyBound(refs)
            PROVE  \E p \in pending_waypoints : w.name = p.name
        BY <1>7, <1>8 DEF BoundEntry
      <3>2. ASSUME NEW p \in Bindable(refs)
            PROVE  \E w \in NewlyBound(refs) : w.name = p.name
        BY <1>8 DEF BoundEntry
      <3>. QED
        BY <3>1, <3>2, <1>3 DEF NamesOf
    <2>. QED
      BY <2>1, <1>3 DEF IInv, NoTagLost
  <1>12. PendingIsUncovered'
    <2> SUFFICES ASSUME NEW p \in pending_waypoints', NEW i \in DOMAIN refs
                 PROVE  ~Covers(refs[i], p.stamp)
      BY <1>1 DEF PendingIsUncovered, Spans, Covers
    <2>1. p \in pending_waypoints /\ ~Covers(submap, p.stamp)
      BY <1>3, <1>6
    <2>. QED
      BY <2>1, <1>2 DEF IInv, PendingIsUncovered, Spans, Covers
  <1>13. BoundWhereTagged'
    <2> SUFFICES ASSUME NEW w \in waypoints'
                 PROVE  \E i \in DOMAIN refs :
                          /\ refs[i].id = w.submap_id
                          /\ Covers(refs[i], tagged[w.name].stamp)
                          /\ Mul(refs[i].T_odom_origin_sensor, w.T_submap_sensor)
                               = tagged[w.name].pose
      BY <1>1, <1>3 DEF BoundWhereTagged, Spans, Covers
    <2>1. CASE w \in waypoints
      BY <2>1, <1>2 DEF IInv, BoundWhereTagged, Spans, Covers
    <2>2. CASE w \in NewlyBound(refs)
      <3>1. PICK p \in Bindable(refs) : w = BoundEntry(p.name, p.T_odom_sensor, submap)
        BY <2>2, <1>7
      <3>2. /\ p \in pending_waypoints /\ Covers(submap, p.stamp)
            /\ tagged[p.name] = [stamp |-> p.stamp, pose |-> p.T_odom_sensor]
        BY <1>6, <1>8 DEF IInv, PendingHoldsTag
      <3>3. /\ w.name = p.name /\ w.submap_id = submap.id
            /\ Mul(submap.T_odom_origin_sensor, w.T_submap_sensor) = p.T_odom_sensor
        BY <3>1, <3>2, <1>1, <1>5, BoundEntryCorrect
      <3>. QED
        BY <3>2, <3>3, <1>2
    <2>. QED
      BY <2>1, <2>2, <1>3
  <1>. QED
    BY <1>4, <1>9, <1>10, <1>11, <1>12, <1>13 DEF IInv

\* Tagging: the name leaves both lists and enters exactly one of them, with
\* the latest frame.
LEMMA AddWaypointKeepsIInv ==
  ASSUME TypeOK, IInv, TypeOK',
         NEW name \in Names \union {EmptyName}, AddWaypoint(name)
  PROVE  IInv'
  <1> DEFINE refs == submap_references
             found == SubmapForStamp(refs, latest_frame_stamp)
             fresh == { BoundEntry(name, latest_frame_pose, s) : s \in found }
             entry == [name |-> name, stamp |-> latest_frame_stamp,
                       T_odom_sensor |-> latest_frame_pose]
             waiting == IF found = {} THEN {entry} ELSE {}
  <1>1. /\ name \in Names
        /\ refs \in Seq(SubmapReference)
        /\ latest_frame_stamp \in Stamp /\ latest_frame_pose \in Pose
    BY DEF AddWaypoint, AddWaypointAccepts, TypeOK
  <1>2. /\ waypoints' = { w \in waypoints : w.name # name } \union fresh
        /\ pending_waypoints' = { p \in pending_waypoints : p.name # name } \union waiting
        /\ UNCHANGED <<frameVars, submap_references, submap_world_pose, consumed>>
    BY DEF AddWaypoint, EraseNamed
  <1>3. /\ tagged'[name] = [stamp |-> latest_frame_stamp, pose |-> latest_frame_pose]
        /\ \A n \in Names : n # name => tagged'[n] = tagged[n]
    BY <1>1 DEF AddWaypoint, TypeOK
  <1>4. /\ \A v, w \in fresh : v = w
        /\ \A w \in fresh : w.name = name
        /\ found # {} => \E w \in fresh : w.name = name
    <2>1. \A v, w \in fresh : v = w
      BY <1>1, SubmapForStampUnique
    <2>2. \A s \in found : BoundEntry(name, latest_frame_pose, s).name = name
      BY DEF BoundEntry
    <2>. QED
      BY <2>1, <2>2
  <1>5. \A p \in waiting : p = entry /\ p.name = name /\ found = {}
    OBVIOUS
  <1>6. /\ \A w \in waypoints : w.name \in Names
        /\ \A p \in pending_waypoints : p.name \in Names
    BY DEF TypeOK, WaypointEntry, PendingWaypoint
  <1> HIDE DEF waiting, fresh, found
  <1>7. SubmapsInOrder'
    BY <1>2 DEF IInv, SubmapsInOrder, frameVars
  <1>8. PendingHoldsTag'
    <2> SUFFICES ASSUME NEW p \in pending_waypoints'
                 PROVE  tagged'[p.name] = [stamp |-> p.stamp, pose |-> p.T_odom_sensor]
      BY DEF PendingHoldsTag
    <2>1. CASE p \in waiting
      BY <2>1, <1>3, <1>5
    <2>2. CASE p \in pending_waypoints /\ p.name # name
      BY <2>2, <1>3, <1>6 DEF IInv, PendingHoldsTag
    <2>. QED
      BY <2>1, <2>2, <1>2
  <1>9. NameUnique'
    <2>1. \A v, w \in waypoints' : v.name = w.name => v = w
      BY <1>2, <1>4 DEF IInv, NameUnique
    <2>2. \A p, q \in pending_waypoints' : p.name = q.name => p = q
      BY <1>2, <1>5 DEF IInv, NameUnique
    <2>3. ASSUME NEW w \in waypoints', NEW p \in pending_waypoints', w.name = p.name
          PROVE  FALSE
      <3>1. CASE w \in fresh
        <4>1. p \in waiting
          BY <3>1, <2>3, <1>2, <1>4
        <4>. QED
          BY <4>1, <3>1, <1>5 DEF fresh
      <3>2. CASE w \in waypoints /\ w.name # name
        <4>1. p \in pending_waypoints
          BY <3>2, <2>3, <1>2, <1>5
        <4>. QED
          BY <4>1, <3>2, <2>3 DEF IInv, NameUnique, NamesOf
      <3>. QED
        BY <3>1, <3>2, <1>2
    <2>. QED
      BY <2>1, <2>2, <2>3 DEF NameUnique, NamesOf
  <1>10. NoTagLost'
    <2>1. NamesOf(waypoints)' \union NamesOf(pending_waypoints)'
            = NamesOf(waypoints) \union NamesOf(pending_waypoints) \union {name}
      <3>1. name \in NamesOf(waypoints)' \union NamesOf(pending_waypoints)'
        <4>1. CASE found = {}
          <5>1. entry \in pending_waypoints' /\ entry.name = name
            BY <4>1, <1>2 DEF waiting
          <5>. QED
            BY <5>1 DEF NamesOf
        <4>2. CASE found # {}
          BY <4>2, <1>2, <1>4 DEF NamesOf
        <4>. QED
          BY <4>1, <4>2
      <3>. QED
        BY <3>1, <1>2, <1>4, <1>5 DEF NamesOf
    <2>2. tagged'[name] # NoTag
      BY <1>1, <1>3, ConstantsAssumption DEF Stamp
    <2>3. { n \in Names : tagged'[n] # NoTag } = { n \in Names : tagged[n] # NoTag } \union {name}
      BY <2>2, <1>1, <1>3
    <2>. QED
      BY <2>1, <2>3 DEF IInv, NoTagLost
  <1>11. PendingIsUncovered'
    <2> SUFFICES ASSUME NEW p \in pending_waypoints', NEW i \in DOMAIN refs
                 PROVE  ~Covers(refs[i], p.stamp)
      BY <1>2 DEF PendingIsUncovered, Spans, Covers
    <2>1. CASE p \in waiting
      <3>1. SubmapForStamp(refs, latest_frame_stamp) = {} /\ p.stamp = latest_frame_stamp
        BY <2>1, <1>5 DEF found
      <3>. QED
        BY <3>1, <1>1, SubmapForStampFinds DEF IInv, SubmapsInOrder
    <2>2. CASE p \in pending_waypoints
      BY <2>2 DEF IInv, PendingIsUncovered, Spans, Covers
    <2>. QED
      BY <2>1, <2>2, <1>2
  <1>12. BoundWhereTagged'
    <2> SUFFICES ASSUME NEW w \in waypoints'
                 PROVE  \E i \in DOMAIN refs :
                          /\ refs[i].id = w.submap_id
                          /\ Covers(refs[i], tagged'[w.name].stamp)
                          /\ Mul(refs[i].T_odom_origin_sensor, w.T_submap_sensor)
                               = tagged'[w.name].pose
      BY <1>2 DEF BoundWhereTagged, Spans, Covers
    <2>1. CASE w \in fresh
      <3>1. PICK s \in found : w = BoundEntry(name, latest_frame_pose, s)
        BY <2>1 DEF fresh
      <3>2. /\ s \in SubmapReference /\ Covers(s, latest_frame_stamp)
            /\ \E i \in DOMAIN refs : refs[i] = s
        BY <1>1, SubmapForStampCovers DEF found
      <3>3. /\ w.name = name /\ w.submap_id = s.id
            /\ Mul(s.T_odom_origin_sensor, w.T_submap_sensor) = latest_frame_pose
        BY <3>1, <3>2, <1>1, BoundEntryCorrect
      <3>. QED
        BY <3>2, <3>3, <1>3
    <2>2. CASE w \in waypoints /\ w.name # name
      BY <2>2, <1>3, <1>6 DEF IInv, BoundWhereTagged, Spans, Covers
    <2>. QED
      BY <2>1, <2>2, <1>2
  <1>. QED
    BY <1>7, <1>8, <1>9, <1>10, <1>11, <1>12 DEF IInv

LEMMA IInvInit == Init => IInv
  BY DEF Init, IInv, SubmapsInOrder, SubmapsOrdered, PendingHoldsTag, NameUnique, NoTagLost,
         PendingIsUncovered, BoundWhereTagged, NamesOf

\* Every handler keeps the invariant.
LEMMA IInvStep == TypeOK /\ IInv /\ TypeOK' /\ [Next]_vars => IInv'
  <1> SUFFICES ASSUME TypeOK, IInv, TypeOK', [Next]_vars
               PROVE  IInv'
    OBVIOUS
  <1>0. latest_frame_stamp \in Nat
    BY DEF TypeOK, Stamp
  <1>1. ASSUME NEW pose \in OdomPoses, OnUpdateNewFrame(pose)
        PROVE  IInv'
    BY <1>0, <1>1, TagsUntouched DEF OnUpdateNewFrame
  <1>2. ASSUME NEW first \in 1 .. MaxStamp, NEW last \in 1 .. MaxStamp,
               NEW origin \in OdomPoses, OnNewSubmap(first, last, origin)
        PROVE  IInv'
    BY <1>2, OnNewSubmapKeepsIInv
  <1>3. ASSUME NEW id \in 0 .. MaxStamp - 1, NEW pose \in MapPoses,
               OnInsertSubmap(id, pose)
        PROVE  IInv'
    BY <1>0, <1>3, TagsUntouched DEF OnInsertSubmap, frameVars
  <1>4. ASSUME NEW ids \in SUBSET DOMAIN submap_world_pose,
               NEW poses \in [ids -> MapPoses], OnUpdateSubmaps(poses)
        PROVE  IInv'
    BY <1>0, <1>4, TagsUntouched DEF OnUpdateSubmaps, frameVars
  <1>5. ASSUME NEW name \in Names \union {EmptyName}, AddWaypoint(name)
        PROVE  IInv'
    BY <1>5, AddWaypointKeepsIInv
  <1>6. CASE UNCHANGED vars
    BY <1>0, <1>6, TagsUntouched DEF vars, frameVars
  <1>. QED
    BY <1>1, <1>2, <1>3, <1>4, <1>5, <1>6 DEF Next

\* The inductive invariant holds of every reachable state.
THEOREM InductiveInvariant == Spec => []IInv
  BY IInvInit, IInvStep, TypeCorrect, PTL DEF Spec

-----------------------------------------------------------------------------
\* The names held are exactly the names successfully tagged, each in one of the
\* two lists and once.
THEOREM TagsStayKept == Spec => []TagsAreKept
  <1>1. TypeOK /\ IInv => TagsAreKept
    BY DEF IInv, TagsAreKept
  <1>. QED
    BY <1>1, TypeCorrect, InductiveInvariant, PTL

\* A bound tag is in the submap built around it, where it was made, and no
\* finished submap spans a tag that is still pending.
THEOREM TagsStayWhereMade == Spec => []TagsAreWhereMade
  <1>1. IInv => TagsAreWhereMade
    BY DEF IInv, TagsAreWhereMade
  <1>. QED
    BY <1>1, InductiveInvariant, PTL

\* get_waypoint answers with the tagged pose moved by the current correction
\* of its submap, for any sequence of corrections.
THEOREM AnswersAreCorrected == Spec => []AnswerIsCorrectedTag
  <1>1. TypeOK /\ IInv => AnswerIsCorrectedTag
    <2> SUFFICES ASSUME TypeOK, IInv, NEW n \in Names, NEW answer \in Resolved(n)
                 PROVE  \E i \in DOMAIN submap_references :
                          LET s == submap_references[i]
                              correction == Mul(submap_world_pose[s.id],
                                                Inv(s.T_odom_origin_sensor))
                          IN  /\ Spans(s, tagged[n].stamp)
                              /\ answer = Mul(correction, tagged[n].pose)
      BY DEF AnswerIsCorrectedTag
    <2>1. PICK w \in waypoints :
            /\ w.name = n /\ w.submap_id \in DOMAIN submap_world_pose
            /\ answer = Mul(submap_world_pose[w.submap_id], w.T_submap_sensor)
      BY DEF Resolved
    <2>2. PICK i \in DOMAIN submap_references :
            /\ submap_references[i].id = w.submap_id
            /\ Spans(submap_references[i], tagged[n].stamp)
            /\ Mul(submap_references[i].T_odom_origin_sensor, w.T_submap_sensor)
                 = tagged[n].pose
      BY <2>1 DEF IInv, BoundWhereTagged, Spans, Covers
    <2> DEFINE O == submap_references[i].T_odom_origin_sensor
               W == submap_world_pose[w.submap_id]
               L == w.T_submap_sensor
    <2>3. O \in Pose /\ W \in Pose /\ L \in Pose
      <3>1. submap_references[i] \in SubmapReference /\ w \in WaypointEntry
        BY DEF TypeOK
      <3>. QED
        BY <3>1, <2>1 DEF TypeOK, SubmapReference, WaypointEntry
    <2> HIDE DEF O, W, L
    <2>4. Mul(Mul(W, Inv(O)), Mul(O, L)) = Mul(W, L)
      <3>1. Inv(O) \in Pose /\ Mul(O, L) \in Pose
        BY <2>3, PoseGroup
      <3>2. Mul(Mul(W, Inv(O)), Mul(O, L)) = Mul(W, Mul(Inv(O), Mul(O, L)))
        BY <3>1, <2>3, PoseGroup
      <3>3. Mul(Inv(O), Mul(O, L)) = Mul(Mul(Inv(O), O), L)
        BY <3>1, <2>3, PoseGroup
      <3>4. Mul(Mul(Inv(O), O), L) = L
        BY <2>3, PoseGroup
      <3>. QED
        BY <3>2, <3>3, <3>4
    <2>. QED
      BY <2>1, <2>2, <2>4 DEF O, W, L
  <1>. QED
    BY <1>1, TypeCorrect, InductiveInvariant, PTL

-----------------------------------------------------------------------------
(***************************************************************************)
(* Refinement of the tag registry.                                         *)
(***************************************************************************)

\* What can be recovered for a name, from either list, is where it was tagged.
LEMMA HeldIsTagged ==
  ASSUME TypeOK, IInv, NEW n \in Names
  PROVE  HeldPoses(n) = IF tagged[n] = NoTag THEN {} ELSE {tagged[n].pose}
  <1> DEFINE refs == submap_references
  <1>1. ASSUME NEW p \in pending_waypoints, p.name = n
        PROVE  p.T_odom_sensor = tagged[n].pose
    <2>1. tagged[n] = [stamp |-> p.stamp, pose |-> p.T_odom_sensor]
      BY <1>1 DEF IInv, PendingHoldsTag
    <2>. QED
      BY <2>1
  <1>2. ASSUME NEW w \in waypoints, w.name = n
        PROVE  /\ \E i \in DOMAIN refs : refs[i].id = w.submap_id
               /\ \A i \in DOMAIN refs : refs[i].id = w.submap_id =>
                    Mul(refs[i].T_odom_origin_sensor, w.T_submap_sensor) = tagged[n].pose
    <2>1. PICK j \in DOMAIN refs :
            /\ refs[j].id = w.submap_id
            /\ Mul(refs[j].T_odom_origin_sensor, w.T_submap_sensor) = tagged[n].pose
      BY <1>2 DEF IInv, BoundWhereTagged, Spans, Covers
    <2>2. \A i \in DOMAIN refs : refs[i].id = refs[j].id => i = j
      BY DEF IInv, SubmapsInOrder, SubmapsOrdered, TypeOK
    <2>. QED
      BY <2>1, <2>2
  <1>3. CASE tagged[n] = NoTag
    <2>1. \A p \in pending_waypoints : p.name # n
      BY <1>3 DEF IInv, NoTagLost, NamesOf
    <2>2. \A w \in waypoints : w.name # n
      BY <1>3 DEF IInv, NoTagLost, NamesOf
    <2>. QED
      BY <1>3, <2>1, <2>2 DEF HeldPoses
  <1>4. CASE tagged[n] # NoTag
    <2>1. HeldPoses(n) \subseteq {tagged[n].pose}
      BY <1>1, <1>2 DEF HeldPoses
    <2>2. HeldPoses(n) # {}
      <3>1. n \in NamesOf(waypoints) \/ n \in NamesOf(pending_waypoints)
        BY <1>4 DEF IInv, NoTagLost
      <3>2. CASE n \in NamesOf(pending_waypoints)
        BY <3>2 DEF HeldPoses, NamesOf
      <3>3. CASE n \in NamesOf(waypoints)
        <4>1. PICK w \in waypoints : w.name = n
          BY <3>3 DEF NamesOf
        <4>2. PICK i \in DOMAIN refs : refs[i].id = w.submap_id
          BY <4>1, <1>2
        <4>3. Mul(refs[i].T_odom_origin_sensor, w.T_submap_sensor) \in HeldPoses(n)
          BY <4>1, <4>2 DEF HeldPoses
        <4>. QED
          BY <4>3
      <3>. QED
        BY <3>1, <3>2, <3>3
    <2>. QED
      BY <1>4, <2>1, <2>2
  <1>. QED
    BY <1>3, <1>4

\* A name answered for has been tagged.
LEMMA AnswerableIsTagged ==
  ASSUME TypeOK, IInv, NEW n \in Names, Resolved(n) # {}
  PROVE  tagged[n] # NoTag
  BY DEF IInv, NoTagLost, NamesOf, Resolved

\* The same two facts, of the state and of the next one.
HeldIsTaggedEverywhere ==
  TypeOK /\ IInv => \A n \in Names :
    /\ HeldPoses(n) = IF tagged[n] = NoTag THEN {} ELSE {tagged[n].pose}
    /\ Resolved(n) # {} => tagged[n] # NoTag

LEMMA HeldIsTaggedNow == HeldIsTaggedEverywhere
  BY HeldIsTagged, AnswerableIsTagged DEF HeldIsTaggedEverywhere

LEMMA HeldIsTaggedNext == HeldIsTaggedEverywhere'
  BY HeldIsTaggedNow, PTL

\* A step that makes no tag and withdraws no bound entry and no submap pose
\* only makes answers available.
LEMMA PublishStep ==
  ASSUME TypeOK, IInv, TypeOK', IInv',
         tagged' = tagged, waypoints \subseteq waypoints',
         DOMAIN submap_world_pose \subseteq DOMAIN submap_world_pose'
  PROVE  \E names \in SUBSET Names : Registry!Publish(names)
  <1>1. ASSUME NEW n \in Names
        PROVE  HeldPoses(n)' = HeldPoses(n)
    BY HeldIsTaggedNow, HeldIsTaggedNext DEF HeldIsTaggedEverywhere
  <1>2. ASSUME NEW n \in Names, Resolved(n) # {}
        PROVE  Resolved(n)' # {}
    BY <1>2 DEF Resolved
  <1> DEFINE names == { n \in Names : Resolved(n)' # {} }
  <1>3. \A n \in names : tagged'[n] # NoTag
    BY HeldIsTaggedNext DEF HeldIsTaggedEverywhere
  <1>4. \A n \in names : HeldPoses(n) # {}
    BY <1>3, HeldIsTaggedNow DEF HeldIsTaggedEverywhere
  <1>5. Registry!Publish(names)
    BY <1>1, <1>2, <1>4 DEF Registry!Publish
  <1>. QED
    BY <1>5

\* add_waypoint is the registry's Tag.
LEMMA TagStep ==
  ASSUME TypeOK, IInv, TypeOK', IInv',
         NEW name \in Names \union {EmptyName}, AddWaypoint(name)
  PROVE  \E n \in Names, place \in Pose : Registry!Tag(n, place)
  <1>1. name \in Names /\ latest_frame_pose \in Pose
    BY DEF AddWaypoint, AddWaypointAccepts, TypeOK
  <1>2. /\ tagged'[name] = [stamp |-> latest_frame_stamp, pose |-> latest_frame_pose]
        /\ \A n \in Names : n # name => tagged'[n] = tagged[n]
    BY <1>1 DEF AddWaypoint, TypeOK
  <1>3. tagged'[name] # NoTag
    BY <1>2, ConstantsAssumption DEF TypeOK, Stamp
  <1>4. HeldPoses(name)' = {latest_frame_pose}
    <2>1. HeldPoses(name)' = {tagged'[name].pose}
      BY <1>1, <1>3, HeldIsTaggedNext DEF HeldIsTaggedEverywhere
    <2>. QED
      BY <2>1, <1>2
  <1>5. \A n \in Names : n # name => HeldPoses(n)' = HeldPoses(n)
    BY <1>2, HeldIsTaggedNow, HeldIsTaggedNext DEF HeldIsTaggedEverywhere
  <1>6. ASSUME NEW n \in Names, n # name
        PROVE  Resolved(n)' = Resolved(n)
    <2>1. \A s \in SubmapForStamp(submap_references, latest_frame_stamp) :
            BoundEntry(name, latest_frame_pose, s).name = name
      BY DEF BoundEntry
    <2>2. { v \in waypoints' : v.name = n } = { v \in waypoints : v.name = n }
      BY <1>6, <2>1 DEF AddWaypoint, EraseNamed
    <2>3. submap_world_pose' = submap_world_pose
      BY DEF AddWaypoint
    <2>. QED
      BY <2>2, <2>3 DEF Resolved
  <1>7. Registry!Tag(name, latest_frame_pose)
    <2>1. [n \in Names |-> HeldPoses(n)]'
            = [[n \in Names |-> HeldPoses(n)] EXCEPT ![name] = {latest_frame_pose}]
      BY <1>1, <1>4, <1>5
    <2>2. { n \in Names : Resolved(n) # {} }'
            \in { { n \in Names : Resolved(n) # {} } \ {name},
                  { n \in Names : Resolved(n) # {} } \union {name} }
      BY <1>1, <1>6
    <2>. QED
      BY <2>1, <2>2 DEF Registry!Tag
  <1>. QED
    BY <1>1, <1>7

\* The manager implements the registry: only add_waypoint changes what a name
\* stands for, and answers are never withdrawn.
THEOREM Refinement == Spec => ImplementsRegistry
  <1>1. Init => Registry!Init
    BY DEF Init, Registry!Init, HeldPoses, Resolved
  <1>2. TypeOK /\ IInv /\ TypeOK' /\ IInv' /\ [Next]_vars => [Registry!Next]_(Registry!vars)
    <2> SUFFICES ASSUME TypeOK, IInv, TypeOK', IInv', [Next]_vars
                 PROVE  Registry!Next \/ UNCHANGED Registry!vars
      OBVIOUS
    <2> USE DEF tagVars
    <2>1. ASSUME NEW pose \in OdomPoses, OnUpdateNewFrame(pose)
          PROVE  Registry!Next
      BY <2>1, PublishStep DEF OnUpdateNewFrame, Registry!Next
    <2>2. ASSUME NEW first \in 1 .. MaxStamp, NEW last \in 1 .. MaxStamp,
                 NEW origin \in OdomPoses, OnNewSubmap(first, last, origin)
          PROVE  Registry!Next
      BY <2>2, PublishStep DEF OnNewSubmap, Registry!Next
    <2>3. ASSUME NEW id \in 0 .. MaxStamp - 1, NEW pose \in MapPoses,
                 OnInsertSubmap(id, pose)
          PROVE  Registry!Next
      <3>1. DOMAIN submap_world_pose \subseteq DOMAIN submap_world_pose'
        BY <2>3, ConstantsAssumption DEF OnInsertSubmap
      <3>. QED
        BY <2>3, <3>1, PublishStep DEF OnInsertSubmap, Registry!Next
    <2>4. ASSUME NEW ids \in SUBSET DOMAIN submap_world_pose,
                 NEW poses \in [ids -> MapPoses], OnUpdateSubmaps(poses)
          PROVE  Registry!Next
      <3>1. DOMAIN submap_world_pose \subseteq DOMAIN submap_world_pose'
        BY <2>4 DEF OnUpdateSubmaps
      <3>. QED
        BY <2>4, <3>1, PublishStep DEF OnUpdateSubmaps, Registry!Next
    <2>5. ASSUME NEW name \in Names \union {EmptyName}, AddWaypoint(name)
          PROVE  Registry!Next
      BY <2>5, TagStep DEF Registry!Next
    <2>6. CASE UNCHANGED vars
      BY <2>6 DEF vars, Registry!vars, HeldPoses, Resolved
    <2>. QED
      BY <2>1, <2>2, <2>3, <2>4, <2>5, <2>6 DEF Next
  <1>. QED
    BY <1>1, <1>2, TypeCorrect, InductiveInvariant, PTL
    DEF Spec, ImplementsRegistry, Registry!Spec

-----------------------------------------------------------------------------
(***************************************************************************)
(* Saving and restarts.  A session keeps the invariant of WaypointManager, *)
(* and starts from a state that has it.                                    *)
(***************************************************************************)
\* The autosave is open only while there is a tag to write, and a dead process
\* has nothing open.
SavingInv ==
  /\ saving = Autosave => Tagged # {}
  /\ ~up => saving = NotSaving

StoreInv == TypeOK /\ IInv /\ StoreTypeOK /\ SavingInv

-----------------------------------------------------------------------------
(***************************************************************************)
(* What a document holds.                                                  *)
(***************************************************************************)

\* The document has its type, so the file that holds it exists.
LEMMA DocumentType ==
  ASSUME TypeOK
  PROVE  /\ Document # NoFile
         /\ Document.pending_waypoints \subseteq PendingWaypoint
         /\ \A r \in Document.waypoints : r.entry \in WaypointEntry /\ r.map_pose \subseteq Pose
<1> DEFINE Bound == [entry : WaypointEntry, map_pose : SUBSET Pose]
<1>1. ASSUME NEW w \in waypoints PROVE BoundRecord(w) \in Bound
  <2>1. w \in WaypointEntry /\ w.T_submap_sensor \in Pose
    BY DEF TypeOK, WaypointEntry
  <2>2. w.submap_id \in DOMAIN submap_world_pose =>
          Mul(submap_world_pose[w.submap_id], w.T_submap_sensor) \in Pose
    BY <2>1, PoseGroup DEF TypeOK
  <2> QED
    BY <2>1, <2>2 DEF BoundRecord
<1>2. Document \in [waypoints : SUBSET Bound, pending_waypoints : SUBSET PendingWaypoint]
  BY <1>1 DEF Document, TypeOK
<1> QED
  BY <1>2, StoreAssumption

\* Each tag is in the document, at the place it was made, and nothing else is.
LEMMA DocumentIsWhole ==
  ASSUME TypeOK, IInv
  PROVE  /\ \A n \in Tagged : Recorded(Document, n) = {tagged[n].pose}
         /\ NamesIn(Document) = Tagged
         /\ \A r \in Document.waypoints : r.map_pose = Resolved(r.entry.name)
<1>1. Document # NoFile /\ Document.pending_waypoints = pending_waypoints
      /\ Document.waypoints = { BoundRecord(w) : w \in waypoints }
      /\ \A w \in waypoints : BoundRecord(w).entry = w
  BY DocumentType DEF Document, BoundRecord
<1>2. ASSUME NEW n \in Tagged PROVE Recorded(Document, n) = {tagged[n].pose}
  <2>1. Recorded(Document, n) = HeldPoses(n)
    <3> DEFINE at(w) == { Mul(submap_references[i].T_odom_origin_sensor, w.T_submap_sensor) :
                            i \in { j \in DOMAIN submap_references : submap_references[j].id = w.submap_id } }
               direct == { p.T_odom_sensor : p \in { q \in pending_waypoints : q.name = n } }
    <3>1. Recorded(Document, n) =
            direct \union UNION { at(r.entry) : r \in { q \in Document.waypoints : q.entry.name = n } }
      BY <1>1 DEF Recorded
    <3>2. HeldPoses(n) = direct \union UNION { at(w) : w \in { v \in waypoints : v.name = n } }
      BY DEF HeldPoses
    <3> HIDE DEF at, direct
    <3>3. { at(r.entry) : r \in { q \in Document.waypoints : q.entry.name = n } }
            = { at(w) : w \in { v \in waypoints : v.name = n } }
      BY <1>1
    <3> QED
      BY <3>1, <3>2, <3>3
  <2> QED
    BY <2>1, HeldIsTagged DEF Tagged
<1>3. NamesIn(Document) = Tagged
  <2>1. { r.entry.name : r \in Document.waypoints } = NamesOf(waypoints)
    BY <1>1 DEF NamesOf
  <2> QED
    BY <1>1, <2>1 DEF NamesIn, IInv, NoTagLost, Tagged
<1>4. ASSUME NEW w \in waypoints PROVE BoundRecord(w).map_pose = Resolved(w.name)
  <2>1. \A v \in waypoints : v.name = w.name => v = w
    BY DEF IInv, NameUnique
  <2> QED
    BY <2>1 DEF BoundRecord, Resolved
<1> QED
  BY <1>1, <1>2, <1>3, <1>4

-----------------------------------------------------------------------------
(***************************************************************************)
(* The invariant, over any number of sessions.                             *)
(***************************************************************************)

\* A new session is a start of the manager.
LEMMA RestartIsInit == Restart => Init'
  BY DEF Restart, Init

LEMMA InitNext == (Init => TypeOK /\ IInv)'
  BY TypeInit, IInvInit, PTL

\* Every step keeps what the manager's own invariant says.
LEMMA ManagerStep ==
  TypeOK /\ IInv /\ [StoreNext]_allVars => TypeOK' /\ IInv'
<1> SUFFICES ASSUME TypeOK, IInv, [StoreNext]_allVars PROVE TypeOK' /\ IInv'
  OBVIOUS
<1>1. CASE [Next]_vars
  BY <1>1, TypeStep, IInvStep
<1>2. CASE Restart
  BY <1>2, RestartIsInit, InitNext
<1>3. [Next]_vars \/ Restart
  BY DEF StoreNext, allVars, Handler, SaveWaypoints, AutosaveTimer, OpenForWriting, FinishSave, Crash
<1> QED
  BY <1>1, <1>2, <1>3

\* Opening a file leaves an empty document in it.
LEMMA OpenStep ==
  ASSUME StoreTypeOK, TypeOK', NEW path \in Paths, OpenForWriting(path)
  PROVE  StoreTypeOK'
  BY DEF OpenForWriting, StoreTypeOK, Empty

\* Writing one leaves the file as it was truncated, or the document in it.
LEMMA FinishStep ==
  ASSUME StoreTypeOK, TypeOK, TypeOK', FinishSave
  PROVE  StoreTypeOK'
<1>1. saving \in Paths /\ DOMAIN disk = Paths
  BY DEF FinishSave, StoreTypeOK
<1>2. NamesIn(disk'[Autosave]) \subseteq Names
  <2>1. /\ disk'[Autosave] # NoFile => disk'[Autosave].pending_waypoints \subseteq PendingWaypoint
        /\ disk'[Autosave] # NoFile => \A r \in disk'[Autosave].waypoints : r.entry \in WaypointEntry
    BY <1>1, DocumentType DEF FinishSave, StoreTypeOK, Paths
  <2> QED
    BY <2>1 DEF NamesIn, NamesOf, PendingWaypoint, WaypointEntry
<1>3. DOMAIN disk' = Paths
  BY <1>1 DEF FinishSave
<1>4. ASSUME NEW p \in Paths, disk'[p] # NoFile
      PROVE  /\ disk'[p].pending_waypoints \subseteq PendingWaypoint
             /\ \A r \in disk'[p].waypoints : r.entry \in WaypointEntry /\ r.map_pose \subseteq Pose
  <2>1. disk'[p] = disk[p] \/ disk'[p] = Document
    BY <1>1 DEF FinishSave
  <2> QED
    BY <1>4, <2>1, DocumentType DEF StoreTypeOK
<1> QED
  BY <1>1, <1>2, <1>3, <1>4 DEF FinishSave, StoreTypeOK

LEMMA StoreTypeStep ==
  TypeOK /\ TypeOK' /\ StoreTypeOK /\ [StoreNext]_allVars => StoreTypeOK'
<1> SUFFICES ASSUME TypeOK, TypeOK', StoreTypeOK, [StoreNext]_allVars PROVE StoreTypeOK'
  OBVIOUS
<1>1. CASE Handler \/ Crash \/ UNCHANGED allVars
  BY <1>1 DEF Handler, Crash, allVars, storeVars, StoreTypeOK
<1>2. CASE AutosaveTimer \/ \E path \in OtherPaths : SaveWaypoints(path)
  BY <1>2, OpenStep DEF AutosaveTimer, SaveWaypoints, Paths
<1>3. CASE FinishSave
  BY <1>3, FinishStep
<1>4. CASE Restart
  <2>1. session' \in 1 .. MaxSessions
    BY <1>4, StoreAssumption DEF Restart, StoreTypeOK
  <2> QED
    BY <1>4, <2>1 DEF Restart, StoreTypeOK
<1> QED
  BY <1>1, <1>2, <1>3, <1>4 DEF StoreNext

LEMMA SavingStep ==
  TypeOK /\ TypeOK' /\ IInv /\ StoreTypeOK /\ SavingInv /\ [StoreNext]_allVars => SavingInv'
<1> SUFFICES ASSUME TypeOK, TypeOK', IInv, StoreTypeOK, SavingInv, [StoreNext]_allVars PROVE SavingInv'
  OBVIOUS
<1>1. CASE Handler
  BY <1>1, StoreAssumption DEF Handler, SavingInv
<1>2. CASE \E path \in OtherPaths : SaveWaypoints(path)
  BY <1>2, StoreAssumption DEF SaveWaypoints, OpenForWriting, SavingInv
<1>3. CASE AutosaveTimer
  <2>1. Tagged # {}
    <3>1. NamesOf(waypoints) \union NamesOf(pending_waypoints) = Tagged
      BY DEF IInv, NoTagLost, Tagged
    <3>2. NamesOf(waypoints) \union NamesOf(pending_waypoints) # {}
      BY <1>3 DEF AutosaveTimer, NamesOf
    <3> QED
      BY <3>1, <3>2
  <2>2. Tagged' = Tagged
    BY <1>3 DEF AutosaveTimer, OpenForWriting, vars, tagVars, Tagged
  <2> QED
    BY <1>3, <2>1, <2>2 DEF AutosaveTimer, OpenForWriting, SavingInv
<1>4. CASE FinishSave \/ Crash \/ Restart
  BY <1>4, StoreAssumption DEF FinishSave, Crash, Restart, SavingInv
<1>5. CASE UNCHANGED allVars
  BY <1>5 DEF allVars, storeVars, vars, tagVars, SavingInv, Tagged
<1> QED
  BY <1>1, <1>2, <1>3, <1>4, <1>5 DEF StoreNext

\* In every session, and between them, the tags are where they should be, files
\* hold documents, and the autosave is written only when there is a tag.
THEOREM StoreInvariant == StoreSpec => []StoreInv
<1>1. StoreInit => StoreInv
  <2> SUFFICES ASSUME StoreInit PROVE StoreInv
    OBVIOUS
  <2>1. TypeOK /\ IInv
    BY TypeInit, IInvInit DEF StoreInit
  <2>2. StoreTypeOK
    <3>1. disk = [p \in Paths |-> NoFile] /\ session \in 1 .. MaxSessions
      BY StoreAssumption DEF StoreInit
    <3> QED
      BY <2>1, <3>1 DEF StoreInit, StoreTypeOK
  <2> QED
    BY <2>1, <2>2, StoreAssumption DEF StoreInit, StoreInv, SavingInv
<1>2. StoreInv /\ [StoreNext]_allVars => StoreInv'
  BY ManagerStep, StoreTypeStep, SavingStep DEF StoreInv
<1> QED
  BY <1>1, <1>2, PTL DEF StoreSpec

-----------------------------------------------------------------------------
\* A save the disk took leaves nothing out, whichever session made it: every tag
\* is in the file at its place, bound or pending, and nothing else.
THEOREM SavesStayWhole == StoreSpec => []SavesAreWhole
<1>1. StoreInit => CompletedSaveIsWhole
  BY DEF StoreInit, CompletedSaveIsWhole
<1>2. StoreInv /\ CompletedSaveIsWhole /\ [StoreNext]_allVars => CompletedSaveIsWhole'
  <2> SUFFICES ASSUME StoreInv, CompletedSaveIsWhole, [StoreNext]_allVars, lastSave' # NotSaving
               PROVE  CompletedSaveIsWhole'
    BY DEF CompletedSaveIsWhole
  <2>1. CASE FinishSave
    <3>1. /\ disk'[lastSave'] = Document
          /\ UNCHANGED <<submap_references, submap_world_pose, waypoints, pending_waypoints, tagged>>
      BY <2>1 DEF FinishSave, StoreInv, StoreTypeOK, vars, tagVars
    <3>2. /\ \A n \in Tagged : Recorded(Document, n) = {tagged[n].pose}
          /\ NamesIn(Document) = Tagged
          /\ \A r \in Document.waypoints : r.map_pose = Resolved(r.entry.name)
      BY DocumentIsWhole DEF StoreInv
    <3>3. Tagged' = Tagged /\ \A name : Resolved(name)' = Resolved(name)
      BY <3>1 DEF Tagged, Resolved
    <3>4. \A file, name : Recorded(file, name)' = Recorded(file, name)
      BY <3>1 DEF Recorded
    <3> DEFINE doc == Document
    <3> HIDE DEF doc
    <3>5. /\ disk'[lastSave'] = doc /\ NamesIn(doc) = Tagged
          /\ \A n \in Tagged : Recorded(doc, n) = {tagged[n].pose}
          /\ \A r \in doc.waypoints : r.map_pose = Resolved(r.entry.name)
      BY <3>1, <3>2 DEF doc
    <3> QED
      BY <3>1, <3>3, <3>4, <3>5 DEF CompletedSaveIsWhole
  <2>2. CASE UNCHANGED allVars
    <3>1. UNCHANGED <<disk, lastSave, submap_references, submap_world_pose, waypoints, tagged>>
      BY <2>2 DEF allVars, storeVars, vars, tagVars
    <3>2. Tagged' = Tagged /\ \A name : Resolved(name)' = Resolved(name)
      BY <3>1 DEF Tagged, Resolved
    <3>3. \A file, name : Recorded(file, name)' = Recorded(file, name)
      BY <3>1 DEF Recorded
    <3> QED
      BY <3>1, <3>2, <3>3 DEF CompletedSaveIsWhole
  <2>3. FinishSave \/ UNCHANGED allVars
    BY DEF StoreNext, Handler, SaveWaypoints, AutosaveTimer, OpenForWriting, Crash, Restart
  <2> QED
    BY <2>1, <2>2, <2>3
<1>3. StoreInv /\ CompletedSaveIsWhole => SavesAreWhole
  BY DEF StoreInv, SavesAreWhole
<1> QED
  BY <1>1, <1>2, <1>3, StoreInvariant, PTL DEF StoreSpec

\* Until an operator tags a place, no session touches the autosave file: what the
\* session before it had saved survives any number of crashes and restarts.
THEOREM AutosaveSurvives == StoreSpec => EarlierSessionKept
<1>1. StoreInv /\ [StoreNext]_allVars => [Tagged = {} => disk'[Autosave] = disk[Autosave]]_allVars
  <2> SUFFICES ASSUME StoreInv, StoreNext, Tagged = {}
               PROVE  disk'[Autosave] = disk[Autosave]
    OBVIOUS
  <2>1. DOMAIN disk = Paths /\ Autosave \in Paths
    BY DEF StoreInv, StoreTypeOK, Paths
  <2>2. waypoints = {} /\ pending_waypoints = {}
    <3>1. NamesOf(waypoints) \union NamesOf(pending_waypoints) = {}
      BY DEF StoreInv, IInv, NoTagLost, Tagged
    <3> QED
      BY <3>1 DEF NamesOf
  <2>3. CASE \E path \in OtherPaths : SaveWaypoints(path)
    BY <2>1, <2>3, StoreAssumption DEF SaveWaypoints, OpenForWriting
  <2>4. CASE FinishSave
    <3>1. saving # Autosave
      BY DEF StoreInv, SavingInv
    <3> QED
      BY <2>1, <2>4, <3>1 DEF FinishSave
  <2>5. CASE Handler \/ Crash \/ Restart
    BY <2>5 DEF Handler, Crash, Restart
  <2> QED
    BY <2>2, <2>3, <2>4, <2>5 DEF StoreNext, AutosaveTimer
<1> QED
  BY <1>1, StoreInvariant, PTL DEF StoreSpec, EarlierSessionKept

=============================================================================
