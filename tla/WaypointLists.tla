---------------------------- MODULE WaypointLists ----------------------------
(***************************************************************************)
(* The waypoint manager with its two tag lists as the vectors they are,    *)
(* and the RViz markers.  The order of the vectors is what list_waypoints  *)
(* reports, what waypoint_mission.py drives when it is given no names, and *)
(* what numbers the markers.  WaypointManager, which this specification    *)
(* implements, forgets the order.                                          *)
(***************************************************************************)
EXTENDS Selection, SequencesExt

CONSTANTS Names, EmptyName, Pose, Mul(_, _), Inv(_), Id, OdomPoses, MapPoses,
          MaxStamp, NoTag

VARIABLES
  has_frame, latest_frame_pose, latest_frame_stamp, submap_references,
  submap_world_pose, consumed,
  waypoints, pending_waypoints,
  tag_log,     \* history: the successful tags, a name only at its last one
  shown        \* RViz: marker id (from 1 here) -> name and pose displayed

gridVars == <<has_frame, latest_frame_pose, latest_frame_stamp, submap_references,
              submap_world_pose, consumed>>
listVars == <<waypoints, pending_waypoints, tag_log>>
vars == <<gridVars, listVars, shown>>

LastTag(log, name) ==
  IF \E i \in DOMAIN log : log[i].name = name
  THEN LET i == CHOOSE j \in DOMAIN log : log[j].name = name
       IN  [stamp |-> log[i].stamp, pose |-> log[i].pose]
  ELSE NoTag

ASSUME ListsAssumption ==
  /\ EmptyName \notin Names
  /\ \A a, b \in Pose : Mul(a, b) \in Pose
  /\ \A a \in Pose : Inv(a) \in Pose
  /\ Id \in Pose
  /\ OdomPoses \subseteq Pose
  /\ MapPoses \subseteq Pose
  /\ MaxStamp \in Nat
  /\ NoTag \notin [stamp : Nat, pose : Pose]

Manager == INSTANCE WaypointManager WITH
  waypoints <- ToSet(waypoints),
  pending_waypoints <- ToSet(pending_waypoints),
  tagged <- [n \in Names |-> LastTag(tag_log, n)]

-----------------------------------------------------------------------------
\* Mutant: nothing is erased when a name is tagged again.
EraseNamedMutant(entries, name) == entries

\* std::remove_if + erase: the entries left keep their order.
EraseNamed(entries, name) == Kept(entries, {e \in ToSet(entries) : e.name # name})

NamesInOrder(entries) == [i \in DOMAIN entries |-> entries[i].name]

\* Mutant: pending tags are listed first.
ListedNamesMutant == NamesInOrder(pending_waypoints) \o NamesInOrder(waypoints)

\* list_waypoints: bound tags, then pending ones.
ListedNames == NamesInOrder(waypoints) \o NamesInOrder(pending_waypoints)

\* publish_markers: one marker for each bound tag whose submap has a pose in
\* the map, numbered without gaps.
Markers ==
  LET drawn  == {w \in ToSet(waypoints) : w.submap_id \in DOMAIN submap_world_pose}
      marker == [w \in drawn |->
                   [name |-> w.name,
                    pose |-> Mul(submap_world_pose[w.submap_id], w.T_submap_sensor)]]
  IN  Mapped(Kept(waypoints, drawn), marker)

\* RViz replaces the markers whose ids are published and keeps the others: the
\* node adds markers and never deletes one.
Overlay(old, new) == new \o SubSeq(old, Len(new) + 1, Len(old))

-----------------------------------------------------------------------------
Init ==
  /\ waypoints = <<>> /\ pending_waypoints = <<>> /\ tag_log = <<>>
  /\ Manager!Init
  /\ shown = <<>>

OnUpdateNewFrame(pose) ==
  UNCHANGED <<listVars, shown>> /\ Manager!OnUpdateNewFrame(pose)

OnInsertSubmap(id, T_world_origin) ==
  UNCHANGED <<listVars, shown>> /\ Manager!OnInsertSubmap(id, T_world_origin)

OnUpdateSubmaps(poses) ==
  UNCHANGED <<listVars, shown>> /\ Manager!OnUpdateSubmaps(poses)

\* GLIM puts every odometry frame into a submap, in order.
\* bind_pending_waypoints_locked walks the pending list from its front: what
\* it can bind it appends to the bound list and erases, what it cannot stays.
OnNewSubmap(first, last, origin) ==
  LET submap == [id |-> Len(submap_references), first_stamp |-> first,
                 last_stamp |-> last, T_odom_origin_sensor |-> origin]
      refs == Append(submap_references, submap)
      SubmapOf(p) == Manager!SubmapForStamp(refs, p.stamp)
      found == {p \in ToSet(pending_waypoints) : SubmapOf(p) # {}}
      bound == [p \in found |->
                  Manager!BoundEntry(p.name, p.T_odom_sensor, CHOOSE s \in SubmapOf(p) : TRUE)]
  IN  /\ first = consumed + 1 /\ first <= last /\ last <= latest_frame_stamp
      /\ consumed' = last
      /\ submap_references' = refs
      /\ waypoints' = waypoints \o Mapped(Kept(pending_waypoints, found), bound)
      /\ pending_waypoints' = Kept(pending_waypoints, ToSet(pending_waypoints) \ found)
      /\ UNCHANGED <<has_frame, latest_frame_pose, latest_frame_stamp, submap_world_pose, tag_log,
                     shown>>

AddWaypoint(name) ==
  LET submaps == Manager!SubmapForStamp(submap_references, latest_frame_stamp)
      others  == EraseNamed(waypoints, name)
      waiting == EraseNamed(pending_waypoints, name)
  IN  /\ Manager!AddWaypointAccepts(name)
      /\ IF submaps # {}
         THEN /\ waypoints' = Append(others, Manager!BoundEntry(name, latest_frame_pose,
                                                               CHOOSE s \in submaps : TRUE))
              /\ pending_waypoints' = waiting
         ELSE /\ waypoints' = others
              /\ pending_waypoints' = Append(waiting,
                   [name |-> name, stamp |-> latest_frame_stamp,
                    T_odom_sensor |-> latest_frame_pose])
      /\ tag_log' = Append(EraseNamed(tag_log, name),
                           [name |-> name, stamp |-> latest_frame_stamp,
                            pose |-> latest_frame_pose])
      /\ UNCHANGED <<gridVars, shown>>

\* Mutant: markers are published only when there are new ones.
PublishMarkersNew ==
  /\ Len(Markers) > Len(shown)
  /\ shown' = Overlay(shown, Markers)
  /\ UNCHANGED <<gridVars, listVars>>

\* The 1 s timer.  With no bound tag it publishes nothing at all.
PublishMarkers ==
  /\ waypoints # <<>>
  /\ shown' = Overlay(shown, Markers)
  /\ UNCHANGED <<gridVars, listVars>>

Next ==
  \/ \E pose \in OdomPoses : OnUpdateNewFrame(pose)
  \/ \E first, last \in 1 .. MaxStamp, origin \in OdomPoses : OnNewSubmap(first, last, origin)
  \/ \E id \in 0 .. MaxStamp - 1, pose \in MapPoses : OnInsertSubmap(id, pose)
  \/ \E ids \in SUBSET DOMAIN submap_world_pose :
       \E poses \in [ids -> MapPoses] : OnUpdateSubmaps(poses)
  \/ \E name \in Names \union {EmptyName} : AddWaypoint(name)
  \/ PublishMarkers

Spec == Init /\ [][Next]_vars

\* As in WaypointManager, and the executor keeps serving the marker timer.
Fairness ==
  /\ WF_vars(\E id \in 0 .. MaxStamp - 1, pose \in MapPoses : OnInsertSubmap(id, pose))
  /\ WF_vars(PublishMarkers)

FairSpec == Spec /\ Fairness
-----------------------------------------------------------------------------
TypeOK ==
  /\ Manager!TypeOK
  /\ waypoints \in Seq(Manager!WaypointEntry)
  /\ pending_waypoints \in Seq(Manager!PendingWaypoint)
  /\ tag_log \in Seq([name : Names, stamp : Nat, pose : Pose])
  /\ shown \in Seq([name : Names, pose : Pose])

\* list_waypoints reports the names in the order they were (last) tagged, each
\* once.  A mission without a list of names drives them in that order
\* (docs/MISSIONS.md:30 "all tagged, in tag order").  Tags wait in one list and
\* are bound in another, so this needs every submap to bind a prefix of the
\* pending list and no tag to be bound at once while an older one still waits.
ListedInTagOrder == ListedNames = NamesInOrder(tag_log)

\* The vectors have their types, and are in tag order.
ListsAreSound == TypeOK /\ ListedInTagOrder

\* The vectors with their walks and erasures behave as the sets of
\* WaypointManager: in particular the loop that erases from the list it walks
\* binds every pending tag of the finished submap and no other.
ImplementsManager == Manager!Spec

Correct(marker) == marker.pose \in Manager!Resolved(marker.name)

\* Hypothesis: the rover is driven on until no tag waits.
DrivenOn == []<>(pending_waypoints = <<>>)

\* If the rover is driven on after each tag, every marker RViz shows, also one
\* that a shorter publication left behind, is at the corrected place of the tag
\* it names, over and over again, and every tag that can be asked for has one.
MarkersCatchUp ==
  DrivenOn =>
    []<>(/\ \A i \in DOMAIN shown : Correct(shown[i])
         /\ \A n \in Names : Manager!Resolved(n) # {} => \E i \in DOMAIN shown : shown[i].name = n)

=============================================================================
