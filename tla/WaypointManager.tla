--------------------------- MODULE WaypointManager ---------------------------
(***************************************************************************)
(* The waypoint_manager extension of GLIM: operators tag the rover's       *)
(* current position with a name, the tag is bound to the submap that is    *)
(* later built around it, and asking for the tag answers with the submap's *)
(* current pose in the map, so that a tag rides along with every           *)
(* correction the pose graph makes.                                        *)
(*                                                                         *)
(* Every handler holds `mtx` from its first access of the state to its     *)
(* end, so each one is a single action; what interleaves are the handlers  *)
(* of three GLIM threads (odometry, sub-mapping, global mapping) and of    *)
(* the ROS executor (services and timers).                                 *)
(*                                                                         *)
(* Poses are elements of an arbitrary group: the code multiplies and       *)
(* inverts rigid transformations and does nothing else with them.  The     *)
(* group need not be commutative, so the order of the factors matters.     *)
(***************************************************************************)
EXTENDS Integers, Sequences

CONSTANTS
  Names,        \* waypoint names; the empty name the code rejects is not one
  EmptyName,    \* the empty string
  Pose,         \* rigid transformations
  Mul(_, _),    \* Isometry3d::operator*
  Inv(_),       \* Isometry3d::inverse
  Id,           \* Isometry3d::Identity
  OdomPoses,    \* poses the odometry reports
  MapPoses,     \* poses the pose graph gives to submaps
  MaxStamp,     \* bound: number of odometry frames
  NoTag         \* value of a name nobody has tagged

ASSUME PoseGroup ==
  /\ Id \in Pose
  /\ \A a, b \in Pose : Mul(a, b) \in Pose
  /\ \A a \in Pose : Inv(a) \in Pose
  /\ \A a, b, c \in Pose : Mul(Mul(a, b), c) = Mul(a, Mul(b, c))
  /\ \A a \in Pose : Mul(Id, a) = a /\ Mul(a, Id) = a
  /\ \A a \in Pose : Mul(Inv(a), a) = Id /\ Mul(a, Inv(a)) = Id

ASSUME ConstantsAssumption ==
  /\ EmptyName \notin Names
  /\ OdomPoses \subseteq Pose
  /\ MapPoses \subseteq Pose
  /\ MaxStamp \in Nat
  /\ NoTag \notin [stamp : Nat, pose : Pose]

VARIABLES
  has_frame, latest_frame_pose, latest_frame_stamp,
  submap_references,   \* finished submaps, oldest first
  submap_world_pose,   \* submap id -> T_world_origin, for inserted submaps
  waypoints,           \* tags bound to a submap
  pending_waypoints,   \* tags whose submap is still being built
  consumed,            \* GLIM: stamp of the last frame put into a submap
  tagged               \* history: the odometry frame each name was tagged at

frameVars == <<has_frame, latest_frame_pose, latest_frame_stamp>>
tagVars   == <<waypoints, pending_waypoints, tagged>>
vars == <<frameVars, submap_references, submap_world_pose, tagVars, consumed>>

Stamp == Nat
SubmapId == Nat

SubmapReference == [id : SubmapId, first_stamp : Stamp, last_stamp : Stamp,
                    T_odom_origin_sensor : Pose]
WaypointEntry   == [name : Names, submap_id : SubmapId, T_submap_sensor : Pose]
PendingWaypoint == [name : Names, stamp : Stamp, T_odom_sensor : Pose]

-----------------------------------------------------------------------------
(***************************************************************************)
(* Helpers.                                                                *)
(***************************************************************************)

\* Mutant: a stamp on the first frame of a submap is outside it.
CoversStrict(submap, stamp) ==
  submap.first_stamp < stamp /\ stamp <= submap.last_stamp

Covers(submap, stamp) ==
  submap.first_stamp <= stamp /\ stamp <= submap.last_stamp

\* find_submap_for_stamp_locked: the reverse scan returns the newest submap
\* whose frames span the stamp.  The empty set stands for nullptr.
SubmapForStamp(refs, stamp) ==
  { refs[i] : i \in { j \in DOMAIN refs :
                        /\ Covers(refs[j], stamp)
                        /\ \A k \in DOMAIN refs : k > j => ~Covers(refs[k], stamp) } }

\* Mutant: the factors of the local pose are swapped.
BoundEntrySwapped(name, T_odom_sensor, submap) ==
  [name |-> name, submap_id |-> submap.id,
   T_submap_sensor |-> Mul(T_odom_sensor, Inv(submap.T_odom_origin_sensor))]

\* add_waypoint_locked: both factors are odometry poses.
BoundEntry(name, T_odom_sensor, submap) ==
  [name |-> name, submap_id |-> submap.id,
   T_submap_sensor |-> Mul(Inv(submap.T_odom_origin_sensor), T_odom_sensor)]

\* erase_waypoint_named_locked and erase_pending_waypoint_named_locked
EraseNamed(entries, name) == { e \in entries : e.name # name }

NamesOf(entries) == { e.name : e \in entries }

\* Mutant: all tags older than the finished submap's end leave the list.
BindableOlder(refs) == { p \in pending_waypoints : p.stamp <= refs[Len(refs)].last_stamp }

\* bind_pending_waypoints_locked: the entries that leave the pending list and
\* what they become.
Bindable(refs)  == { p \in pending_waypoints : SubmapForStamp(refs, p.stamp) # {} }

\* Mutant: a tag is bound at the place the rover has now.
NewlyBoundHere(refs) ==
  UNION { { BoundEntry(p.name, latest_frame_pose, s) : s \in SubmapForStamp(refs, p.stamp) }
            : p \in Bindable(refs) }

NewlyBound(refs) ==
  UNION { { BoundEntry(p.name, p.T_odom_sensor, s) : s \in SubmapForStamp(refs, p.stamp) }
            : p \in Bindable(refs) }

\* Mutant: the factors of the answer are swapped.
ResolvedSwapped(name) ==
  { Mul(w.T_submap_sensor, submap_world_pose[w.submap_id]) :
      w \in { v \in waypoints : v.name = name /\ v.submap_id \in DOMAIN submap_world_pose } }

\* get_waypoint: the poses the service may answer for a name; none means
\* found = false.  The answer is computed from the submap's current pose.
Resolved(name) ==
  { Mul(submap_world_pose[w.submap_id], w.T_submap_sensor) :
      w \in { v \in waypoints : v.name = name /\ v.submap_id \in DOMAIN submap_world_pose } }

-----------------------------------------------------------------------------
Init ==
  /\ has_frame = FALSE
  /\ latest_frame_pose = Id
  /\ latest_frame_stamp = 0
  /\ submap_references = <<>>
  /\ submap_world_pose = [id \in {} |-> Id]
  /\ waypoints = {}
  /\ pending_waypoints = {}
  /\ consumed = 0
  /\ tagged = [n \in Names |-> NoTag]

\* The odometry thread reports a frame; stamps increase.
OnUpdateNewFrame(pose) ==
  /\ latest_frame_stamp < MaxStamp
  /\ latest_frame_pose' = pose
  /\ latest_frame_stamp' = latest_frame_stamp + 1
  /\ has_frame' = TRUE
  /\ UNCHANGED <<submap_references, submap_world_pose, tagVars, consumed>>

\* The sub-mapping thread finishes a submap over the frames first..last that
\* no earlier submap holds.  GLIM re-estimates recent frames until they
\* leave its smoother, so the origin may be any odometry pose.
OnNewSubmap(first, last, origin) ==
  LET submap == [id |-> Len(submap_references), first_stamp |-> first,
                 last_stamp |-> last, T_odom_origin_sensor |-> origin]
      refs == Append(submap_references, submap)
  IN  /\ consumed < first /\ first <= last /\ last <= latest_frame_stamp
      /\ consumed' = last
      /\ submap_references' = refs
      /\ waypoints' = waypoints \union NewlyBound(refs)
      /\ pending_waypoints' = pending_waypoints \ Bindable(refs)
      /\ UNCHANGED <<frameVars, submap_world_pose, tagged>>

\* The global mapping thread inserts finished submaps, oldest first.
OnInsertSubmap(id, T_world_origin) ==
  /\ id \in 0 .. Len(submap_references) - 1
  /\ DOMAIN submap_world_pose = 0 .. id - 1
  /\ submap_world_pose' = [i \in 0 .. id |->
        IF i = id THEN T_world_origin ELSE submap_world_pose[i]]
  /\ UNCHANGED <<frameVars, submap_references, tagVars, consumed>>

\* The pose graph was optimised: some of the inserted submaps get new poses,
\* the others keep theirs.
OnUpdateSubmaps(poses) ==
  /\ DOMAIN poses \subseteq DOMAIN submap_world_pose
  /\ submap_world_pose' = [id \in DOMAIN submap_world_pose |->
        IF id \in DOMAIN poses THEN poses[id] ELSE submap_world_pose[id]]
  /\ UNCHANGED <<frameVars, submap_references, tagVars, consumed>>

\* The add_waypoint service.  Without a frame or with an empty name the
\* request is refused and nothing changes.
AddWaypointAccepts(name) == has_frame /\ name # EmptyName

AddWaypoint(name) ==
  LET submaps == SubmapForStamp(submap_references, latest_frame_stamp)
      others  == EraseNamed(waypoints, name)
      waiting == EraseNamed(pending_waypoints, name)
      entry   == [name |-> name, stamp |-> latest_frame_stamp,
                  T_odom_sensor |-> latest_frame_pose]
  IN  /\ AddWaypointAccepts(name)
      /\ waypoints' = others \union
                        { BoundEntry(name, latest_frame_pose, s) : s \in submaps }
      /\ pending_waypoints' = IF submaps = {} THEN waiting \union {entry} ELSE waiting
      /\ tagged' = [tagged EXCEPT ![name] = [stamp |-> latest_frame_stamp,
                                             pose |-> latest_frame_pose]]
      /\ UNCHANGED <<frameVars, submap_references, submap_world_pose, consumed>>

Next ==
  \/ \E pose \in OdomPoses : OnUpdateNewFrame(pose)
  \/ \E first, last \in 1 .. MaxStamp, origin \in OdomPoses : OnNewSubmap(first, last, origin)
  \/ \E id \in 0 .. MaxStamp - 1, pose \in MapPoses : OnInsertSubmap(id, pose)
  \/ \E ids \in SUBSET DOMAIN submap_world_pose :
       \E poses \in [ids -> MapPoses] : OnUpdateSubmaps(poses)
  \/ \E name \in Names \union {EmptyName} : AddWaypoint(name)

Spec == Init /\ [][Next]_vars

\* GLIM inserts the submaps that are finished.  Nothing makes a frame arrive, an
\* operator call a service or a submap finish: a submap is finished by driving
\* on, and the rover may stop for good (glim_ext_addon/README.md:94,
\* docs/FIELD_TEST.md:57).
Fairness == WF_vars(\E id \in 0 .. MaxStamp - 1, pose \in MapPoses : OnInsertSubmap(id, pose))

FairSpec == Spec /\ Fairness
-----------------------------------------------------------------------------
TypeOK ==
  /\ has_frame \in BOOLEAN
  /\ latest_frame_pose \in Pose
  /\ latest_frame_stamp \in Stamp
  /\ submap_references \in Seq(SubmapReference)
  /\ DOMAIN submap_world_pose \subseteq SubmapId
  /\ submap_world_pose \in [DOMAIN submap_world_pose -> Pose]
  /\ waypoints \subseteq WaypointEntry
  /\ pending_waypoints \subseteq PendingWaypoint
  /\ consumed \in Stamp
  /\ tagged \in [Names -> [stamp : Stamp, pose : Pose] \union {NoTag}]

\* Strengthening used by the proofs.  Submaps are numbered in the order they
\* finish and span disjoint, increasing stretches of reported frames.
SubmapsOrdered(refs) ==
  /\ \A i \in DOMAIN refs : refs[i].id = i - 1
  /\ \A i, j \in DOMAIN refs : i < j => refs[i].last_stamp < refs[j].first_stamp

SubmapsInOrder ==
  /\ SubmapsOrdered(submap_references)
  /\ \A i \in DOMAIN submap_references : submap_references[i].last_stamp <= consumed
  /\ consumed <= latest_frame_stamp

\* A pending entry carries the frame of the last time its name was tagged: a
\* tag made again does not leave the older frame behind.
PendingHoldsTag ==
  \A p \in pending_waypoints :
    tagged[p.name] = [stamp |-> p.stamp, pose |-> p.T_odom_sensor]

\* A name is listed once: re-tagging replaces, binding moves, nothing
\* duplicates (the ConcurrentAddAndList test checks this of one schedule).
NameUnique ==
  /\ \A v, w \in waypoints : v.name = w.name => v = w
  /\ \A p, q \in pending_waypoints : p.name = q.name => p = q
  /\ NamesOf(waypoints) \intersect NamesOf(pending_waypoints) = {}

\* Every tag an operator was told "success" for is still held, bound or
\* pending, and nothing else is: handing a tag from one list to the other on
\* the sub-mapping thread never drops it.
NoTagLost ==
  NamesOf(waypoints) \union NamesOf(pending_waypoints)
    = { n \in Names : tagged[n] # NoTag }

\* The frames of a submap, the first and the last included.
Spans(submap, stamp) == submap.first_stamp <= stamp /\ stamp <= submap.last_stamp

\* A pending tag really waits: no finished submap spans its stamp, so a tag
\* made after its submap finished does not stay "(pending)" for ever.
PendingIsUncovered ==
  \A p \in pending_waypoints, i \in DOMAIN submap_references :
    ~Spans(submap_references[i], p.stamp)

\* A bound tag is bound to a submap that spans the moment it was made (never
\* to the newest one, or to the one before), at the place it was made: the
\* submap's odometry origin times the stored local pose is the odometry pose
\* the operator tagged.
BoundWhereTagged ==
  \A w \in waypoints : \E i \in DOMAIN submap_references :
    LET s == submap_references[i]
    IN  /\ s.id = w.submap_id
        /\ Spans(s, tagged[w.name].stamp)
        /\ Mul(s.T_odom_origin_sensor, w.T_submap_sensor) = tagged[w.name].pose

\* The answer of get_waypoint is the tagged odometry pose moved by exactly the
\* correction the pose graph currently gives the tag's submap, whatever
\* corrections came before or after the tag.
AnswerIsCorrectedTag ==
  \A n \in Names : \A answer \in Resolved(n) :
    \E i \in DOMAIN submap_references :
      LET s == submap_references[i]
          correction == Mul(submap_world_pose[s.id], Inv(s.T_odom_origin_sensor))
      IN  /\ Spans(s, tagged[n].stamp)
          /\ answer = Mul(correction, tagged[n].pose)

\* The two lists have their types and hold, between them and once each, exactly
\* the tags that were accepted, whichever thread hands one over.
TagsAreKept == TypeOK /\ NameUnique /\ NoTagLost

\* Every tag is bound to the submap built around it, at its place, or waits
\* because that submap is not finished.
TagsAreWhereMade == PendingIsUncovered /\ BoundWhereTagged

-----------------------------------------------------------------------------
(***************************************************************************)
(* The abstract specification: the place a name stands for is the          *)
(* odometry pose recovered from wherever its tag is held.                  *)
(***************************************************************************)
HeldPoses(name) ==
  { p.T_odom_sensor : p \in { q \in pending_waypoints : q.name = name } } \union
  UNION { { Mul(submap_references[i].T_odom_origin_sensor, w.T_submap_sensor) :
              i \in { j \in DOMAIN submap_references : submap_references[j].id = w.submap_id } }
            : w \in { v \in waypoints : v.name = name } }

Registry == INSTANCE TagRegistry WITH
  Places <- Pose,
  tags <- [n \in Names |-> HeldPoses(n)],
  answerable <- { n \in Names : Resolved(n) # {} }

\* Only add_waypoint changes what a name stands for: binding a pending tag,
\* inserting its submap and every loop closure leave the tagged place alone,
\* and an available answer stays available until the name is tagged afresh.
ImplementsRegistry == Registry!Spec

\* Hypothesis: after a tag the rover is driven on until the submaps have got
\* past the frame it was made at, and so again if it is made afresh.
DrivenPast(n) == []<>(tagged[n] # NoTag => tagged[n].stamp <= consumed)

\* If the rover is driven on, a tag can eventually be asked for, unless
\* sub-mapping left out the frame it was made at: neither a submap that finished
\* before the tag, nor one that finishes while it is made again, leaves it
\* "(pending)" for ever.
LeftOut(stamp) ==
  /\ stamp <= consumed
  /\ \A i \in DOMAIN submap_references : ~Spans(submap_references[i], stamp)

EveryTagIsAnswered ==
  \A n \in Names : DrivenPast(n) =>
    ((tagged[n] # NoTag) ~> (Resolved(n) # {} \/ (tagged[n] # NoTag /\ LeftOut(tagged[n].stamp))))

=============================================================================
