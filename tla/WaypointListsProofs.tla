------------------------- MODULE WaypointListsProofs -------------------------
(***************************************************************************)
(* Proofs about WaypointLists, for any names, poses and number of frames:  *)
(* the vectors behave as the sets of WaypointManager, although the loops   *)
(* erase from what they walk, and stay in the order the tags were made.    *)
(***************************************************************************)
EXTENDS WaypointLists, SelectionProofs

GridTypes ==
  /\ has_frame \in BOOLEAN
  /\ latest_frame_pose \in Pose
  /\ latest_frame_stamp \in Nat
  /\ submap_references \in Seq(Manager!SubmapReference)
  /\ DOMAIN submap_world_pose \subseteq Nat
  /\ submap_world_pose \in [DOMAIN submap_world_pose -> Pose]
  /\ consumed \in Nat

Logged == [name : Names, stamp : Nat, pose : Pose]
Marker == [name : Names, pose : Pose]

ListTypes ==
  /\ waypoints \in Seq(Manager!WaypointEntry)
  /\ pending_waypoints \in Seq(Manager!PendingWaypoint)
  /\ tag_log \in Seq(Logged)
  /\ shown \in Seq(Marker)

\* The history holds a name once.
OneTagPerName == \A e, f \in ToSet(tag_log) : e.name = f.name => e = f

\* Submaps hold every frame up to the last one consumed, one after the other.
SubmapsCover ==
  /\ \A i, j \in DOMAIN submap_references :
       i < j => submap_references[i].last_stamp < submap_references[j].first_stamp
  /\ \A i \in DOMAIN submap_references : submap_references[i].last_stamp <= consumed
  /\ \A stamp \in 1 .. consumed :
       \E i \in DOMAIN submap_references : Manager!Covers(submap_references[i], stamp)
  /\ consumed <= latest_frame_stamp
  /\ has_frame => latest_frame_stamp >= 1

\* Tags wait in the order they were made, for frames no submap holds.
NotLater ==
  {pair \in Manager!PendingWaypoint \X Manager!PendingWaypoint : pair[1].stamp <= pair[2].stamp}

PendingInOrder ==
  /\ \A p \in ToSet(pending_waypoints) : consumed < p.stamp /\ p.stamp <= latest_frame_stamp
  /\ InOrderBy(pending_waypoints, NotLater)

ListInv == GridTypes /\ ListTypes /\ OneTagPerName /\ SubmapsCover /\ PendingInOrder

-----------------------------------------------------------------------------
(***************************************************************************)
(* The scan for the submap of a frame.                                     *)
(***************************************************************************)

\* It finds one submap, or none.
LEMMA ScanFindsOne ==
  ASSUME NEW refs \in Seq(Manager!SubmapReference), NEW stamp \in Nat,
         NEW s \in Manager!SubmapForStamp(refs, stamp)
  PROVE  /\ s \in Manager!SubmapReference /\ Manager!Covers(s, stamp)
         /\ \E i \in DOMAIN refs : refs[i] = s
         /\ Manager!SubmapForStamp(refs, stamp) = {s}
<1>1. PICK i \in DOMAIN refs :
        /\ s = refs[i] /\ Manager!Covers(refs[i], stamp)
        /\ \A k \in DOMAIN refs : k > i => ~Manager!Covers(refs[k], stamp)
  BY DEF Manager!SubmapForStamp
<1>2. ASSUME NEW t \in Manager!SubmapForStamp(refs, stamp) PROVE t = s
  <2>1. PICK j \in DOMAIN refs :
          /\ t = refs[j] /\ Manager!Covers(refs[j], stamp)
          /\ \A k \in DOMAIN refs : k > j => ~Manager!Covers(refs[k], stamp)
    BY DEF Manager!SubmapForStamp
  <2>2. i \in Int /\ j \in Int
    OBVIOUS
  <2>3. i = j
    BY <1>1, <2>1, <2>2
  <2> QED
    BY <1>1, <2>1, <2>3
<1>3. s \in Manager!SubmapReference
  BY <1>1
<1> QED
  BY <1>1, <1>2, <1>3

\* It finds the submap that has the frame, if the submaps are in order.
LEMMA ScanFinds ==
  ASSUME NEW refs \in Seq(Manager!SubmapReference), NEW stamp \in Nat,
         \A i, j \in DOMAIN refs : i < j => refs[i].last_stamp < refs[j].first_stamp,
         NEW i \in DOMAIN refs, Manager!Covers(refs[i], stamp)
  PROVE  refs[i] \in Manager!SubmapForStamp(refs, stamp)
<1>1. ASSUME NEW k \in DOMAIN refs, k > i PROVE ~Manager!Covers(refs[k], stamp)
  <2>1. refs[i].last_stamp < refs[k].first_stamp
    BY <1>1
  <2>2. refs[i] \in Manager!SubmapReference /\ refs[k] \in Manager!SubmapReference
    OBVIOUS
  <2>3. refs[i].last_stamp \in Nat /\ refs[k].first_stamp \in Nat
    BY <2>2 DEF Manager!SubmapReference, Manager!Stamp
  <2> QED
    BY <2>1, <2>3 DEF Manager!Covers
<1> QED
  BY <1>1 DEF Manager!SubmapForStamp

\* What it binds is a bound entry, of the same name.
LEMMA BoundIsTyped ==
  ASSUME NEW name \in Names, NEW pose \in Pose, NEW s \in Manager!SubmapReference
  PROVE  /\ Manager!BoundEntry(name, pose, s) \in Manager!WaypointEntry
         /\ Manager!BoundEntry(name, pose, s).name = name
<1>1. s.T_odom_origin_sensor \in Pose /\ s.id \in Nat
  BY DEF Manager!SubmapReference, Manager!SubmapId
<1>2. Mul(Inv(s.T_odom_origin_sensor), pose) \in Pose
  BY <1>1, ListsAssumption
<1> QED
  BY <1>1, <1>2 DEF Manager!BoundEntry, Manager!WaypointEntry, Manager!SubmapId

-----------------------------------------------------------------------------
(***************************************************************************)
(* Erasing a name, and the history.                                        *)
(***************************************************************************)
LEMMA ErasedSet ==
  ASSUME NEW T, NEW entries \in Seq(T), NEW name
  PROVE  /\ EraseNamed(entries, name) \in Seq(T)
         /\ ToSet(EraseNamed(entries, name)) = Manager!EraseNamed(ToSet(entries), name)
<1> DEFINE S == {e \in ToSet(entries) : e.name # name}
<1>1. Kept(entries, S) \in Seq(T)
  BY KeptIsASeq
<1>2. ToSet(Kept(entries, S)) = ToSet(entries) \intersect S
  BY KeptEntries
<1> QED
  BY <1>1, <1>2 DEF EraseNamed, Manager!EraseNamed

\* The history of a name is its one entry.
LEMMA LastTagIs ==
  ASSUME NEW log \in Seq(Logged), \A e, f \in ToSet(log) : e.name = f.name => e = f, NEW name
  PROVE  /\ \A e \in ToSet(log) : e.name = name =>
              LastTag(log, name) = [stamp |-> e.stamp, pose |-> e.pose]
         /\ (\A e \in ToSet(log) : e.name # name) => LastTag(log, name) = NoTag
<1>1. ASSUME NEW e \in ToSet(log), e.name = name
      PROVE  LastTag(log, name) = [stamp |-> e.stamp, pose |-> e.pose]
  <2>1. PICK i \in DOMAIN log : log[i] = e
    BY DEF ToSet
  <2> DEFINE k == CHOOSE j \in DOMAIN log : log[j].name = name
  <2>2. k \in DOMAIN log /\ log[k].name = name
    BY <1>1, <2>1
  <2> HIDE DEF k
  <2>3. log[k] \in ToSet(log)
    BY <2>2 DEF ToSet
  <2>4. log[k] = e
    BY <1>1, <2>2, <2>3
  <2>5. LastTag(log, name) = [stamp |-> log[k].stamp, pose |-> log[k].pose]
    BY <1>1, <2>1 DEF LastTag, k
  <2> QED
    BY <2>4, <2>5
<1>2. ASSUME \A e \in ToSet(log) : e.name # name PROVE LastTag(log, name) = NoTag
  BY <1>2 DEF LastTag, ToSet
<1> QED
  BY <1>1, <1>2

-----------------------------------------------------------------------------
(***************************************************************************)
(* The operations on the vectors are those on sets.                        *)
(***************************************************************************)

\* A name is tagged again: its old entry goes, the new one comes last.
LEMMA LoggedAgain ==
  ASSUME ListTypes, OneTagPerName, NEW e \in Logged,
         tag_log' = Append(EraseNamed(tag_log, e.name), e)
  PROVE  /\ tag_log' \in Seq(Logged)
         /\ OneTagPerName'
         /\ [n \in Names |-> LastTag(tag_log, n)]'
              = [[n \in Names |-> LastTag(tag_log, n)] EXCEPT
                   ![e.name] = [stamp |-> e.stamp, pose |-> e.pose]]
<1> DEFINE rest == EraseNamed(tag_log, e.name)
           log == Append(rest, e)
<1>1. rest \in Seq(Logged) /\ ToSet(rest) = {d \in ToSet(tag_log) : d.name # e.name}
  BY ErasedSet DEF ListTypes, Manager!EraseNamed
<1> HIDE DEF rest
<1>2. log \in Seq(Logged) /\ ToSet(log) = ToSet(rest) \union {e}
  BY <1>1, SetOfAppend
<1> HIDE DEF log
<1>3. \A c, d \in ToSet(log) : c.name = d.name => c = d
  BY <1>1, <1>2 DEF OneTagPerName
<1>4. tag_log \in Seq(Logged) /\ \A c, d \in ToSet(tag_log) : c.name = d.name => c = d
  BY DEF ListTypes, OneTagPerName
<1>5. LastTag(log, e.name) = [stamp |-> e.stamp, pose |-> e.pose]
  <2>1. e \in ToSet(log)
    BY <1>2
  <2> QED
    BY <1>2, <1>3, <2>1, LastTagIs
<1>6. ASSUME NEW n \in Names, n # e.name PROVE LastTag(log, n) = LastTag(tag_log, n)
  <2>1. CASE \E d \in ToSet(tag_log) : d.name = n
    <3>1. PICK d \in ToSet(tag_log) : d.name = n
      BY <2>1
    <3>2. d \in ToSet(log)
      BY <1>1, <1>2, <1>6, <3>1
    <3>3. LastTag(log, n) = [stamp |-> d.stamp, pose |-> d.pose]
      BY <1>2, <1>3, <3>1, <3>2, LastTagIs
    <3>4. LastTag(tag_log, n) = [stamp |-> d.stamp, pose |-> d.pose]
      BY <1>4, <3>1, LastTagIs
    <3> QED
      BY <3>3, <3>4
  <2>2. CASE \A d \in ToSet(tag_log) : d.name # n
    <3>1. \A d \in ToSet(log) : d.name # n
      BY <1>1, <1>2, <1>6, <2>2
    <3>2. LastTag(log, n) = NoTag
      BY <1>2, <1>3, <3>1, LastTagIs
    <3>3. LastTag(tag_log, n) = NoTag
      BY <1>4, <2>2, LastTagIs
    <3> QED
      BY <3>2, <3>3
  <2> QED
    BY <2>1, <2>2
<1>7. tag_log' = log
  BY DEF log, rest
<1>8. e.name \in Names
  BY DEF Logged
<1>9. [n \in Names |-> LastTag(log, n)]
        = [[n \in Names |-> LastTag(tag_log, n)] EXCEPT
             ![e.name] = [stamp |-> e.stamp, pose |-> e.pose]]
  BY <1>5, <1>6, <1>8
<1> QED
  BY <1>2, <1>3, <1>7, <1>9 DEF OneTagPerName

-----------------------------------------------------------------------------
(***************************************************************************)
(* The names of a list, in its order.                                      *)
(***************************************************************************)
LEMMA NamesAreMapped ==
  ASSUME NEW T, \A e \in T : e.name \in Names, NEW s \in Seq(T)
  PROVE  /\ [e \in T |-> e.name] \in [T -> Names]
         /\ NamesInOrder(s) = Mapped(s, [e \in T |-> e.name])
         /\ NamesInOrder(s) \in Seq(Names)
<1> DEFINE g == [e \in T |-> e.name]
<1>1. g \in [T -> Names]
  OBVIOUS
<1>2. \A i \in DOMAIN s : g[s[i]] = s[i].name
  OBVIOUS
<1>3. NamesInOrder(s) = Mapped(s, g)
  BY <1>2 DEF NamesInOrder, Mapped
<1> HIDE DEF g
<1>4. Mapped(s, g) \in Seq(Names)
  BY <1>1, MappedIsASeq
<1> QED
  BY <1>1, <1>3, <1>4 DEF g

LEMMA NamesOfAppend ==
  ASSUME NEW T, \A e \in T : e.name \in Names, NEW s \in Seq(T), NEW e \in T
  PROVE  NamesInOrder(Append(s, e)) = Append(NamesInOrder(s), e.name)
<1>1. PICK g \in [T -> Names] : g = [d \in T |-> d.name]
  OBVIOUS
<1>2. PICK u \in Seq(T) : u = Append(s, e)
  BY AppendProperties
<1>3. NamesInOrder(s) = Mapped(s, g)
  BY <1>1, NamesAreMapped
<1>4. NamesInOrder(u) = Mapped(u, g)
  BY <1>1, NamesAreMapped
<1>5. Mapped(Append(s, e), g) = Append(Mapped(s, g), g[e])
  BY MappedOfAppend
<1>6. g[e] = e.name
  BY <1>1
<1> QED
  BY <1>2, <1>3, <1>4, <1>5, <1>6

LEMMA NamesOfConcat ==
  ASSUME NEW T, \A e \in T : e.name \in Names, NEW s \in Seq(T), NEW t \in Seq(T)
  PROVE  NamesInOrder(s \o t) = NamesInOrder(s) \o NamesInOrder(t)
<1>1. PICK g \in [T -> Names] : g = [d \in T |-> d.name]
  OBVIOUS
<1>2. PICK u \in Seq(T) : u = s \o t
  BY ConcatProperties
<1>3. NamesInOrder(s) = Mapped(s, g)
  BY <1>1, NamesAreMapped
<1>4. NamesInOrder(t) = Mapped(t, g)
  BY <1>1, NamesAreMapped
<1>5. NamesInOrder(u) = Mapped(u, g)
  BY <1>1, NamesAreMapped
<1>6. Mapped(s \o t, g) = Mapped(s, g) \o Mapped(t, g)
  BY MappedOfConcat
<1> QED
  BY <1>2, <1>3, <1>4, <1>5, <1>6

\* Erasing a name from a list erases it from the names.
LEMMA NamesErased ==
  ASSUME NEW T, \A e \in T : e.name \in Names, NEW s \in Seq(T), NEW name
  PROVE  NamesInOrder(EraseNamed(s, name)) = Kept(NamesInOrder(s), Names \ {name})
<1>1. PICK g \in [T -> Names] : g = [d \in T |-> d.name]
  OBVIOUS
<1>2. PICK S : S = {e \in T : e.name # name}
  OBVIOUS
<1>3. PICK R : R = {e \in ToSet(s) : e.name # name}
  OBVIOUS
<1>4. \A e \in ToSet(s) : e \in R <=> e \in S
  BY <1>2, <1>3 DEF ToSet
<1>5. Kept(s, R) = Kept(s, S)
  BY <1>4, KeptAlike
<1>6. EraseNamed(s, name) = Kept(s, S)
  BY <1>3, <1>5 DEF EraseNamed
<1>7. Kept(s, S) \in Seq(T)
  BY KeptIsASeq
<1>8. PICK k \in Seq(T) : k = Kept(s, S)
  BY <1>7
<1>9. NamesInOrder(k) = Mapped(k, g)
  BY <1>1, NamesAreMapped
<1>10. NamesInOrder(s) = Mapped(s, g)
  BY <1>1, NamesAreMapped
<1>11. PICK A : A = Names \ {name}
  OBVIOUS
<1>12. S = Chosen(T, g, A)
  BY <1>1, <1>2, <1>11 DEF Chosen
<1>13. Kept(Mapped(s, g), A) = Mapped(Kept(s, Chosen(T, g, A)), g)
  BY KeptOfMapped
<1> QED
  BY <1>6, <1>8, <1>9, <1>10, <1>11, <1>12, <1>13

\* All entries have names.
LEMMA EntriesAreNamed ==
  /\ \A e \in Manager!WaypointEntry : e.name \in Names
  /\ \A e \in Manager!PendingWaypoint : e.name \in Names
  /\ \A e \in Logged : e.name \in Names
BY DEF Manager!WaypointEntry, Manager!PendingWaypoint, Logged

-----------------------------------------------------------------------------
(***************************************************************************)
(* What a finished submap does to the list of pending tags.                *)
(***************************************************************************)

\* The tags it binds, and what they become.
FoundIn(refs, pending) ==
  {p \in ToSet(pending) : Manager!SubmapForStamp(refs, p.stamp) # {}}

BoundBy(refs, found) ==
  [p \in found |->
     Manager!BoundEntry(p.name, p.T_odom_sensor,
                        CHOOSE s \in Manager!SubmapForStamp(refs, p.stamp) : TRUE)]

BoundFrom(refs, found) == {BoundBy(refs, found)[p] : p \in found}

LEMMA BoundByTheScan ==
  ASSUME NEW refs \in Seq(Manager!SubmapReference),
         NEW pending \in Seq(Manager!PendingWaypoint),
         NEW p \in FoundIn(refs, pending)
  PROVE  LET b == BoundBy(refs, FoundIn(refs, pending))[p]
         IN  /\ b \in Manager!WaypointEntry /\ b.name = p.name
             /\ {Manager!BoundEntry(p.name, p.T_odom_sensor, s) :
                   s \in Manager!SubmapForStamp(refs, p.stamp)} = {b}
<1>1. p \in ToSet(pending) /\ Manager!SubmapForStamp(refs, p.stamp) # {}
  BY DEF FoundIn
<1>2. p \in Manager!PendingWaypoint
  BY <1>1 DEF ToSet
<1>3. p.name \in Names /\ p.stamp \in Nat /\ p.T_odom_sensor \in Pose
  BY <1>2 DEF Manager!PendingWaypoint, Manager!Stamp
<1>4. PICK s \in Manager!SubmapForStamp(refs, p.stamp) : TRUE
  BY <1>1
<1>5. s \in Manager!SubmapReference /\ Manager!SubmapForStamp(refs, p.stamp) = {s}
  BY <1>3, ScanFindsOne
<1>6. (CHOOSE t \in Manager!SubmapForStamp(refs, p.stamp) : TRUE) = s
  BY <1>5
<1>7. BoundBy(refs, FoundIn(refs, pending))[p] = Manager!BoundEntry(p.name, p.T_odom_sensor, s)
  BY <1>6 DEF BoundBy
<1>8. /\ Manager!BoundEntry(p.name, p.T_odom_sensor, s) \in Manager!WaypointEntry
      /\ Manager!BoundEntry(p.name, p.T_odom_sensor, s).name = p.name
  BY <1>3, <1>5, BoundIsTyped
<1>9. {Manager!BoundEntry(p.name, p.T_odom_sensor, t) : t \in {s}}
         = {Manager!BoundEntry(p.name, p.T_odom_sensor, s)}
  OBVIOUS
<1> QED
  BY <1>5, <1>7, <1>8, <1>9

\* The list of what it binds has the types, the entries and the names.
LEMMA BoundList ==
  ASSUME NEW refs \in Seq(Manager!SubmapReference),
         NEW pending \in Seq(Manager!PendingWaypoint),
         NEW found, found = FoundIn(refs, pending),
         NEW taken, taken = Kept(pending, found),
         NEW made, made = Mapped(taken, BoundBy(refs, found))
  PROVE  /\ taken \in Seq(Manager!PendingWaypoint) /\ ToSet(taken) = found
         /\ made \in Seq(Manager!WaypointEntry)
         /\ ToSet(made) = BoundFrom(refs, found)
         /\ NamesInOrder(made) = NamesInOrder(taken)
<1>1. PICK g : g = BoundBy(refs, found)
  OBVIOUS
<1>2. DOMAIN g = found
  BY <1>1 DEF BoundBy
<1>3. \A p \in found : g[p] \in Manager!WaypointEntry /\ g[p].name = p.name
  BY <1>1, BoundByTheScan
<1>4. g = [p \in found |-> g[p]]
  BY <1>1, <1>2 DEF BoundBy
<1>5. g \in [found -> Manager!WaypointEntry]
  BY <1>3, <1>4
<1>6. /\ Kept(pending, found) \in Seq(Manager!PendingWaypoint \intersect found)
      /\ ToSet(Kept(pending, found)) = ToSet(pending) \intersect found
  BY KeptEntries
<1>7. found \subseteq ToSet(pending) /\ found \subseteq Manager!PendingWaypoint
  BY DEF FoundIn, ToSet
<1>8. Manager!PendingWaypoint \intersect found = found /\ ToSet(pending) \intersect found = found
  BY <1>7
<1>9. taken \in Seq(found) /\ ToSet(taken) = found
  BY <1>6, <1>8
<1>10. Kept(pending, found) \in Seq(Manager!PendingWaypoint)
  BY KeptIsASeq
<1>11. Mapped(taken, g) \in Seq(Manager!WaypointEntry)
  BY <1>5, <1>9, MappedIsASeq
<1>12. ToSet(Mapped(taken, g)) = {g[p] : p \in ToSet(taken)}
  BY <1>9, MappedSet
<1>13. NamesInOrder(Mapped(taken, g)) = NamesInOrder(taken)
  <2>1. DOMAIN Mapped(taken, g) = DOMAIN taken
    BY DEF Mapped
  <2>2. ASSUME NEW i \in DOMAIN taken PROVE Mapped(taken, g)[i].name = taken[i].name
    <3>1. taken[i] \in found
      BY <1>9
    <3>2. Mapped(taken, g)[i] = g[taken[i]]
      BY DEF Mapped
    <3> QED
      BY <1>3, <3>1, <3>2
  <2> QED
    BY <2>1, <2>2 DEF NamesInOrder
<1> QED
  BY <1>1, <1>9, <1>10, <1>11, <1>12, <1>13 DEF BoundFrom

\* A submap of the next frames is one more submap in order.
LEMMA SubmapsGrow ==
  ASSUME GridTypes, SubmapsCover, NEW submap \in Manager!SubmapReference,
         submap.first_stamp = consumed + 1, submap.first_stamp <= submap.last_stamp,
         NEW refs, refs = Append(submap_references, submap)
  PROVE  /\ refs \in Seq(Manager!SubmapReference)
         /\ \A i, j \in DOMAIN refs : i < j => refs[i].last_stamp < refs[j].first_stamp
         /\ \A i \in DOMAIN refs : refs[i].last_stamp <= submap.last_stamp
         /\ \A stamp \in 1 .. submap.last_stamp :
              \E i \in DOMAIN refs : Manager!Covers(refs[i], stamp)
<1>1. PICK old \in Seq(Manager!SubmapReference) : old = submap_references
  BY DEF GridTypes
<1>2. PICK n \in Nat : n = Len(old)
  OBVIOUS
<1>3. refs \in Seq(Manager!SubmapReference)
  BY <1>1
<1>4. DOMAIN old = 1 .. n /\ DOMAIN refs = 1 .. n + 1
  BY <1>1, <1>2
<1>5. refs[n + 1] = submap /\ \A i \in 1 .. n : refs[i] = old[i]
  BY <1>1, <1>2
<1>6. /\ \A i, j \in 1 .. n : i < j => old[i].last_stamp < old[j].first_stamp
      /\ \A i \in 1 .. n : old[i].last_stamp <= consumed
      /\ \A stamp \in 1 .. consumed : \E i \in 1 .. n : Manager!Covers(old[i], stamp)
  BY <1>1, <1>4 DEF SubmapsCover
<1>7. consumed \in Nat /\ submap.first_stamp \in Nat /\ submap.last_stamp \in Nat
  BY DEF GridTypes, Manager!SubmapReference, Manager!Stamp
<1>8. \A i \in 1 .. n : old[i].last_stamp \in Nat
  <2>1. \A i \in 1 .. n : old[i] \in Manager!SubmapReference
    BY <1>4
  <2> QED
    BY <2>1 DEF Manager!SubmapReference, Manager!Stamp
<1>12. \A i \in 1 .. n + 1 : i \in 1 .. n \/ i = n + 1
  OBVIOUS
<1>13. n + 1 \in 1 .. n + 1 /\ \A i \in 1 .. n : i \in 1 .. n + 1 /\ i < n + 1
  OBVIOUS
<1>9. ASSUME NEW i \in 1 .. n + 1, NEW j \in 1 .. n + 1, i < j
      PROVE  refs[i].last_stamp < refs[j].first_stamp
  <2>1. CASE j \in 1 .. n
    <3>1. i \in 1 .. n
      BY <1>9, <2>1
    <3>2. refs[i] = old[i] /\ refs[j] = old[j]
      BY <1>5, <2>1, <3>1
    <3> QED
      BY <1>6, <1>9, <2>1, <3>1, <3>2
  <2>2. CASE j = n + 1
    <3>1. i \in 1 .. n
      BY <1>9, <2>2
    <3>2. refs[i] = old[i] /\ refs[j] = submap
      BY <1>5, <2>2, <3>1
    <3>3. old[i].last_stamp <= consumed /\ old[i].last_stamp \in Nat
      BY <1>6, <1>8, <3>1
    <3> QED
      BY <1>7, <3>2, <3>3
  <2> QED
    BY <1>12, <2>1, <2>2
<1>10. ASSUME NEW i \in 1 .. n + 1 PROVE refs[i].last_stamp <= submap.last_stamp
  <2>1. CASE i \in 1 .. n
    <3>1. refs[i] = old[i] /\ old[i].last_stamp <= consumed /\ old[i].last_stamp \in Nat
      BY <1>5, <1>6, <1>8, <2>1
    <3> QED
      BY <1>7, <3>1
  <2>2. CASE i = n + 1
    <3>1. refs[i] = submap
      BY <1>5, <2>2
    <3>2. submap.last_stamp <= submap.last_stamp
      BY <1>7
    <3> QED
      BY <3>1, <3>2
  <2> QED
    BY <1>12, <2>1, <2>2
<1>11. ASSUME NEW stamp \in 1 .. submap.last_stamp
       PROVE  \E i \in 1 .. n + 1 : Manager!Covers(refs[i], stamp)
  <2>1. CASE stamp <= consumed
    <3>1. stamp \in 1 .. consumed
      BY <1>7, <2>1
    <3>2. PICK i \in 1 .. n : Manager!Covers(old[i], stamp)
      BY <1>6, <3>1
    <3>3. i \in 1 .. n + 1 /\ refs[i] = old[i]
      BY <1>5, <1>13
    <3> QED
      BY <3>2, <3>3
  <2>2. CASE ~(stamp <= consumed)
    <3>1. Manager!Covers(submap, stamp)
      BY <1>7, <2>2 DEF Manager!Covers
    <3> QED
      BY <1>5, <1>13, <3>1
  <2> QED
    BY <2>1, <2>2
<1> QED
  BY <1>3, <1>4, <1>9, <1>10, <1>11

\* It binds the tags of its frames: those up to its last one.
LEMMA FoundAreFirst ==
  ASSUME GridTypes, ListTypes, SubmapsCover, PendingInOrder,
         NEW submap \in Manager!SubmapReference,
         submap.first_stamp = consumed + 1, submap.first_stamp <= submap.last_stamp,
         NEW refs, refs = Append(submap_references, submap),
         NEW p \in ToSet(pending_waypoints)
  PROVE  p \in FoundIn(refs, pending_waypoints) <=> p.stamp <= submap.last_stamp
<1>1. /\ refs \in Seq(Manager!SubmapReference)
      /\ \A i, j \in DOMAIN refs : i < j => refs[i].last_stamp < refs[j].first_stamp
      /\ \A i \in DOMAIN refs : refs[i].last_stamp <= submap.last_stamp
      /\ \A stamp \in 1 .. submap.last_stamp :
           \E i \in DOMAIN refs : Manager!Covers(refs[i], stamp)
  BY SubmapsGrow
<1>2. p \in Manager!PendingWaypoint
  BY DEF ListTypes, ToSet
<1>3. p.stamp \in Nat /\ consumed \in Nat /\ submap.last_stamp \in Nat /\ consumed < p.stamp
  BY <1>2 DEF GridTypes, PendingInOrder, Manager!PendingWaypoint, Manager!SubmapReference,
              Manager!Stamp
<1>4. ASSUME p.stamp <= submap.last_stamp
      PROVE  Manager!SubmapForStamp(refs, p.stamp) # {}
  <2>1. p.stamp \in 1 .. submap.last_stamp
    BY <1>3, <1>4
  <2>2. PICK i \in DOMAIN refs : Manager!Covers(refs[i], p.stamp)
    BY <1>1, <2>1
  <2>3. refs[i] \in Manager!SubmapForStamp(refs, p.stamp)
    BY <1>1, <1>3, <2>2, ScanFinds
  <2> QED
    BY <2>3
<1>5. ASSUME Manager!SubmapForStamp(refs, p.stamp) # {}
      PROVE  p.stamp <= submap.last_stamp
  <2>1. PICK s \in Manager!SubmapForStamp(refs, p.stamp) : TRUE
    BY <1>5
  <2>2. Manager!Covers(s, p.stamp) /\ s \in Manager!SubmapReference
    BY <1>1, <1>3, <2>1, ScanFindsOne
  <2>3. PICK i \in DOMAIN refs : refs[i] = s
    BY <1>1, <1>3, <2>1, ScanFindsOne
  <2>4. s.last_stamp <= submap.last_stamp
    BY <1>1, <2>3
  <2>5. s.last_stamp \in Nat
    BY <2>2 DEF Manager!SubmapReference, Manager!Stamp
  <2>6. p.stamp <= s.last_stamp
    BY <2>2 DEF Manager!Covers
  <2> QED
    BY <1>3, <2>4, <2>5, <2>6
<1> QED
  BY <1>4, <1>5 DEF FoundIn

\* What is bound and what stays, one after the other, are the list as it was.
LEMMA FoundAreAhead ==
  ASSUME GridTypes, ListTypes, SubmapsCover, PendingInOrder,
         NEW submap \in Manager!SubmapReference,
         submap.first_stamp = consumed + 1, submap.first_stamp <= submap.last_stamp,
         NEW refs, refs = Append(submap_references, submap),
         NEW found, found = FoundIn(refs, pending_waypoints)
  PROVE  Kept(pending_waypoints, found)
           \o Kept(pending_waypoints, ToSet(pending_waypoints) \ found) = pending_waypoints
<1>1. PICK s \in Seq(Manager!PendingWaypoint) : s = pending_waypoints
  BY DEF ListTypes
<1>2. \A p \in ToSet(s) : p \in found <=> p.stamp <= submap.last_stamp
  BY <1>1, FoundAreFirst
<1>3. submap.last_stamp \in Nat
  BY DEF Manager!SubmapReference, Manager!Stamp
<1>4. ASSUME NEW i \in DOMAIN s, NEW j \in DOMAIN s, i < j, s[j] \in found PROVE s[i] \in found
  <2>1. s[i] \in ToSet(s) /\ s[j] \in ToSet(s)
    BY DEF ToSet
  <2>2. s[i] \in Manager!PendingWaypoint /\ s[j] \in Manager!PendingWaypoint
    OBVIOUS
  <2>3. s[i].stamp \in Nat /\ s[j].stamp \in Nat
    BY <2>2 DEF Manager!PendingWaypoint, Manager!Stamp
  <2>4. <<s[i], s[j]>> \in NotLater
    BY <1>1, <1>4 DEF PendingInOrder, InOrderBy
  <2>5. s[i].stamp <= s[j].stamp
    BY <2>4 DEF NotLater
  <2>6. s[j].stamp <= submap.last_stamp
    BY <1>2, <1>4, <2>1
  <2>7. s[i].stamp <= submap.last_stamp
    BY <1>3, <2>3, <2>5, <2>6
  <2> QED
    BY <1>2, <2>1, <2>7
<1>5. Kept(s, found) \o Kept(s, Manager!PendingWaypoint \ found) = s
  BY <1>4, KeptApart
<1>6. PICK R, S : R = ToSet(s) \ found /\ S = Manager!PendingWaypoint \ found
  OBVIOUS
<1>7. \A e \in ToSet(s) : e \in S <=> e \in R
  BY <1>6 DEF ToSet
<1>8. Kept(s, S) = Kept(s, R)
  BY <1>7, KeptAlike
<1> QED
  BY <1>1, <1>5, <1>6, <1>8

-----------------------------------------------------------------------------
(***************************************************************************)
(* A finished submap.                                                      *)
(***************************************************************************)
NewSubmap(first, last, origin) ==
  [id |-> Len(submap_references), first_stamp |-> first, last_stamp |-> last,
   T_odom_origin_sensor |-> origin]

\* The vectors keep their types, the tags that still wait their order, and all
\* the names the order they are listed in.
LEMMA NewSubmapKeeps ==
  ASSUME ListInv, NEW first \in 1 .. MaxStamp, NEW last \in 1 .. MaxStamp,
         NEW origin \in OdomPoses, OnNewSubmap(first, last, origin)
  PROVE  ListInv' /\ ListedNames' = ListedNames /\ Manager!OnNewSubmap(first, last, origin)
<1>1. PICK submap : submap = NewSubmap(first, last, origin)
  OBVIOUS
<1>2. PICK refs : refs = Append(submap_references, submap)
  OBVIOUS
<1>3. PICK found : found = FoundIn(refs, pending_waypoints)
  OBVIOUS
<1>4. PICK taken : taken = Kept(pending_waypoints, found)
  OBVIOUS
<1>5. PICK made : made = Mapped(taken, BoundBy(refs, found))
  OBVIOUS
<1>6. /\ submap \in Manager!SubmapReference
      /\ submap.first_stamp = consumed + 1 /\ submap.first_stamp <= submap.last_stamp
      /\ submap.last_stamp = last /\ last <= latest_frame_stamp /\ last \in Nat
      /\ submap_references' = refs /\ consumed' = last
      /\ waypoints' = waypoints \o made
      /\ pending_waypoints' = Kept(pending_waypoints, ToSet(pending_waypoints) \ found)
  <2>1. Len(submap_references) \in Nat
    BY DEF ListInv, GridTypes
  <2>2. first \in Nat /\ last \in Nat /\ origin \in Pose
    BY ListsAssumption
  <2>3. submap \in Manager!SubmapReference
    BY <1>1, <2>1, <2>2 DEF NewSubmap, Manager!SubmapReference, Manager!SubmapId, Manager!Stamp
  <2>4. submap.first_stamp = first /\ submap.last_stamp = last
    BY <1>1 DEF NewSubmap
  <2>5. /\ first = consumed + 1 /\ first <= last /\ last <= latest_frame_stamp
        /\ consumed' = last
    BY DEF OnNewSubmap
  <2>6. submap_references' = refs
    BY <1>1, <1>2 DEF OnNewSubmap, NewSubmap
  <2>7. waypoints' = waypoints \o made
    BY <1>1, <1>2, <1>3, <1>4, <1>5 DEF OnNewSubmap, NewSubmap, FoundIn, BoundBy
  <2>8. pending_waypoints' = Kept(pending_waypoints, ToSet(pending_waypoints) \ found)
    BY <1>1, <1>2, <1>3 DEF OnNewSubmap, NewSubmap, FoundIn, BoundBy
  <2> QED
    BY <2>2, <2>3, <2>4, <2>5, <2>6, <2>7, <2>8
<1>7. UNCHANGED <<has_frame, latest_frame_pose, latest_frame_stamp, submap_world_pose, tag_log,
                  shown>>
  BY DEF OnNewSubmap
<1>8. GridTypes /\ ListTypes /\ OneTagPerName /\ SubmapsCover /\ PendingInOrder
  BY DEF ListInv
<1>9. /\ refs \in Seq(Manager!SubmapReference)
      /\ \A i, j \in DOMAIN refs : i < j => refs[i].last_stamp < refs[j].first_stamp
      /\ \A i \in DOMAIN refs : refs[i].last_stamp <= last
      /\ \A stamp \in 1 .. last : \E i \in DOMAIN refs : Manager!Covers(refs[i], stamp)
  BY <1>2, <1>6, <1>8, SubmapsGrow
<1>10. PICK ws \in Seq(Manager!WaypointEntry) : ws = waypoints
  BY <1>8 DEF ListTypes
<1>11. PICK ps \in Seq(Manager!PendingWaypoint) : ps = pending_waypoints
  BY <1>8 DEF ListTypes
<1>12. /\ taken \in Seq(Manager!PendingWaypoint) /\ ToSet(taken) = found
       /\ made \in Seq(Manager!WaypointEntry)
       /\ ToSet(made) = BoundFrom(refs, found)
       /\ NamesInOrder(made) = NamesInOrder(taken)
  BY <1>3, <1>4, <1>5, <1>9, <1>11, BoundList
<1>13. PICK left \in Seq(Manager!PendingWaypoint) : left = Kept(ps, ToSet(ps) \ found)
  BY KeptIsASeq
<1>14. waypoints' \in Seq(Manager!WaypointEntry) /\ pending_waypoints' = left
  BY <1>6, <1>10, <1>11, <1>12, <1>13, ConcatProperties
<1>15. GridTypes'
  BY <1>6, <1>7, <1>8, <1>9 DEF GridTypes
<1>16. ListTypes'
  BY <1>7, <1>8, <1>13, <1>14 DEF ListTypes
<1>17. OneTagPerName'
  BY <1>7, <1>8 DEF OneTagPerName
<1>18. SubmapsCover'
  BY <1>6, <1>7, <1>8, <1>9 DEF SubmapsCover
<1>19. PendingInOrder'
  <2>1. InOrderBy(ps, NotLater) /\ \A p \in ToSet(ps) : p.stamp <= latest_frame_stamp
    BY <1>8, <1>11 DEF PendingInOrder
  <2>2. InOrderBy(left, NotLater)
    BY <1>13, <2>1, KeptInOrder
  <2>3. ToSet(left) = ToSet(ps) \intersect (ToSet(ps) \ found)
    BY <1>13, KeptEntries
  <2>4. ASSUME NEW p \in ToSet(left) PROVE last < p.stamp /\ p.stamp <= latest_frame_stamp
    <3>1. p \in ToSet(ps) /\ p \notin found
      BY <2>3
    <3>2. ~(p.stamp <= last)
      BY <1>2, <1>3, <1>6, <1>8, <1>11, <3>1, FoundAreFirst
    <3>3. p \in Manager!PendingWaypoint
      BY <3>1 DEF ToSet
    <3>4. p.stamp \in Nat
      BY <3>3 DEF Manager!PendingWaypoint, Manager!Stamp
    <3>5. last < p.stamp
      BY <1>6, <3>2, <3>4
    <3> QED
      BY <2>1, <3>1, <3>5
  <2>5. NotLater' = NotLater
    BY DEF NotLater, Manager!PendingWaypoint
  <2> QED
    BY <1>6, <1>7, <1>14, <2>2, <2>4, <2>5 DEF PendingInOrder
<1>20. ListedNames' = ListedNames
  <2>1. taken \o left = ps
    BY <1>2, <1>3, <1>4, <1>6, <1>8, <1>11, <1>13, FoundAreAhead
  <2>2. /\ \A e \in Manager!WaypointEntry : e.name \in Names
        /\ \A e \in Manager!PendingWaypoint : e.name \in Names
    BY EntriesAreNamed
  <2>3. NamesInOrder(ws \o made) = NamesInOrder(ws) \o NamesInOrder(made)
    BY <1>12, <2>2, NamesOfConcat
  <2>4. NamesInOrder(taken \o left) = NamesInOrder(taken) \o NamesInOrder(left)
    BY <1>12, <2>2, NamesOfConcat
  <2>5. PICK a \in Seq(Names), b \in Seq(Names), c \in Seq(Names) :
          a = NamesInOrder(ws) /\ b = NamesInOrder(taken) /\ c = NamesInOrder(left)
    BY <1>12, <2>2, NamesAreMapped
  <2>6. (a \o b) \o c = a \o (b \o c)
    OBVIOUS
  <2>7. ListedNames' = NamesInOrder(ws \o made) \o NamesInOrder(left)
    BY <1>6, <1>10, <1>14 DEF ListedNames, NamesInOrder
  <2>8. ListedNames = NamesInOrder(ws) \o NamesInOrder(ps)
    BY <1>10, <1>11 DEF ListedNames
  <2> QED
    BY <1>12, <2>1, <2>3, <2>4, <2>5, <2>6, <2>7, <2>8
<1>21. Manager!OnNewSubmap(first, last, origin)
  <2>1. Manager!Bindable(refs) = found
    BY <1>3 DEF Manager!Bindable, FoundIn
  <2>2. PICK g : g = BoundBy(refs, found)
    OBVIOUS
  <2>3. \A p \in found :
          {Manager!BoundEntry(p.name, p.T_odom_sensor, s) :
             s \in Manager!SubmapForStamp(refs, p.stamp)} = {g[p]}
    BY <1>3, <1>9, <1>11, <2>2, BoundByTheScan
  <2>4. ASSUME NEW b PROVE b \in Manager!NewlyBound(refs) <=> \E p \in found : b = g[p]
    <3>1. b \in Manager!NewlyBound(refs)
            <=> \E p \in found : b \in {Manager!BoundEntry(p.name, p.T_odom_sensor, s) :
                                       s \in Manager!SubmapForStamp(refs, p.stamp)}
      BY <2>1 DEF Manager!NewlyBound
    <3> QED
      BY <2>3, <3>1
  <2>5. Manager!NewlyBound(refs) = ToSet(made)
    BY <1>12, <2>2, <2>4 DEF BoundFrom
  <2>6. ToSet(ws \o made) = ToSet(ws) \union ToSet(made)
    BY <1>12, SetOfConcat
  <2>7. ToSet(waypoints)' = ToSet(waypoints) \union Manager!NewlyBound(refs)
    BY <1>6, <1>10, <2>5, <2>6 DEF ToSet
  <2>8. ToSet(left) = ToSet(ps) \intersect (ToSet(ps) \ found)
    BY <1>13, KeptEntries
  <2>9. ToSet(pending_waypoints)' = ToSet(pending_waypoints) \ Manager!Bindable(refs)
    BY <1>11, <1>14, <2>1, <2>8 DEF ToSet
  <2>10. [n \in Names |-> LastTag(tag_log, n)]' = [n \in Names |-> LastTag(tag_log, n)]
    BY <1>7 DEF LastTag
  <2>11. /\ consumed < first /\ first <= last /\ last <= latest_frame_stamp
         /\ consumed' = last
    <3>1. /\ first = consumed + 1 /\ first <= last /\ last <= latest_frame_stamp
          /\ consumed' = last
      BY DEF OnNewSubmap
    <3>2. consumed \in Nat
      BY <1>8 DEF GridTypes
    <3> QED
      BY <3>1, <3>2
  <2>12. submap_references' = Append(submap_references,
           [id |-> Len(submap_references), first_stamp |-> first, last_stamp |-> last,
            T_odom_origin_sensor |-> origin])
    BY <1>1, <1>2, <1>6 DEF NewSubmap
  <2>13. refs = Append(submap_references,
           [id |-> Len(submap_references), first_stamp |-> first, last_stamp |-> last,
            T_odom_origin_sensor |-> origin])
    BY <1>1, <1>2 DEF NewSubmap
  <2> QED
    BY <1>7, <2>7, <2>9, <2>10, <2>11, <2>12, <2>13
    DEF Manager!OnNewSubmap, Manager!frameVars
<1> QED
  BY <1>15, <1>16, <1>17, <1>18, <1>19, <1>20, <1>21 DEF ListInv

-----------------------------------------------------------------------------
(***************************************************************************)
(* A tag.                                                                  *)
(***************************************************************************)

\* Whether the newest frame is in a finished submap.
LEMMA TaggedInside ==
  ASSUME GridTypes, ListTypes, SubmapsCover, PendingInOrder,
         NEW s \in Manager!SubmapForStamp(submap_references, latest_frame_stamp)
  PROVE  /\ s \in Manager!SubmapReference
         /\ Manager!SubmapForStamp(submap_references, latest_frame_stamp) = {s}
         /\ pending_waypoints = <<>>
<1>1. /\ submap_references \in Seq(Manager!SubmapReference) /\ latest_frame_stamp \in Nat
      /\ consumed \in Nat
  BY DEF GridTypes
<1>2. /\ s \in Manager!SubmapReference /\ Manager!Covers(s, latest_frame_stamp)
      /\ Manager!SubmapForStamp(submap_references, latest_frame_stamp) = {s}
  BY <1>1, ScanFindsOne
<1>3. PICK i \in DOMAIN submap_references : submap_references[i] = s
  BY <1>1, ScanFindsOne
<1>4. s.last_stamp <= consumed
  BY <1>3 DEF SubmapsCover
<1>5. s.last_stamp \in Nat
  BY <1>2 DEF Manager!SubmapReference, Manager!Stamp
<1>6. latest_frame_stamp <= consumed
  BY <1>1, <1>2, <1>4, <1>5 DEF Manager!Covers
<1>7. PICK ps \in Seq(Manager!PendingWaypoint) : ps = pending_waypoints
  BY DEF ListTypes
<1>8. ASSUME ps # <<>> PROVE FALSE
  <2>1. ps[1] \in ToSet(ps) /\ ps[1] \in Manager!PendingWaypoint
    BY <1>8 DEF ToSet
  <2>2. consumed < ps[1].stamp /\ ps[1].stamp <= latest_frame_stamp
    BY <1>7, <2>1 DEF PendingInOrder
  <2>3. ps[1].stamp \in Nat
    BY <2>1 DEF Manager!PendingWaypoint, Manager!Stamp
  <2> QED
    BY <1>1, <1>6, <2>2, <2>3
<1> QED
  BY <1>2, <1>7, <1>8

LEMMA TaggedOutside ==
  ASSUME GridTypes, SubmapsCover, has_frame,
         Manager!SubmapForStamp(submap_references, latest_frame_stamp) = {}
  PROVE  consumed < latest_frame_stamp
<1>1. /\ submap_references \in Seq(Manager!SubmapReference) /\ latest_frame_stamp \in Nat
      /\ consumed \in Nat
  BY DEF GridTypes
<1>2. latest_frame_stamp >= 1
  BY DEF SubmapsCover
<1>3. ASSUME latest_frame_stamp <= consumed PROVE FALSE
  <2>1. latest_frame_stamp \in 1 .. consumed
    BY <1>1, <1>2, <1>3
  <2>2. PICK i \in DOMAIN submap_references :
          Manager!Covers(submap_references[i], latest_frame_stamp)
    BY <2>1 DEF SubmapsCover
  <2>3. \A k, j \in DOMAIN submap_references :
          k < j => submap_references[k].last_stamp < submap_references[j].first_stamp
    BY DEF SubmapsCover
  <2>4. submap_references[i] \in Manager!SubmapForStamp(submap_references, latest_frame_stamp)
    BY <1>1, <2>2, <2>3, ScanFinds
  <2> QED
    BY <2>4
<1> QED
  BY <1>1, <1>3

\* The tag as each of the three lists records it.
TagIn(name) ==
  [name |-> name, stamp |-> latest_frame_stamp, T_odom_sensor |-> latest_frame_pose]

LogOf(name) == [name |-> name, stamp |-> latest_frame_stamp, pose |-> latest_frame_pose]

LEMMA TagsAreTyped ==
  ASSUME GridTypes, NEW name \in Names
  PROVE  /\ TagIn(name) \in Manager!PendingWaypoint /\ TagIn(name).name = name
         /\ TagIn(name).stamp = latest_frame_stamp
         /\ LogOf(name) \in Logged /\ LogOf(name).name = name
BY DEF GridTypes, TagIn, LogOf, Logged, Manager!PendingWaypoint, Manager!Stamp

\* Erasing keeps the order of those that wait.
LEMMA WaitingInOrder ==
  ASSUME PendingInOrder, ListTypes, NEW name,
         NEW waiting, waiting = EraseNamed(pending_waypoints, name)
  PROVE  /\ waiting \in Seq(Manager!PendingWaypoint)
         /\ InOrderBy(waiting, NotLater)
         /\ ToSet(waiting) \subseteq ToSet(pending_waypoints)
<1>1. PICK ps \in Seq(Manager!PendingWaypoint) : ps = pending_waypoints
  BY DEF ListTypes
<1>2. PICK S : S = {e \in ToSet(ps) : e.name # name}
  OBVIOUS
<1>3. waiting = Kept(ps, S)
  BY <1>1, <1>2 DEF EraseNamed
<1>4. InOrderBy(ps, NotLater)
  BY <1>1 DEF PendingInOrder
<1>5. InOrderBy(Kept(ps, S), NotLater)
  BY <1>4, KeptInOrder
<1>6. Kept(ps, S) \in Seq(Manager!PendingWaypoint)
  BY KeptIsASeq
<1>7. ToSet(Kept(ps, S)) = ToSet(ps) \intersect S
  BY KeptEntries
<1> QED
  BY <1>1, <1>3, <1>5, <1>6, <1>7

\* A list that loses a name and gains it at its end, as its names see it.
LEMMA NamesTaggedAgain ==
  ASSUME NEW T, \A e \in T : e.name \in Names, NEW s \in Seq(T), NEW e \in T,
         NEW name, e.name = name
  PROVE  NamesInOrder(Append(EraseNamed(s, name), e))
           = Append(Kept(NamesInOrder(s), Names \ {name}), name)
<1>1. PICK r \in Seq(T) : r = EraseNamed(s, name)
  BY ErasedSet
<1>2. NamesInOrder(Append(r, e)) = Append(NamesInOrder(r), e.name)
  BY NamesOfAppend
<1>3. NamesInOrder(EraseNamed(s, name)) = Kept(NamesInOrder(s), Names \ {name})
  BY NamesErased
<1> QED
  BY <1>1, <1>2, <1>3

\* Its submap is finished: it is bound at once, and no other tag waits.
LEMMA AddBound ==
  ASSUME ListInv, NEW name \in Names, AddWaypoint(name),
         NEW s \in Manager!SubmapForStamp(submap_references, latest_frame_stamp)
  PROVE  /\ waypoints' \in Seq(Manager!WaypointEntry)
         /\ pending_waypoints' = <<>>
         /\ ToSet(waypoints)' = Manager!EraseNamed(ToSet(waypoints), name) \union
              {Manager!BoundEntry(name, latest_frame_pose, t) :
                 t \in Manager!SubmapForStamp(submap_references, latest_frame_stamp)}
         /\ ToSet(pending_waypoints)' = Manager!EraseNamed(ToSet(pending_waypoints), name)
         /\ ListedNames' = Append(Kept(ListedNames, Names \ {name}), name)
<1>1. GridTypes /\ ListTypes /\ SubmapsCover /\ PendingInOrder
  BY DEF ListInv
<1>2. /\ s \in Manager!SubmapReference
      /\ Manager!SubmapForStamp(submap_references, latest_frame_stamp) = {s}
      /\ pending_waypoints = <<>>
  BY <1>1, TaggedInside
<1>3. PICK b : b = Manager!BoundEntry(name, latest_frame_pose, s)
  OBVIOUS
<1>4. latest_frame_pose \in Pose
  BY <1>1 DEF GridTypes
<1>5. b \in Manager!WaypointEntry /\ b.name = name
  BY <1>2, <1>3, <1>4, BoundIsTyped
<1>6. (CHOOSE t \in Manager!SubmapForStamp(submap_references, latest_frame_stamp) : TRUE) = s
  BY <1>2
<1>7. /\ waypoints' = Append(EraseNamed(waypoints, name), b)
      /\ pending_waypoints' = EraseNamed(pending_waypoints, name)
  BY <1>2, <1>3, <1>6 DEF AddWaypoint
<1>8. PICK ws \in Seq(Manager!WaypointEntry) : ws = waypoints
  BY <1>1 DEF ListTypes
<1>9. PICK others \in Seq(Manager!WaypointEntry) : others = EraseNamed(ws, name)
  BY ErasedSet
<1>10. ToSet(others) = Manager!EraseNamed(ToSet(ws), name)
  BY <1>9, ErasedSet
<1>11. waypoints' = Append(others, b)
  BY <1>7, <1>8, <1>9
<1>12. pending_waypoints' = <<>>
  <2>1. Kept(<<>>, {e \in ToSet(<<>>) : e.name # name}) = <<>>
    BY KeptOfNothing
  <2> QED
    BY <1>2, <1>7, <2>1 DEF EraseNamed
<1>13. ToSet(Append(others, b)) = ToSet(others) \union {b}
  BY <1>5, SetOfAppend
<1>14. ToSet(waypoints)' = Manager!EraseNamed(ToSet(waypoints), name) \union
         {Manager!BoundEntry(name, latest_frame_pose, t) :
            t \in Manager!SubmapForStamp(submap_references, latest_frame_stamp)}
  <2>1. {Manager!BoundEntry(name, latest_frame_pose, t) :
           t \in Manager!SubmapForStamp(submap_references, latest_frame_stamp)} = {b}
    BY <1>2, <1>3
  <2>2. ToSet(waypoints)' = ToSet(Append(others, b))
    BY <1>11 DEF ToSet
  <2> QED
    BY <1>8, <1>10, <1>13, <2>1, <2>2
<1>15. ToSet(pending_waypoints)' = Manager!EraseNamed(ToSet(pending_waypoints), name)
  BY <1>2, <1>12 DEF ToSet, Manager!EraseNamed
<1>16. ListedNames' = Append(Kept(ListedNames, Names \ {name}), name)
  <2>1. PICK ns \in Seq(Names) : ns = NamesInOrder(ws)
    BY NamesAreMapped, EntriesAreNamed
  <2>2. NamesInOrder(<<>>) = <<>>
    BY DEF NamesInOrder
  <2>3. ns \o <<>> = ns
    OBVIOUS
  <2>4. ListedNames = ns
    BY <1>2, <1>8, <2>1, <2>2, <2>3 DEF ListedNames
  <2>5. PICK us \in Seq(Names) : us = NamesInOrder(Append(others, b))
    <3>1. Append(others, b) \in Seq(Manager!WaypointEntry)
      BY <1>5
    <3> QED
      BY <3>1, NamesAreMapped, EntriesAreNamed
  <2>6. us \o <<>> = us
    OBVIOUS
  <2>7. ListedNames' = us
    BY <1>11, <1>12, <2>2, <2>5, <2>6 DEF ListedNames, NamesInOrder
  <2>8. NamesInOrder(Append(EraseNamed(ws, name), b))
          = Append(Kept(NamesInOrder(ws), Names \ {name}), name)
    BY <1>5, NamesTaggedAgain, EntriesAreNamed
  <2> QED
    BY <1>9, <2>1, <2>4, <2>5, <2>7, <2>8
<1>17. waypoints' \in Seq(Manager!WaypointEntry)
  BY <1>5, <1>11
<1> QED
  BY <1>12, <1>14, <1>15, <1>16, <1>17

\* It is not: the tag waits, behind those that wait already.
LEMMA AddPending ==
  ASSUME ListInv, NEW name \in Names, AddWaypoint(name),
         Manager!SubmapForStamp(submap_references, latest_frame_stamp) = {}
  PROVE  /\ waypoints' \in Seq(Manager!WaypointEntry)
         /\ pending_waypoints' \in Seq(Manager!PendingWaypoint)
         /\ InOrderBy(pending_waypoints', NotLater)
         /\ \A p \in ToSet(pending_waypoints)' :
              consumed < p.stamp /\ p.stamp <= latest_frame_stamp
         /\ ToSet(waypoints)' = Manager!EraseNamed(ToSet(waypoints), name)
         /\ ToSet(pending_waypoints)'
              = Manager!EraseNamed(ToSet(pending_waypoints), name) \union {TagIn(name)}
         /\ ListedNames' = Append(Kept(ListedNames, Names \ {name}), name)
<1>1. GridTypes /\ ListTypes /\ SubmapsCover /\ PendingInOrder
  BY DEF ListInv
<1>2. has_frame
  BY DEF AddWaypoint, Manager!AddWaypointAccepts
<1>3. consumed < latest_frame_stamp
  BY <1>1, <1>2, TaggedOutside
<1>4. PICK q \in Manager!PendingWaypoint : q = TagIn(name)
  BY <1>1, TagsAreTyped
<1>5. q.name = name /\ q.stamp = latest_frame_stamp
  BY <1>1, <1>4, TagsAreTyped
<1>6. PICK ws \in Seq(Manager!WaypointEntry) : ws = waypoints
  BY <1>1 DEF ListTypes
<1>7. PICK ps \in Seq(Manager!PendingWaypoint) : ps = pending_waypoints
  BY <1>1 DEF ListTypes
<1>8. PICK others \in Seq(Manager!WaypointEntry) : others = EraseNamed(ws, name)
  BY ErasedSet
<1>9. ToSet(others) = Manager!EraseNamed(ToSet(ws), name)
  BY <1>8, ErasedSet
<1>10. PICK waiting \in Seq(Manager!PendingWaypoint) : waiting = EraseNamed(ps, name)
  BY ErasedSet
<1>11. ToSet(waiting) = Manager!EraseNamed(ToSet(ps), name)
  BY <1>10, ErasedSet
<1>12. waypoints' = others /\ pending_waypoints' = Append(waiting, q)
  BY <1>4, <1>6, <1>7, <1>8, <1>10 DEF AddWaypoint, TagIn
<1>13. ToSet(Append(waiting, q)) = ToSet(waiting) \union {q}
  BY SetOfAppend
<1>14. ToSet(waypoints)' = Manager!EraseNamed(ToSet(waypoints), name)
  <2>1. ToSet(waypoints)' = ToSet(others)
    BY <1>12 DEF ToSet
  <2> QED
    BY <1>6, <1>9, <2>1
<1>15. ToSet(pending_waypoints)' = ToSet(waiting) \union {q}
  BY <1>12, <1>13 DEF ToSet
<1>16. InOrderBy(waiting, NotLater) /\ ToSet(waiting) \subseteq ToSet(ps)
  BY <1>1, <1>7, <1>10, WaitingInOrder
<1>17. \A p \in ToSet(waiting) : consumed < p.stamp /\ p.stamp <= latest_frame_stamp
  BY <1>1, <1>7, <1>16 DEF PendingInOrder
<1>18. InOrderBy(pending_waypoints', NotLater)
  <2>1. ASSUME NEW d \in ToSet(waiting) PROVE <<d, q>> \in NotLater
    <3>1. d \in Manager!PendingWaypoint
      BY DEF ToSet
    <3>2. d.stamp <= q.stamp
      BY <1>5, <1>17
    <3> QED
      BY <3>1, <3>2 DEF NotLater
  <2>2. InOrderBy(Append(waiting, q), NotLater)
    BY <1>16, <2>1, OrderOfAppend
  <2> QED
    BY <1>12, <2>2
<1>19. \A p \in ToSet(pending_waypoints)' : consumed < p.stamp /\ p.stamp <= latest_frame_stamp
  <2>1. consumed < q.stamp /\ q.stamp <= latest_frame_stamp
    BY <1>1, <1>3, <1>5 DEF GridTypes
  <2> QED
    BY <1>15, <1>17, <2>1
<1>20. ListedNames' = Append(Kept(ListedNames, Names \ {name}), name)
  <2>1. PICK ns \in Seq(Names) : ns = NamesInOrder(ws)
    BY NamesAreMapped, EntriesAreNamed
  <2>2. PICK ms \in Seq(Names) : ms = NamesInOrder(ps)
    BY NamesAreMapped, EntriesAreNamed
  <2>3. PICK R : R = Names \ {name}
    OBVIOUS
  <2>4. NamesInOrder(EraseNamed(ws, name)) = Kept(ns, R)
    BY <2>1, <2>3, NamesErased, EntriesAreNamed
  <2>5. NamesInOrder(Append(EraseNamed(ps, name), q)) = Append(Kept(ms, R), name)
    BY <1>5, <2>2, <2>3, NamesTaggedAgain, EntriesAreNamed
  <2>6. Kept(ns, R) \in Seq(Names) /\ Kept(ms, R) \in Seq(Names)
    BY KeptIsASeq
  <2>7. Kept(ns, R) \o Append(Kept(ms, R), name) = Append(Kept(ns, R) \o Kept(ms, R), name)
    BY <2>6, AppendToConcat
  <2>8. Kept(ns \o ms, R) = Kept(ns, R) \o Kept(ms, R)
    BY KeptOfConcat
  <2>9. ListedNames = ns \o ms
    BY <1>6, <1>7, <2>1, <2>2 DEF ListedNames
  <2>10. ListedNames' = NamesInOrder(others) \o NamesInOrder(Append(waiting, q))
    BY <1>12 DEF ListedNames, NamesInOrder
  <2> QED
    BY <1>8, <1>10, <2>3, <2>4, <2>5, <2>7, <2>8, <2>9, <2>10
<1>21. waypoints' \in Seq(Manager!WaypointEntry)
       /\ pending_waypoints' \in Seq(Manager!PendingWaypoint)
  BY <1>12
<1>22. ToSet(pending_waypoints)'
         = Manager!EraseNamed(ToSet(pending_waypoints), name) \union {TagIn(name)}
  BY <1>4, <1>7, <1>11, <1>15
<1> QED
  BY <1>14, <1>18, <1>19, <1>20, <1>21, <1>22

LEMMA AddKeeps ==
  ASSUME ListInv, ListedInTagOrder, NEW name \in Names \union {EmptyName}, AddWaypoint(name)
  PROVE  ListInv' /\ ListedInTagOrder' /\ Manager!AddWaypoint(name)
<1>1. GridTypes /\ ListTypes /\ OneTagPerName /\ SubmapsCover /\ PendingInOrder
  BY DEF ListInv
<1>2. name \in Names /\ Manager!AddWaypointAccepts(name)
  BY DEF AddWaypoint, Manager!AddWaypointAccepts
<1>3. UNCHANGED <<gridVars, shown>>
  BY DEF AddWaypoint
<1>4. UNCHANGED <<has_frame, latest_frame_pose, latest_frame_stamp, submap_references,
                  submap_world_pose, consumed, shown>>
  BY <1>3 DEF gridVars
<1>5. PICK e \in Logged : e = LogOf(name)
  BY <1>1, <1>2, TagsAreTyped
<1>6. e.name = name /\ e.stamp = latest_frame_stamp /\ e.pose = latest_frame_pose
  BY <1>5 DEF LogOf
<1>7. tag_log' = Append(EraseNamed(tag_log, e.name), e)
  BY <1>5, <1>6 DEF AddWaypoint, LogOf
<1>8. /\ tag_log' \in Seq(Logged)
      /\ OneTagPerName'
      /\ [n \in Names |-> LastTag(tag_log, n)]'
           = [[n \in Names |-> LastTag(tag_log, n)] EXCEPT
                ![e.name] = [stamp |-> e.stamp, pose |-> e.pose]]
  BY <1>1, <1>7, LoggedAgain
<1>9. /\ waypoints' \in Seq(Manager!WaypointEntry)
      /\ pending_waypoints' \in Seq(Manager!PendingWaypoint)
      /\ InOrderBy(pending_waypoints', NotLater)
      /\ \A p \in ToSet(pending_waypoints)' : consumed < p.stamp /\ p.stamp <= latest_frame_stamp
      /\ ListedNames' = Append(Kept(ListedNames, Names \ {name}), name)
      /\ ToSet(waypoints)' = Manager!EraseNamed(ToSet(waypoints), name) \union
           {Manager!BoundEntry(name, latest_frame_pose, s) :
              s \in Manager!SubmapForStamp(submap_references, latest_frame_stamp)}
      /\ ToSet(pending_waypoints)' =
           IF Manager!SubmapForStamp(submap_references, latest_frame_stamp) = {}
           THEN Manager!EraseNamed(ToSet(pending_waypoints), name) \union {TagIn(name)}
           ELSE Manager!EraseNamed(ToSet(pending_waypoints), name)
  <2>1. CASE Manager!SubmapForStamp(submap_references, latest_frame_stamp) = {}
    <3>1. {Manager!BoundEntry(name, latest_frame_pose, s) :
             s \in Manager!SubmapForStamp(submap_references, latest_frame_stamp)} = {}
      BY <2>1
    <3> QED
      BY <1>2, <2>1, <3>1, AddPending
  <2>2. CASE Manager!SubmapForStamp(submap_references, latest_frame_stamp) # {}
    <3>1. PICK s \in Manager!SubmapForStamp(submap_references, latest_frame_stamp) : TRUE
      BY <2>2
    <3>2. /\ waypoints' \in Seq(Manager!WaypointEntry)
          /\ pending_waypoints' = <<>>
          /\ ToSet(waypoints)' = Manager!EraseNamed(ToSet(waypoints), name) \union
               {Manager!BoundEntry(name, latest_frame_pose, t) :
                  t \in Manager!SubmapForStamp(submap_references, latest_frame_stamp)}
          /\ ToSet(pending_waypoints)' = Manager!EraseNamed(ToSet(pending_waypoints), name)
          /\ ListedNames' = Append(Kept(ListedNames, Names \ {name}), name)
      BY <1>2, <3>1, AddBound
    <3>3. /\ pending_waypoints' \in Seq(Manager!PendingWaypoint)
          /\ InOrderBy(pending_waypoints', NotLater)
          /\ ToSet(pending_waypoints)' = {}
      BY <3>2 DEF InOrderBy, ToSet
    <3> QED
      BY <2>2, <3>2, <3>3
  <2> QED
    BY <2>1, <2>2
<1>10. NotLater' = NotLater
  BY DEF NotLater, Manager!PendingWaypoint
<1>11. GridTypes'
  BY <1>1, <1>4 DEF GridTypes
<1>12. ListTypes'
  BY <1>1, <1>4, <1>8, <1>9 DEF ListTypes
<1>13. SubmapsCover'
  BY <1>1, <1>4 DEF SubmapsCover
<1>14. PendingInOrder'
  BY <1>4, <1>9, <1>10 DEF PendingInOrder
<1>15. ListedInTagOrder'
  <2>1. PICK log \in Seq(Logged) : log = tag_log
    BY <1>1 DEF ListTypes
  <2>2. NamesInOrder(Append(EraseNamed(log, name), e))
          = Append(Kept(NamesInOrder(log), Names \ {name}), name)
    BY <1>6, NamesTaggedAgain, EntriesAreNamed
  <2>3. NamesInOrder(tag_log)' = NamesInOrder(Append(EraseNamed(log, name), e))
    BY <1>6, <1>7, <2>1 DEF NamesInOrder
  <2>4. ListedNames = NamesInOrder(log)
    BY <2>1 DEF ListedInTagOrder
  <2> QED
    BY <1>9, <2>2, <2>3, <2>4 DEF ListedInTagOrder
<1>16. Manager!AddWaypoint(name)
  BY <1>2, <1>4, <1>6, <1>8, <1>9 DEF Manager!AddWaypoint, Manager!frameVars, TagIn
<1> QED
  BY <1>8, <1>11, <1>12, <1>13, <1>14, <1>15, <1>16 DEF ListInv

-----------------------------------------------------------------------------
(***************************************************************************)
(* The other operations.                                                   *)
(***************************************************************************)
LEMMA ListsUnchanged ==
  ASSUME ListInv, ListedInTagOrder, GridTypes', UNCHANGED listVars, shown' \in Seq(Marker),
         SubmapsCover', UNCHANGED consumed, latest_frame_stamp <= latest_frame_stamp'
  PROVE  /\ ListInv' /\ ListedInTagOrder'
         /\ UNCHANGED <<ToSet(waypoints), ToSet(pending_waypoints),
                        [n \in Names |-> LastTag(tag_log, n)]>>
<1>1. waypoints' = waypoints /\ pending_waypoints' = pending_waypoints /\ tag_log' = tag_log
  BY DEF listVars
<1>2. ListTypes'
  BY <1>1 DEF ListInv, ListTypes
<1>3. OneTagPerName'
  BY <1>1 DEF ListInv, OneTagPerName
<1>4. PendingInOrder'
  <2>1. NotLater' = NotLater
    BY DEF NotLater, Manager!PendingWaypoint
  <2>2. ASSUME NEW p \in ToSet(pending_waypoints)
        PROVE  consumed < p.stamp /\ p.stamp <= latest_frame_stamp'
    <3>1. consumed < p.stamp /\ p.stamp <= latest_frame_stamp
      BY DEF ListInv, PendingInOrder
    <3>2. p \in Manager!PendingWaypoint
      BY DEF ListInv, ListTypes, ToSet
    <3>3. p.stamp \in Nat
      BY <3>2 DEF Manager!PendingWaypoint, Manager!Stamp
    <3>4. latest_frame_stamp \in Nat /\ latest_frame_stamp' \in Nat
      BY DEF ListInv, GridTypes
    <3> QED
      BY <3>1, <3>3, <3>4
  <2>3. InOrderBy(pending_waypoints, NotLater)
    BY DEF ListInv, PendingInOrder
  <2> QED
    BY <1>1, <2>1, <2>2, <2>3 DEF PendingInOrder
<1>5. ListedInTagOrder'
  BY <1>1 DEF ListedInTagOrder, ListedNames, NamesInOrder
<1>6. UNCHANGED <<ToSet(waypoints), ToSet(pending_waypoints),
                  [n \in Names |-> LastTag(tag_log, n)]>>
  BY <1>1 DEF ToSet, LastTag
<1> QED
  BY <1>2, <1>3, <1>4, <1>5, <1>6 DEF ListInv

LEMMA FrameKeeps ==
  ASSUME ListInv, ListedInTagOrder, NEW pose \in OdomPoses, OnUpdateNewFrame(pose)
  PROVE  ListInv' /\ ListedInTagOrder'
<1>1. GridTypes /\ SubmapsCover /\ shown \in Seq(Marker)
  BY DEF ListInv, ListTypes
<1>2. /\ latest_frame_pose' = pose /\ latest_frame_stamp' = latest_frame_stamp + 1
      /\ has_frame' = TRUE
      /\ UNCHANGED <<submap_references, submap_world_pose, consumed, shown>>
      /\ UNCHANGED listVars
  BY DEF OnUpdateNewFrame, Manager!OnUpdateNewFrame
<1>3. pose \in Pose
  BY ListsAssumption
<1>4. GridTypes'
  BY <1>1, <1>2, <1>3 DEF GridTypes
<1>5. latest_frame_stamp \in Nat /\ consumed \in Nat
  BY <1>1 DEF GridTypes
<1>6. SubmapsCover'
  BY <1>1, <1>2, <1>5 DEF SubmapsCover
<1> QED
  BY <1>1, <1>2, <1>4, <1>5, <1>6, ListsUnchanged

LEMMA InsertKeeps ==
  ASSUME ListInv, ListedInTagOrder, NEW id \in 0 .. MaxStamp - 1, NEW pose \in MapPoses,
         OnInsertSubmap(id, pose)
  PROVE  ListInv' /\ ListedInTagOrder'
<1>1. GridTypes /\ SubmapsCover /\ shown \in Seq(Marker)
  BY DEF ListInv, ListTypes
<1>2. /\ DOMAIN submap_world_pose = 0 .. id - 1
      /\ submap_world_pose' = [i \in 0 .. id |->
            IF i = id THEN pose ELSE submap_world_pose[i]]
      /\ UNCHANGED <<has_frame, latest_frame_pose, latest_frame_stamp, submap_references,
                     consumed, shown>>
      /\ UNCHANGED listVars
  BY DEF OnInsertSubmap, Manager!OnInsertSubmap, Manager!frameVars
<1>3. pose \in Pose /\ id \in Nat
  BY ListsAssumption
<1>4. \A i \in 0 .. id - 1 : submap_world_pose[i] \in Pose
  BY <1>1, <1>2 DEF GridTypes
<1>5. submap_world_pose' \in [0 .. id -> Pose]
  <2>1. \A i \in 0 .. id : i # id => i \in 0 .. id - 1
    BY <1>3
  <2> QED
    BY <1>2, <1>3, <1>4, <2>1
<1>6. DOMAIN submap_world_pose' = 0 .. id /\ 0 .. id \subseteq Nat
  BY <1>2, <1>3
<1>7. GridTypes'
  BY <1>1, <1>2, <1>5, <1>6 DEF GridTypes
<1>8. SubmapsCover'
  BY <1>1, <1>2 DEF SubmapsCover
<1>9. latest_frame_stamp <= latest_frame_stamp'
  BY <1>1, <1>2 DEF GridTypes
<1> QED
  BY <1>1, <1>2, <1>7, <1>8, <1>9, ListsUnchanged

LEMMA UpdateKeeps ==
  ASSUME ListInv, ListedInTagOrder, NEW ids \in SUBSET DOMAIN submap_world_pose,
         NEW poses \in [ids -> MapPoses], OnUpdateSubmaps(poses)
  PROVE  ListInv' /\ ListedInTagOrder'
<1>1. GridTypes /\ SubmapsCover /\ shown \in Seq(Marker)
  BY DEF ListInv, ListTypes
<1>2. /\ submap_world_pose' = [id \in DOMAIN submap_world_pose |->
            IF id \in DOMAIN poses THEN poses[id] ELSE submap_world_pose[id]]
      /\ UNCHANGED <<has_frame, latest_frame_pose, latest_frame_stamp, submap_references,
                     consumed, shown>>
      /\ UNCHANGED listVars
  BY DEF OnUpdateSubmaps, Manager!OnUpdateSubmaps, Manager!frameVars
<1>3. MapPoses \subseteq Pose
  BY ListsAssumption
<1>4. \A id \in DOMAIN submap_world_pose : submap_world_pose[id] \in Pose
  BY <1>1 DEF GridTypes
<1>5. submap_world_pose' \in [DOMAIN submap_world_pose -> Pose]
  BY <1>2, <1>3, <1>4
<1>6. DOMAIN submap_world_pose' = DOMAIN submap_world_pose
  BY <1>2
<1>7. GridTypes'
  BY <1>1, <1>2, <1>5, <1>6 DEF GridTypes
<1>8. SubmapsCover'
  BY <1>1, <1>2 DEF SubmapsCover
<1>9. latest_frame_stamp <= latest_frame_stamp'
  BY <1>1, <1>2 DEF GridTypes
<1> QED
  BY <1>1, <1>2, <1>7, <1>8, <1>9, ListsUnchanged

\* Markers have names and poses, also those an earlier publication left.
LEMMA MarkersAreTyped ==
  ASSUME ListInv
  PROVE  Markers \in Seq(Marker)
<1>1. PICK ws \in Seq(Manager!WaypointEntry) : ws = waypoints
  BY DEF ListInv, ListTypes
<1>2. PICK drawn : drawn = {w \in ToSet(ws) : w.submap_id \in DOMAIN submap_world_pose}
  OBVIOUS
<1>3. PICK marker : marker = [w \in drawn |->
        [name |-> w.name, pose |-> Mul(submap_world_pose[w.submap_id], w.T_submap_sensor)]]
  OBVIOUS
<1>4. ASSUME NEW w \in drawn
      PROVE  [name |-> w.name, pose |-> Mul(submap_world_pose[w.submap_id], w.T_submap_sensor)]
               \in Marker
  <2>1. w \in Manager!WaypointEntry /\ w.submap_id \in DOMAIN submap_world_pose
    BY <1>2 DEF ToSet
  <2>2. submap_world_pose[w.submap_id] \in Pose
    BY <2>1 DEF ListInv, GridTypes
  <2>3. w.name \in Names /\ w.T_submap_sensor \in Pose
    BY <2>1 DEF Manager!WaypointEntry
  <2>4. Mul(submap_world_pose[w.submap_id], w.T_submap_sensor) \in Pose
    BY <2>2, <2>3, ListsAssumption
  <2> QED
    BY <2>3, <2>4 DEF Marker
<1>5. marker \in [drawn -> Marker]
  BY <1>3, <1>4
<1>6. Kept(ws, drawn) \in Seq(Manager!WaypointEntry \intersect drawn)
  BY KeptEntries
<1>7. Manager!WaypointEntry \intersect drawn = drawn
  BY <1>2 DEF ToSet
<1>8. Mapped(Kept(ws, drawn), marker) \in Seq(Marker)
  BY <1>5, <1>6, <1>7, MappedIsASeq
<1> QED
  BY <1>1, <1>2, <1>3, <1>8 DEF Markers

LEMMA OverlayIsTyped ==
  ASSUME NEW T, NEW old \in Seq(T), NEW new \in Seq(T)
  PROVE  Overlay(old, new) \in Seq(T)
<1>1. PICK rest : rest = SubSeq(old, Len(new) + 1, Len(old))
  OBVIOUS
<1>2. rest \in Seq(T)
  BY <1>1, SubSeqProperties
<1>3. new \o rest \in Seq(T)
  BY <1>2, ConcatProperties
<1> QED
  BY <1>1, <1>3 DEF Overlay

LEMMA PublishKeeps ==
  ASSUME ListInv, ListedInTagOrder, PublishMarkers
  PROVE  ListInv' /\ ListedInTagOrder' /\ UNCHANGED Manager!vars
<1>1. GridTypes /\ SubmapsCover /\ shown \in Seq(Marker)
  BY DEF ListInv, ListTypes
<1>2. UNCHANGED gridVars /\ UNCHANGED listVars /\ shown' = Overlay(shown, Markers)
  BY DEF PublishMarkers
<1>3. UNCHANGED <<has_frame, latest_frame_pose, latest_frame_stamp, submap_references,
                  submap_world_pose, consumed>>
  BY <1>2 DEF gridVars
<1>4. shown' \in Seq(Marker)
  BY <1>1, <1>2, MarkersAreTyped, OverlayIsTyped
<1>5. GridTypes' /\ SubmapsCover'
  BY <1>1, <1>3 DEF GridTypes, SubmapsCover
<1>6. latest_frame_stamp <= latest_frame_stamp'
  BY <1>1, <1>3 DEF GridTypes
<1>7. /\ ListInv' /\ ListedInTagOrder'
      /\ UNCHANGED <<ToSet(waypoints), ToSet(pending_waypoints),
                     [n \in Names |-> LastTag(tag_log, n)]>>
  BY <1>2, <1>3, <1>4, <1>5, <1>6, ListsUnchanged
<1> QED
  BY <1>3, <1>7 DEF Manager!vars, Manager!frameVars, Manager!tagVars

-----------------------------------------------------------------------------
(***************************************************************************)
(* Theorems.                                                               *)
(***************************************************************************)
LEMMA ListsStart ==
  ASSUME Init
  PROVE  ListInv /\ ListedInTagOrder /\ Manager!Init
<1>1. waypoints = <<>> /\ pending_waypoints = <<>> /\ tag_log = <<>> /\ shown = <<>>
  BY DEF Init
<1>2. Manager!Init
  BY DEF Init
<1>3. /\ has_frame = FALSE /\ latest_frame_pose = Id /\ latest_frame_stamp = 0
      /\ submap_references = <<>> /\ submap_world_pose = [id \in {} |-> Id] /\ consumed = 0
  BY <1>2 DEF Manager!Init
<1>4. GridTypes
  <2>1. submap_references \in Seq(Manager!SubmapReference)
    BY <1>3
  <2>2. DOMAIN submap_world_pose = {}
    BY <1>3
  <2>3. submap_world_pose \in [DOMAIN submap_world_pose -> Pose]
    BY <1>3
  <2> QED
    BY <1>3, <2>1, <2>2, <2>3, ListsAssumption DEF GridTypes
<1>5. ListTypes
  BY <1>1 DEF ListTypes
<1>6. OneTagPerName
  BY <1>1 DEF OneTagPerName, ToSet
<1>7. SubmapsCover
  BY <1>3 DEF SubmapsCover
<1>8. PendingInOrder
  BY <1>1 DEF PendingInOrder, InOrderBy, ToSet
<1>9. ListedInTagOrder
  <2>1. NamesInOrder(<<>>) = <<>>
    BY DEF NamesInOrder
  <2>2. <<>> \o <<>> = <<>>
    OBVIOUS
  <2> QED
    BY <1>1, <2>1, <2>2 DEF ListedInTagOrder, ListedNames
<1> QED
  BY <1>2, <1>4, <1>5, <1>6, <1>7, <1>8, <1>9 DEF ListInv

LEMMA ListsStep ==
  ASSUME ListInv, ListedInTagOrder, [Next]_vars
  PROVE  ListInv' /\ ListedInTagOrder' /\ [Manager!Next]_(Manager!vars)
<1>1. CASE \E pose \in OdomPoses : OnUpdateNewFrame(pose)
  <2>1. PICK pose \in OdomPoses : OnUpdateNewFrame(pose)
    BY <1>1
  <2>2. Manager!OnUpdateNewFrame(pose)
    BY <2>1 DEF OnUpdateNewFrame
  <2>3. Manager!Next
    BY <2>2 DEF Manager!Next
  <2> QED
    BY <2>1, <2>3, FrameKeeps
<1>2. CASE \E first, last \in 1 .. MaxStamp, origin \in OdomPoses :
             OnNewSubmap(first, last, origin)
  <2>1. PICK first, last \in 1 .. MaxStamp, origin \in OdomPoses :
          OnNewSubmap(first, last, origin)
    BY <1>2
  <2>2. ListInv' /\ ListedNames' = ListedNames /\ Manager!OnNewSubmap(first, last, origin)
    BY <2>1, NewSubmapKeeps
  <2>3. Manager!Next
    BY <2>2 DEF Manager!Next
  <2>4. tag_log' = tag_log
    BY <2>1 DEF OnNewSubmap
  <2>5. ListedInTagOrder'
    BY <2>2, <2>4 DEF ListedInTagOrder, NamesInOrder
  <2> QED
    BY <2>2, <2>3, <2>5
<1>3. CASE \E id \in 0 .. MaxStamp - 1, pose \in MapPoses : OnInsertSubmap(id, pose)
  <2>1. PICK id \in 0 .. MaxStamp - 1, pose \in MapPoses : OnInsertSubmap(id, pose)
    BY <1>3
  <2>2. Manager!OnInsertSubmap(id, pose)
    BY <2>1 DEF OnInsertSubmap
  <2>3. Manager!Next
    BY <2>2 DEF Manager!Next
  <2> QED
    BY <2>1, <2>3, InsertKeeps
<1>4. CASE \E ids \in SUBSET DOMAIN submap_world_pose :
             \E poses \in [ids -> MapPoses] : OnUpdateSubmaps(poses)
  <2>1. PICK ids \in SUBSET DOMAIN submap_world_pose :
          \E poses \in [ids -> MapPoses] : OnUpdateSubmaps(poses)
    BY <1>4
  <2>2. PICK poses \in [ids -> MapPoses] : OnUpdateSubmaps(poses)
    BY <2>1
  <2>3. Manager!OnUpdateSubmaps(poses)
    BY <2>2 DEF OnUpdateSubmaps
  <2>4. Manager!Next
    BY <2>3 DEF Manager!Next
  <2> QED
    BY <2>2, <2>4, UpdateKeeps
<1>5. CASE \E name \in Names \union {EmptyName} : AddWaypoint(name)
  <2>1. PICK name \in Names \union {EmptyName} : AddWaypoint(name)
    BY <1>5
  <2>2. ListInv' /\ ListedInTagOrder' /\ Manager!AddWaypoint(name)
    BY <2>1, AddKeeps
  <2>3. Manager!Next
    BY <2>2 DEF Manager!Next
  <2> QED
    BY <2>2, <2>3
<1>6. CASE PublishMarkers
  BY <1>6, PublishKeeps
<1>7. CASE UNCHANGED vars
  <2>1. UNCHANGED <<gridVars, listVars, shown>>
    BY <1>7 DEF vars
  <2>2. UNCHANGED gridVars /\ UNCHANGED listVars /\ shown' = shown
    BY <2>1
  <2>3. UNCHANGED <<has_frame, latest_frame_pose, latest_frame_stamp, submap_references,
                    submap_world_pose, consumed>>
    BY <2>2 DEF gridVars
  <2>4. GridTypes' /\ SubmapsCover'
    BY <2>3 DEF ListInv, GridTypes, SubmapsCover
  <2>5. latest_frame_stamp <= latest_frame_stamp' /\ shown' \in Seq(Marker)
    BY <2>2, <2>3 DEF ListInv, GridTypes, ListTypes
  <2>6. /\ ListInv' /\ ListedInTagOrder'
        /\ UNCHANGED <<ToSet(waypoints), ToSet(pending_waypoints),
                       [n \in Names |-> LastTag(tag_log, n)]>>
    BY <2>2, <2>3, <2>4, <2>5, ListsUnchanged
  <2> QED
    BY <2>3, <2>6 DEF Manager!vars, Manager!frameVars, Manager!tagVars
<1> QED
  BY <1>1, <1>2, <1>3, <1>4, <1>5, <1>6, <1>7 DEF Next

THEOREM ListsKeepInvariant == Spec => [](ListInv /\ ListedInTagOrder)
<1>1. Init => ListInv /\ ListedInTagOrder
  BY ListsStart
<1>2. (ListInv /\ ListedInTagOrder) /\ [Next]_vars => (ListInv /\ ListedInTagOrder)'
  BY ListsStep
<1> QED
  BY <1>1, <1>2, PTL DEF Spec

\* The vectors have their types in every state, and list the names in the order
\* they were last tagged, each once: although tags wait in one vector and are
\* bound in another, and both loops erase from what they walk.
THEOREM ListsStaySound == Spec => []ListsAreSound
<1>1. ListInv /\ ListedInTagOrder => ListsAreSound
  <2> SUFFICES ASSUME ListInv, ListedInTagOrder PROVE ListsAreSound
    OBVIOUS
  <2>1. GridTypes /\ ListTypes /\ OneTagPerName
    BY DEF ListInv
  <2>2. ToSet(waypoints) \subseteq Manager!WaypointEntry
    BY <2>1 DEF ListTypes, ToSet
  <2>3. ToSet(pending_waypoints) \subseteq Manager!PendingWaypoint
    BY <2>1 DEF ListTypes, ToSet
  <2>4. ASSUME NEW n \in Names
        PROVE  LastTag(tag_log, n) \in [stamp : Nat, pose : Pose] \union {NoTag}
    <3>1. tag_log \in Seq(Logged) /\ \A e, f \in ToSet(tag_log) : e.name = f.name => e = f
      BY <2>1 DEF ListTypes, OneTagPerName
    <3>2. CASE \E e \in ToSet(tag_log) : e.name = n
      <4>1. PICK e \in ToSet(tag_log) : e.name = n
        BY <3>2
      <4>2. LastTag(tag_log, n) = [stamp |-> e.stamp, pose |-> e.pose]
        BY <3>1, <4>1, LastTagIs
      <4>3. e \in Logged
        BY <3>1 DEF ToSet
      <4> QED
        BY <4>2, <4>3 DEF Logged
    <3>3. CASE \A e \in ToSet(tag_log) : e.name # n
      BY <3>1, <3>3, LastTagIs
    <3> QED
      BY <3>2, <3>3
  <2>5. [n \in Names |-> LastTag(tag_log, n)]
          \in [Names -> [stamp : Nat, pose : Pose] \union {NoTag}]
    BY <2>4
  <2>6. Manager!TypeOK
    BY <2>1, <2>2, <2>3, <2>5
    DEF GridTypes, Manager!TypeOK, Manager!Stamp, Manager!SubmapId
  <2>7. TypeOK
    BY <2>1, <2>6 DEF TypeOK, ListTypes, Logged, Marker
  <2> QED
    BY <2>7 DEF ListsAreSound
<1> QED
  BY <1>1, ListsKeepInvariant, PTL

\* The vectors, with their walks and erasures, do what WaypointManager says of
\* sets: the loop that erases from the list it walks binds every pending tag of
\* the finished submap and no other.
THEOREM ListsImplementManager == Spec => ImplementsManager
<1>1. Init => Manager!Init
  BY ListsStart
<1>2. (ListInv /\ ListedInTagOrder) /\ [Next]_vars => [Manager!Next]_(Manager!vars)
  BY ListsStep
<1> QED
  BY <1>1, <1>2, ListsKeepInvariant, PTL DEF Spec, ImplementsManager, Manager!Spec

=============================================================================
