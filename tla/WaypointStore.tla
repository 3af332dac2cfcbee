---------------------------- MODULE WaypointStore ----------------------------
(***************************************************************************)
(* Saving the tags to disk, crashes of GLIM, and the sessions that follow. *)
(*                                                                         *)
(* write_yaml opens its file, which truncates it, builds the document in   *)
(* memory and writes it when all of it is built.  It holds `mtx`, so no    *)
(* handler runs in between; the process can still die there.               *)
(***************************************************************************)
EXTENDS WaypointManager

CONSTANTS
  Autosave,       \* autosave_path
  OtherPaths,     \* paths given to save_waypoints
  NoFile,         \* the file does not exist
  NotSaving,      \* no save is in progress
  DiskMayFill,    \* can a write fail after the file was opened?
  MaxSessions     \* bound: number of times GLIM is started

ASSUME StoreAssumption ==
  /\ Autosave \notin OtherPaths
  /\ NotSaving \notin OtherPaths \union {Autosave}
  /\ NoFile \notin [waypoints : SUBSET [entry : WaypointEntry, map_pose : SUBSET Pose],
                    pending_waypoints : SUBSET PendingWaypoint]
  /\ DiskMayFill \in BOOLEAN
  /\ MaxSessions \in Nat \ {0}

VARIABLES
  disk,       \* path -> what is in the file
  saving,     \* the path write_yaml has open, or NotSaving
  up,         \* is GLIM running?
  session,    \* number of the running, or last, session
  secured,    \* history: the tags the last complete autosave of the session held
  lastSave    \* history: path of the save that has just been written, or NotSaving

storeVars == <<disk, saving, up, session, secured, lastSave>>
allVars == <<vars, storeVars>>

Paths == OtherPaths \union {Autosave}

\* What the document says: each bound tag with its local pose and, if its
\* submap is in the map, its resolved pose; each pending tag with its frame.
BoundRecord(w) ==
  [entry |-> w,
   map_pose |-> IF w.submap_id \in DOMAIN submap_world_pose
                THEN {Mul(submap_world_pose[w.submap_id], w.T_submap_sensor)} ELSE {}]

\* Mutant: pending tags are not written.
DocumentMutant == [waypoints |-> { BoundRecord(w) : w \in waypoints },
                   pending_waypoints |-> {}]

Document == [waypoints |-> { BoundRecord(w) : w \in waypoints },
             pending_waypoints |-> pending_waypoints]

Empty == [waypoints |-> {}, pending_waypoints |-> {}]

\* The places a file holds for a name, recovered as the persistence note says:
\* through the submap's origin, or directly for a pending tag.
Recorded(file, name) ==
  IF file = NoFile THEN {}
  ELSE { p.T_odom_sensor : p \in { q \in file.pending_waypoints : q.name = name } } \union
       UNION { { Mul(submap_references[i].T_odom_origin_sensor, r.entry.T_submap_sensor) :
                   i \in { j \in DOMAIN submap_references :
                             submap_references[j].id = r.entry.submap_id } }
                 : r \in { q \in file.waypoints : q.entry.name = name } }

NamesIn(file) ==
  IF file = NoFile THEN {}
  ELSE { r.entry.name : r \in file.waypoints } \union NamesOf(file.pending_waypoints)

Tagged == { n \in Names : tagged[n] # NoTag }

-----------------------------------------------------------------------------
StoreInit ==
  /\ Init
  /\ disk = [p \in Paths |-> NoFile]
  /\ saving = NotSaving
  /\ up = TRUE
  /\ session = 1
  /\ secured = {}
  /\ lastSave = NotSaving

\* A handler of WaypointManager runs when no save holds the mutex.
Handler ==
  /\ up /\ saving = NotSaving
  /\ Next
  /\ lastSave' = NotSaving
  /\ UNCHANGED <<disk, saving, up, session, secured>>

\* std::ofstream truncates or creates the file; it may fail to open it, and
\* then write_yaml returns false and nothing changes.
OpenForWriting(path) ==
  /\ up /\ saving = NotSaving
  /\ disk' = [disk EXCEPT ![path] = Empty]
  /\ saving' = path
  /\ lastSave' = NotSaving
  /\ UNCHANGED <<vars, up, session, secured>>

SaveWaypoints(path) == path \in OtherPaths /\ OpenForWriting(path)

\* Mutants: an empty session is saved too; pending tags do not count.
AutosaveAlways == OpenForWriting(Autosave)
AutosaveBoundOnly == waypoints # {} /\ OpenForWriting(Autosave)

AutosaveTimer ==
  /\ ~(waypoints = {} /\ pending_waypoints = {})
  /\ OpenForWriting(Autosave)

\* The document is written and the stream closed.  The state of the stream is
\* not looked at: write_yaml returns true also when the disk was full and the
\* file stays as it was truncated.
FinishSave ==
  /\ up /\ saving # NotSaving
  /\ \/ disk' = [disk EXCEPT ![saving] = Document] /\ lastSave' = saving
     \/ DiskMayFill /\ disk' = disk /\ lastSave' = NotSaving
  /\ saving' = NotSaving
  /\ secured' = IF saving = Autosave THEN NamesIn(disk'[Autosave]) ELSE secured
  /\ UNCHANGED <<vars, up, session>>

\* GLIM dies at any moment; what was in memory is gone.
Crash ==
  /\ up
  /\ up' = FALSE
  /\ saving' = NotSaving
  /\ lastSave' = NotSaving
  /\ UNCHANGED <<vars, disk, session, secured>>

\* A new session starts from nothing: there is no load path.
Restart ==
  /\ ~up /\ session < MaxSessions
  /\ up' = TRUE
  /\ session' = session + 1
  /\ has_frame' = FALSE
  /\ latest_frame_pose' = Id
  /\ latest_frame_stamp' = 0
  /\ submap_references' = <<>>
  /\ submap_world_pose' = [id \in {} |-> Id]
  /\ waypoints' = {}
  /\ pending_waypoints' = {}
  /\ consumed' = 0
  /\ tagged' = [n \in Names |-> NoTag]
  /\ secured' = {}
  /\ lastSave' = NotSaving
  /\ UNCHANGED <<disk, saving>>

StoreNext ==
  \/ Handler
  \/ \E path \in OtherPaths : SaveWaypoints(path)
  \/ AutosaveTimer
  \/ FinishSave
  \/ Crash
  \/ Restart

StoreSpec == StoreInit /\ [][StoreNext]_allVars

\* The executor keeps serving the autosave timer, also when it serves other
\* callbacks in between, a save that began ends unless GLIM dies, and a disk
\* that is full does not stay so for ever.
StoreFairSpec ==
  /\ StoreSpec
  /\ SF_allVars(AutosaveTimer)
  /\ WF_allVars(FinishSave)
  /\ SF_allVars(FinishSave /\ saving = Autosave /\ disk'[saving] = Document)
-----------------------------------------------------------------------------
StoreTypeOK ==
  /\ TypeOK
  /\ DOMAIN disk = Paths
  /\ \A p \in Paths : disk[p] # NoFile =>
       /\ disk[p].pending_waypoints \subseteq PendingWaypoint
       /\ \A r \in disk[p].waypoints : r.entry \in WaypointEntry /\ r.map_pose \subseteq Pose
  /\ saving \in Paths \union {NotSaving}
  /\ up \in BOOLEAN
  /\ session \in 1 .. MaxSessions
  /\ secured \subseteq Names
  /\ lastSave \in Paths \union {NotSaving}

\* A save the disk took leaves nothing out: every tag made so far is in the file at
\* its place, also one whose submap is not finished (the comment in write_yaml,
\* and the test PendingWaypointSurvivesSaveAndListsAsPending), and a resolved
\* pose in the file is the one get_waypoint answers at that moment.
CompletedSaveIsWhole ==
  lastSave # NotSaving =>
    LET file == disk[lastSave]
    IN  /\ \A n \in Tagged : Recorded(file, n) = {tagged[n].pose}
        /\ NamesIn(file) = Tagged
        /\ \A r \in file.waypoints : r.map_pose = Resolved(r.entry.name)

\* What is on disk is a document, and after a save the disk took a whole one.
SavesAreWhole == StoreTypeOK /\ CompletedSaveIsWhole

\* The autosave of a session that died is there until an operator tags a place
\* in a later one: a restart, however often, and the timer that runs from its
\* first moment do not touch the only copy (there is no load path).
EarlierSessionKept ==
  [][Tagged = {} => disk'[Autosave] = disk[Autosave]]_allVars

\* Every tag reaches the autosave file at its place, is replaced by a newer tag
\* of its name, or GLIM dies first, also when saves in between found the disk
\* full and left the file truncated.
PlaceOf(n) == IF tagged[n] = NoTag THEN {} ELSE {tagged[n].pose}

TagReachesDisk ==
  \A n \in Names : \A place \in OdomPoses :
    (up /\ PlaceOf(n) = {place})
      ~> (~up \/ PlaceOf(n) # {place} \/ Recorded(disk[Autosave], n) = {place})

\* README.md:60-61 of glim_ext_addon: "autosaves ... every 10s while any
\* waypoints (bound or pending) exist, so a crash doesn't lose an entire
\* session's tags".  After a crash the file still holds the tags a completed
\* autosave of that session had put there.
CrashKeepsAutosave ==
  ~up /\ secured # {} => secured \intersect NamesIn(disk[Autosave]) # {}

=============================================================================
