-------------------------- MODULE LidarConfigProofs --------------------------
(***************************************************************************)
(* For any lidars, settings, configurations and number of slots: slots are *)
(* not shared, no bit waits in vain, and a lidar samples only with all of  *)
(* its settings confirmed.                                                 *)
(***************************************************************************)
EXTENDS LidarConfig, TLAPS

(***************************************************************************)
(* The table of slots.                                                     *)
(***************************************************************************)

\* A lidar with a slot is found at it, and its slot is one that is taken.
LEMMA OwnSlot ==
  ASSUME IInv, NEW h \in Lidars, HasSlot(h)
  PROVE  /\ map_index[h] \in Slots
         /\ map_index[h] \in index_cache
         /\ GetIndex(h) = {map_index[h]}
         /\ GetFreeIndex(h) = {map_index[h]}
  <1>1. map_index[h] \in Slots
    BY DEF IInv, TypeOK, HasSlot
  <1>. QED
    BY <1>1 DEF IInv, TypeOK, SlotsAreOwn, HasSlot, GetIndex, GetFreeIndex

\* What taking a slot does to the table: the slot belongs to nobody else.
LEMMA TakeIndexKeepsTable ==
  ASSUME IInv, NEW h \in Lidars, NEW i \in GetFreeIndex(h), TakeIndex(h, i)
  PROVE  /\ i \in Slots
         /\ map_index' \in [Lidars -> Slots \union {NoSlot}]
         /\ index_cache' \subseteq Slots
         /\ index_cache \subseteq index_cache'
         /\ i \in index_cache'
         /\ map_index'[h] = i /\ HasSlot(h)'
         /\ \A g \in Lidars \ {h} : /\ map_index'[g] = map_index[g]
                                    /\ HasSlot(g)' <=> HasSlot(g)
                                    /\ HasSlot(g) => map_index[g] # i
         /\ \A f, g \in Lidars : HasSlot(f)' /\ map_index'[f] = map_index'[g] => f = g
         /\ index_cache' = { map_index'[f] : f \in { g \in Lidars : HasSlot(g)' } }
         /\ HasSlot(h) => i = map_index[h] /\ index_cache' = index_cache /\ map_index' = map_index
         /\ ~HasSlot(h) => i \in FreeSlots
  <1>1. i \in Slots
    BY OwnSlot DEF GetFreeIndex, FreeSlots, HasSlot
  <1>2. /\ map_index \in [Lidars -> Slots \union {NoSlot}]
        /\ index_cache \subseteq Slots
        /\ NoSlot \notin Slots
    BY ConfigAssumption DEF IInv, TypeOK
  <1>3. /\ map_index' = [map_index EXCEPT ![h] = i]
        /\ index_cache' = index_cache \union {i}
    BY DEF TakeIndex
  <1>4. HasSlot(h) => i = map_index[h] /\ index_cache' = index_cache /\ map_index' = map_index
    BY <1>2, <1>3, OwnSlot
  <1>5. ~HasSlot(h) => i \in FreeSlots
    BY DEF GetFreeIndex, HasSlot
  <1>6. map_index'[h] = i /\ HasSlot(h)'
    BY <1>1, <1>2, <1>3 DEF HasSlot
  <1>7. ASSUME NEW g \in Lidars \ {h}
        PROVE  /\ map_index'[g] = map_index[g]
               /\ HasSlot(g)' <=> HasSlot(g)
               /\ HasSlot(g) => map_index[g] # i
    <2>1. map_index'[g] = map_index[g]
      BY <1>2, <1>3
    <2>2. ASSUME HasSlot(g), map_index[g] = i
          PROVE  FALSE
      <3>1. CASE HasSlot(h)
        BY <2>2, <3>1, <1>4 DEF IInv, SlotsAreOwn
      <3>2. CASE ~HasSlot(h)
        BY <2>2, <3>2, <1>5, OwnSlot DEF FreeSlots
      <3>. QED
        BY <3>1, <3>2
    <2>. QED
      BY <2>1, <2>2 DEF HasSlot
  <1>8. \A f, g \in Lidars : HasSlot(f)' /\ map_index'[f] = map_index'[g] => f = g
    <2> SUFFICES ASSUME NEW f \in Lidars, NEW g \in Lidars, HasSlot(f)',
                        map_index'[f] = map_index'[g], f # g
                 PROVE  FALSE
      OBVIOUS
    <2>1. CASE f = h
      BY <2>1, <1>1, <1>2, <1>6, <1>7 DEF HasSlot
    <2>2. CASE g = h
      BY <2>2, <1>6, <1>7
    <2>3. CASE f # h /\ g # h
      BY <2>3, <1>7 DEF IInv, SlotsAreOwn
    <2>. QED
      BY <2>1, <2>2, <2>3
  <1>9. index_cache' = { map_index'[f] : f \in { g \in Lidars : HasSlot(g)' } }
    <2>1. index_cache = { map_index[f] : f \in { g \in Lidars : HasSlot(g) } }
      BY DEF IInv, SlotsAreOwn
    <2>2. ASSUME NEW j \in index_cache'
          PROVE  \E f \in Lidars : HasSlot(f)' /\ map_index'[f] = j
      <3>1. CASE j = i
        BY <3>1, <1>6
      <3>2. CASE j # i
        <4>1. PICK f \in Lidars : HasSlot(f) /\ map_index[f] = j
          BY <3>2, <2>1, <1>3
        <4>2. CASE f = h
          BY <3>2, <4>1, <4>2, <1>4
        <4>3. CASE f # h
          BY <4>1, <4>3, <1>7
        <4>. QED
          BY <4>2, <4>3
      <3>. QED
        BY <3>1, <3>2
    <2>3. ASSUME NEW f \in Lidars, HasSlot(f)'
          PROVE  map_index'[f] \in index_cache'
      <3>1. CASE f = h
        BY <3>1, <1>3, <1>6
      <3>2. CASE f # h
        BY <3>2, <2>3, <1>3, <1>7, OwnSlot
      <3>. QED
        BY <3>1, <3>2
    <2>. QED
      BY <2>2, <2>3
  <1>. QED
    BY <1>1, <1>2, <1>3, <1>4, <1>5, <1>6, <1>7, <1>8, <1>9

\* When no slot is free, none becomes free.
LEMMA FreeSlotsStayEmpty ==
  ASSUME IInv, NEW h \in Lidars, NEW i \in GetFreeIndex(h), TakeIndex(h, i), FreeSlots = {}
  PROVE  FreeSlots' = {}
  BY TakeIndexKeepsTable DEF FreeSlots

\* The entry that holds for a lidar changes only with the entry taken over.
LEMMA ConfiguredByNext ==
  ASSUME IInv, parsed < Len(user_configs), parsed' = parsed + 1, user_configs' = user_configs,
         NEW h \in Lidars, NEW i \in 1 .. parsed', ConfiguredBy(h, i)'
  PROVE  \/ h = user_configs[parsed + 1].handle /\ i = parsed + 1
         \/ h # user_configs[parsed + 1].handle /\ i \in 1 .. parsed /\ ConfiguredBy(h, i)
  <1>1. parsed \in Nat /\ Len(user_configs) \in Nat
    BY DEF IInv, TypeOK
  <1>2. user_configs[i].handle = h /\ \A j \in i + 1 .. parsed + 1 : user_configs[j].handle # h
    BY DEF ConfiguredBy
  <1>3. CASE i = parsed + 1
    BY <1>2, <1>3
  <1>4. CASE i # parsed + 1
    <2>1. i \in 1 .. parsed /\ parsed + 1 \in i + 1 .. parsed + 1
      BY <1>1, <1>4
    <2>2. \A j \in i + 1 .. parsed : j \in i + 1 .. parsed + 1
      BY <1>1, <2>1
    <2>. QED
      BY <1>2, <2>1, <2>2 DEF ConfiguredBy
  <1>. QED
    BY <1>3, <1>4

-----------------------------------------------------------------------------
(***************************************************************************)
(* Requests.                                                               *)
(***************************************************************************)
Handles == Lidars \union {NoHandle}

\* What asking adds to the requests under way.
LEMMA AskAdds ==
  ASSUME NEW requests \in [Handles -> [Tasks -> Nat]], NEW h \in Handles, NEW tasks
  PROVE  /\ Ask(requests, h, tasks) \in [Handles -> [Tasks -> Nat]]
         /\ \A g \in Handles \ {h} : Ask(requests, h, tasks)[g] = requests[g]
         /\ \A t \in Tasks \intersect tasks : Ask(requests, h, tasks)[h][t] = requests[h][t] + 1
         /\ \A t \in Tasks \ tasks : Ask(requests, h, tasks)[h][t] = requests[h][t]
  <1> DEFINE new == [t \in Tasks |-> requests[h][t] + IF t \in tasks THEN 1 ELSE 0]
  <1>1. new \in [Tasks -> Nat]
    OBVIOUS
  <1>2. Ask(requests, h, tasks) = [requests EXCEPT ![h] = new]
    BY DEF Ask
  <1>3. /\ \A t \in Tasks \intersect tasks : new[t] = requests[h][t] + 1
        /\ \A t \in Tasks \ tasks : new[t] = requests[h][t]
    OBVIOUS
  <1>. QED
    BY <1>1, <1>2, <1>3

\* An answer takes at most one request away, the one it answers.
LEMMA AnsweredTakesOne ==
  ASSUME IInv, NEW h \in Handles, NEW task \in Tasks, NEW again \in BOOLEAN,
         Answered(h, task, again)
  PROVE  /\ asked[h][task] > 0
         /\ asked' \in [Handles -> [Tasks -> Nat]]
         /\ \A g \in Handles, t \in Tasks : g # h \/ t # task => asked'[g][t] = asked[g][t]
         /\ again => asked' = asked
         /\ UNCHANGED <<user_configs, map_index, index_cache, parsed, announcements, announced>>
  <1>1. asked \in [Handles -> [Tasks -> Nat]]
    BY DEF IInv, TypeOK, Handles
  <1>2. asked[h][task] > 0
    BY DEF Answered
  <1>3. CASE again
    BY <1>1, <1>2, <1>3 DEF Answered, tableVars
  <1>4. CASE ~again
    <2>1. asked' = [asked EXCEPT ![h][task] = @ - 1]
      BY <1>4 DEF Answered
    <2>2. asked[h][task] - 1 \in Nat
      BY <1>1, <1>2
    <2>3. asked[h] \in [Tasks -> Nat]
      BY <1>1
    <2>4. asked' \in [Handles -> [Tasks -> Nat]]
      BY <1>1, <2>1, <2>2, <2>3
    <2>. QED
      BY <1>1, <1>2, <1>4, <2>1, <2>4 DEF Answered, tableVars
  <1>. QED
    BY <1>3, <1>4

\* Everything but the requests for tasks that are not settings, and the work
\* mode, stays as it is: the invariant does not look at those.
LEMMA OtherTasksKeep ==
  ASSUME IInv, asked' \in [Handles -> [Tasks -> Nat]],
         \A g \in Lidars, setting \in Settings : asked'[g][setting] = asked[g][setting],
         normal' \subseteq Lidars, announced' \subseteq Lidars,
         announcements' \in 0 .. MaxAnnouncements,
         UNCHANGED <<user_configs, tableVars, lidarVars, parsed, confirmed, refused>>
  PROVE  IInv'
  <1>. USE DEF tableVars, lidarVars
  <1>1. /\ \A h \in Lidars : HasSlot(h)' <=> HasSlot(h)
        /\ \A h \in Lidars : ConfigOf(h)' = ConfigOf(h) /\ BitsOf(h)' = BitsOf(h)
        /\ \A h \in Lidars : Quiet(h)' <=> Quiet(h)
        /\ \A h \in Lidars : IsSampling(h)' <=> IsSampling(h)
        /\ FreeSlots' = FreeSlots
        /\ \A h \in Lidars, i \in 1 .. parsed : ConfiguredBy(h, i)' <=> ConfiguredBy(h, i)
    BY DEF HasSlot, ConfigOf, BitsOf, Quiet, IsSampling, FreeSlots, ConfiguredBy
  <1>2. TypeOK'
    BY DEF IInv, TypeOK, Handles
  <1>3. SlotsAreOwn'
    BY <1>1 DEF IInv, SlotsAreOwn
  <1>4. SlotsUntouched'
    BY DEF IInv, SlotsUntouched
  <1>5. SkippedWhenFull'
    BY <1>1 DEF IInv, SkippedWhenFull
  <1>6. StartsAfterParsing'
    BY <1>1 DEF IInv, StartsAfterParsing
  <1>7. BitsAreAttended'
    <2>1. \A h \in Lidars : HasSlot(h) => BitsOf(h) \subseteq Settings
      BY OwnSlot DEF IInv, TypeOK, BitsOf
    <2>. QED
      BY <1>1, <2>1 DEF IInv, BitsAreAttended
  <1>8. SettingsTracked'
    BY <1>1 DEF IInv, SettingsTracked
  <1>9. SamplesAsConfigured'
    BY <1>1 DEF IInv, SamplesAsConfigured
  <1>. QED
    BY <1>2, <1>3, <1>4, <1>5, <1>6, <1>7, <1>8, <1>9 DEF IInv

-----------------------------------------------------------------------------
(***************************************************************************)
(* The actions.                                                            *)
(***************************************************************************)
LEMMA InitKeepsIInv == Init => IInv
  <1> SUFFICES ASSUME Init
               PROVE  IInv
    OBVIOUS
  <1>1. \A h \in Lidars : ~HasSlot(h) /\ ~IsSampling(h) /\ Quiet(h)
    BY ConfigAssumption DEF Init, HasSlot, IsSampling, Quiet, Tasks
  <1>2. TypeOK
    BY ConfigAssumption DEF Init, TypeOK, Slots
  <1>3. SlotsAreOwn /\ SkippedWhenFull
    BY <1>1 DEF Init, SlotsAreOwn, SkippedWhenFull, ConfiguredBy
  <1>4. SlotsUntouched /\ StartsAfterParsing
    BY <1>1 DEF Init, SlotsUntouched, StartsAfterParsing
  <1>5. BitsAreAttended /\ SettingsTracked /\ SamplesAsConfigured
    BY <1>1 DEF BitsAreAttended, SettingsTracked, SamplesAsConfigured
  <1>. QED
    BY <1>2, <1>3, <1>4, <1>5 DEF IInv

\* An entry of the configuration is taken over; nothing has been asked yet.
LEMMA AddConfiguredKeepsIInv ==
  ASSUME IInv, AddConfigured
  PROVE  IInv'
  <1> DEFINE config == user_configs[parsed + 1]
             c == config.handle
  <1>1. /\ parsed < Len(user_configs) /\ parsed' = parsed + 1
        /\ UNCHANGED <<user_configs, connect_state, asked, announcements, announced, confirmed,
                       refused, normal>>
    BY DEF AddConfigured, historyVars
  <1>2. parsed \in Nat /\ parsed' \in 0 .. Len(user_configs) /\ config \in Config /\ c \in Lidars
    <2>1. user_configs \in Seq(Config) /\ parsed \in 0 .. Len(user_configs)
      BY DEF IInv, TypeOK
    <2>2. parsed + 1 \in 1 .. Len(user_configs) /\ parsed' \in 0 .. Len(user_configs)
      BY <1>1, <2>1
    <2>3. config \in Config
      BY <2>1, <2>2
    <2>. QED
      BY <2>1, <2>2, <2>3 DEF Config
  <1>3. /\ \A h \in Lidars : Quiet(h) /\ Quiet(h)'
        /\ \A i \in Slots : set_bits[i] = {} /\ connect_state[i] = "off"
    BY <1>1 DEF IInv, StartsAfterParsing, Quiet
  <1>4. CASE GetFreeIndex(c) = {} /\ UNCHANGED <<tableVars, livox_config, set_bits>>
    <2>1. /\ \A h \in Lidars : HasSlot(h)' <=> HasSlot(h)
          /\ \A h \in Lidars : ConfigOf(h)' = ConfigOf(h) /\ BitsOf(h)' = BitsOf(h)
          /\ \A h \in Lidars : IsSampling(h)' <=> IsSampling(h)
          /\ FreeSlots' = FreeSlots
      BY <1>1, <1>4 DEF HasSlot, ConfigOf, BitsOf, IsSampling, FreeSlots, tableVars
    <2>2. ~HasSlot(c) /\ FreeSlots = {}
      BY <1>2, <1>4 DEF GetFreeIndex, HasSlot
    <2>3. TypeOK'
      BY <1>1, <1>2, <1>4 DEF IInv, TypeOK, tableVars
    <2>4. SlotsAreOwn'
      BY <1>1, <1>4, <2>1, <2>2, ConfiguredByNext DEF IInv, SlotsAreOwn, tableVars
    <2>5. SkippedWhenFull'
      BY <2>1, <2>2 DEF SkippedWhenFull
    <2>6. SlotsUntouched' /\ StartsAfterParsing'
      BY <1>1, <1>3, <1>4 DEF IInv, SlotsUntouched, StartsAfterParsing, tableVars
    <2>7. BitsAreAttended' /\ SettingsTracked'
      BY <1>1, <1>3, <2>1 DEF IInv, BitsAreAttended, SettingsTracked
    <2>8. SamplesAsConfigured'
      BY <1>1, <2>1 DEF IInv, SamplesAsConfigured
    <2>. QED
      BY <2>3, <2>4, <2>5, <2>6, <2>7, <2>8 DEF IInv
  <1>5. ASSUME NEW i \in GetFreeIndex(c), TakeIndex(c, i),
               livox_config' = [livox_config EXCEPT ![i] = config],
               set_bits' = [set_bits EXCEPT ![i] = {}]
        PROVE  IInv'
    <2>1. i \in Slots
      BY <1>2, <1>5, TakeIndexKeepsTable
    <2>2. /\ livox_config' \in [Slots -> [handle : Lidars \union {NoHandle}, settings : SUBSET Settings]]
          /\ livox_config'[i] = config
          /\ \A j \in Slots \ {i} : livox_config'[j] = livox_config[j]
      BY <1>2, <1>5, <2>1 DEF IInv, TypeOK, Config
    <2>3. /\ set_bits' \in [Slots -> SUBSET Settings]
          /\ \A j \in Slots : set_bits'[j] = {} /\ connect_state'[j] = "off"
      BY <1>1, <1>3, <1>5, <2>1 DEF IInv, TypeOK
    <2>4. \A h \in Lidars : HasSlot(h)' => map_index'[h] \in Slots
      BY <1>2, <1>5, TakeIndexKeepsTable DEF HasSlot
    <2>5. TypeOK'
      BY <1>1, <1>2, <1>5, <2>2, <2>3, TakeIndexKeepsTable DEF IInv, TypeOK
    <2>6. SlotsAreOwn'
      <3>1. ASSUME NEW h \in Lidars, NEW k \in 1 .. parsed', HasSlot(h)', ConfiguredBy(h, k)'
            PROVE  ConfigOf(h)' = user_configs'[k]
        <4>1. CASE h = c /\ k = parsed + 1
          BY <1>1, <1>2, <1>5, <2>2, <4>1, TakeIndexKeepsTable DEF ConfigOf
        <4>2. CASE h # c /\ k \in 1 .. parsed /\ ConfiguredBy(h, k)
          <5>1. /\ map_index'[h] = map_index[h] /\ HasSlot(h) /\ map_index[h] # i
            BY <1>2, <1>5, <3>1, <4>2, TakeIndexKeepsTable
          <5>2. map_index[h] \in Slots
            BY <5>1, OwnSlot
          <5>. QED
            BY <1>1, <2>2, <4>2, <5>1, <5>2 DEF IInv, SlotsAreOwn, ConfigOf
        <4>. QED
          BY <1>1, <3>1, <4>1, <4>2, ConfiguredByNext
      <3>. QED
        BY <1>2, <1>5, <3>1, TakeIndexKeepsTable DEF SlotsAreOwn
    <2>7. SkippedWhenFull'
      <3>1. ASSUME NEW h \in Lidars, NEW k \in 1 .. parsed', ConfiguredBy(h, k)', ~HasSlot(h)'
            PROVE  FreeSlots' = {}
        <4>1. h # c /\ ~HasSlot(h)
          BY <1>2, <1>5, <3>1, TakeIndexKeepsTable
        <4>2. k \in 1 .. parsed /\ ConfiguredBy(h, k)
          BY <1>1, <3>1, <4>1, ConfiguredByNext
        <4>3. FreeSlots = {}
          BY <4>1, <4>2 DEF IInv, SkippedWhenFull
        <4>. QED
          BY <1>2, <1>5, <4>3, FreeSlotsStayEmpty
      <3>. QED
        BY <3>1 DEF SkippedWhenFull
    <2>8. SlotsUntouched' /\ StartsAfterParsing'
      BY <1>1, <1>3, <2>3 DEF SlotsUntouched, StartsAfterParsing
    <2>9. BitsAreAttended' /\ SettingsTracked' /\ SamplesAsConfigured'
      BY <1>3, <2>3, <2>4 DEF BitsAreAttended, SettingsTracked, SamplesAsConfigured, IsSampling, BitsOf
    <2>. QED
      BY <2>5, <2>6, <2>7, <2>8, <2>9 DEF IInv
  <1>. QED
    BY <1>4, <1>5 DEF AddConfigured

\* The bits of one lidar change within its settings; the others keep theirs, and
\* so does the table.
LEMMA OneLidarChanges ==
  ASSUME IInv, NEW h \in Lidars, HasSlot(h), NEW bits \in SUBSET ConfigOf(h).settings,
         set_bits' = [set_bits EXCEPT ![map_index[h]] = bits],
         SampleWhenDone(map_index[h]) \/ UNCHANGED connect_state,
         UNCHANGED <<user_configs, tableVars, livox_config, parsed>>
  PROVE  /\ set_bits' \in [Slots -> SUBSET Settings]
         /\ connect_state' \in [Slots -> {"off", "sampling"}]
         /\ \A g \in Lidars : /\ HasSlot(g)' <=> HasSlot(g)
                              /\ ConfigOf(g)' = ConfigOf(g)
         /\ BitsOf(h)' = bits
         /\ IsSampling(h)' => IsSampling(h) \/ bits = {}
         /\ \A g \in Lidars \ {h} : /\ HasSlot(g) => BitsOf(g)' = BitsOf(g)
                                    /\ IsSampling(g)' <=> IsSampling(g)
         /\ SlotsAreOwn' /\ SlotsUntouched' /\ SkippedWhenFull'
  <1> DEFINE i == map_index[h]
  <1>1. /\ i \in Slots /\ i \in index_cache
        /\ set_bits \in [Slots -> SUBSET Settings]
        /\ connect_state \in [Slots -> {"off", "sampling"}]
        /\ livox_config[i].settings \subseteq Settings
        /\ bits \subseteq livox_config[i].settings
    BY OwnSlot DEF IInv, TypeOK, ConfigOf
  <1>2. /\ set_bits' \in [Slots -> SUBSET Settings]
        /\ set_bits'[i] = bits
        /\ \A j \in Slots \ {i} : set_bits'[j] = set_bits[j]
    BY <1>1
  <1>3. /\ connect_state' \in [Slots -> {"off", "sampling"}]
        /\ connect_state'[i] = "sampling" => connect_state[i] = "sampling" \/ bits = {}
        /\ \A j \in Slots \ {i} : connect_state'[j] = connect_state[j]
    BY <1>1, <1>2 DEF SampleWhenDone
  <1>4. \A g \in Lidars : HasSlot(g)' <=> HasSlot(g)
    BY DEF HasSlot, tableVars
  <1>5. \A g \in Lidars : ConfigOf(g)' = ConfigOf(g)
    BY DEF ConfigOf, tableVars
  <1>6. BitsOf(h)' = bits /\ (IsSampling(h)' => IsSampling(h) \/ bits = {})
    BY <1>2, <1>3 DEF BitsOf, IsSampling, HasSlot, tableVars
  <1>7. ASSUME NEW g \in Lidars \ {h}
        PROVE  /\ HasSlot(g) => BitsOf(g)' = BitsOf(g)
               /\ IsSampling(g)' <=> IsSampling(g)
    <2>1. HasSlot(g) => map_index[g] \in Slots \ {i}
      BY OwnSlot DEF IInv, SlotsAreOwn
    <2>. QED
      BY <1>2, <1>3, <1>4, <2>1 DEF BitsOf, IsSampling, tableVars
  <1>8. SlotsAreOwn'
    BY <1>4, <1>5 DEF IInv, SlotsAreOwn, ConfiguredBy, tableVars
  <1>9. SlotsUntouched'
    BY <1>1, <1>2, <1>3 DEF IInv, SlotsUntouched, tableVars
  <1>10. SkippedWhenFull'
    BY <1>4 DEF IInv, SkippedWhenFull, ConfiguredBy, FreeSlots, tableVars
  <1>. QED
    BY <1>2, <1>3, <1>4, <1>5, <1>6, <1>7, <1>8, <1>9, <1>10

\* A lidar with a slot is announced: each of its settings is asked for, and the
\* bits that are set are those of its settings.
LEMMA AnnounceKnownKeepsIInv ==
  ASSUME IInv, NEW h \in Lidars, AnnounceKnown(h)
  PROVE  IInv'
  <1> DEFINE settings == ConfigOf(h).settings
             tasks == settings \union {"WorkMode", "Imu"}
             first == Ask(asked, h, tasks)
  <1>1. HasSlot(h) /\ GetIndex(h) = {map_index[h]}
    BY OwnSlot DEF AnnounceKnown, GetIndex, HasSlot
  <1>2. /\ map_index[h] \in Slots
        /\ settings \subseteq Settings
        /\ ConfigOf(h).handle \in Handles
        /\ BitsOf(h) \subseteq settings
    BY <1>1, OwnSlot DEF IInv, TypeOK, SlotsUntouched, ConfigOf, BitsOf, Handles
  <1>3. /\ parsed = Len(user_configs)
        /\ announcements' \in 0 .. MaxAnnouncements
        /\ announced' = announced \union {h}
        /\ refused' = [refused EXCEPT ![h] = {}]
        /\ UNCHANGED <<user_configs, parsed, confirmed, normal, tableVars, livox_config>>
    BY ConfigAssumption DEF AnnounceKnown, Announce, IInv, TypeOK
  <1>4. /\ set_bits' = [set_bits EXCEPT ![map_index[h]] = settings]
        /\ SampleWhenDone(map_index[h])
        /\ asked' = Ask(first, ConfigOf(h).handle, {"Attitude"})
    <2>1. /\ set_bits' = [set_bits EXCEPT ![map_index[h]] = BitsOf(h) \union settings]
          /\ SampleWhenDone(map_index[h])
          /\ asked' = Ask(first, ConfigOf(h).handle, {"Attitude"})
      BY <1>1 DEF AnnounceKnown, ConfigOf, BitsOf
    <2>2. BitsOf(h) \union settings = settings
      BY <1>2
    <2>. QED
      BY <2>1, <2>2
  <1>5. /\ asked' \in [Handles -> [Tasks -> Nat]]
        /\ \A g \in Lidars \ {h}, t \in Settings : asked'[g][t] = asked[g][t]
        /\ \A t \in settings : asked'[h][t] = asked[h][t] + 1
        /\ \A t \in Settings \ settings : asked'[h][t] = asked[h][t]
    <2>1. /\ h \in Handles /\ Lidars \subseteq Handles
          /\ asked \in [Handles -> [Tasks -> Nat]]
          /\ Settings \subseteq Tasks \ {"Attitude", "WorkMode", "Imu"}
      BY ConfigAssumption DEF IInv, TypeOK, Handles, Tasks
    <2>2. /\ first \in [Handles -> [Tasks -> Nat]]
          /\ \A g \in Handles \ {h} : first[g] = asked[g]
          /\ \A t \in Tasks \intersect tasks : first[h][t] = asked[h][t] + 1
          /\ \A t \in Tasks \ tasks : first[h][t] = asked[h][t]
      BY <2>1, AskAdds
    <2> HIDE DEF first
    <2>3. /\ asked' \in [Handles -> [Tasks -> Nat]]
          /\ \A g \in Handles, t \in Tasks \ {"Attitude"} : asked'[g][t] = first[g][t]
      BY <1>2, <1>4, <2>2, AskAdds
    <2>. QED
      BY <1>2, <2>1, <2>2, <2>3
  <1>6. /\ set_bits' \in [Slots -> SUBSET Settings]
        /\ connect_state' \in [Slots -> {"off", "sampling"}]
        /\ \A g \in Lidars : HasSlot(g)' <=> HasSlot(g)
        /\ \A g \in Lidars : ConfigOf(g)' = ConfigOf(g)
        /\ BitsOf(h)' = settings
        /\ IsSampling(h)' => IsSampling(h) \/ settings = {}
        /\ \A g \in Lidars \ {h} : HasSlot(g) => BitsOf(g)' = BitsOf(g)
        /\ \A g \in Lidars \ {h} : IsSampling(g)' <=> IsSampling(g)
        /\ SlotsAreOwn' /\ SlotsUntouched' /\ SkippedWhenFull'
    BY <1>1, <1>2, <1>3, <1>4, OneLidarChanges
  <1>7. \A g \in Lidars \ {h} : Quiet(g)' <=> Quiet(g)
    BY <1>5 DEF Quiet
  <1>8. \A g \in Lidars \ {h} : refused'[g] = refused[g]
    BY <1>3 DEF IInv, TypeOK
  <1>9. TypeOK'
    BY <1>3, <1>5, <1>6 DEF IInv, TypeOK, Handles, tableVars
  <1>10. StartsAfterParsing'
    BY <1>1, <1>3, <1>6, <1>7 DEF IInv, StartsAfterParsing, TypeOK
  <1>11. BitsAreAttended'
    <2>1. \A t \in settings : asked'[h][t] > 0
      BY <1>2, <1>5 DEF IInv, TypeOK, Tasks
    <2>2. \A g \in Lidars \ {h} : HasSlot(g) => BitsOf(g) \subseteq Settings
      BY OwnSlot DEF IInv, TypeOK, BitsOf
    <2>. QED
      BY <1>5, <1>6, <1>8, <2>1, <2>2 DEF IInv, BitsAreAttended
  <1>12. SettingsTracked'
    BY <1>3, <1>6, <1>7 DEF IInv, SettingsTracked
  <1>13. SamplesAsConfigured'
    BY <1>3, <1>6 DEF IInv, SamplesAsConfigured
  <1>. QED
    BY <1>6, <1>9, <1>10, <1>11, <1>12, <1>13 DEF IInv

\* A lidar without a slot is announced: it gets one that nobody uses, if there is
\* one, and no setting is asked of it.
LEMMA AnnounceUnknownKeepsIInv ==
  ASSUME IInv, NEW h \in Lidars, AnnounceUnknown(h)
  PROVE  IInv'
  <1>1. ~HasSlot(h)
    BY DEF AnnounceUnknown, GetIndex, HasSlot
  <1>2. /\ parsed = Len(user_configs)
        /\ announcements' \in 0 .. MaxAnnouncements
        /\ UNCHANGED <<user_configs, parsed, confirmed, normal, lidarVars, refused>>
    BY ConfigAssumption DEF AnnounceUnknown, Announce, IInv, TypeOK
  <1>3. asked \in [Handles -> [Tasks -> Nat]] /\ announced \subseteq Lidars /\ normal \subseteq Lidars
    BY DEF IInv, TypeOK, Handles
  <1>4. CASE UNCHANGED <<tableVars, asked, announced>>
    BY <1>2, <1>3, <1>4, OtherTasksKeep
  <1>5. ASSUME NEW i \in GetFreeIndex(h), TakeIndex(h, i),
               asked' = Ask(asked, h, {"WorkMode", "Imu"}),
               announced' = announced \union {h}
        PROVE  IInv'
    <2>1. /\ asked' \in [Handles -> [Tasks -> Nat]]
          /\ \A g \in Lidars, t \in Settings : asked'[g][t] = asked[g][t]
      <3>1. /\ h \in Handles /\ Lidars \subseteq Handles
            /\ Settings \subseteq Tasks \ {"WorkMode", "Imu"}
        BY ConfigAssumption DEF Handles, Tasks
      <3>. QED
        BY <1>3, <1>5, <3>1, AskAdds
    <2>2. \A g \in Lidars : Quiet(g)' <=> Quiet(g)
      BY <2>1 DEF Quiet
    <2>3. i \in FreeSlots /\ i \in Slots /\ set_bits[i] = {} /\ connect_state[i] = "off"
      BY <1>1, <1>5, TakeIndexKeepsTable DEF IInv, SlotsUntouched, FreeSlots
    <2>4. /\ map_index'[h] = i
          /\ \A g \in Lidars \ {h} : map_index'[g] = map_index[g] /\ (HasSlot(g)' <=> HasSlot(g))
      BY <1>5, TakeIndexKeepsTable
    <2>5. BitsOf(h)' = {} /\ ~IsSampling(h)' /\ Quiet(h) /\ Quiet(h)'
      BY <1>1, <1>2, <2>2, <2>3, <2>4 DEF IInv, StartsAfterParsing, BitsOf, IsSampling, lidarVars
    <2>6. \A g \in Lidars \ {h} : /\ ConfigOf(g)' = ConfigOf(g) /\ BitsOf(g)' = BitsOf(g)
                                  /\ IsSampling(g)' <=> IsSampling(g)
      BY <1>2, <2>4 DEF ConfigOf, BitsOf, IsSampling, lidarVars
    <2>7. TypeOK'
      BY <1>2, <1>5, <2>1, TakeIndexKeepsTable DEF IInv, TypeOK, Handles, lidarVars
    <2>8. SlotsAreOwn'
      <3>1. ASSUME NEW g \in Lidars, NEW k \in 1 .. parsed', HasSlot(g)', ConfiguredBy(g, k)'
            PROVE  ConfigOf(g)' = user_configs'[k]
        <4>1. k \in 1 .. parsed /\ ConfiguredBy(g, k)
          BY <1>2, <3>1 DEF ConfiguredBy
        <4>2. CASE g = h
          BY <1>1, <2>3, <4>1, <4>2 DEF IInv, SkippedWhenFull
        <4>3. CASE g # h
          BY <1>2, <2>4, <2>6, <3>1, <4>1, <4>3 DEF IInv, SlotsAreOwn
        <4>. QED
          BY <4>2, <4>3
      <3>. QED
        BY <1>5, <3>1, TakeIndexKeepsTable DEF SlotsAreOwn
    <2>9. SlotsUntouched'
      BY <1>2, <1>5, TakeIndexKeepsTable DEF IInv, SlotsUntouched, lidarVars
    <2>10. SkippedWhenFull'
      <3>1. ASSUME NEW g \in Lidars, NEW k \in 1 .. parsed', ConfiguredBy(g, k)', ~HasSlot(g)'
            PROVE  FreeSlots' = {}
        <4>1. k \in 1 .. parsed /\ ConfiguredBy(g, k)
          BY <1>2, <3>1 DEF ConfiguredBy
        <4>2. ~HasSlot(g)
          BY <1>1, <2>4, <3>1
        <4>. QED
          BY <1>5, <4>1, <4>2, FreeSlotsStayEmpty DEF IInv, SkippedWhenFull
      <3>. QED
        BY <3>1 DEF SkippedWhenFull
    <2>11. StartsAfterParsing'
      BY <1>1, <1>2, <2>2, <2>4, <2>5 DEF IInv, StartsAfterParsing, TypeOK
    <2>12. BitsAreAttended'
      <3>1. \A g \in Lidars : HasSlot(g) => BitsOf(g) \subseteq Settings
        BY OwnSlot DEF IInv, TypeOK, BitsOf
      <3>. QED
        BY <1>2, <2>1, <2>4, <2>5, <2>6, <3>1 DEF IInv, BitsAreAttended
    <2>13. SettingsTracked'
      BY <1>2, <2>2, <2>4, <2>5, <2>6 DEF IInv, SettingsTracked
    <2>14. SamplesAsConfigured'
      BY <1>2, <2>5, <2>6 DEF IInv, SamplesAsConfigured
    <2>. QED
      BY <2>7, <2>8, <2>9, <2>10, <2>11, <2>12, <2>13, <2>14 DEF IInv
  <1>. QED
    BY <1>1, <1>4, <1>5 DEF AnnounceUnknown

\* A setting is answered: what leaves the bits was confirmed, and what stays is
\* asked again or was refused.
LEMMA SettingAnsweredKeepsIInv ==
  ASSUME IInv, NEW h \in Lidars, NEW setting \in Settings, NEW status \in Statuses,
         SettingAnswered(h, setting, status)
  PROVE  IInv'
  <1>1. /\ h \in Handles /\ setting \in Tasks /\ Lidars \subseteq Handles /\ Settings \subseteq Tasks
        /\ AskAgain(status) \in BOOLEAN
    BY DEF Handles, Tasks, AskAgain
  <1>2. /\ asked[h][setting] > 0
        /\ asked' \in [Handles -> [Tasks -> Nat]]
        /\ \A g \in Handles, t \in Tasks : g # h \/ t # setting => asked'[g][t] = asked[g][t]
        /\ status = "Timeout" => asked' = asked
        /\ UNCHANGED <<user_configs, map_index, index_cache, parsed, announcements, announced>>
    BY <1>1, AnsweredTakesOne DEF SettingAnswered, AskAgain
  <1>3. ~Quiet(h) /\ HasSlot(h) /\ parsed = Len(user_configs)
    <2>1. ~Quiet(h)
      BY <1>2 DEF Quiet
    <2>2. parsed \in 0 .. Len(user_configs) /\ Len(user_configs) \in Nat
      BY DEF IInv, TypeOK
    <2>. QED
      BY <2>1, <2>2 DEF IInv, StartsAfterParsing
  <1>4. /\ ClearBit(map_index[h], setting, status)
        /\ UNCHANGED <<livox_config, normal>>
        /\ confirmed' = IF status = "Success"
                        THEN [confirmed EXCEPT ![h] = @ \union {setting}] ELSE confirmed
        /\ refused' = IF status = "Failure"
                      THEN [refused EXCEPT ![h] = @ \union {setting}] ELSE refused
    BY <1>3, OwnSlot DEF SettingAnswered
  <1> DEFINE settings == ConfigOf(h).settings
             bits == IF status = "Success" THEN BitsOf(h) \ {setting} ELSE BitsOf(h)
  <1>5. /\ map_index[h] \in Slots
        /\ settings \subseteq Settings
        /\ BitsOf(h) \subseteq settings
        /\ set_bits[map_index[h]] = BitsOf(h)
    BY <1>3, OwnSlot DEF IInv, TypeOK, SlotsUntouched, ConfigOf, BitsOf
  <1>6. /\ bits \subseteq settings
        /\ set_bits' = [set_bits EXCEPT ![map_index[h]] = bits]
        /\ SampleWhenDone(map_index[h]) \/ UNCHANGED connect_state
        /\ status # "Success" => UNCHANGED connect_state
    BY <1>4, <1>5 DEF ClearBit, IInv, TypeOK
  <1>7. /\ set_bits' \in [Slots -> SUBSET Settings]
        /\ connect_state' \in [Slots -> {"off", "sampling"}]
        /\ \A g \in Lidars : HasSlot(g)' <=> HasSlot(g)
        /\ \A g \in Lidars : ConfigOf(g)' = ConfigOf(g)
        /\ BitsOf(h)' = bits
        /\ IsSampling(h)' => IsSampling(h) \/ bits = {}
        /\ \A g \in Lidars \ {h} : HasSlot(g) => BitsOf(g)' = BitsOf(g)
        /\ \A g \in Lidars \ {h} : IsSampling(g)' <=> IsSampling(g)
        /\ SlotsAreOwn' /\ SlotsUntouched' /\ SkippedWhenFull'
    <2>1. UNCHANGED <<user_configs, tableVars, livox_config, parsed>>
      BY <1>2, <1>4 DEF tableVars
    <2> HIDE DEF bits
    <2>. QED
      BY <1>3, <1>6, <2>1, OneLidarChanges
  <1>8. /\ confirmed' \in [Lidars -> SUBSET Settings]
        /\ refused' \in [Lidars -> SUBSET Settings]
        /\ \A g \in Lidars \ {h} : confirmed'[g] = confirmed[g] /\ refused'[g] = refused[g]
        /\ confirmed[h] \subseteq confirmed'[h] /\ refused[h] \subseteq refused'[h]
        /\ status = "Success" => setting \in confirmed'[h]
        /\ status = "Failure" => setting \in refused'[h]
    BY <1>4 DEF IInv, TypeOK
  <1>9. \A g \in Lidars \ {h} : Quiet(g)' <=> Quiet(g)
    BY <1>1, <1>2 DEF Quiet
  <1>10. TypeOK'
    BY <1>2, <1>4, <1>7, <1>8 DEF IInv, TypeOK, Handles
  <1>11. StartsAfterParsing'
    BY <1>2, <1>3, <1>7, <1>9 DEF IInv, StartsAfterParsing, TypeOK
  <1>12. BitsAreAttended'
    <2>1. ASSUME NEW t \in bits
          PROVE  asked'[h][t] > 0 \/ t \in refused'[h]
      <3>1. t \in Settings /\ t \in BitsOf(h) /\ (asked[h][t] > 0 \/ t \in refused[h])
        BY <1>3, <1>5, <2>1 DEF IInv, BitsAreAttended
      <3>2. CASE t # setting
        BY <1>1, <1>2, <1>8, <3>1, <3>2
      <3>3. CASE t = setting /\ status # "Success"
        BY <1>2, <1>8, <3>1, <3>3 DEF Statuses
      <3>. QED
        BY <2>1, <3>2, <3>3
    <2>2. \A g \in Lidars \ {h} : HasSlot(g) => BitsOf(g) \subseteq Settings
      BY OwnSlot DEF IInv, TypeOK, BitsOf
    <2> HIDE DEF bits
    <2>. QED
      BY <1>1, <1>2, <1>7, <1>8, <2>1, <2>2 DEF IInv, BitsAreAttended
  <1>13. settings \subseteq bits \union confirmed'[h]
    BY <1>3, <1>8 DEF IInv, SettingsTracked
  <1>14. SettingsTracked'
    BY <1>7, <1>8, <1>9, <1>13 DEF IInv, SettingsTracked
  <1>15. SamplesAsConfigured'
    BY <1>7, <1>8, <1>13 DEF IInv, SamplesAsConfigured
  <1>. QED
    BY <1>7, <1>10, <1>11, <1>12, <1>14, <1>15 DEF IInv

\* The work mode, the attitude and the IMU are not settings.
LEMMA OtherAnswersKeepIInv ==
  ASSUME IInv, NEW h \in Handles, NEW task \in {"Attitude", "WorkMode", "Imu"},
         NEW again \in BOOLEAN, Answered(h, task, again), normal' \subseteq Lidars,
         UNCHANGED <<lidarVars, confirmed, refused>>
  PROVE  IInv'
  <1>1. task \in Tasks /\ Lidars \subseteq Handles /\ Settings \subseteq Tasks \ {task}
    BY ConfigAssumption DEF Tasks, Handles
  <1>2. /\ asked' \in [Handles -> [Tasks -> Nat]]
        /\ \A g \in Lidars, setting \in Settings : asked'[g][setting] = asked[g][setting]
        /\ UNCHANGED <<user_configs, map_index, index_cache, parsed, announcements, announced>>
    BY <1>1, AnsweredTakesOne
  <1>3. announced \subseteq Lidars /\ announcements \in 0 .. MaxAnnouncements
    BY DEF IInv, TypeOK
  <1>. QED
    BY <1>2, <1>3, OtherTasksKeep DEF tableVars

-----------------------------------------------------------------------------
\* The invariant is inductive: parsing, announcements and answers in any order.
THEOREM InductiveInvariant == Spec => []IInv
  <1>1. ASSUME IInv, [Next]_vars
        PROVE  IInv'
    <2>1. CASE AddConfigured
      BY <1>1, <2>1, AddConfiguredKeepsIInv
    <2>2. ASSUME NEW h \in Lidars, AnnounceKnown(h)
          PROVE  IInv'
      BY <1>1, <2>2, AnnounceKnownKeepsIInv
    <2>3. ASSUME NEW h \in Lidars, AnnounceUnknown(h)
          PROVE  IInv'
      BY <1>1, <2>3, AnnounceUnknownKeepsIInv
    <2>4. ASSUME NEW h \in Lidars, NEW status \in Statuses, NEW setting \in Settings,
                 SettingAnswered(h, setting, status)
          PROVE  IInv'
      BY <1>1, <2>4, SettingAnsweredKeepsIInv
    <2>5. normal \subseteq Lidars
      BY <1>1 DEF IInv, TypeOK
    <2>6. ASSUME NEW h \in Lidars, NEW status \in Statuses, WorkModeAnswered(h, status)
          PROVE  IInv'
      <3>1. h \in Handles /\ normal' \subseteq Lidars
        BY <2>5, <2>6 DEF WorkModeAnswered, Handles
      <3>. QED
        BY <1>1, <2>6, <3>1, OtherAnswersKeepIInv DEF WorkModeAnswered
    <2>7. ASSUME NEW h \in Lidars, NEW status \in Statuses, NEW response \in BOOLEAN,
                 ImuAnswered(h, status, response)
          PROVE  IInv'
      BY <1>1, <2>5, <2>7, OtherAnswersKeepIInv DEF ImuAnswered, Handles
    <2>8. ASSUME NEW h \in Handles, NEW status \in Statuses, AttitudeAnswered(h, status)
          PROVE  IInv'
      BY <1>1, <2>5, <2>8, OtherAnswersKeepIInv DEF AttitudeAnswered
    <2>9. CASE UNCHANGED vars
      <3>1. /\ asked \in [Handles -> [Tasks -> Nat]] /\ announced \subseteq Lidars
            /\ announcements \in 0 .. MaxAnnouncements
        BY <1>1 DEF IInv, TypeOK, Handles
      <3>. QED
        BY <1>1, <2>5, <2>9, <3>1, OtherTasksKeep DEF vars, historyVars
    <2>. QED
      BY <1>1, <2>1, <2>2, <2>3, <2>4, <2>6, <2>7, <2>8, <2>9 DEF Next, Handles
  <1>. QED
    BY <1>1, InitKeepsIInv, PTL DEF Spec

\* The driver's tables keep their types, two lidars never share a slot, and a
\* configured one finds its own configuration there.
THEOREM SlotsStayOwn == Spec => []SlotsAreSound
  <1>1. IInv => SlotsAreSound
    BY DEF IInv, SlotsAreSound
  <1>. QED
    BY <1>1, InductiveInvariant, PTL

\* The callbacks never leave a bit set that nobody will answer for.
THEOREM BitsStayAttended == Spec => []BitsAreAttended
  <1>1. IInv => BitsAreAttended
    BY DEF IInv
  <1>. QED
    BY <1>1, InductiveInvariant, PTL

\* The callbacks start a lidar only when each of its settings has been confirmed.
THEOREM SamplesOnlyAsConfigured == Spec => []SamplesAsConfigured
  <1>1. IInv => SamplesAsConfigured
    BY DEF IInv
  <1>. QED
    BY <1>1, InductiveInvariant, PTL
=============================================================================
