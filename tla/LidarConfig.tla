----------------------------- MODULE LidarConfig -----------------------------
(***************************************************************************)
(* How the Livox driver brings a lidar to sampling.  The driver gives each *)
(* configured lidar a slot at start-up.  When the SDK announces a lidar,   *)
(* the driver asks it for every setting of its configuration and keeps one *)
(* bit for each; the answers come back in any order, may time out or be    *)
(* refused, and the one that clears the last bit starts sampling.  The     *)
(* poll thread publishes nothing of a lidar that is not sampling.          *)
(*                                                                         *)
(* The SDK is external.  It calls back once for every request and may      *)
(* announce a lidar again, for instance after a loss of power, while       *)
(* answers to earlier requests are on their way.  Bits are changed under   *)
(* config_mutex_ and the table of slots under its own, so that a callback  *)
(* is one step; the SDK announces lidars from one thread.                  *)
(***************************************************************************)
EXTENDS Integers, Sequences

CONSTANTS
  Lidars,            \* handles of the lidars on the network
  NoHandle,          \* handle of a slot nobody configured (zero)
  Settings,          \* kConfigDataType, kConfigScanPattern, ...
  Configurations,    \* parsed configuration files: sequences of a handle and the
                     \* settings that are to be asked of it (those that are not -1)
  SlotCount,         \* kMaxSourceLidar
  NoSlot,            \* the handle has no entry in map_index_
  MaxAnnouncements   \* bound: calls of LidarInfoChangeCallback

Tasks == Settings \union {"Attitude", "WorkMode", "Imu"}
Statuses == {"Success", "Timeout", "Failure"}
Slots == 0 .. SlotCount - 1
Config == [handle : Lidars, settings : SUBSET Settings]

ASSUME ConfigAssumption ==
  /\ NoHandle \notin Lidars
  /\ Settings \intersect {"Attitude", "WorkMode", "Imu"} = {}
  /\ Configurations \subseteq Seq(Config)
  /\ SlotCount \in Nat
  /\ NoSlot \notin Slots
  /\ MaxAnnouncements \in Nat

VARIABLES
  user_configs,   \* the configuration this driver was started with
  map_index,      \* handle -> slot, or NoSlot
  index_cache,    \* slots that are taken
  livox_config,   \* slot -> handle and settings of its configuration
  set_bits,       \* slot -> settings that are still to be confirmed
  connect_state,  \* slot -> "off" or "sampling"
  parsed,         \* how many entries of user_configs have been taken over
  asked,          \* SDK: requests it has to answer, by handle and task
  announcements,  \* how many times the SDK announced a lidar
  announced,      \* history: lidars announced so far
  confirmed,      \* history: settings a lidar has ever confirmed
  refused,        \* history: settings refused since the lidar was last announced
  normal          \* history: lidars that confirmed the work mode

tableVars   == <<map_index, index_cache>>
lidarVars   == <<livox_config, set_bits, connect_state>>
historyVars == <<announced, confirmed, refused, normal>>
vars == <<user_configs, tableVars, lidarVars, parsed, asked, announcements, historyVars>>

-----------------------------------------------------------------------------
(***************************************************************************)
(* CacheIndex.  A set stands for the answer: the slot, or empty for -1.    *)
(***************************************************************************)
GetIndex(h) == { map_index[h] } \ { NoSlot }

\* The first slot that is not taken, if there is one.
\* Mutant: the first slot, taken or not.
FreeSlotsMutant == { i \in Slots : i = 0 }

FreeSlots == { i \in Slots : i \notin index_cache /\ \A j \in Slots : j < i => j \in index_cache }

GetFreeIndex(h) == IF map_index[h] # NoSlot THEN { map_index[h] } ELSE FreeSlots

TakeIndex(h, i) ==
  /\ map_index' = [map_index EXCEPT ![h] = i]
  /\ index_cache' = index_cache \union {i}

-----------------------------------------------------------------------------
\* LdsLidar is a static object, so a slot nobody configured is all zeros; zero
\* is a value to ask for in each of its settings, -1 would be none.
Init ==
  /\ user_configs \in Configurations
  /\ map_index = [h \in Lidars |-> NoSlot]
  /\ index_cache = {}
  /\ livox_config = [i \in Slots |-> [handle |-> NoHandle, settings |-> Settings]]
  /\ set_bits = [i \in Slots |-> {}]
  /\ connect_state = [i \in Slots |-> "off"]
  /\ parsed = 0
  /\ asked = [h \in Lidars \union {NoHandle} |-> [t \in Tasks |-> 0]]
  /\ announcements = 0
  /\ announced = {}
  /\ confirmed = [h \in Lidars |-> {}]
  /\ refused = [h \in Lidars |-> {}]
  /\ normal = {}

\* InitLivoxLidar, one entry of the configuration; it is skipped when there is
\* no slot for it.  The SDK's callback is registered after the last one.
AddConfigured ==
  /\ parsed < Len(user_configs)
  /\ parsed' = parsed + 1
  /\ LET config == user_configs[parsed + 1]
     IN  \/ /\ GetFreeIndex(config.handle) = {}
            /\ UNCHANGED <<tableVars, livox_config, set_bits>>
         \/ \E i \in GetFreeIndex(config.handle) :
              /\ TakeIndex(config.handle, i)
              /\ livox_config' = [livox_config EXCEPT ![i] = config]
              /\ set_bits' = [set_bits EXCEPT ![i] = {}]
  /\ UNCHANGED <<user_configs, connect_state, asked, announcements, historyVars>>

Ask(requests, h, tasks) ==
  [requests EXCEPT ![h] = [t \in Tasks |-> requests[h][t] + IF t \in tasks THEN 1 ELSE 0]]

Announce(h) ==
  /\ parsed = Len(user_configs)
  /\ announcements < MaxAnnouncements
  /\ announcements' = announcements + 1
  /\ UNCHANGED <<user_configs, parsed, confirmed, normal>>

\* Mutant: only an answer starts sampling, so a lidar with nothing to ask waits.
SampleWhenDoneMutant(i) ==
  connect_state' = IF set_bits[i] # {} /\ set_bits'[i] = {}
                   THEN [connect_state EXCEPT ![i] = "sampling"] ELSE connect_state

\* if (!set_bits) connect_state = kConnectStateSampling
SampleWhenDone(i) ==
  connect_state' = IF set_bits'[i] = {} THEN [connect_state EXCEPT ![i] = "sampling"]
                   ELSE connect_state

\* LidarInfoChangeCallback of a lidar that has a slot.  The attitude goes to the
\* handle in the configuration, which a slot nobody configured does not have.
AnnounceKnown(h) ==
  /\ Announce(h)
  /\ \E i \in GetIndex(h) :
       LET config == livox_config[i]
       IN  /\ set_bits' = [set_bits EXCEPT ![i] = @ \union config.settings]
           /\ SampleWhenDone(i)
           /\ asked' = Ask(Ask(asked, h, config.settings \union {"WorkMode", "Imu"}),
                           config.handle, {"Attitude"})
  /\ announced' = announced \union {h}
  /\ refused' = [refused EXCEPT ![h] = {}]
  /\ UNCHANGED <<tableVars, livox_config>>

\* The same of a lidar that is not in the configuration: it gets a slot and
\* nothing else.  Without a free slot it is left alone.
AnnounceUnknown(h) ==
  /\ Announce(h)
  /\ GetIndex(h) = {}
  /\ \/ /\ GetFreeIndex(h) = {}
        /\ UNCHANGED <<tableVars, asked, announced>>
     \/ \E i \in GetFreeIndex(h) :
          /\ TakeIndex(h, i)
          /\ asked' = Ask(asked, h, {"WorkMode", "Imu"})
          /\ announced' = announced \union {h}
  /\ UNCHANGED <<lidarVars, refused>>

\* The SDK calls back for one request; the callback may ask again.
Answered(h, task, again) ==
  /\ asked[h][task] > 0
  /\ asked' = IF again THEN asked ELSE [asked EXCEPT ![h][task] = @ - 1]
  /\ UNCHANGED <<user_configs, tableVars, parsed, announcements, announced>>

\* Mutant: a setting that timed out is not asked for again.
AskAgainMutant(status) == FALSE

AskAgain(status) == status = "Timeout"

\* Mutant: any answer clears the bit of its setting.
ClearBitMutant(i, setting, status) ==
  set_bits' = [set_bits EXCEPT ![i] = @ \ {setting}] /\ SampleWhenDone(i)

ClearBit(i, setting, status) ==
  IF status = "Success"
  THEN set_bits' = [set_bits EXCEPT ![i] = @ \ {setting}] /\ SampleWhenDone(i)
  ELSE UNCHANGED <<set_bits, connect_state>>

\* SetDataTypeCallback, SetPatternModeCallback, SetBlindSpotCallback and
\* SetDualEmitCallback.
SettingAnswered(h, setting, status) ==
  /\ Answered(h, setting, AskAgain(status))
  /\ \E i \in GetIndex(h) : ClearBit(i, setting, status)
  /\ confirmed' = IF status = "Success"
                  THEN [confirmed EXCEPT ![h] = @ \union {setting}] ELSE confirmed
  /\ refused' = IF status = "Failure"
                THEN [refused EXCEPT ![h] = @ \union {setting}] ELSE refused
  /\ UNCHANGED <<livox_config, normal>>

\* SetAttitudeCallback; of a handle without a slot the answer is dropped.
AttitudeAnswered(h, status) ==
  /\ Answered(h, "Attitude", h \in Lidars /\ GetIndex(h) # {} /\ status = "Timeout")
  /\ UNCHANGED <<lidarVars, confirmed, refused, normal>>

\* EnableLivoxLidarImuDataCallback; without a response nothing is asked again.
ImuAnswered(h, status, response) ==
  /\ Answered(h, "Imu", response /\ status = "Timeout")
  /\ UNCHANGED <<lidarVars, confirmed, refused, normal>>

\* WorkModeChangedCallback asks again after a second, whatever went wrong.
WorkModeAnswered(h, status) ==
  /\ Answered(h, "WorkMode", status # "Success")
  /\ normal' = IF status = "Success" THEN normal \union {h} ELSE normal
  /\ UNCHANGED <<lidarVars, confirmed, refused>>

Next ==
  \/ AddConfigured
  \/ \E h \in Lidars :
       \/ AnnounceKnown(h)
       \/ AnnounceUnknown(h)
       \/ \E status \in Statuses :
            \/ \E setting \in Settings : SettingAnswered(h, setting, status)
            \/ WorkModeAnswered(h, status)
            \/ \E response \in BOOLEAN : ImuAnswered(h, status, response)
  \/ \E h \in Lidars \union {NoHandle}, status \in Statuses : AttitudeAnswered(h, status)

Spec == Init /\ [][Next]_vars

\* The SDK answers every request; what is asked again after each time-out is
\* answered otherwise in the end, and a work mode is accepted in the end.
Fairness ==
  \A h \in Lidars :
    /\ \A setting \in Settings :
         WF_vars(\E status \in {"Success", "Failure"} : SettingAnswered(h, setting, status))
    /\ WF_vars(WorkModeAnswered(h, "Success"))

FairSpec == Spec /\ Fairness
-----------------------------------------------------------------------------
TypeOK ==
  /\ user_configs \in Seq(Config)
  /\ map_index \in [Lidars -> Slots \union {NoSlot}]
  /\ index_cache \subseteq Slots
  /\ livox_config \in [Slots -> [handle : Lidars \union {NoHandle}, settings : SUBSET Settings]]
  /\ set_bits \in [Slots -> SUBSET Settings]
  /\ connect_state \in [Slots -> {"off", "sampling"}]
  /\ parsed \in 0 .. Len(user_configs)
  /\ asked \in [Lidars \union {NoHandle} -> [Tasks -> Nat]]
  /\ announcements \in 0 .. MaxAnnouncements
  /\ announced \subseteq Lidars /\ normal \subseteq Lidars
  /\ confirmed \in [Lidars -> SUBSET Settings]
  /\ refused \in [Lidars -> SUBSET Settings]

HasSlot(h) == map_index[h] # NoSlot
ConfigOf(h) == livox_config[map_index[h]]
BitsOf(h) == set_bits[map_index[h]]
IsConfigured(h) == HasSlot(h) /\ ConfigOf(h).handle = h
IsSampling(h) == HasSlot(h) /\ connect_state[map_index[h]] = "sampling"

\* The entry of the configuration that holds for a lidar: the last one.
ConfiguredBy(h, i) ==
  /\ i \in 1 .. parsed /\ user_configs[i].handle = h
  /\ \A j \in i + 1 .. parsed : user_configs[j].handle # h

\* Two lidars never share a slot, also when the table is full and when a lidar
\* turns up that nobody configured; and the slot of a configured lidar carries
\* its own configuration.
SlotsAreOwn ==
  /\ \A g, h \in Lidars : HasSlot(g) /\ map_index[g] = map_index[h] => g = h
  /\ index_cache = { map_index[h] : h \in { g \in Lidars : HasSlot(g) } }
  /\ \A h \in Lidars, i \in 1 .. parsed :
       HasSlot(h) /\ ConfiguredBy(h, i) => ConfigOf(h) = user_configs[i]

\* The tables have their types, and each lidar has its own slot in them.
SlotsAreSound == TypeOK /\ SlotsAreOwn

\* The driver never waits in vain: each bit that is set has a request under way,
\* or its setting was refused since the lidar was last announced; whatever the
\* answers to requests of an earlier announcement do to the same bits.
BitsAreAttended ==
  \A h \in Lidars : HasSlot(h) =>
    \A setting \in BitsOf(h) : asked[h][setting] > 0 \/ setting \in refused[h]

\* A lidar is published only when it has confirmed each setting of its
\* configuration, however announcements, time-outs, refusals and late answers
\* are mixed.
SamplesAsConfigured ==
  \A h \in Lidars : IsSampling(h) => ConfigOf(h).settings \subseteq confirmed[h]

\* Strengthening used by the proofs.
\* A slot that is not taken is as Init left it, and no bit is set that the
\* configuration of its lidar does not have.
SlotsUntouched ==
  \A i \in Slots :
    /\ set_bits[i] \subseteq livox_config[i].settings
    /\ i \notin index_cache => set_bits[i] = {} /\ connect_state[i] = "off"

\* A lidar of the configuration is without a slot only if the table is full.
SkippedWhenFull ==
  \A h \in Lidars, i \in 1 .. parsed : ConfiguredBy(h, i) /\ ~HasSlot(h) => FreeSlots = {}

\* Nothing is asked or sampled before the configuration is taken over, and no
\* setting is asked of a lidar that has no slot.
Quiet(h) == \A setting \in Settings : asked[h][setting] = 0

StartsAfterParsing ==
  /\ parsed < Len(user_configs) =>
       /\ \A h \in Lidars : Quiet(h)
       /\ \A i \in Slots : set_bits[i] = {} /\ connect_state[i] = "off"
  /\ \A h \in Lidars : ~HasSlot(h) => Quiet(h)

\* Once settings are asked for, those that are not confirmed have their bit set.
SettingsTracked ==
  \A h \in Lidars : HasSlot(h) /\ ~Quiet(h) =>
    ConfigOf(h).settings \subseteq BitsOf(h) \union confirmed[h]

IInv ==
  /\ TypeOK
  /\ SlotsAreOwn
  /\ SlotsUntouched
  /\ SkippedWhenFull
  /\ StartsAfterParsing
  /\ BitsAreAttended
  /\ SettingsTracked
  /\ SamplesAsConfigured

\* A lidar that is in the configuration and is announced ends up sampling, unless it
\* refuses a setting; it need not be announced again for that.
EveryLidarSamples ==
  \A h \in Lidars :
    (h \in announced /\ IsConfigured(h)) ~> (IsSampling(h) \/ refused[h] # {})

\* Every lidar that got a slot is brought to the normal work mode, also when it
\* refuses at first, is not in the configuration, or refuses its settings.
EveryLidarIsNormal == \A h \in Lidars : (h \in announced) ~> (h \in normal)

\* Every lidar comes up, with what the user configured.
EveryLidarComesUp == EveryLidarSamples /\ EveryLidarIsNormal

=============================================================================
