---------------------------- MODULE MCLidarConfig ----------------------------
(***************************************************************************)
(* LidarConfig with three lidars and two slots.  One configuration names a *)
(* lidar twice and leaves a slot for one that is not configured; the other *)
(* names more lidars than there are slots.                                 *)
(***************************************************************************)
EXTENDS LidarConfig

CONSTANTS front, rear, guest

\* As in MID360_config.json, which sets the data type and the pattern.
TwoSettings == {"DataType", "ScanPattern"}

Twice == << [handle |-> front, settings |-> {"DataType"}],
            [handle |-> front, settings |-> TwoSettings] >>

TooMany == << [handle |-> front, settings |-> {"ScanPattern"}],
              [handle |-> rear,  settings |-> {}],
              [handle |-> guest, settings |-> TwoSettings] >>

TwiceOrTooMany == {Twice, TooMany}
=============================================================================
