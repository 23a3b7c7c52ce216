--------------------------- MODULE MCPreferences ----------------------------
(* Small instances of Preferences: two of the four boxes, two log lengths. *)
EXTENDS Preferences

TwoMiners  == {"bfg", "cpu"}

WithCentre == {"none", "current", "notified"}

TwoLengths == {500, 5000}
=============================================================================
