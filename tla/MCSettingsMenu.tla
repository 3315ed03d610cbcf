--------------------------- MODULE MCSettingsMenu ---------------------------
(* A finite instance of SettingsMenu with the delays of Settings.cpp:23-24 in *)
(* seconds.  The deep menu is longer than the shallow one, as in the code, so *)
(* that an index good for one is out of range of the other.                   *)
EXTENDS SettingsMenu
=============================================================================
