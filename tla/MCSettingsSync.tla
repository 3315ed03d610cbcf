--------------------------- MODULE MCSettingsSync ---------------------------
(* A finite instance of SettingsSync: a display that never saved, one whose   *)
(* file was edited by hand (a number above its maximum, an option the program *)
(* does not know), and one whose file is complete.                            *)
EXTENDS SettingsSync

\* A file that is empty has no members.
MCFiles == { [p \in Params |-> absent],
             [SCREEN_BRIGHTNESS |-> 150, SOUND_SCHEME |-> 2],
             [SCREEN_BRIGHTNESS |-> 95, SOUND_SCHEME |-> 1] }
=============================================================================
