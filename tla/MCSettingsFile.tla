--------------------------- MODULE MCSettingsFile ---------------------------
(* A finite instance of SettingsFile. *)
EXTENDS SettingsFile
=============================================================================
