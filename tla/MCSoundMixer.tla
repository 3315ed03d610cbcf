---------------------------- MODULE MCSoundMixer ----------------------------
(* A finite instance of SoundMixer: two schemes, so that one can be replaced  *)
(* by the other and by itself again while the server thread is in a pass.     *)
EXTENDS SoundMixer
=============================================================================
