--------------------------- MODULE MCAtomicStore ---------------------------
(* A finite instance of AtomicStore. *)
EXTENDS AtomicStore
=============================================================================
