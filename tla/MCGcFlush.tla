------------------------------ MODULE MCGcFlush ------------------------------
(* Instances of GcFlush for TLC. *)
EXTENDS GcFlush
=============================================================================
