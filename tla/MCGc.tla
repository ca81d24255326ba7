--------------------------------- MODULE MCGc ---------------------------------
(* Instances of Gc for TLC. *)
EXTENDS Gc, TLC

ObjectSymmetry == Permutations(Objects)
NoLeavers == {}
AllLeave == Cpus
=============================================================================
