------------------------------ MODULE MCHistory ------------------------------
(* Instances of History for TLC. *)
EXTENDS History, TLC

VersionSymmetry == Permutations(Threads) \cup Permutations(Versions \ {Base})
=============================================================================
