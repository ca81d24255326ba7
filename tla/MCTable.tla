------------------------------- MODULE MCTable -------------------------------
(***************************************************************************)
(* Instances of Table for TLC.  k1 walks over both buckets; the walk of k2 *)
(* visits b1 twice, as a walk may whose hash has run out of bits, so that  *)
(* k2 can be refused while a bucket is still empty.                        *)
(***************************************************************************)
EXTENDS Table, TLC

CONSTANTS k1, k2, b1, b2, o1

MCKeys == {k1, k2}
MCBuckets == {b1, b2}
MCProbe == k1 :> <<b1, b2>> @@ k2 :> <<b1, b1>>

(* A rebuild of a table with one value and one deleted key. *)
TwoKeys == {k1, k2}
DeletedValue == k1 :> o1 @@ k2 :> Nil

ThreadSymmetry == Permutations(Threads)
EntrySymmetry == Permutations(Entries \ {o1})
Symmetry == ThreadSymmetry \cup EntrySymmetry
=============================================================================
