------------------------------- MODULE MCCache -------------------------------
(***************************************************************************)
(* Instances of Cache for TLC.  k1 has an entry when we start, k2 has      *)
(* none.                                                                   *)
(***************************************************************************)
EXTENDS Cache, TLC

CONSTANTS k1, k2, o1

OneEntry == k1 :> o1 @@ k2 :> Nil

(* Everything is asked of k1; k2 is what may come into a full table. *)
Mixture == (Ops \X {k1}) \cup {<<"set", k2>>, <<"add", k2>>}

Symmetry == Permutations(Threads) \cup Permutations(Entries \ {o1})
=============================================================================
