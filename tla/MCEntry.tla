------------------------------- MODULE MCEntry -------------------------------
(***************************************************************************)
(* Instances of Entry for TLC.  The values are a number with white space   *)
(* in front, which incr turns into two digits and back, and a text that is *)
(* no number.                                                              *)
(***************************************************************************)
EXTENDS Entry, TLC

MCTexts == {<<Space, 9>>, <<Letter>>}

Symmetry == Permutations(Threads) \cup Permutations(Chunks \ {First})
=============================================================================
