---------------------------- MODULE MCLocalCache ----------------------------
(***************************************************************************)
(* Instances of LocalCache for TLC: workers, collections and versions are  *)
(* interchangeable as far as safety is concerned.                          *)
(***************************************************************************)
EXTENDS LocalCache, TLC

CONSTANTS w1, w2, p1, p2, v1, v2, s1

MCSymmetry ==
    Permutations(Workers) \cup Permutations(Parts) \cup Permutations(Versions)
=============================================================================
