------------------------- MODULE MCSessionRevisions -------------------------
(***************************************************************************)
(* Instances of SessionRevisions for TLC: values are interchangeable.      *)
(***************************************************************************)
EXTENDS SessionRevisions, TLC

CONSTANTS v1, v2, k1

MCSymmetry == Permutations(Values)
=============================================================================
