--------------------------- MODULE MCCwmpSession ---------------------------
(***************************************************************************)
(* Instances of CwmpSession for TLC: connection c2 is on worker w2 when    *)
(* there are two workers.                                                  *)
(***************************************************************************)
EXTENDS CwmpSession, TLC

CONSTANTS s1, s2, c1, c2, w1, w2

MCWorkerOf == [c \in Conns |-> IF c = c1 \/ w2 \notin Workers THEN w1 ELSE w2]
MCSymmetry == Permutations(Sessions)
=============================================================================
