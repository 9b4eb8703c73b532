--------------------------- MODULE MCProvisioning ---------------------------
(***************************************************************************)
(* An instance of Provisioning for TLC: tasks 1 and 2 and two channels.    *)
(***************************************************************************)
EXTENDS Provisioning

CONSTANTS p, q, a

MCWork == [c \in Channels |-> Items]
MCExpiry == [t \in Tasks |-> IF t = 2 THEN 2 ELSE Never]
=============================================================================
