--------------------------- MODULE MCDeviceTasks ---------------------------
(* Instances of DeviceTasks: two requests whose tasks have the same uniqueKey. *)
EXTENDS DeviceTasks, TLC

CONSTANTS c1, c2, key

SameKey == [c \in Clients |-> key]
=============================================================================
