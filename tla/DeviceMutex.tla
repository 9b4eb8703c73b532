---------------------------- MODULE DeviceMutex ----------------------------
(***************************************************************************)
(* What the lock `cwmp_session_<device>` promises to the sessions of a     *)
(* device, without time, database or sockets: at most one holder, and no   *)
(* hand-over without a moment in which nobody holds.                       *)
(***************************************************************************)
CONSTANT Sessions
VARIABLE holders

Init == holders = {}

Begin(s) == holders = {} /\ holders' = {s}

Leave(s) == holders = {s} /\ holders' = {}

Next == \E s \in Sessions : Begin(s) \/ Leave(s)

Spec == Init /\ [][Next]_holders
=============================================================================
