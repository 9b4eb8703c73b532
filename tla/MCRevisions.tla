---------------------------- MODULE MCRevisions -----------------------------
(***************************************************************************)
(* Instances for TLC of the revisions of the code, told apart by `part`:   *)
(* those of the data of a session that is stored and restored ("restored") *)
(* or stays on its connection ("live"), both of SessionRevisions, and      *)
(* those of the configuration that workers refresh ("cache", LocalCache).  *)
(* A restored session has as many commits as bits, as by default, and no   *)
(* CPE faults: with them it is in RevisionsLost.cfg.  The one that stays   *)
(* on its connection has them too.                                         *)
(* In a session the variables of LocalCache are Unused; in the cache those *)
(* of the session stay as they begin.                                      *)
(***************************************************************************)
EXTENDS SessionRevisions

CONSTANTS Unused, NoWorker, Gone, NoHash, Unread

VARIABLES
    part,
    \* LocalCache
    config, pending, stored, ttl, owner, pc, due, rev, keep, seen, loaded, sessions,
    changes, quiet, faults

\* The session that is stored and restored, and the one that keeps its connection.
Reopened == INSTANCE SessionRevisions
Live == INSTANCE SessionRevisions WITH
    Reconnects <- FALSE, Answers <- Answers \cup {"fault"}

\* Two workers and a collection that changes once, no sessions.
MCWorkers == {"w1", "w2"}
Cache == INSTANCE LocalCache WITH
    Workers <- MCWorkers, Parts <- {"p1"}, Versions <- {"v1", "v2"}, Sessions <- {},
    HashTTL <- 1, TTLSlack <- 1, Evict <- 1, MaxChanges <- 1, MaxFaults <- 1, MaxEvents <- 2,
    MaxQuiet <- 0

-----------------------------------------------------------------------------
Cac == <<config, pending, stored, ttl, owner, pc, due, rev, keep, seen, loaded, sessions,
         changes, quiet, faults>>

NoRevs == Init /\ \A k \in Keys : map[k] = <<>>
NoCac ==
    /\ config = Unused /\ pending = Unused /\ stored = Unused /\ ttl = Unused
    /\ owner = Unused /\ pc = Unused /\ due = Unused /\ rev = Unused /\ keep = Unused
    /\ seen = Unused /\ loaded = Unused /\ sessions = Unused /\ changes = Unused
    /\ quiet = Unused /\ faults = Unused

MCInit ==
    \/ part = "restored" /\ Reopened!Init /\ NoCac
    \/ part = "live" /\ Live!Init /\ NoCac
    \/ part = "cache" /\ Cache!Init /\ NoRevs

MCNext ==
    /\ UNCHANGED part
    /\ \/ part = "restored" /\ Reopened!Next /\ UNCHANGED Cac
       \/ part = "live" /\ Live!Next /\ UNCHANGED Cac
       \/ part = "cache" /\ Cache!Next /\ UNCHANGED vars

\* Only the cache is fair: the session waits for the device.
MCSpec ==
    /\ MCInit /\ [][MCNext]_<<part, vars, Cac>>
    /\ \A w \in MCWorkers :
          WF_Cac(part = "cache" /\ (Cache!Refresh(w) \/ (Cache!At(w, "dying") /\ Cache!Restart(w))))
    /\ WF_Cac(part = "cache" /\ Cache!Background)
    /\ WF_Cac(part = "cache" /\ Cache!Beat)

-----------------------------------------------------------------------------
\* Properties: those of SessionRevisions, of both sessions, and one of the cache.

\* When the changes stop, every worker gets the last configuration (LocalCache).
Converges == <>[](part = "cache" => \A w \in MCWorkers : rev[w] = config)
=============================================================================
