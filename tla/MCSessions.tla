----------------------------- MODULE MCSessions -----------------------------
(***************************************************************************)
(* CwmpSession with three sets of constants for TLC, told apart by `part`. *)
(* "reconnect": one session, every kind of request, two connections on two *)
(* workers.  "slow": one session on one connection, every phase takes up   *)
(* to a unit of time, the clock of the database is ahead, and the          *)
(* time-outs fit just so.  "pair": two sessions of the device on two       *)
(* connections of a worker compete for the lock.                           *)
(*                                                                         *)
(* The properties are those of CwmpSession, which refer to no time-out;    *)
(* the constants that the configuration gives it are those of "reconnect". *)
(* Either session may be replaced by the other, and either connection, if  *)
(* its worker is, as far as safety is concerned.  A session that is alone  *)
(* starts at time 1: nothing but the passing of time can come before it.   *)
(***************************************************************************)
EXTENDS CwmpSession, TLC

CONSTANTS s1, s2, c1, c2, w1, w2

VARIABLES part,
          used    \* the connections of that part

MCWorkerOf == [c \in Conns |-> IF c = c1 THEN w1 ELSE w2]
MCSymmetry ==
    Permutations({s1, s2}) \cup {c1 :> c2 @@ c2 :> c1 @@ w1 :> w2 @@ w2 :> w1}

FewRequests == {"inform", "empty", "response"}

Slow == INSTANCE CwmpSession WITH
    Requests <- FewRequests, Timeout <- 1, RequestTimeout <- 2, SkewTolerance <- 5,
    ClockSkew <- 1, TimerGrace <- 0, CacheGrace <- 0, ProcTime <- 1, MaxTime <- 13,
    MaxOrphans <- 0

Pair == INSTANCE CwmpSession WITH
    Workers <- {"w"}, WorkerOf <- [c \in Conns |-> "w"], Requests <- FewRequests,
    Timeout <- 1, RefreshInterval <- 1, RequestTimeout <- 0, MaxTime <- 3

MCInit ==
    /\ Init
    /\ \/ part \in {"reconnect", "pair"} /\ used = Conns
       \/ part = "slow" /\ used \in {{c} : c \in Conns}

\* The only session of "slow" has ended: from here on it is never in progress
\* again, so that what LockCoverage and the mutex say of it stays true.
Over == \E s \in Sessions : ends[s] # 0 /\ ~InProgress(s)

MCNext ==
    /\ UNCHANGED <<part, used>>
    /\ \/ part = "reconnect" /\ Next
       \/ part = "slow" /\ ~Over /\ Slow!Next
       \/ part = "slow" /\ Over /\ UNCHANGED vars
       \/ part = "pair" /\ Pair!Next
    /\ Cardinality(started') <= IF part = "pair" THEN 2 ELSE 1
    /\ \A c \in Conns \ used : ~open'[c]
    /\ part = "pair" \/ started' \subseteq started \/ now = 1

MCSpec == MCInit /\ [][MCNext]_<<part, used, vars>>
=============================================================================
