----------------------------- MODULE LocalCache -----------------------------
(***************************************************************************)
(* LocalCache of lib/local-cache.ts over several worker processes: every   *)
(* worker keeps snapshots of the configuration under their hashes, looks   *)
(* every REFRESH ms whether the hash in the database is still its own, and *)
(* otherwise loads the configuration again.  Whoever changes the           *)
(* configuration deletes the hash afterwards.                              *)
(*                                                                         *)
(* Time is counted in periods of REFRESH ms, which the code aligns to a    *)
(* grid; a refresh is shorter than a period.  A hash stands for the        *)
(* content it is computed from.                                            *)
(***************************************************************************)
EXTENDS Integers

CONSTANTS
    Workers,     \* processes that have this cache
    NoWorker,    \* nobody has the lock
    Gone,        \* the lock's owner has failed and cannot release it
    Parts,       \* the collections that the callback reads
    Versions,    \* contents of a collection
    NoHash,      \* "no document" and "no current revision"
    Unread,      \* a collection that the callback has not read yet
    Sessions,    \* users of a revision
    HashTTL,     \* periods that a hash may stay in the database
    TTLSlack,    \* how many of them it may go missing early
    Evict,       \* periods in EVICT_TIMEOUT
    MaxChanges,  \* bound on configuration changes
    MaxFaults,   \* bound on failures of workers
    MaxEvents,   \* bound on both together
    MaxQuiet     \* periods counted since the last change

ASSUME CacheAssumption ==
    /\ {NoWorker, Gone} \cap Workers = {} /\ NoWorker # Gone
    /\ Unread \notin Versions
    /\ NoHash \notin [Parts -> Versions]
    /\ HashTTL \in Nat \ {0} /\ TTLSlack \in Nat /\ Evict \in Nat \ {0}
    /\ MaxChanges \in Nat /\ MaxFaults \in Nat /\ MaxEvents \in Nat
    /\ MaxQuiet \in Nat

VARIABLES
    config,    \* the collections
    pending,   \* changes whose cache.del has not been done yet
    stored,    \* the hash document
    ttl,       \* periods until it expires
    owner,     \* the lock document
    pc,        \* where the refresh of a worker is
    due,       \* whether Date.now() > nextRefresh, now or after the refresh
    rev,       \* currentRevision
    keep,      \* snapshots, with the periods that their timers have left
    seen,      \* dbHash
    loaded,    \* what the callback has read so far
    sessions,  \* the worker, revision and age of every session
    changes,   \* number of changes so far
    quiet,     \* periods since the last change (up to MaxQuiet)
    faults     \* failures of workers so far

database == <<config, pending, stored, ttl, owner, changes>>
vars == <<config, pending, stored, ttl, owner, pc, due, rev, keep, seen, loaded,
          sessions, changes, quiet, faults>>

-----------------------------------------------------------------------------
\* Types

Contents == [Parts -> Versions]
Hashes == Contents \cup {NoHash}
Refreshing == {"hash", "compare", "lock", "load", "store", "release"}
Phases == Refreshing \cup {"idle", "done", "dying"}

\* A snapshot that is not there, or that no timer will delete.
Absent == -2
Kept == -1
Lifetimes == {Absent, Kept} \cup 0 .. Evict

Nothing == [p \in Parts |-> Unread]
NoSnapshots == [h \in Contents |-> Absent]
NoSession == [worker |-> NoWorker, rev |-> NoHash, age |-> 0, moved |-> FALSE]

\* After this many quiet periods no worker serves an old configuration: a stale
\* hash is stored up to one period after the change, and found up to one period
\* before the refresh ends.
Settled == HashTTL + 2

\* Every variable keeps its type; a timer is never negative.
TypeOK ==
    /\ config \in Contents
    /\ pending \in 0 .. changes
    /\ stored \in Hashes
    /\ ttl \in Nat
    /\ owner \in Workers \cup {NoWorker, Gone}
    /\ pc \in [Workers -> Phases]
    /\ due \in [Workers -> BOOLEAN]
    /\ rev \in [Workers -> Hashes]
    /\ keep \in [Workers -> [Contents -> Lifetimes]]
    /\ seen \in [Workers -> Hashes]
    /\ loaded \in [Workers -> [Parts -> Versions \cup {Unread}]]
    /\ sessions \in [Sessions -> [worker: Workers \cup {NoWorker}, rev: Hashes,
                                  age: 0 .. Evict, moved: BOOLEAN]]
    /\ changes \in 0 .. MaxChanges
    /\ quiet \in 0 .. MaxQuiet
    /\ faults \in 0 .. MaxFaults

Init ==
    /\ config \in Contents
    /\ pending = 0 /\ stored = NoHash /\ ttl = 0 /\ owner = NoWorker
    /\ pc = [w \in Workers |-> "idle"]
    /\ due = [w \in Workers |-> TRUE]
    /\ rev = [w \in Workers |-> NoHash]
    /\ keep = [w \in Workers |-> NoSnapshots]
    /\ seen = [w \in Workers |-> NoHash]
    /\ loaded = [w \in Workers |-> Nothing]
    /\ sessions = [s \in Sessions |-> NoSession]
    /\ changes = 0 /\ quiet = 0 /\ faults = 0

-----------------------------------------------------------------------------
\* refresh

At(w, phase) == pc[w] = phase
Goto(w, phase) == pc' = [pc EXCEPT ![w] = phase]

\* A caller finds the refresh due; later ones wait for this one.
Begin(w) ==
    /\ At(w, "idle") /\ due[w]
    /\ Goto(w, "hash")
    /\ due' = [due EXCEPT ![w] = FALSE]
    /\ UNCHANGED <<database, rev, keep, seen, loaded, sessions, quiet, faults>>

ReadHash(w) ==
    /\ At(w, "hash")
    /\ seen' = [seen EXCEPT ![w] = stored]
    /\ Goto(w, "compare")
    /\ UNCHANGED <<database, due, rev, keep, loaded, sessions, quiet, faults>>

\* Mutated form: no hash is as good as the right one.
ConfirmedByNone(w) == rev[w] # NoHash /\ seen[w] \in {NoHash, rev[w]}

\* this.currentRevision && dbHash === this.currentRevision
Confirmed(w) == rev[w] # NoHash /\ seen[w] = rev[w]

Compare(w) ==
    /\ At(w, "compare")
    /\ \/ /\ Confirmed(w)
          /\ Goto(w, "done")
          /\ seen' = [seen EXCEPT ![w] = NoHash]
       \/ /\ ~Confirmed(w)
          /\ Goto(w, "lock")
          /\ UNCHANGED seen
    /\ UNCHANGED <<database, due, rev, keep, loaded, sessions, quiet, faults>>

\* acquireLock does not wait: without the lock the worker goes on.
Lock(w) ==
    /\ At(w, "lock")
    /\ owner' = IF owner = NoWorker THEN w ELSE owner
    /\ Goto(w, "load")
    /\ UNCHANGED <<config, pending, stored, ttl, changes, due, rev, keep, seen,
                   loaded, sessions, quiet, faults>>

\* The callback reads the collections concurrently.
LoadPart(w, p) ==
    /\ At(w, "load") /\ loaded[w][p] = Unread
    /\ loaded' = [loaded EXCEPT ![w][p] = config[p]]
    /\ UNCHANGED <<database, pc, due, rev, keep, seen, sessions, quiet, faults>>

\* Mutated form: a timer deletes whatever snapshot has the revision by then.
RetiringAnyInstance(k, old, new) ==
    [k EXCEPT ![old] = Evict, ![new] = IF @ = Absent THEN Kept ELSE @]

\* Mutated form: the snapshot that is replaced goes at once.
RetiringAtOnce(k, old, new) == [k EXCEPT ![old] = Absent, ![new] = Kept]

\* Snapshots k after the timer for the old one is started and the new one is
\* set; a timer only deletes the very instance that it was started for.
Retiring(k, old, new) == [k EXCEPT ![old] = Evict, ![new] = Kept]

Install(w) ==
    LET h == loaded[w] IN
    /\ At(w, "load")
    /\ h \in Contents
    /\ keep' = [keep EXCEPT ![w] = IF rev[w] = NoHash THEN [@ EXCEPT ![h] = Kept]
                                                     ELSE Retiring(@, rev[w], h)]
    /\ rev' = [rev EXCEPT ![w] = h]
    /\ loaded' = [loaded EXCEPT ![w] = Nothing]
    /\ seen' = [seen EXCEPT ![w] = NoHash]
    /\ Goto(w, IF owner # w THEN "done" ELSE IF h # seen[w] THEN "store" ELSE "release")
    /\ UNCHANGED <<database, due, sessions, quiet, faults>>

\* Mutated form: cache.set with a longer time-to-live.
StoredTTLDefault == HashTTL + 1

\* cache.set with 300 s
StoredTTL == HashTTL

Store(w) ==
    /\ At(w, "store")
    /\ stored' = rev[w] /\ ttl' = StoredTTL
    /\ Goto(w, "release")
    /\ UNCHANGED <<config, pending, owner, changes, due, rev, keep, seen, loaded,
                   sessions, quiet, faults>>

Release(w) ==
    /\ At(w, "release")
    /\ owner' = NoWorker
    /\ Goto(w, "done")
    /\ UNCHANGED <<config, pending, stored, ttl, changes, due, rev, keep, seen,
                   loaded, sessions, quiet, faults>>

\* getRevision returns to the caller that did the refresh.
Finish(w) ==
    /\ At(w, "done")
    /\ Goto(w, "idle")
    /\ UNCHANGED <<database, due, rev, keep, seen, loaded, sessions, quiet, faults>>

-----------------------------------------------------------------------------
\* Failures

\* The lock document when the call that w waits for is rejected, its effect
\* done or not.
Abandoned(w) ==
    IF owner = w THEN {Gone} \cup (IF At(w, "release") THEN {NoWorker} ELSE {})
    ELSE {owner} \cup (IF At(w, "lock") /\ owner = NoWorker THEN {Gone} ELSE {})

\* A call of the refresh rejects: nextRefresh stays 0 and the rejection stops
\* the worker.
Throws(w) ==
    /\ faults < MaxFaults /\ changes + faults < MaxEvents
    /\ pc[w] \in Refreshing \ {"compare"}
    /\ owner' \in Abandoned(w)
    /\ \/ UNCHANGED <<stored, ttl>>
       \/ At(w, "store") /\ stored' = rev[w] /\ ttl' = StoredTTL
    /\ Goto(w, "dying")
    /\ faults' = faults + 1
    /\ UNCHANGED <<config, pending, changes, due, rev, keep, seen, loaded, sessions,
                   quiet>>

\* A worker exits, and is forked again with an empty cache.
Restart(w) ==
    /\ \/ At(w, "dying") /\ UNCHANGED faults
       \/ /\ ~At(w, "dying")
          /\ faults < MaxFaults /\ changes + faults < MaxEvents
          /\ faults' = faults + 1
    /\ owner' = IF owner = w THEN Gone ELSE owner
    /\ Goto(w, "idle")
    /\ due' = [due EXCEPT ![w] = TRUE]
    /\ rev' = [rev EXCEPT ![w] = NoHash]
    /\ keep' = [keep EXCEPT ![w] = NoSnapshots]
    /\ seen' = [seen EXCEPT ![w] = NoHash]
    /\ loaded' = [loaded EXCEPT ![w] = Nothing]
    /\ sessions' = [s \in Sessions |-> IF sessions[s].worker = w THEN NoSession
                                                                ELSE sessions[s]]
    /\ UNCHANGED <<config, pending, stored, ttl, changes, quiet>>

-----------------------------------------------------------------------------
\* Changes of the configuration

\* A preset, provision, virtual parameter, file or setting is put or deleted ...
Change(p) ==
    /\ changes < MaxChanges /\ changes + faults < MaxEvents
    /\ \E v \in Versions \ {config[p]} : config' = [config EXCEPT ![p] = v]
    /\ pending' = pending + 1 /\ changes' = changes + 1
    /\ quiet' = 0
    /\ UNCHANGED <<stored, ttl, owner, pc, due, rev, keep, seen, loaded, sessions,
                   faults>>

\* ... then cache.del is called, or never is, because its caller fails.
Invalidate ==
    /\ pending > 0
    /\ pending' = pending - 1
    /\ \/ stored' = NoHash /\ ttl' = 0
       \/ UNCHANGED <<stored, ttl>>
    /\ UNCHANGED <<config, owner, changes, pc, due, rev, keep, seen, loaded, sessions,
                   quiet, faults>>

-----------------------------------------------------------------------------
\* Time

ExpireHash ==
    /\ stored # NoHash /\ ttl <= TTLSlack
    /\ stored' = NoHash /\ ttl' = 0
    /\ UNCHANGED <<config, pending, owner, changes, pc, due, rev, keep, seen, loaded,
                   sessions, quiet, faults>>

\* Only a lock that was abandoned lives long enough.
ExpireLock ==
    /\ owner = Gone
    /\ owner' = NoWorker
    /\ UNCHANGED <<config, pending, stored, ttl, changes, pc, due, rev, keep, seen,
                   loaded, sessions, quiet, faults>>

EvictSnapshot(w, h) ==
    /\ keep[w][h] = 0
    /\ keep' = [keep EXCEPT ![w][h] = Absent]
    /\ UNCHANGED <<database, pc, due, rev, seen, loaded, sessions, quiet, faults>>

Capped(n, bound) == IF n < bound THEN n + 1 ELSE bound

Elapsed(n) == IF n > 0 THEN n - 1 ELSE n

\* A period begins: no refresh takes more than one, and what has expired goes.
Beat ==
    /\ \A w \in Workers : ~At(w, "done") /\ ~(pc[w] \in Refreshing /\ due[w])
    /\ \A w \in Workers, h \in Contents : keep[w][h] # 0
    /\ stored = NoHash \/ ttl > 0
    /\ due' = [w \in Workers |-> TRUE]
    /\ keep' = [w \in Workers |-> [h \in Contents |-> Elapsed(keep[w][h])]]
    /\ ttl' = Elapsed(ttl)
    /\ quiet' = Capped(quiet, MaxQuiet)
    /\ sessions' = [s \in Sessions |->
                       IF sessions[s].worker = NoWorker THEN NoSession
                       ELSE [sessions[s] EXCEPT !.age = Capped(@, Evict)]]
    /\ UNCHANGED <<config, pending, stored, owner, changes, pc, rev, seen, loaded,
                   faults>>

-----------------------------------------------------------------------------
\* Users of a revision

\* getRevision has an answer: nothing is due, or the refresh is just over.
Answering(w) == (At(w, "idle") /\ ~due[w]) \/ At(w, "done")

\* An Inform: cacheSnapshot = await getRevision().
StartSession(s, w) ==
    /\ sessions[s] = NoSession
    /\ Answering(w)
    /\ sessions' = [sessions EXCEPT
                      ![s] = [worker |-> w, rev |-> rev[w], age |-> 0, moved |-> FALSE]]
    /\ UNCHANGED <<database, pc, due, rev, keep, seen, loaded, quiet, faults>>

\* The session is restored on another worker: deserialize awaits getRevision and
\* the session keeps its cacheSnapshot.
Move(s, w) ==
    /\ sessions[s].worker \notin {NoWorker, w}
    /\ Answering(w)
    /\ sessions' = [sessions EXCEPT ![s].worker = w, ![s].moved = TRUE]
    /\ UNCHANGED <<database, pc, due, rev, keep, seen, loaded, quiet, faults>>

EndSession(s) ==
    /\ sessions[s].worker # NoWorker
    /\ sessions' = [sessions EXCEPT ![s] = NoSession]
    /\ UNCHANGED <<database, pc, due, rev, keep, seen, loaded, quiet, faults>>

Refresh(w) ==
    \/ Begin(w) \/ ReadHash(w) \/ Compare(w) \/ Lock(w) \/ Install(w) \/ Store(w)
    \/ Release(w) \/ Finish(w)
    \/ \E p \in Parts : LoadPart(w, p)

Next ==
    \/ \E w \in Workers :
          \/ Refresh(w) \/ Throws(w) \/ Restart(w)
          \/ \E h \in Contents : EvictSnapshot(w, h)
          \/ \E s \in Sessions : StartSession(s, w) \/ Move(s, w)
    \/ \E p \in Parts : Change(p)
    \/ \E s \in Sessions : EndSession(s)
    \/ Invalidate \/ ExpireHash \/ ExpireLock \/ Beat

Spec == Init /\ [][Next]_vars

\* What does not wait for anybody: the database, callers of cache.del, timers.
Background ==
    \/ Invalidate \/ ExpireHash
    \/ \E w \in Workers, h \in Contents : EvictSnapshot(w, h)

\* Time goes on and so does the background work; requests keep coming to every
\* worker, and one that met a rejection exits.
Fairness ==
    /\ \A w \in Workers : WF_vars(Refresh(w) \/ (At(w, "dying") /\ Restart(w)))
    /\ WF_vars(Background)
    /\ WF_vars(Beat)

FairSpec == Spec /\ Fairness

-----------------------------------------------------------------------------
\* Properties

\* The revision that getRevision returns always has its snapshot, through
\* changes that are undone while the first snapshot's timer still runs
\* ("Current revision actively served", CORE-COMPONENTS-SPEC.md).
CurrentServed ==
    \A w \in Workers : rev[w] # NoHash => keep[w][rev[w]] # Absent

\* A session that stays on its worker finds its snapshot for EVICT_TIMEOUT,
\* whatever is loaded meanwhile (`get` throws "Cache snapshot does not exist").
SnapshotKept ==
    \A s \in Sessions :
        LET t == sessions[s] IN
        t.worker # NoWorker /\ ~t.moved /\ t.age < Evict =>
            keep[t.worker][t.rev] # Absent

\* A stale hash dies: no caller of getRevision gets an old configuration once
\* the last change is older than the life of a hash and two periods, even if
\* cache.del was lost or overtaken by a worker that stored what it read before.
FreshAnswers ==
    \A w \in Workers : Answering(w) /\ quiet > Settled => rev[w] = config

\* When the changes stop, every worker gets the last configuration and stays
\* with it.
Converges == <>[](\A w \in Workers : rev[w] = config)
=============================================================================
