-------------------------- MODULE LocalCacheProofs --------------------------
(***************************************************************************)
(* Theorems about LocalCache, for any workers, contents, sessions, times   *)
(* and bounds.                                                             *)
(***************************************************************************)
EXTENDS LocalCache, TLAPS

-----------------------------------------------------------------------------
\* Types

LEMMA TypeInit == Init => TypeOK
  BY CacheAssumption
  DEF Init, TypeOK, Contents, Hashes, Phases, Refreshing, Lifetimes, Absent, Kept,
      Nothing, NoSnapshots, NoSession

\* A timer that runs goes down, anything else stays.
LEMMA ElapsedType ==
  ASSUME NEW n \in Int
  PROVE  /\ n > 0 => Elapsed(n) = n - 1
         /\ n <= 0 => Elapsed(n) = n
  BY DEF Elapsed

LEMMA CappedType ==
  ASSUME NEW n \in Nat, NEW bound \in Nat, n <= bound
  PROVE  Capped(n, bound) \in 0 .. bound
  BY DEF Capped

\* Actions of a refresh that touch neither the database nor the snapshots.
LEMMA QuietSteps ==
  ASSUME TypeOK, NEW w \in Workers,
         Begin(w) \/ ReadHash(w) \/ Compare(w) \/ Finish(w)
         \/ (\E p \in Parts : LoadPart(w, p))
  PROVE  TypeOK'
  <1>1. CASE Begin(w)
        BY <1>1 DEF Begin, Goto, TypeOK, database, Phases, Refreshing
  <1>2. CASE ReadHash(w)
        BY <1>2 DEF ReadHash, Goto, TypeOK, database, Phases, Refreshing
  <1>3. CASE Compare(w)
        BY <1>3 DEF Compare, Goto, TypeOK, database, Phases, Refreshing, Hashes
  <1>4. CASE Finish(w)
        BY <1>4 DEF Finish, Goto, TypeOK, database, Phases, Refreshing
  <1>5. ASSUME NEW p \in Parts, LoadPart(w, p) PROVE TypeOK'
    <2>1. config[p] \in Versions
          BY DEF TypeOK, Contents
    <2>2. QED BY <1>5, <2>1 DEF LoadPart, TypeOK, database
  <1>6. QED BY <1>1, <1>2, <1>3, <1>4, <1>5

LEMMA LockSteps ==
  ASSUME TypeOK, NEW w \in Workers,
         Lock(w) \/ Store(w) \/ Release(w) \/ Throws(w)
  PROVE  TypeOK'
  <1> USE CacheAssumption
  <1>1. CASE Lock(w)
        BY <1>1 DEF Lock, Goto, TypeOK, Phases, Refreshing
  <1>2. CASE Store(w)
        BY <1>2 DEF Store, StoredTTL, Goto, TypeOK, Phases, Refreshing
  <1>3. CASE Release(w)
        BY <1>3 DEF Release, Goto, TypeOK, Phases, Refreshing
  <1>4. CASE Throws(w)
    <2>1. owner' \in Workers \cup {NoWorker, Gone}
          BY <1>4 DEF Throws, Abandoned, TypeOK
    <2>2. stored' \in Hashes /\ ttl' \in Nat
          BY <1>4 DEF Throws, StoredTTL, TypeOK
    <2>3. pc' \in [Workers -> Phases] /\ faults' \in 0 .. MaxFaults
          BY <1>4 DEF Throws, Goto, TypeOK, Phases
    <2>4. QED BY <1>4, <2>1, <2>2, <2>3 DEF Throws, TypeOK
  <1>5. QED BY <1>1, <1>2, <1>3, <1>4

LEMMA SnapshotSteps ==
  ASSUME TypeOK, NEW w \in Workers,
         Install(w) \/ Restart(w) \/ (\E h \in Contents : EvictSnapshot(w, h))
  PROVE  TypeOK'
  <1> USE CacheAssumption
  <1>1. CASE Install(w)
    <2>1. loaded[w] \in Contents
          BY <1>1 DEF Install
    <2>2. keep' \in [Workers -> [Contents -> Lifetimes]]
          BY <1>1, <2>1 DEF Install, Retiring, TypeOK, Lifetimes, Kept
    <2>3. rev' \in [Workers -> Hashes] /\ seen' \in [Workers -> Hashes]
          BY <1>1, <2>1 DEF Install, TypeOK, Hashes
    <2>4. loaded' \in [Workers -> [Parts -> Versions \cup {Unread}]]
          BY <1>1 DEF Install, TypeOK, Nothing
    <2>5. pc' \in [Workers -> Phases]
          BY <1>1 DEF Install, Goto, TypeOK, Phases, Refreshing
    <2>6. QED BY <1>1, <2>2, <2>3, <2>4, <2>5 DEF Install, TypeOK, database
  <1>2. CASE Restart(w)
    <2>1. keep' \in [Workers -> [Contents -> Lifetimes]]
          BY <1>2 DEF Restart, TypeOK, NoSnapshots, Lifetimes
    <2>2. rev' \in [Workers -> Hashes] /\ seen' \in [Workers -> Hashes]
          BY <1>2 DEF Restart, TypeOK, Hashes
    <2>3. loaded' \in [Workers -> [Parts -> Versions \cup {Unread}]]
          BY <1>2 DEF Restart, TypeOK, Nothing
    <2>4. pc' \in [Workers -> Phases] /\ due' \in [Workers -> BOOLEAN]
          BY <1>2 DEF Restart, Goto, TypeOK, Phases
    <2>5. sessions' \in [Sessions -> [worker: Workers \cup {NoWorker}, rev: Hashes,
                                      age: 0 .. Evict, moved: BOOLEAN]]
          BY <1>2 DEF Restart, TypeOK, NoSession, Hashes
    <2>6. owner' \in Workers \cup {NoWorker, Gone} /\ faults' \in 0 .. MaxFaults
          BY <1>2 DEF Restart, TypeOK
    <2>7. QED BY <1>2, <2>1, <2>2, <2>3, <2>4, <2>5, <2>6 DEF Restart, TypeOK
  <1>3. ASSUME NEW h \in Contents, EvictSnapshot(w, h) PROVE TypeOK'
        BY <1>3 DEF EvictSnapshot, TypeOK, database, Lifetimes, Absent
  <1>4. QED BY <1>1, <1>2, <1>3

LEMMA DatabaseSteps ==
  ASSUME TypeOK,
         (\E p \in Parts : Change(p)) \/ Invalidate \/ ExpireHash \/ ExpireLock
  PROVE  TypeOK'
  <1> USE CacheAssumption
  <1>1. ASSUME NEW p \in Parts, Change(p) PROVE TypeOK'
    <2>1. config' \in Contents
          BY <1>1 DEF Change, TypeOK, Contents
    <2>2. QED BY <1>1, <2>1 DEF Change, TypeOK
  <1>2. CASE Invalidate
        BY <1>2 DEF Invalidate, TypeOK, Hashes
  <1>3. CASE ExpireHash
        BY <1>3 DEF ExpireHash, TypeOK, Hashes
  <1>4. CASE ExpireLock
        BY <1>4 DEF ExpireLock, TypeOK
  <1>5. QED BY <1>1, <1>2, <1>3, <1>4

LEMMA SessionSteps ==
  ASSUME TypeOK, NEW s \in Sessions,
         EndSession(s) \/ (\E w \in Workers : StartSession(s, w) \/ Move(s, w))
  PROVE  TypeOK'
  <1> USE CacheAssumption
  <1>1. CASE EndSession(s)
        BY <1>1 DEF EndSession, NoSession, TypeOK, database, Hashes
  <1>2. ASSUME NEW w \in Workers, StartSession(s, w) PROVE TypeOK'
        BY <1>2 DEF StartSession, TypeOK, database
  <1>3. ASSUME NEW w \in Workers, Move(s, w) PROVE TypeOK'
    <2>1. sessions' = [sessions EXCEPT
                         ![s] = [sessions[s] EXCEPT !.worker = w, !.moved = TRUE]]
          BY <1>3 DEF Move, TypeOK
    <2>2. [sessions[s] EXCEPT !.worker = w, !.moved = TRUE]
             \in [worker: Workers \cup {NoWorker}, rev: Hashes, age: 0 .. Evict,
                 moved: BOOLEAN]
      <3>1. sessions[s] \in [worker: Workers \cup {NoWorker}, rev: Hashes,
                              age: 0 .. Evict, moved: BOOLEAN]
            BY DEF TypeOK
      <3> HIDE DEF Hashes
      <3>2. QED BY <3>1
    <2>3. sessions' \in [Sessions -> [worker: Workers \cup {NoWorker}, rev: Hashes,
                                      age: 0 .. Evict, moved: BOOLEAN]]
          BY <2>1, <2>2 DEF TypeOK
    <2>4. QED BY <1>3, <2>3 DEF Move, TypeOK, database
  <1>4. QED BY <1>1, <1>2, <1>3

LEMMA BeatStep ==
  ASSUME TypeOK, Beat
  PROVE  TypeOK'
  <1> USE CacheAssumption
  <1>1. keep' \in [Workers -> [Contents -> Lifetimes]]
    <2>1. \A n \in Lifetimes : Elapsed(n) \in Lifetimes
          BY DEF Elapsed, Lifetimes, Absent, Kept
    <2>2. QED BY <2>1 DEF Beat, TypeOK
  <1>2. ttl' \in Nat
        BY ElapsedType DEF Beat, TypeOK
  <1>3. quiet' \in 0 .. MaxQuiet
        BY CappedType DEF Beat, TypeOK
  <1>4. sessions' \in [Sessions -> [worker: Workers \cup {NoWorker}, rev: Hashes,
                                    age: 0 .. Evict, moved: BOOLEAN]]
    <2>1. NoSession \in [worker: Workers \cup {NoWorker}, rev: Hashes,
                         age: 0 .. Evict, moved: BOOLEAN]
          BY DEF NoSession, Hashes
    <2>2. \A s \in Sessions :
            /\ sessions[s] \in [worker: Workers \cup {NoWorker}, rev: Hashes,
                               age: 0 .. Evict, moved: BOOLEAN]
            /\ Capped(sessions[s].age, Evict) \in 0 .. Evict
          BY CappedType DEF TypeOK
    <2>3. QED BY <2>1, <2>2 DEF Beat
  <1>5. QED BY <1>1, <1>2, <1>3, <1>4 DEF Beat, TypeOK

LEMMA TypeStep == TypeOK /\ [Next]_vars => TypeOK'
  <1> SUFFICES ASSUME TypeOK, [Next]_vars PROVE TypeOK'
      OBVIOUS
  <1>1. CASE UNCHANGED vars
        BY <1>1 DEF vars, TypeOK
  <1>2. CASE Next
        BY <1>2, QuietSteps, LockSteps, SnapshotSteps, DatabaseSteps, SessionSteps,
           BeatStep
        DEF Next, Refresh
  <1>3. QED BY <1>1, <1>2

\* The variables keep their types, whatever the number of workers, collections,
\* sessions, changes and failures.
THEOREM TypeCorrect == Spec => []TypeOK
  <1>1. QED BY TypeInit, TypeStep, PTL DEF Spec

-----------------------------------------------------------------------------
\* Snapshots

\* Whoever is given an answer is given a revision.
Ready ==
    \A w \in Workers :
        (Answering(w) \/ At(w, "store") \/ At(w, "release")) => rev[w] # NoHash

\* No timer runs for the snapshot of the current revision.
Serving == \A w \in Workers : rev[w] # NoHash => keep[w][rev[w]] = Kept

\* The timer of a session's snapshot was not started before the session.
LeftFor(t) ==
    LET n == keep[t.worker][t.rev] IN n = Kept \/ (n \in Nat /\ n + t.age >= Evict)

Timed ==
    \A s \in Sessions :
        sessions[s].worker # NoWorker =>
            /\ sessions[s].rev \in Contents
            /\ (~sessions[s].moved /\ sessions[s].age < Evict) => LeftFor(sessions[s])

LEMMA ServingStep ==
  ASSUME TypeOK, Ready, Serving, [Next]_vars
  PROVE  Ready' /\ Serving'
  <1> USE CacheAssumption
  <1>1. ASSUME NEW w \in Workers, Begin(w) \/ ReadHash(w) \/ Lock(w) \/ Throws(w)
        PROVE  Ready' /\ Serving'
        BY <1>1 DEF Begin, ReadHash, Lock, Throws, Goto, At, Answering, Ready, Serving,
                    TypeOK, Refreshing
  <1>2. ASSUME NEW w \in Workers, Compare(w) PROVE Ready' /\ Serving'
        BY <1>2 DEF Compare, Confirmed, Goto, At, Answering, Ready, Serving, TypeOK
  <1>3. ASSUME NEW w \in Workers, Store(w) \/ Release(w) \/ Finish(w)
        PROVE  Ready' /\ Serving'
        BY <1>3 DEF Store, Release, Finish, Goto, At, Answering, Ready, Serving, TypeOK
  <1>4. ASSUME NEW w \in Workers, NEW p \in Parts, LoadPart(w, p)
        PROVE  Ready' /\ Serving'
        BY <1>4 DEF LoadPart, At, Answering, Ready, Serving
  <1>5. ASSUME NEW w \in Workers, Install(w) PROVE Ready' /\ Serving'
    <2> DEFINE h == loaded[w]
    <2>1. h \in Contents /\ h # NoHash /\ rev'[w] = h /\ keep'[w][h] = Kept
          BY <1>5 DEF Install, Retiring, TypeOK, Contents
    <2>2. \A v \in Workers \ {w} : /\ rev'[v] = rev[v] /\ keep'[v] = keep[v]
                                   /\ pc'[v] = pc[v] /\ due'[v] = due[v]
          BY <1>5 DEF Install, Goto, TypeOK
    <2>3. Serving'
          BY <2>1, <2>2 DEF Serving
    <2>4. Ready'
          BY <2>1, <2>2 DEF Ready, Answering, At
    <2>5. QED BY <2>3, <2>4
  <1>6. ASSUME NEW w \in Workers, Restart(w) PROVE Ready' /\ Serving'
        BY <1>6 DEF Restart, Goto, At, Answering, Ready, Serving, TypeOK
  <1>7. ASSUME NEW w \in Workers, NEW h \in Contents, EvictSnapshot(w, h)
        PROVE  Ready' /\ Serving'
    <2>1. rev[w] # h
          BY <1>7 DEF EvictSnapshot, Serving, Kept, Contents
    <2>2. QED BY <1>7, <2>1 DEF EvictSnapshot, At, Answering, Ready, Serving, TypeOK
  <1>8. ASSUME NEW s \in Sessions,
               EndSession(s) \/ (\E w \in Workers : StartSession(s, w) \/ Move(s, w))
        PROVE  Ready' /\ Serving'
        BY <1>8 DEF EndSession, StartSession, Move, At, Answering, Ready, Serving
  <1>9. CASE (\E p \in Parts : Change(p)) \/ Invalidate \/ ExpireHash \/ ExpireLock
        BY <1>9 DEF Change, Invalidate, ExpireHash, ExpireLock, At, Answering, Ready,
                    Serving
  <1>10. CASE Beat
    <2>1. \A w \in Workers, h \in Contents : keep[w][h] = Kept => keep'[w][h] = Kept
          BY <1>10 DEF Beat, Elapsed, Kept
    <2>2. \A w \in Workers : rev[w] # NoHash => rev[w] \in Contents
          BY DEF TypeOK, Hashes
    <2>3. Serving'
          BY <1>10, <2>1, <2>2 DEF Beat, Serving
    <2>4. Ready'
          BY <1>10 DEF Beat, At, Answering, Ready
    <2>5. QED BY <2>3, <2>4
  <1>11. CASE UNCHANGED vars
        BY <1>11 DEF vars, At, Answering, Ready, Serving
  <1>12. QED BY <1>1, <1>2, <1>3, <1>4, <1>5, <1>6, <1>7, <1>8, <1>9, <1>10, <1>11
         DEF Next, Refresh

LEMMA TimedStep ==
  ASSUME TypeOK, Ready, Serving, Timed, [Next]_vars
  PROVE  Timed'
  <1> USE CacheAssumption
  <1>1. CASE UNCHANGED <<sessions, keep>>
        BY <1>1 DEF Timed, LeftFor
  <1>2. ASSUME NEW w \in Workers, Install(w) PROVE Timed'
    <2>1. /\ sessions' = sessions
          /\ \A v \in Workers, h \in Contents :
                keep'[v][h] \in {keep[v][h], Evict, Kept}
          BY <1>2 DEF Install, Retiring, TypeOK
    <2>2. \A s \in Sessions :
            sessions[s].worker \in Workers \cup {NoWorker} /\ sessions[s].age \in Nat
          BY DEF TypeOK
    <2>3. QED BY <2>1, <2>2 DEF Timed, LeftFor
  <1>3. ASSUME NEW w \in Workers, Restart(w) PROVE Timed'
    <2>1. \A s \in Sessions :
            sessions'[s].worker # NoWorker =>
              sessions'[s] = sessions[s] /\ sessions[s].worker # w
          BY <1>3 DEF Restart, NoSession, TypeOK
    <2>2. \A v \in Workers \ {w} : keep'[v] = keep[v]
          BY <1>3 DEF Restart, TypeOK
    <2>3. \A s \in Sessions : sessions[s].worker \in Workers \cup {NoWorker}
          BY DEF TypeOK
    <2>4. QED BY <2>1, <2>2, <2>3 DEF Timed, LeftFor
  <1>4. ASSUME NEW w \in Workers, NEW h \in Contents, EvictSnapshot(w, h)
        PROVE  Timed'
    <2>1. keep[w][h] = 0 /\ sessions' = sessions
          BY <1>4 DEF EvictSnapshot
    <2>2. \A v \in Workers, g \in Contents :
            keep'[v][g] = IF v = w /\ g = h THEN Absent ELSE keep[v][g]
          BY <1>4 DEF EvictSnapshot, TypeOK
    <2>3. \A s \in Sessions :
            /\ sessions[s].worker \in Workers \cup {NoWorker}
            /\ sessions[s].age \in Nat
          BY DEF TypeOK
    <2>4. QED BY <2>1, <2>2, <2>3 DEF Timed, LeftFor, Kept
  <1>5. ASSUME NEW s \in Sessions, EndSession(s) PROVE Timed'
        BY <1>5 DEF EndSession, NoSession, Timed, LeftFor, TypeOK
  <1>6. ASSUME NEW s \in Sessions, NEW w \in Workers, StartSession(s, w) PROVE Timed'
    <2>1. rev[w] \in Contents /\ keep[w][rev[w]] = Kept
          BY <1>6 DEF StartSession, Ready, Serving, TypeOK, Hashes
    <2>2. QED BY <1>6, <2>1 DEF StartSession, Timed, LeftFor, TypeOK
  <1>7. ASSUME NEW s \in Sessions, NEW w \in Workers, Move(s, w) PROVE Timed'
    <2>1. /\ sessions'[s].moved /\ sessions'[s].rev = sessions[s].rev
          /\ sessions[s].worker # NoWorker
          /\ \A t \in Sessions \ {s} : sessions'[t] = sessions[t]
          /\ keep' = keep
          BY <1>7 DEF Move, TypeOK
    <2>2. QED BY <2>1 DEF Timed, LeftFor
  <1>8. CASE Beat
    <2>1. SUFFICES ASSUME NEW s \in Sessions, sessions'[s].worker # NoWorker
                   PROVE  /\ sessions'[s].rev \in Contents
                          /\ (~sessions'[s].moved /\ sessions'[s].age < Evict) =>
                               LET l == keep'[sessions'[s].worker][sessions'[s].rev]
                               IN  l = Kept \/ (l \in Nat /\ l + sessions'[s].age >= Evict)
          BY DEF Timed, LeftFor
    <2>2. /\ sessions[s].worker # NoWorker
          /\ sessions'[s].worker = sessions[s].worker
          /\ sessions'[s].rev = sessions[s].rev
          /\ sessions'[s].moved = sessions[s].moved
          /\ sessions'[s].age = Capped(sessions[s].age, Evict)
          BY <1>8, <2>1 DEF Beat, NoSession, TypeOK
    <2>3. sessions[s].worker \in Workers /\ sessions[s].age \in 0 .. Evict
          BY <2>2 DEF TypeOK
    <2>4. sessions[s].rev \in Contents
          BY <2>2 DEF Timed
    <2> DEFINE n == keep[sessions[s].worker][sessions[s].rev]
               m == keep'[sessions[s].worker][sessions[s].rev]
    <2>5. m = Elapsed(n) /\ n # 0
          BY <1>8, <2>3, <2>4 DEF Beat
    <2>6. ASSUME ~sessions'[s].moved, sessions'[s].age < Evict
          PROVE  m = Kept \/ (m \in Nat /\ m + sessions'[s].age >= Evict)
      <3>1. sessions[s].age < Evict /\ sessions'[s].age = sessions[s].age + 1
            BY <2>2, <2>3, <2>6 DEF Capped
      <3>2. n = Kept \/ (n \in Nat /\ n + sessions[s].age >= Evict)
            BY <2>2, <2>6, <3>1 DEF Timed, LeftFor
      <3>3. QED BY <2>3, <2>5, <3>1, <3>2 DEF Elapsed, Kept
    <2>7. QED BY <2>2, <2>4, <2>6
  <1>9. QED
    <2>1. CASE \E w \in Workers : Refresh(w) \/ Throws(w)
          BY <1>1, <1>2, <2>1
          DEF Refresh, Begin, ReadHash, Compare, Lock, LoadPart, Store, Release, Finish,
              Throws
    <2>2. CASE (\E p \in Parts : Change(p)) \/ Invalidate \/ ExpireHash \/ ExpireLock
          BY <1>1, <2>2 DEF Change, Invalidate, ExpireHash, ExpireLock
    <2>3. CASE UNCHANGED vars
          BY <1>1, <2>3 DEF vars
    <2>4. QED BY <1>3, <1>4, <1>5, <1>6, <1>7, <1>8, <2>1, <2>2, <2>3 DEF Next

LEMMA SnapshotsInit == Init => Ready /\ Serving /\ Timed
  BY DEF Init, Ready, Answering, At, Serving, Timed, NoSession

\* Any number of workers and changes: getRevision never returns a revision
\* without a snapshot, also when a configuration comes back while the timer of
\* its first snapshot runs.
THEOREM CurrentAlwaysServed == Spec => []CurrentServed
  <1>1. Serving => CurrentServed
        BY DEF Serving, CurrentServed, Kept, Absent
  <1>2. QED BY <1>1, TypeInit, TypeStep, SnapshotsInit, ServingStep, PTL DEF Spec

\* Any number of workers, sessions and changes: a session that stays on its
\* worker has its snapshot for EVICT_TIMEOUT.
THEOREM SnapshotAlwaysKept == Spec => []SnapshotKept
  <1>1. TypeOK /\ Timed => SnapshotKept
        BY DEF TypeOK, Timed, LeftFor, SnapshotKept, Kept, Absent
  <1>2. QED BY <1>1, TypeInit, TypeStep, SnapshotsInit, ServingStep, TimedStep, PTL
        DEF Spec
-----------------------------------------------------------------------------
\* Stale hashes

\* What w has loaded, it has loaded since the last change: its refresh began
\* after that, because only one period can begin during a refresh.
Recent(w) == quiet >= 2 \/ (quiet >= 1 /\ ~due[w])

\* Whatever a recent refresh has read so far, or has installed, is the
\* configuration.
Fetched ==
    /\ \A w \in Workers : pc[w] \notin {"load", "dying"} => loaded[w] = Nothing
    /\ \A w \in Workers, p \in Parts :
          At(w, "load") /\ Recent(w) => loaded[w][p] \in {Unread, config[p]}
    /\ \A w \in Workers :
          (At(w, "store") \/ At(w, "release")) /\ Recent(w) => rev[w] = config

\* A stale hash has been in the database since a period after the change.
StaleDies ==
    /\ ttl <= HashTTL
    /\ stored \notin {NoHash, config} => quiet + ttl <= HashTTL + 1

\* It is compared in the same period as it is read, or in the next one ...
StaleSeen ==
    \A w \in Workers :
        At(w, "compare") /\ seen[w] \notin {NoHash, config} =>
            quiet <= IF due[w] THEN HashTTL + 2 ELSE HashTTL + 1

\* ... and is believed until a period begins.
StaleServed == \A w \in Workers : Answering(w) /\ rev[w] # config => quiet <= HashTTL + 2

Fresh == Fetched /\ StaleDies /\ StaleSeen /\ StaleServed

\* Actions that leave the configuration, the hash and the time alone, of one
\* worker: it is enough to look at that worker.
LEMMA FreshOfOne ==
  ASSUME TypeOK, Fresh, NEW w \in Workers,
         UNCHANGED <<config, stored, ttl, quiet>>,
         \A v \in Workers \ {w} :
            /\ pc'[v] = pc[v] /\ due'[v] = due[v] /\ rev'[v] = rev[v]
            /\ seen'[v] = seen[v] /\ loaded'[v] = loaded[v],
         pc'[w] \notin {"load", "dying"} => loaded'[w] = Nothing,
         pc'[w] = "load" /\ Recent(w)' =>
            \A p \in Parts : loaded'[w][p] \in {Unread, config[p]},
         pc'[w] \in {"store", "release"} /\ Recent(w)' => rev'[w] = config,
         pc'[w] = "compare" /\ seen'[w] \notin {NoHash, config} =>
            quiet <= IF due'[w] THEN HashTTL + 2 ELSE HashTTL + 1,
         Answering(w)' /\ rev'[w] # config => quiet <= HashTTL + 2
  PROVE  Fresh'
  <1>1. StaleDies'
        BY DEF Fresh, StaleDies
  <1>2. \A v \in Workers \ {w} : Recent(v)' = Recent(v) /\ Answering(v)' = Answering(v)
        BY DEF Recent, Answering, At
  <1>3. Fetched'
        BY <1>2 DEF Fresh, Fetched, At
  <1>4. StaleSeen'
        BY DEF Fresh, StaleSeen, At
  <1>5. StaleServed'
        BY <1>2 DEF Fresh, StaleServed
  <1>6. QED BY <1>1, <1>3, <1>4, <1>5 DEF Fresh

\* A refresh up to the load.
LEMMA FreshBefore ==
  ASSUME TypeOK, Fresh, NEW w \in Workers, Begin(w) \/ ReadHash(w) \/ Compare(w) \/ Lock(w)
  PROVE  Fresh'
  <1> USE CacheAssumption
  <1>a. quiet \in Nat /\ ttl \in Nat /\ HashTTL \in Nat
        BY DEF TypeOK
  <1>1. CASE Begin(w)
    <2>1. /\ pc' = [pc EXCEPT ![w] = "hash"] /\ due' = [due EXCEPT ![w] = FALSE]
          /\ pc[w] = "idle"
          /\ UNCHANGED <<config, stored, ttl, quiet, rev, seen, loaded>>
          BY <1>1 DEF Begin, Goto, At, database
    <2>2. loaded[w] = Nothing
          BY <2>1 DEF Fresh, Fetched
    <2>3. pc'[w] = "hash" /\ ~Answering(w)'
          BY <2>1 DEF TypeOK, Answering, At
    <2>4. QED BY <2>1, <2>2, <2>3, FreshOfOne DEF TypeOK
  <1>2. CASE ReadHash(w)
    <2>1. /\ pc' = [pc EXCEPT ![w] = "compare"] /\ seen' = [seen EXCEPT ![w] = stored]
          /\ pc[w] = "hash"
          /\ UNCHANGED <<config, stored, ttl, quiet, rev, due, loaded>>
          BY <1>2 DEF ReadHash, Goto, At, database
    <2>2. loaded[w] = Nothing
          BY <2>1 DEF Fresh, Fetched
    <2>3. pc'[w] = "compare" /\ ~Answering(w)' /\ seen'[w] = stored
          BY <2>1 DEF TypeOK, Answering, At
    <2>4. stored \notin {NoHash, config} => quiet <= HashTTL + 1
          BY <1>a DEF Fresh, StaleDies
    <2>5. quiet <= HashTTL + 1 => quiet <= IF due'[w] THEN HashTTL + 2 ELSE HashTTL + 1
          BY <1>a
    <2>6. QED BY <2>1, <2>2, <2>3, <2>4, <2>5, FreshOfOne DEF TypeOK
  <1>3. CASE Compare(w)
    <2>1. /\ pc[w] = "compare" /\ loaded[w] = Nothing
          /\ UNCHANGED <<config, stored, ttl, quiet, rev, due, loaded>>
          BY <1>3 DEF Compare, At, database, Fresh, Fetched
    <2>2. CASE Confirmed(w)
      <3>1. pc' = [pc EXCEPT ![w] = "done"] /\ seen' = [seen EXCEPT ![w] = NoHash]
            BY <1>3, <2>2 DEF Compare, Goto
      <3>2. rev[w] # config => quiet <= HashTTL + 2
        <4>1. rev[w] # config => quiet <= IF due[w] THEN HashTTL + 2 ELSE HashTTL + 1
              BY <2>1, <2>2 DEF Confirmed, Fresh, StaleSeen, At
        <4>2. QED BY <4>1, <1>a
      <3>3. QED BY <2>1, <3>1, <3>2, FreshOfOne DEF TypeOK
    <2>3. CASE ~Confirmed(w)
      <3>1. pc' = [pc EXCEPT ![w] = "lock"] /\ seen' = seen
            BY <1>3, <2>3 DEF Compare, Goto
      <3>2. pc'[w] = "lock" /\ ~Answering(w)'
            BY <3>1 DEF TypeOK, Answering, At
      <3>3. QED BY <2>1, <3>1, <3>2, FreshOfOne DEF TypeOK
    <2>4. QED BY <2>2, <2>3
  <1>4. CASE Lock(w)
    <2>1. /\ pc' = [pc EXCEPT ![w] = "load"] /\ pc[w] = "lock"
          /\ UNCHANGED <<config, stored, ttl, quiet, rev, due, seen, loaded>>
          BY <1>4 DEF Lock, Goto, At
    <2>2. \A p \in Parts : loaded[w][p] = Unread
          BY <2>1 DEF Fresh, Fetched, Nothing
    <2>3. pc'[w] = "load" /\ ~Answering(w)'
          BY <2>1 DEF TypeOK, Answering, At
    <2>4. QED BY <2>1, <2>2, <2>3, FreshOfOne DEF TypeOK
  <1>5. QED BY <1>1, <1>2, <1>3, <1>4

\* The load, and what follows it.
LEMMA FreshLoad ==
  ASSUME TypeOK, Fresh, NEW w \in Workers,
         Install(w) \/ Release(w) \/ Finish(w) \/ (\E p \in Parts : LoadPart(w, p))
  PROVE  Fresh'
  <1> USE CacheAssumption
  <1>a. quiet \in Nat /\ HashTTL \in Nat
        BY DEF TypeOK
  <1>1. ASSUME NEW p \in Parts, LoadPart(w, p) PROVE Fresh'
    <2>1. /\ pc[w] = "load" /\ loaded' = [loaded EXCEPT ![w][p] = config[p]]
          /\ UNCHANGED <<config, stored, ttl, quiet, pc, rev, due, seen>>
          BY <1>1 DEF LoadPart, At, database
    <2>2. /\ \A v \in Workers \ {w} : loaded'[v] = loaded[v]
          /\ \A q \in Parts : loaded'[w][q] = IF q = p THEN config[p] ELSE loaded[w][q]
          BY <2>1 DEF TypeOK
    <2>3. Recent(w)' = Recent(w) /\ ~Answering(w)'
          BY <2>1 DEF Recent, Answering, At
    <2>4. Recent(w) => \A q \in Parts : loaded'[w][q] \in {Unread, config[q]}
          BY <2>1, <2>2 DEF Fresh, Fetched, At
    <2>5. QED BY <2>1, <2>2, <2>3, <2>4, FreshOfOne
  <1>2. CASE Install(w)
    <2>1. /\ pc[w] = "load" /\ loaded[w] \in Contents
          /\ rev' = [rev EXCEPT ![w] = loaded[w]]
          /\ loaded' = [loaded EXCEPT ![w] = Nothing]
          /\ seen' = [seen EXCEPT ![w] = NoHash]
          /\ UNCHANGED <<config, stored, ttl, quiet, due>>
          BY <1>2 DEF Install, At, database
    <2>2. PICK phase \in {"done", "store", "release"} : pc' = [pc EXCEPT ![w] = phase]
          BY <1>2 DEF Install, Goto
    <2>3. Recent(w) => loaded[w] = config
      <3>1. SUFFICES ASSUME Recent(w) PROVE loaded[w] = config
            OBVIOUS
      <3>2. \A p \in Parts : loaded[w][p] \in Versions
            BY <2>1 DEF Contents
      <3>3. \A p \in Parts : loaded[w][p] = config[p]
            BY <2>1, <3>1, <3>2 DEF Fresh, Fetched, At
      <3>4. config \in Contents
            BY DEF TypeOK
      <3>5. QED BY <2>1, <3>3, <3>4 DEF Contents
    <2>4. Recent(w)' = Recent(w)
          BY <2>1 DEF Recent
    <2>5. ~Recent(w) => quiet <= HashTTL + 2
          BY <1>a DEF Recent
    <2>6. pc'[w] = phase /\ rev'[w] = loaded[w] /\ loaded'[w] = Nothing
          BY <2>1, <2>2 DEF TypeOK
    <2>7. QED BY <2>1, <2>2, <2>3, <2>4, <2>5, <2>6, FreshOfOne DEF TypeOK
  <1>3. CASE Release(w)
    <2>1. /\ pc' = [pc EXCEPT ![w] = "done"] /\ pc[w] = "release"
          /\ UNCHANGED <<config, stored, ttl, quiet, rev, due, seen, loaded>>
          BY <1>3 DEF Release, Goto, At
    <2>2. pc'[w] = "done" /\ loaded[w] = Nothing
          BY <2>1 DEF TypeOK, Fresh, Fetched
    <2>3. Recent(w) => rev[w] = config
          BY <2>1 DEF Fresh, Fetched, At
    <2>4. ~Recent(w) => quiet <= HashTTL + 2
          BY <1>a DEF Recent
    <2>5. QED BY <2>1, <2>2, <2>3, <2>4, FreshOfOne DEF TypeOK
  <1>4. CASE Finish(w)
    <2>1. /\ pc' = [pc EXCEPT ![w] = "idle"] /\ pc[w] = "done"
          /\ UNCHANGED <<config, stored, ttl, quiet, rev, due, seen, loaded>>
          BY <1>4 DEF Finish, Goto, At, database
    <2>2. pc'[w] = "idle" /\ loaded[w] = Nothing
          BY <2>1 DEF TypeOK, Fresh, Fetched
    <2>3. rev[w] # config => quiet <= HashTTL + 2
          BY <2>1 DEF Fresh, StaleServed, Answering, At
    <2>4. QED BY <2>1, <2>2, <2>3, FreshOfOne DEF TypeOK
  <1>5. QED BY <1>1, <1>2, <1>3, <1>4

\* What is stored is recent, or the change was in this period or the last.
LEMMA FreshStore ==
  ASSUME TypeOK, Fresh, NEW w \in Workers, At(w, "store"), stored' = rev[w], ttl' = StoredTTL,
         NEW phase \in {"release", "dying"}, pc' = [pc EXCEPT ![w] = phase],
         UNCHANGED <<config, quiet, rev, due, seen, loaded>>
  PROVE  Fresh'
  <1> USE CacheAssumption
  <1>1. /\ quiet \in Nat /\ HashTTL \in Nat /\ ttl' = HashTTL
        /\ pc'[w] = phase /\ \A v \in Workers \ {w} : pc'[v] = pc[v]
        BY DEF TypeOK, StoredTTL
  <1>2. Recent(w) => rev[w] = config
        BY DEF Fresh, Fetched
  <1>3. ~Recent(w) => quiet <= 1
        BY <1>1 DEF Recent
  <1>4. StaleDies'
        BY <1>1, <1>2, <1>3 DEF StaleDies
  <1>5. \A v \in Workers : Recent(v)' = Recent(v)
        BY DEF Recent
  <1>6. Fetched'
    <2>1. loaded[w] = Nothing
          BY DEF Fresh, Fetched, At
    <2>2. QED BY <1>1, <1>2, <1>5, <2>1 DEF Fresh, Fetched, At
  <1>7. StaleSeen'
        BY <1>1 DEF Fresh, StaleSeen, At
  <1>8. StaleServed'
        BY <1>1 DEF Fresh, StaleServed, Answering, At
  <1>9. QED BY <1>4, <1>6, <1>7, <1>8 DEF Fresh

\* Failures.
LEMMA FreshFailures ==
  ASSUME TypeOK, Fresh, NEW w \in Workers, Throws(w) \/ Restart(w)
  PROVE  Fresh'
  <1>1. CASE Throws(w)
    <2>1. /\ pc' = [pc EXCEPT ![w] = "dying"]
          /\ UNCHANGED <<config, quiet, rev, due, seen, loaded>>
          /\ \/ UNCHANGED <<stored, ttl>>
             \/ At(w, "store") /\ stored' = rev[w] /\ ttl' = StoredTTL
          BY <1>1 DEF Throws, Goto
    <2>2. CASE UNCHANGED <<stored, ttl>>
      <3>1. pc'[w] = "dying" /\ ~Answering(w)'
            BY <2>1 DEF TypeOK, Answering, At
      <3>2. QED BY <2>1, <2>2, <3>1, FreshOfOne DEF TypeOK
    <2>3. CASE At(w, "store") /\ stored' = rev[w] /\ ttl' = StoredTTL
          BY <2>1, <2>3, FreshStore
    <2>4. QED BY <2>1, <2>2, <2>3
  <1>2. CASE Restart(w)
    <2>1. /\ pc' = [pc EXCEPT ![w] = "idle"] /\ due' = [due EXCEPT ![w] = TRUE]
          /\ rev' = [rev EXCEPT ![w] = NoHash] /\ seen' = [seen EXCEPT ![w] = NoHash]
          /\ loaded' = [loaded EXCEPT ![w] = Nothing]
          /\ UNCHANGED <<config, stored, ttl, quiet>>
          BY <1>2 DEF Restart, Goto
    <2>2. pc'[w] = "idle" /\ loaded'[w] = Nothing /\ ~Answering(w)'
          BY <2>1 DEF TypeOK, Answering, At
    <2>3. QED BY <2>1, <2>2, FreshOfOne DEF TypeOK
  <1>3. QED BY <1>1, <1>2

\* The configuration changes, and hashes are deleted.
LEMMA FreshChanges ==
  ASSUME TypeOK, Fresh, (\E p \in Parts : Change(p)) \/ Invalidate \/ ExpireHash
  PROVE  Fresh'
  <1> USE CacheAssumption
  <1>a. quiet \in Nat /\ ttl \in Nat /\ HashTTL \in Nat
        BY DEF TypeOK
  <1>1. ASSUME NEW p \in Parts, Change(p) PROVE Fresh'
    <2>1. quiet' = 0 /\ UNCHANGED <<stored, ttl, pc, due, rev, seen, loaded>>
          BY <1>1 DEF Change
    <2>2. \A w \in Workers : ~Recent(w)'
          BY <2>1 DEF Recent
    <2>3. Fetched'
          BY <2>1, <2>2 DEF Fresh, Fetched, At
    <2>4. StaleDies'
          BY <2>1, <1>a DEF Fresh, StaleDies
    <2>5. StaleSeen' /\ StaleServed'
          BY <2>1, <1>a DEF StaleSeen, StaleServed
    <2>6. QED BY <2>3, <2>4, <2>5 DEF Fresh
  <1>2. CASE Invalidate \/ ExpireHash
    <2>1. /\ UNCHANGED <<config, quiet, pc, due, rev, seen, loaded>>
          /\ UNCHANGED <<stored, ttl>> \/ (stored' = NoHash /\ ttl' = 0)
          BY <1>2 DEF Invalidate, ExpireHash
    <2>2. Fetched' /\ StaleSeen' /\ StaleServed'
          BY <2>1 DEF Fresh, Fetched, StaleSeen, StaleServed, Recent, Answering, At
    <2>3. StaleDies'
          BY <2>1, <1>a DEF Fresh, StaleDies
    <2>4. QED BY <2>2, <2>3 DEF Fresh
  <1>3. QED BY <1>1, <1>2

\* A period begins.
LEMMA FreshBeat ==
  ASSUME TypeOK, Fresh, Beat
  PROVE  Fresh'
  <1> USE CacheAssumption
  <1>1. /\ quiet \in Nat /\ ttl \in Nat /\ HashTTL \in Nat /\ quiet' \in {quiet, quiet + 1}
        /\ due' = [w \in Workers |-> TRUE]
        /\ ttl' = Elapsed(ttl) /\ (stored = NoHash \/ ttl > 0)
        /\ UNCHANGED <<config, stored, pc, rev, seen, loaded>>
    <2>1. quiet' \in {quiet, quiet + 1}
      <3>1. quiet' = Capped(quiet, MaxQuiet) /\ quiet \in 0 .. MaxQuiet
            BY DEF Beat, TypeOK
      <3>2. QED BY <3>1 DEF Capped
    <2>2. QED BY <2>1 DEF Beat, TypeOK
  <1>2. \A w \in Workers : pc[w] \in Refreshing => ~due[w]
        BY DEF Beat
  <1>3. \A w \in Workers : pc[w] \in Refreshing /\ Recent(w)' => Recent(w)
        BY <1>1, <1>2 DEF Recent
  <1>4. Fetched'
        BY <1>1, <1>3 DEF Fresh, Fetched, At, Refreshing
  <1>5. StaleDies'
        BY <1>1, ElapsedType DEF Fresh, StaleDies
  <1>6. StaleSeen'
    <2>1. SUFFICES ASSUME NEW w \in Workers, pc[w] = "compare", seen[w] \notin {NoHash, config}
                   PROVE  quiet' <= HashTTL + 2
          BY <1>1 DEF StaleSeen, At
    <2>2. ~due[w]
          BY <1>2, <2>1 DEF Refreshing
    <2>3. quiet <= HashTTL + 1
          BY <2>1, <2>2 DEF Fresh, StaleSeen, At
    <2>4. QED BY <1>1, <2>3
  <1>7. StaleServed'
    <2>1. \A w \in Workers : ~Answering(w)'
          BY <1>1 DEF Beat, Answering, At
    <2>2. QED BY <2>1 DEF StaleServed
  <1>8. QED BY <1>4, <1>5, <1>6, <1>7 DEF Fresh

LEMMA FreshInit == Init => Fresh
  BY CacheAssumption
  DEF Init, Fresh, Fetched, StaleDies, StaleSeen, StaleServed, Recent, Answering, At

LEMMA FreshStep == TypeOK /\ Fresh /\ [Next]_vars => Fresh'
  <1> SUFFICES ASSUME TypeOK, Fresh, [Next]_vars PROVE Fresh'
      OBVIOUS
  <1>1. ASSUME NEW w \in Workers, Store(w) PROVE Fresh'
    <2>1. pc' = [pc EXCEPT ![w] = "release"]
          BY <1>1 DEF Store, Goto
    <2>2. QED BY <1>1, <2>1, FreshStore DEF Store
  <1>2. CASE UNCHANGED <<config, stored, ttl, pc, due, rev, seen, loaded, quiet>>
        BY <1>2 DEF Fresh, Fetched, StaleDies, StaleSeen, StaleServed, Recent, Answering, At
  <1>3. ASSUME NEW w \in Workers,
               \/ \E h \in Contents : EvictSnapshot(w, h)
               \/ \E s \in Sessions : StartSession(s, w) \/ Move(s, w)
        PROVE  Fresh'
        BY <1>2, <1>3 DEF EvictSnapshot, StartSession, Move, database
  <1>4. ASSUME ExpireLock \/ (\E s \in Sessions : EndSession(s)) PROVE Fresh'
        BY <1>2, <1>4 DEF ExpireLock, EndSession, database
  <1>5. CASE UNCHANGED vars
        BY <1>2, <1>5 DEF vars
  <1>6. QED BY <1>1, <1>3, <1>4, <1>5, FreshBefore, FreshLoad, FreshFailures,
               FreshChanges, FreshBeat
        DEF Next, Refresh

\* Any number of workers, collections, changes and failures: once the last
\* change is older than the life of a hash and two periods, no caller of
\* getRevision gets an old configuration, whatever became of cache.del.
THEOREM AnswersAlwaysFresh == Spec => []FreshAnswers
  <1>1. TypeOK /\ Fresh => FreshAnswers
    <2>1. SUFFICES ASSUME TypeOK, Fresh, NEW w \in Workers, Answering(w), quiet > Settled,
                          rev[w] # config
                   PROVE  FALSE
          BY DEF FreshAnswers
    <2>2. quiet <= HashTTL + 2
          BY <2>1 DEF Fresh, StaleServed
    <2>3. quiet \in Nat /\ HashTTL \in Nat
          BY <2>1, CacheAssumption DEF TypeOK
    <2>4. QED BY <2>1, <2>2, <2>3 DEF Settled
  <1>2. QED BY <1>1, TypeInit, TypeStep, FreshInit, FreshStep, PTL DEF Spec
=============================================================================
