---------------------------- MODULE CwmpSession ----------------------------
(***************************************************************************)
(* The life of the CWMP sessions of ONE device, as lib/cwmp.ts runs them   *)
(* over several worker processes: which socket, handler, cache entry or    *)
(* timer holds a session context, when the context is ended (endSession),  *)
(* and how the device lock `cwmp_session_<device>` is taken, extended and  *)
(* released while the database deletes expired documents on its own clock. *)
(*                                                                         *)
(* Time is a global clock.  Every asynchronous phase of the code (a        *)
(* database call, authentication, the computation of the next RPC) starts  *)
(* at a `since` and ends at most ProcTime later; steps at one instant      *)
(* interleave freely.                                                      *)
(***************************************************************************)
EXTENDS Integers, FiniteSets

CONSTANTS
    Sessions,       \* session contexts that may ever be created
    NoSession,      \* "no session context" (undefined in the code)
    Conns,          \* client connections (one socket each at a time)
    NoConn,         \* a socket that is gone
    Workers,        \* cwmp worker processes
    WorkerOf,       \* the worker that accepted a connection
    Requests,       \* the kinds of requests the device sends
    Timeout,        \* sessionContext.timeout: idle time allowed to the device
    RefreshInterval,  \* LOCK_REFRESH_INTERVAL
    RequestTimeout,   \* REQUEST_TIMEOUT
    SkewTolerance,    \* CLOCK_SKEW_TOLERANCE
    ClockSkew,      \* how far the database clock runs ahead
    TimerGrace,     \* the extra second of the close timer
    CacheGrace,     \* the extra three seconds of the cached session
    ResumeDelay,    \* the wait before a session is popped from the cache
    ProcTime,       \* bound on every asynchronous phase
    MaxTime,        \* bound of the clock
    MaxOrphans      \* bound of `orphan` beyond which nothing more fails

RequestKinds == {"inform", "transfer", "unknown", "empty", "response",
                 "unsupported", "garbage"}

\* Sizes and names only: nothing here says that the time-outs fit together.
ASSUME ConstantsAssumption ==
    /\ NoSession \notin Sessions
    /\ NoConn \notin Conns
    /\ WorkerOf \in [Conns -> Workers]
    /\ Requests \subseteq RequestKinds
    /\ Timeout \in Nat \ {0} /\ RefreshInterval \in Nat
    /\ RequestTimeout \in Nat /\ SkewTolerance \in Nat
    /\ ClockSkew \in Nat /\ TimerGrace \in Nat /\ CacheGrace \in Nat
    /\ ResumeDelay \in Nat \ {0}
    /\ ProcTime \in Nat /\ MaxTime \in Nat /\ MaxOrphans \in Nat

\* What makes the lock's time-to-live sufficient: the slowest legal path from
\* the last extension of a lock to its next use must fit in the slack that
\* REQUEST_TIMEOUT and CLOCK_SKEW_TOLERANCE add to the lock.
ASSUME TimingAssumption ==
    /\ ProcTime < RefreshInterval
    /\ TimerGrace + 6 * ProcTime + ClockSkew <= RequestTimeout + SkewTolerance
    /\ 2 * ProcTime + ClockSkew <= SkewTolerance
    /\ TimerGrace + 2 * ProcTime + ClockSkew < CacheGrace + SkewTolerance

\* Mutated form: the request timeout is forgotten.
LockTTLWithoutRequest == Timeout + RefreshInterval + SkewTolerance

LockTTL == Timeout + RefreshInterval + RequestTimeout + SkewTolerance

VARIABLES
    now,        \* Date.now()
    lock,       \* the document of the locks collection: owner (token), expire
    cache,      \* cache[s]: expiry of the document session_<s>, 0 if absent
    ctx,        \* ctx[s]: the fields of the live SessionContext
    open,       \* open[c]: the socket of connection c is not destroyed
    current,    \* currentSessions: socket -> context
    handler,    \* handler[c]: the listener() call running for c
    extending,  \* lock extensions in flight in writeResponse
    watch,      \* onConnection() calls past the socket's close event
    started,    \* contexts created by session.init
    ends,       \* ends[s]: calls of endSession for s
    orphan,     \* sessions hit by a failure: their holder or lock extension died
    dying,      \* workers that met an uncaught exception and will exit
    stale       \* contexts loaded before another session's save

vars == <<now, lock, cache, ctx, open, current, handler, extending, watch,
          started, ends, orphan, dying, stale>>

-----------------------------------------------------------------------------
\* Types

NoLock == [owner |-> NoSession, expire |-> 0]
FreshContext == [state |-> 0, auth |-> 0, lastActivity |-> 0, extendLock |-> 0]
Idle == [pc |-> "idle", session |-> NoSession, req |-> "none", since |-> 0]

Phases == {"idle", "auth", "lock", "run", "end", "release"}
WatchPhases == {"store", "wait", "end", "release"}

Context == [state: 0 .. 2, auth: 0 .. 2, lastActivity: Nat, extendLock: Nat]
Handler == [pc: Phases, session: Sessions \cup {NoSession},
            req: RequestKinds \cup {"none"}, since: Nat]
Watch == [session: Sessions, worker: Workers, lastActivity: Nat,
          timer: BOOLEAN, pc: WatchPhases, since: Nat]
Extension == [session: Sessions, conn: Conns \cup {NoConn}, worker: Workers,
              since: Nat]

\* Every variable keeps its type: a context never leaves the three states and
\* three authentication states of the code (state and authState of
\* SessionContext), and an idle time is never computed from a missing one.
TypeOK ==
    /\ now \in Nat
    /\ lock \in [owner: Sessions \cup {NoSession}, expire: Nat]
    /\ cache \in [Sessions -> Nat]
    /\ ctx \in [Sessions -> Context]
    /\ open \in [Conns -> BOOLEAN]
    /\ current \in [Conns -> Sessions \cup {NoSession}]
    /\ handler \in [Conns -> Handler]
    /\ extending \subseteq Extension
    /\ watch \subseteq Watch
    /\ started \subseteq Sessions
    /\ ends \in [Sessions -> Nat]
    /\ orphan \subseteq Sessions
    /\ dying \subseteq Workers
    /\ stale \subseteq Sessions

Init ==
    /\ now = 1
    /\ lock = NoLock
    /\ cache = [s \in Sessions |-> 0]
    /\ ctx = [s \in Sessions |-> FreshContext]
    /\ open = [c \in Conns |-> FALSE]
    /\ current = [c \in Conns |-> NoSession]
    /\ handler = [c \in Conns |-> Idle]
    /\ extending = {}
    /\ watch = {}
    /\ started = {}
    /\ ends = [s \in Sessions |-> 0]
    /\ orphan = {}
    /\ dying = {}
    /\ stale = {}

-----------------------------------------------------------------------------
\* Phases of a handler

\* Connection c has s: its context is on the socket or in a running handler.
LiveAt(c, s) == current[c] = s \/ handler[c].session = s

\* Handler c starts phase pc for session s; only authenticate() still has the
\* request to look at afterwards.
Enter(c, pc, s, r) ==
    handler' = [handler EXCEPT ![c] = [pc |-> pc, session |-> s, since |-> now,
                                       req |-> IF pc = "auth" THEN r ELSE "none"]]

Leave(c) == handler' = [handler EXCEPT ![c] = Idle]

\* endSession(s) is called: its saves are now in flight in handler c.
EnterEnd(c, s) ==
    /\ Enter(c, "end", s, "none")
    /\ ends' = [ends EXCEPT ![s] = @ + 1]

\* The context of a session that was never admitted becomes garbage: no device
\* has its cookie, so the name s can be used again.
Discard(s) ==
    /\ started' = started \ {s}
    /\ ctx' = [ctx EXCEPT ![s] = FreshContext]
    /\ stale' = stale \ {s}

\* A context is dropped without endSession.
Forget(s) ==
    \/ /\ ctx[s].state = 0
       /\ Discard(s)
       /\ UNCHANGED orphan
    \/ /\ ctx[s].state # 0
       /\ orphan' = orphan \cup {s}
       /\ UNCHANGED <<started, ctx, stale>>

\* Handler c is in phase pc.
At(c, pc) == handler[c].pc = pc

\* Worker k stops listening and will exit once its connections are closed or
\* server.stop has lost patience.
Uncaught(k) == dying' = dying \cup {k}

\* A worker that still listens can give connection c a socket.
Reachable(c) == open[c] \/ WorkerOf[c] \notin dying

\* sessionContext.lastActivity + timeout < Date.now(); undefined compares false
Expired(s) ==
    /\ ctx[s].lastActivity # 0
    /\ ctx[s].lastActivity + Timeout < now

\* What processRequest does with an authenticated request of kind r in a
\* session in state 1 or 2: go on to writeResponse or nextRpc ("run"), report a
\* bad state and end the session ("end"), or throw.
Outcome(state, r) ==
    CASE r = "unknown" -> "run"
      [] r = "transfer" -> IF state = 1 THEN "run" ELSE "end"
      [] r = "empty" -> IF state = 1 THEN "run" ELSE "end"
      [] r = "response" -> IF state = 2 THEN "run" ELSE "end"
      [] r = "unsupported" -> IF state = 1 THEN "throw" ELSE "end"
      [] OTHER -> "end"

\* Only the empty request that ends the device's part moves a session on.
NextState(state, r) == IF state = 1 /\ r = "empty" THEN 2 ELSE state

\* The rest of processRequest once s is authenticated.
Dispatch(c, s, r) ==
    LET outcome == Outcome(ctx[s].state, r) IN
    /\ ctx' = [ctx EXCEPT ![s].state = NextState(@, r), ![s].auth = 2]
    /\ \/ /\ outcome = "run"
          /\ Enter(c, "run", s, "none")
          /\ UNCHANGED <<ends, orphan, dying>>
       \/ /\ outcome = "end"
          /\ EnterEnd(c, s)
          /\ UNCHANGED <<orphan, dying>>
       \/ /\ outcome = "throw"
          /\ Leave(c)
          /\ orphan' = orphan \cup {s}
          /\ Uncaught(WorkerOf[c])
          /\ UNCHANGED ends

-----------------------------------------------------------------------------
\* Sockets

\* The socket of c closes and onConnection runs on to its first await: it ends
\* the session when its idle time is over, and else stores it and sets a timer.
Disconnect(c) ==
    LET s == current[c] IN
    /\ open[c]
    /\ s # NoSession \/ ~At(c, "idle")
    /\ open' = [open EXCEPT ![c] = FALSE]
    /\ current' = [current EXCEPT ![c] = NoSession]
    /\ extending' = {IF e.conn = c THEN [e EXCEPT !.conn = NoConn] ELSE e :
                        e \in extending}
    /\ \/ /\ s = NoSession
          /\ UNCHANGED <<watch, ends, orphan, started, ctx, stale>>
       \/ /\ s # NoSession
          /\ ctx[s].auth # 2
          /\ Forget(s)
          /\ UNCHANGED <<watch, ends>>
       \/ /\ s # NoSession
          /\ ctx[s].auth = 2
          /\ UNCHANGED <<started, ctx, stale>>
          /\ LET due == ctx[s].lastActivity + Timeout
                 rec(pc) == [session |-> s, worker |-> WorkerOf[c],
                             lastActivity |-> ctx[s].lastActivity,
                             timer |-> pc = "store", pc |-> pc, since |-> now]
             IN  \/ /\ due <= now
                    /\ watch' = watch \cup {rec("end")}
                    /\ ends' = [ends EXCEPT ![s] = @ + 1]
                 \/ /\ due > now
                    /\ watch' = watch \cup {rec("store")}
                    /\ UNCHANGED ends
          /\ UNCHANGED orphan
    /\ UNCHANGED <<now, lock, cache, handler, dying>>

-----------------------------------------------------------------------------
\* listenerAsync: a complete request of kind r arrives on c

\* The connection already has a session; `cookie` says whether the session
\* cookie of the request is the right one.
ReceiveInSession(c, r, cookie) ==
    LET s == current[c] IN
    /\ open[c] /\ At(c, "idle")
    /\ s # NoSession
    /\ current' = [current EXCEPT ![c] = NoSession]
    /\ \/ \* clientError for an invalid session or an unreadable request, or
          \* reportBadState, before the session was admitted
          /\ ctx[s].state = 0
          /\ r # "inform"
          /\ Leave(c)
          /\ Discard(s)
          /\ UNCHANGED <<ends, orphan, dying>>
       \/ \* clientError for an admitted session
          /\ ctx[s].state # 0
          /\ ~cookie \/ Expired(s) \/ r = "garbage"
          /\ EnterEnd(c, s)
          /\ UNCHANGED <<ctx, started, stale, orphan, dying>>
       \/ \* authenticate() for the first time, or again after a 401
          /\ ~Expired(s)
          /\ \/ ctx[s].state = 0 /\ r = "inform"
             \/ ctx[s].state # 0 /\ ctx[s].auth # 2 /\ cookie /\ r # "garbage"
          /\ Enter(c, "auth", s, r)
          /\ UNCHANGED <<ctx, started, stale, ends, orphan, dying>>
       \/ /\ ~Expired(s) /\ cookie /\ r # "garbage"
          /\ ctx[s].state # 0 /\ ctx[s].auth = 2
          /\ Dispatch(c, s, r)
          /\ UNCHANGED <<started, stale>>
    /\ UNCHANGED <<now, lock, cache, open, extending, watch>>

\* Mutated form: cache.get in the place of cache.pop.
PoppedByGet(s) == [cache EXCEPT ![s] = @]

\* The cache after cache.pop of session_<s>.
Popped(s) == [cache EXCEPT ![s] = 0]

\* A request other than an Inform, with the cookie of s, on a connection that is
\* new or has no session.  The handler waits ResumeDelay, holding nothing, and
\* then pops s from the cache: one action, at the time of the pop.  When the
\* pop finds nothing ("Invalid session") no state changes.
Resume(c, r, s) ==
    /\ At(c, "idle") /\ current[c] = NoSession /\ Reachable(c)
    /\ open' = [open EXCEPT ![c] = TRUE]
    /\ r # "inform"
    /\ cache[s] # 0
    /\ now >= ctx[s].lastActivity + ResumeDelay
    /\ cache' = Popped(s)
    /\ \/ /\ r = "garbage"
          /\ EnterEnd(c, s)
          /\ UNCHANGED ctx
       \/ /\ r # "garbage"
          /\ ctx' = [ctx EXCEPT ![s].auth = IF @ # 1 THEN 0 ELSE @]
          /\ Enter(c, "auth", s, r)
          /\ UNCHANGED ends
    /\ UNCHANGED <<now, lock, current, extending, watch, started, orphan, dying,
                   stale>>

\* An Inform on such a connection: session.init, then the tasks, faults, operations
\* and parameters of the device are read.
ReceiveInform(c, s) ==
    /\ At(c, "idle") /\ current[c] = NoSession /\ Reachable(c)
    /\ open' = [open EXCEPT ![c] = TRUE]
    /\ s \notin started
    /\ started' = started \cup {s}
    /\ ctx' = [ctx EXCEPT ![s].extendLock = now + RefreshInterval]
    /\ Enter(c, "auth", s, "inform")
    /\ UNCHANGED <<now, lock, cache, current, extending, watch, ends,
                   orphan, dying, stale>>

-----------------------------------------------------------------------------
\* processRequest

AuthSucceeds(c) ==
    LET s == handler[c].session IN
    /\ At(c, "auth")
    /\ \/ /\ ctx[s].state = 0
          /\ Enter(c, "lock", s, "none")
          /\ UNCHANGED <<ctx, ends, orphan, dying>>
       \/ /\ ctx[s].state # 0
          /\ Dispatch(c, s, handler[c].req)
    /\ UNCHANGED <<now, lock, cache, open, current, extending, watch, started,
                   stale>>

\* The first failure is answered with a challenge and the context is put back
\* on the socket, destroyed or not; the second one is final.
AuthFails(c) ==
    LET s == handler[c].session IN
    /\ At(c, "auth")
    /\ \/ /\ ctx[s].auth = 0 /\ open[c]
          /\ ctx' = [ctx EXCEPT ![s].auth = 1]
          /\ current' = [current EXCEPT ![c] = s]
          /\ Leave(c)
          /\ UNCHANGED <<started, stale, ends, orphan>>
       \/ /\ ctx[s].auth = 0 /\ ~open[c]
          /\ Forget(s)
          /\ Leave(c)
          /\ UNCHANGED <<current, ends>>
       \/ /\ ctx[s].auth # 0 /\ ctx[s].state = 0
          /\ Discard(s)
          /\ Leave(c)
          /\ UNCHANGED <<current, ends, orphan>>
       \/ /\ ctx[s].auth # 0 /\ ctx[s].state # 0
          /\ EnterEnd(c, s)
          /\ UNCHANGED <<ctx, current, started, stale, orphan>>
    /\ UNCHANGED <<now, lock, cache, open, extending, watch, dying>>

\* acquireLock as the database executes it: the upsert succeeds when the lock
\* is free or has this token, and the expiry was computed when the call was
\* made.
Grant(s, called) == lock' = [owner |-> s, expire |-> called + LockTTL]

\* Mutated form: the filter of the upsert lost its token.
GrantableToAny(s) == s \in Sessions

Grantable(s) == lock.owner \in {NoSession, s}

\* The first acquireLock of a session admits it.
AcquireLock(c) ==
    LET s == handler[c].session IN
    /\ At(c, "lock")
    /\ \/ /\ Grantable(s)
          /\ Grant(s, handler[c].since)
          /\ ctx' = [ctx EXCEPT ![s].state = 1, ![s].auth = 2]
          /\ Enter(c, "run", s, "none")
          /\ UNCHANGED <<started, stale>>
       \/ \* "CPE already in session"
          /\ ~Grantable(s)
          /\ Discard(s)
          /\ Leave(c)
          /\ UNCHANGED lock
    /\ UNCHANGED <<now, cache, open, current, extending, watch, ends, orphan,
                   dying>>

\* Mutated form: writeResponse does not look at connection.destroyed.
NeverDestroyed(c) == c \notin Conns

\* connection.destroyed, for the socket of the request that c's handler serves
Destroyed(c) == ~open[c]

\* writeResponse without close: the context goes back to currentSessions
\* before a due lock extension is awaited.
Respond(c) ==
    LET s == handler[c].session IN
    /\ At(c, "run")
    /\ \/ /\ Destroyed(c)
          /\ EnterEnd(c, s)
          /\ UNCHANGED <<ctx, current, extending>>
       \/ /\ ~Destroyed(c)
          /\ Leave(c)
          /\ current' = [current EXCEPT ![c] = s]
          /\ LET due == now >= ctx[s].extendLock IN
             /\ ctx' = [ctx EXCEPT
                          ![s].extendLock = IF due THEN now + RefreshInterval
                                                   ELSE @,
                          ![s].lastActivity = now]
             /\ extending' = extending \cup
                    (IF due THEN {[session |-> s, conn |-> c, since |-> now,
                                   worker |-> WorkerOf[c]]}
                            ELSE {})
          /\ UNCHANGED ends
    /\ UNCHANGED <<now, lock, cache, open, watch, started, orphan, dying, stale>>

\* nextRpc has nothing left to do: writeResponse with close.
Finish(c) ==
    LET s == handler[c].session IN
    /\ At(c, "run")
    /\ ctx[s].state = 2
    /\ EnterEnd(c, s)
    /\ UNCHANGED <<now, lock, cache, ctx, open, current, extending, watch,
                   started, orphan, dying, stale>>

\* Any awaited call of a handler rejects: listener() forgets the context and
\* rethrows, and nothing catches it.  An acquireLock that rejects may still have taken the lock.
HandlerThrows(c) ==
    LET s == handler[c].session IN
    /\ Cardinality(orphan) < MaxOrphans
    /\ handler[c].pc # "idle"
    /\ Leave(c)
    /\ Uncaught(WorkerOf[c])
    /\ \/ /\ Forget(s)
          /\ UNCHANGED lock
       \/ /\ At(c, "lock") /\ Grantable(s)
          /\ Grant(s, handler[c].since)
          /\ orphan' = orphan \cup {s}
          /\ UNCHANGED <<started, ctx, stale>>
    /\ UNCHANGED <<now, cache, open, current, extending, watch, ends>>

-----------------------------------------------------------------------------
\* The lock: extension, endSession, expiry

\* The acquireLock of writeResponse completes.
ExtendLock(e) ==
    /\ e \in extending
    /\ Grantable(e.session)
    /\ Grant(e.session, e.since)
    /\ extending' = extending \ {e}
    /\ UNCHANGED <<now, cache, ctx, open, current, handler, watch, started, ends,
                   orphan, dying, stale>>

\* It finds the lock taken by another session, or rejects (extended or not):
\* writeResponse throws and listener() deletes whatever session the same socket
\* has by then.
ExtensionFails(e) ==
    LET victims == IF e.conn \in Conns THEN {current[e.conn]} \ {NoSession} ELSE {}
    IN
    /\ e \in extending
    /\ \/ ~Grantable(e.session) /\ UNCHANGED lock
       \/ Cardinality(orphan) < MaxOrphans /\ UNCHANGED lock
       \/ /\ Cardinality(orphan) < MaxOrphans
          /\ Grantable(e.session)
          /\ Grant(e.session, e.since)
    /\ extending' = extending \ {e}
    /\ current' = [c \in Conns |-> IF c = e.conn THEN NoSession ELSE current[c]]
    /\ orphan' = orphan \cup victims \cup {e.session}
    /\ Uncaught(e.worker)
    /\ UNCHANGED <<now, cache, ctx, open, handler, watch, started, ends, stale>>

\* The saves of endSession: every other live session was loaded before.
Outdate(s) ==
    stale' = stale \cup {t \in started \ {s} : \E c \in Conns : LiveAt(c, t)}

\* releaseLock on worker k: deletes the document only if it has this token, and
\* throws "Lock expired" otherwise.
Release(s, k) ==
    \/ /\ lock.owner = s
       /\ lock' = NoLock
       /\ UNCHANGED dying
    \/ /\ lock.owner # s
       /\ Uncaught(k)
       /\ UNCHANGED lock

SaveInHandler(c) ==
    LET s == handler[c].session IN
    /\ At(c, "end")
    /\ Outdate(s)
    /\ Enter(c, "release", s, "none")
    /\ UNCHANGED <<now, lock, cache, ctx, open, current, extending, watch,
                   started, ends, orphan, dying>>

ReleaseInHandler(c) ==
    /\ At(c, "release")
    /\ Release(handler[c].session, WorkerOf[c])
    /\ Leave(c)
    /\ UNCHANGED <<now, cache, ctx, open, current, extending, watch, started,
                   ends, orphan, stale>>

\* The TTL indexes delete expired documents some time after they expired.
ExpireLock ==
    /\ lock.owner # NoSession
    /\ now + ClockSkew >= lock.expire
    /\ lock' = NoLock
    /\ UNCHANGED <<now, cache, ctx, open, current, handler, extending, watch,
                   started, ends, orphan, dying, stale>>

ExpireCache(s) ==
    /\ cache[s] # 0
    /\ now + ClockSkew >= cache[s]
    /\ cache' = [cache EXCEPT ![s] = 0]
    /\ UNCHANGED <<now, lock, ctx, open, current, handler, extending, watch,
                   started, ends, orphan, dying, stale>>

-----------------------------------------------------------------------------
\* onConnection after the socket closed

Replace(w, pc, t) == watch' = (watch \ {w}) \cup {[w EXCEPT !.pc = pc, !.since = t]}

\* `timeout` of onConnection: what is left of the session's idle time.
Left(w) == w.lastActivity + Timeout - w.since

CacheExpiry(w) == w.since + Left(w) + CacheGrace + SkewTolerance

\* cache.set completes; its expiry was computed at the close, and the timer
\* (until `since` of the waiting record) is only started now.
StoreSession(w) ==
    /\ w \in watch /\ w.pc = "store"
    /\ cache' = [cache EXCEPT ![w.session] = CacheExpiry(w)]
    /\ Replace(w, "wait", now + Left(w) + TimerGrace)
    /\ UNCHANGED <<now, lock, ctx, open, current, handler, extending, started,
                   ends, orphan, dying, stale>>

\* The timer fires and cache.get answers: the session is ended if it is still
\* cached with the same lastActivity.  The cache entry stays.
CheckSession(w) ==
    LET s == w.session IN
    /\ w \in watch /\ w.pc = "wait"
    /\ now >= w.since
    /\ \/ /\ cache[s] # 0 /\ ctx[s].lastActivity = w.lastActivity
          /\ Replace(w, "end", now)
          /\ ends' = [ends EXCEPT ![s] = @ + 1]
       \/ /\ cache[s] = 0 \/ ctx[s].lastActivity # w.lastActivity
          /\ watch' = watch \ {w}
          /\ UNCHANGED ends
    /\ UNCHANGED <<now, lock, cache, ctx, open, current, handler, extending,
                   started, orphan, dying, stale>>

SaveInWatch(w) ==
    /\ w \in watch /\ w.pc = "end"
    /\ Outdate(w.session)
    /\ Replace(w, "release", now)
    /\ UNCHANGED <<now, lock, cache, ctx, open, current, handler, extending,
                   started, ends, orphan, dying>>

ReleaseInWatch(w) ==
    /\ w \in watch /\ w.pc = "release"
    /\ Release(w.session, w.worker)
    /\ watch' = watch \ {w}
    /\ UNCHANGED <<now, cache, ctx, open, current, handler, extending, started,
                   ends, orphan, stale>>

\* A cache, save or lock call of onConnection rejects, and nothing catches it.
WatchThrows(w) ==
    /\ w \in watch
    /\ Cardinality(orphan) < MaxOrphans
    /\ watch' = watch \ {w}
    /\ orphan' = orphan \cup {w.session}
    /\ Uncaught(w.worker)
    /\ UNCHANGED <<now, lock, cache, ctx, open, current, handler, extending,
                   started, ends, stale>>

-----------------------------------------------------------------------------
\* Worker crash and time

\* The sessions that depend on worker k: on its sockets, in its handlers,
\* waiting for one of its close timers or for a lock extension.
HeldBy(k) ==
    {current[c] : c \in {d \in Conns : WorkerOf[d] = k}} \cup
    {handler[c].session : c \in {d \in Conns : WorkerOf[d] = k}} \cup
    {w.session : w \in {v \in watch : v.worker = k}} \cup
    {e.session : e \in {x \in extending : x.worker = k}}

\* The process ends, killed or after an uncaught exception; cluster.ts forks
\* another one.
Crash(k) ==
    /\ \/ k \in dying
       \/ Cardinality(orphan) < MaxOrphans /\ HeldBy(k) # {NoSession}
    /\ dying' = dying \ {k}
    /\ orphan' = orphan \cup (HeldBy(k) \ {NoSession})
    /\ open' = [c \in Conns |-> open[c] /\ WorkerOf[c] # k]
    /\ current' = [c \in Conns |-> IF WorkerOf[c] = k THEN NoSession
                                                       ELSE current[c]]
    /\ handler' = [c \in Conns |-> IF WorkerOf[c] = k THEN Idle ELSE handler[c]]
    /\ extending' = {e \in extending : e.worker # k}
    /\ watch' = {w \in watch : w.worker # k}
    /\ UNCHANGED <<now, lock, cache, ctx, started, ends, stale>>

\* Time passes only while every pending phase is within its bound, and no
\* socket with a session has been idle beyond socket.setTimeout (a request that
\* has started may take REQUEST_TIMEOUT more).
Tick ==
    /\ now < MaxTime
    /\ \A c \in Conns : At(c, "idle") \/ now < handler[c].since + ProcTime
    /\ \A e \in extending : now < e.since + ProcTime
    /\ \A w \in watch : now < w.since + ProcTime
    /\ \A c \in Conns :
          LET s == current[c] IN
          (s # NoSession /\ ctx[s].auth = 2) =>
              now < ctx[s].lastActivity + Timeout + RequestTimeout
    /\ now' = now + 1
    /\ UNCHANGED <<lock, cache, ctx, open, current, handler, extending, watch,
                   started, ends, orphan, dying, stale>>

\* The model's clock stops here (so a deadlock before is one of the phases).
Horizon == now = MaxTime /\ UNCHANGED vars

Next ==
    \/ \E c \in Conns :
          \/ Disconnect(c)
          \/ \E r \in Requests, cookie \in BOOLEAN : ReceiveInSession(c, r, cookie)
          \/ \E r \in Requests, s \in Sessions : Resume(c, r, s)
          \/ \E s \in Sessions : ReceiveInform(c, s)
          \/ AuthSucceeds(c) \/ AuthFails(c) \/ AcquireLock(c)
          \/ Respond(c) \/ Finish(c) \/ HandlerThrows(c)
          \/ SaveInHandler(c) \/ ReleaseInHandler(c)
    \/ \E e \in extending : ExtendLock(e) \/ ExtensionFails(e)
    \/ ExpireLock
    \/ \E s \in Sessions : ExpireCache(s)
    \/ \E w \in watch : \/ StoreSession(w) \/ CheckSession(w)
                        \/ SaveInWatch(w) \/ ReleaseInWatch(w)
                        \/ WatchThrows(w)
    \/ \E k \in Workers : Crash(k)
    \/ Tick
    \/ Horizon

Spec == Init /\ [][Next]_vars

-----------------------------------------------------------------------------
\* Properties

\* Where an admitted session can be: on the socket of c, in a handler, between
\* its socket's close and the cache, or in the cache with a close timer that
\* will find it unchanged.
OnSocket(s) == \E c \in Conns : current[c] = s /\ open[c]
InHandler(s, pcs) == \E c \in Conns : handler[c].session = s /\ handler[c].pc \in pcs
InWatch(s, pcs) == \E w \in watch : w.session = s /\ w.pc \in pcs
Waiting(s) ==
    /\ cache[s] # 0
    /\ \E w \in watch : /\ w.session = s /\ w.pc = "wait"
                        /\ w.lastActivity = ctx[s].lastActivity
Admitted(s) == ctx[s].state # 0

\* The endSession of a close timer works on the context that onConnection kept,
\* while the cache still has its own (cache.get, not cache.pop).
ByTimer(w) == w.timer /\ w.pc \in {"end", "release"}

\* onConnection has the only context: until it is stored, or until the
\* endSession of a session whose idle time was over at the close returns.
Closes(w) == w.pc = "store" \/ ~w.timer

\* The places that hold the context of s: it is worked on there, or the next
\* request or timer takes it from there.
Holders(s) ==
    {<<"socket", c>> : c \in {d \in Conns : current[d] = s}} \cup
    {<<"handler", c>> : c \in {d \in Conns : handler[d].session = s}} \cup
    {<<"close", w>> : w \in {v \in watch : v.session = s /\ Closes(v)}} \cup
    {<<"timer", w>> : w \in {v \in watch : v.session = s /\ ByTimer(v)}} \cup
    (IF cache[s] # 0 THEN {<<"cache", s>>} ELSE {})

\* A context is never in two places, so that no request and no other worker
\* works on a session that a handler or onConnection is working on (each place
\* in cwmp.ts takes the context away from the previous one: delete from
\* currentSessions, cache.pop, cache.set after the delete).  The one exception
\* is a session whose close timer has fired: it reads the cache with cache.get,
\* so that a late request may take the entry and go on with the session, on a
\* socket or in a handler, while the endSession of the timer is under way
\* (NoConcurrentSessions shows what comes of it).
SingleHolder ==
    \A s \in Sessions : \A h, g \in Holders(s) : h = g \/ "timer" \in {h[1], g[1]}

\* A session in progress: not ended, or being ended for the first time.  Left
\* out is a session that was challenged again on a new connection (auth 1) once
\* it no longer runs (nothing bounds the time its socket stays idle), and an
\* orphan still in the cache (its close timer died with a worker).
InProgress(s) ==
    /\ Admitted(s) /\ s \notin orphan
    /\ \/ /\ ends[s] = 0
          /\ \/ OnSocket(s) /\ ctx[s].auth = 2
             \/ InHandler(s, {"auth", "run"}) \/ InWatch(s, {"store"}) \/ Waiting(s)
       \/ /\ ends[s] = 1
          /\ \/ InHandler(s, {"end", "release"}) /\ ctx[s].auth # 1
             \/ InWatch(s, {"end", "release"})

\* As long as a session is in progress, through reconnections and until
\* releaseLock returns, the device lock is its own: no other session of the
\* device is admitted meanwhile and releaseLock does not throw "Lock expired".
LockCoverage == \A s \in Sessions : InProgress(s) => lock.owner = s

\* An admitted session that endSession was not called for is still somewhere
\* it will be served or timed out from, unless its worker died, its handler
\* threw, or it was dropped with a pending challenge.
Accounted ==
    \A s \in Sessions \ orphan :
        (Admitted(s) /\ ends[s] = 0) =>
            \/ OnSocket(s) \/ InHandler(s, {"auth", "run"})
            \/ InWatch(s, {"store"}) \/ Waiting(s)

\* The abstract view: the sessions in progress are the holders of a mutex.
Mutex == INSTANCE DeviceMutex WITH holders <- {s \in Sessions : InProgress(s)}

\* Sessions of the device are in progress one after the other: one may begin
\* only when none is in progress, and it stays the only one until it is
\* released, fails or is challenged (lock.acquireLock before state 1 in
\* processRequest; lock.releaseLock at the end of endSession).
ImplementsMutex == Mutex!Spec

\* A session that is being served, whatever its history.
Working(s) ==
    /\ Admitted(s) /\ ctx[s].auth = 2 /\ s \notin orphan
    /\ OnSocket(s) \/ InHandler(s, {"run"})

\* "Distributed locking prevents concurrent device sessions"
\* (claudedocs/workflow/01-ARCHITECTURE-OVERVIEW.md:198): two sessions of the
\* device are never served at the same time.
NoConcurrentSessions ==
    \A s, t \in Sessions : Working(s) /\ Working(t) => s = t

\* "Acquire Lock", then "Load Tasks, Faults, Presets"
\* (claudedocs/specs/CWMP-SPEC.md:36-38): the data an admitted session works on
\* includes what the sessions before it have saved.
LoadedUnderLock ==
    \A s \in Sessions : Working(s) /\ ends[s] = 0 => s \notin stale
=============================================================================
