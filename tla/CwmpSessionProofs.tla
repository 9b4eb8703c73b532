------------------------- MODULE CwmpSessionProofs -------------------------
(***************************************************************************)
(* Theorems about CwmpSession, for any number of sessions, connections and *)
(* workers.  The first two use ConstantsAssumption only, whatever the      *)
(* time-outs; what is proved of the lock and of lost sessions needs        *)
(* TimingAssumption too.                                                   *)
(***************************************************************************)
EXTENDS CwmpSession, TLAPS

-----------------------------------------------------------------------------
\* Types

\* A handler that is past its first await works for a session.
HandlerHasSession ==
    \A c \in Conns : handler[c].pc # "idle" => handler[c].session # NoSession

\* A session is only stored before its idle time is over, and only a stored
\* session has a close timer.
StoredInTime ==
    \A w \in watch : /\ w.pc = "store" => Left(w) > 0
                     /\ w.pc \in {"store", "wait"} => w.timer

TypeInv == TypeOK /\ HandlerHasSession /\ StoredInTime

-----------------------------------------------------------------------------
\* The operators that several actions use, one lemma each

\* Field updates of a context and of a close timer keep their types.
LEMMA StateUpdate ==
  ASSUME NEW f \in [Sessions -> Context], NEW s,
         NEW b \in 0 .. 2, NEW a \in 0 .. 2
  PROVE  [f EXCEPT ![s].state = b, ![s].auth = a] \in [Sessions -> Context]
  <1>1. ASSUME NEW x \in Context
        PROVE  [x EXCEPT !.state = b, !.auth = a] \in Context
        BY DEF Context
  <1>2. QED
        BY <1>1

LEMMA ActivityUpdate ==
  ASSUME NEW f \in [Sessions -> Context], NEW s, NEW e \in Nat, NEW n \in Nat
  PROVE  [f EXCEPT ![s].extendLock = e, ![s].lastActivity = n] \in [Sessions -> Context]
  <1>1. ASSUME NEW x \in Context
        PROVE  [x EXCEPT !.extendLock = e, !.lastActivity = n] \in Context
        BY DEF Context
  <1>2. QED
        BY <1>1

LEMMA AuthUpdate ==
  ASSUME NEW f \in [Sessions -> Context], NEW s, NEW a \in 0 .. 2
  PROVE  [f EXCEPT ![s].auth = a] \in [Sessions -> Context]
  <1>1. ASSUME NEW x \in Context
        PROVE  [x EXCEPT !.auth = a] \in Context
        BY DEF Context
  <1>2. QED
        BY <1>1

LEMMA WatchUpdate ==
  ASSUME NEW w \in Watch, NEW pc \in WatchPhases, NEW t \in Nat
  PROVE  /\ [w EXCEPT !.pc = pc, !.since = t] \in Watch
         /\ [w EXCEPT !.pc = pc, !.since = t].pc = pc
         /\ [w EXCEPT !.pc = pc, !.since = t].timer = w.timer
  BY DEF Watch, WatchPhases

\* The session a busy handler works for is one.
LEMMA BusyHandler ==
  ASSUME TypeInv, NEW c \in Conns, handler[c].pc # "idle"
  PROVE  handler[c].session \in Sessions
  BY DEF TypeInv, TypeOK, HandlerHasSession, Handler

LEMMA EnterType ==
  ASSUME TypeInv, NEW c \in Conns, NEW pc \in Phases, NEW s \in Sessions,
         NEW r \in RequestKinds \cup {"none"}, Enter(c, pc, s, r)
  PROVE  handler' \in [Conns -> Handler] /\ HandlerHasSession'
  BY ConstantsAssumption DEF TypeInv, TypeOK, HandlerHasSession, Enter, Handler

LEMMA LeaveType ==
  ASSUME TypeInv, NEW c \in Conns, Leave(c)
  PROVE  handler' \in [Conns -> Handler] /\ HandlerHasSession'
  BY DEF TypeInv, TypeOK, HandlerHasSession, Leave, Idle, Handler, Phases

LEMMA EnterEndType ==
  ASSUME TypeInv, NEW c \in Conns, NEW s \in Sessions, EnterEnd(c, s)
  PROVE  /\ handler' \in [Conns -> Handler] /\ HandlerHasSession'
         /\ ends' \in [Sessions -> Nat]
  BY EnterType DEF EnterEnd, Phases, TypeInv, TypeOK

LEMMA DiscardType ==
  ASSUME TypeInv, NEW s, Discard(s)
  PROVE  /\ started' \subseteq Sessions
         /\ ctx' \in [Sessions -> Context]
         /\ stale' \subseteq Sessions
  <1>1. FreshContext \in Context
        BY DEF FreshContext, Context
  <1>2. QED
        BY <1>1 DEF TypeInv, TypeOK, Discard

LEMMA ForgetType ==
  ASSUME TypeInv, NEW s \in Sessions, Forget(s)
  PROVE  /\ started' \subseteq Sessions
         /\ ctx' \in [Sessions -> Context]
         /\ stale' \subseteq Sessions
         /\ orphan' \subseteq Sessions
  BY DiscardType DEF TypeInv, TypeOK, Forget

LEMMA DispatchType ==
  ASSUME TypeInv, NEW c \in Conns, NEW s \in Sessions, NEW r, Dispatch(c, s, r)
  PROVE  /\ handler' \in [Conns -> Handler] /\ HandlerHasSession'
         /\ ctx' \in [Sessions -> Context]
         /\ ends' \in [Sessions -> Nat]
         /\ orphan' \subseteq Sessions
         /\ dying' \subseteq Workers
  <1>1. NextState(ctx[s].state, r) \in 0 .. 2
        BY DEF NextState, TypeInv, TypeOK, Context
  <1>2. ctx' \in [Sessions -> Context]
    <2>1. /\ ctx \in [Sessions -> Context]
          /\ ctx' = [ctx EXCEPT ![s].state = NextState(ctx[s].state, r),
                                ![s].auth = 2]
          BY DEF Dispatch, TypeInv, TypeOK
    <2>2. 2 \in 0 .. 2
          OBVIOUS
    <2>3. QED
          BY <1>1, <2>1, <2>2, StateUpdate, Zenon
  <1>3. CASE Enter(c, "run", s, "none") /\ UNCHANGED <<ends, orphan, dying>>
        BY <1>2, <1>3, EnterType DEF Phases, TypeInv, TypeOK
  <1>4. CASE EnterEnd(c, s) /\ UNCHANGED <<orphan, dying>>
        BY <1>2, <1>4, EnterEndType DEF TypeInv, TypeOK
  <1>5. CASE Leave(c) /\ orphan' = orphan \cup {s} /\ Uncaught(WorkerOf[c])
             /\ UNCHANGED ends
        BY <1>2, <1>5, LeaveType, ConstantsAssumption DEF Uncaught, TypeInv, TypeOK
  <1>6. QED
        BY <1>3, <1>4, <1>5 DEF Dispatch

LEMMA GrantType ==
  ASSUME TypeInv, NEW s \in Sessions, NEW t \in Nat, Grant(s, t)
  PROVE  lock' \in [owner: Sessions \cup {NoSession}, expire: Nat]
  BY ConstantsAssumption DEF Grant, LockTTL

LEMMA ReleaseType ==
  ASSUME TypeInv, NEW s, NEW k \in Workers, Release(s, k)
  PROVE  /\ lock' \in [owner: Sessions \cup {NoSession}, expire: Nat]
         /\ dying' \subseteq Workers
  BY DEF Release, NoLock, Uncaught, TypeInv, TypeOK

\* A close timer that moves on to another phase is still one.
LEMMA ReplaceType ==
  ASSUME TypeInv, NEW w \in watch, NEW pc \in WatchPhases \ {"store"},
         NEW t \in Nat, Replace(w, pc, t), pc = "wait" => w.pc = "store"
  PROVE  watch' \subseteq Watch /\ StoredInTime'
  <1>1. w \in Watch /\ watch \subseteq Watch
        BY DEF TypeInv, TypeOK
  <1>2. watch' \subseteq watch \cup {[w EXCEPT !.pc = pc, !.since = t]}
        BY DEF Replace
  <1>3. /\ [w EXCEPT !.pc = pc, !.since = t] \in Watch
        /\ [w EXCEPT !.pc = pc, !.since = t].pc = pc
        /\ [w EXCEPT !.pc = pc, !.since = t].timer = w.timer
        BY <1>1, WatchUpdate
  <1>4. watch' \subseteq Watch
        BY <1>1, <1>2, <1>3
  <1>5. StoredInTime'
        BY <1>2, <1>3 DEF TypeInv, StoredInTime, Left
  <1>6. QED
        BY <1>4, <1>5

-----------------------------------------------------------------------------
\* Type correctness

\* The empty process satisfies the strengthened type invariant.
LEMMA TypeInit == Init => TypeInv
  BY ConstantsAssumption DEF Init, TypeInv, TypeOK, HandlerHasSession, StoredInTime,
     NoLock, FreshContext, Idle, Context, Handler, Phases

LEMMA DisconnectType ==
  ASSUME TypeInv, NEW c \in Conns, Disconnect(c)
  PROVE  TypeInv'
  <1> DEFINE s == current[c]
             rec(pc) == [session |-> s, worker |-> WorkerOf[c],
                         lastActivity |-> ctx[s].lastActivity,
                         timer |-> pc = "store", pc |-> pc, since |-> now]
  <1>1. /\ open' \in [Conns -> BOOLEAN]
        /\ current' \in [Conns -> Sessions \cup {NoSession}]
        BY DEF Disconnect, TypeInv, TypeOK
  <1>2. extending' \subseteq Extension
        BY DEF Disconnect, TypeInv, TypeOK, Extension
  <1>3. /\ started' \subseteq Sessions
        /\ ctx' \in [Sessions -> Context]
        /\ stale' \subseteq Sessions
        /\ orphan' \subseteq Sessions
        BY ForgetType DEF Disconnect, TypeInv, TypeOK
  <1>4. watch' \subseteq Watch /\ StoredInTime' /\ ends' \in [Sessions -> Nat]
    <2>1. CASE UNCHANGED <<watch, ends>>
          BY <2>1 DEF TypeInv, TypeOK, StoredInTime, Left
    <2>2. ASSUME s # NoSession, NEW pc \in {"store", "end"},
                 watch' = watch \cup {rec(pc)},
                 pc = "store" => ctx[s].lastActivity + Timeout > now,
                 UNCHANGED ends \/ ends' = [ends EXCEPT ![s] = @ + 1]
          PROVE  watch' \subseteq Watch /\ StoredInTime' /\ ends' \in [Sessions -> Nat]
      <3>1. s \in Sessions /\ ctx[s].lastActivity \in Nat /\ WorkerOf[c] \in Workers
            BY <2>2, ConstantsAssumption DEF TypeInv, TypeOK, Context
      <3>2. rec(pc) \in Watch
            BY <3>1 DEF Watch, WatchPhases, TypeInv, TypeOK
      <3>3. rec(pc).pc = "store" => Left(rec(pc)) > 0
            BY <2>2, <3>1, ConstantsAssumption DEF Left, TypeInv, TypeOK
      <3>4. rec(pc).pc \in {"store", "wait"} => rec(pc).timer
            BY <2>2
      <3>5. QED
            BY <2>2, <3>2, <3>3, <3>4 DEF TypeInv, TypeOK, StoredInTime, Left
    <2>3. QED
      <3>1. CASE s = NoSession \/ ctx[s].auth # 2
            BY <2>1, <3>1 DEF Disconnect
      <3>2. CASE s # NoSession /\ ctx[s].auth = 2
            BY <2>2, <3>2 DEF Disconnect
      <3>3. QED
            BY <3>1, <3>2
  <1>5. QED
        BY <1>1, <1>2, <1>3, <1>4 DEF Disconnect, TypeInv, TypeOK, HandlerHasSession

LEMMA ReceiveType ==
  ASSUME TypeInv, NEW c \in Conns, NEW r \in Requests, NEW cookie \in BOOLEAN,
         ReceiveInSession(c, r, cookie)
  PROVE  TypeInv'
  <1> DEFINE s == current[c]
  <1>1. s \in Sessions
        BY DEF ReceiveInSession, TypeInv, TypeOK
  <1>2. current' \in [Conns -> Sessions \cup {NoSession}]
        BY DEF ReceiveInSession, TypeInv, TypeOK
  <1> DEFINE Rest == /\ handler' \in [Conns -> Handler] /\ HandlerHasSession'
                     /\ ctx' \in [Sessions -> Context]
                     /\ started' \subseteq Sessions /\ stale' \subseteq Sessions
                     /\ ends' \in [Sessions -> Nat]
                     /\ orphan' \subseteq Sessions /\ dying' \subseteq Workers
  <1>3. CASE Leave(c) /\ Discard(s) /\ UNCHANGED <<ends, orphan, dying>>
        <2>1. Rest
              BY <1>3, LeaveType, DiscardType DEF TypeInv, TypeOK
        <2>2. QED
              BY <2>1, <1>2 DEF ReceiveInSession, TypeInv, TypeOK, StoredInTime, Left
  <1>4. CASE EnterEnd(c, s) /\ UNCHANGED <<ctx, started, stale, orphan, dying>>
        <2>1. Rest
              BY <1>1, <1>4, EnterEndType DEF TypeInv, TypeOK
        <2>2. QED
              BY <2>1, <1>2 DEF ReceiveInSession, TypeInv, TypeOK, StoredInTime, Left
  <1>5. CASE Enter(c, "auth", s, r) /\ UNCHANGED <<ctx, started, stale, ends, orphan, dying>>
        <2>1. Rest
              BY <1>1, <1>5, EnterType, ConstantsAssumption DEF TypeInv, TypeOK, Phases
        <2>2. QED
              BY <2>1, <1>2 DEF ReceiveInSession, TypeInv, TypeOK, StoredInTime, Left
  <1>6. CASE Dispatch(c, s, r) /\ UNCHANGED <<started, stale>>
        <2>1. Rest
              BY <1>1, <1>6, DispatchType DEF TypeInv, TypeOK
        <2>2. QED
              BY <2>1, <1>2 DEF ReceiveInSession, TypeInv, TypeOK, StoredInTime, Left
  <1>7. QED
        BY <1>3, <1>4, <1>5, <1>6 DEF ReceiveInSession

\* Every step of every worker, of the devices, of the database and of the
\* clock preserves the type invariant.
LEMMA TypeStep == TypeInv /\ [Next]_vars => TypeInv'
  <1> SUFFICES ASSUME TypeInv, [Next]_vars PROVE TypeInv'
      OBVIOUS
  <1> USE DEF StoredInTime, Left
  <1>1. CASE UNCHANGED vars
        BY <1>1 DEF vars, TypeInv, TypeOK, HandlerHasSession
  <1>2. ASSUME NEW c \in Conns, Disconnect(c) PROVE TypeInv'
        BY <1>2, DisconnectType
  <1>3. ASSUME NEW c \in Conns, NEW r \in Requests, NEW cookie \in BOOLEAN,
               ReceiveInSession(c, r, cookie)
        PROVE TypeInv'
        BY <1>3, ReceiveType
  <1>4. ASSUME NEW c \in Conns, NEW r \in Requests, NEW s \in Sessions,
               Resume(c, r, s)
        PROVE TypeInv'
    <2>1. open' \in [Conns -> BOOLEAN] /\ cache' \in [Sessions -> Nat]
          BY <1>4 DEF Resume, Popped, TypeInv, TypeOK
    <2>2. /\ handler' \in [Conns -> Handler] /\ HandlerHasSession'
          /\ ends' \in [Sessions -> Nat]
          /\ ctx' \in [Sessions -> Context]
      <3>1. CASE EnterEnd(c, s) /\ UNCHANGED ctx
            BY <3>1, EnterEndType DEF TypeInv, TypeOK
      <3>2. CASE /\ ctx' = [ctx EXCEPT ![s].auth = IF @ # 1 THEN 0 ELSE @]
                 /\ Enter(c, "auth", s, r)
                 /\ UNCHANGED ends
        <4>1. (IF ctx[s].auth # 1 THEN 0 ELSE ctx[s].auth) \in 0 .. 2
              BY DEF TypeInv, TypeOK, Context
        <4>2. ctx' \in [Sessions -> Context]
              BY <3>2, <4>1 DEF TypeInv, TypeOK, Context
        <4>3. QED
              BY <3>2, <4>2, EnterType, ConstantsAssumption DEF TypeInv, TypeOK, Phases
      <3>3. QED
            BY <1>4, <3>1, <3>2 DEF Resume
    <2>3. QED
          BY <1>4, <2>1, <2>2 DEF Resume, TypeInv, TypeOK
  <1>5. ASSUME NEW c \in Conns, NEW s \in Sessions, ReceiveInform(c, s)
        PROVE TypeInv'
    <2>1. handler' \in [Conns -> Handler] /\ HandlerHasSession'
          BY <1>5, EnterType DEF ReceiveInform, Phases, RequestKinds
    <2>2. ctx' \in [Sessions -> Context]
      <3>1. ctx \in [Sessions -> Context] /\ now + RefreshInterval \in Nat
            BY ConstantsAssumption DEF TypeInv, TypeOK
      <3>2. [ctx[s] EXCEPT !.extendLock = now + RefreshInterval] \in Context
            BY <3>1 DEF Context
      <3>3. ctx' = [ctx EXCEPT ![s] = [ctx[s] EXCEPT !.extendLock = now + RefreshInterval]]
            BY <1>5, <3>1 DEF ReceiveInform
      <3>4. QED
            BY <3>1, <3>2, <3>3
    <2>3. QED
          BY <1>5, <2>1, <2>2 DEF ReceiveInform, TypeInv, TypeOK
  <1>6. ASSUME NEW c \in Conns, AuthSucceeds(c) PROVE TypeInv'
    <2> DEFINE s == handler[c].session
    <2>1. s \in Sessions
          BY <1>6, BusyHandler DEF AuthSucceeds, At
    <2>2. CASE Enter(c, "lock", s, "none") /\ UNCHANGED <<ctx, ends, orphan, dying>>
          BY <1>6, <2>1, <2>2, EnterType DEF AuthSucceeds, Phases, TypeInv, TypeOK
    <2>3. CASE Dispatch(c, s, handler[c].req)
          <3>1. /\ handler' \in [Conns -> Handler] /\ HandlerHasSession'
                /\ ctx' \in [Sessions -> Context]
                /\ ends' \in [Sessions -> Nat]
                /\ orphan' \subseteq Sessions
                /\ dying' \subseteq Workers
                BY <2>1, <2>3, DispatchType
          <3>2. QED
                BY <1>6, <3>1 DEF AuthSucceeds, TypeInv, TypeOK
    <2>4. QED
          BY <1>6, <2>2, <2>3 DEF AuthSucceeds
  <1>7. ASSUME NEW c \in Conns, AuthFails(c) PROVE TypeInv'
    <2> DEFINE s == handler[c].session
    <2>1. s \in Sessions
          BY <1>7, BusyHandler DEF AuthFails, At
    <2>2. /\ handler' \in [Conns -> Handler] /\ HandlerHasSession'
          /\ ctx' \in [Sessions -> Context]
          /\ current' \in [Conns -> Sessions \cup {NoSession}]
          /\ ends' \in [Sessions -> Nat]
          /\ started' \subseteq Sessions /\ stale' \subseteq Sessions
          /\ orphan' \subseteq Sessions
      <3>1. CASE /\ ctx' = [ctx EXCEPT ![s].auth = 1]
                 /\ current' = [current EXCEPT ![c] = s]
                 /\ Leave(c)
                 /\ UNCHANGED <<started, stale, ends, orphan>>
        <4>1. ctx \in [Sessions -> Context] /\ 1 \in 0 .. 2
              BY DEF TypeInv, TypeOK
        <4>2. ctx' \in [Sessions -> Context]
              BY <3>1, <4>1, AuthUpdate, Zenon
        <4>3. current' \in [Conns -> Sessions \cup {NoSession}]
              BY <2>1, <3>1 DEF TypeInv, TypeOK
        <4>4. QED
              BY <3>1, <4>2, <4>3, LeaveType DEF TypeInv, TypeOK
      <3>2. CASE Forget(s) /\ Leave(c) /\ UNCHANGED <<current, ends>>
            BY <2>1, <3>2, ForgetType, LeaveType DEF TypeInv, TypeOK
      <3>3. CASE Discard(s) /\ Leave(c) /\ UNCHANGED <<current, ends, orphan>>
            BY <3>3, DiscardType, LeaveType DEF TypeInv, TypeOK
      <3>4. CASE EnterEnd(c, s) /\ UNCHANGED <<ctx, current, started, stale, orphan>>
            BY <2>1, <3>4, EnterEndType DEF TypeInv, TypeOK
      <3>5. QED
            BY <1>7, <3>1, <3>2, <3>3, <3>4 DEF AuthFails
    <2>3. QED
          BY <1>7, <2>2 DEF AuthFails, TypeInv, TypeOK
  <1>8. ASSUME NEW c \in Conns, AcquireLock(c) PROVE TypeInv'
    <2> DEFINE s == handler[c].session
    <2>1. s \in Sessions /\ handler[c].since \in Nat
          BY <1>8, BusyHandler DEF AcquireLock, At, TypeInv, TypeOK, Handler
    <2>2. /\ handler' \in [Conns -> Handler] /\ HandlerHasSession'
          /\ lock' \in [owner: Sessions \cup {NoSession}, expire: Nat]
          /\ ctx' \in [Sessions -> Context]
          /\ started' \subseteq Sessions /\ stale' \subseteq Sessions
      <3>1. CASE /\ Grant(s, handler[c].since)
                 /\ ctx' = [ctx EXCEPT ![s].state = 1, ![s].auth = 2]
                 /\ Enter(c, "run", s, "none")
                 /\ UNCHANGED <<started, stale>>
        <4>1. ctx' \in [Sessions -> Context]
          <5>1. 1 \in 0 .. 2 /\ 2 \in 0 .. 2
                OBVIOUS
          <5>2. ctx \in [Sessions -> Context]
                BY DEF TypeInv, TypeOK
          <5>3. QED
                BY <3>1, <5>1, <5>2, StateUpdate, Zenon
        <4>2. handler' \in [Conns -> Handler] /\ HandlerHasSession'
              BY <2>1, <3>1, EnterType DEF Phases
        <4>3. QED
              BY <2>1, <3>1, <4>1, <4>2, GrantType DEF TypeInv, TypeOK
      <3>2. CASE Discard(s) /\ Leave(c) /\ UNCHANGED lock
            BY <3>2, DiscardType, LeaveType DEF TypeInv, TypeOK
      <3>3. QED
            BY <1>8, <3>1, <3>2 DEF AcquireLock
    <2>3. QED
          BY <1>8, <2>2 DEF AcquireLock, TypeInv, TypeOK
  <1>9. ASSUME NEW c \in Conns, Respond(c) PROVE TypeInv'
    <2> DEFINE s == handler[c].session
               due == now >= ctx[s].extendLock
    <2>1. s \in Sessions /\ now \in Nat
          BY <1>9, BusyHandler DEF Respond, At, TypeInv, TypeOK
    <2>2. CASE EnterEnd(c, s) /\ UNCHANGED <<ctx, current, extending>>
          BY <1>9, <2>1, <2>2, EnterEndType DEF Respond, TypeInv, TypeOK
    <2>3. CASE /\ Leave(c)
               /\ current' = [current EXCEPT ![c] = s]
               /\ ctx' = [ctx EXCEPT
                            ![s].extendLock = IF due THEN now + RefreshInterval ELSE @,
                            ![s].lastActivity = now]
               /\ extending' = extending \cup
                      (IF due THEN {[session |-> s, conn |-> c, since |-> now,
                                     worker |-> WorkerOf[c]]}
                              ELSE {})
               /\ UNCHANGED ends
      <3>1. (IF due THEN now + RefreshInterval ELSE ctx[s].extendLock) \in Nat
            BY <2>1, ConstantsAssumption DEF TypeInv, TypeOK, Context
      <3>2. ctx' \in [Sessions -> Context]
        <4> DEFINE e == IF due THEN now + RefreshInterval ELSE ctx[s].extendLock
        <4>1. ctx \in [Sessions -> Context]
              BY DEF TypeInv, TypeOK
        <4>2. ctx' = [ctx EXCEPT ![s].extendLock = e, ![s].lastActivity = now]
              BY <2>3, Zenon
        <4> HIDE DEF e, due, s
        <4>3. e \in Nat
              BY <3>1 DEF e
        <4>4. [ctx EXCEPT ![s].extendLock = e, ![s].lastActivity = now]
                 \in [Sessions -> Context]
              BY <2>1, <4>1, <4>3, ActivityUpdate, Zenon
        <4>5. QED
              BY <4>2, <4>4, Zenon
      <3>3. extending' \subseteq Extension
        <4>1. [session |-> s, conn |-> c, since |-> now, worker |-> WorkerOf[c]]
                 \in Extension
              BY <2>1, ConstantsAssumption DEF Extension
        <4>2. QED
              BY <2>3, <4>1 DEF TypeInv, TypeOK
      <3>4. current' \in [Conns -> Sessions \cup {NoSession}]
            BY <2>1, <2>3 DEF TypeInv, TypeOK
      <3>5. handler' \in [Conns -> Handler] /\ HandlerHasSession'
            BY <2>3, LeaveType
      <3>6. QED
            BY <1>9, <2>3, <3>2, <3>3, <3>4, <3>5 DEF Respond, TypeInv, TypeOK
    <2>4. QED
          BY <1>9, <2>2, <2>3 DEF Respond
  <1>10. ASSUME NEW c \in Conns, Finish(c) PROVE TypeInv'
    <2>1. /\ handler' \in [Conns -> Handler] /\ HandlerHasSession'
          /\ ends' \in [Sessions -> Nat]
          BY <1>10, BusyHandler, EnterEndType DEF Finish, At
    <2>2. QED
          BY <1>10, <2>1 DEF Finish, TypeInv, TypeOK
  <1>11. ASSUME NEW c \in Conns, HandlerThrows(c) PROVE TypeInv'
    <2> DEFINE s == handler[c].session
    <2>1. s \in Sessions /\ handler[c].since \in Nat
          BY <1>11, BusyHandler DEF HandlerThrows, TypeInv, TypeOK, Handler
    <2>2. /\ handler' \in [Conns -> Handler] /\ HandlerHasSession'
          /\ dying' \subseteq Workers
          BY <1>11, LeaveType, ConstantsAssumption
          DEF HandlerThrows, Uncaught, TypeInv, TypeOK
    <2>3. /\ lock' \in [owner: Sessions \cup {NoSession}, expire: Nat]
          /\ started' \subseteq Sessions /\ stale' \subseteq Sessions
          /\ ctx' \in [Sessions -> Context]
          /\ orphan' \subseteq Sessions
      <3>1. CASE Forget(s) /\ UNCHANGED lock
            BY <2>1, <3>1, ForgetType DEF TypeInv, TypeOK
      <3>2. CASE /\ Grant(s, handler[c].since)
                 /\ orphan' = orphan \cup {s}
                 /\ UNCHANGED <<started, ctx, stale>>
            BY <2>1, <3>2, GrantType DEF TypeInv, TypeOK
      <3>3. QED
            BY <1>11, <3>1, <3>2 DEF HandlerThrows
    <2>4. QED
          BY <1>11, <2>2, <2>3 DEF HandlerThrows, TypeInv, TypeOK
  <1>12. ASSUME NEW c \in Conns, SaveInHandler(c) PROVE TypeInv'
    <2>1. handler' \in [Conns -> Handler] /\ HandlerHasSession'
          BY <1>12, BusyHandler, EnterType DEF SaveInHandler, At, Phases
    <2>2. stale' \subseteq Sessions
          BY <1>12 DEF SaveInHandler, Outdate, TypeInv, TypeOK
    <2>3. QED
          BY <1>12, <2>1, <2>2 DEF SaveInHandler, TypeInv, TypeOK
  <1>13. ASSUME NEW c \in Conns, ReleaseInHandler(c) PROVE TypeInv'
    <2>1. handler' \in [Conns -> Handler] /\ HandlerHasSession'
          BY <1>13, LeaveType DEF ReleaseInHandler
    <2>2. /\ lock' \in [owner: Sessions \cup {NoSession}, expire: Nat]
          /\ dying' \subseteq Workers
          BY <1>13, ReleaseType, ConstantsAssumption DEF ReleaseInHandler
    <2>3. QED
          BY <1>13, <2>1, <2>2 DEF ReleaseInHandler, TypeInv, TypeOK
  <1>14. ASSUME NEW e \in extending, ExtendLock(e) PROVE TypeInv'
    <2>1. lock' \in [owner: Sessions \cup {NoSession}, expire: Nat]
          BY <1>14, GrantType DEF ExtendLock, TypeInv, TypeOK, Extension
    <2>2. QED
          BY <1>14, <2>1 DEF ExtendLock, TypeInv, TypeOK, HandlerHasSession
  <1>15. ASSUME NEW e \in extending, ExtensionFails(e) PROVE TypeInv'
    <2>1. e \in Extension
          BY DEF TypeInv, TypeOK
    <2>2. lock' \in [owner: Sessions \cup {NoSession}, expire: Nat]
          BY <1>15, <2>1, GrantType DEF ExtensionFails, TypeInv, TypeOK, Extension
    <2>3. current' \in [Conns -> Sessions \cup {NoSession}]
          BY <1>15 DEF ExtensionFails, TypeInv, TypeOK
    <2>4. orphan' \subseteq Sessions
          BY <1>15, <2>1 DEF ExtensionFails, TypeInv, TypeOK, Extension
    <2>5. dying' \subseteq Workers /\ extending' \subseteq Extension
          BY <1>15, <2>1 DEF ExtensionFails, Uncaught, TypeInv, TypeOK, Extension
    <2>6. QED
          BY <1>15, <2>2, <2>3, <2>4, <2>5
          DEF ExtensionFails, TypeInv, TypeOK, HandlerHasSession
  <1>16. CASE ExpireLock
        BY <1>16 DEF ExpireLock, NoLock, TypeInv, TypeOK, HandlerHasSession
  <1>17. ASSUME NEW s \in Sessions, ExpireCache(s) PROVE TypeInv'
        BY <1>17 DEF ExpireCache, TypeInv, TypeOK, HandlerHasSession
  <1>18. ASSUME NEW w \in watch, StoreSession(w) PROVE TypeInv'
    <2>1. w \in Watch /\ Left(w) > 0 /\ now \in Nat
          BY <1>18 DEF StoreSession, TypeInv, TypeOK
    <2>2. CacheExpiry(w) \in Nat /\ now + Left(w) + TimerGrace \in Nat
          BY <2>1, ConstantsAssumption DEF CacheExpiry, Watch
    <2>3. watch' \subseteq Watch /\ StoredInTime'
          BY <1>18, <2>2, ReplaceType DEF StoreSession, WatchPhases
    <2>4. cache' \in [Sessions -> Nat]
          BY <1>18, <2>1, <2>2 DEF StoreSession, TypeInv, TypeOK
    <2>5. QED
          BY <1>18, <2>3, <2>4 DEF StoreSession, TypeInv, TypeOK, HandlerHasSession
  <1>19. ASSUME NEW w \in watch, CheckSession(w) PROVE TypeInv'
    <2>1. watch' \subseteq Watch /\ StoredInTime'
      <3>1. CASE Replace(w, "end", now)
            BY <3>1, ReplaceType DEF TypeInv, TypeOK, WatchPhases
      <3>2. CASE watch' = watch \ {w}
            BY <3>2 DEF TypeInv, TypeOK
      <3>3. QED
            BY <1>19, <3>1, <3>2 DEF CheckSession
    <2>2. ends' \in [Sessions -> Nat]
          BY <1>19 DEF CheckSession, TypeInv, TypeOK
    <2>3. QED
          BY <1>19, <2>1, <2>2 DEF CheckSession, TypeInv, TypeOK, HandlerHasSession
  <1>20. ASSUME NEW w \in watch, SaveInWatch(w) PROVE TypeInv'
    <2>1. watch' \subseteq Watch /\ StoredInTime'
          BY <1>20, ReplaceType DEF SaveInWatch, TypeInv, TypeOK, WatchPhases
    <2>2. stale' \subseteq Sessions
          BY <1>20 DEF SaveInWatch, Outdate, TypeInv, TypeOK
    <2>3. QED
          BY <1>20, <2>1, <2>2 DEF SaveInWatch, TypeInv, TypeOK, HandlerHasSession
  <1>21. ASSUME NEW w \in watch, ReleaseInWatch(w) PROVE TypeInv'
    <2>1. w.worker \in Workers
          BY DEF TypeInv, TypeOK, Watch
    <2>2. /\ lock' \in [owner: Sessions \cup {NoSession}, expire: Nat]
          /\ dying' \subseteq Workers
          BY <1>21, <2>1, ReleaseType DEF ReleaseInWatch
    <2>3. QED
          BY <1>21, <2>2 DEF ReleaseInWatch, TypeInv, TypeOK, HandlerHasSession
  <1>22. ASSUME NEW w \in watch, WatchThrows(w) PROVE TypeInv'
        BY <1>22 DEF WatchThrows, Uncaught, Watch, TypeInv, TypeOK, HandlerHasSession
  <1>23. ASSUME NEW k \in Workers, Crash(k) PROVE TypeInv'
    <2>1. HeldBy(k) \ {NoSession} \subseteq Sessions
          BY DEF HeldBy, TypeInv, TypeOK, Handler, Watch, Extension
    <2>2. handler' \in [Conns -> Handler] /\ HandlerHasSession'
          BY <1>23 DEF Crash, TypeInv, TypeOK, HandlerHasSession, Handler, Idle, Phases
    <2>3. /\ current' \in [Conns -> Sessions \cup {NoSession}]
          /\ open' \in [Conns -> BOOLEAN]
          BY <1>23 DEF Crash, TypeInv, TypeOK
    <2>4. QED
          BY <1>23, <2>1, <2>2, <2>3 DEF Crash, TypeInv, TypeOK
  <1>24. CASE Tick
        BY <1>24 DEF Tick, TypeInv, TypeOK, HandlerHasSession
  <1>25. CASE Horizon
        BY <1>1, <1>25 DEF Horizon
  <1>26. QED
        BY <1>1, <1>2, <1>3, <1>4, <1>5, <1>6, <1>7, <1>8, <1>9, <1>10, <1>11, <1>12,
           <1>13, <1>14, <1>15, <1>16, <1>17, <1>18, <1>19, <1>20, <1>21, <1>22,
           <1>23, <1>24, <1>25 DEF Next

\* Every variable always has its type: state and authState of a context stay
\* in 0 .. 2 and no deadline or expiry is ever computed below zero
\* (SessionContext, acquireLock, onConnection).
THEOREM TypeCorrect == Spec => []TypeOK
  <1>1. TypeInv => TypeOK
        BY DEF TypeInv
  <1>2. QED
        BY TypeInit, TypeStep, <1>1, PTL DEF Spec

-----------------------------------------------------------------------------
\* One holder per session

\* No request or timer that comes will find the context of s.
Unheld(s) ==
    /\ \A c \in Conns : current[c] # s /\ handler[c].session # s
    /\ \A w \in watch : w.pc = "store" => w.session # s
    /\ cache[s] = 0

\* Nor is onConnection ending s without a timer.
Untended(s) == \A w \in watch : w.session = s => w.timer

\* SingleHolder for s, one pair of kinds of holders after the other.
Sole(s) ==
    /\ \A c, d \in Conns : current[c] = s /\ current[d] = s => c = d
    /\ \A c, d \in Conns : handler[c].session = s /\ handler[d].session = s => c = d
    /\ \A c, d \in Conns : ~(current[c] = s /\ handler[d].session = s)
    /\ \A v, w \in watch : (/\ v.pc = "store" /\ v.session = s
                            /\ w.pc = "store" /\ w.session = s) => v = w
    /\ \A w \in watch, c \in Conns :
          w.pc = "store" /\ w.session = s =>
              current[c] # s /\ handler[c].session # s
    /\ \A w \in watch : w.pc = "store" /\ w.session = s => cache[s] = 0
    /\ \A c \in Conns : current[c] = s \/ handler[c].session = s => cache[s] = 0
    /\ \A v, w \in watch : (/\ ~v.timer /\ v.session = s
                            /\ ~w.timer /\ w.session = s) => v = w
    /\ Unheld(s) \/ Untended(s)

\* The inductive invariant: what a new session.init starts with is held by
\* nothing yet.
HolderInv ==
    /\ TypeInv
    /\ \A s \in Sessions : Sole(s)
    /\ \A s \in Sessions \ started : Unheld(s)
    /\ \A s \in Sessions \ started : Untended(s)

\* The pairwise form is the one the property states.
LEMMA SoleIsSingle == (\A s \in Sessions : Sole(s)) => SingleHolder
  <1> SUFFICES ASSUME \A s \in Sessions : Sole(s), NEW s \in Sessions,
                      NEW h \in Holders(s), NEW g \in Holders(s),
                      h[1] # "timer", g[1] # "timer"
               PROVE  h = g
      BY DEF SingleHolder
  <1> DEFINE IsSocket(x) == \E c \in Conns : x = <<"socket", c>> /\ current[c] = s
             IsHandler(x) == \E c \in Conns : x = <<"handler", c>> /\ handler[c].session = s
             IsStore(x) == \E w \in watch : /\ x = <<"close", w>> /\ w.session = s
                                            /\ w.pc = "store"
             IsEnd(x) == \E w \in watch : /\ x = <<"close", w>> /\ w.session = s
                                          /\ ~w.timer
             IsCache(x) == x = <<"cache", s>> /\ cache[s] # 0
  <1>1. ASSUME NEW x \in Holders(s), x[1] # "timer"
        PROVE  IsSocket(x) \/ IsHandler(x) \/ IsStore(x) \/ IsEnd(x) \/ IsCache(x)
        BY <1>1 DEF Holders, Closes
  <1>2. Sole(s)
        OBVIOUS
  <1> USE DEF Unheld, Untended
  <1>3. CASE IsSocket(h)
        BY <1>1, <1>2, <1>3 DEF Sole
  <1>4. CASE IsHandler(h)
        BY <1>1, <1>2, <1>4 DEF Sole
  <1>5. CASE IsStore(h)
        BY <1>1, <1>2, <1>5 DEF Sole
  <1>6. CASE IsCache(h)
        BY <1>1, <1>2, <1>6 DEF Sole
  <1>7. CASE IsEnd(h)
        BY <1>1, <1>2, <1>7 DEF Sole
  <1>8. QED
        BY <1>1, <1>3, <1>4, <1>5, <1>6, <1>7

\* Where the session of s was and is: the other places only lost sessions.
Fewer(s) ==
    /\ \A c \in Conns : current'[c] = s => current[c] = s
    /\ \A c \in Conns : handler'[c].session = s => handler[c].session = s
    /\ \A w \in watch' : w.pc = "store" /\ w.session = s => w \in watch
    /\ \A w \in watch' : ~w.timer /\ w.session = s => w \in watch
    /\ cache[s] = 0 => cache'[s] = 0

LEMMA FewerHolders ==
  ASSUME NEW s, Fewer(s)
  PROVE  /\ Sole(s) => Sole(s)'
         /\ Unheld(s) => Unheld(s)'
         /\ Untended(s) => Untended(s)'
  <1>1. Unheld(s) => Unheld(s)'
        BY DEF Fewer, Unheld
  <1>2. Untended(s) => Untended(s)'
        BY DEF Fewer, Untended
  <1>3. Sole(s) => Sole(s)'
        BY <1>1, <1>2 DEF Fewer, Sole
  <1>4. QED
        BY <1>1, <1>2, <1>3

\* A step that only takes sessions away from their places, and discards none
\* that is still held.
LEMMA OnlyFewer ==
  ASSUME HolderInv, TypeInv', \A s \in Sessions : Fewer(s),
         \A s \in started \ started' : Unheld(s)' /\ Untended(s)'
  PROVE  HolderInv'
  BY FewerHolders DEF HolderInv

\* What the phases of a handler do to its session.
LEMMA EnterSession ==
  ASSUME TypeInv, NEW c \in Conns, NEW pc, NEW s, NEW r, Enter(c, pc, s, r)
  PROVE  \A d \in Conns : handler'[d].session = IF d = c THEN s ELSE handler[d].session
  BY DEF Enter, TypeInv, TypeOK

LEMMA LeaveSession ==
  ASSUME TypeInv, NEW c \in Conns, Leave(c)
  PROVE  \A d \in Conns :
            handler'[d].session = IF d = c THEN NoSession ELSE handler[d].session
  BY DEF Leave, Idle, TypeInv, TypeOK

LEMMA DispatchSession ==
  ASSUME TypeInv, NEW c \in Conns, NEW s, NEW r, Dispatch(c, s, r)
  PROVE  \A d \in Conns : \/ handler'[d].session = handler[d].session
                          \/ d = c /\ handler'[d].session \in {s, NoSession}
  BY EnterSession, LeaveSession DEF Dispatch, EnterEnd

LEMMA HolderInit == Init => HolderInv
  <1> SUFFICES ASSUME Init PROVE HolderInv
      OBVIOUS
  <1>1. TypeInv
        BY TypeInit
  <1>2. \A s \in Sessions : Sole(s) /\ Unheld(s) /\ Untended(s)
        BY ConstantsAssumption DEF Init, Idle, Sole, Unheld, Untended
  <1>3. QED
        BY <1>1, <1>2 DEF HolderInv

\* The types of what holds sessions.
LEMMA HolderTypes ==
  ASSUME HolderInv
  PROVE  /\ TypeInv /\ NoSession \notin Sessions
         /\ handler \in [Conns -> Handler]
         /\ current \in [Conns -> Sessions \cup {NoSession}]
         /\ watch \subseteq Watch
         /\ cache \in [Sessions -> Nat]
         /\ started \subseteq Sessions
  BY ConstantsAssumption DEF HolderInv, TypeInv, TypeOK

\* A step that moves s, and only s, from one place to another.
LEMMA OneMoves ==
  ASSUME HolderInv, TypeInv', NEW s \in Sessions,
         \A t \in Sessions \ {s} : Fewer(t),
         Sole(s)', s \in started', started \ {s} \subseteq started'
  PROVE  HolderInv'
  <1>1. \A t \in Sessions \ {s} :
           /\ Sole(t)'
           /\ Unheld(t) => Unheld(t)'
           /\ Untended(t) => Untended(t)'
        BY FewerHolders DEF HolderInv
  <1>2. \A t \in Sessions \ started' : t \in (Sessions \ {s}) \ started
        OBVIOUS
  <1>3. \A t \in Sessions : Sole(t)'
        BY <1>1
  <1>4. \A t \in Sessions \ started' : Unheld(t)' /\ Untended(t)'
        BY <1>1, <1>2 DEF HolderInv
  <1>5. QED
        BY <1>3, <1>4 DEF HolderInv

\* onConnection: from the socket to the store phase, or dropped.
LEMMA DisconnectHolder ==
  ASSUME HolderInv, TypeInv', NEW c \in Conns, Disconnect(c)
  PROVE  HolderInv'
  <1>0. PICK s : s = current[c]
        OBVIOUS
  <1> USE HolderTypes, <1>0
  <1>1. \A t \in Sessions \ {s} : Fewer(t)
        BY DEF Disconnect, Fewer
  <1>2. CASE UNCHANGED <<watch, started>>
    <2>1. \A t \in Sessions : Fewer(t)
          BY <1>2 DEF Disconnect, Fewer
    <2>2. QED
          BY <1>2, <2>1, OnlyFewer
  <1>3. CASE Discard(s) /\ UNCHANGED watch
    <2>1. \A t \in Sessions : Fewer(t)
          BY <1>3 DEF Disconnect, Fewer
    <2>2. s \in Sessions => Unheld(s)' /\ Untended(s)'
          BY <1>3 DEF Disconnect, HolderInv, Sole, Unheld, Untended
    <2>3. started \ started' \subseteq {s} \cap Sessions
          BY <1>3 DEF Discard
    <2>4. QED
          BY <2>1, <2>2, <2>3, OnlyFewer
  <1>4. ASSUME NEW w, watch' = watch \cup {w}, w.session = s, s # NoSession,
               UNCHANGED started
        PROVE  HolderInv'
    <2>1. s \in Sessions /\ Sole(s) /\ ~Unheld(s) /\ Untended(s)
          BY <1>4 DEF HolderInv, Unheld, Sole
    <2>2. Sole(s)'
      <3>1. w.timer \/ w.pc # "store"
            BY <1>4 DEF TypeInv, StoredInTime
      <3>2. Unheld(s)' \/ Untended(s)'
            BY <1>4, <2>1, <3>1 DEF Disconnect, Sole, Unheld, Untended
      <3>3. QED
            BY <1>4, <2>1, <3>2 DEF Disconnect, Sole, Untended
    <2>3. \A t \in Sessions \ {s} : Fewer(t)
          BY <1>4 DEF Disconnect, Fewer
    <2>4. QED
          BY <1>4, <2>1, <2>2, <2>3, OneMoves DEF HolderInv
  <1>5. QED
    <2>1. CASE s = NoSession
          BY <1>2, <2>1 DEF Disconnect
    <2>2. CASE s # NoSession /\ ctx[s].auth # 2
          BY <1>2, <1>3, <2>2 DEF Disconnect, Forget
    <2>3. CASE s # NoSession /\ ctx[s].auth = 2
      <3>1. PICK w : watch' = watch \cup {w} /\ w.session = s
        <4>1. PICK pc : watch' = watch \cup
                  {[session |-> s, worker |-> WorkerOf[c],
                    lastActivity |-> ctx[s].lastActivity, timer |-> pc = "store",
                    pc |-> pc, since |-> now]}
              BY <2>3 DEF Disconnect
        <4>2. PICK w : w = [session |-> s, worker |-> WorkerOf[c],
                            lastActivity |-> ctx[s].lastActivity,
                            timer |-> pc = "store", pc |-> pc, since |-> now]
              OBVIOUS
        <4>3. w.session = s
              BY <4>2
        <4>4. watch' = watch \cup {w}
              BY <4>1, <4>2
        <4>5. QED
              BY <4>3, <4>4
      <3>2. UNCHANGED started
            BY <2>3 DEF Disconnect
      <3>3. QED
            BY <1>4, <2>3, <3>1, <3>2
    <2>4. QED
          BY <2>1, <2>2, <2>3

\* listenerAsync: from the socket to the handler, or discarded.
LEMMA ReceiveHolder ==
  ASSUME HolderInv, TypeInv', NEW c \in Conns, NEW r \in Requests,
         NEW cookie \in BOOLEAN, ReceiveInSession(c, r, cookie)
  PROVE  HolderInv'
  <1>0. PICK s : s = current[c]
        OBVIOUS
  <1> USE HolderTypes, <1>0
  <1>1. /\ s \in Sessions /\ Sole(s) /\ s \in started
        /\ current' = [current EXCEPT ![c] = NoSession]
        /\ UNCHANGED <<watch, cache>>
        BY DEF ReceiveInSession, HolderInv, Unheld
  <1>2. \A d \in Conns :
           \/ handler'[d].session = handler[d].session
           \/ d = c /\ handler'[d].session \in {s, NoSession}
        BY EnterSession, LeaveSession, DispatchSession
        DEF ReceiveInSession, EnterEnd
  <1>3. \A t \in Sessions \ {s} : Fewer(t)
        BY <1>1, <1>2 DEF Fewer
  <1>4. Sole(s)'
        BY <1>1, <1>2 DEF Sole, Unheld, Untended
  <1>5. CASE UNCHANGED started
        BY <1>1, <1>3, <1>4, <1>5, OneMoves
  <1>6. CASE Leave(c) /\ Discard(s)
    <2>1. \A t \in Sessions : Fewer(t)
          BY <1>1, <1>6, LeaveSession DEF Fewer
    <2>2. Unheld(s)' /\ Untended(s)'
          BY <1>1, <1>6, LeaveSession DEF Sole, Unheld, Untended
    <2>3. QED
          BY <1>6, <2>1, <2>2, OnlyFewer DEF Discard
  <1>7. QED
        BY <1>5, <1>6 DEF ReceiveInSession

\* cache.pop: from the cache to the handler.
LEMMA ResumeHolder ==
  ASSUME HolderInv, TypeInv', NEW c \in Conns, NEW r \in Requests,
         NEW s \in Sessions, Resume(c, r, s)
  PROVE  HolderInv'
  <1> USE HolderTypes
  <1>1. /\ Sole(s) /\ s \in started /\ cache[s] # 0
        /\ cache' = [cache EXCEPT ![s] = 0]
        /\ UNCHANGED <<watch, current, started>>
        BY DEF Resume, Popped, HolderInv, Unheld
  <1>2. \A d \in Conns :
           handler'[d].session = IF d = c THEN s ELSE handler[d].session
        BY EnterSession DEF Resume, EnterEnd
  <1>3. \A t \in Sessions \ {s} : Fewer(t)
        BY <1>1, <1>2 DEF Fewer
  <1>4. Sole(s)'
        BY <1>1, <1>2 DEF Sole, Unheld, Untended
  <1>5. QED
        BY <1>1, <1>3, <1>4, OneMoves

\* session.init: a new context in the handler.
LEMMA InformHolder ==
  ASSUME HolderInv, TypeInv', NEW c \in Conns, NEW s \in Sessions,
         ReceiveInform(c, s)
  PROVE  HolderInv'
  <1> USE HolderTypes
  <1>1. /\ Unheld(s) /\ Untended(s) /\ started' = started \cup {s}
        /\ UNCHANGED <<watch, current, cache>>
        BY DEF ReceiveInform, HolderInv
  <1>2. \A d \in Conns :
           handler'[d].session = IF d = c THEN s ELSE handler[d].session
        BY EnterSession DEF ReceiveInform
  <1>3. \A t \in Sessions \ {s} : Fewer(t)
        BY <1>1, <1>2 DEF Fewer
  <1>4. Sole(s)'
        BY <1>1, <1>2 DEF Sole, Unheld, Untended
  <1>5. QED
        BY <1>1, <1>3, <1>4, OneMoves

\* A handler keeps its session, or leaves it to nobody or to its socket
\* (responseUnauthorized, writeResponse).
LEMMA HandBack ==
  ASSUME HolderInv, TypeInv', NEW c \in Conns, handler[c].pc # "idle",
         UNCHANGED <<watch, cache>>,
         \/ /\ Leave(c)
            /\ current' = [current EXCEPT ![c] = handler[c].session]
            /\ UNCHANGED started
         \/ /\ Leave(c) /\ UNCHANGED current
            /\ UNCHANGED started \/ Discard(handler[c].session)
         \/ /\ \A d \in Conns : \/ handler'[d].session = handler[d].session
                                \/ handler'[d].session = NoSession
            /\ UNCHANGED <<current, started>>
  PROVE  HolderInv'
  <1>0. PICK s : s = handler[c].session
        OBVIOUS
  <1> USE HolderTypes, <1>0
  <1>1. s \in Sessions /\ Sole(s) /\ s \in started
        BY BusyHandler DEF HolderInv, Unheld
  <1>2. CASE /\ Leave(c)
             /\ current' = [current EXCEPT ![c] = handler[c].session]
             /\ UNCHANGED started
    <2>1. \A t \in Sessions \ {s} : Fewer(t)
          BY <1>2, LeaveSession DEF Fewer
    <2>2. Sole(s)'
          BY <1>1, <1>2, LeaveSession DEF Sole, Unheld, Untended
    <2>3. QED
          BY <1>1, <1>2, <2>1, <2>2, OneMoves
  <1>3. CASE /\ Leave(c) /\ UNCHANGED current
             /\ UNCHANGED started \/ Discard(handler[c].session)
    <2>1. \A t \in Sessions : Fewer(t)
          BY <1>3, LeaveSession DEF Fewer
    <2>2. Unheld(s)' /\ Untended(s)'
          BY <1>1, <1>3, LeaveSession DEF Sole, Unheld, Untended
    <2>3. QED
          BY <1>3, <2>1, <2>2, OnlyFewer DEF Discard
  <1>4. CASE /\ \A d \in Conns : \/ handler'[d].session = handler[d].session
                                \/ handler'[d].session = NoSession
             /\ UNCHANGED <<current, started>>
    <2>1. \A t \in Sessions : Fewer(t)
          BY <1>4 DEF Fewer
    <2>2. QED
          BY <1>4, <2>1, OnlyFewer
  <1>5. QED
        BY <1>2, <1>3, <1>4

\* A close timer that moves on no longer stores.
LEMMA ReplaceLeaves ==
  ASSUME TypeInv, NEW w \in watch, NEW pc, NEW t, pc # "store", Replace(w, pc, t)
  PROVE  /\ \A v \in watch' : v.pc = "store" => v \in watch \ {w}
         /\ \A v \in watch' : ~v.timer => v \in watch \ {w} \/ ~w.timer
         /\ \A v \in watch' : v \in watch \ {w} \/ v.session = w.session
         /\ \A u, v \in watch' : u \in watch \ {w} \/ v \in watch \ {w} \/ u = v
  <1>1. /\ [w EXCEPT !.pc = pc, !.since = t].pc = pc
        /\ [w EXCEPT !.pc = pc, !.since = t].timer = w.timer
        /\ [w EXCEPT !.pc = pc, !.since = t].session = w.session
        BY DEF TypeInv, TypeOK, Watch
  <1>2. QED
        BY <1>1 DEF Replace

\* cache.set: from the store phase to the cache.
LEMMA StoreHolder ==
  ASSUME HolderInv, TypeInv', NEW w \in watch, StoreSession(w)
  PROVE  HolderInv'
  <1>0. PICK s : s = w.session
        OBVIOUS
  <1> USE HolderTypes, <1>0
  <1>1. /\ s \in Sessions /\ Sole(s) /\ s \in started /\ w.pc = "store" /\ w.timer
        /\ UNCHANGED <<current, handler, started>>
        BY DEF StoreSession, HolderInv, TypeInv, StoredInTime, Unheld, Watch
  <1>2. /\ \A v \in watch' : v.pc = "store" => v \in watch \ {w}
        /\ \A v \in watch' : ~v.timer => v \in watch
        BY <1>1, ReplaceLeaves DEF StoreSession
  <1>3. \A t \in Sessions \ {s} : Fewer(t)
        BY <1>1, <1>2 DEF StoreSession, Fewer
  <1>4. Sole(s)'
        BY <1>1, <1>2 DEF StoreSession, Sole, Unheld, Untended
  <1>5. QED
        BY <1>1, <1>3, <1>4, OneMoves

LEMMA HolderStep == HolderInv /\ [Next]_vars => HolderInv'
  <1> SUFFICES ASSUME HolderInv, [Next]_vars PROVE HolderInv'
      OBVIOUS
  <1>0. TypeInv'
        BY TypeStep DEF HolderInv
  <1> USE HolderTypes, <1>0
  <1>1. CASE UNCHANGED vars
    <2>1. \A s \in Sessions : Fewer(s)
          BY <1>1 DEF vars, Fewer
    <2>2. QED
          BY <1>1, <2>1, OnlyFewer DEF vars
  <1>2. ASSUME NEW c \in Conns, Disconnect(c) PROVE HolderInv'
        BY <1>2, DisconnectHolder
  <1>3. ASSUME NEW c \in Conns, NEW r \in Requests, NEW cookie \in BOOLEAN,
               ReceiveInSession(c, r, cookie)
        PROVE HolderInv'
        BY <1>3, ReceiveHolder
  <1>4. ASSUME NEW c \in Conns, NEW r \in Requests, NEW s \in Sessions,
               Resume(c, r, s)
        PROVE HolderInv'
        BY <1>4, ResumeHolder
  <1>5. ASSUME NEW c \in Conns, NEW s \in Sessions, ReceiveInform(c, s)
        PROVE HolderInv'
        BY <1>5, InformHolder
  <1>6. ASSUME NEW c \in Conns, AuthSucceeds(c) PROVE HolderInv'
    <2>1. \A d \in Conns : \/ handler'[d].session = handler[d].session
                           \/ handler'[d].session = NoSession
          BY <1>6, EnterSession, DispatchSession DEF AuthSucceeds
    <2>2. QED
          BY <1>6, <2>1, HandBack DEF AuthSucceeds, At
  <1>7. ASSUME NEW c \in Conns, AuthFails(c) PROVE HolderInv'
    <2>1. CASE UNCHANGED <<current, started>> /\ EnterEnd(c, handler[c].session)
      <3>1. \A d \in Conns : handler'[d].session = handler[d].session
            BY <2>1, EnterSession DEF EnterEnd
      <3>2. QED
            BY <1>7, <2>1, <3>1, HandBack DEF AuthFails, At
    <2>2. QED
          BY <1>7, <2>1, HandBack DEF AuthFails, At, Forget
  <1>8. ASSUME NEW c \in Conns, AcquireLock(c) PROVE HolderInv'
    <2>1. CASE UNCHANGED started /\ Enter(c, "run", handler[c].session, "none")
      <3>1. \A d \in Conns : handler'[d].session = handler[d].session
            BY <2>1, EnterSession
      <3>2. QED
            BY <1>8, <2>1, <3>1, HandBack DEF AcquireLock, At
    <2>2. QED
          BY <1>8, <2>1, HandBack DEF AcquireLock, At
  <1>9. ASSUME NEW c \in Conns, Respond(c) PROVE HolderInv'
    <2>1. CASE UNCHANGED current /\ EnterEnd(c, handler[c].session)
      <3>1. \A d \in Conns : handler'[d].session = handler[d].session
            BY <2>1, EnterSession DEF EnterEnd
      <3>2. QED
            BY <1>9, <2>1, <3>1, HandBack DEF Respond, At
    <2>2. QED
          BY <1>9, <2>1, HandBack DEF Respond, At
  <1>10. ASSUME NEW c \in Conns, Finish(c) PROVE HolderInv'
    <2>1. \A d \in Conns : handler'[d].session = handler[d].session
          BY <1>10, EnterSession DEF Finish, EnterEnd
    <2>2. QED
          BY <1>10, <2>1, HandBack DEF Finish, At
  <1>11. ASSUME NEW c \in Conns, HandlerThrows(c) PROVE HolderInv'
        BY <1>11, HandBack DEF HandlerThrows, Forget
  <1>12. ASSUME NEW c \in Conns, SaveInHandler(c) PROVE HolderInv'
    <2>1. \A d \in Conns : handler'[d].session = handler[d].session
          BY <1>12, EnterSession DEF SaveInHandler
    <2>2. QED
          BY <1>12, <2>1, HandBack DEF SaveInHandler, At
  <1>13. ASSUME NEW c \in Conns, ReleaseInHandler(c) PROVE HolderInv'
        BY <1>13, HandBack DEF ReleaseInHandler, At
  <1>14. ASSUME NEW e \in extending, ExtendLock(e) PROVE HolderInv'
    <2>1. \A s \in Sessions : Fewer(s)
          BY <1>14 DEF ExtendLock, Fewer
    <2>2. QED
          BY <1>14, <2>1, OnlyFewer DEF ExtendLock
  <1>15. ASSUME NEW e \in extending, ExtensionFails(e) PROVE HolderInv'
    <2>1. \A s \in Sessions : Fewer(s)
          BY <1>15 DEF ExtensionFails, Fewer
    <2>2. QED
          BY <1>15, <2>1, OnlyFewer DEF ExtensionFails
  <1>16. CASE ExpireLock
    <2>1. \A s \in Sessions : Fewer(s)
          BY <1>16 DEF ExpireLock, Fewer
    <2>2. QED
          BY <1>16, <2>1, OnlyFewer DEF ExpireLock
  <1>17. ASSUME NEW s \in Sessions, ExpireCache(s) PROVE HolderInv'
    <2>1. \A t \in Sessions : Fewer(t)
          BY <1>17 DEF ExpireCache, Fewer
    <2>2. QED
          BY <1>17, <2>1, OnlyFewer DEF ExpireCache
  <1>18. ASSUME NEW w \in watch, StoreSession(w) PROVE HolderInv'
        BY <1>18, StoreHolder
  <1>19. ASSUME NEW w \in watch, CheckSession(w) PROVE HolderInv'
    <2>1. /\ \A v \in watch' : v.pc = "store" => v \in watch
          /\ \A v \in watch' : ~v.timer => v \in watch
          BY <1>19, ReplaceLeaves DEF CheckSession, TypeInv, StoredInTime
    <2>2. \A s \in Sessions : Fewer(s)
          BY <1>19, <2>1 DEF CheckSession, Fewer
    <2>3. QED
          BY <1>19, <2>2, OnlyFewer DEF CheckSession
  <1>20. ASSUME NEW w \in watch, SaveInWatch(w) PROVE HolderInv'
    <2>1. PICK s : s = w.session /\ s \in Sessions
          BY DEF Watch
    <2>2. /\ \A v \in watch' : v.pc = "store" => v \in watch
          /\ \A v \in watch' : ~v.timer => v \in watch \ {w} \/ ~w.timer
          /\ \A v \in watch' : v \in watch \ {w} \/ v.session = s
          /\ \A u, v \in watch' : u \in watch \ {w} \/ v \in watch \ {w} \/ u = v
          BY <1>20, <2>1, ReplaceLeaves DEF SaveInWatch
    <2>3. \A t \in Sessions \ {s} : Fewer(t)
          BY <1>20, <2>2 DEF SaveInWatch, Fewer
    <2>4. CASE w.timer
      <3>1. \A t \in Sessions : Fewer(t)
            BY <1>20, <2>2, <2>4 DEF SaveInWatch, Fewer
      <3>2. QED
            BY <1>20, <3>1, OnlyFewer DEF SaveInWatch
    <2>5. CASE ~w.timer
      <3>1. Sole(s) /\ Unheld(s) /\ s \in started
            BY <2>1, <2>5 DEF HolderInv, Sole, Untended
      <3>2. Unheld(s)'
            BY <1>20, <2>2, <3>1 DEF SaveInWatch, Unheld
      <3>3. Sole(s)'
            BY <1>20, <2>1, <2>2, <2>5, <3>1, <3>2 DEF SaveInWatch, Sole, Unheld
      <3>4. QED
            BY <1>20, <2>1, <2>3, <3>1, <3>3, OneMoves DEF SaveInWatch
    <2>6. QED
          BY <2>4, <2>5
  <1>21. ASSUME NEW w \in watch, ReleaseInWatch(w) PROVE HolderInv'
    <2>1. \A s \in Sessions : Fewer(s)
          BY <1>21 DEF ReleaseInWatch, Fewer
    <2>2. QED
          BY <1>21, <2>1, OnlyFewer DEF ReleaseInWatch
  <1>22. ASSUME NEW w \in watch, WatchThrows(w) PROVE HolderInv'
    <2>1. \A s \in Sessions : Fewer(s)
          BY <1>22 DEF WatchThrows, Fewer
    <2>2. QED
          BY <1>22, <2>1, OnlyFewer DEF WatchThrows
  <1>23. ASSUME NEW k \in Workers, Crash(k) PROVE HolderInv'
    <2>1. \A s \in Sessions : Fewer(s)
          BY <1>23 DEF Crash, Idle, Fewer
    <2>2. QED
          BY <1>23, <2>1, OnlyFewer DEF Crash
  <1>24. CASE Tick
    <2>1. \A s \in Sessions : Fewer(s)
          BY <1>24 DEF Tick, Fewer
    <2>2. QED
          BY <1>24, <2>1, OnlyFewer DEF Tick
  <1>25. CASE Horizon
        BY <1>1, <1>25 DEF Horizon
  <1>26. QED
        BY <1>1, <1>2, <1>3, <1>4, <1>5, <1>6, <1>7, <1>8, <1>9, <1>10, <1>11, <1>12,
           <1>13, <1>14, <1>15, <1>16, <1>17, <1>18, <1>19, <1>20, <1>21, <1>22,
           <1>23, <1>24, <1>25 DEF Next

\* A session context is never held twice: by two sockets, handlers, closes or
\* cache entries (currentSessions.delete in listenerAsync and onConnection,
\* cache.pop before a handler works on a cached session), except beside the
\* endSession of a close timer (cache.get in onConnection).
THEOREM OneHolder == Spec => []SingleHolder
  <1>1. HolderInv => SingleHolder
        BY SoleIsSingle DEF HolderInv
  <1>2. QED
        BY HolderInit, HolderStep, <1>1, PTL DEF Spec
-----------------------------------------------------------------------------
\* The lock and the clock

\* A record of onConnection that is ending its session.
Ending(w) == w.pc \in {"end", "release"}

Extending(s) == \E e \in extending : e.session = s

\* The lock of s is good beyond the time t, whatever the clock of the database says, or
\* will be once an extension in flight is executed.
Good(s, t) ==
    \/ t + ClockSkew < lock.expire
    \/ \E e \in extending : e.session = s /\ t + ClockSkew < e.since + LockTTL

\* A session in progress, or one that was challenged and whose idle time is not over: the
\* device may go on with it.
Live(s) ==
    \/ InProgress(s)
    \/ /\ Admitted(s) /\ s \notin orphan /\ ends[s] = 0
       /\ OnSocket(s) /\ ~Expired(s)

\* What is known of the context of s wherever it is,
ContextOK(s) ==
    /\ Admitted(s) => s \in started
    /\ ctx[s].auth = 2 => Admitted(s)
    /\ ~Admitted(s) =>
          /\ ends[s] = 0 /\ cache[s] = 0
          /\ \A w \in watch : w.session # s
          /\ \A e \in extending : e.session # s
    /\ ctx[s].lastActivity # 0 => ctx[s].lastActivity < ctx[s].extendLock
    /\ ctx[s].extendLock <= now + RefreshInterval

\* in the cache,
CacheOK(s) ==
    cache[s] # 0 =>
        /\ ctx[s].lastActivity # 0
        /\ cache[s] = ctx[s].lastActivity + Timeout + CacheGrace + SkewTolerance

\* on a socket, which is not idle beyond socket.setTimeout,
SocketOK(s) ==
    \A c \in Conns :
        current[c] = s =>
            /\ open[c] /\ ctx[s].auth # 0
            /\ Admitted(s) => ctx[s].lastActivity # 0
            /\ ctx[s].auth = 2 =>
                  now <= ctx[s].lastActivity + Timeout + RequestTimeout

\* in a handler,
HandlerOK(s) ==
    \A c \in Conns :
        LET h == handler[c] IN
        h.session = s =>
            /\ h.pc # "idle"
            /\ h.since <= now /\ now <= h.since + ProcTime
            /\ h.pc = "auth" /\ Admitted(s) => ctx[s].lastActivity # 0
            /\ h.pc = "lock" =>
                  ~Admitted(s) /\ ctx[s].extendLock <= h.since + RefreshInterval
            /\ h.pc \in {"run", "end", "release"} => Admitted(s)
            /\ h.pc = "run" => ctx[s].auth = 2
            /\ h.pc \in {"end", "release"} => ends[s] # 0

\* and in onConnection.
WatchOK(s) ==
    \A w \in watch :
        w.session = s =>
            /\ now <= w.since + ProcTime
            /\ w.pc = "store" =>
                  /\ w.since <= now /\ w.since < w.lastActivity + Timeout
                  /\ w.lastActivity = ctx[s].lastActivity /\ w.lastActivity # 0
            /\ w.pc = "wait" =>
                  w.since <= w.lastActivity + Timeout + TimerGrace + ProcTime
            /\ Ending(w) => w.since <= now /\ ends[s] # 0

\* An extension in flight is the last one that was due.
ExtensionOK(s) ==
    \A e \in extending :
        e.session = s =>
            /\ e.since <= now /\ now <= e.since + ProcTime
            /\ ctx[s].extendLock = e.since + RefreshInterval
            /\ lock.owner = s => lock.expire <= e.since + LockTTL

\* A session that is ended for the first time is ended in one place.
EndedOnce(s) ==
    ends[s] = 1 =>
        /\ \A v, w \in watch : (/\ v.session = s /\ Ending(v)
                                /\ w.session = s /\ Ending(w)) => v = w
        /\ \A w \in watch, c \in Conns :
              w.session = s /\ Ending(w) /\ handler[c].session = s =>
                  handler[c].pc \notin {"end", "release"}

\* Accounted, for s.
AccountedFor(s) ==
    (Admitted(s) /\ ends[s] = 0 /\ s \notin orphan) =>
        \/ OnSocket(s) \/ InHandler(s, {"auth", "run"})
        \/ InWatch(s, {"store"}) \/ Waiting(s)

\* The lock of a live session: the old lock outlives an extension in flight, and otherwise
\* the lock is good for the device's idle time after the next extension is due.
Locked(s) ==
    Live(s) =>
        /\ lock.owner = s
        /\ \A e \in extending :
              e.session = s => e.since + ProcTime + ClockSkew < lock.expire
        /\ \/ Extending(s)
           \/ lock.expire >= ctx[s].extendLock + Timeout + RequestTimeout + SkewTolerance

\* Every phase of a handler leaves the phases after it their time.
HandlerInTime(s) ==
    s \notin orphan =>
        \A c \in Conns :
            LET h == handler[c] IN
            h.session = s =>
                /\ ends[s] = 0 /\ Admitted(s) /\ h.pc = "auth" =>
                      Good(s, h.since + 4 * ProcTime)
                /\ ends[s] = 0 /\ h.pc = "run" => Good(s, h.since + 3 * ProcTime)
                /\ ends[s] = 1 /\ ctx[s].auth # 1 /\ h.pc = "end" =>
                      Good(s, h.since + 2 * ProcTime)
                /\ ends[s] = 1 /\ ctx[s].auth # 1 /\ h.pc = "release" =>
                      Good(s, h.since + ProcTime)

\* So does onConnection; a session that can still be resumed meanwhile has the time for an
\* extension more.
WatchInTime(s) ==
    s \notin orphan /\ ends[s] = 1 =>
        \A w \in watch :
            w.session = s =>
                /\ w.pc = "end" => /\ Good(s, w.since + 2 * ProcTime)
                                   /\ Unheld(s) \/ Good(s, w.since + 3 * ProcTime)
                /\ w.pc = "release" => /\ Good(s, w.since + ProcTime)
                                       /\ Unheld(s) \/ Good(s, w.since + 2 * ProcTime)

\* Every context is known wherever it is,
PlacesOK(s) ==
    /\ ContextOK(s) /\ CacheOK(s) /\ SocketOK(s) /\ HandlerOK(s) /\ WatchOK(s)
    /\ ExtensionOK(s) /\ EndedOnce(s)

\* and its session is not lost and keeps its lock: the inductive invariant.
SessionOK(s) ==
    /\ PlacesOK(s) /\ AccountedFor(s)
    /\ Locked(s) /\ HandlerInTime(s) /\ WatchInTime(s)

ClockOK == now # 0 /\ lock.expire <= now + LockTTL

\* A connection is on its socket or in its handler.
OneTask ==
    \A c \in Conns : IF At(c, "idle") THEN handler[c].session = NoSession
                                     ELSE current[c] = NoSession

CoverInv == HolderInv /\ ClockOK /\ OneTask /\ \A s \in Sessions : SessionOK(s)

\* The numbers of the invariant are numbers.
LEMMA Numbers ==
  ASSUME TypeInv
  PROVE  /\ now \in Nat /\ lock.expire \in Nat
         /\ \A s \in Sessions : /\ ctx[s].lastActivity \in Nat /\ ctx[s].extendLock \in Nat
                                /\ ends[s] \in Nat /\ cache[s] \in Nat
         /\ \A c \in Conns : handler[c].since \in Nat
         /\ \A w \in watch : w.session \in Sessions /\ w.since \in Nat /\ w.lastActivity \in Nat
         /\ \A e \in extending : e.session \in Sessions /\ e.since \in Nat
  BY DEF TypeInv, TypeOK, Context, Handler, Watch, Extension

\* The time-outs, and what fits in them.
LEMMA Slack ==
  /\ Timeout \in Nat /\ Timeout > 0 /\ RefreshInterval \in Nat /\ RequestTimeout \in Nat
  /\ SkewTolerance \in Nat /\ ClockSkew \in Nat /\ TimerGrace \in Nat /\ CacheGrace \in Nat
  /\ ProcTime \in Nat
  /\ ProcTime < RefreshInterval
  /\ TimerGrace + 6 * ProcTime + ClockSkew <= RequestTimeout + SkewTolerance
  /\ 2 * ProcTime + ClockSkew <= SkewTolerance
  /\ TimerGrace + 2 * ProcTime + ClockSkew < CacheGrace + SkewTolerance
  /\ LockTTL = Timeout + RefreshInterval + RequestTimeout + SkewTolerance
  BY ConstantsAssumption, TimingAssumption DEF LockTTL

-----------------------------------------------------------------------------
\* Steps of the other sessions

\* The places of t only lose its context, which is not touched.
Shrinks(t) ==
    /\ now' = now /\ ctx'[t] = ctx[t] /\ ends'[t] = ends[t] /\ cache'[t] = cache[t]
    /\ t \in started => t \in started'
    /\ \A c \in Conns : current'[c] = t => current[c] = t /\ open'[c] = open[c]
    /\ \A c \in Conns : handler'[c].session = t => handler'[c] = handler[c]
    /\ \A w \in watch' : w.session = t => w \in watch
    /\ \A e \in extending' :
          e.session = t => \E x \in extending : x.session = t /\ x.since = e.since

\* The lock is not taken from t or given to it.
KeepsLock(t) == lock.owner = t \/ lock'.owner = t => lock' = lock

\* What t loses it loses to a failure.
Stays(t) ==
    /\ t \in orphan => t \in orphan'
    /\ t \notin orphan' =>
          /\ \A c \in Conns : current[c] = t => current'[c] = t
          /\ \A c \in Conns : handler[c].session = t => handler'[c].session = t
          /\ \A w \in watch : w.session = t => w \in watch'
          /\ \A e \in extending :
                e.session = t => \E x \in extending' : x.session = t /\ x.since = e.since

LEMMA ShrinksOK ==
  ASSUME NEW t, PlacesOK(t), Shrinks(t), ExtensionOK(t)'
  PROVE  PlacesOK(t)'
  <1>1. ContextOK(t)'
        BY DEF PlacesOK, ContextOK, Shrinks, Admitted
  <1>2. CacheOK(t)'
        BY DEF PlacesOK, CacheOK, Shrinks
  <1>3. SocketOK(t)'
        BY DEF PlacesOK, SocketOK, Shrinks, Admitted
  <1>4. HandlerOK(t)'
        BY DEF PlacesOK, HandlerOK, Shrinks, Admitted
  <1>5. WatchOK(t)'
        BY DEF PlacesOK, WatchOK, Shrinks, Ending
  <1>6. EndedOnce(t)'
        BY DEF PlacesOK, EndedOnce, Shrinks, Ending
  <1>7. QED
        BY <1>1, <1>2, <1>3, <1>4, <1>5, <1>6 DEF PlacesOK

LEMMA KeepsExtensions ==
  ASSUME NEW t, ExtensionOK(t), Shrinks(t), KeepsLock(t)
  PROVE  ExtensionOK(t)'
  BY DEF ExtensionOK, Shrinks, KeepsLock

\* An orphan is only in its places.
LEMMA OrphanOK ==
  ASSUME NEW t, PlacesOK(t)', t \in orphan'
  PROVE  SessionOK(t)'
  BY DEF SessionOK, AccountedFor, Locked, Live, InProgress, HandlerInTime, WatchInTime

\* What is not live has no phase to end in time.
LEMMA NotLive ==
  ASSUME NEW s, PlacesOK(s)', ~Live(s)'
  PROVE  HandlerInTime(s)' /\ WatchInTime(s)'
  <1>1. \A c \in Conns : handler'[c].session = s =>
            /\ handler'[c].pc \in {"run", "end", "release"} => Admitted(s)'
            /\ handler'[c].pc \in {"end", "release"} => ends'[s] # 0
        BY DEF PlacesOK, HandlerOK
  <1>2. \A w \in watch' : w.session = s => Admitted(s)'
        BY DEF PlacesOK, ContextOK
  <1>3. HandlerInTime(s)'
        BY <1>1 DEF HandlerInTime, Live, InProgress, InHandler
  <1>4. WatchInTime(s)'
        BY <1>2 DEF WatchInTime, Live, InProgress, InWatch
  <1>5. QED
        BY <1>3, <1>4

\* A session that another one's step leaves alone, or fails.
LEMMA OthersOK ==
  ASSUME NEW t, SessionOK(t), Shrinks(t), KeepsLock(t), Stays(t)
  PROVE  SessionOK(t)'
  <1>1. PlacesOK(t)'
        BY ShrinksOK, KeepsExtensions DEF SessionOK, PlacesOK
  <1>2. CASE t \in orphan'
        BY <1>1, <1>2, OrphanOK
  <1>3. CASE t \notin orphan'
    <2> USE <1>3
    <2>1. t \notin orphan
          BY DEF Stays
    <2>2. /\ OnSocket(t)' <=> OnSocket(t)
          /\ \A pcs : InHandler(t, pcs)' <=> InHandler(t, pcs)
      <3>1. OnSocket(t)' <=> OnSocket(t)
            BY DEF Shrinks, Stays, OnSocket
      <3>2. \A pcs : InHandler(t, pcs)' <=> InHandler(t, pcs)
            BY DEF Shrinks, Stays, InHandler
      <3>3. QED
            BY <3>1, <3>2
    <2>3. \A w : (w \in watch /\ w.session = t) <=> (w \in watch' /\ w.session = t)
          BY DEF Shrinks, Stays
    <2>4. /\ \A pcs : InWatch(t, pcs)' <=> InWatch(t, pcs)
          /\ Waiting(t)' <=> Waiting(t)
          BY <2>3 DEF Shrinks, InWatch, Waiting
    <2>5. Live(t)' <=> Live(t)
          BY <2>1, <2>2, <2>4 DEF Live, InProgress, Shrinks, Admitted, Expired
    <2>6. AccountedFor(t)'
          BY <2>1, <2>2, <2>4 DEF SessionOK, AccountedFor, Shrinks, Admitted
    <2>7. CASE Live(t)
      <3>1. lock' = lock
            BY <2>7 DEF SessionOK, Locked, KeepsLock
      <3>2. Extending(t)' <=> Extending(t)
            BY DEF Shrinks, Stays, Extending
      <3>3. Locked(t)'
            BY <2>5, <2>7, <3>1, <3>2 DEF SessionOK, Locked, Shrinks
      <3>4. \A x : Good(t, x) => Good(t, x)'
            BY <3>1 DEF Good, Stays
      <3>5. HandlerInTime(t)'
            BY <2>1, <3>4 DEF SessionOK, HandlerInTime, Shrinks, Admitted
      <3>6. Unheld(t)' <=> Unheld(t)
            BY <2>3 DEF Unheld, Shrinks, Stays
      <3>7. WatchInTime(t)'
            BY <2>1, <2>3, <3>4, <3>6 DEF SessionOK, WatchInTime, Shrinks
      <3>8. QED
            BY <1>1, <2>6, <3>3, <3>5, <3>7 DEF SessionOK
    <2>8. CASE ~Live(t)
      <3>1. Locked(t)'
            BY <2>5, <2>8 DEF Locked
      <3>2. HandlerInTime(t)' /\ WatchInTime(t)'
            BY <1>1, <2>5, <2>8, NotLive
      <3>3. QED
            BY <1>1, <2>6, <3>1, <3>2 DEF SessionOK
    <2>9. QED
          BY <2>7, <2>8
  <1>4. QED
        BY <1>2, <1>3

LEMMA OneSession ==
  ASSUME CoverInv, HolderInv', ClockOK', OneTask', NEW s \in Sessions, SessionOK(s)',
         \A t \in Sessions \ {s} : Shrinks(t) /\ KeepsLock(t) /\ Stays(t)
  PROVE  CoverInv'
  <1>1. \A t \in Sessions \ {s} : SessionOK(t)'
        BY OthersOK DEF CoverInv
  <1>2. QED
        BY <1>1 DEF CoverInv

LEMMA NoSessions ==
  ASSUME CoverInv, HolderInv', ClockOK', OneTask',
         \A t \in Sessions : Shrinks(t) /\ KeepsLock(t) /\ Stays(t)
  PROVE  CoverInv'
  <1>1. \A t \in Sessions : SessionOK(t)'
        BY OthersOK DEF CoverInv
  <1>2. QED
        BY <1>1 DEF CoverInv

-----------------------------------------------------------------------------
\* How long the lock of a session is good

LEMMA GoodSooner ==
  ASSUME TypeInv, NEW s, NEW t \in Int, NEW u \in Int, u <= t, Good(s, t)
  PROVE  Good(s, u)
  BY Numbers, Slack DEF Good

\* The slack covers what remains of the session's idle time, and the four phases that
\* may follow: authentication, the next RPC, the saves and the release.
LEMMA GoodWhenLive ==
  ASSUME TypeInv, NEW s \in Sessions, SessionOK(s), Live(s), ctx[s].lastActivity # 0,
         NEW t \in Int, t <= now + 4 * ProcTime,
         t + ClockSkew <= ctx[s].lastActivity + Timeout + RequestTimeout + SkewTolerance
  PROVE  Good(s, t)
  <1>1. CASE Extending(s)
    <2>1. PICK e \in extending : e.session = s
          BY <1>1 DEF Extending
    <2>2. e.since \in Nat /\ now <= e.since + ProcTime /\ now \in Nat
          BY <2>1, Numbers DEF SessionOK, PlacesOK, ExtensionOK
    <2>3. t + ClockSkew < e.since + LockTTL
          BY <2>2, Slack
    <2>4. QED
          BY <2>1, <2>3 DEF Good
  <1>2. CASE ~Extending(s)
    <2>1. /\ lock.expire >= ctx[s].extendLock + Timeout + RequestTimeout + SkewTolerance
          /\ ctx[s].lastActivity < ctx[s].extendLock
          BY <1>2 DEF SessionOK, PlacesOK, Locked, ContextOK
    <2>2. t + ClockSkew < lock.expire
          BY <2>1, Numbers, Slack
    <2>3. QED
          BY <2>2 DEF Good
  <1>3. QED
        BY <1>1, <1>2

\* On a socket: until socket.setTimeout, and while a request of an admitted session is not
\* refused as too late.
LEMMA GoodOnSocket ==
  ASSUME TypeInv, NEW s \in Sessions, SessionOK(s), NEW c \in Conns, current[c] = s,
         Admitted(s), s \notin orphan, ends[s] = 0
  PROVE  /\ ctx[s].auth = 2 => Live(s) /\ Good(s, now + 2 * ProcTime)
         /\ ~Expired(s) => Live(s) /\ Good(s, now + 4 * ProcTime)
  <1>1. /\ OnSocket(s) /\ ctx[s].lastActivity # 0
        /\ ctx[s].auth = 2 => now <= ctx[s].lastActivity + Timeout + RequestTimeout
        BY DEF SessionOK, PlacesOK, SocketOK, OnSocket
  <1>2. ASSUME ctx[s].auth = 2 PROVE Live(s) /\ Good(s, now + 2 * ProcTime)
    <2>1. Live(s)
          BY <1>1, <1>2 DEF Live, InProgress
    <2>2. Good(s, now + 2 * ProcTime)
          BY <1>1, <1>2, <2>1, Numbers, Slack, GoodWhenLive
    <2>3. QED
          BY <2>1, <2>2
  <1>3. ASSUME ~Expired(s) PROVE Live(s) /\ Good(s, now + 4 * ProcTime)
    <2>1. Live(s)
          BY <1>1, <1>3 DEF Live
    <2>2. now <= ctx[s].lastActivity + Timeout
          BY <1>1, <1>3, Numbers, Slack DEF Expired
    <2>3. Good(s, now + 4 * ProcTime)
          BY <1>1, <2>1, <2>2, Numbers, Slack, GoodWhenLive
    <2>4. QED
          BY <2>1, <2>3
  <1>4. QED
        BY <1>2, <1>3

\* In the cache: until the close timer has fired and found it.
LEMMA GoodInCache ==
  ASSUME TypeInv, NEW s \in Sessions, SessionOK(s), Sole(s), cache[s] # 0,
         s \notin orphan, ends[s] = 0
  PROVE  /\ Live(s) /\ Good(s, now + 4 * ProcTime)
         /\ Admitted(s) /\ Waiting(s)
         /\ now <= ctx[s].lastActivity + Timeout + TimerGrace + 2 * ProcTime
  <1>1. Admitted(s)
        BY DEF SessionOK, PlacesOK, ContextOK
  <1>2. Waiting(s)
    <2>1. ~OnSocket(s) /\ ~InHandler(s, {"auth", "run"}) /\ ~InWatch(s, {"store"})
          BY DEF Sole, OnSocket, InHandler, InWatch
    <2>2. QED
          BY <1>1, <2>1 DEF SessionOK, AccountedFor
  <1>3. Live(s)
        BY <1>1, <1>2 DEF Live, InProgress
  <1>4. PICK w \in watch : /\ w.session = s /\ w.pc = "wait"
                           /\ w.lastActivity = ctx[s].lastActivity
        BY <1>2 DEF Waiting
  <1>5. /\ now <= w.since + ProcTime
        /\ w.since <= w.lastActivity + Timeout + TimerGrace + ProcTime
        BY <1>4 DEF SessionOK, PlacesOK, WatchOK
  <1>6. now <= ctx[s].lastActivity + Timeout + TimerGrace + 2 * ProcTime
        BY <1>4, <1>5, Numbers, Slack
  <1>7. ctx[s].lastActivity # 0
        BY DEF SessionOK, PlacesOK, CacheOK
  <1>8. Good(s, now + 4 * ProcTime)
        BY <1>3, <1>6, <1>7, Numbers, Slack, GoodWhenLive
  <1>9. QED
        BY <1>1, <1>2, <1>3, <1>6, <1>8

\* In a handler: for the phases after this one.
LEMMA GoodInHandler ==
  ASSUME TypeInv, NEW s \in Sessions, SessionOK(s), s \notin orphan,
         NEW c \in Conns, handler[c].session = s
  PROVE  /\ ends[s] = 0 /\ Admitted(s) /\ handler[c].pc = "auth" =>
              Live(s) /\ Good(s, now + 3 * ProcTime)
         /\ ends[s] = 0 /\ handler[c].pc = "run" =>
              Live(s) /\ Good(s, now + 2 * ProcTime)
         /\ ends[s] = 1 /\ ctx[s].auth # 1 /\ handler[c].pc = "end" =>
              Live(s) /\ Good(s, now + ProcTime)
         /\ ends[s] = 1 /\ ctx[s].auth # 1 /\ handler[c].pc = "release" =>
              Live(s) /\ Good(s, now)
  <1>1. /\ handler[c].since \in Nat /\ now \in Nat /\ ProcTime \in Nat
        /\ now <= handler[c].since + ProcTime
        BY Numbers, Slack DEF SessionOK, PlacesOK, HandlerOK
  <1>2. handler[c].pc \in {"run", "end", "release"} => Admitted(s)
        BY DEF SessionOK, PlacesOK, HandlerOK
  <1>3. /\ ends[s] = 0 /\ Admitted(s) /\ handler[c].pc \in {"auth", "run"} => Live(s)
        /\ ends[s] = 1 /\ ctx[s].auth # 1 /\ handler[c].pc \in {"end", "release"} => Live(s)
        BY <1>2 DEF Live, InProgress, InHandler
  <1>4. ASSUME ends[s] = 0, Admitted(s), handler[c].pc = "auth"
        PROVE  Good(s, now + 3 * ProcTime)
    <2>1. Good(s, handler[c].since + 4 * ProcTime)
          BY <1>4 DEF SessionOK, HandlerInTime
    <2>2. QED
          BY <1>1, <2>1, GoodSooner
  <1>5. ASSUME ends[s] = 0, handler[c].pc = "run"
        PROVE  Good(s, now + 2 * ProcTime)
    <2>1. Good(s, handler[c].since + 3 * ProcTime)
          BY <1>5 DEF SessionOK, HandlerInTime
    <2>2. QED
          BY <1>1, <2>1, GoodSooner
  <1>6. ASSUME ends[s] = 1, ctx[s].auth # 1, handler[c].pc = "end"
        PROVE  Good(s, now + ProcTime)
    <2>1. Good(s, handler[c].since + 2 * ProcTime)
          BY <1>6 DEF SessionOK, HandlerInTime
    <2>2. QED
          BY <1>1, <2>1, GoodSooner
  <1>7. ASSUME ends[s] = 1, ctx[s].auth # 1, handler[c].pc = "release"
        PROVE  Good(s, now)
    <2>1. Good(s, handler[c].since + ProcTime)
          BY <1>7 DEF SessionOK, HandlerInTime
    <2>2. QED
          BY <1>1, <2>1, GoodSooner
  <1>8. QED
        BY <1>2, <1>3, <1>4, <1>5, <1>6, <1>7

\* In onConnection, likewise.
LEMMA GoodInWatch ==
  ASSUME TypeInv, NEW s \in Sessions, SessionOK(s), s \notin orphan, ends[s] = 1,
         NEW w \in watch, w.session = s, Ending(w)
  PROVE  /\ Live(s) /\ Good(s, now)
         /\ ~Unheld(s) => Good(s, now + ProcTime)
         /\ w.pc = "end" => /\ Good(s, now + ProcTime)
                            /\ ~Unheld(s) => Good(s, now + 2 * ProcTime)
  <1>1. /\ w.since \in Nat /\ now \in Nat /\ ProcTime \in Nat
        /\ now <= w.since + ProcTime
        BY Numbers, Slack DEF SessionOK, PlacesOK, WatchOK
  <1>2. Live(s)
        BY DEF SessionOK, PlacesOK, ContextOK, Live, InProgress, InWatch, Ending
  <1>3. CASE w.pc = "end"
    <2>1. /\ Good(s, w.since + 2 * ProcTime)
          /\ ~Unheld(s) => Good(s, w.since + 3 * ProcTime)
          BY <1>3 DEF SessionOK, WatchInTime
    <2>2. Good(s, now + ProcTime) /\ Good(s, now)
          BY <1>1, <2>1, GoodSooner
    <2>3. ~Unheld(s) => Good(s, now + 2 * ProcTime)
          BY <1>1, <2>1, GoodSooner
    <2>4. QED
          BY <1>2, <2>2, <2>3
  <1>4. CASE w.pc = "release"
    <2>1. /\ Good(s, w.since + ProcTime)
          /\ ~Unheld(s) => Good(s, w.since + 2 * ProcTime)
          BY <1>4 DEF SessionOK, WatchInTime
    <2>2. Good(s, now)
          BY <1>1, <2>1, GoodSooner
    <2>3. ~Unheld(s) => Good(s, now + ProcTime)
          BY <1>1, <2>1, GoodSooner
    <2>4. QED
          BY <1>2, <1>4, <2>2, <2>3
  <1>5. QED
        BY <1>3, <1>4 DEF Ending

\* The database never deletes the lock of a live session.
LEMMA NotExpired ==
  ASSUME TypeInv, NEW s \in Sessions, SessionOK(s), Sole(s), Live(s)
  PROVE  now + ClockSkew < lock.expire
  <1>1. CASE Extending(s)
    <2>1. PICK e \in extending : e.session = s
          BY <1>1 DEF Extending
    <2>2. /\ e.since + ProcTime + ClockSkew < lock.expire
          /\ now <= e.since + ProcTime
          BY <2>1 DEF SessionOK, PlacesOK, Locked, ExtensionOK
    <2>3. QED
          BY <2>2, Numbers, Slack
  <1>2. ASSUME ~Extending(s), Good(s, now) PROVE now + ClockSkew < lock.expire
        BY <1>2 DEF Good, Extending
  <1>3. /\ Admitted(s) /\ s \notin orphan /\ ends[s] \in {0, 1}
        BY DEF Live, InProgress
  <1>4. /\ Good(s, now + ProcTime) => Good(s, now)
        /\ Good(s, now + 2 * ProcTime) => Good(s, now)
        /\ Good(s, now + 3 * ProcTime) => Good(s, now)
        /\ Good(s, now + 4 * ProcTime) => Good(s, now)
    <2>1. \A n \in {1, 2, 3, 4} : n * ProcTime \in Nat /\ now <= now + n * ProcTime
          BY Numbers, Slack
    <2>2. now + ProcTime \in Int /\ now <= now + ProcTime
          BY Numbers, Slack
    <2>3. QED
          BY <2>1, <2>2, Numbers, Slack, GoodSooner
  <1>5. ASSUME ends[s] = 0,
               \E c \in Conns : current[c] = s /\ (ctx[s].auth = 2 \/ ~Expired(s))
        PROVE  Good(s, now)
    <2>1. PICK c \in Conns : current[c] = s /\ (ctx[s].auth = 2 \/ ~Expired(s))
          BY <1>5
    <2>2. Good(s, now + 2 * ProcTime) \/ Good(s, now + 4 * ProcTime)
          BY <1>3, <1>5, <2>1, GoodOnSocket
    <2>3. QED
          BY <1>4, <2>2
  <1>6. ASSUME ends[s] = 0, InHandler(s, {"auth", "run"}) PROVE Good(s, now)
    <2>1. PICK c \in Conns : handler[c].session = s /\ handler[c].pc \in {"auth", "run"}
          BY <1>6 DEF InHandler
    <2>2. Good(s, now + 3 * ProcTime) \/ Good(s, now + 2 * ProcTime)
          BY <1>3, <1>6, <2>1, GoodInHandler
    <2>3. QED
          BY <1>4, <2>2
  <1>7. ASSUME ends[s] = 0, InWatch(s, {"store"}) PROVE Good(s, now)
    <2>1. PICK w \in watch : w.session = s /\ w.pc = "store"
          BY <1>7 DEF InWatch
    <2>2. /\ now <= w.since + ProcTime /\ w.since < w.lastActivity + Timeout
          /\ w.lastActivity = ctx[s].lastActivity /\ w.lastActivity # 0
          BY <2>1 DEF SessionOK, PlacesOK, WatchOK
    <2>3. /\ now \in Nat /\ now <= now + 4 * ProcTime
          /\ now + ClockSkew <= ctx[s].lastActivity + Timeout + RequestTimeout + SkewTolerance
          BY <2>1, <2>2, Numbers, Slack
    <2>4. QED
          BY <2>2, <2>3, GoodWhenLive
  <1>8. ASSUME ends[s] = 0, Waiting(s) PROVE Good(s, now)
    <2>1. cache[s] # 0
          BY <1>8 DEF Waiting
    <2>2. Good(s, now + 4 * ProcTime)
          BY <1>3, <1>8, <2>1, GoodInCache
    <2>3. QED
          BY <1>4, <2>2
  <1>9. ASSUME ends[s] = 1, InHandler(s, {"end", "release"}), ctx[s].auth # 1 PROVE Good(s, now)
    <2>1. PICK c \in Conns : handler[c].session = s /\ handler[c].pc \in {"end", "release"}
          BY <1>9 DEF InHandler
    <2>2. Good(s, now + ProcTime) \/ Good(s, now)
          BY <1>3, <1>9, <2>1, GoodInHandler
    <2>3. QED
          BY <1>4, <2>2
  <1>10. ASSUME ends[s] = 1, InWatch(s, {"end", "release"}) PROVE Good(s, now)
    <2>1. PICK w \in watch : w.session = s /\ Ending(w)
          BY <1>10 DEF InWatch, Ending
    <2>2. QED
          BY <1>3, <1>10, <2>1, GoodInWatch
  <1>11. Good(s, now)
    <2>1. CASE InProgress(s)
          BY <1>5, <1>6, <1>7, <1>8, <1>9, <1>10, <2>1 DEF InProgress, OnSocket
    <2>2. CASE ends[s] = 0 /\ OnSocket(s) /\ ~Expired(s)
          BY <1>5, <2>2 DEF OnSocket
    <2>3. QED
          BY <2>1, <2>2 DEF Live
  <1>12. QED
        BY <1>1, <1>2, <1>11

-----------------------------------------------------------------------------
\* The step of a session from one place to another

\* What handler c holds is nowhere else.
LEMMA OnlyThere ==
  ASSUME NEW s, Sole(s)', NEW c \in Conns, handler'[c].session = s
  PROVE  /\ \A d \in Conns : current'[d] # s
         /\ \A d \in Conns : handler'[d].session = s => d = c
         /\ cache'[s] = 0
         /\ \A w \in watch' : w.session = s => w.pc # "store"
         /\ ~Unheld(s)'
  BY DEF Sole, Unheld

LEMMA Entered ==
  ASSUME TypeInv, NEW c \in Conns, NEW pc, NEW s, NEW r, Enter(c, pc, s, r)
  PROVE  /\ handler'[c].pc = pc /\ handler'[c].session = s /\ handler'[c].since = now
         /\ \A d \in Conns : d # c => handler'[d] = handler[d]
  BY DEF Enter, TypeInv, TypeOK

LEMMA LeftIdle ==
  ASSUME TypeInv, NEW c \in Conns, Leave(c)
  PROVE  /\ handler'[c] = Idle
         /\ \A d \in Conns : d # c => handler'[d] = handler[d]
  BY DEF Leave, TypeInv, TypeOK

\* A context that was never admitted is dropped from its only place.
LEMMA DiscardOK ==
  ASSUME CoverInv, NEW s \in Sessions, ~Admitted(s), Discard(s),
         UNCHANGED <<now, lock, cache, ends, watch>>,
         \A e \in extending' : \E x \in extending : x.session = e.session,
         \A c \in Conns : current'[c] # s /\ handler'[c].session # s
  PROVE  SessionOK(s)'
  <1>1. ctx'[s] = FreshContext
        BY DEF Discard, CoverInv, HolderInv, TypeInv, TypeOK
  <1>2. ~Admitted(s)' /\ ctx'[s].auth = 0 /\ ctx'[s].lastActivity = 0 /\ ctx'[s].extendLock = 0
        BY <1>1 DEF Admitted, FreshContext
  <1>3. /\ ends[s] = 0 /\ cache[s] = 0
        /\ \A w \in watch : w.session # s
        /\ \A e \in extending : e.session # s
        BY DEF CoverInv, SessionOK, PlacesOK, ContextOK
  <1>4. now \in Nat /\ RefreshInterval \in Nat
        BY Numbers, Slack DEF CoverInv, HolderInv
  <1>5. PlacesOK(s)'
        BY <1>2, <1>3, <1>4
        DEF PlacesOK, ContextOK, CacheOK, SocketOK, HandlerOK, WatchOK, ExtensionOK, EndedOnce
  <1>6. AccountedFor(s)' /\ Locked(s)'
        BY <1>2 DEF AccountedFor, Locked, Live, InProgress
  <1>7. HandlerInTime(s)' /\ WatchInTime(s)'
        BY <1>3 DEF HandlerInTime, WatchInTime
  <1>8. QED
        BY <1>5, <1>6, <1>7 DEF SessionOK

\* endSession is called in a handler.
LEMMA EndingOK ==
  ASSUME TypeInv, NEW s \in Sessions, SessionOK(s), NEW c \in Conns, EnterEnd(c, s), Sole(s)',
         Admitted(s), Admitted(s)',
         ctx'[s].lastActivity = ctx[s].lastActivity, ctx'[s].extendLock = ctx[s].extendLock,
         UNCHANGED <<now, lock, extending, watch, started, orphan>>,
         s \notin orphan /\ ends[s] = 0 /\ ctx'[s].auth # 1 =>
             Live(s) /\ Good(s, now + 2 * ProcTime)
  PROVE  SessionOK(s)'
  <1>1. /\ handler'[c].pc = "end" /\ handler'[c].session = s /\ handler'[c].since = now
        /\ ends'[s] = ends[s] + 1 /\ ends[s] \in Nat
        BY Entered DEF EnterEnd, TypeInv, TypeOK
  <1>2. /\ \A d \in Conns : current'[d] # s
        /\ \A d \in Conns : handler'[d].session = s => d = c
        /\ cache'[s] = 0
        /\ \A w \in watch : w.session = s => w.pc # "store"
        BY <1>1, OnlyThere
  <1>3. ends'[s] = 1 => \A w \in watch : w.session = s => ~Ending(w)
        BY <1>1 DEF SessionOK, PlacesOK, WatchOK
  <1>4. PlacesOK(s)'
    <2>1. ContextOK(s)' /\ CacheOK(s)' /\ SocketOK(s)' /\ ExtensionOK(s)'
          BY <1>2 DEF SessionOK, PlacesOK, ContextOK, CacheOK, SocketOK, ExtensionOK
    <2>2. HandlerOK(s)'
          BY <1>1, <1>2, Numbers, Slack DEF HandlerOK
    <2>3. WatchOK(s)'
          BY <1>1, <1>2 DEF SessionOK, PlacesOK, WatchOK, Ending
    <2>4. EndedOnce(s)'
          BY <1>3 DEF EndedOnce, Ending
    <2>5. QED
          BY <2>1, <2>2, <2>3, <2>4 DEF PlacesOK
  <1>5. AccountedFor(s)'
        BY <1>1 DEF AccountedFor
  <1>6. Live(s)' => Live(s) /\ Good(s, now + 2 * ProcTime)
        BY <1>1, <1>3 DEF Live, InProgress, InWatch, Ending
  <1>7. Locked(s)'
        BY <1>6 DEF SessionOK, Locked, Extending
  <1>8. HandlerInTime(s)'
        BY <1>1, <1>2 DEF HandlerInTime, Good
  <1>9. WatchInTime(s)'
        BY <1>3 DEF WatchInTime, Ending
  <1>10. QED
        BY <1>4, <1>5, <1>7, <1>8, <1>9 DEF SessionOK

\* A handler goes on to writeResponse or to the next RPC.
LEMMA RunningOK ==
  ASSUME TypeInv, NEW s \in Sessions, SessionOK(s), NEW c \in Conns,
         Enter(c, "run", s, "none"), Sole(s)', Admitted(s), Admitted(s)', ctx'[s].auth = 2,
         ctx'[s].lastActivity = ctx[s].lastActivity, ctx'[s].extendLock = ctx[s].extendLock,
         UNCHANGED <<now, lock, extending, watch, started, orphan, ends>>,
         ~Unheld(s),
         s \notin orphan /\ ends[s] = 0 => Live(s) /\ Good(s, now + 3 * ProcTime)
  PROVE  SessionOK(s)'
  <1>1. handler'[c].pc = "run" /\ handler'[c].session = s /\ handler'[c].since = now
        BY Entered
  <1>2. /\ \A d \in Conns : current'[d] # s
        /\ \A d \in Conns : handler'[d].session = s => d = c
        /\ cache'[s] = 0 /\ ~Unheld(s)'
        BY <1>1, OnlyThere
  <1>3. PlacesOK(s)'
    <2>1. ContextOK(s)' /\ CacheOK(s)' /\ SocketOK(s)' /\ ExtensionOK(s)'
          BY <1>2 DEF SessionOK, PlacesOK, ContextOK, CacheOK, SocketOK, ExtensionOK
    <2>2. HandlerOK(s)'
          BY <1>1, <1>2, Numbers, Slack DEF HandlerOK
    <2>3. WatchOK(s)'
          BY DEF SessionOK, PlacesOK, WatchOK, Ending
    <2>4. EndedOnce(s)'
          BY <1>1, <1>2 DEF SessionOK, PlacesOK, EndedOnce, Ending
    <2>5. QED
          BY <2>1, <2>2, <2>3, <2>4 DEF PlacesOK
  <1>4. AccountedFor(s)'
        BY <1>1 DEF AccountedFor, InHandler
  <1>5. Live(s)' => Live(s)
        BY <1>1, <1>2 DEF Live, InProgress, InWatch, InHandler
  <1>6. Locked(s)'
        BY <1>5 DEF SessionOK, Locked, Extending
  <1>7. HandlerInTime(s)'
        BY <1>1, <1>2 DEF HandlerInTime, Good
  <1>8. WatchInTime(s)'
        BY DEF SessionOK, WatchInTime, Good
  <1>9. QED
        BY <1>3, <1>4, <1>6, <1>7, <1>8 DEF SessionOK

\* A handler awaits authenticate().
LEMMA AuthenticatingOK ==
  ASSUME TypeInv, NEW s \in Sessions, SessionOK(s), NEW c \in Conns, NEW r,
         Enter(c, "auth", s, r), Sole(s)',
         ctx'[s].state = ctx[s].state, ctx'[s].auth = 2 => Admitted(s),
         ctx'[s].lastActivity = ctx[s].lastActivity, ctx'[s].extendLock = ctx[s].extendLock,
         UNCHANGED <<now, lock, extending, watch, started, orphan, ends>>,
         ~Unheld(s), Admitted(s) => ctx[s].lastActivity # 0,
         s \notin orphan /\ ends[s] = 0 /\ Admitted(s) =>
             Live(s) /\ Good(s, now + 4 * ProcTime)
  PROVE  SessionOK(s)'
  <1>1. handler'[c].pc = "auth" /\ handler'[c].session = s /\ handler'[c].since = now
        BY Entered
  <1>2. /\ \A d \in Conns : current'[d] # s
        /\ \A d \in Conns : handler'[d].session = s => d = c
        /\ cache'[s] = 0 /\ ~Unheld(s)'
        BY <1>1, OnlyThere
  <1>0. Admitted(s)' <=> Admitted(s)
        BY DEF Admitted
  <1>3. PlacesOK(s)'
    <2>1. ContextOK(s)' /\ CacheOK(s)' /\ SocketOK(s)' /\ ExtensionOK(s)'
          BY <1>0, <1>2 DEF SessionOK, PlacesOK, ContextOK, CacheOK, SocketOK, ExtensionOK
    <2>2. HandlerOK(s)'
          BY <1>0, <1>1, <1>2, Numbers, Slack DEF HandlerOK
    <2>3. WatchOK(s)'
          BY DEF SessionOK, PlacesOK, WatchOK, Ending
    <2>4. EndedOnce(s)'
          BY <1>1, <1>2 DEF SessionOK, PlacesOK, EndedOnce, Ending
    <2>5. QED
          BY <2>1, <2>2, <2>3, <2>4 DEF PlacesOK
  <1>4. AccountedFor(s)'
        BY <1>1 DEF AccountedFor, InHandler
  <1>5. Live(s)' => Live(s)
        BY <1>0, <1>1, <1>2 DEF Live, InProgress, InWatch, InHandler
  <1>6. Locked(s)'
        BY <1>5 DEF SessionOK, Locked, Extending
  <1>7. HandlerInTime(s)'
        BY <1>0, <1>1, <1>2 DEF HandlerInTime, Good
  <1>8. WatchInTime(s)'
        BY DEF SessionOK, WatchInTime, Good
  <1>9. QED
        BY <1>3, <1>4, <1>6, <1>7, <1>8 DEF SessionOK

\* The rest of processRequest, with the time for what it starts.
LEMMA DispatchOK ==
  ASSUME TypeInv, TypeInv', NEW s \in Sessions, SessionOK(s), NEW c \in Conns, NEW r,
         Dispatch(c, s, r), Sole(s)', Sole(s), Admitted(s), ~Unheld(s),
         UNCHANGED <<now, lock, cache, extending, watch, started>>,
         \A d \in Conns : current'[d] # s,
         \A d \in Conns : d # c => handler[d].session # s,
         s \notin orphan /\ ends[s] = 0 => Live(s) /\ Good(s, now + 3 * ProcTime)
  PROVE  SessionOK(s)'
  <1>1. ctx \in [Sessions -> Context]
        BY DEF TypeInv, TypeOK
  <1>2. /\ ctx'[s].lastActivity = ctx[s].lastActivity
        /\ ctx'[s].extendLock = ctx[s].extendLock
        /\ ctx'[s].auth = 2 /\ ctx'[s].state = NextState(ctx[s].state, r)
        BY <1>1 DEF Dispatch, Context
  <1>3. Admitted(s)'
        BY <1>2 DEF Admitted, NextState
  <1>4. CASE Enter(c, "run", s, "none") /\ UNCHANGED <<ends, orphan, dying>>
        BY <1>2, <1>3, <1>4, RunningOK
  <1>5. CASE EnterEnd(c, s) /\ UNCHANGED <<orphan, dying>>
    <2>1. s \notin orphan /\ ends[s] = 0 => Live(s) /\ Good(s, now + 2 * ProcTime)
          BY Numbers, Slack, GoodSooner
    <2>2. QED
          BY <1>2, <1>3, <1>5, <2>1, EndingOK
  <1>6. CASE Leave(c) /\ orphan' = orphan \cup {s} /\ UNCHANGED ends
    <2>1. \A d \in Conns : handler'[d].session # s
          BY <1>6, LeftIdle, ConstantsAssumption DEF Idle
    <2>2. PlacesOK(s)'
          BY <1>2, <1>3, <1>6, <2>1
          DEF SessionOK, PlacesOK, ContextOK, CacheOK, SocketOK, HandlerOK, WatchOK,
              ExtensionOK, EndedOnce, Ending, Unheld, Sole
    <2>3. QED
          BY <1>6, <2>2, OrphanOK
  <1>7. QED
        BY <1>4, <1>5, <1>6 DEF Dispatch

-----------------------------------------------------------------------------
\* The actions, one lemma each

\* onConnection: the socket's session goes to the close timer, or is forgotten.
LEMMA DisconnectCover ==
  ASSUME CoverInv, HolderInv', OneTask', NEW c \in Conns, Disconnect(c)
  PROVE  CoverInv'
  <1>0. PICK s : s = current[c]
        OBVIOUS
  <1> USE <1>0, HolderTypes
  <1>1. HolderInv /\ TypeInv /\ TypeInv' /\ ClockOK'
        BY DEF CoverInv, HolderInv, ClockOK, Disconnect
  <1>2. /\ UNCHANGED <<now, lock, cache, handler>>
        /\ \A d \in Conns : d # c => current'[d] = current[d] /\ open'[d] = open[d]
        /\ current'[c] = NoSession
        /\ open' \in [Conns -> BOOLEAN]
        BY <1>1 DEF Disconnect, TypeInv, TypeOK, HolderInv
  <1>3. /\ \A e \in extending' :
              \E x \in extending : x.session = e.session /\ x.since = e.since
        /\ \A e \in extending :
              \E x \in extending' : x.session = e.session /\ x.since = e.since
    <2>1. \A e \in extending : /\ [e EXCEPT !.conn = NoConn].session = e.session
                               /\ [e EXCEPT !.conn = NoConn].since = e.since
          BY <1>1 DEF TypeInv, TypeOK, Extension
    <2>2. extending' = {IF e.conn = c THEN [e EXCEPT !.conn = NoConn] ELSE e : e \in extending}
          BY DEF Disconnect
    <2>3. ASSUME NEW e \in extending'
          PROVE  \E x \in extending : x.session = e.session /\ x.since = e.since
      <3>1. PICK x \in extending : e = IF x.conn = c THEN [x EXCEPT !.conn = NoConn] ELSE x
            BY <2>2
      <3>2. QED
            BY <2>1, <3>1
    <2>4. ASSUME NEW e \in extending
          PROVE  \E x \in extending' : x.session = e.session /\ x.since = e.since
      <3>1. PICK x : x = IF e.conn = c THEN [e EXCEPT !.conn = NoConn] ELSE e
            OBVIOUS
      <3>2. x \in extending'
            BY <2>2, <3>1
      <3>3. QED
            BY <2>1, <3>1, <3>2
    <2>5. QED
          BY <2>3, <2>4
  <1>4. ASSUME UNCHANGED <<watch, ends>>, s = NoSession \/ Forget(s),
               s = NoSession => UNCHANGED <<orphan, started, ctx>>
        PROVE  CoverInv'
    <2>1. \A t \in Sessions \ {s} : Shrinks(t) /\ KeepsLock(t) /\ Stays(t)
      <3>1. \A t \in Sessions \ {s} :
               /\ ctx'[t] = ctx[t]
               /\ t \in started => t \in started'
               /\ t \in orphan => t \in orphan'
            BY <1>1, <1>4 DEF Forget, Discard, TypeInv, TypeOK
      <3>2. TAKE t \in Sessions \ {s}
      <3>3. Shrinks(t)
            BY <1>1, <1>2, <1>3, <1>4, <3>1 DEF Shrinks
      <3>4. KeepsLock(t) /\ Stays(t)
            BY <1>2, <1>3, <1>4, <3>1 DEF KeepsLock, Stays
      <3>5. QED
            BY <3>3, <3>4
    <2>2. CASE s = NoSession
          BY <1>1, <2>1, <2>2, NoSessions
    <2>3. CASE s # NoSession
      <3>1. s \in Sessions /\ Sole(s) /\ SessionOK(s)
            BY <1>1, <2>3 DEF HolderInv, CoverInv
      <3>2. \A d \in Conns : current'[d] # s /\ handler'[d].session # s
            BY <1>1, <1>2, <2>3, <3>1 DEF Sole, HolderInv
      <3>3. CASE ctx[s].state = 0 /\ Discard(s)
        <4>1. SessionOK(s)'
              BY <1>1, <1>2, <1>3, <1>4, <3>1, <3>2, <3>3, DiscardOK DEF Admitted
        <4>2. QED
              BY <1>1, <2>1, <3>1, <4>1, OneSession
      <3>4. CASE ctx[s].state # 0 /\ orphan' = orphan \cup {s} /\ UNCHANGED <<started, ctx>>
        <4>1. Shrinks(s) /\ KeepsLock(s) /\ Stays(s)
              BY <1>1, <1>2, <1>3, <1>4, <3>2, <3>4 DEF Shrinks, KeepsLock, Stays
        <4>2. QED
              BY <1>1, <2>1, <4>1, NoSessions
      <3>5. QED
            BY <1>4, <2>3, <3>3, <3>4 DEF Forget
    <2>4. QED
          BY <2>2, <2>3
  <1>5. ASSUME s # NoSession, ctx[s].auth = 2, NEW w,
               w.session = s, w.since = now, w.lastActivity = ctx[s].lastActivity,
               watch' = watch \cup {w}, UNCHANGED <<started, ctx, orphan>>,
               \/ /\ w.pc = "end" /\ ends' = [ends EXCEPT ![s] = @ + 1]
               \/ /\ w.pc = "store" /\ UNCHANGED ends
                  /\ now < ctx[s].lastActivity + Timeout
        PROVE  CoverInv'
    <2>1. \A t \in Sessions \ {s} : Shrinks(t) /\ KeepsLock(t) /\ Stays(t)
      <3>1. TAKE t \in Sessions \ {s}
      <3>2. \A v : v.session = t => (v \in watch' <=> v \in watch)
            BY <1>5
      <3>3. ends'[t] = ends[t]
            BY <1>1, <1>5 DEF TypeInv, TypeOK
      <3>4. Shrinks(t)
            BY <1>1, <1>2, <1>3, <1>5, <3>2, <3>3 DEF Shrinks
      <3>5. KeepsLock(t) /\ Stays(t)
            BY <1>2, <1>3, <1>5, <3>2 DEF KeepsLock, Stays
      <3>6. QED
            BY <3>4, <3>5
    <2>2. s \in Sessions /\ Sole(s) /\ SessionOK(s) /\ ~Unheld(s)
          BY <1>1, <1>5 DEF HolderInv, CoverInv, Unheld
    <2>3. /\ \A d \in Conns : current'[d] # s /\ handler[d].session # s
          /\ cache[s] = 0
          /\ \A v \in watch : v.session = s => v.pc # "store"
          BY <1>1, <1>2, <1>5, <2>2 DEF Sole, HolderInv
    <2>4. /\ Admitted(s) /\ ctx[s].lastActivity # 0
          BY <1>5, <2>2 DEF SessionOK, PlacesOK, ContextOK, SocketOK
    <2>5. ends[s] \in Nat /\ ends'[s] = IF w.pc = "end" THEN ends[s] + 1 ELSE ends[s]
          BY <1>1, <1>5, <2>2 DEF TypeInv, TypeOK
    <2>6. w.pc = "end" /\ ends'[s] = 1 => \A v \in watch : v.session = s => ~Ending(v)
          BY <2>2, <2>5 DEF SessionOK, PlacesOK, WatchOK
    <2>7. PlacesOK(s)'
      <3>1. ContextOK(s)' /\ CacheOK(s)' /\ SocketOK(s)' /\ HandlerOK(s)' /\ ExtensionOK(s)'
            BY <1>1, <1>2, <1>3, <1>5, <2>2, <2>3, <2>4, <2>5
            DEF SessionOK, PlacesOK, ContextOK, CacheOK, SocketOK, HandlerOK, ExtensionOK, Admitted
      <3>2. WatchOK(s)'
            BY <1>1, <1>2, <1>5, <2>2, <2>4, <2>5, Numbers, Slack
            DEF SessionOK, PlacesOK, WatchOK, Ending
      <3>3. EndedOnce(s)'
            BY <1>2, <1>5, <2>2, <2>3, <2>5, <2>6 DEF SessionOK, PlacesOK, EndedOnce, Ending
      <3>4. QED
            BY <3>1, <3>3, <3>2 DEF PlacesOK
    <2>8. AccountedFor(s)'
          BY <1>5, <2>5 DEF AccountedFor, InWatch
    <2>9. s \notin orphan /\ ends[s] = 0 => Live(s) /\ Good(s, now + 2 * ProcTime)
          BY <1>1, <1>5, <2>2, <2>4, GoodOnSocket
    <2>10. Live(s)' => Live(s)
      <3>1. CASE w.pc = "end"
            BY <1>2, <1>5, <2>3, <2>5, <2>6, <2>9, <3>1
            DEF Live, InProgress, InWatch, InHandler, OnSocket, Ending
      <3>2. CASE w.pc = "store"
        <4>1. ends'[s] = 0 => (Live(s)' => Live(s))
              BY <1>5, <2>5, <2>9, <3>2 DEF Live, InProgress
        <4>2. ends'[s] = 1 => (Live(s)' => Live(s))
              BY <1>2, <1>5, <2>4, <2>5, <2>3, <3>2
              DEF Live, InProgress, InWatch, InHandler, OnSocket
        <4>3. QED
              BY <4>1, <4>2, <3>2, <2>5 DEF Live, InProgress
      <3>3. QED
            BY <1>5, <3>1, <3>2
    <2>11. Locked(s)'
          BY <1>2, <1>3, <1>5, <2>2, <2>10 DEF SessionOK, Locked, Extending
    <2>12. HandlerInTime(s)'
          BY <1>2, <2>3 DEF HandlerInTime
    <2>13. \A t : Good(s, t) => Good(s, t)'
          BY <1>2, <1>3 DEF Good
    <2>14. WatchInTime(s)'
      <3>1. CASE w.pc = "end"
        <4>1. Unheld(s)'
              BY <1>2, <1>5, <2>3, <3>1 DEF Unheld
        <4>2. QED
              BY <1>2, <1>5, <2>5, <2>6, <2>9, <2>13, <3>1, <4>1 DEF WatchInTime, Ending
      <3>2. CASE w.pc = "store"
            BY <1>2, <1>5, <2>2, <2>5, <2>13, <3>2 DEF SessionOK, WatchInTime
      <3>3. QED
            BY <1>5, <3>1, <3>2
    <2>15. SessionOK(s)'
          BY <2>7, <2>8, <2>11, <2>12, <2>14 DEF SessionOK
    <2>16. QED
          BY <1>1, <2>1, <2>2, <2>15, OneSession
  <1>6. QED
    <2>1. CASE s = NoSession
          BY <1>4, <2>1 DEF Disconnect
    <2>2. CASE s # NoSession /\ ctx[s].auth # 2
          BY <1>4, <2>2 DEF Disconnect
    <2>3. CASE s # NoSession /\ ctx[s].auth = 2
      <3> DEFINE rec(pc) == [session |-> s, worker |-> WorkerOf[c],
                             lastActivity |-> ctx[s].lastActivity,
                             timer |-> pc = "store", pc |-> pc, since |-> now]
      <3>1. CASE watch' = watch \cup {rec("end")} /\ ends' = [ends EXCEPT ![s] = @ + 1]
        <4>1. PICK w : w = rec("end")
              OBVIOUS
        <4>2. UNCHANGED <<started, ctx, orphan>>
              BY <2>3 DEF Disconnect
        <4>3. w.session = s /\ w.since = now /\ w.lastActivity = ctx[s].lastActivity /\ w.pc = "end"
              BY <4>1
        <4>4. watch' = watch \cup {w}
              BY <3>1, <4>1
        <4>5. QED
              BY <1>5, <2>3, <3>1, <4>2, <4>3, <4>4
      <3>2. CASE /\ watch' = watch \cup {rec("store")} /\ UNCHANGED ends
                 /\ ctx[s].lastActivity + Timeout > now
        <4>1. PICK w : w = rec("store")
              OBVIOUS
        <4>2. UNCHANGED <<started, ctx, orphan>>
              BY <2>3 DEF Disconnect
        <4>3. w.session = s /\ w.since = now /\ w.lastActivity = ctx[s].lastActivity /\ w.pc = "store"
              BY <4>1
        <4>4. watch' = watch \cup {w}
              BY <3>2, <4>1
        <4>5. QED
              BY <1>5, <2>3, <3>2, <4>2, <4>3, <4>4
      <3>3. QED
            BY <2>3, <3>1, <3>2 DEF Disconnect
    <2>4. QED
          BY <2>1, <2>2, <2>3

\* Handler c and its socket change hands within s and nobody.
LEMMA HandlerFrame ==
  ASSUME HolderInv, NEW c \in Conns, NEW s \in Sessions,
         \A d \in Conns : d # c => /\ handler'[d] = handler[d]
                                   /\ current'[d] = current[d] /\ open'[d] = open[d],
         handler[c].session \in {s, NoSession}, handler'[c].session \in {s, NoSession},
         current[c] \in {s, NoSession}, current'[c] \in {s, NoSession},
         \A t \in Sessions \ {s} :
            /\ ctx'[t] = ctx[t] /\ ends'[t] = ends[t] /\ cache'[t] = cache[t]
            /\ t \in started => t \in started'
            /\ t \in orphan => t \in orphan'
            /\ KeepsLock(t),
         now' = now, watch' = watch,
         \A e \in extending' : e.session = s \/ e \in extending,
         extending \subseteq extending'
  PROVE  \A t \in Sessions \ {s} : Shrinks(t) /\ KeepsLock(t) /\ Stays(t)
  <1>1. TAKE t \in Sessions \ {s}
  <1>2. t # NoSession
        BY HolderTypes
  <1>3. Shrinks(t)
        BY <1>2 DEF Shrinks
  <1>4. Stays(t)
        BY <1>2 DEF Stays
  <1>5. QED
        BY <1>3, <1>4

\* A connection is never on its socket and in its handler.
LEMMA OneTaskStep == TypeInv /\ OneTask /\ [Next]_vars => OneTask'
  <1> SUFFICES ASSUME TypeInv, OneTask, [Next]_vars PROVE OneTask'
      OBVIOUS
  <1>1. CASE UNCHANGED <<handler, current>>
        BY <1>1 DEF OneTask, At
  <1>2. ASSUME NEW c \in Conns,
               \A d \in Conns : d # c => handler'[d] = handler[d] /\ current'[d] = current[d],
               \/ handler'[c].pc # "idle" /\ current'[c] = NoSession
               \/ handler'[c] = Idle
        PROVE  OneTask'
        BY <1>2 DEF OneTask, At, Idle
  <1>3. \A c \in Conns : At(c, "idle") \/ current[c] = NoSession
        BY DEF OneTask
  <1>4. ASSUME NEW c \in Conns, NEW pc, pc # "idle", NEW s, NEW r, Enter(c, pc, s, r),
               ~At(c, "idle") \/ current[c] = NoSession, UNCHANGED current
        PROVE  OneTask'
        BY <1>2, <1>3, <1>4, Entered
  <1>5. ASSUME NEW c \in Conns, Leave(c),
               \A d \in Conns : d # c => current'[d] = current[d]
        PROVE  OneTask'
        BY <1>2, <1>5, LeftIdle
  <1>6. ASSUME NEW c \in Conns, NEW s, NEW r, Dispatch(c, s, r),
               \A d \in Conns : d # c => current'[d] = current[d],
               current'[c] = NoSession
        PROVE  OneTask'
        BY <1>2, <1>5, <1>6, Entered DEF Dispatch, EnterEnd
  <1>7. ASSUME NEW c \in Conns, Disconnect(c) PROVE OneTask'
        BY <1>7 DEF Disconnect, OneTask, At, TypeInv, TypeOK
  <1>8. ASSUME NEW c \in Conns, NEW r \in Requests, NEW cookie \in BOOLEAN,
               ReceiveInSession(c, r, cookie)
        PROVE  OneTask'
    <2>1. current'[c] = NoSession /\ \A d \in Conns : d # c => current'[d] = current[d]
          BY <1>8 DEF ReceiveInSession, TypeInv, TypeOK
    <2>2. QED
          BY <1>2, <1>5, <1>6, <1>8, <2>1, Entered DEF ReceiveInSession, EnterEnd
  <1>9. ASSUME NEW c \in Conns, NEW r \in Requests, NEW s \in Sessions, Resume(c, r, s)
        PROVE  OneTask'
        BY <1>4, <1>9 DEF Resume, EnterEnd
  <1>10. ASSUME NEW c \in Conns, NEW s \in Sessions, ReceiveInform(c, s) PROVE OneTask'
        BY <1>4, <1>10 DEF ReceiveInform
  <1>11. ASSUME NEW c \in Conns, AuthSucceeds(c) PROVE OneTask'
    <2>1. current[c] = NoSession /\ UNCHANGED current
          BY <1>3, <1>11 DEF AuthSucceeds, At
    <2>2. QED
          BY <1>4, <1>6, <1>11, <2>1 DEF AuthSucceeds
  <1>12. ASSUME NEW c \in Conns, AuthFails(c) PROVE OneTask'
    <2>1. ~At(c, "idle")
          BY <1>12 DEF AuthFails, At
    <2>2. \A d \in Conns : d # c => current'[d] = current[d]
          BY <1>12 DEF AuthFails, TypeInv, TypeOK
    <2>3. Leave(c) \/ (EnterEnd(c, handler[c].session) /\ UNCHANGED current)
          BY <1>12 DEF AuthFails
    <2>4. QED
          BY <1>4, <1>5, <2>1, <2>2, <2>3 DEF EnterEnd
  <1>13. ASSUME NEW c \in Conns, AcquireLock(c) PROVE OneTask'
        BY <1>4, <1>5, <1>13 DEF AcquireLock, At
  <1>14. ASSUME NEW c \in Conns, Respond(c) PROVE OneTask'
    <2>1. ~At(c, "idle")
          BY <1>14 DEF Respond, At
    <2>2. \A d \in Conns : d # c => current'[d] = current[d]
          BY <1>14 DEF Respond, TypeInv, TypeOK
    <2>3. Leave(c) \/ (EnterEnd(c, handler[c].session) /\ UNCHANGED current)
          BY <1>14 DEF Respond
    <2>4. QED
          BY <1>4, <1>5, <2>1, <2>2, <2>3 DEF EnterEnd
  <1>15. ASSUME NEW c \in Conns, Finish(c) PROVE OneTask'
        BY <1>4, <1>15 DEF Finish, EnterEnd, At
  <1>16. ASSUME NEW c \in Conns, HandlerThrows(c) PROVE OneTask'
        BY <1>5, <1>16 DEF HandlerThrows
  <1>17. ASSUME NEW c \in Conns, SaveInHandler(c) PROVE OneTask'
        BY <1>4, <1>17 DEF SaveInHandler, At
  <1>18. ASSUME NEW c \in Conns, ReleaseInHandler(c) PROVE OneTask'
        BY <1>5, <1>18 DEF ReleaseInHandler
  <1>19. ASSUME NEW e \in extending, ExtensionFails(e) PROVE OneTask'
        BY <1>19 DEF ExtensionFails, OneTask, At
  <1>20. ASSUME NEW k \in Workers, Crash(k) PROVE OneTask'
        BY <1>20 DEF Crash, OneTask, At, Idle
  <1>21. ASSUME \/ \E e \in extending : ExtendLock(e)
                \/ ExpireLock
                \/ \E s \in Sessions : ExpireCache(s)
                \/ \E w \in watch : \/ StoreSession(w) \/ CheckSession(w)
                                    \/ SaveInWatch(w) \/ ReleaseInWatch(w)
                                    \/ WatchThrows(w)
                \/ Tick \/ Horizon \/ UNCHANGED vars
         PROVE  UNCHANGED <<handler, current>>
         BY <1>21 DEF ExtendLock, ExpireLock, ExpireCache, StoreSession, CheckSession,
            SaveInWatch, ReleaseInWatch, WatchThrows, Tick, Horizon, vars
  <1>22. QED
         BY <1>1, <1>7, <1>8, <1>9, <1>10, <1>11, <1>12, <1>13, <1>14, <1>15, <1>16,
            <1>17, <1>18, <1>19, <1>20, <1>21 DEF Next

\* listenerAsync on a connection with a session.
LEMMA ReceiveCover ==
  ASSUME CoverInv, HolderInv', OneTask', NEW c \in Conns, NEW r \in Requests,
         NEW cookie \in BOOLEAN, ReceiveInSession(c, r, cookie)
  PROVE  CoverInv'
  <1>0. PICK s : s = current[c]
        OBVIOUS
  <1> USE <1>0
  <1>1. /\ HolderInv /\ TypeInv /\ TypeInv' /\ s \in Sessions /\ SessionOK(s)
        /\ Sole(s) /\ Sole(s)' /\ ClockOK' /\ ~Unheld(s)
        BY DEF CoverInv, HolderInv, TypeInv, TypeOK, ClockOK, ReceiveInSession, Unheld
  <1>2. /\ UNCHANGED <<now, lock, cache, open, extending, watch>>
        /\ At(c, "idle") /\ current' = [current EXCEPT ![c] = NoSession]
        BY DEF ReceiveInSession
  <1>3. /\ current'[c] = NoSession
        /\ \A d \in Conns : d # c => current'[d] = current[d]
        /\ \A d \in Conns : current'[d] # s /\ handler[d].session # s
        BY <1>1, <1>2, HolderTypes DEF Sole
  <1>4. handler[c].session = NoSession
        BY <1>2 DEF CoverInv, OneTask
  <1>5. /\ handler'[c].session \in {s, NoSession}
        /\ \A d \in Conns : d # c => handler'[d] = handler[d]
        BY <1>1, Entered, LeftIdle DEF ReceiveInSession, EnterEnd, Dispatch, Idle
  <1>6. \A t \in Sessions \ {s} :
            /\ ctx'[t] = ctx[t] /\ ends'[t] = ends[t]
            /\ t \in started => t \in started'
            /\ t \in orphan => t \in orphan'
        BY <1>1 DEF ReceiveInSession, EnterEnd, Dispatch, Discard, TypeInv, TypeOK
  <1>7. \A t \in Sessions \ {s} : Shrinks(t) /\ KeepsLock(t) /\ Stays(t)
        BY <1>1, <1>2, <1>3, <1>4, <1>5, <1>6, HandlerFrame DEF KeepsLock
  <1>8. CASE Leave(c) /\ Discard(s) /\ ~Admitted(s) /\ UNCHANGED ends
    <2>1. \A d \in Conns : handler'[d].session # s
          BY <1>1, <1>3, <1>8, LeftIdle, HolderTypes DEF Idle
    <2>2. SessionOK(s)'
          BY <1>1, <1>2, <1>3, <1>8, <2>1, DiscardOK
    <2>3. QED
          BY <1>1, <1>7, <2>2, OneSession
  <1>9. CASE EnterEnd(c, s) /\ Admitted(s) /\ UNCHANGED <<ctx, started, orphan>>
    <2>1. ctx[s].auth \in 0 .. 2 /\ ctx[s].auth # 0
          BY <1>1 DEF SessionOK, PlacesOK, SocketOK, TypeInv, TypeOK, Context
    <2>2. s \notin orphan /\ ends[s] = 0 /\ ctx[s].auth # 1 =>
              Live(s) /\ Good(s, now + 2 * ProcTime)
          BY <1>1, <1>9, <2>1, GoodOnSocket
    <2>3. SessionOK(s)'
          BY <1>1, <1>2, <1>9, <2>2, EndingOK DEF Admitted
    <2>4. QED
          BY <1>1, <1>7, <2>3, OneSession
  <1>10. ASSUME Enter(c, "auth", s, r), ~Expired(s), ctx[s].state = 0 \/ ctx[s].auth # 2,
                UNCHANGED <<ctx, started, ends, orphan>>
         PROVE  CoverInv'
    <2>1. Admitted(s) => ctx[s].lastActivity # 0
          BY <1>1 DEF SessionOK, PlacesOK, SocketOK
    <2>2. ctx[s].auth = 2 => Admitted(s)
          BY <1>1 DEF SessionOK, PlacesOK, ContextOK
    <2>3. s \notin orphan /\ ends[s] = 0 /\ Admitted(s) =>
              Live(s) /\ Good(s, now + 4 * ProcTime)
          BY <1>1, <1>10, GoodOnSocket
    <2>4. SessionOK(s)'
          BY <1>1, <1>2, <1>10, <2>1, <2>2, <2>3, AuthenticatingOK
    <2>5. QED
          BY <1>1, <1>7, <2>4, OneSession
  <1>11. ASSUME ~Expired(s), Admitted(s), Dispatch(c, s, r), UNCHANGED started
         PROVE  CoverInv'
    <2>1. now + 4 * ProcTime \in Int /\ now + 3 * ProcTime \in Int
          /\ now + 3 * ProcTime <= now + 4 * ProcTime
          BY <1>1, Numbers, Slack
    <2>2. s \notin orphan /\ ends[s] = 0 => Live(s) /\ Good(s, now + 3 * ProcTime)
          BY <1>1, <1>11, <2>1, GoodOnSocket, GoodSooner
    <2>3. SessionOK(s)'
          BY <1>1, <1>2, <1>3, <1>11, <2>2, DispatchOK
    <2>4. QED
          BY <1>1, <1>7, <2>3, OneSession
  <1>12. QED
         BY <1>8, <1>9, <1>10, <1>11 DEF ReceiveInSession, Admitted

\* cache.pop, for a request with the session's cookie on another connection.
LEMMA ResumeCover ==
  ASSUME CoverInv, HolderInv', OneTask', NEW c \in Conns, NEW r \in Requests,
         NEW s \in Sessions, Resume(c, r, s)
  PROVE  CoverInv'
  <1>1. /\ HolderInv /\ TypeInv /\ TypeInv' /\ SessionOK(s)
        /\ Sole(s) /\ Sole(s)' /\ ClockOK' /\ ~Unheld(s)
        BY DEF CoverInv, HolderInv, ClockOK, Resume, Unheld
  <1>2. /\ UNCHANGED <<now, lock, current, extending, watch, started, orphan>>
        /\ At(c, "idle") /\ current[c] = NoSession /\ cache[s] # 0
        /\ cache' = [cache EXCEPT ![s] = 0] /\ open' = [open EXCEPT ![c] = TRUE]
        BY DEF Resume, Popped
  <1>3. handler[c].session = NoSession
        BY <1>2 DEF CoverInv, OneTask
  <1>4. /\ handler'[c].session \in {s, NoSession}
        /\ \A d \in Conns : d # c => handler'[d] = handler[d]
        BY <1>1, Entered DEF Resume, EnterEnd
  <1>5. \A t \in Sessions \ {s} : /\ ctx'[t] = ctx[t] /\ ends'[t] = ends[t]
                                  /\ cache'[t] = cache[t]
        BY <1>1, <1>2 DEF Resume, EnterEnd, TypeInv, TypeOK
  <1>6. \A d \in Conns : d # c => open'[d] = open[d]
        BY <1>1, <1>2 DEF TypeInv, TypeOK
  <1>7. \A t \in Sessions \ {s} : Shrinks(t) /\ KeepsLock(t) /\ Stays(t)
        BY <1>1, <1>2, <1>3, <1>4, <1>5, <1>6, HandlerFrame DEF KeepsLock
  <1>8. Admitted(s) /\ ctx[s].lastActivity # 0
        BY <1>1, <1>2 DEF SessionOK, PlacesOK, ContextOK, CacheOK
  <1>9. s \notin orphan /\ ends[s] = 0 => Live(s) /\ Good(s, now + 4 * ProcTime)
        BY <1>1, <1>2, GoodInCache
  <1>10. CASE EnterEnd(c, s) /\ UNCHANGED ctx
    <2>1. now + 4 * ProcTime \in Int /\ now + 2 * ProcTime \in Int
          /\ now + 2 * ProcTime <= now + 4 * ProcTime
          BY <1>1, Numbers, Slack
    <2>2. s \notin orphan /\ ends[s] = 0 => Live(s) /\ Good(s, now + 2 * ProcTime)
          BY <1>1, <1>9, <2>1, GoodSooner
    <2>3. SessionOK(s)'
          BY <1>1, <1>2, <1>8, <1>10, <2>2, EndingOK DEF Admitted
    <2>4. QED
          BY <1>1, <1>7, <2>3, OneSession
  <1>11. CASE /\ ctx' = [ctx EXCEPT ![s].auth = IF @ # 1 THEN 0 ELSE @]
              /\ Enter(c, "auth", s, r) /\ UNCHANGED ends
    <2>1. /\ ctx'[s].state = ctx[s].state /\ ctx'[s].auth # 2
          /\ ctx'[s].lastActivity = ctx[s].lastActivity
          /\ ctx'[s].extendLock = ctx[s].extendLock
          BY <1>1, <1>11 DEF TypeInv, TypeOK, Context
    <2>2. SessionOK(s)'
          BY <1>1, <1>2, <1>8, <1>9, <1>11, <2>1, AuthenticatingOK
    <2>3. QED
          BY <1>1, <1>7, <2>2, OneSession
  <1>12. QED
         BY <1>10, <1>11 DEF Resume

\* session.init for a new session.
LEMMA InformCover ==
  ASSUME CoverInv, HolderInv', OneTask', NEW c \in Conns, NEW s \in Sessions,
         ReceiveInform(c, s)
  PROVE  CoverInv'
  <1>1. /\ HolderInv /\ TypeInv /\ TypeInv' /\ SessionOK(s)
        /\ Sole(s)' /\ ClockOK' /\ Unheld(s)
        BY DEF CoverInv, HolderInv, ClockOK, ReceiveInform
  <1>2. /\ UNCHANGED <<now, lock, cache, current, extending, watch, ends, orphan>>
        /\ At(c, "idle") /\ current[c] = NoSession
        /\ open' = [open EXCEPT ![c] = TRUE] /\ started' = started \cup {s}
        /\ ctx' = [ctx EXCEPT ![s].extendLock = now + RefreshInterval]
        /\ Enter(c, "auth", s, "inform")
        BY DEF ReceiveInform
  <1>3. handler[c].session = NoSession
        BY <1>2 DEF CoverInv, OneTask
  <1>4. /\ handler'[c].session = s /\ handler'[c].pc = "auth" /\ handler'[c].since = now
        /\ \A d \in Conns : d # c => handler'[d] = handler[d]
        BY <1>1, <1>2, Entered
  <1>5. \A t \in Sessions \ {s} : ctx'[t] = ctx[t]
        BY <1>1, <1>2 DEF TypeInv, TypeOK
  <1>6. \A d \in Conns : d # c => open'[d] = open[d]
        BY <1>1, <1>2 DEF TypeInv, TypeOK
  <1>7. \A t \in Sessions \ {s} : Shrinks(t) /\ KeepsLock(t) /\ Stays(t)
        BY <1>1, <1>2, <1>3, <1>4, <1>5, <1>6, HandlerFrame DEF KeepsLock
  <1>8. /\ ctx'[s].state = ctx[s].state /\ ctx'[s].auth = ctx[s].auth
        /\ ctx'[s].lastActivity = ctx[s].lastActivity
        /\ ctx'[s].extendLock = now + RefreshInterval
        BY <1>1, <1>2 DEF TypeInv, TypeOK, Context
  <1>9. ~Admitted(s) /\ ~Admitted(s)' /\ ctx'[s].auth # 2
        BY <1>1, <1>8 DEF SessionOK, PlacesOK, ContextOK, Admitted, ReceiveInform
  <1>10. /\ ends'[s] = 0 /\ cache'[s] = 0
         /\ \A w \in watch' : w.session # s
         /\ \A e \in extending' : e.session # s
         BY <1>1, <1>2, <1>9 DEF SessionOK, PlacesOK, ContextOK
  <1>11. /\ \A d \in Conns : current'[d] # s
         /\ \A d \in Conns : handler'[d].session = s => d = c
         BY <1>1, <1>2, <1>4 DEF Unheld
  <1>12. ctx'[s].lastActivity # 0 => ctx'[s].lastActivity < ctx'[s].extendLock
         BY <1>1, <1>8, Numbers, Slack DEF SessionOK, PlacesOK, ContextOK
  <1>13. PlacesOK(s)'
    <2>1. ContextOK(s)'
          BY <1>1, <1>2, <1>8, <1>9, <1>10, <1>12, Numbers, Slack DEF ContextOK
    <2>2. CacheOK(s)' /\ SocketOK(s)' /\ WatchOK(s)' /\ ExtensionOK(s)' /\ EndedOnce(s)'
          BY <1>10, <1>11 DEF CacheOK, SocketOK, WatchOK, ExtensionOK, EndedOnce
    <2>3. HandlerOK(s)'
          BY <1>1, <1>2, <1>4, <1>9, <1>11, Numbers, Slack DEF HandlerOK
    <2>4. QED
          BY <2>1, <2>2, <2>3 DEF PlacesOK
  <1>14. AccountedFor(s)' /\ Locked(s)'
         BY <1>9 DEF AccountedFor, Locked, Live, InProgress
  <1>15. HandlerInTime(s)' /\ WatchInTime(s)'
         BY <1>4, <1>9, <1>10, <1>11 DEF HandlerInTime, WatchInTime
  <1>16. SessionOK(s)'
         BY <1>13, <1>14, <1>15 DEF SessionOK
  <1>17. QED
         BY <1>1, <1>7, <1>16, OneSession

\* What every step of the handler c for its session s starts from.
LEMMA InHandlerC ==
  ASSUME CoverInv, HolderInv', NEW c \in Conns, ~At(c, "idle"),
         NEW s, s = handler[c].session
  PROVE  /\ HolderInv /\ TypeInv /\ TypeInv' /\ s \in Sessions /\ SessionOK(s)
         /\ Sole(s) /\ Sole(s)' /\ ~Unheld(s) /\ s # NoSession
         /\ current[c] = NoSession
         /\ \A d \in Conns : current[d] # s
         /\ \A d \in Conns : handler[d].session = s => d = c
         /\ cache[s] = 0
         /\ \A w \in watch : w.session = s => w.pc # "store"
  <1>1. HolderInv /\ TypeInv /\ TypeInv'
        BY DEF CoverInv, HolderInv
  <1>2. s \in Sessions /\ s # NoSession
        BY <1>1, BusyHandler, HolderTypes DEF At
  <1>3. SessionOK(s) /\ Sole(s) /\ Sole(s)'
        BY <1>2 DEF CoverInv, HolderInv
  <1>4. /\ ~Unheld(s)
        /\ \A d \in Conns : current[d] # s
        /\ \A d \in Conns : handler[d].session = s => d = c
        /\ cache[s] = 0
        /\ \A w \in watch : w.session = s => w.pc # "store"
        BY <1>3 DEF Sole, Unheld
  <1>5. current[c] = NoSession
        BY DEF CoverInv, OneTask
  <1>6. QED
        BY <1>1, <1>2, <1>3, <1>4, <1>5

\* A handler that drops a session that was never admitted.
LEMMA HandlerDiscards ==
  ASSUME CoverInv, HolderInv', OneTask', NEW c \in Conns, ~At(c, "idle"),
         Leave(c), Discard(handler[c].session), ~Admitted(handler[c].session),
         UNCHANGED <<now, lock, cache, open, current, ends, extending, watch, orphan>>
  PROVE  CoverInv'
  <1>0. PICK s : s = handler[c].session
        OBVIOUS
  <1>1. /\ HolderInv /\ TypeInv /\ s \in Sessions /\ s # NoSession /\ current[c] = NoSession
        /\ \A d \in Conns : current[d] # s
        /\ \A d \in Conns : handler[d].session = s => d = c
        BY <1>0, InHandlerC
  <1>2. /\ \A d \in Conns : d # c => handler'[d] = handler[d]
        /\ handler'[c].session = NoSession
        BY <1>1, LeftIdle DEF Idle
  <1>3. \A t \in Sessions \ {s} : ctx'[t] = ctx[t] /\ (t \in started => t \in started')
        BY <1>0, <1>1 DEF Discard, TypeInv, TypeOK
  <1>4. \A t \in Sessions \ {s} : Shrinks(t) /\ KeepsLock(t) /\ Stays(t)
        BY <1>0, <1>1, <1>2, <1>3, HandlerFrame DEF KeepsLock
  <1>5. SessionOK(s)'
        BY <1>0, <1>1, <1>2, DiscardOK
  <1>6. QED
        BY <1>1, <1>4, <1>5, OneSession DEF CoverInv, ClockOK

\* A handler that calls endSession for an admitted session.
LEMMA HandlerEnds ==
  ASSUME CoverInv, HolderInv', OneTask', NEW c \in Conns, At(c, "auth") \/ At(c, "run"),
         EnterEnd(c, handler[c].session), Admitted(handler[c].session),
         UNCHANGED <<now, lock, cache, ctx, open, current, extending, watch, started, orphan>>
  PROVE  CoverInv'
  <1>0. PICK s : s = handler[c].session
        OBVIOUS
  <1>1. /\ HolderInv /\ TypeInv /\ TypeInv' /\ s \in Sessions /\ SessionOK(s) /\ Sole(s)'
        /\ s # NoSession /\ current[c] = NoSession
        BY <1>0, InHandlerC DEF At
  <1>2. /\ handler'[c].session = s
        /\ \A d \in Conns : d # c => handler'[d] = handler[d]
        /\ \A t \in Sessions \ {s} : ends'[t] = ends[t]
        BY <1>0, <1>1, Entered DEF EnterEnd, TypeInv, TypeOK
  <1>3. \A t \in Sessions \ {s} : Shrinks(t) /\ KeepsLock(t) /\ Stays(t)
        BY <1>0, <1>1, <1>2, HandlerFrame DEF KeepsLock
  <1>4. s \notin orphan /\ ends[s] = 0 => Live(s) /\ Good(s, now + 2 * ProcTime)
    <2>1. /\ now + 3 * ProcTime \in Int /\ now + 2 * ProcTime \in Int
          /\ now + 2 * ProcTime <= now + 3 * ProcTime
          BY <1>1, Numbers, Slack
    <2>2. QED
          BY <1>0, <1>1, <2>1, GoodInHandler, GoodSooner DEF At
  <1>5. SessionOK(s)'
        BY <1>0, <1>1, <1>4, EndingOK DEF Admitted
  <1>6. QED
        BY <1>1, <1>3, <1>5, OneSession DEF CoverInv, ClockOK

LEMMA AuthSucceedsCover ==
  ASSUME CoverInv, HolderInv', OneTask', NEW c \in Conns, AuthSucceeds(c)
  PROVE  CoverInv'
  <1>0. PICK s : s = handler[c].session
        OBVIOUS
  <1>1. /\ At(c, "auth") /\ ~At(c, "idle")
        /\ UNCHANGED <<now, lock, cache, open, current, extending, watch, started>>
        BY DEF AuthSucceeds, At
  <1>2. /\ HolderInv /\ TypeInv /\ TypeInv' /\ s \in Sessions /\ SessionOK(s)
        /\ Sole(s) /\ Sole(s)' /\ ~Unheld(s) /\ s # NoSession
        /\ current[c] = NoSession
        /\ \A d \in Conns : current[d] # s
        /\ \A d \in Conns : handler[d].session = s => d = c
        BY <1>0, <1>1, InHandlerC
  <1>3. ClockOK'
        BY <1>1 DEF CoverInv, ClockOK
  <1>4. CASE ctx[s].state = 0 /\ Enter(c, "lock", s, "none") /\ UNCHANGED <<ctx, ends, orphan>>
    <2>1. /\ handler'[c].session = s /\ handler'[c].pc = "lock" /\ handler'[c].since = now
          /\ \A d \in Conns : d # c => handler'[d] = handler[d]
          BY <1>2, <1>4, Entered
    <2>2. \A t \in Sessions \ {s} : Shrinks(t) /\ KeepsLock(t) /\ Stays(t)
          BY <1>0, <1>1, <1>2, <1>4, <2>1, HandlerFrame DEF KeepsLock
    <2>3. ~Admitted(s) /\ ~Admitted(s)'
          BY <1>4 DEF Admitted
    <2>4. PlacesOK(s)'
      <3>1. /\ ContextOK(s)' /\ CacheOK(s)' /\ SocketOK(s)' /\ WatchOK(s)'
            /\ ExtensionOK(s)' /\ EndedOnce(s)'
            BY <1>1, <1>2, <1>4, <2>3
            DEF SessionOK, PlacesOK, ContextOK, CacheOK, SocketOK, WatchOK, ExtensionOK, EndedOnce
      <3>2. HandlerOK(s)'
            BY <1>1, <1>2, <1>4, <2>1, <2>3, Numbers, Slack
            DEF SessionOK, PlacesOK, ContextOK, HandlerOK
      <3>3. QED
            BY <3>1, <3>2 DEF PlacesOK
    <2>5. AccountedFor(s)' /\ Locked(s)'
          BY <2>3 DEF AccountedFor, Locked, Live, InProgress
    <2>6. HandlerInTime(s)' /\ WatchInTime(s)'
          BY <1>1, <1>2, <2>1, <2>3
          DEF SessionOK, PlacesOK, ContextOK, HandlerInTime, WatchInTime
    <2>7. SessionOK(s)'
          BY <2>4, <2>5, <2>6 DEF SessionOK
    <2>8. QED
          BY <1>2, <1>3, <2>2, <2>7, OneSession
  <1>5. CASE Admitted(s) /\ Dispatch(c, s, handler[c].req)
    <2>1. /\ handler'[c].session \in {s, NoSession}
          /\ \A d \in Conns : d # c => handler'[d] = handler[d]
          /\ \A t \in Sessions \ {s} : /\ ctx'[t] = ctx[t] /\ ends'[t] = ends[t]
                                       /\ t \in orphan => t \in orphan'
          BY <1>2, <1>5, Entered, LeftIdle DEF Dispatch, EnterEnd, Idle, TypeInv, TypeOK
    <2>2. \A t \in Sessions \ {s} : Shrinks(t) /\ KeepsLock(t) /\ Stays(t)
          BY <1>0, <1>1, <1>2, <2>1, HandlerFrame DEF KeepsLock
    <2>3. s \notin orphan /\ ends[s] = 0 => Live(s) /\ Good(s, now + 3 * ProcTime)
          BY <1>0, <1>1, <1>2, <1>5, GoodInHandler DEF At
    <2>4. SessionOK(s)'
          BY <1>1, <1>2, <1>5, <2>3, DispatchOK
    <2>5. QED
          BY <1>2, <1>3, <2>2, <2>4, OneSession
  <1>6. QED
        BY <1>0, <1>4, <1>5 DEF AuthSucceeds, Admitted

\* responseUnauthorized: the session waits on the socket for the answer to the challenge.
LEMMA ChallengeCover ==
  ASSUME CoverInv, HolderInv', OneTask', NEW c \in Conns, NEW s, s = handler[c].session,
         At(c, "auth"), open[c],
         ctx' = [ctx EXCEPT ![s].auth = 1], current' = [current EXCEPT ![c] = s], Leave(c),
         UNCHANGED <<now, lock, cache, open, ends, extending, watch, started, orphan>>
  PROVE  CoverInv'
  <1>1. /\ HolderInv /\ TypeInv /\ TypeInv' /\ s \in Sessions /\ SessionOK(s)
        /\ Sole(s) /\ Sole(s)' /\ ~Unheld(s) /\ s # NoSession
        /\ current[c] = NoSession
        /\ \A d \in Conns : current[d] # s
        /\ \A d \in Conns : handler[d].session = s => d = c
        /\ cache[s] = 0
        /\ \A w \in watch : w.session = s => w.pc # "store"
        BY InHandlerC DEF At
  <1>2. /\ handler'[c].session = NoSession
        /\ \A d \in Conns : d # c => handler'[d] = handler[d]
        /\ \A d \in Conns : d # c => current'[d] = current[d]
        /\ current'[c] = s
        BY <1>1, LeftIdle DEF Idle, TypeInv, TypeOK
  <1>3. \A d \in Conns : handler'[d].session # s
        BY <1>1, <1>2
  <1>4. /\ ctx'[s].auth = 1 /\ ctx'[s].state = ctx[s].state
        /\ ctx'[s].lastActivity = ctx[s].lastActivity
        /\ ctx'[s].extendLock = ctx[s].extendLock
        /\ \A t \in Sessions \ {s} : ctx'[t] = ctx[t]
        BY <1>1 DEF TypeInv, TypeOK, Context
  <1>5. \A t \in Sessions \ {s} : Shrinks(t) /\ KeepsLock(t) /\ Stays(t)
        BY <1>1, <1>2, <1>4, HandlerFrame DEF KeepsLock
  <1>6. Admitted(s)' <=> Admitted(s)
        BY <1>4 DEF Admitted
  <1>7. PlacesOK(s)'
    <2>1. /\ ContextOK(s)' /\ CacheOK(s)' /\ WatchOK(s)' /\ ExtensionOK(s)'
          BY <1>1, <1>4, <1>6
          DEF SessionOK, PlacesOK, ContextOK, CacheOK, WatchOK, ExtensionOK, Ending
    <2>2. SocketOK(s)'
      <3>1. \A d \in Conns : current'[d] = s => d = c
            BY <1>1, <1>2
      <3>2. Admitted(s) => ctx[s].lastActivity # 0
            BY <1>1 DEF SessionOK, PlacesOK, HandlerOK, At
      <3>3. QED
            BY <1>4, <1>6, <3>1, <3>2 DEF SocketOK
    <2>3. HandlerOK(s)' /\ EndedOnce(s)'
          BY <1>1, <1>3 DEF SessionOK, PlacesOK, HandlerOK, EndedOnce, Ending
    <2>4. QED
          BY <2>1, <2>2, <2>3 DEF PlacesOK
  <1>8. AccountedFor(s)'
        BY <1>2 DEF AccountedFor, OnSocket
  <1>9. Live(s)' => Live(s)
    <2>1. ends[s] = 0 /\ Live(s)' => Live(s)
          BY <1>6 DEF Live, InProgress, InHandler, At
    <2>2. ends[s] = 1 /\ Live(s)' => Live(s)
          BY <1>3, <1>6 DEF Live, InProgress, InHandler, InWatch
    <2>3. QED
          BY <2>1, <2>2 DEF Live, InProgress
  <1>10. Locked(s)'
         BY <1>1, <1>4, <1>9 DEF SessionOK, Locked, Extending
  <1>11. HandlerInTime(s)'
         BY <1>3 DEF HandlerInTime
  <1>12. WatchInTime(s)'
         BY <1>1 DEF SessionOK, WatchInTime, Good
  <1>13. SessionOK(s)'
         BY <1>7, <1>8, <1>10, <1>11, <1>12 DEF SessionOK
  <1>14. QED
         BY <1>1, <1>5, <1>13, OneSession DEF CoverInv, ClockOK

\* A handler whose session is left to nobody, by a failure.
LEMMA HandlerLoses ==
  ASSUME CoverInv, HolderInv', OneTask', NEW c \in Conns, ~At(c, "idle"), Leave(c),
         orphan' = orphan \cup {handler[c].session},
         UNCHANGED <<now, lock, cache, ctx, open, current, ends, extending, watch, started>>
  PROVE  CoverInv'
  <1>1. HolderInv /\ TypeInv /\ NoSession \notin Sessions
        BY HolderTypes DEF CoverInv
  <1>2. /\ handler'[c].session = NoSession
        /\ \A d \in Conns : d # c => handler'[d] = handler[d]
        BY <1>1, LeftIdle DEF Idle
  <1>3. ASSUME NEW t \in Sessions
        PROVE  Shrinks(t) /\ KeepsLock(t) /\ Stays(t)
    <2>1. Shrinks(t) /\ KeepsLock(t)
          BY <1>1, <1>2, <1>3 DEF Shrinks, KeepsLock
    <2>2. \A d \in Conns : handler[d].session = t =>
              t \in orphan' \/ handler'[d].session = t
          BY <1>2
    <2>3. QED
          BY <2>1, <2>2 DEF Stays
  <1>4. QED
        BY <1>1, <1>3, NoSessions DEF CoverInv, ClockOK

LEMMA AuthFailsCover ==
  ASSUME CoverInv, HolderInv', OneTask', NEW c \in Conns, AuthFails(c)
  PROVE  CoverInv'
  <1>0. PICK s : s = handler[c].session
        OBVIOUS
  <1>1. /\ At(c, "auth") /\ ~At(c, "idle")
        /\ UNCHANGED <<now, lock, cache, open, extending, watch, dying>>
        BY DEF AuthFails, At
  <1>2. CASE /\ ctx' = [ctx EXCEPT ![s].auth = 1] /\ open[c]
             /\ current' = [current EXCEPT ![c] = s]
             /\ Leave(c)
             /\ UNCHANGED <<started, stale, ends, orphan>>
        BY <1>0, <1>1, <1>2, ChallengeCover
  <1>3. CASE Forget(s) /\ Leave(c) /\ UNCHANGED <<current, ends>>
        BY <1>0, <1>1, <1>3, HandlerDiscards, HandlerLoses DEF Forget, Admitted
  <1>4. CASE /\ ctx[s].state = 0 /\ Discard(s) /\ Leave(c)
             /\ UNCHANGED <<current, ends, orphan>>
        BY <1>0, <1>1, <1>4, HandlerDiscards DEF Admitted
  <1>5. CASE /\ ctx[s].state # 0 /\ EnterEnd(c, s)
             /\ UNCHANGED <<ctx, current, started, stale, orphan>>
        BY <1>0, <1>1, <1>5, HandlerEnds DEF Admitted
  <1>6. QED
        BY <1>0, <1>2, <1>3, <1>4, <1>5 DEF AuthFails

\* acquireLock admits a session, or finds the device in session.
LEMMA AcquireCover ==
  ASSUME CoverInv, HolderInv', OneTask', NEW c \in Conns, AcquireLock(c)
  PROVE  CoverInv'
  <1>0. PICK s : s = handler[c].session
        OBVIOUS
  <1>1. /\ At(c, "lock") /\ ~At(c, "idle")
        /\ UNCHANGED <<now, cache, open, current, extending, watch, ends, orphan>>
        BY DEF AcquireLock, At
  <1>2. /\ HolderInv /\ TypeInv /\ TypeInv' /\ s \in Sessions /\ SessionOK(s)
        /\ Sole(s)' /\ s # NoSession /\ ~Unheld(s)
        /\ current[c] = NoSession
        /\ \A d \in Conns : current[d] # s
        /\ \A d \in Conns : handler[d].session = s => d = c
        BY <1>0, <1>1, InHandlerC
  <1>3. /\ ~Admitted(s) /\ handler[c].since \in Nat
        /\ ctx[s].extendLock <= handler[c].since + RefreshInterval
        /\ handler[c].since <= now /\ now <= handler[c].since + ProcTime
        BY <1>0, <1>1, <1>2, Numbers DEF SessionOK, PlacesOK, HandlerOK, At
  <1>4. CASE ~Grantable(s) /\ Discard(s) /\ Leave(c) /\ UNCHANGED lock
        BY <1>0, <1>1, <1>3, <1>4, HandlerDiscards
  <1>5. CASE /\ Grantable(s) /\ Grant(s, handler[c].since)
             /\ ctx' = [ctx EXCEPT ![s].state = 1, ![s].auth = 2]
             /\ Enter(c, "run", s, "none")
             /\ UNCHANGED <<started, stale>>
    <2>1. /\ lock.owner \in {NoSession, s}
          /\ lock'.owner = s /\ lock'.expire = handler[c].since + LockTTL
          BY <1>5 DEF Grantable, Grant
    <2>2. ClockOK'
          BY <1>1, <1>2, <1>3, <2>1, Numbers, Slack DEF CoverInv, ClockOK
    <2>3. /\ handler'[c].session = s /\ handler'[c].pc = "run" /\ handler'[c].since = now
          /\ \A d \in Conns : d # c => handler'[d] = handler[d]
          BY <1>2, <1>5, Entered
    <2>4. /\ ctx'[s].state = 1 /\ ctx'[s].auth = 2
          /\ ctx'[s].lastActivity = ctx[s].lastActivity
          /\ ctx'[s].extendLock = ctx[s].extendLock
          /\ \A t \in Sessions \ {s} : ctx'[t] = ctx[t]
          BY <1>2, <1>5 DEF TypeInv, TypeOK, Context
    <2>5. \A t \in Sessions \ {s} : Shrinks(t) /\ KeepsLock(t) /\ Stays(t)
      <3>1. \A t \in Sessions \ {s} : KeepsLock(t)
            BY <1>2, <2>1, HolderTypes DEF KeepsLock
      <3>2. QED
            BY <1>0, <1>1, <1>2, <1>5, <2>3, <2>4, <3>1, HandlerFrame
    <2>6. /\ ends[s] = 0 /\ cache[s] = 0 /\ s \in started
          /\ \A w \in watch : w.session # s
          /\ \A e \in extending : e.session # s
          BY <1>2, <1>3 DEF SessionOK, PlacesOK, ContextOK, HolderInv
    <2>7. \A d \in Conns : handler'[d].session = s => d = c
          BY <1>2, <2>3
    <2>8. PlacesOK(s)'
      <3>1. /\ ContextOK(s)' /\ CacheOK(s)' /\ SocketOK(s)' /\ WatchOK(s)'
            /\ ExtensionOK(s)' /\ EndedOnce(s)'
            BY <1>1, <1>2, <1>5, <2>4, <2>6
            DEF SessionOK, PlacesOK, ContextOK, CacheOK, SocketOK, WatchOK, ExtensionOK,
                EndedOnce, Admitted
      <3>2. HandlerOK(s)'
            BY <1>1, <1>2, <2>3, <2>4, <2>7, Numbers, Slack DEF HandlerOK, Admitted
      <3>3. QED
            BY <3>1, <3>2 DEF PlacesOK
    <2>9. AccountedFor(s)'
          BY <2>3 DEF AccountedFor, InHandler
    <2>10. Locked(s)'
      <3>1. lock'.expire >= ctx'[s].extendLock + Timeout + RequestTimeout + SkewTolerance
            BY <1>2, <1>3, <2>1, <2>4, Numbers, Slack
      <3>2. QED
            BY <1>1, <2>1, <2>6, <3>1 DEF Locked
    <2>11. HandlerInTime(s)'
      <3>1. now + 3 * ProcTime + ClockSkew < lock'.expire
            BY <1>2, <1>3, <2>1, Numbers, Slack
      <3>2. Good(s, now + 3 * ProcTime)'
            BY <1>1, <3>1 DEF Good
      <3>3. QED
            BY <1>1, <2>3, <2>6, <2>7, <3>1 DEF HandlerInTime, Good
    <2>12. WatchInTime(s)'
           BY <1>1, <2>6 DEF WatchInTime
    <2>13. SessionOK(s)'
           BY <2>8, <2>9, <2>10, <2>11, <2>12 DEF SessionOK
    <2>14. QED
           BY <1>2, <2>2, <2>5, <2>13, OneSession
  <1>6. QED
        BY <1>0, <1>4, <1>5 DEF AcquireLock

LEMMA FinishCover ==
  ASSUME CoverInv, HolderInv', OneTask', NEW c \in Conns, Finish(c)
  PROVE  CoverInv'
  BY HandlerEnds DEF Finish, Admitted

\* writeResponse: the session is back on its socket, with a new lastActivity and perhaps an
\* extension of the lock in flight.
LEMMA RespondCover ==
  ASSUME CoverInv, HolderInv', OneTask', NEW c \in Conns, Respond(c)
  PROVE  CoverInv'
  <1>0. PICK s : s = handler[c].session
        OBVIOUS
  <1>1. /\ At(c, "run") /\ ~At(c, "idle")
        /\ UNCHANGED <<now, lock, cache, open, watch, started, orphan>>
        BY DEF Respond, At
  <1>2. /\ HolderInv /\ TypeInv /\ TypeInv' /\ s \in Sessions /\ SessionOK(s)
        /\ Sole(s) /\ Sole(s)' /\ ~Unheld(s) /\ s # NoSession
        /\ current[c] = NoSession
        /\ \A d \in Conns : current[d] # s
        /\ \A d \in Conns : handler[d].session = s => d = c
        /\ cache[s] = 0
        /\ \A w \in watch : w.session = s => w.pc # "store"
        BY <1>0, <1>1, InHandlerC
  <1>3. Admitted(s) /\ ctx[s].auth = 2
        BY <1>0, <1>1, <1>2 DEF SessionOK, PlacesOK, HandlerOK, At
  <1>4. CASE EnterEnd(c, s) /\ UNCHANGED <<ctx, current, extending>>
        BY <1>0, <1>1, <1>3, <1>4, HandlerEnds
  <1>5. ASSUME ~Destroyed(c), Leave(c), current' = [current EXCEPT ![c] = s], UNCHANGED ends,
               NEW x, x = (IF now >= ctx[s].extendLock THEN now + RefreshInterval
                                                       ELSE ctx[s].extendLock),
               ctx' = [ctx EXCEPT ![s].extendLock = x, ![s].lastActivity = now],
               NEW e, e.session = s, e.since = now,
               extending' = extending \cup (IF now >= ctx[s].extendLock THEN {e} ELSE {})
        PROVE  CoverInv'
    <2>1. /\ handler'[c].session = NoSession
          /\ \A d \in Conns : d # c => handler'[d] = handler[d]
          /\ \A d \in Conns : d # c => current'[d] = current[d]
          /\ current'[c] = s /\ open[c]
          BY <1>2, <1>5, LeftIdle DEF Idle, TypeInv, TypeOK, Destroyed
    <2>2. \A d \in Conns : handler'[d].session # s
          BY <1>2, <2>1
    <2>3. /\ ctx'[s].auth = 2 /\ ctx'[s].state = ctx[s].state
          /\ ctx'[s].lastActivity = now /\ ctx'[s].extendLock = x
          /\ \A t \in Sessions \ {s} : ctx'[t] = ctx[t]
          BY <1>2, <1>3, <1>5 DEF TypeInv, TypeOK, Context
    <2>4. \A t \in Sessions \ {s} : Shrinks(t) /\ KeepsLock(t) /\ Stays(t)
      <3>1. \A y \in extending' : y.session = s \/ y \in extending
            BY <1>5
      <3>2. extending \subseteq extending'
            BY <1>5
      <3>3. UNCHANGED ends
            BY <1>5
      <3>4. \A t \in Sessions \ {s} : KeepsLock(t)
            BY <1>1 DEF KeepsLock
      <3>5. \A t \in Sessions \ {s} : Shrinks(t) /\ KeepsLock(t) /\ Stays(t)
            BY <1>0, <1>1, <1>2, <2>1, <2>3, <3>1, <3>2, <3>3, <3>4, HandlerFrame
      <3>6. QED
            BY <3>5
    <2>5. Admitted(s)'
          BY <1>3, <2>3 DEF Admitted
    \* an extension becomes due only when the one before it is no longer in flight
    <2>6. now >= ctx[s].extendLock => \A y \in extending : y.session # s
      <3>1. ASSUME NEW y \in extending, y.session = s
            PROVE  now < ctx[s].extendLock
            BY <1>2, <3>1, Numbers, Slack DEF SessionOK, PlacesOK, ExtensionOK
      <3>2. QED
            BY <1>2, <3>1, Numbers
    <2>7. /\ x \in Nat /\ now \in Nat /\ now # 0 /\ now < x /\ x <= now + RefreshInterval
          BY <1>2, <1>5, Numbers, Slack
          DEF SessionOK, PlacesOK, ContextOK, CoverInv, ClockOK
    <2>8. PlacesOK(s)'
      <3>1. ContextOK(s)'
            BY <1>1, <1>2, <1>3, <2>3, <2>5, <2>7 DEF SessionOK, PlacesOK, ContextOK
      <3>2. CacheOK(s)' /\ HandlerOK(s)'
            BY <1>1, <1>2, <2>2 DEF CacheOK, HandlerOK
      <3>3. SocketOK(s)'
        <4>1. \A d \in Conns : current'[d] = s => d = c
              BY <1>2, <2>1
        <4>2. QED
              BY <1>1, <2>1, <2>3, <2>7, <4>1, Slack DEF SocketOK
      <3>4. WatchOK(s)'
            BY <1>1, <1>2, <1>5 DEF SessionOK, PlacesOK, WatchOK, Ending
      <3>5. ExtensionOK(s)'
        <4>1. CASE now >= ctx[s].extendLock
              BY <1>1, <1>2, <1>5, <2>3, <2>6, <4>1, Numbers, Slack
              DEF ExtensionOK, CoverInv, ClockOK
        <4>2. CASE ~(now >= ctx[s].extendLock)
              BY <1>1, <1>2, <1>5, <2>3, <4>2 DEF SessionOK, PlacesOK, ExtensionOK
        <4>3. QED
              BY <4>1, <4>2
      <3>6. EndedOnce(s)'
            BY <1>1, <1>2, <1>5, <2>2 DEF SessionOK, PlacesOK, EndedOnce, Ending
      <3>7. QED
            BY <3>1, <3>2, <3>3, <3>4, <3>5, <3>6 DEF PlacesOK
    <2>9. AccountedFor(s)'
          BY <1>1, <2>1 DEF AccountedFor, OnSocket
    <2>10. Live(s)' => Live(s)
      <3>1. ends[s] = 0 /\ Live(s)' => Live(s)
            BY <1>0, <1>1, <1>3, <1>5 DEF Live, InProgress, InHandler, At
      <3>2. ends[s] = 1 /\ Live(s)' => Live(s)
            BY <1>1, <1>3, <1>5, <2>2 DEF Live, InProgress, InHandler, InWatch
      <3>3. QED
            BY <1>5, <3>1, <3>2 DEF Live, InProgress
    <2>11. \A t : Good(s, t) => Good(s, t)'
           BY <1>1, <1>5 DEF Good
    <2>12. ASSUME Live(s), now >= ctx[s].extendLock
           PROVE  now + ProcTime + ClockSkew < lock.expire
      <3>1. Good(s, now + ProcTime)
        <4>1. CASE ends[s] = 0
          <5>1. s \notin orphan
                BY <2>12 DEF Live, InProgress
          <5>2. Good(s, now + 2 * ProcTime)
                BY <1>0, <1>1, <1>2, <4>1, <5>1, GoodInHandler DEF At
          <5>3. /\ now + 2 * ProcTime \in Int /\ now + ProcTime \in Int
                /\ now + ProcTime <= now + 2 * ProcTime
                BY <2>7, Slack
          <5>4. QED
                BY <1>2, <5>2, <5>3, GoodSooner
        <4>2. CASE ends[s] = 1
          <5>1. s \notin orphan /\ InWatch(s, {"end", "release"})
                BY <1>0, <1>1, <1>2, <2>12, <4>2 DEF Live, InProgress, InHandler, At
          <5>2. PICK w \in watch : w.session = s /\ Ending(w)
                BY <5>1 DEF InWatch, Ending
          <5>3. QED
                BY <1>2, <4>2, <5>1, <5>2, GoodInWatch
        <4>3. QED
              BY <2>12, <4>1, <4>2 DEF Live, InProgress
      <3>2. QED
            BY <2>6, <2>12, <3>1 DEF Good
    <2>13. Locked(s)'
      <3>1. CASE now >= ctx[s].extendLock
        <4>1. Extending(s)'
              BY <1>5, <3>1 DEF Extending
        <4>2. Live(s)' => \A y \in extending' : y.session = s =>
                               y.since + ProcTime + ClockSkew < lock'.expire
              BY <1>1, <1>5, <2>6, <2>10, <2>12, <3>1
        <4>3. QED
              BY <1>1, <1>2, <2>10, <4>1, <4>2 DEF SessionOK, Locked
      <3>2. CASE ~(now >= ctx[s].extendLock)
            BY <1>1, <1>2, <1>5, <2>3, <2>10, <3>2 DEF SessionOK, Locked, Extending
      <3>3. QED
            BY <3>1, <3>2
    <2>14. HandlerInTime(s)'
           BY <2>2 DEF HandlerInTime
    <2>15. WatchInTime(s)'
           BY <1>1, <1>2, <1>5, <2>11 DEF SessionOK, WatchInTime
    <2>16. SessionOK(s)'
           BY <2>8, <2>9, <2>13, <2>14, <2>15 DEF SessionOK
    <2>17. QED
           BY <1>1, <1>2, <2>4, <2>16, OneSession DEF CoverInv, ClockOK
  <1>6. QED
    <2> DEFINE due == now >= ctx[s].extendLock
    <2>1. CASE /\ ~Destroyed(c) /\ Leave(c)
               /\ current' = [current EXCEPT ![c] = s]
               /\ ctx' = [ctx EXCEPT
                            ![s].extendLock = IF due THEN now + RefreshInterval ELSE @,
                            ![s].lastActivity = now]
               /\ extending' = extending \cup
                      (IF due THEN {[session |-> s, conn |-> c, since |-> now,
                                     worker |-> WorkerOf[c]]}
                              ELSE {})
               /\ UNCHANGED ends
      <3>1. PICK e : e = [session |-> s, conn |-> c, since |-> now, worker |-> WorkerOf[c]]
            OBVIOUS
      <3>2. e.session = s /\ e.since = now
            BY <3>1
      <3>3. PICK x : x = (IF due THEN now + RefreshInterval ELSE ctx[s].extendLock)
            OBVIOUS
      <3>4. ctx' = [ctx EXCEPT ![s].extendLock = x, ![s].lastActivity = now]
            BY <2>1, <3>3, Zenon
      <3>5. extending' = extending \cup (IF due THEN {e} ELSE {})
            BY <2>1, <3>1
      <3>6. QED
            BY <1>5, <2>1, <3>2, <3>3, <3>4, <3>5
    <2>2. QED
          BY <1>0, <1>4, <2>1 DEF Respond

\* A handler's awaited call rejects; acquireLock may have taken the lock all the same.
LEMMA ThrowsCover ==
  ASSUME CoverInv, HolderInv', OneTask', NEW c \in Conns, HandlerThrows(c)
  PROVE  CoverInv'
  <1>0. PICK s : s = handler[c].session
        OBVIOUS
  <1>1. /\ ~At(c, "idle") /\ Leave(c)
        /\ UNCHANGED <<now, cache, open, current, extending, watch, ends>>
        BY DEF HandlerThrows, At
  <1>2. CASE Forget(s) /\ UNCHANGED lock
        BY <1>0, <1>1, <1>2, HandlerDiscards, HandlerLoses DEF Forget, Admitted
  <1>3. CASE /\ At(c, "lock") /\ Grantable(s) /\ Grant(s, handler[c].since)
             /\ orphan' = orphan \cup {s}
             /\ UNCHANGED <<started, ctx, stale>>
    <2>1. /\ HolderInv /\ TypeInv /\ TypeInv' /\ s \in Sessions /\ SessionOK(s)
          /\ s # NoSession /\ current[c] = NoSession
          /\ \A d \in Conns : handler[d].session = s => d = c
          BY <1>0, <1>1, InHandlerC
    <2>2. /\ handler'[c].session = NoSession
          /\ \A d \in Conns : d # c => handler'[d] = handler[d]
          BY <1>1, <2>1, LeftIdle DEF Idle
    <2>3. /\ lock.owner \in {NoSession, s}
          /\ lock'.owner = s /\ lock'.expire = handler[c].since + LockTTL
          BY <1>3 DEF Grantable, Grant
    <2>4. ~Admitted(s) /\ handler[c].since <= now
          BY <1>0, <1>3, <2>1 DEF SessionOK, PlacesOK, HandlerOK, At
    <2>5. ClockOK'
          BY <1>1, <2>1, <2>3, <2>4, Numbers, Slack DEF CoverInv, ClockOK
    <2>6. \A t \in Sessions \ {s} : Shrinks(t) /\ KeepsLock(t) /\ Stays(t)
      <3>1. \A t \in Sessions \ {s} : KeepsLock(t)
            BY <2>1, <2>3, HolderTypes DEF KeepsLock
      <3>2. QED
            BY <1>0, <1>1, <1>3, <2>1, <2>2, <3>1, HandlerFrame
    <2>7. SessionOK(s)'
      <3>1. Shrinks(s)
            BY <1>1, <1>3, <2>1, <2>2 DEF Shrinks
      <3>2. ExtensionOK(s)'
            BY <1>1, <2>1, <2>4 DEF SessionOK, PlacesOK, ContextOK, ExtensionOK
      <3>3. QED
            BY <1>3, <2>1, <3>1, <3>2, ShrinksOK, OrphanOK DEF SessionOK
    <2>8. QED
          BY <2>1, <2>5, <2>6, <2>7, OneSession
  <1>4. QED
        BY <1>0, <1>2, <1>3 DEF HandlerThrows

\* The saves of endSession.
LEMMA SaveInHandlerCover ==
  ASSUME CoverInv, HolderInv', OneTask', NEW c \in Conns, SaveInHandler(c)
  PROVE  CoverInv'
  <1>0. PICK s : s = handler[c].session
        OBVIOUS
  <1>1. /\ At(c, "end") /\ ~At(c, "idle") /\ Enter(c, "release", s, "none")
        /\ UNCHANGED <<now, lock, cache, ctx, open, current, extending, watch,
                       started, ends, orphan>>
        BY <1>0 DEF SaveInHandler, At
  <1>2. /\ HolderInv /\ TypeInv /\ TypeInv' /\ s \in Sessions /\ SessionOK(s)
        /\ Sole(s)' /\ s # NoSession /\ current[c] = NoSession
        /\ \A d \in Conns : current[d] # s
        /\ \A d \in Conns : handler[d].session = s => d = c
        BY <1>0, <1>1, InHandlerC
  <1>3. /\ handler'[c].session = s /\ handler'[c].pc = "release" /\ handler'[c].since = now
        /\ \A d \in Conns : d # c => handler'[d] = handler[d]
        BY <1>1, <1>2, Entered
  <1>4. \A t \in Sessions \ {s} : Shrinks(t) /\ KeepsLock(t) /\ Stays(t)
        BY <1>0, <1>1, <1>2, <1>3, HandlerFrame DEF KeepsLock
  <1>5. \A d \in Conns : handler'[d].session = s <=> d = c
        BY <1>2, <1>3
  <1>6. Admitted(s) /\ Admitted(s)' /\ ends[s] # 0
        BY <1>0, <1>1, <1>2 DEF SessionOK, PlacesOK, HandlerOK, At, Admitted
  <1>7. PlacesOK(s)'
    <2>1. /\ ContextOK(s)' /\ CacheOK(s)' /\ SocketOK(s)' /\ WatchOK(s)' /\ ExtensionOK(s)'
          BY <1>1, <1>2
          DEF SessionOK, PlacesOK, ContextOK, CacheOK, SocketOK, WatchOK, ExtensionOK,
              Admitted, Ending
    <2>2. HandlerOK(s)'
          BY <1>1, <1>2, <1>3, <1>5, <1>6, Numbers, Slack DEF HandlerOK
    <2>3. EndedOnce(s)'
          BY <1>0, <1>1, <1>2, <1>5 DEF SessionOK, PlacesOK, EndedOnce, Ending, At
    <2>4. QED
          BY <2>1, <2>2, <2>3 DEF PlacesOK
  <1>8. AccountedFor(s)'
        BY <1>1, <1>6 DEF AccountedFor
  <1>9. Live(s)' => Live(s)
        BY <1>0, <1>1, <1>5, <1>6 DEF Live, InProgress, InHandler, InWatch, At
  <1>10. Locked(s)'
         BY <1>1, <1>2, <1>9 DEF SessionOK, Locked, Extending
  <1>11. HandlerInTime(s)'
    <2>1. s \notin orphan /\ ends[s] = 1 /\ ctx[s].auth # 1 => Good(s, now + ProcTime)
          BY <1>0, <1>1, <1>2, GoodInHandler DEF At
    <2>2. QED
          BY <1>1, <1>3, <1>5, <2>1 DEF HandlerInTime, Good
  <1>12. WatchInTime(s)'
    <2>1. ~Unheld(s)
          BY <1>0 DEF Unheld
    <2>2. QED
          BY <1>1, <1>2, <2>1 DEF SessionOK, WatchInTime, Good
  <1>13. SessionOK(s)'
         BY <1>7, <1>8, <1>10, <1>11, <1>12 DEF SessionOK
  <1>14. QED
         BY <1>1, <1>2, <1>4, <1>13, OneSession DEF CoverInv, ClockOK

\* releaseLock deletes the lock or finds it gone; nothing else is left of the session then.
LEMMA ReleaseInHandlerCover ==
  ASSUME CoverInv, HolderInv', OneTask', NEW c \in Conns, ReleaseInHandler(c)
  PROVE  CoverInv'
  <1>0. PICK s : s = handler[c].session
        OBVIOUS
  <1>1. /\ At(c, "release") /\ ~At(c, "idle") /\ Leave(c)
        /\ (lock.owner = s /\ lock' = NoLock) \/ (lock.owner # s /\ lock' = lock)
        /\ UNCHANGED <<now, cache, ctx, open, current, extending, watch, started, ends, orphan>>
        BY <1>0 DEF ReleaseInHandler, Release, At
  <1>2. /\ HolderInv /\ TypeInv /\ TypeInv' /\ s \in Sessions /\ SessionOK(s)
        /\ s # NoSession /\ current[c] = NoSession
        /\ \A d \in Conns : current[d] # s
        /\ \A d \in Conns : handler[d].session = s => d = c
        /\ cache[s] = 0
        /\ \A w \in watch : w.session = s => w.pc # "store"
        BY <1>0, <1>1, InHandlerC
  <1>3. /\ handler'[c].session = NoSession
        /\ \A d \in Conns : d # c => handler'[d] = handler[d]
        BY <1>1, <1>2, LeftIdle DEF Idle
  <1>4. \A d \in Conns : handler'[d].session # s
        BY <1>2, <1>3
  <1>5. ClockOK'
        BY <1>1, <1>2, Numbers, Slack DEF CoverInv, ClockOK, NoLock
  <1>6. \A t \in Sessions \ {s} : Shrinks(t) /\ KeepsLock(t) /\ Stays(t)
    <2>1. \A t \in Sessions \ {s} : KeepsLock(t)
          BY <1>1, <1>2, HolderTypes DEF KeepsLock, NoLock
    <2>2. QED
          BY <1>0, <1>1, <1>2, <1>3, <2>1, HandlerFrame
  <1>7. ends[s] # 0 /\ (ends[s] = 1 => \A w \in watch : w.session = s => ~Ending(w))
        BY <1>0, <1>1, <1>2 DEF SessionOK, PlacesOK, HandlerOK, EndedOnce, At
  <1>8. PlacesOK(s)'
    <2>1. Shrinks(s)
          BY <1>1, <1>4 DEF Shrinks
    <2>2. ExtensionOK(s)'
          BY <1>1, <1>2 DEF SessionOK, PlacesOK, ExtensionOK, NoLock
    <2>3. QED
          BY <1>2, <2>1, <2>2, ShrinksOK DEF SessionOK
  <1>9. ~Live(s)'
        BY <1>1, <1>4, <1>7 DEF Live, InProgress, InHandler, InWatch, Ending
  <1>10. SessionOK(s)'
         BY <1>1, <1>7, <1>8, <1>9, NotLive DEF SessionOK, AccountedFor, Locked
  <1>11. QED
         BY <1>2, <1>5, <1>6, <1>10, OneSession

-----------------------------------------------------------------------------
\* Extensions and the database

\* A step that only changes the lock and the extensions of s.
LEMMA ExtensionFrame ==
  ASSUME HolderInv, NEW s, NEW e \in extending, e.session = s, extending' = extending \ {e},
         UNCHANGED <<now, cache, ctx, open, current, handler, watch, started, ends, orphan>>,
         lock' = lock \/ (lock.owner \in {NoSession, s} /\ lock'.owner = s)
  PROVE  /\ \A t \in Sessions \ {s} : Shrinks(t) /\ KeepsLock(t) /\ Stays(t)
         /\ Shrinks(s)
  <1>1. Shrinks(s)
        BY DEF Shrinks
  <1>2. ASSUME NEW t \in Sessions \ {s}
        PROVE  Shrinks(t) /\ KeepsLock(t) /\ Stays(t)
    <2>1. Shrinks(t)
          BY <1>2 DEF Shrinks
    <2>2. KeepsLock(t)
          BY <1>2, HolderTypes DEF KeepsLock
    <2>3. Stays(t)
          BY <1>2 DEF Stays
    <2>4. QED
          BY <2>1, <2>2, <2>3
  <1>3. QED
        BY <1>1, <1>2

LEMMA ExtendCover ==
  ASSUME CoverInv, HolderInv', OneTask', NEW e \in extending, ExtendLock(e)
  PROVE  CoverInv'
  <1>0. PICK s : s = e.session
        OBVIOUS
  <1>1. /\ lock.owner \in {NoSession, s}
        /\ lock'.owner = s /\ lock'.expire = e.since + LockTTL
        /\ extending' = extending \ {e}
        /\ UNCHANGED <<now, cache, ctx, open, current, handler, watch, started, ends, orphan>>
        BY <1>0 DEF ExtendLock, Grantable, Grant
  <1>2. /\ HolderInv /\ TypeInv /\ TypeInv' /\ s \in Sessions /\ SessionOK(s)
        BY <1>0, Numbers DEF CoverInv, HolderInv
  <1>3. /\ e.since \in Nat /\ e.since <= now
        /\ ctx[s].extendLock = e.since + RefreshInterval
        /\ lock.owner = s => lock.expire <= e.since + LockTTL
        BY <1>0, <1>2, Numbers DEF SessionOK, PlacesOK, ExtensionOK
  <1>4. \A x \in extending : x.session = s => x.since = e.since
        BY <1>2, <1>3, Numbers, Slack DEF SessionOK, PlacesOK, ExtensionOK
  <1>5. /\ \A t \in Sessions \ {s} : Shrinks(t) /\ KeepsLock(t) /\ Stays(t)
        /\ Shrinks(s)
        BY <1>0, <1>1, <1>2, ExtensionFrame
  <1>6. ClockOK'
        BY <1>1, <1>2, <1>3, Numbers, Slack DEF CoverInv, ClockOK
  <1>7. PlacesOK(s)'
    <2>1. ExtensionOK(s)'
          BY <1>1, <1>2, <1>3, <1>4, Slack DEF SessionOK, PlacesOK, ExtensionOK
    <2>2. QED
          BY <1>2, <1>5, <2>1, ShrinksOK DEF SessionOK
  <1>8. AccountedFor(s)'
        BY <1>1, <1>2
        DEF SessionOK, AccountedFor, Admitted, OnSocket, InHandler, InWatch, Waiting
  <1>9. Live(s)' <=> Live(s)
        BY <1>1 DEF Live, InProgress, Admitted, OnSocket, InHandler, InWatch, Waiting, Expired
  <1>10. CASE Live(s)
    <2>1. lock.owner = s /\ e.since + ProcTime + ClockSkew < lock.expire
          BY <1>0, <1>2, <1>10 DEF SessionOK, Locked
    <2>2. lock'.expire >= lock.expire
          BY <1>1, <1>3, <2>1, Numbers, <1>2, Slack
    <2>3. Locked(s)'
          BY <1>1, <1>2, <1>3, <1>4, <2>1, <2>2, Numbers, Slack DEF Locked
    <2>4. ASSUME NEW t \in Int, Good(s, t)
          PROVE  Good(s, t)'
          BY <1>1, <1>2, <1>4, <2>2, <2>4, Numbers, Slack DEF Good
    <2>5. HandlerInTime(s)'
      <3>1. \A d \in Conns : handler[d].since \in Nat
            BY <1>2, Numbers
      <3>2. QED
            BY <1>1, <1>2, <2>4, <3>1, Slack DEF SessionOK, HandlerInTime, Admitted
    <2>6. WatchInTime(s)'
      <3>1. \A w \in watch : w.since \in Nat
            BY <1>2, Numbers
      <3>2. Unheld(s)' <=> Unheld(s)
            BY <1>1 DEF Unheld
      <3>3. QED
            BY <1>1, <1>2, <2>4, <3>1, <3>2, Slack DEF SessionOK, WatchInTime
    <2>7. SessionOK(s)'
          BY <1>7, <1>8, <2>3, <2>5, <2>6 DEF SessionOK
    <2>8. QED
          BY <1>2, <1>5, <1>6, <2>7, OneSession
  <1>11. CASE ~Live(s)
    <2>1. SessionOK(s)'
          BY <1>7, <1>8, <1>9, <1>11, NotLive DEF SessionOK, Locked
    <2>2. QED
          BY <1>2, <1>5, <1>6, <2>1, OneSession
  <1>12. QED
         BY <1>10, <1>11

\* The acquireLock of an extension rejects, or the lock is another session's.
LEMMA FailsCover ==
  ASSUME CoverInv, HolderInv', OneTask', NEW e \in extending, ExtensionFails(e)
  PROVE  CoverInv'
  <1>0. PICK s : s = e.session
        OBVIOUS
  <1>1. /\ \/ lock' = lock
           \/ /\ lock.owner \in {NoSession, s}
              /\ lock'.owner = s /\ lock'.expire = e.since + LockTTL
        /\ extending' = extending \ {e} /\ s \in orphan'
        /\ orphan \subseteq orphan'
        /\ \A c \in Conns : \/ current'[c] = current[c]
                            \/ /\ current'[c] = NoSession
                               /\ current[c] = NoSession \/ current[c] \in orphan'
        /\ UNCHANGED <<now, cache, ctx, open, handler, watch, started, ends>>
        BY <1>0 DEF ExtensionFails, Grantable, Grant
  <1>2. /\ HolderInv /\ TypeInv /\ TypeInv' /\ s \in Sessions /\ SessionOK(s)
        /\ NoSession \notin Sessions
        BY <1>0, Numbers, HolderTypes DEF CoverInv, HolderInv
  <1>3. /\ e.since \in Nat /\ e.since <= now
        /\ lock.owner = s => lock.expire <= e.since + LockTTL
        BY <1>0, <1>2, Numbers DEF SessionOK, PlacesOK, ExtensionOK
  <1>4. \A x \in extending : x.session = s => x.since = e.since
        BY <1>0, <1>2, Numbers, Slack DEF SessionOK, PlacesOK, ExtensionOK
  <1>5. ClockOK'
        BY <1>1, <1>2, <1>3, Numbers, Slack DEF CoverInv, ClockOK
  <1>6. ASSUME NEW t \in Sessions \ {s}
        PROVE  Shrinks(t) /\ KeepsLock(t) /\ Stays(t)
    <2>1. Shrinks(t)
          BY <1>1, <1>2, <1>6 DEF Shrinks
    <2>2. KeepsLock(t)
          BY <1>1, <1>2, <1>6 DEF KeepsLock
    <2>3. Stays(t)
          BY <1>0, <1>1, <1>2, <1>6 DEF Stays
    <2>4. QED
          BY <2>1, <2>2, <2>3
  <1>7. SessionOK(s)'
    <2>1. Shrinks(s)
          BY <1>1, <1>2 DEF Shrinks
    <2>2. ExtensionOK(s)'
          BY <1>1, <1>2, <1>3, <1>4, Slack DEF SessionOK, PlacesOK, ExtensionOK
    <2>3. QED
          BY <1>1, <1>2, <2>1, <2>2, ShrinksOK, OrphanOK DEF SessionOK
  <1>8. QED
        BY <1>2, <1>5, <1>6, <1>7, OneSession

\* The database deletes a lock only when no session is live.
LEMMA ExpireLockCover ==
  ASSUME CoverInv, HolderInv', OneTask', ExpireLock
  PROVE  CoverInv'
  <1>1. /\ now + ClockSkew >= lock.expire /\ lock' = NoLock /\ lock.owner # NoSession
        /\ UNCHANGED <<now, cache, ctx, open, current, handler, extending, watch, started,
                       ends, orphan>>
        BY DEF ExpireLock
  <1>2. HolderInv /\ TypeInv
        BY DEF CoverInv, HolderInv
  <1>3. ClockOK'
        BY <1>1, <1>2, Numbers, Slack DEF CoverInv, ClockOK, NoLock
  <1>4. ASSUME NEW s \in Sessions
        PROVE  SessionOK(s)'
    <2>1. SessionOK(s) /\ Sole(s)
          BY DEF CoverInv, HolderInv
    <2>2. ~Live(s)
          BY <1>1, <1>2, <2>1, NotExpired, Numbers, Slack
    <2>3. ~Live(s)'
          BY <1>1, <2>2
          DEF Live, InProgress, Admitted, OnSocket, InHandler, InWatch, Waiting, Expired
    <2>4. PlacesOK(s)'
      <3>1. Shrinks(s)
            BY <1>1 DEF Shrinks
      <3>2. lock'.owner # s
            BY <1>1, <1>2, HolderTypes DEF NoLock
      <3>3. ExtensionOK(s)'
            BY <1>1, <2>1, <3>2 DEF SessionOK, PlacesOK, ExtensionOK
      <3>4. QED
            BY <2>1, <3>1, <3>3, ShrinksOK DEF SessionOK
    <2>5. AccountedFor(s)'
          BY <1>1, <2>1
          DEF SessionOK, AccountedFor, Admitted, OnSocket, InHandler, InWatch, Waiting
    <2>6. QED
          BY <2>3, <2>4, <2>5, NotLive DEF SessionOK, Locked
  <1>5. QED
        BY <1>3, <1>4 DEF CoverInv

\* It deletes a session only when no close timer counts on it.
LEMMA ExpireCacheCover ==
  ASSUME CoverInv, HolderInv', OneTask', NEW s \in Sessions, ExpireCache(s)
  PROVE  CoverInv'
  <1>1. /\ cache[s] # 0 /\ now + ClockSkew >= cache[s]
        /\ cache' = [cache EXCEPT ![s] = 0]
        /\ UNCHANGED <<now, lock, ctx, open, current, handler, extending, watch, started,
                       ends, orphan>>
        BY DEF ExpireCache
  <1>2. /\ HolderInv /\ TypeInv /\ SessionOK(s) /\ Sole(s) /\ ClockOK'
        BY <1>1 DEF CoverInv, HolderInv, ClockOK
  <1>3. cache'[s] = 0 /\ \A t \in Sessions \ {s} : cache'[t] = cache[t]
        BY <1>1, <1>2 DEF TypeInv, TypeOK
  <1>4. \A t \in Sessions \ {s} : Shrinks(t) /\ KeepsLock(t) /\ Stays(t)
        BY <1>1, <1>3 DEF Shrinks, KeepsLock, Stays
  <1>5. ~(s \notin orphan /\ ends[s] = 0)
    <2>1. cache[s] = ctx[s].lastActivity + Timeout + CacheGrace + SkewTolerance
          BY <1>1, <1>2 DEF SessionOK, PlacesOK, CacheOK
    <2>2. s \notin orphan /\ ends[s] = 0 =>
              now <= ctx[s].lastActivity + Timeout + TimerGrace + 2 * ProcTime
          BY <1>1, <1>2, GoodInCache
    <2>3. QED
          BY <1>1, <1>2, <2>1, <2>2, Numbers, Slack
  <1>6. PlacesOK(s)'
        BY <1>1, <1>2, <1>3
        DEF SessionOK, PlacesOK, ContextOK, CacheOK, SocketOK, HandlerOK, WatchOK,
            ExtensionOK, EndedOnce, Admitted, Ending
  <1>7. AccountedFor(s)'
        BY <1>1, <1>5 DEF AccountedFor
  <1>8. Live(s)' => Live(s)
        BY <1>1, <1>5 DEF Live, InProgress, InHandler, InWatch, Admitted
  <1>9. Locked(s)'
        BY <1>1, <1>2, <1>8 DEF SessionOK, Locked, Extending
  <1>10. HandlerInTime(s)'
         BY <1>1, <1>2 DEF SessionOK, HandlerInTime, Good, Admitted
  <1>11. WatchInTime(s)'
    <2>1. Unheld(s) => Unheld(s)'
          BY <1>1, <1>3 DEF Unheld
    <2>2. QED
          BY <1>1, <1>2, <2>1 DEF SessionOK, WatchInTime, Good
  <1>12. SessionOK(s)'
         BY <1>6, <1>7, <1>9, <1>10, <1>11 DEF SessionOK
  <1>13. QED
         BY <1>2, <1>4, <1>12, OneSession

-----------------------------------------------------------------------------
\* onConnection after the close

\* A record of s is replaced by another one, or dropped.
LEMMA WatchFrame ==
  ASSUME NEW s, NEW w \in watch, w.session = s,
         \A v \in watch' : v.session = s \/ v \in watch,
         watch \ {w} \subseteq watch',
         UNCHANGED <<now, ctx, open, current, handler, extending, started, orphan>>,
         \A t \in Sessions \ {s} : /\ ends'[t] = ends[t] /\ cache'[t] = cache[t]
                                   /\ KeepsLock(t)
  PROVE  \A t \in Sessions \ {s} : Shrinks(t) /\ KeepsLock(t) /\ Stays(t)
  <1>1. TAKE t \in Sessions \ {s}
  <1>2. Shrinks(t)
        BY DEF Shrinks
  <1>3. Stays(t)
        BY DEF Stays
  <1>4. QED
        BY <1>2, <1>3

\* What Replace does.
LEMMA Replaced ==
  ASSUME TypeInv, NEW w \in watch, NEW pc, NEW t, Replace(w, pc, t)
  PROVE  \E v : /\ watch' = (watch \ {w}) \cup {v}
                /\ v.session = w.session /\ v.lastActivity = w.lastActivity
                /\ v.pc = pc /\ v.since = t
  <1>1. PICK v : v = [w EXCEPT !.pc = pc, !.since = t]
        OBVIOUS
  <1>2. /\ v.session = w.session /\ v.lastActivity = w.lastActivity
        /\ v.pc = pc /\ v.since = t
        BY <1>1 DEF TypeInv, TypeOK, Watch
  <1>3. QED
        BY <1>1, <1>2 DEF Replace

\* cache.set: the session is cached, and its close timer started.
LEMMA StoreCover ==
  ASSUME CoverInv, HolderInv', OneTask', NEW w \in watch, StoreSession(w)
  PROVE  CoverInv'
  <1>0. PICK s : s = w.session
        OBVIOUS
  <1>1. /\ w.pc = "store"
        /\ cache' = [cache EXCEPT ![s] = CacheExpiry(w)]
        /\ Replace(w, "wait", now + Left(w) + TimerGrace)
        /\ UNCHANGED <<now, lock, ctx, open, current, handler, extending, started, ends, orphan>>
        BY <1>0 DEF StoreSession
  <1>2. /\ HolderInv /\ TypeInv /\ TypeInv' /\ ClockOK' /\ s \in Sessions /\ SessionOK(s)
        /\ Sole(s) /\ ~Unheld(s)
        BY <1>0, <1>1, Numbers DEF CoverInv, HolderInv, ClockOK, Unheld
  <1>3. PICK v : /\ watch' = (watch \ {w}) \cup {v}
                 /\ v.session = s /\ v.lastActivity = w.lastActivity
                 /\ v.pc = "wait" /\ v.since = now + Left(w) + TimerGrace
        BY <1>0, <1>1, <1>2, Replaced
  <1>4. /\ now <= w.since + ProcTime /\ w.since <= now
        /\ w.since < w.lastActivity + Timeout
        /\ w.lastActivity = ctx[s].lastActivity /\ w.lastActivity # 0
        /\ now \in Nat /\ w.since \in Nat /\ w.lastActivity \in Nat
        BY <1>0, <1>1, <1>2, Numbers DEF SessionOK, PlacesOK, WatchOK
  <1>5. /\ cache'[s] = ctx[s].lastActivity + Timeout + CacheGrace + SkewTolerance
        /\ cache'[s] # 0
        /\ \A t \in Sessions \ {s} : cache'[t] = cache[t]
        BY <1>1, <1>2, <1>4, Slack DEF CacheExpiry, Left, TypeInv, TypeOK
  <1>6. /\ now <= v.since + ProcTime
        /\ v.since <= v.lastActivity + Timeout + TimerGrace + ProcTime
        BY <1>3, <1>4, Slack DEF Left
  <1>7. \A t \in Sessions \ {s} : Shrinks(t) /\ KeepsLock(t) /\ Stays(t)
        BY <1>0, <1>1, <1>3, <1>5, WatchFrame DEF KeepsLock
  <1>8. Admitted(s)
        BY <1>0, <1>2 DEF SessionOK, PlacesOK, ContextOK
  <1>9. PlacesOK(s)'
    <2>1. ContextOK(s)' /\ CacheOK(s)' /\ SocketOK(s)' /\ HandlerOK(s)' /\ ExtensionOK(s)'
          BY <1>1, <1>2, <1>4, <1>5, <1>8
          DEF SessionOK, PlacesOK, ContextOK, CacheOK, SocketOK, HandlerOK, ExtensionOK, Admitted
    <2>2. WatchOK(s)'
          BY <1>1, <1>2, <1>3, <1>6 DEF SessionOK, PlacesOK, WatchOK, Ending
    <2>3. EndedOnce(s)'
          BY <1>1, <1>2, <1>3 DEF SessionOK, PlacesOK, EndedOnce, Ending
    <2>4. QED
          BY <2>1, <2>2, <2>3 DEF PlacesOK
  <1>10. AccountedFor(s)'
         BY <1>1, <1>3, <1>4, <1>5 DEF AccountedFor, Waiting
  <1>11. Live(s)' => Live(s)
    <2>1. ends[s] = 0 /\ Live(s)' => Live(s)
          BY <1>0, <1>1, <1>8 DEF Live, InProgress, InWatch
    <2>2. ends[s] = 1 /\ Live(s)' => Live(s)
          BY <1>1, <1>3, <1>8 DEF Live, InProgress, InHandler, InWatch
    <2>3. QED
          BY <1>1, <2>1, <2>2 DEF Live, InProgress
  <1>12. Locked(s)'
         BY <1>1, <1>2, <1>11 DEF SessionOK, Locked, Extending
  <1>13. HandlerInTime(s)'
         BY <1>1, <1>2 DEF SessionOK, HandlerInTime, Good, Admitted
  <1>14. WatchInTime(s)'
         BY <1>1, <1>2, <1>3 DEF SessionOK, WatchInTime, Good
  <1>15. SessionOK(s)'
         BY <1>9, <1>10, <1>12, <1>13, <1>14 DEF SessionOK
  <1>16. QED
         BY <1>2, <1>7, <1>15, OneSession

\* The timer: the session is ended when it was not resumed meanwhile.
LEMMA CheckCover ==
  ASSUME CoverInv, HolderInv', OneTask', NEW w \in watch, CheckSession(w)
  PROVE  CoverInv'
  <1>0. PICK s : s = w.session
        OBVIOUS
  <1>1. /\ w.pc = "wait"
        /\ UNCHANGED <<now, lock, cache, ctx, open, current, handler, extending, started,
                       orphan>>
        BY DEF CheckSession
  <1>2. /\ HolderInv /\ TypeInv /\ s \in Sessions /\ SessionOK(s) /\ Sole(s) /\ ClockOK'
        BY <1>0, <1>1, Numbers DEF CoverInv, HolderInv, ClockOK
  <1>3. Admitted(s)
        BY <1>0, <1>2 DEF SessionOK, PlacesOK, ContextOK
  <1>4. CASE /\ cache[s] # 0
             /\ Replace(w, "end", now)
             /\ ends' = [ends EXCEPT ![s] = @ + 1]
    <2>1. PICK v : /\ watch' = (watch \ {w}) \cup {v}
                   /\ v.session = s /\ v.pc = "end" /\ v.since = now
          BY <1>0, <1>2, <1>4, Replaced
    <2>2. /\ ends[s] \in Nat /\ ends'[s] = ends[s] + 1 /\ ends'[s] # 0
          /\ \A t \in Sessions \ {s} : ends'[t] = ends[t]
      <3>1. ends[s] \in Nat /\ ends'[s] = ends[s] + 1
            BY <1>2, <1>4, Numbers DEF TypeInv, TypeOK
      <3>2. \A t \in Sessions \ {s} : ends'[t] = ends[t]
            BY <1>2, <1>4 DEF TypeInv, TypeOK
      <3>3. QED
            BY <3>1, <3>2
    <2>3. \A t \in Sessions \ {s} : Shrinks(t) /\ KeepsLock(t) /\ Stays(t)
          BY <1>0, <1>1, <2>1, <2>2, WatchFrame DEF KeepsLock
    <2>4. ASSUME ends'[s] = 1
          PROVE  /\ ends[s] = 0
                 /\ \A x \in watch : x.session = s => ~Ending(x)
                 /\ \A c \in Conns :
                       handler[c].session = s => handler[c].pc \notin {"end", "release"}
          BY <1>2, <2>2, <2>4 DEF SessionOK, PlacesOK, WatchOK, HandlerOK
    <2>5. PlacesOK(s)'
      <3>1. /\ ContextOK(s)' /\ CacheOK(s)' /\ SocketOK(s)' /\ HandlerOK(s)' /\ ExtensionOK(s)'
            BY <1>1, <1>2, <1>3, <2>2
            DEF SessionOK, PlacesOK, ContextOK, CacheOK, SocketOK, HandlerOK, ExtensionOK,
                Admitted
      <3>2. WatchOK(s)'
            BY <1>1, <1>2, <2>1, <2>2, Numbers, Slack DEF SessionOK, PlacesOK, WatchOK, Ending
      <3>3. EndedOnce(s)'
            BY <1>1, <2>1, <2>4 DEF EndedOnce, Ending
      <3>4. QED
            BY <3>1, <3>2, <3>3 DEF PlacesOK
    <2>6. s \notin orphan /\ ends'[s] = 1 => Live(s) /\ Good(s, now + 3 * ProcTime)
          BY <1>2, <1>4, <2>4, GoodInCache, GoodSooner, Numbers, Slack
    <2>7. AccountedFor(s)'
          BY <2>2 DEF AccountedFor
    <2>8. Live(s)' => Live(s)
          BY <1>1, <2>2, <2>6 DEF Live, InProgress
    <2>9. Locked(s)'
          BY <1>1, <1>2, <2>8 DEF SessionOK, Locked, Extending
    <2>10. HandlerInTime(s)'
           BY <1>1, <2>2, <2>4 DEF HandlerInTime
    <2>11. WatchInTime(s)'
      <3>1. s \notin orphan /\ ends'[s] = 1 =>
                Good(s, now + 2 * ProcTime) /\ Good(s, now + 3 * ProcTime)
            BY <1>2, <2>6, GoodSooner, Numbers, Slack
      <3>2. QED
            BY <1>1, <2>1, <2>4, <3>1 DEF WatchInTime, Good, Ending
    <2>12. SessionOK(s)'
           BY <2>5, <2>7, <2>9, <2>10, <2>11 DEF SessionOK
    <2>13. QED
           BY <1>2, <2>3, <2>12, OneSession
  <1>5. CASE /\ cache[s] = 0 \/ ctx[s].lastActivity # w.lastActivity
             /\ watch' = watch \ {w}
             /\ UNCHANGED ends
    <2>1. \A t \in Sessions \ {s} : Shrinks(t) /\ KeepsLock(t) /\ Stays(t)
          BY <1>0, <1>1, <1>5, WatchFrame DEF KeepsLock
    <2>2. PlacesOK(s)'
      <3>1. Shrinks(s)
            BY <1>1, <1>5 DEF Shrinks
      <3>2. KeepsLock(s)
            BY <1>1 DEF KeepsLock
      <3>3. QED
            BY <1>2, <3>1, <3>2, ShrinksOK, KeepsExtensions DEF SessionOK, PlacesOK
    <2>3. /\ OnSocket(s)' <=> OnSocket(s)
          /\ \A pcs : InHandler(s, pcs)' <=> InHandler(s, pcs)
          /\ Waiting(s)' <=> Waiting(s)
      <3>1. Waiting(s)' <=> Waiting(s)
            BY <1>0, <1>1, <1>5 DEF Waiting
      <3>2. OnSocket(s)' <=> OnSocket(s)
            BY <1>1 DEF OnSocket
      <3>3. \A pcs : InHandler(s, pcs)' <=> InHandler(s, pcs)
            BY <1>1 DEF InHandler
      <3>4. QED
            BY <3>1, <3>2, <3>3
    <2>4. \A pcs : "wait" \notin pcs => (InWatch(s, pcs)' <=> InWatch(s, pcs))
          BY <1>1, <1>5 DEF InWatch
    <2>5. AccountedFor(s)'
          BY <1>1, <1>2, <1>5, <2>3, <2>4 DEF SessionOK, AccountedFor, Admitted
    <2>6. Live(s)' => Live(s)
          BY <1>1, <1>5, <2>3, <2>4 DEF Live, InProgress, Admitted, Expired
    <2>7. Locked(s)'
          BY <1>1, <1>2, <2>6 DEF SessionOK, Locked, Extending
    <2>8. HandlerInTime(s)'
          BY <1>1, <1>2, <1>5 DEF SessionOK, HandlerInTime, Good, Admitted
    <2>9. WatchInTime(s)'
      <3>1. Unheld(s)' <=> Unheld(s)
            BY <1>1, <1>5 DEF Unheld
      <3>2. QED
            BY <1>1, <1>2, <1>5, <3>1 DEF SessionOK, WatchInTime, Good
    <2>10. SessionOK(s)'
           BY <2>2, <2>5, <2>7, <2>8, <2>9 DEF SessionOK
    <2>11. QED
           BY <1>2, <2>1, <2>10, OneSession
  <1>6. QED
        BY <1>0, <1>4, <1>5 DEF CheckSession

\* endSession of onConnection: its saves,
LEMMA SaveInWatchCover ==
  ASSUME CoverInv, HolderInv', OneTask', NEW w \in watch, SaveInWatch(w)
  PROVE  CoverInv'
  <1>0. PICK s : s = w.session
        OBVIOUS
  <1>1. /\ w.pc = "end" /\ Replace(w, "release", now)
        /\ UNCHANGED <<now, lock, cache, ctx, open, current, handler, extending, started,
                       ends, orphan>>
        BY DEF SaveInWatch
  <1>2. /\ HolderInv /\ TypeInv /\ s \in Sessions /\ SessionOK(s) /\ ClockOK'
        BY <1>0, <1>1, Numbers DEF CoverInv, HolderInv, ClockOK
  <1>3. PICK v : /\ watch' = (watch \ {w}) \cup {v}
                 /\ v.session = s /\ v.pc = "release" /\ v.since = now
        BY <1>0, <1>1, <1>2, Replaced
  <1>4. Ending(w) /\ ends[s] # 0 /\ Admitted(s)
        BY <1>0, <1>1, <1>2 DEF SessionOK, PlacesOK, WatchOK, ContextOK, Ending
  <1>5. \A t \in Sessions \ {s} : Shrinks(t) /\ KeepsLock(t) /\ Stays(t)
        BY <1>0, <1>1, <1>3, WatchFrame DEF KeepsLock
  <1>6. PlacesOK(s)'
    <2>1. /\ ContextOK(s)' /\ CacheOK(s)' /\ SocketOK(s)' /\ HandlerOK(s)' /\ ExtensionOK(s)'
          BY <1>1, <1>2, <1>4
          DEF SessionOK, PlacesOK, ContextOK, CacheOK, SocketOK, HandlerOK, ExtensionOK,
              Admitted
    <2>2. WatchOK(s)'
          BY <1>1, <1>2, <1>3, <1>4, Numbers, Slack DEF SessionOK, PlacesOK, WatchOK, Ending
    <2>3. EndedOnce(s)'
      <3>1. ASSUME ends[s] = 1
            PROVE  /\ \A x \in watch : x.session = s /\ Ending(x) => x = w
                   /\ \A c \in Conns :
                         handler[c].session = s => handler[c].pc \notin {"end", "release"}
            BY <1>0, <1>2, <1>4, <3>1 DEF SessionOK, PlacesOK, EndedOnce
      <3>2. QED
            BY <1>1, <1>3, <3>1 DEF EndedOnce, Ending
    <2>4. QED
          BY <2>1, <2>2, <2>3 DEF PlacesOK
  <1>7. AccountedFor(s)'
        BY <1>1, <1>4 DEF AccountedFor
  <1>8. Live(s)' => Live(s)
    <2>1. ends[s] = 1 /\ s \notin orphan => Live(s)
          BY <1>0, <1>4 DEF Live, InProgress, InWatch, Ending
    <2>2. QED
          BY <1>1, <1>4, <2>1 DEF Live, InProgress
  <1>9. Locked(s)'
        BY <1>1, <1>2, <1>8 DEF SessionOK, Locked, Extending
  <1>10. HandlerInTime(s)'
         BY <1>1, <1>2 DEF SessionOK, HandlerInTime, Good, Admitted
  <1>11. WatchInTime(s)'
    <2>1. s \notin orphan /\ ends[s] = 1 =>
              /\ Good(s, now + ProcTime)
              /\ ~Unheld(s) => Good(s, now + 2 * ProcTime)
          BY <1>0, <1>1, <1>2, <1>4, GoodInWatch
    <2>2. Unheld(s)' <=> Unheld(s)
          BY <1>1, <1>3 DEF Unheld
    <2>3. QED
          BY <1>1, <1>2, <1>3, <2>1, <2>2 DEF SessionOK, WatchInTime, Good
  <1>12. SessionOK(s)'
         BY <1>6, <1>7, <1>9, <1>10, <1>11 DEF SessionOK
  <1>13. QED
         BY <1>2, <1>5, <1>12, OneSession

\* and the release.
LEMMA ReleaseInWatchCover ==
  ASSUME CoverInv, HolderInv', OneTask', NEW w \in watch, ReleaseInWatch(w)
  PROVE  CoverInv'
  <1>0. PICK s : s = w.session
        OBVIOUS
  <1>1. /\ w.pc = "release" /\ watch' = watch \ {w}
        /\ (lock.owner = s /\ lock' = NoLock) \/ (lock.owner # s /\ lock' = lock)
        /\ UNCHANGED <<now, cache, ctx, open, current, handler, extending, started, ends,
                       orphan>>
        BY <1>0 DEF ReleaseInWatch, Release
  <1>2. /\ HolderInv /\ TypeInv /\ s \in Sessions /\ SessionOK(s)
        BY <1>0, <1>1, Numbers DEF CoverInv, HolderInv
  <1>3. ClockOK'
        BY <1>1, <1>2, Numbers, Slack DEF CoverInv, ClockOK, NoLock
  <1>4. Ending(w) /\ ends[s] # 0
        BY <1>0, <1>1, <1>2 DEF SessionOK, PlacesOK, WatchOK, Ending
  <1>5. \A t \in Sessions \ {s} : Shrinks(t) /\ KeepsLock(t) /\ Stays(t)
    <2>1. \A t \in Sessions \ {s} : KeepsLock(t)
          BY <1>1, <1>2, HolderTypes DEF KeepsLock, NoLock
    <2>2. QED
          BY <1>0, <1>1, <2>1, WatchFrame
  <1>6. PlacesOK(s)'
    <2>1. Shrinks(s)
          BY <1>1 DEF Shrinks
    <2>2. ExtensionOK(s)'
          BY <1>1, <1>2, HolderTypes DEF SessionOK, PlacesOK, ExtensionOK, NoLock
    <2>3. QED
          BY <1>2, <2>1, <2>2, ShrinksOK DEF SessionOK
  <1>7. ends[s] = 1 =>
            /\ \A x \in watch : x.session = s /\ Ending(x) => x = w
            /\ \A c \in Conns :
                  handler[c].session = s => handler[c].pc \notin {"end", "release"}
        BY <1>0, <1>2, <1>4 DEF SessionOK, PlacesOK, EndedOnce
  <1>8. ~Live(s)'
        BY <1>1, <1>4, <1>7 DEF Live, InProgress, InHandler, InWatch, Ending
  <1>9. SessionOK(s)'
        BY <1>1, <1>4, <1>6, <1>8, NotLive DEF SessionOK, AccountedFor, Locked
  <1>10. QED
         BY <1>2, <1>3, <1>5, <1>9, OneSession

\* A call of onConnection rejects.
LEMMA WatchThrowsCover ==
  ASSUME CoverInv, HolderInv', OneTask', NEW w \in watch, WatchThrows(w)
  PROVE  CoverInv'
  <1>1. /\ watch' = watch \ {w} /\ orphan' = orphan \cup {w.session}
        /\ UNCHANGED <<now, lock, cache, ctx, open, current, handler, extending, started, ends>>
        BY DEF WatchThrows
  <1>2. ASSUME NEW t \in Sessions
        PROVE  Shrinks(t) /\ KeepsLock(t) /\ Stays(t)
    <2>1. Shrinks(t) /\ KeepsLock(t)
          BY <1>1 DEF Shrinks, KeepsLock
    <2>2. Stays(t)
          BY <1>1 DEF Stays
    <2>3. QED
          BY <2>1, <2>2
  <1>3. ClockOK'
        BY <1>1 DEF CoverInv, ClockOK
  <1>4. QED
        BY <1>2, <1>3, NoSessions

-----------------------------------------------------------------------------
\* Crashes and time

\* What a session loses with its worker makes it an orphan.
LEMMA CrashCover ==
  ASSUME CoverInv, HolderInv', OneTask', NEW k \in Workers, Crash(k)
  PROVE  CoverInv'
  <1>1. /\ orphan' = orphan \cup (HeldBy(k) \ {NoSession})
        /\ open' = [c \in Conns |-> open[c] /\ WorkerOf[c] # k]
        /\ current' = [c \in Conns |-> IF WorkerOf[c] = k THEN NoSession ELSE current[c]]
        /\ handler' = [c \in Conns |-> IF WorkerOf[c] = k THEN Idle ELSE handler[c]]
        /\ extending' = {e \in extending : e.worker # k}
        /\ watch' = {w \in watch : w.worker # k}
        /\ UNCHANGED <<now, lock, cache, ctx, started, ends>>
        BY DEF Crash
  <1>2. TypeInv /\ NoSession \notin Sessions
        BY HolderTypes DEF CoverInv
  <1>3. ASSUME NEW t \in Sessions
        PROVE  Shrinks(t) /\ KeepsLock(t) /\ Stays(t)
    <2>1. Shrinks(t)
      <3>1. \A c \in Conns : current'[c] = t => current[c] = t /\ open'[c] = open[c]
            BY <1>1, <1>2 DEF TypeInv, TypeOK
      <3>2. \A c \in Conns : handler'[c].session = t => handler'[c] = handler[c]
            BY <1>1, <1>2 DEF Idle
      <3>3. QED
            BY <1>1, <3>1, <3>2 DEF Shrinks
    <2>2. KeepsLock(t)
          BY <1>1 DEF KeepsLock
    <2>3. ASSUME t \notin orphan'
          PROVE  /\ \A c \in Conns : WorkerOf[c] = k => current[c] # t /\ handler[c].session # t
                 /\ \A w \in watch : w.worker = k => w.session # t
                 /\ \A e \in extending : e.worker = k => e.session # t
      <3>1. t \notin HeldBy(k)
            BY <1>1, <1>2, <2>3
      <3>2. QED
            BY <3>1 DEF HeldBy
    <2>4. Stays(t)
          BY <1>1, <2>3 DEF Stays
    <2>5. QED
          BY <2>1, <2>2, <2>4
  <1>4. ClockOK'
        BY <1>1 DEF CoverInv, ClockOK
  <1>5. QED
        BY <1>3, <1>4, NoSessions

\* Time passes: every phase is still within its bound, and no socket is idle too long.
LEMMA TickCover ==
  ASSUME CoverInv, HolderInv', OneTask', Tick
  PROVE  CoverInv'
  <1>1. /\ now' = now + 1
        /\ \A c \in Conns : At(c, "idle") \/ now < handler[c].since + ProcTime
        /\ \A e \in extending : now < e.since + ProcTime
        /\ \A w \in watch : now < w.since + ProcTime
        /\ \A c \in Conns : current[c] # NoSession /\ ctx[current[c]].auth = 2 =>
              now < ctx[current[c]].lastActivity + Timeout + RequestTimeout
        /\ UNCHANGED <<lock, cache, ctx, open, current, handler, extending, watch, started,
                       ends, orphan>>
        BY DEF Tick
  <1>2. /\ HolderInv /\ TypeInv /\ NoSession \notin Sessions
        /\ now \in Nat /\ now' \in Nat /\ now <= now'
        BY <1>1, HolderTypes, Numbers DEF CoverInv
  <1>3. ClockOK'
        BY <1>1, <1>2, Numbers, Slack DEF CoverInv, ClockOK
  <1>4. ASSUME NEW s \in Sessions
        PROVE  SessionOK(s)'
    <2>1. SessionOK(s)
          BY DEF CoverInv
    <2>2. ContextOK(s)' /\ CacheOK(s)' /\ EndedOnce(s)'
      <3>1. ContextOK(s)'
            BY <1>1, <1>2, <2>1, Numbers, Slack DEF SessionOK, PlacesOK, ContextOK, Admitted
      <3>2. CacheOK(s)' /\ EndedOnce(s)'
            BY <1>1, <2>1 DEF SessionOK, PlacesOK, CacheOK, EndedOnce, Ending
      <3>3. QED
            BY <3>1, <3>2
    <2>3. SocketOK(s)'
      <3>1. \A c \in Conns : current[c] = s /\ ctx[s].auth = 2 =>
                now' <= ctx[s].lastActivity + Timeout + RequestTimeout
            BY <1>1, <1>2, Numbers, Slack
      <3>2. QED
            BY <1>1, <2>1, <3>1 DEF SessionOK, PlacesOK, SocketOK, Admitted
    <2>4. HandlerOK(s)'
      <3>1. \A c \in Conns : ~At(c, "idle") => now' <= handler[c].since + ProcTime
            BY <1>1, <1>2, Numbers, Slack
      <3>2. \A c \in Conns : handler[c].since <= now => handler[c].since <= now'
            BY <1>1, <1>2, Numbers
      <3>3. QED
            BY <1>1, <2>1, <3>1, <3>2 DEF SessionOK, PlacesOK, HandlerOK, Admitted, At
    <2>5. WatchOK(s)'
      <3>1. \A w \in watch : /\ now' <= w.since + ProcTime
                             /\ w.since <= now => w.since <= now'
            BY <1>1, <1>2, Numbers, Slack
      <3>2. QED
            BY <1>1, <2>1, <3>1 DEF SessionOK, PlacesOK, WatchOK, Ending
    <2>6. ExtensionOK(s)'
      <3>1. \A e \in extending : /\ now' <= e.since + ProcTime
                                 /\ e.since <= now => e.since <= now'
            BY <1>1, <1>2, Numbers, Slack
      <3>2. QED
            BY <1>1, <2>1, <3>1 DEF SessionOK, PlacesOK, ExtensionOK
    <2>7. AccountedFor(s)'
          BY <1>1, <2>1
          DEF SessionOK, AccountedFor, Admitted, OnSocket, InHandler, InWatch, Waiting
    <2>8. Live(s)' => Live(s)
      <3>1. Expired(s) => Expired(s)'
            BY <1>1, <1>2, Numbers, Slack DEF Expired
      <3>2. QED
            BY <1>1, <3>1
            DEF Live, InProgress, Admitted, OnSocket, InHandler, InWatch, Waiting
    <2>9. Locked(s)'
          BY <1>1, <2>1, <2>8 DEF SessionOK, Locked, Extending
    <2>10. HandlerInTime(s)'
           BY <1>1, <2>1 DEF SessionOK, HandlerInTime, Good, Admitted
    <2>11. WatchInTime(s)'
      <3>1. Unheld(s)' <=> Unheld(s)
            BY <1>1 DEF Unheld
      <3>2. QED
            BY <1>1, <2>1, <3>1 DEF SessionOK, WatchInTime, Good
    <2>12. QED
           BY <2>2, <2>3, <2>4, <2>5, <2>6, <2>7, <2>9, <2>10, <2>11 DEF SessionOK, PlacesOK
  <1>5. QED
        BY <1>3, <1>4 DEF CoverInv

-----------------------------------------------------------------------------
\* The invariant holds

LEMMA CoverInit == Init => CoverInv
  <1> SUFFICES ASSUME Init PROVE CoverInv
      OBVIOUS
  <1>1. HolderInv
        BY HolderInit
  <1>2. ClockOK /\ OneTask
        BY Slack DEF Init, ClockOK, OneTask, NoLock, Idle, At
  <1>3. ASSUME NEW s \in Sessions
        PROVE  SessionOK(s)
    <2>1. /\ now = 1 /\ cache[s] = 0 /\ ctx[s] = FreshContext /\ ends[s] = 0
          /\ extending = {} /\ watch = {}
          /\ \A c \in Conns : handler[c] = Idle /\ current[c] # s /\ handler[c].session # s
          BY <1>3, ConstantsAssumption DEF Init, Idle
    <2>2. ~Admitted(s) /\ ~Live(s) /\ ctx[s].auth # 2 /\ ctx[s].lastActivity = 0
          /\ ctx[s].extendLock = 0
          BY <2>1 DEF Admitted, Live, InProgress, FreshContext
    <2>3. PlacesOK(s)
          BY <2>1, <2>2, Slack
          DEF PlacesOK, ContextOK, CacheOK, SocketOK, HandlerOK, WatchOK, ExtensionOK, EndedOnce
    <2>4. AccountedFor(s) /\ Locked(s) /\ HandlerInTime(s) /\ WatchInTime(s)
          BY <2>1, <2>2 DEF AccountedFor, Locked, HandlerInTime, WatchInTime
    <2>5. QED
          BY <2>3, <2>4 DEF SessionOK
  <1>4. QED
        BY <1>1, <1>2, <1>3 DEF CoverInv

LEMMA CoverStep == CoverInv /\ [Next]_vars => CoverInv'
  <1> SUFFICES ASSUME CoverInv, [Next]_vars PROVE CoverInv'
      OBVIOUS
  <1>0. HolderInv' /\ OneTask'
        BY HolderStep, OneTaskStep DEF CoverInv, HolderInv
  <1>1. CASE UNCHANGED vars
    <2>1. ASSUME NEW t \in Sessions
          PROVE  Shrinks(t) /\ KeepsLock(t) /\ Stays(t)
          BY <1>1 DEF vars, Shrinks, KeepsLock, Stays
    <2>2. ClockOK'
          BY <1>1 DEF vars, CoverInv, ClockOK
    <2>3. QED
          BY <1>0, <2>1, <2>2, NoSessions
  <1>2. ASSUME NEW c \in Conns, Disconnect(c) PROVE CoverInv'
        BY <1>0, <1>2, DisconnectCover
  <1>3. ASSUME NEW c \in Conns, NEW r \in Requests, NEW cookie \in BOOLEAN,
               ReceiveInSession(c, r, cookie)
        PROVE CoverInv'
        BY <1>0, <1>3, ReceiveCover
  <1>4. ASSUME NEW c \in Conns, NEW r \in Requests, NEW s \in Sessions, Resume(c, r, s)
        PROVE CoverInv'
        BY <1>0, <1>4, ResumeCover
  <1>5. ASSUME NEW c \in Conns, NEW s \in Sessions, ReceiveInform(c, s) PROVE CoverInv'
        BY <1>0, <1>5, InformCover
  <1>6. ASSUME NEW c \in Conns,
               \/ AuthSucceeds(c) \/ AuthFails(c) \/ AcquireLock(c)
               \/ Respond(c) \/ Finish(c) \/ HandlerThrows(c)
        PROVE CoverInv'
        BY <1>0, <1>6, AuthSucceedsCover, AuthFailsCover, AcquireCover, RespondCover,
           FinishCover, ThrowsCover
  <1>7. ASSUME NEW c \in Conns, SaveInHandler(c) \/ ReleaseInHandler(c) PROVE CoverInv'
        BY <1>0, <1>7, SaveInHandlerCover, ReleaseInHandlerCover
  <1>8. ASSUME NEW e \in extending, ExtendLock(e) \/ ExtensionFails(e) PROVE CoverInv'
        BY <1>0, <1>8, ExtendCover, FailsCover
  <1>9. CASE ExpireLock
        BY <1>0, <1>9, ExpireLockCover
  <1>10. ASSUME NEW s \in Sessions, ExpireCache(s) PROVE CoverInv'
         BY <1>0, <1>10, ExpireCacheCover
  <1>11. ASSUME NEW w \in watch,
                \/ StoreSession(w) \/ CheckSession(w)
                \/ SaveInWatch(w) \/ ReleaseInWatch(w) \/ WatchThrows(w)
         PROVE CoverInv'
         BY <1>0, <1>11, StoreCover, CheckCover, SaveInWatchCover, ReleaseInWatchCover,
            WatchThrowsCover
  <1>12. ASSUME NEW k \in Workers, Crash(k) PROVE CoverInv'
         BY <1>0, <1>12, CrashCover
  <1>13. CASE Tick
         BY <1>0, <1>13, TickCover
  <1>14. CASE Horizon
         BY <1>1, <1>14 DEF Horizon
  <1>15. QED
         BY <1>1, <1>2, <1>3, <1>4, <1>5, <1>6, <1>7, <1>8, <1>9, <1>10, <1>11, <1>12,
            <1>13, <1>14 DEF Next

\* An admitted session that endSession was not called for, and that no failure hit, is on
\* an open socket, in a handler, being stored, or in the cache with a close timer that will
\* find it unchanged (currentSessions, cache.set and the timer of onConnection): it cannot
\* be lost between two of them, nor can the database expire it from the cache first.
THEOREM NoneLost == Spec => []Accounted
  <1>1. CoverInv => Accounted
        BY DEF CoverInv, SessionOK, AccountedFor, Accounted
  <1>2. QED
        BY CoverInit, CoverStep, <1>1, PTL DEF Spec

\* As long as a session is in progress the device lock is its own (acquireLock before
\* state 1, the extension in writeResponse, releaseLock at the end of endSession): under
\* TimingAssumption it is neither expired by the database nor given to another session.
THEOREM LockCovers == Spec => []LockCoverage
  <1>1. CoverInv => LockCoverage
        BY DEF CoverInv, SessionOK, Locked, Live, LockCoverage
  <1>2. QED
        BY CoverInit, CoverStep, <1>1, PTL DEF Spec

-----------------------------------------------------------------------------
\* The sessions in progress are the holders of a mutex

\* No step hands the lock from a session to another one.
LEMMA NoHandOver ==
  ASSUME Next
  PROVE  lock' = lock \/ lock' = NoLock \/ lock.owner \in {NoSession, lock'.owner}
  <1> DEFINE Kept == lock' = lock \/ lock' = NoLock \/ lock.owner \in {NoSession, lock'.owner}
  <1>1. ASSUME NEW s, NEW called, Grantable(s), Grant(s, called) PROVE Kept
        BY <1>1 DEF Grantable, Grant
  <1>2. ASSUME NEW s, NEW k, Release(s, k) PROVE Kept
        BY <1>2 DEF Release
  <1>3. ASSUME NEW c \in Conns,
               \/ AcquireLock(c) \/ HandlerThrows(c) \/ ReleaseInHandler(c)
        PROVE  Kept
        BY <1>1, <1>2, <1>3 DEF AcquireLock, HandlerThrows, ReleaseInHandler
  <1>4. ASSUME NEW c \in Conns,
               \/ Disconnect(c) \/ AuthSucceeds(c) \/ AuthFails(c) \/ Respond(c) \/ Finish(c)
               \/ SaveInHandler(c)
               \/ \E r \in Requests, cookie \in BOOLEAN : ReceiveInSession(c, r, cookie)
               \/ \E r \in Requests, s \in Sessions : Resume(c, r, s)
               \/ \E s \in Sessions : ReceiveInform(c, s)
        PROVE  Kept
        BY <1>4 DEF Disconnect, ReceiveInSession, Resume, ReceiveInform, AuthSucceeds,
                    AuthFails, Respond, Finish, SaveInHandler
  <1>5. ASSUME NEW e \in extending, ExtendLock(e) \/ ExtensionFails(e) PROVE Kept
        BY <1>1, <1>5 DEF ExtendLock, ExtensionFails
  <1>6. ASSUME NEW w \in watch,
               \/ StoreSession(w) \/ CheckSession(w)
               \/ SaveInWatch(w) \/ ReleaseInWatch(w) \/ WatchThrows(w)
        PROVE  Kept
        BY <1>2, <1>6 DEF StoreSession, CheckSession, SaveInWatch, ReleaseInWatch, WatchThrows
  <1>7. CASE \/ ExpireLock \/ Tick \/ Horizon
             \/ \E s \in Sessions : ExpireCache(s)
             \/ \E k \in Workers : Crash(k)
        BY <1>7 DEF ExpireLock, Tick, Horizon, vars, ExpireCache, Crash
  <1>8. QED
        BY <1>3, <1>4, <1>5, <1>6, <1>7 DEF Next

\* A step of the sessions is a step of the mutex, or none.
LEMMA MutexStep ==
  ASSUME LockCoverage, LockCoverage', NoSession \notin Sessions,
         \/ lock' = lock \/ lock' = NoLock
         \/ lock.owner \in {NoSession, lock'.owner}
  PROVE  [Mutex!Next]_({s \in Sessions : InProgress(s)})
  <1> DEFINE H == {s \in Sessions : InProgress(s)}
  <1>1. /\ \A s \in H : s \in Sessions /\ s = lock.owner
        /\ \A s \in H' : s \in Sessions /\ s = lock'.owner
        BY DEF LockCoverage
  <1>2. CASE H = {} /\ H' # {}
    <2>1. PICK s \in H' : s \in Sessions
          BY <1>1, <1>2
    <2>2. H' = {s}
          BY <1>1, <2>1
    <2>3. Mutex!Begin(s)
          BY <1>2, <2>2 DEF Mutex!Begin
    <2>4. QED
          BY <2>1, <2>3 DEF Mutex!Next
  <1>3. CASE H # {} /\ H' = {}
    <2>1. PICK s \in H : s \in Sessions
          BY <1>1, <1>3
    <2>2. H = {s}
          BY <1>1, <2>1
    <2>3. Mutex!Leave(s)
          BY <1>3, <2>2 DEF Mutex!Leave
    <2>4. QED
          BY <2>1, <2>3 DEF Mutex!Next
  <1>4. CASE H # {} /\ H' # {}
    <2>1. PICK s \in H : TRUE
          BY <1>4
    <2>2. PICK t \in H' : TRUE
          BY <1>4
    <2>3. s = t
          BY <1>1, <2>1, <2>2 DEF NoLock
    <2>4. H = {s} /\ H' = {s}
          BY <1>1, <2>1, <2>2, <2>3
    <2>5. QED
          BY <2>4
  <1>5. QED
        BY <1>2, <1>3, <1>4

\* Sessions of the device are in progress one after the other: every step of the detailed
\* specification begins one when none is, ends the only one, or is no step of DeviceMutex.
THEOREM LockRefines == Spec => ImplementsMutex
  <1>1. Init => Mutex!Init
    <2>1. Init => \A s \in Sessions : ~InProgress(s)
          BY DEF Init, InProgress, Admitted, FreshContext
    <2>2. QED
          BY <2>1 DEF Mutex!Init
  <1>2. CoverInv => LockCoverage
        BY DEF CoverInv, SessionOK, Locked, Live, LockCoverage
  <1>3. ASSUME CoverInv, CoverInv', [Next]_vars
        PROVE  [Mutex!Next]_({s \in Sessions : InProgress(s)})
    <2>1. LockCoverage /\ LockCoverage'
          BY <1>2, <1>3 DEF CoverInv, SessionOK, Locked, Live, LockCoverage
    <2>2. \/ lock' = lock \/ lock' = NoLock
          \/ lock.owner \in {NoSession, lock'.owner}
          BY <1>3, NoHandOver DEF vars
    <2>3. QED
          BY <2>1, <2>2, MutexStep, ConstantsAssumption
  <1>4. QED
        BY CoverInit, CoverStep, <1>1, <1>3, PTL DEF Spec, ImplementsMutex, Mutex!Spec
=============================================================================
