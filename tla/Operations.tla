----------------------------- MODULE Operations -----------------------------
(***************************************************************************)
(* The downloads of a device: the ACS asks for one in a session, and the   *)
(* device tells in a later session how it went, or never does              *)
(* (lib/session.ts: the Downloads branch of rpcRequest and                 *)
(* generateSetRpcRequest, the DownloadResponse of rpcResponse,             *)
(* transferComplete, timeoutOperations, revertDownloadParameters;          *)
(* lib/cwmp.ts and lib/cwmp/db.ts around them).                            *)
(*                                                                         *)
(* A task downloads the file at the time of its session, a preset once     *)
(* after the time DeclaredAt; both use the same instance of Downloads.     *)
(***************************************************************************)
EXTENDS Naturals, FiniteSets

CONSTANTS
    Task, Preset,       \* the two channels
    DeclaredAt,         \* the time in the preset
    Timeout,            \* cwmp.downloadTimeout
    RetryDelay,         \* cwmp.retryDelay
    Options,            \* the values of cwmp.downloadSuccessOnTimeout
    MaxClock,           \* bound on time
    MaxLost             \* bound on lost sessions

ASSUME OperationsAssumption ==
    /\ Task # Preset
    /\ {DeclaredAt, Timeout, RetryDelay, MaxClock, MaxLost} \subseteq Nat
    /\ DeclaredAt > 0 /\ RetryDelay > 0
    /\ Options \subseteq BOOLEAN

Channels == {Task, Preset}

VARIABLES
    clock,
    db,        \* what the database has of the device
    ctx,       \* what the session has of it, or NoSession
    cpe,       \* the transfers of the device that it has not reported
    successOnTimeout, \* the configuration
    lost,      \* sessions that were lost
    thrown     \* whether the ACS has thrown an exception on a timed out operation

vars == <<clock, db, ctx, cpe, successOnTimeout, lost, thrown>>

NoSession == [on |-> FALSE]

Without(f, S) == [x \in DOMAIN f \ S |-> f[x]]
Over(g, f) == [x \in DOMAIN f \cup DOMAIN g |-> IF x \in DOMAIN g THEN g[x] ELSE f[x]]
With(f, x, v) == Over([y \in {x} |-> v], f)

\* download and last are the parameters Download and LastDownload, operations maps command
\* keys to what has to be known when the transfer is over, faults maps channels to their
\* faults.  sent, done and overlap are history: the downloads that were operations, in their
\* order, the times of those that succeeded, and whether two were under way at once.
Nothing == [download |-> 0, last |-> 0, operations |-> <<>>, faults |-> <<>>, task |-> TRUE,
            sent |-> {}, done |-> {}, overlap |-> FALSE]

Init ==
    /\ clock = 1 /\ lost = 0
    /\ db = Nothing
    /\ ctx = NoSession
    /\ cpe = <<>>
    /\ thrown = FALSE
    /\ successOnTimeout \in Options

\* The time goes on between sessions.
Tick ==
    /\ ~ctx.on /\ clock < MaxClock
    /\ clock' = clock + 1
    /\ UNCHANGED <<db, ctx, cpe, lost, thrown>>

\* A new session reads the device and the operations; the retries are those of the faults.
Inform ==
    /\ ~ctx.on
    /\ ctx' = [on |-> TRUE, empty |-> FALSE, d |-> db,
               retries |-> [c \in DOMAIN db.faults |-> db.faults[c].retries]]
    /\ UNCHANGED <<clock, db, cpe, lost, thrown>>

-----------------------------------------------------------------------------
\* recordFault for one channel: a channel that had a fault has failed once more.
RecordFault(x, c, at) ==
    LET n == IF c \in DOMAIN x.retries THEN x.retries[c] + 1 ELSE 0
    IN  [x EXCEPT !.retries = With(@, c, n),
                  !.d.faults = With(@, c, [at |-> at, retries |-> n])]

Revert(x) == [x EXCEPT !.d.download = x.d.last]

\* An operation that has failed: its retries are those of its session.
\* Mutant: the operation is forgotten with its fault
FailQuietly(x, k) == Revert([x EXCEPT !.d.operations = Without(@, {k})])

Fail(x, k) ==
    LET o == x.d.operations[k]
        y == [x EXCEPT !.d.operations = Without(@, {k}), !.retries = Over(o.retries, @)]
    IN  RecordFault(Revert(y), o.channel, o.at)

Succeed(x, k) ==
    [x EXCEPT !.d.operations = Without(@, {k}), !.d.last = x.d.operations[k].at,
              !.d.done = @ \cup {x.d.operations[k].at}]

\* The device reports a transfer before it asks for requests; of one that is not an
\* operation the session has nothing to learn.
TransferComplete(k) ==
    /\ ctx.on /\ ~ctx.empty
    /\ cpe[k] # "running"
    /\ ctx' = IF k \notin DOMAIN ctx.d.operations THEN ctx
              ELSE IF cpe[k] = "ok" THEN Succeed(ctx, k) ELSE Fail(ctx, k)
    /\ cpe' = Without(cpe, {k})
    /\ UNCHANGED <<clock, db, lost, thrown>>

\* timeoutOperations, with every operation that is due; they are done one by one in an
\* order of their own.
Due == {k \in DOMAIN ctx.d.operations : clock >= ctx.d.operations[k].at + Timeout}

TimeOut ==
    /\ ctx.on /\ ~ctx.empty
    /\ Due # {} /\ ~successOnTimeout
    /\ \E k \in Due : ctx' = Fail(ctx, k)
    /\ UNCHANGED <<clock, db, cpe, lost, thrown>>

\* transferComplete is called with a request that has no faultStruct: reading its code
\* throws, and the session is gone.
TimeOutThrows ==
    /\ ctx.on /\ ~ctx.empty
    /\ Due # {} /\ successOnTimeout
    /\ ctx' = NoSession
    /\ thrown' = TRUE
    /\ UNCHANGED <<clock, db, cpe, lost>>

EmptyPost ==
    /\ ctx.on /\ ~ctx.empty /\ Due = {}
    /\ ctx' = [ctx EXCEPT !.empty = TRUE]
    /\ UNCHANGED <<clock, db, cpe, lost, thrown>>

-----------------------------------------------------------------------------
\* What the session has to bring about: tasks come first, then faults that are to be
\* retried, one at a time, then presets that have no fault.
Retriable == {c \in DOMAIN ctx.d.faults :
                 ctx.d.faults[c].at + RetryDelay * 2 ^ ctx.retries[c] <= clock}

Turn(c) ==
    /\ ctx.on /\ ctx.empty
    /\ IF ctx.d.task /\ Task \notin DOMAIN ctx.d.faults THEN c = Task
       ELSE IF Retriable # {} THEN c \in Retriable
       ELSE c = Preset /\ Preset \notin DOMAIN ctx.d.faults

DeclaredBy(c) == IF c = Task THEN clock ELSE DeclaredAt

Wanted(c) ==
    LET t == DeclaredBy(c) IN t <= clock /\ t > ctx.d.download

\* The channel is done: its fault is over, and so is the task.
Done(x, c) ==
    [x EXCEPT !.d.faults = Without(@, {c}), !.d.task = @ /\ c # Task]

NotWanted(c) ==
    /\ Turn(c) /\ ~Wanted(c)
    /\ c \in DOMAIN ctx.d.faults \/ c = Task
    /\ ctx' = Done(ctx, c)
    /\ UNCHANGED <<clock, db, cpe, lost, thrown>>

Key(c) == <<clock, c>>

Operation(x, c) ==
    [at |-> clock, channel |-> c,
     retries |-> [e \in {c} \cap DOMAIN x.retries |-> x.retries[e]]]
Download(x, c) ==
    [key |-> Key(c), channel |-> c, at |-> clock, nth |-> Cardinality(x.d.sent) + 1]

\* The device may answer that it is done, that it will report, or with a fault.
\* Mutant: the time of the download is only noted when it is over
StartedUnmarked(x, c) ==
    [x EXCEPT
       !.d.operations = With(@, Key(c), Operation(x, c)),
       !.d.sent = @ \cup {Download(x, c)},
       !.d.overlap = @ \/ DOMAIN x.d.operations # {}]

Started(x, c) ==
    [x EXCEPT
       !.d.download = clock,
       !.d.operations = With(@, Key(c), Operation(x, c)),
       !.d.sent = @ \cup {Download(x, c)},
       !.d.overlap = @ \/ DOMAIN x.d.operations # {}]

Downloaded(x) == [x EXCEPT !.d.download = clock, !.d.last = clock, !.d.done = @ \cup {clock}]

DownloadAnswered(c) ==
    /\ Turn(c) /\ Wanted(c)
    /\ Key(c) \notin DOMAIN cpe
    /\ \/ ctx' = Done(Downloaded(ctx), c) /\ UNCHANGED cpe
       \/ ctx' = Done(Started(ctx, c), c) /\ cpe' = With(cpe, Key(c), "running")
       \/ ctx' = RecordFault(ctx, c, clock) /\ UNCHANGED cpe
    /\ UNCHANGED <<clock, db, lost, thrown>>

\* The session ends in the middle, for one with the request of a download on its way.
SessionLost ==
    /\ ctx.on /\ lost < MaxLost
    /\ lost' = lost + 1
    /\ ctx' = NoSession
    /\ \/ UNCHANGED cpe
       \/ \E c \in Channels : /\ Turn(c) /\ Wanted(c) /\ Key(c) \notin DOMAIN cpe
                              /\ cpe' = With(cpe, Key(c), "running")
    /\ UNCHANGED <<clock, db, thrown>>

\* endSession: device, operations, tasks and faults are saved.
EndSession ==
    /\ ctx.on /\ ctx.empty
    /\ \A c \in Channels : Turn(c) => c = Preset /\ ~Wanted(c) /\ c \notin DOMAIN ctx.d.faults
    /\ db' = ctx.d
    /\ ctx' = NoSession
    /\ UNCHANGED <<clock, cpe, lost, thrown>>

\* The device finishes a transfer.
Transferred(k, how) ==
    /\ cpe[k] = "running"
    /\ cpe' = [cpe EXCEPT ![k] = how]
    /\ UNCHANGED <<clock, db, ctx, lost, thrown>>

Next ==
    /\ UNCHANGED successOnTimeout
    /\ \/ Tick \/ Inform \/ TimeOut \/ TimeOutThrows \/ EmptyPost \/ SessionLost \/ EndSession
       \/ \E k \in DOMAIN cpe : TransferComplete(k) \/ Transferred(k, "ok") \/ Transferred(k, "failed")
       \/ \E c \in Channels : NotWanted(c) \/ DownloadAnswered(c)

Spec == Init /\ [][Next]_vars

-----------------------------------------------------------------------------
\* Properties

\* No download is forgotten, whatever the device does or omits to do and whichever sessions
\* are lost: one that was begun is under way, has succeeded, has left a fault to be
\* retried, or another was begun or has succeeded since.
Accounted ==
    \A s \in db.sent :
        \/ s.key \in DOMAIN db.operations
        \/ s.channel \in DOMAIN db.faults
        \/ \E t \in db.done : t >= IF s.channel = Task THEN s.at ELSE DeclaredAt
        \/ \E r \in db.sent : r.nth > s.nth

\* A preset that asks for a download once gets one success: the device is not asked again
\* after that, unless two downloads were under way at a time.
DownloadedOnce ==
    ctx.on /\ Turn(Preset) /\ Wanted(Preset) /\ ~ctx.d.overlap => ctx.d.last < DeclaredAt

\* With cwmp.downloadSuccessOnTimeout, a transfer that is never reported counts as a
\* success (CHANGELOG.md); the session that finds it timed out goes on.  Does not hold: it is
\* lost by an exception (TimeOutThrows).
TimeOutHandled == ~thrown
=============================================================================
