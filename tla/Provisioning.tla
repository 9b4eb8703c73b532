---------------------------- MODULE Provisioning ----------------------------
(***************************************************************************)
(* What the sessions of one device do with tasks, presets and faults:      *)
(* nextRpc, applyPresets, recordFault and endSession of lib/cwmp.ts and    *)
(* the lists of provisions that addProvisions and clearProvisions of       *)
(* lib/session.ts keep.                                                    *)
(*                                                                         *)
(* Work is done for channels.  A task is a channel of its own, a preset    *)
(* names its channel.  A session executes the tasks that have no fault one *)
(* by one, then retries the faults that are due one by one, then applies   *)
(* the presets of all other channels together, and again while they change *)
(* the device.  A channel that fails keeps its provisions in a fault.      *)
(*                                                                         *)
(* The engine (rpcRequest) is a choice: it needs an answer of the device,  *)
(* it fails, or it is done.  The order of provisions is left out.          *)
(***************************************************************************)
EXTENDS Integers, FiniteSets

CONSTANTS
    Tasks,           \* numbered in the order of their creation
    PresetChannels,
    NoChannel,       \* no channel is white-listed
    Items,           \* provisions with their arguments
    Work,            \* Work[c]: the provisions of a task or of the presets of c
    Conditional,     \* channels whose presets read parameters of the device
    Unknown,         \* tasks with a name that the server does not know
    Expiry,          \* Expiry[t]: when a task expires
    Delay,           \* cwmp.retryDelay
    MaxCycles,       \* MAX_CYCLES
    MaxRpcs,         \* the limit of too_many_rpcs
    MaxRetries,      \* bound on the number of retries
    MaxTime          \* bound on the clock

Channels == Tasks \cup PresetChannels
Never == -1

ASSUME ProvisioningAssumption ==
    /\ Tasks \subseteq Nat
    /\ Tasks \cap PresetChannels = {}
    /\ NoChannel \notin Channels
    /\ Work \in [Channels -> SUBSET Items]
    /\ Conditional \subseteq PresetChannels
    /\ Unknown \subseteq Tasks
    /\ Expiry \in [Tasks -> Nat \cup {Never}]
    /\ Delay \in Nat \ {0}
    /\ MaxCycles \in Nat /\ MaxRpcs \in Nat /\ MaxTime \in Nat
    /\ MaxRetries \in Nat
    /\ \A n \in 0 .. MaxRetries : 2 ^ n \in Nat \ {0}

VARIABLES
    dbTasks,   \* the collection of tasks
    dbFaults,  \* the collection of faults
    now,       \* the timestamp of the session
    phase,     \* where the session is
    white,     \* whiteList
    tasks,     \* sessionContext.tasks
    faults,    \* sessionContext.faults
    retries,   \* sessionContext.retries
    touched,   \* faultsTouched
    done,      \* doneTasks
    channels,  \* the keys of sessionContext.channels
    bits,      \* bits[c]: the provisions that channels[c] has a bit for
    provisions,\* sessionContext.provisions
    cycles,    \* presetCycles
    rpcs,      \* rpcCount
    unread,    \* channels with parameters that the device has not told yet
    owed,      \* owed[c]: provisions that were begun and not completed
    slipped    \* tasks whose retry was completed without a request

stored == <<dbTasks, dbFaults, now>>
queue == <<tasks, faults, retries, touched, done>>
work == <<channels, bits, provisions, rpcs>>
ghosts == <<owed, slipped>>
vars == <<stored, phase, white, queue, work, cycles, unread, ghosts>>

-----------------------------------------------------------------------------
\* Types

NoFault == [items |-> {}, since |-> Never, retryNow |-> FALSE, precondition |-> FALSE]
FaultRecord == [items: SUBSET Items, since: Nat \cup {Never}, retryNow: BOOLEAN,
                precondition: BOOLEAN]

NotSaved == [items |-> {}, since |-> Never, retries |-> Never]
SavedRecord == [items: SUBSET Items, since: Nat \cup {Never},
                retries: 0 .. MaxRetries \cup {Never}]

\* open: before the empty request.  next, apply: inside nextRpc or applyPresets.
\* presets: applyPresets after addProvisions.  sent: a request is with the device.
\* lost: the last response finds the connection gone.  served, dropped: endSession
\* because the server, or the device, has finished.  thrown: recordFault was called
\* without a channel.
InSession == {"open", "next", "apply", "presets", "sent", "lost", "served", "dropped",
              "thrown"}
Phases == InSession \cup {"closed"}

Nothing == [c \in Channels |-> {}]

\* Every variable keeps its type.
TypeOK ==
    /\ dbTasks \subseteq Tasks
    /\ dbFaults \in [Channels -> SavedRecord]
    /\ now \in Nat
    /\ phase \in Phases
    /\ white \in Channels \cup {NoChannel}
    /\ tasks \subseteq Tasks
    /\ faults \in [Channels -> FaultRecord]
    /\ retries \in [Channels -> 0 .. MaxRetries \cup {Never}]
    /\ touched \subseteq Channels
    /\ done \subseteq Tasks
    /\ channels \subseteq Channels
    /\ bits \in [Channels -> SUBSET Items]
    /\ provisions \subseteq Items
    /\ cycles \in 0 .. MaxCycles
    /\ rpcs \in 0 .. MaxRpcs
    /\ unread \subseteq Conditional
    /\ owed \in [Channels -> SUBSET Items]
    /\ slipped \subseteq Tasks

\* There is no session: what it had is forgotten.
NoSession ==
    /\ phase' = "closed" /\ white' = NoChannel
    /\ tasks' = {} /\ faults' = [c \in Channels |-> NoFault]
    /\ retries' = [c \in Channels |-> Never]
    /\ touched' = {} /\ done' = {}
    /\ channels' = {} /\ bits' = Nothing /\ provisions' = {} /\ rpcs' = 0
    /\ cycles' = 0 /\ unread' = {} /\ slipped' = {}

Init ==
    /\ dbTasks = Tasks
    /\ dbFaults = [c \in Channels |-> NotSaved]
    /\ now = 0
    /\ phase = "closed" /\ white = NoChannel
    /\ tasks = {} /\ faults = [c \in Channels |-> NoFault]
    /\ retries = [c \in Channels |-> Never]
    /\ touched = {} /\ done = {}
    /\ channels = {} /\ bits = Nothing /\ provisions = {} /\ rpcs = 0
    /\ cycles = 0 /\ unread = {} /\ owed = Nothing /\ slipped = {}

-----------------------------------------------------------------------------
\* Faults

Faulty(c) == faults[c].since # Never

\* The retry delay doubles with every retry.
Ready(since, n) == since + Delay * 2 ^ n <= now

Due(c) == Faulty(c) /\ (faults[c].retryNow \/ Ready(faults[c].since, retries[c]))

\* retries[channel] is 0 after the first fault.  Beyond MaxRetries the delay is
\* longer than the clock may run.
Bumped(c) ==
    IF retries[c] = Never THEN 0
    ELSE IF retries[c] < MaxRetries THEN retries[c] + 1 ELSE MaxRetries

\* Mutated form: every fault of several channels is retried at once.
FaultRetriedAlways(old, c, K, B) ==
    [items |-> old[c].items \cup B[c], since |-> now, retryNow |-> Cardinality(K) # 1,
     precondition |-> B[c] = {}]

\* The fault of channel c, which had old[c], with the provisions B[c].  Which of
\* the channels K has failed is not known: each is retried on its own.
FaultOf(old, c, K, B) ==
    [items |-> old[c].items \cup B[c],
     since |-> now,
     retryNow |-> retries[c] = Never /\ Cardinality(K) # 1,
     precondition |-> B[c] = {}]

Faulted(old, K, B) == [c \in Channels |-> IF c \in K THEN FaultOf(old, c, K, B) ELSE old[c]]

\* Without "retryNow", which is not saved.
Final(F) == [c \in Channels |-> [F[c] EXCEPT !.retryNow = FALSE]]

Retried(K) == retries' = [c \in Channels |-> IF c \in K THEN Bumped(c) ELSE retries[c]]

\* A fault of the channels K, which were at work with the provisions B.
RecordFault(K, B) ==
    /\ K # {}
    /\ faults' = Faulted(faults, K, B)
    /\ Retried(K)
    /\ touched' = touched \cup K

\* Channels K have no fault any more.
Clear(K) ==
    /\ faults' = [c \in Channels |-> IF c \in K THEN NoFault ELSE faults[c]]
    /\ touched' = touched \cup {c \in K : Faulty(c)}
    /\ UNCHANGED retries

-----------------------------------------------------------------------------
\* Provisions at work

ClearProvisions == channels' = {} /\ bits' = Nothing /\ provisions' = {} /\ rpcs' = 0

\* clearProvisions, then addProvisions for the channels K.
WorkOn(K, B) ==
    /\ channels' = K /\ bits' = B
    /\ provisions' = UNION {B[c] : c \in Channels}
    /\ rpcs' = 0

\* rpcRequest has something to do: provisions, or parameters for preconditions.
Busy == provisions # {} \/ channels \cap PresetChannels # {}

-----------------------------------------------------------------------------
\* The session begins

\* v.expiry >= timestamp: the faults of tasks that have not expired yet.
Dropped(t) == {c \in Tasks : dbFaults[c].since # Never /\ Expiry[c] >= t}
LoadedRetries(c, t) == IF c \in Dropped(t) THEN Never ELSE dbFaults[c].retries

\* listenerAsync reads the documents of the device.
Load ==
    /\ phase = "closed"
    /\ \E t \in now + 1 .. MaxTime :
          /\ now' = t
          /\ tasks' = dbTasks
          /\ faults' = [c \in Channels |->
                           IF dbFaults[c].since = Never \/ c \in Dropped(t) THEN NoFault
                           ELSE [items |-> dbFaults[c].items, since |-> dbFaults[c].since,
                                 retryNow |-> FALSE, precondition |-> FALSE]]
          /\ retries' = [c \in Channels |-> LoadedRetries(c, t)]
          /\ touched' = Dropped(t)
    /\ phase' = "open"
    /\ unread' \in SUBSET Conditional
    /\ UNCHANGED <<dbTasks, dbFaults, white, done, work, cycles, ghosts>>

\* The device has sent its requests and waits for those of the server.
Empty ==
    /\ phase = "open"
    /\ phase' = "next"
    /\ UNCHANGED <<stored, white, queue, work, cycles, unread, ghosts>>

-----------------------------------------------------------------------------
\* nextRpc

NextFaults ==
    /\ phase = "next" /\ Busy
    /\ RecordFault(channels, bits)
    /\ ClearProvisions
    /\ UNCHANGED <<stored, phase, white, tasks, done, cycles, unread, ghosts>>

\* rpcRequest wants an answer from the device.
Sends ==
    /\ rpcs < MaxRpcs
    /\ phase' = "sent"
    /\ white' = NoChannel

NextSends ==
    /\ phase = "next" /\ Busy /\ Sends
    /\ UNCHANGED <<stored, queue, work, cycles, unread, ghosts>>

\* Mutated form: fetching the parameters of a precondition ends the fault.
ClearedAll == channels

\* Which faults end when rpcRequest has nothing left to do.
Cleared == {c \in channels : bits[c] # {}}

Finished == channels \cap Tasks
Expired == {t \in tasks \ Finished : Expiry[t] # Never /\ Expiry[t] <= now}

Left == tasks \ (Finished \cup Expired)

\* Mutated form: only the first task is looked at.
AvailableFirst ==
    {t \in Left : (\A u \in Left : t <= u) /\ (~Faulty(t) \/ t \in Cleared)}

\* The tasks that are left and have no fault any more.
Available == {t \in Left : ~Faulty(t) \/ t \in Cleared}

\* The other tasks leave the queue, and so does U.
Settle(U) ==
    /\ tasks' = Left \ U
    /\ done' = done \cup Finished \cup Expired \cup U

\* What channels K were at is completed, what expired is given up; channels C
\* begin with B.
Owe(K, X, C, B) ==
    owed' = [c \in Channels |->
                (IF c \in X THEN {} ELSE IF c \in K THEN owed[c] \ bits[c] ELSE owed[c])
                    \cup (IF c \in C THEN B[c] ELSE {})]

\* rpcRequest is done, and so are the channels at work: nextRpc goes on with the
\* next task, or with the presets.
NextDone ==
    /\ phase = "next"
    /\ Busy => rpcs < MaxRpcs
    /\ Clear(Cleared \cup Expired)
    /\ unread' = unread \ {c \in channels : bits[c] = {}}
    /\ \/ /\ Available = {}
          /\ Settle({})
          /\ phase' = "apply"
          /\ Owe(channels, Expired, {}, Nothing)
          /\ ClearProvisions
       \/ \E t \in Available : LET B == [Nothing EXCEPT ![t] = Work[t]] IN
          /\ \A u \in Available : t <= u
          /\ t \notin Unknown
          /\ Settle({})
          /\ WorkOn({t}, B)
          /\ Owe(channels, Expired, {t}, B)
          /\ UNCHANGED phase
       \/ \E t \in Available \cap Unknown :
          /\ \A u \in Available : t <= u
          /\ Settle({t})
          /\ Owe(channels, Expired, {}, Nothing)
          /\ ClearProvisions
          /\ UNCHANGED phase
    /\ UNCHANGED <<stored, white, cycles, slipped>>

-----------------------------------------------------------------------------
\* applyPresets

\* A fault that is due is retried alone.
Chosen == IF \E c \in Channels : Due(c) THEN {c \in Channels : Due(c)} ELSE {NoChannel}

\* The channels whose presets are looked at.
Eligible(w) ==
    IF w # NoChannel THEN {w} \cap PresetChannels
    ELSE {c \in PresetChannels : ~(Faulty(c) /\ faults[c].precondition)}

\* The presets of channels F pass the filter on events and schedules: they are
\* marked with 0 if their preconditions or arguments read parameters.
Marked(F) == channels \cup (F \cap Conditional)
MarkedBits(F) == [c \in Channels |-> IF c \in F \cap Conditional THEN {} ELSE bits[c]]

\* Whether the parameters have to be fetched, or the provisions of the last round,
\* which are still there, have something to do again.
Fetches(F) == F \cap unread # {} \/ provisions # {}

FetchFaults ==
    /\ phase = "apply"
    /\ \E w \in Chosen : \E F \in SUBSET Eligible(w) :
          /\ Fetches(F)
          /\ RecordFault(Marked(F), MarkedBits(F))
    /\ ClearProvisions
    /\ UNCHANGED <<stored, phase, white, tasks, done, cycles, unread, ghosts>>

FetchSends ==
    /\ phase = "apply" /\ rpcs < MaxRpcs
    /\ \E w \in Chosen : \E F \in SUBSET Eligible(w) :
          /\ Fetches(F)
          /\ channels' = Marked(F) /\ bits' = MarkedBits(F)
    /\ phase' = "sent"
    /\ UNCHANGED <<stored, white, queue, provisions, rpcs, cycles, unread, ghosts>>

\* What the presets add, by channel, while w is white-listed.
Fired(w) ==
    {f \in [PresetChannels -> SUBSET Items] :
        \A c \in PresetChannels :
            f[c] \subseteq (IF c \in Eligible(w) \ unread THEN Work[c] ELSE {})}
Added(f, c) == IF c \in PresetChannels THEN f[c] ELSE {}

\* The presets of a channel with a fault that is not due wait in the fault.
Waits(w, f) == {c \in PresetChannels : c # w /\ Faulty(c) /\ f[c] # {}}
Joins(w, f) ==
    {c \in Channels : c = w} \cup {c \in PresetChannels : f[c] # {} /\ ~Faulty(c)}
JoinBits(w, f) ==
    [c \in Channels |->
        (IF c = w THEN faults[c].items ELSE {})
            \cup (IF c \in Joins(w, f) THEN Added(f, c) ELSE {})]

\* After appendProvisions: the faults, and faultsTouched.
Appended(w, f) ==
    [c \in Channels |-> IF c \in Waits(w, f) THEN [faults[c] EXCEPT !.items = @ \cup f[c]]
                        ELSE faults[c]]
Extended(w, f) == touched \cup {c \in Waits(w, f) : ~(f[c] \subseteq faults[c].items)}

\* Mutated form: the passes are not counted.
CountedNever(w) == FALSE

\* A pass with all channels counts as a cycle, the retry of one does not.
Counted(w) == w = NoChannel

Allowed(w) == Counted(w) => cycles < MaxCycles

BeginPresets(w, f) ==
    Owe({}, {}, Channels, [c \in Channels |-> JoinBits(w, f)[c] \cup Added(f, c)])

\* The preconditions are evaluated and the provisions put together.
Apply ==
    /\ phase = "apply"
    /\ \E w \in Chosen : \E f \in Fired(w) :
          /\ Allowed(w)
          /\ cycles' = IF Counted(w) THEN cycles + 1 ELSE cycles
          /\ faults' = Appended(w, f)
          /\ touched' = Extended(w, f)
          /\ WorkOn(Joins(w, f), JoinBits(w, f))
          /\ BeginPresets(w, f)
          /\ white' = w
    /\ phase' = "presets"
    /\ UNCHANGED <<stored, tasks, retries, done, unread, slipped>>

\* One pass too many: the fault preset_loop ends the session, or recordFault throws
\* because no channel is at work.
Loop ==
    /\ phase = "apply"
    /\ \E w \in Chosen : \E f \in Fired(w) :
          /\ ~Allowed(w)
          /\ LET K == Joins(w, f) IN
             /\ faults' = Final(Faulted(Appended(w, f), K, JoinBits(w, f)))
             /\ touched' = Extended(w, f) \cup K
             /\ Retried(K)
             /\ phase' = IF K = {} THEN "thrown" ELSE "served"
          /\ BeginPresets(w, f)
    /\ ClearProvisions
    /\ UNCHANGED <<stored, white, tasks, done, cycles, unread, slipped>>

PresetsFault ==
    /\ phase = "presets" /\ provisions # {}
    /\ RecordFault(channels, bits)
    /\ ClearProvisions
    /\ phase' = "apply" /\ white' = NoChannel
    /\ UNCHANGED <<stored, tasks, done, cycles, unread, ghosts>>

PresetsSend ==
    /\ phase = "presets" /\ provisions # {} /\ Sends
    /\ UNCHANGED <<stored, queue, work, cycles, unread, ghosts>>

\* Mutated form: the session ends after a retry.
GoesOnNever == FALSE

\* After the retry of a channel come the other channels.
GoesOn == white # NoChannel

\* rpcRequest has nothing left to do: the channels at work are done.
PresetsDone ==
    /\ phase = "presets"
    /\ Clear(channels)
    /\ Owe(channels, {}, {}, Nothing)
    /\ slipped' = slipped \cup (channels \cap Tasks)
    /\ white' = NoChannel
    /\ \/ /\ GoesOn \/ provisions # {}  \* the presets have changed something
          /\ phase' = "apply"
          /\ UNCHANGED work
       \/ /\ ~GoesOn
          /\ phase' = "served"
          /\ ClearProvisions
       \/ /\ ~GoesOn
          /\ phase' = "lost"
          /\ UNCHANGED work
    /\ UNCHANGED <<stored, tasks, done, cycles, unread>>

-----------------------------------------------------------------------------
\* The device answers, or does not

Answer ==
    /\ phase = "sent"
    /\ rpcs' = rpcs + 1
    /\ phase' = "next"
    /\ UNCHANGED <<stored, white, queue, channels, bits, provisions, cycles, unread, ghosts>>

\* A CPE fault that the engine does not handle, or an invalid answer.
AnswerFails ==
    /\ phase = "sent"
    /\ RecordFault(channels, bits)
    /\ ClearProvisions
    /\ phase' = "next"
    /\ UNCHANGED <<stored, white, tasks, done, cycles, unread, ghosts>>

\* The connection drops, the session times out or the device breaks the protocol:
\* session_terminated.
Terminate ==
    /\ phase \in {"open", "sent", "lost"}
    /\ \/ /\ provisions # {}
          /\ channels # {}
          /\ faults' = Final(Faulted(faults, channels, bits))
          /\ Retried(channels)
          /\ touched' = touched \cup channels
       \/ /\ provisions = {}
          /\ UNCHANGED <<faults, retries, touched>>
    /\ ClearProvisions
    /\ phase' = "dropped"
    /\ UNCHANGED <<stored, white, tasks, done, cycles, unread, ghosts>>

-----------------------------------------------------------------------------
\* endSession

\* saveFault does not save retryNow and precondition.
Saved(c) ==
    IF Faulty(c) THEN [items |-> faults[c].items, since |-> faults[c].since,
                       retries |-> retries[c]]
    ELSE NotSaved

\* The writes for the tasks D and the channels K are done.
Write(D, K) ==
    /\ dbTasks' = dbTasks \ D
    /\ dbFaults' = [c \in Channels |-> IF c \in K THEN Saved(c) ELSE dbFaults[c]]

Save ==
    /\ phase \in {"served", "dropped"}
    /\ Write(done, touched)
    /\ NoSession
    /\ UNCHANGED <<now, owed>>

\* What the database knows of channel c.
Kept(F, T, c) == F[c].items \cup (IF c \in T THEN Work[c] ELSE {})

\* The worker fails, while it saves or before: the session is lost, and with it what
\* it has begun.  What had been begun before and is not completed must not be lost.
Crash ==
    /\ phase # "closed"
    /\ \/ /\ phase \in {"served", "dropped"}
          /\ \E D \in {{}, done} : \E K \in SUBSET touched : Write(D, K)
       \/ UNCHANGED <<dbTasks, dbFaults>>
    /\ NoSession
    /\ owed' = [c \in Channels |-> owed[c] \cap Kept(dbFaults, dbTasks, c)]
    /\ UNCHANGED now

-----------------------------------------------------------------------------

NextRpc == NextFaults \/ NextSends \/ NextDone
ApplyPresets ==
    \/ FetchFaults \/ FetchSends \/ Apply \/ Loop
    \/ PresetsFault \/ PresetsSend \/ PresetsDone
Device == Empty \/ Answer \/ AnswerFails \/ Terminate

Next == Load \/ NextRpc \/ ApplyPresets \/ Device \/ Save \/ Crash

Spec == Init /\ [][Next]_vars

\* A session goes on, because requests are computed and the device answers or is
\* given up after its time-out; the worker need not fail, and the device need not
\* come back.
FairSpec == Spec /\ WF_vars(NextRpc \/ ApplyPresets \/ Device \/ Save \/ Crash)

-----------------------------------------------------------------------------
\* Properties

\* Provisions that were begun are at work, in a fault or in the queue until they
\* are completed or expire, and the database has them when the session is over.
NothingDropped ==
    \A c \in Channels :
        owed[c] \subseteq
            IF phase = "closed" THEN Kept(dbFaults, dbTasks, c)
            ELSE bits[c] \cup Kept(faults, tasks, c)

\* While the fault that was saved for a channel is not due, no session works on the
\* provisions of the channel (see Dropped for tasks that expire).
BackoffRespected ==
    \A c \in Channels :
        /\ bits[c] # {}
        /\ dbFaults[c].since # Never
        /\ c \in Tasks => Expiry[c] = Never
        => dbFaults[c].since + Delay * 2 ^ dbFaults[c].retries <= now

\* The server does not end a session while a fault is due.
DueFaultsTried == phase = "served" => \A c \in Channels : ~Due(c)

\* When the server ends a session, every task is executed, expired or has a fault;
\* unless it was retried without a request, which applyPresets does not notice.
TasksSettled == phase = "served" => \A t \in tasks : Faulty(t) \/ t \in slipped

\* recordFault is only called for a channel.
FaultHasChannel == phase # "thrown"

\* A session ends, whatever faults and presets there are.
SessionEnds == phase # "closed" ~> phase = "closed"
=============================================================================
