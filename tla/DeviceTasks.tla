---------------------------- MODULE DeviceTasks ----------------------------
(***************************************************************************)
(* The requests of the NBI and of the user interface that queue, withdraw  *)
(* or retry the tasks of a device, or delete the device (lib/nbi.ts,       *)
(* lib/ui/api.ts, lib/api-functions.ts), and the sessions of the device    *)
(* (lib/cwmp.ts, lib/cwmp/db.ts), which meet in the database: the          *)
(* documents of the device, its tasks and its faults, and the lock         *)
(* cwmp_session_<device> (lib/lock.ts).                                    *)
(*                                                                         *)
(* Every await of the code is a step.  Time appears as what it permits: a  *)
(* waiter may give up, and the lock of a holder that died or stalled may   *)
(* expire.  A client makes one request, and a request that queues a task   *)
(* queues the one named after its client.                                  *)
(***************************************************************************)
EXTENDS Naturals, FiniteSets

CONSTANTS
    Clients,      \* requests, and the tasks they queue
    Session,      \* the owner of the lock while the device is in session
    Nobody,       \* no document in the collection locks
    KeyOf,        \* KeyOf[c]: the uniqueKey of the task c
    NoKey,        \* a task without uniqueKey
    MaxEvents     \* bound on the sessions of the device, failing writes, dying workers
                  \* and stalls, together

ASSUME TasksAssumption ==
    /\ KeyOf \in [Clients -> UNION {{KeyOf[c]} : c \in Clients}]
    /\ Session \notin Clients /\ Nobody \notin Clients \cup {Session}
    /\ MaxEvents \in Nat

VARIABLES
    known,      \* the device has a document
    inform,     \* its _lastInform: the number of the session that wrote it
    tasks,      \* its documents in the collection tasks
    faults,     \* the tasks with a document in the collection faults
    owner,      \* the holder of cwmp_session_<device>
    session,    \* the session of the device
    request,    \* the request of every client
    adrift,     \* writes nobody waits for any more
    failures,   \* what has gone wrong so far
    stalled,    \* clients whose lock expired while they worked
    met         \* clients that queued a task before the last session admitted

database == <<known, inform, tasks, faults>>
vars == <<database, owner, session, request, adrift, failures, stalled, met>>

Posts == {"post", "commit"}
Withdrawals == {"deleteTask", "retry", "deleteFault", "deleteDevice"}
Kinds == Posts \cup Withdrawals \cup {"queue"}
\* "crashed": the request has thrown.  The user interface answers it with an error (koa),
\* the NBI with nothing: its listener writes the 500 only when the headers have already
\* been sent.
Answers == {"done", "faulted", "queued", "not found", "locked", "refused", "crashed"}
Writes == {"device", "tasks", "faults"}
Phases == {"idle", "find", "lock", "check", "insert", "add", "write", "release",
           "call", "start", "token", "end", "count", "clean", "over"}

NoSession == [pc |-> "none", stamp |-> 0, new |-> FALSE, work |-> {}, done |-> {},
              failed |-> {}, writes |-> {}]
NoRequest(c) == [kind |-> "none", task |-> c, pc |-> "idle", seen |-> 0, writes |-> {},
                 answer |-> "none"]

Init ==
    /\ known \in BOOLEAN
    /\ inform = 0
    /\ tasks = {} /\ faults = {} /\ adrift = {} /\ stalled = {} /\ met = {}
    /\ owner = Nobody
    /\ session = NoSession
    /\ request = [c \in Clients |-> NoRequest(c)]
    /\ failures = 0

-----------------------------------------------------------------------------
\* Requests

Go(c, pc) == request' = [request EXCEPT ![c].pc = pc]
\* What is left of a request: its answer and, if it has queued a task, that it has.
Conclude(c, answer) ==
    request' = [request EXCEPT
                  ![c] = [NoRequest(c) EXCEPT
                            !.kind = IF request[c].kind \in Posts THEN request[c].kind ELSE "none",
                            !.pc = "over",
                            !.answer = answer]]

\* The "finally" of a handler that holds the lock: the answer waits for the release.
Outcome(c, answer) ==
    IF owner = c \/ c \in stalled
    THEN request' = [request EXCEPT ![c].pc = "release", ![c].answer = answer]
    ELSE Conclude(c, answer)

\* handler of the NBI and the routes of the user interface: a task to queue, with or
\* without a connection request, or something to withdraw.
Arrive(c, kind, t) ==
    /\ request[c].pc = "idle"
    /\ kind \in Posts \cup {"queue"} => t = c
    /\ kind \notin Posts \cup {"queue"} => t # c
    /\ request' = [request EXCEPT
                     ![c].kind = kind, ![c].task = t,
                     ![c].pc = CASE kind = "queue" -> "check"
                                 [] kind \in {"deleteTask", "retry"} -> "find"
                                 [] OTHER -> "lock"]
    /\ UNCHANGED <<database, owner, session, adrift, failures, stalled, met>>

\* The device of a task is looked up before its lock is taken; "retry" does not expect
\* the task to be gone.
Find(c) ==
    /\ request[c].pc = "find"
    /\ IF request[c].task \in tasks THEN Go(c, "lock")
       ELSE Conclude(c, IF request[c].kind = "retry" THEN "crashed" ELSE "not found")
    /\ UNCHANGED <<database, owner, session, adrift, failures, stalled, met>>

WritesOf(kind) ==
    CASE kind = "retry" -> {"faults"}
      [] kind = "deleteDevice" -> Writes
      [] OTHER -> {"tasks", "faults"}

\* Mutant: the lock is free for the taking
AcquireAnyway(c) ==
    /\ request[c].pc = "lock"
    /\ owner' = c
    /\ request' = IF request[c].kind \in Posts
                  THEN [request EXCEPT ![c].pc = "check"]
                  ELSE [request EXCEPT ![c].pc = "write",
                                       ![c].writes = WritesOf(request[c].kind)]
    /\ UNCHANGED <<database, session, adrift, failures, stalled, met>>

\* acquireLock. The tasks of a request wait half a minute for it, the others do not wait.
Acquire(c) ==
    /\ request[c].pc = "lock"
    /\ owner = Nobody
    /\ owner' = c
    /\ request' = IF request[c].kind \in Posts
                  THEN [request EXCEPT ![c].pc = "check"]
                  ELSE [request EXCEPT ![c].pc = "write",
                                       ![c].writes = WritesOf(request[c].kind)]
    /\ UNCHANGED <<database, session, adrift, failures, stalled, met>>

\* Mutant: a deletion that does not wait for the lock
GiveUpAndWrite(c) ==
    /\ request[c].pc = "lock"
    /\ owner # Nobody
    /\ IF request[c].kind \in Posts THEN Go(c, "check")
       ELSE request' = [request EXCEPT ![c].pc = "write",
                                       ![c].writes = WritesOf(request[c].kind)]
    /\ UNCHANGED <<database, owner, session, adrift, failures, stalled, met>>

GiveUp(c) ==
    /\ request[c].pc = "lock"
    /\ owner # Nobody
    /\ IF request[c].kind = "post" THEN Go(c, "check") ELSE Conclude(c, "locked")
    /\ UNCHANGED <<database, owner, session, adrift, failures, stalled, met>>

\* Is there such a device? May this user do that, and are the tasks well formed?
Check(c) ==
    /\ request[c].pc = "check"
    /\ \/ /\ known
          /\ request' = [request EXCEPT ![c].pc = "insert", ![c].seen = inform]
       \/ ~known /\ Outcome(c, "not found")
       \/ known /\ Outcome(c, IF request[c].kind = "commit" THEN "refused" ELSE "crashed")
    /\ UNCHANGED <<database, owner, session, adrift, failures, stalled, met>>

\* insertTasks: one other task of the same uniqueKey is deleted, then the new one is
\* inserted.
Insert(c) ==
    /\ request[c].pc = "insert"
    /\ LET twins == {t \in tasks : KeyOf[t] = KeyOf[c] /\ KeyOf[c] # NoKey}
       IN  IF twins = {} THEN UNCHANGED tasks ELSE \E t \in twins : tasks' = tasks \ {t}
    /\ Go(c, "add")
    /\ UNCHANGED <<known, inform, faults, owner, session, adrift, failures, stalled, met>>

Add(c) ==
    /\ request[c].pc = "add"
    /\ tasks' = tasks \cup {c}
    /\ IF owner = c \/ c \in stalled THEN Go(c, "release") ELSE Conclude(c, "queued")
    /\ UNCHANGED <<known, inform, faults, owner, session, adrift, failures, stalled, met>>

AddFails(c) ==
    /\ request[c].pc = "add"
    /\ session.stamp + failures < MaxEvents
    /\ failures' = failures + 1
    /\ Outcome(c, "crashed")
    /\ UNCHANGED <<database, owner, session, adrift, stalled, met>>

\* What one of the concurrent writes does to the database.
Deleted(w, kind, t) ==
    /\ tasks' = IF w # "tasks" THEN tasks ELSE IF kind = "deleteDevice" THEN {} ELSE tasks \ {t}
    /\ faults' = IF w # "faults" THEN faults ELSE IF kind = "deleteDevice" THEN {} ELSE faults \ {t}
    /\ known' = (known /\ w # "device")
    /\ UNCHANGED inform

\* deleteDevice, deleteFault, and the NBI's own deletions: concurrent writes under
\* Promise.all. The first that fails ends the wait, and the lock is released while the
\* others are under way.
Write(c, w) ==
    /\ request[c].pc = "write"
    /\ w \in request[c].writes
    /\ Deleted(w, request[c].kind, request[c].task)
    /\ request' = [request EXCEPT
                     ![c].writes = @ \ {w},
                     ![c].pc = IF @ # "write" \/ request[c].writes # {w} THEN @ ELSE "release",
                     ![c].answer = IF request[c].writes = {w} THEN "done" ELSE @]
    /\ UNCHANGED <<owner, session, adrift, failures, stalled, met>>

WriteFails(c, w) ==
    /\ request[c].pc = "write"
    /\ w \in request[c].writes
    /\ session.stamp + failures < MaxEvents
    /\ failures' = failures + 1
    /\ adrift' = adrift \cup {[write |-> x, kind |-> request[c].kind, task |-> request[c].task] :
                                 x \in request[c].writes \ {w}}
    /\ request' = [request EXCEPT ![c].writes = {}, ![c].pc = "release", ![c].answer = "crashed"]
    /\ UNCHANGED <<database, owner, session, stalled, met>>

\* releaseLock throws when the document is no longer there.
Release(c) ==
    /\ request[c].pc = "release"
    /\ owner' = IF owner = c THEN Nobody ELSE owner
    /\ IF owner # c THEN Conclude(c, "crashed")
       ELSE IF request[c].answer = "none" THEN Go(c, "call")
       ELSE Conclude(c, request[c].answer)
    /\ UNCHANGED <<database, session, adrift, failures, stalled, met>>

\* The task has not been looked at: the NBI leaves it queued, the user interface
\* withdraws it.
Unheard(c) ==
    IF request[c].kind = "commit"
    THEN request' = [request EXCEPT ![c].pc = "clean", ![c].answer = "queued"]
    ELSE Conclude(c, "queued")

\* connectionRequest, however it is delivered (see ConnectionRequests).  It throws, as what
\* is read before it, for a document without the parameters it expects: the task of the
\* user interface then stays in the queue as well.
Call(c) ==
    /\ request[c].pc = "call"
    /\ Go(c, "start") \/ Unheard(c) \/ Conclude(c, "crashed")
    /\ UNCHANGED <<database, owner, session, adrift, failures, stalled, met>>

\* Mutant: an inform that is not later counts for a session
PollInformAgain(c) ==
    /\ request[c].pc = "start"
    /\ IF ~known THEN Conclude(c, "crashed")
       ELSE Go(c, IF inform >= request[c].seen THEN "end" ELSE "token")
    /\ UNCHANGED <<database, owner, session, adrift, failures, stalled, met>>

\* awaitSessionStart: a later inform, or a session that holds the lock, until the
\* device has been given enough time. It does not expect the device to be gone.
PollInform(c) ==
    /\ request[c].pc = "start"
    /\ IF ~known THEN Conclude(c, "crashed")
       ELSE Go(c, IF inform > request[c].seen THEN "end" ELSE "token")
    /\ UNCHANGED <<database, owner, session, adrift, failures, stalled, met>>

PollToken(c) ==
    /\ request[c].pc = "token"
    /\ Go(c, IF owner = Session THEN "end" ELSE "start")
    /\ UNCHANGED <<database, owner, session, adrift, failures, stalled, met>>

NotStarted(c) ==
    /\ request[c].pc = "token"
    /\ owner # Session
    /\ Unheard(c)
    /\ UNCHANGED <<database, owner, session, adrift, failures, stalled, met>>

\* Mutant: awaitSessionEnd without a time-out
PollEndForever(c) ==
    /\ request[c].pc = "end"
    /\ Go(c, IF owner = Session THEN "end" ELSE "count")
    /\ UNCHANGED <<database, owner, session, adrift, failures, stalled, met>>

\* awaitSessionEnd, for at most two minutes.
PollEnd(c) ==
    /\ request[c].pc = "end"
    /\ IF owner = Session THEN Unheard(c) ELSE Go(c, "count")
    /\ UNCHANGED <<database, owner, session, adrift, failures, stalled, met>>

\* What has become of the task? No fault is taken for success.
Count(c) ==
    /\ request[c].pc = "count"
    /\ LET answer == IF c \in faults THEN "faulted" ELSE "done"
       IN  IF request[c].kind = "commit"
           THEN request' = [request EXCEPT ![c].pc = "clean", ![c].answer = answer]
           ELSE Conclude(c, answer)
    /\ UNCHANGED <<database, owner, session, adrift, failures, stalled, met>>

\* The user interface deletes its tasks whatever has become of them, without the lock.
Clean(c) ==
    /\ request[c].pc = "clean"
    /\ tasks' = tasks \ {c}
    /\ Conclude(c, request[c].answer)
    /\ UNCHANGED <<known, inform, faults, owner, session, adrift, failures, stalled, met>>

-----------------------------------------------------------------------------
\* Sessions of the device

\* getDueTasks; those whose fault is still to be waited for are not worked on.
DueTasks(work) == work \subseteq tasks /\ tasks \ faults \subseteq work

\* listenerAsync reads the tasks that are due, the faults and the device before the
\* lock is acquired.
SessionArrives(work) ==
    /\ session.pc = "none"
    /\ session.stamp + failures < MaxEvents
    /\ DueTasks(work)
    /\ session' = [NoSession EXCEPT !.pc = "loaded", !.stamp = session.stamp + 1,
                                    !.work = work]
    /\ UNCHANGED <<database, owner, request, adrift, failures, stalled, met>>

FetchDevice ==
    /\ session.pc = "loaded"
    /\ session' = [session EXCEPT !.pc = "fetched", !.new = ~known]
    /\ UNCHANGED <<database, owner, request, adrift, failures, stalled, met>>

Queued == {c \in Clients : /\ request[c].kind \in Posts
                           /\ request[c].pc \in Phases \ {"idle", "lock", "check", "insert", "add"}}

Admit ==
    /\ session.pc = "fetched"
    /\ IF owner = Nobody
       THEN /\ owner' = Session
            /\ session' = [session EXCEPT !.pc = "running"]
            /\ met' = Queued
       ELSE /\ session' = [NoSession EXCEPT !.stamp = session.stamp]
            /\ UNCHANGED <<owner, met>>
    /\ UNCHANGED <<database, request, adrift, failures, stalled>>

Work(t) ==
    /\ session.pc = "running"
    /\ t \in session.work \ (session.done \cup session.failed)
    /\ \/ session' = [session EXCEPT !.done = @ \cup {t}]
       \/ session' = [session EXCEPT !.failed = @ \cup {t}]
    /\ UNCHANGED <<database, owner, request, adrift, failures, stalled, met>>

\* endSession, also of a session that the device abandoned with work left.
EndSession ==
    /\ session.pc = "running"
    /\ session' = [session EXCEPT !.pc = "saving", !.writes = Writes]
    /\ UNCHANGED <<database, owner, request, adrift, failures, stalled, met>>

\* saveDevice refuses to recreate a device it has not registered itself.
Save(w) ==
    /\ session.pc = "saving"
    /\ w \in session.writes
    /\ w = "device" => known \/ session.new
    /\ known' = (known \/ w = "device")
    /\ inform' = IF w = "device" THEN session.stamp ELSE inform
    /\ tasks' = IF w = "tasks" THEN tasks \ session.done ELSE tasks
    /\ faults' = IF w = "faults" THEN (faults \ session.done) \cup session.failed ELSE faults
    /\ session' = [session EXCEPT !.writes = @ \ {w}]
    /\ UNCHANGED <<owner, request, adrift, failures, stalled, met>>

SessionOver ==
    /\ session.pc = "saving"
    /\ session.writes = {}
    /\ owner' = IF owner = Session THEN Nobody ELSE owner
    /\ session' = [NoSession EXCEPT !.stamp = session.stamp]
    /\ UNCHANGED <<database, request, adrift, failures, stalled, met>>

\* The worker dies, or the device has been deleted: the lock is left to expire.
SessionLost ==
    /\ session.pc \in {"running", "saving"}
    /\ \/ /\ session.pc = "saving" /\ "device" \in session.writes /\ ~known /\ ~session.new
          /\ UNCHANGED failures
       \/ session.stamp + failures < MaxEvents /\ failures' = failures + 1
    /\ session' = [NoSession EXCEPT !.stamp = session.stamp]
    /\ UNCHANGED <<database, owner, request, adrift, stalled, met>>

-----------------------------------------------------------------------------
\* The rest of the world

Land(a) ==
    /\ a \in adrift
    /\ Deleted(a.write, a.kind, a.task)
    /\ adrift' = adrift \ {a}
    /\ UNCHANGED <<owner, session, request, failures, stalled, met>>

\* The lock of a session that is gone expires; that of a request only if it takes
\* longer than the 5 s it asked for and the tolerance for skewed clocks.
Expire ==
    /\ owner' = Nobody
    /\ \/ /\ owner = Session /\ session.pc \notin {"running", "saving"}
          /\ UNCHANGED <<failures, stalled>>
       \/ /\ owner \in Clients
          /\ session.stamp + failures < MaxEvents
          /\ failures' = failures + 1
          /\ stalled' = stalled \cup {owner}
    /\ UNCHANGED <<database, session, request, adrift, met>>

Handle(c) ==
    \/ Find(c) \/ Acquire(c) \/ GiveUp(c) \/ Check(c) \/ Insert(c)
    \/ Add(c) \/ AddFails(c)
    \/ \E w \in Writes : Write(c, w) \/ WriteFails(c, w)
    \/ Release(c) \/ Call(c) \/ PollInform(c) \/ PollToken(c) \/ NotStarted(c) \/ PollEnd(c)
    \/ Count(c) \/ Clean(c)

SessionStep ==
    \/ FetchDevice \/ Admit \/ EndSession \/ SessionOver \/ SessionLost
    \/ \E t \in Clients : Work(t)
    \/ \E w \in Writes : Save(w)

Next ==
    \/ \E c \in Clients :
          Handle(c) \/ \E kind \in Kinds, t \in Clients : Arrive(c, kind, t)
    \/ SessionStep
    \/ \E work \in SUBSET tasks : SessionArrives(work)
    \/ \E a \in adrift : Land(a)
    \/ Expire

Spec == Init /\ [][Next]_vars

\* A handler runs on, and the time given to the device to start a session ends.  Nothing
\* is asked of the device, its sessions or the expiry of locks.
FairSpec ==
    /\ Spec
    /\ \A c \in Clients : WF_vars(Handle(c)) /\ SF_vars(NotStarted(c))

-----------------------------------------------------------------------------
\* Properties

\* The documents and the requests are what the code makes of them; a request that waits
\* for the device has queued its task, and holds no lock.
TypeOK ==
    /\ known \in BOOLEAN
    /\ inform \in 0 .. MaxEvents
    /\ tasks \cup faults \cup stalled \cup met \subseteq Clients
    /\ owner \in Clients \cup {Session, Nobody}
    /\ session \in [pc : {"none", "loaded", "fetched", "running", "saving"},
                    stamp : 0 .. MaxEvents, new : BOOLEAN, work : SUBSET Clients,
                    done : SUBSET Clients, failed : SUBSET Clients, writes : SUBSET Writes]
    /\ request \in [Clients -> [kind : Kinds \cup {"none"}, task : Clients, pc : Phases,
                                seen : 0 .. MaxEvents, writes : SUBSET Writes,
                                answer : Answers \cup {"none"}]]
    /\ adrift \subseteq [write : Writes, kind : Withdrawals, task : Clients]
    /\ failures \in 0 .. MaxEvents
    /\ \A c \in Clients :
          request[c].pc \in {"call", "start", "token", "end", "count", "clean"} => owner # c

\* What a step takes from the database, and on whose behalf: the session that saves, a
\* request whose lock has expired, a deletion that nobody waits for any more, or a task that
\* a new one replaces or the user interface withdraws.
Takes == (known /\ ~known') \/ ~(faults \subseteq faults') \/ ~(tasks \subseteq tasks')
BySession == session' # session
ByStalled == \E c \in stalled : request'[c] # request[c]
ByAdrift == adrift' # adrift
ByReplacement ==
    /\ known => known'
    /\ faults \subseteq faults'
    /\ \E c \in Clients : request[c].pc \in {"insert", "clean"} /\ request'[c] # request[c]

InSession == owner = Session /\ session.pc \in {"running", "saving"}

\* While a session of the device is under way, no step takes a task, a fault or the device
\* from under it, with three exceptions: a request that has lost its lock to the clock; a
\* task replaced or withdrawn without the lock (nbi.ts, ui/api.ts); and the writes of a
\* deletion of which another write has failed, for Promise.all then rejects and "finally"
\* releases the lock under them (api-functions.ts, deleteDevice and deleteFault; nbi.ts).
SessionsUndisturbed ==
    [][InSession /\ Takes => BySession \/ ByStalled \/ ByReplacement \/ ByAdrift]_vars

\* "NBI operations acquire session locks to prevent concurrent modifications"
\* (claudedocs/specs/NBI-API-SPEC.md): the same without the last exception.  Does not hold.
DeletionsLocked ==
    [][InSession /\ Takes => BySession \/ ByStalled \/ ByReplacement]_vars

\* A task is reported as executed only after a session that was admitted when the task
\* was in the queue: never because of the session before, however the polls of the last
\* inform and of the lock fall (awaitSessionStart, awaitSessionEnd).
OnlyAfterASession ==
    \A c \in Clients :
        request[c].kind \in Posts /\ request[c].answer \in {"done", "faulted"} => c \in met

\* As long as no write has failed and no request has stalled, a task that is queued under
\* the lock is queued for a device that exists: deleteDevice cannot come between the look
\* at the device and the insertion.
QueuedForADevice ==
    \A c \in Clients :
        request[c].pc \in {"insert", "add"} /\ owner = c /\ failures = 0 => known

\* Every request comes to an end, whatever the device does and whoever holds its lock: it
\* is answered or it throws, and none waits for the device, a session or the lock for ever
\* (acquireLock, awaitSessionStart and awaitSessionEnd, as nbi.ts and ui/api.ts call them).
RequestsEnd ==
    \A c \in Clients : request[c].pc # "idle" ~> request[c].pc = "over"

\* "If the task ID is invalid or deleted, the endpoint returns 500 (unhandled error)"
\* (claudedocs/NBI-API-INTEGRATION-GUIDE.md): a retry is answered, if only with an error.
\* Does not hold: nothing is sent for a handler of the NBI that throws (server.ts).
RetriesAnswered ==
    \A c \in Clients :
        request[c].kind = "retry" ~> request[c].pc = "over" /\ request[c].answer # "crashed"

\* "Returns status code 200 if the tasks have been successfully executed"
\* (docs/api-reference.rst): the task is then no longer in the queue.  Does not hold: the
\* answer is "done" after a session that did not reach the task.
SuccessIsExecuted ==
    [][\A c \in Clients :
          /\ request[c].kind = "post"
          /\ request[c].answer = "none" /\ request'[c].answer = "done"
          => c \notin tasks]_vars

=============================================================================
