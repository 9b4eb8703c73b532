----------------------------- MODULE TaskQueue -----------------------------
(***************************************************************************)
(* The task queue of the user interface (ui/task-queue.ts, postTasks of    *)
(* ui/store.ts, and the drawer and the buttons that use them).  An edit is *)
(* staged for some devices, then queued as one task for each; committing   *)
(* posts the queued tasks, one request per device; the answer says of each *)
(* task whether it was done, and it leaves the queue, or it failed, or the *)
(* device was not reached, and it stays to be tried again.  Meanwhile the  *)
(* user removes tasks, clears the queue, and commits more.                 *)
(***************************************************************************)
EXTENDS Integers, FiniteSets

CONSTANTS Tasks,
          DeviceOf,     \* the device of each task
          Edits,        \* sets of tasks that are staged as one edit
          Direct,       \* tasks that are queued by a button
          Summon,       \* tasks that are committed by a button of their own
          MAX_QUEUE

(* Every edit and every button makes tasks of its own (Services assumes this). *)
TasksAssumption ==
  /\ IsFiniteSet(Tasks) /\ MAX_QUEUE \in Nat
  /\ Edits \subseteq SUBSET Tasks
  /\ \A e \in Edits : e \cap (Direct \cup Summon) = {} /\ \A f \in Edits \ {e} : e \cap f = {}

VARIABLES status,       \* of each task, "none" before it is queued
          queue, staging,
          commits       \* commits under way: the requests not answered yet

vars == <<status, queue, staging, commits>>

Posted == UNION {UNION c.requests : c \in commits}
Used(t) == status[t] # "none"

(* canQueue, queueTask, stageSpv and stageDownload *)
CanQueue(tasks) == Cardinality(queue \cup tasks) <= MAX_QUEUE
QueueTask(tasks) ==
  IF CanQueue(tasks)
  THEN /\ status' = [t \in Tasks |-> IF t \in tasks THEN "queued" ELSE status[t]]
       /\ queue' = queue \cup tasks
  ELSE UNCHANGED <<status, queue>>

QueueDirect(t) ==
  /\ t \in Direct /\ ~Used(t)
  /\ QueueTask({t})
  /\ UNCHANGED <<staging, commits>>
Stage(edit) ==
  /\ \A t \in edit : ~Used(t)
  /\ Cardinality(queue) + Cardinality(edit) <= MAX_QUEUE
  /\ staging' = staging \cup {edit}
  /\ UNCHANGED <<status, queue, commits>>
(* the tasks of the edit are queued one by one: as many as there is room for *)
QueueStaged(edit) ==
  /\ edit \in staging
  /\ staging' = staging \ {edit}
  /\ \E some \in SUBSET edit :
       /\ CanQueue(some)
       /\ some # edit => Cardinality(queue \cup some) = MAX_QUEUE
       /\ QueueTask(some)
  /\ UNCHANGED commits
CancelStaged(edit) ==
  /\ edit \in staging /\ staging' = staging \ {edit}
  /\ UNCHANGED <<status, queue, commits>>

(* the buttons of the drawer: retry and remove a task, clear the queue *)
Retry(t) ==
  /\ t \in queue /\ status[t] \in {"fault", "stale"}
  /\ QueueTask({t})
  /\ UNCHANGED <<staging, commits>>
DeleteTask(t) ==
  /\ t \in queue /\ queue' = queue \ {t}
  /\ UNCHANGED <<status, staging, commits>>
Clear == queue # {} /\ queue' = {} /\ UNCHANGED <<status, staging, commits>>

(***************************************************************************)
(* commit(): the tasks are posted, those of each device in one request.    *)
(***************************************************************************)
QueuedAll == queue
Queued == {t \in queue : status[t] = "queued"}
Commit(tasks, summons) ==
  /\ tasks # {} /\ CanQueue(tasks)
  /\ queue' = queue \cup tasks
  /\ status' = [t \in Tasks |-> IF t \in tasks THEN "pending" ELSE status[t]]
  /\ commits' = commits \cup
       {[requests |-> {{t \in tasks : DeviceOf[t] = d} : d \in {DeviceOf[t] : t \in tasks}},
         summons |-> summons]}
  /\ UNCHANGED staging
CommitQueued == Commit(Queued, FALSE)
CommitSummon(t) == t \in Summon /\ t \notin queue \cup Posted /\ Commit({t}, TRUE)

(***************************************************************************)
(* A request is answered, and says of each task what became of it, or that *)
(* the device was not reached; or it fails.  The summons button removes    *)
(* its task when it is stale.                                              *)
(***************************************************************************)
AfterAnswer(said) == IF said = "pending" THEN "stale" ELSE said
Settled(c, request) ==
  commits' = (commits \ {c}) \cup
    {d \in {[c EXCEPT !.requests = @ \ {request}]} : d.requests # {}}
Answer(c, request) ==
  \E said \in [request -> {"pending", "fault", "done"}] :
    /\ (\E t \in request : said[t] = "pending") => \A t \in request : said[t] = "pending"
    /\ status' = [t \in Tasks |-> IF t \in request THEN AfterAnswer(said[t]) ELSE status[t]]
    /\ queue' = queue \ {t \in request : \/ said[t] = "done"
                                      \/ (c.summons /\ status'[t] = "stale")}
    /\ Settled(c, request)
    /\ UNCHANGED staging
Fail(c, request) ==
  /\ status' = [t \in Tasks |-> IF t \in request THEN "stale" ELSE status[t]]
  /\ Settled(c, request)
  /\ UNCHANGED <<queue, staging>>

Init ==
  /\ status = [t \in Tasks |-> "none"]
  /\ queue = {} /\ staging = {} /\ commits = {}

Next ==
  \/ \E t \in Tasks : QueueDirect(t) \/ Retry(t) \/ DeleteTask(t) \/ CommitSummon(t)
  \/ \E e \in Edits : Stage(e) \/ QueueStaged(e) \/ CancelStaged(e)
  \/ Clear \/ CommitQueued
  \/ \E c \in commits : \E r \in c.requests : Answer(c, r) \/ Fail(c, r)

Spec == Init /\ [][Next]_vars

(***************************************************************************)
(* A task is in one request at a time, and it says that it is pending      *)
(* exactly as long as a request that carries it is under way: it cannot be *)
(* posted twice by committing again, and once answered it can be tried     *)
(* again or is gone (commit).                                              *)
(***************************************************************************)
PendingInOneRequest ==
  /\ \A t \in Tasks : (status[t] = "pending") = (t \in Posted)
  /\ \A c \in commits : \A d \in commits : \A r \in c.requests : \A q \in d.requests :
       r \cap q # {} => (c = d /\ r = q)

(***************************************************************************)
(* The queue is never longer than MAX_QUEUE, whether tasks are queued,     *)
(* staged for many devices, tried again or committed directly (canQueue).  *)
(***************************************************************************)
QueueBounded == Cardinality(queue) <= MAX_QUEUE

(* Both. *)
QueueSound == PendingInOneRequest /\ QueueBounded
============================================================================
