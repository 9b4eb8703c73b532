------------------------------ MODULE Services ------------------------------
(***************************************************************************)
(* The parts around the sessions, which share nothing but the database:    *)
(* administrators' changes (Admin), connection requests                    *)
(* (ConnectionRequests), what the browser shows (Store) and sends          *)
(* (TaskQueue), and the supervision of workers (Workers).  A behaviour is  *)
(* one of one of them, told by `part`.  The variables of                   *)
(* ConnectionRequests stay as they begin in the other parts; those of the  *)
(* other parts are Unused outside them.                                    *)
(***************************************************************************)
EXTENDS ConnectionRequests, Integers

CONSTANTS
    Null, Unused,
    \* Admin
    UiClients, NbiClients, LoggedIn, Access, Hidden, Ids, Bodies, MaxRequests,
    \* Store
    Numbers, Says, Queries, Filter, Limit, Counting, Pages,
    MaxTimestamp, MaxChanges, MaxFailures, MaxBatches,
    \* Workers
    Pool, WorkerCount, RespawnGap, Period, MostCrashes, CloseTimeout, ExitTimeout, MaxClock,
    \* TaskQueue
    Tasks, DeviceOf, Edits, Direct, Summon, MAX_QUEUE

VARIABLES
    part,
    \* Admin
    store, known, request, seen, asked,
    \* Store
    db, objects, combinedFilter, fulfillTimestamp, queries, page, batches, changes,
    failures, still,
    \* Workers
    now, main, worker, respawnTimestamp, crashes, timers, lastFork,
    \* TaskQueue
    taskStatus, queue, staging, commits

Adm == INSTANCE Admin
Sto == INSTANCE Store WITH Ids <- Numbers
Wor == INSTANCE Workers
Tas == INSTANCE TaskQueue WITH status <- taskStatus

ASSUME ServicesAssumption ==
    Adm!AdminAssumption /\ Sto!StoreAssumption /\ Wor!CountAssumption /\ Tas!TasksAssumption

-----------------------------------------------------------------------------
AdmOnly == <<store, known, request, seen, asked>>
StoOnly == <<db, objects, combinedFilter, fulfillTimestamp, queries, page, batches, changes,
             failures, still>>
WorOnly == <<now, main, worker, respawnTimestamp, crashes, timers, lastFork>>
TasOnly == <<taskStatus, queue, staging, commits>>
servicesVars == <<part, vars, AdmOnly, StoOnly, WorOnly, TasOnly>>

NoAdm ==
    /\ store = Unused /\ known = Unused /\ request = Unused /\ seen = Unused
    /\ asked = Unused
NoSto ==
    /\ db = Unused /\ objects = Unused /\ combinedFilter = Unused
    /\ fulfillTimestamp = Unused /\ queries = Unused /\ page = Unused /\ batches = Unused
    /\ changes = Unused /\ failures = Unused /\ still = Unused
NoWor ==
    /\ now = Unused /\ main = Unused /\ worker = Unused /\ respawnTimestamp = Unused
    /\ crashes = Unused /\ timers = Unused /\ lastFork = Unused
NoTas ==
    /\ taskStatus = Unused /\ queue = Unused /\ staging = Unused /\ commits = Unused

ServicesInit ==
    /\ Init
    /\ \/ part = "admin" /\ Adm!Init /\ NoSto /\ NoWor /\ NoTas
       \/ part \in {"http", "xmpp"} /\ NoAdm /\ NoSto /\ NoWor /\ NoTas
       \/ part = "store" /\ Sto!Init /\ NoAdm /\ NoWor /\ NoTas
       \/ part = "workers" /\ Wor!Init /\ NoAdm /\ NoSto /\ NoTas
       \/ part = "tasks" /\ Tas!Init /\ NoAdm /\ NoSto /\ NoWor

\* Requests that have not begun, for they are those of the other part.
Idle(requests) == \A r \in requests : pc'[r] = "start"

ServicesNext ==
    /\ UNCHANGED part
    /\ \/ part = "admin" /\ Adm!Next /\ UNCHANGED <<vars, StoOnly, WorOnly, TasOnly>>
       \/ part = "http" /\ Next /\ Idle(ViaXmpp)
          /\ UNCHANGED <<AdmOnly, StoOnly, WorOnly, TasOnly>>
       \/ part = "xmpp" /\ Next /\ Idle(Requests \ ViaXmpp)
          /\ UNCHANGED <<AdmOnly, StoOnly, WorOnly, TasOnly>>
       \/ part = "store" /\ Sto!Next /\ UNCHANGED <<vars, AdmOnly, WorOnly, TasOnly>>
       \/ part = "workers" /\ Wor!Next /\ UNCHANGED <<vars, AdmOnly, StoOnly, TasOnly>>
       \/ part = "tasks" /\ Tas!Next /\ UNCHANGED <<vars, AdmOnly, StoOnly, WorOnly>>

\* The fairness of each part: the ACS answers what it is asked, its timers fire, and the
\* workers of a process that runs go on.
Fairness ==
    /\ \A r \in Requests \ ViaXmpp : WF_vars(part = "http" /\ Goes(r))
    /\ \A r \in ViaXmpp : WF_vars(part = "xmpp" /\ Goes(r))
    /\ \A w \in Pool :
          /\ WF_WorOnly(part = "workers" /\ (Wor!Connect(w) \/ Wor!ConnectFails(w)))
          /\ WF_WorOnly(part = "workers" /\ Wor!Close(w))
          /\ WF_WorOnly(part = "workers" /\ Wor!Exit(w))
    /\ WF_WorOnly(part = "workers" /\ Wor!Respawn)
    /\ WF_WorOnly(part = "workers" /\ Wor!Tick)

ServicesSpec == ServicesInit /\ [][ServicesNext]_servicesVars /\ Fairness

-----------------------------------------------------------------------------
\* Properties: Truthful and ClientOpen of ConnectionRequests, and those of the other modules,
\* each of the behaviours of its part.

\* A snapshot in use that is not what is stored is about to be withdrawn (Admin).
Announced == part = "admin" => Adm!Announced
\* The user interface stores presets that it can show, and those that it showed as they were
\* (Admin).
RoundTrip == [][part = "admin" => Adm!PutBack]_servicesVars

\* Every connection request ends, unless the server leaves it in the midst of opening a
\* stream (ConnectionRequests).
RequestsEnd ==
    /\ \A r \in Requests \ ViaXmpp : <>(part = "http" => Done(r))
    /\ \A r \in ViaXmpp : <>(part = "xmpp" => Done(r)) \/ <>[]Pending(r)

\* A page that says it is up to date shows what the collection has (Store).
Exact == part = "store" => Sto!Exact

\* No worker is lost, none is forked twice or too soon after another (Workers).
Manned == part = "workers" => Wor!Manned /\ Wor!Throttled
\* Once the main process has given up, no worker is left (Workers).
Ends == (part = "workers" /\ main = "gaveup") ~> [](part = "workers" => Wor!Alive = {})

\* A task is posted by one request at a time, and the queue is bounded (TaskQueue).
QueueSound == part = "tasks" => Tas!QueueSound
=============================================================================
