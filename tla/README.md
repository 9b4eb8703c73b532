# A TLA+ model of GenieACS

GenieACS is an auto configuration server for TR-069 (CWMP). Devices open HTTP
sessions with it, announce themselves with an Inform, and the server answers
with requests computed from presets, provisions and tasks. The service is a set
of worker processes that share nothing but a MongoDB database, and one CWMP
session may travel over several connections and workers. This directory has
TLA+ models of its core, the TLC configurations that check them and the proofs
that hold for every instance.

Source paths below are relative to the repository.

## 1. Inventory

The implementation is `lib/` (17.4 thousand lines), `ui/` (9.8) and `bin/`
(0.5). `PROJECT.json` lists every component with its sources and what is
modelled; `hazards` lists what is hard to test at the line where it bites, with
the properties that watch it.

### CWMP session lifecycle: `lib/cwmp.ts`, `lib/lock.ts`, `lib/cache.ts`, `lib/server.ts`

*State.* Sockets; `currentSessions` (socket -> session context); contexts in
running handlers; serialised contexts in the `cache` collection; a close timer
per closed connection; the document `cwmp_session_<device>` of the `locks`
collection. *Operations.* `listener`, `listenerAsync`, `processRequest`,
`writeResponse`, `onConnection` (which runs on after the socket's close event),
`endSession`, `acquireLock`, `releaseLock`, `cache.set/get/pop`. *Interaction.*
Every request runs one chain of awaits; close events and timers interleave with
it; other workers see only the database. *Hard:* the device reconnects, to any
worker, while a response, a close or a timer is in progress; a worker dies; a
database call rejects; documents expire on another machine's clock. *Correct
when:* a context is in one place at a time (but beside the `endSession` of a close
timer, which has read it with `cache.get`), a session in progress has the device's lock, no admitted session is lost, sessions of a device exclude each
other.

### Session engine: `lib/session.ts`, `lib/versioned-map.ts`, `lib/cwmp.ts`

*State.* Device data under revisions (`VersionedMap` for timestamps and
attributes), the stack `revisions`, nested virtual parameters, results of
scripts, the synchronisation state of the request in flight. *Operations.*
`rpcRequest` (run scripts, process declarations, descend into virtual
parameters, commit, return), `rpcResponse`, `rpcFault`, `addProvisions`,
`clearProvisions`, `serialize`, `deserialize`, and their callers `nextRpc`,
`applyPresets`, `recordFault`. *Hard:* scripts are replayed after every commit
and must read what they read before; revisions are bits of a 32 bit integer;
the stack and the map have to stay in step through faults and reconnections.
*Correct when:* writes are kept, replays repeat, changes are noticed, nothing is
lost by a commit or a reconnection.

### Snapshots: `lib/local-cache.ts`, `lib/cwmp/local-cache.ts`, `lib/ui/local-cache.ts`

*State.* Per process: `currentRevision`, `snapshots` with their eviction
timers, `nextRefresh`; shared: the hash in the `cache` collection and a lock.
*Operations.* `getRevision`, `refresh`, `get`; `cache.del` by everybody who
changes the configuration. *Hard:* the refresh awaits five times and uses what
it read before; changes, deletions of the hash and refreshes of other workers
interleave; configurations come back while the timer of their first snapshot
runs; sessions move to workers that do not have their snapshot. *Correct when:*
the revision handed out has a snapshot, a session's snapshot outlives it by
`EVICT_TIMEOUT`, an old configuration is not served for ever.

### Provisioning: `lib/cwmp.ts` (`nextRpc`, `applyPresets`, `recordFault`, `endSession`), `lib/session.ts` (`addProvisions`, `clearProvisions`)

*State.* In the database the tasks and the faults of a device; in a session the
queue `tasks`, `doneTasks`, `faults` with `retries` and `faultsTouched`, the
provisions at work with the `channels` they belong to, and the counters
`presetCycles` and `rpcCount`. *Operations.* A task is a channel of its own and a
preset names one. A session executes the tasks without a fault in turn, then
retries faults that are due, one at a time, then applies the presets of all
other channels, again and again while they change the device. A failure is
recorded for all channels at work, each of which keeps its provisions in a
fault; `endSession` writes what has changed. *Hard:* which channel has failed is
not known; a channel may fail again while it has a fault; presets come and go
while a channel waits; fetching the parameters of preconditions also marks
channels; the loop ends only by counters and delays; the writes of `endSession`
run side by side. *Correct when:* begun work is never dropped, delays are kept,
whatever is due is tried, every task is executed or faulty, sessions end.

### Operations: `lib/session.ts`, `lib/cwmp.ts`

*State.* `operations`, one per download the device has promised to report,
saved with the device; the instance of `Downloads` with the time it was last
begun and last done. *Operations.* The `Downloads` branch of `rpcRequest`,
`DownloadResponse`, `transferComplete`, `timeoutOperations`,
`revertDownloadParameters`. *Hard:* begin and end are in different sessions,
either may be lost, time-out and late report race, a task and a preset use the
same instance. *Correct when:* a download that was begun is under way, done,
faulty or begun again; one that is wanted once is done once.

### Device data and declarations: `lib/device.ts`, `lib/session.ts`, `lib/instance-set.ts`

*State.* Paths with times of attributes, explored wildcards, trackers; the
synchronisation state `syncState` of what is left to read, write, create and
delete. *Operations.* `set`, `clear`, `unpack`, `track`; `runDeclarations`,
`processDeclarations`, `processInstances`, `generateGetRpcRequest`,
`generateSetRpcRequest`, `rpcResponse`, `rpcFault`. *Hard:* what is known is
old or wrong and is found out by faults; clearing makes declarations run again;
creations and deletions change what a declaration matches. *Correct when:* the
rounds end, with the device as declared and nothing false known of it.

### Scripts and extensions: `lib/sandbox.ts`, `lib/session.ts`, `lib/extensions.ts`

*State.* Revisions and `extensionsCache` of a session; per process of an
extension its jobs. *Operations.* `run`, `commit`, `ext`, `log`, `runProvisions`,
`runVirtualParameters`; `Extensions.run`, its messages, errors and disconnections.
*Hard:* scripts are replayed from the start, answers come late, after a
time-out, or never. *Correct when:* every script ends and its effects happen once.

### Persistence: `lib/cwmp/db.ts`

*State.* The document of the device, with one key per attribute and its tags.
*Operations.* `fetchDevice`, `saveDevice` (only differences, in one update and a
second one for `$pull`), `flattenDevice` for administrators. *Hard:* a timestamp means different
things for objects and parameters; administrators change tags meanwhile.
*Correct when:* the next session and the administrators see what the last one
knew, and nobody's tags are lost.

### API operations: `lib/nbi.ts`, `lib/api-functions.ts`, `lib/ui/api.ts`, `lib/ui/db.ts`

*State.* Tasks, faults and devices with the device lock; presets and other
configuration with the hashes of the snapshots; the user and its permissions.
*Hard:* requests poll for a session they cannot see; they give up the lock; the
configuration must be announced after it is written; a preset has two forms.
*Correct when:* sessions are not disturbed, answers are true, changes are
announced, editing loses nothing.

### Connection requests: `lib/connection-request.ts`, `lib/xmpp-client.ts`

*State.* Credentials left to try, the authentication the device wants, one XMPP
client per process. *Hard:* errors, closings and time-outs of the shared client
meet requests that wait for it; nobody listens for the end of its TCP connection.
*Correct when:* every request ends and is answered truthfully; no client that has closed
or failed is in use.

### Worker supervision: `lib/cluster.ts`, `lib/server.ts`

*State.* Workers, timers of forks, recent crashes. *Correct when:* the number of
workers is kept, restarts are spaced, and nothing is left when it gives up.

### User interface in the browser: `ui/store.ts`, `ui/task-queue.ts`

*State.* Objects fetched and the filter they cover, queries with their
timestamps; queue and staging of tasks. *Correct when:* what is said to be up to
date is, no task is posted twice, the queue is bounded.

### Not modelled

- **Expressions** (`lib/common/expression/*`) and **query translation** (`lib/query.ts`, `lib/db/synth.ts`):
  pure functions over syntax trees, numbers and strings. Their meaning, which rows or devices match, is a set in
  `Store` and a choice in `Provisioning`; the functions themselves call for tests
  against the database rather than for a state machine.
- **Text formats and logs** (`lib/soap.ts`, `lib/xml-parser.ts`, `lib/logger.ts`, `lib/forwarded.ts`): no state that others depend on.
- **File server** (`lib/fs.ts`): streams a file per request.
- **Configuration, first run** (`lib/config.ts`, `lib/init.ts`, ...): read once at the start, or seed data.
- **Schedules** (`lib/scheduling.ts`): a choice in `Provisioning`.
- **The 31 bits of a channel** (`lib/session.ts:539`), which wrap after 31 provisions: `Provisioning` has sets.
- **Pages and components** (`ui/`): layout.
- `estimateGpnCount` (`lib/gpn-heuristic.ts`): `Discovery` always asks for the next level.

## 2. Modules

| module | role |
| --- | --- |
| `DeviceMutex` | abstract: a mutex whose holders may also fail |
| `CwmpSession` | sockets, handlers, cache, timers and lock of the sessions of one device; refines `DeviceMutex` |
| `CwmpSessionProofs` | its theorems |
| `VersionedMap` | one key of `lib/versioned-map.ts`, as pure operators |
| `SessionRevisions` | extends it: the revisions of a session |
| `SessionRevisionsProofs` | its theorems |
| `Provisioning` | tasks, presets, faults and retries of a device over several sessions |
| `ProvisioningProofs` | its theorems |
| `LocalCache` | the configuration cache over several workers |
| `LocalCacheProofs` | its theorems |
| `DeviceTasks` | requests of the API on a device against its sessions and its lock |
| `DeviceTasksProofs` | its theorems |
| `Operations` | downloads over several sessions |
| `DeviceData` | what is known of a device, as operators on paths |
| `Discovery` | extends it: declarations against a device |
| `Persistence` | extends `DeviceData`: the document of a device |
| `Scripts` | the replay of scripts and the process of an extension |
| `FoldFacts` | what a fold over a finite set keeps: a lemma about constant operators, of which `SessionPartsProofs` takes instances; a tool, not a result about the code |
| `SessionParts` | composes `Operations`, `Scripts`, `Discovery` and `Persistence` |
| `SessionPartsProofs` | theorems of its parts and of the whole |
| `Admin` | configuration changed through both interfaces |
| `ConnectionRequests` | connection requests and the shared XMPP client |
| `Store`, `TaskQueue` | the browser: queries, and the queue of tasks |
| `Workers` | the main process of a service and its workers |
| `Services` | composes `Admin`, `ConnectionRequests`, `Store`, `TaskQueue` and `Workers` |
| `ServicesProofs` | theorems of its parts and of the whole |
| `MCCwmpSession`, `MCSessionRevisions`, `MCProvisioning`, `MCLocalCache`, `MCDeviceTasks` | instances of one module for TLC |
| `MCSessions` | `CwmpSession` with three sets of constants |
| `MCRevisions` | `SessionRevisions` with and without reconnections, and `LocalCache` |
| `MCSessionParts`, `MCServices` | the constants of `SessionParts` and of `Services` for TLC |

`SessionParts`, `Services`, `MCSessions` and `MCRevisions` put independent instances side by
side: the initial states choose a `part`
once and for all, a step is a step of that part, the variables of the other parts
are `Unused`, or, for the module that the instance extends, stay as they begin, so that
its properties are checked as they are stated and proved. The state graph is the disjoint union of those of the parts, so
that a property `part = "x" => P` says of the instance what `P` would in a run of
its own; fairness is that of each part, conditioned in the same way.

Definitions whose comment starts with "Mutated form" or "Mutant" are not part of a model:
each is a plausible bug of the definition after it, and `PROJECT.json` says
which property that bug violates.

### CwmpSession

Everything concerns one device, since sessions of different devices share
nothing. `current` is `currentSessions`, `handler[c]` the `listener()` call of
connection `c` with the await it is at (`auth`, `lock`, `run`, `end`,
`release`), `extending` the lock extensions that `writeResponse` awaits after it
has put the context back, `watch` the `onConnection` calls past the close event
(`store`, `wait`, `end`, `release`; `timer` tells those whose close timer has fired, which
work on a context that the cache still has), `lock` and `cache` the two documents,
`ctx` the few fields of the context that decide anything (`state`, `authState`,
`lastActivity`, `extendLock`).

| actions | code |
| --- | --- |
| `ReceiveInform`, `ReceiveInSession`, `Resume` | `listenerAsync` up to its first await after the context is known |
| `AuthSucceeds`, `AuthFails`, `AcquireLock`, `Dispatch` | `processRequest` |
| `Respond`, `Finish` | `writeResponse` without and with close |
| `ExtendLock`, `ExtensionFails` | the `acquireLock` of `writeResponse` |
| `SaveIn...`, `ReleaseIn...` | `endSession`, called from a handler or a timer |
| `Disconnect`, `StoreSession`, `CheckSession` | `onConnection` after the close |
| `HandlerThrows`, `WatchThrows`, `Crash` | a rejected await; the worker's exit |
| `ExpireLock`, `ExpireCache`, `Tick` | TTL indexes and time |

*Time.* `now` is a global clock; a phase (everything between two states of a
handler) lasts at most `ProcTime`. The database clock may run `ClockSkew` ahead.
`TimingAssumption` says when the constants of the code are large enough; it is
tight (the instance `slow` is at the limit and one unit less breaks `LockCoverage` or
`Accounted`). With the values of the code (`REQUEST_TIMEOUT` 10 s, 
`CLOCK_SKEW_TOLERANCE` 30 s, one second of grace) it asks that no phase takes
more than 6.5 s if the clocks agree. No property needs a fair scheduler.

*Abstractions.* A connection stays on one worker (what a load balancer does
with a socket); the computation of a request is one phase; a worker that met an
uncaught exception stops accepting and exits at any later time; `MaxOrphans`
bounds failures. Unrelated crashes of idle workers have no effect and are left
out.

### VersionedMap and SessionRevisions

`VersionedMap` has `get`, `set`, `getRevisions`, `setRevisions` and `collapse`
for one key: an array of values by revision, with bit `rev % Width` of the mask
(`Width` is 32 in JavaScript). `NeverEnds` is the condition under which the loop
of `setRevisions` does not end: the highest bit is in use, which is the sign. It can be,
since `cwmp.maxCommitIterations` is 32 by default, as many as there are bits.

`SessionRevisions` has one map for timestamps and attributes, since they always
get the same revisions. `stack` is `sessionContext.revisions`, `depth` the
number of nested virtual parameters, `rets` the results of scripts, `synced`
the declarations processed, `rounds` the iterations. The phases are `open`
(before the empty request), `run` (inside `rpcRequest`), `sent` (a request is
with the device), `done` and `failed` (it returned nothing, or a fault),
`ended`, and `hung` (the loop above). `RunScripts`, `Declare`, `Again`,
`Descend`, `Send`, `Commit`, `Return` are the branches of `rpcRequest`;
`NextTask`, `ApplyPresets`, `RunPresets`, `Finish`, `Terminate` its callers;
`Response`, `InvalidName`, `Fault`, `Reconnect` what the device does.

*Abstractions.* What a script, declaration or response writes is any batch of
values and deletions (`Batches`). The limits on requests and cycles are one
non-deterministic fault. `size` is not modelled: nothing reads it (its value is
not kept correct by `collapse` and `setRevisions`).

### Provisioning

`dbTasks` and `dbFaults` are the two collections, `now` the timestamp of the
session; `tasks`, `faults`, `retries`, `touched`, `done`, `channels`,
`provisions`, `cycles`, `rpcs`, `white` are the fields `tasks`, `faults`,
`retries`, `faultsTouched`, `doneTasks`, the keys of `channels`, `provisions`,
`presetCycles`, `rpcCount` and the argument `whiteList`. `bits[c]` is the set of
provisions that the bits of `channels[c]` stand for; a channel that is only
marked (value 0) has none. `unread` are the channels whose preconditions or
arguments read parameters the session does not know yet.

| actions | code |
| --- | --- |
| `Load` | `listenerAsync`: reading tasks and faults |
| `Empty`, `Answer`, `AnswerFails` | `processRequest`: the device is ready, answers, or its answer is a fault |
| `NextFaults`, `NextSends`, `NextDone` | `nextRpc`: `rpcRequest` fails, has a request, or is done |
| `FetchFaults`, `FetchSends` | `applyPresets`, first `rpcRequest`: parameters of preconditions |
| `Apply`, `Loop` | `applyPresets` from the preconditions to the second `rpcRequest`, or to the fault `preset_loop` |
| `PresetsFault`, `PresetsSend`, `PresetsDone` | the outcomes of the second `rpcRequest` |
| `Terminate` | the fault `session_terminated` of `endSession` |
| `Save` | the writes of `endSession` |
| `Crash` | the worker exits, also with some of these writes done |

Phases: `next`, `apply` and `presets` are inside `nextRpc` and `applyPresets`,
`sent` is with the device, `served` and `dropped` are in `endSession`. In `lost`
the server has finished but its last response finds the connection gone, so the
session is terminated for the channels that were still listed. In `thrown`
`recordFault` has thrown.

Two ghosts: `owed[c]` are the provisions that were begun for a channel and not
completed, `slipped` the tasks whose retry needed no request.

*Abstractions.* `rpcRequest` is a choice between a request, a fault and being done
(the engine itself is `SessionRevisions`). The order of provisions and the bits
are a set. `Object.entries` gives one of the due faults first; which one is a
choice. Presets that pass the filter but have no provisions are left out, and so
are faults of downloads. `MaxRetries` bounds the count where the delay is longer
than the clock may run. What the model keeps of the code although it looks odd:
the comparison `v.expiry >= timestamp` (faults of tasks that have *not* expired are
dropped, and the tasks tried at once); `precondition` is not saved, so that a
channel whose preconditions cannot be fetched tries again in each session; and
`doneTasks` does not get a task that was retried without a request.

*Fairness* (`FairSpec`, for `SessionEnds` only): one weak fairness for all steps of a
session, because `nextRpc` and `applyPresets` are one chain of calls and a device
that does not answer is given up by the close timer. That a device starts a
session is not fair.

### LocalCache

`config` are the collections, `pending` the changes whose `cache.del` is still to
come, `stored`/`ttl` the hash document, `owner` the lock. Per worker, `pc` is
the await that `refresh` is at, `due` whether `nextRefresh` lies in the past,
`rev`, `keep`, `seen`, `loaded` are `currentRevision`, `snapshots` (with the
periods left of each timer), `dbHash` and what the callback has read. The
actions of `Refresh` are the lines of `refresh` between its awaits; `LoadPart`
is one collection of the `Promise.all`. `Throws` and `Restart` are a rejected
call and the exit that follows it, `Change` and `Invalidate` the two steps of
everybody who writes the configuration. `StartSession`, `Move` and `EndSession`
are the sessions that keep a revision (`cacheSnapshot`).

*Time* is counted in periods of `REFRESH` (5 s), to whose grid the code aligns
`nextRefresh`. A refresh is shorter than a period, so the lock (5 s and 30 s of
tolerance) does not expire under its owner. `HashTTL` stands for the longest
life of a hash: 300 s, the tolerance of 30 s, and the interval in which the
database deletes expired documents; `TTLSlack` is how much earlier it may go.
`Evict` stands for 120 s. A hash equals the content it is computed from (MD5
collisions are left out).

*Fairness* (`FairSpec`, for `Converges` only): each worker goes on with its refresh
and starts one when one is due, which means that requests keep coming to every
worker, and leaves when a rejection stopped it (`exitWorkerGracefully`); the
database and the callers of `cache.del` go on (as one group: none of them in
particular has to be served), and time passes. Failures, changes and sessions
are not fair.

### DeviceTasks

Each await of a request is a step (`request[c].pc`), `owner` is the document of the
lock, `adrift` are writes that nobody waits for any more. `Acquire`, `GiveUp`,
`Release` are `lib/lock.ts`; `Insert`, `Add`, `AddFails` are `insertTasks`; `PollInform`,
`PollToken`, `NotStarted`, `PollEnd` are `awaitSessionStart` and `awaitSessionEnd`;
`Deleted`, `Write` and `Clean` the deletions; when one of several concurrent writes fails
(`WriteFails`) the others are `adrift`, and `Land` whenever they like, also in a session that
was admitted after the lock was released. A request ends (`over`) with its answer, or
`crashed`: it has thrown, in `Find`, `Check`, `Call` or a poll for a document that is not there
or not as it expects, in a failing write, or in `releaseLock`. The user interface makes an error of
that; the NBI sends nothing (`src/lib/server.ts:92`). The worker then stops accepting requests and
exits when those it has are served (`src/bin/genieacs-nbi.ts:75-83`); that its exit may cut
others off is not modelled. The session of the device reads the tasks, is
admitted, works, saves and releases (`SessionStep`), or is lost.
*Fairness:* handlers go on, and the time a request gives the device ends
(strongly fair, since a session switches it off and on); nothing is asked of
the device. `RequestsEnd` says that a request ends, which is not that it is answered:
`RetriesAnswered`, which a document promises, does not hold.

### Operations

`db` is what is saved, `ctx` the session, `cpe` the transfers that the device has
not reported. `DownloadAnswered` is the request with its three possible answers,
`TransferComplete` the report, `TimeOut` `timeoutOperations`, `Fail` the fault that
both record with its retry, `SessionLost` a session that ends without saving.
`sent`, `done` and `overlap` are ghosts; `nth` numbers the downloads that were begun, for
two of them may fall into one unit of time. Time is counted in units to which
time-out and retry delay are scaled.

### DeviceData and Discovery

A path is a sequence of segments; data has times of paths, attributes with
times, trackers, and the set of changes. The device has an object `D` with
instances and a parameter `a` each. `phase = "acs"` is the inside of `rpcRequest` (`Acs`:
`GoOn`, `DeclareAgain`, `Ask`, ...), `"cpe"` a request under way; `Respond` has every answer,
faults for names and values that are gone included; `Drift` is the device
changing on its own. Each scenario is a set of declarations in the manner of
the default provisions. What an earlier session knew may be anything that was true of some
device. *Fairness:* answers come.

### Persistence

A document is a function from keys (path and field) to values; `Save` and `Pull` are the
two updates of `saveDevice`, `UpdateTags` an administrator between them or
before, `Change` the device becoming another one between sessions. `ShownAsKnown` uses
`Flatten`, translated from `flattenDevice`.

### Scripts

A script is a sequence of statements. A run goes through them from the start
(`Replayed`): declarations before the revision are skipped, an extension is
called unless its answer is in `extensionsCache`, a log is written only at the last
revision and once. `jobs` are the calls of `lib/extensions.ts`, `child` the process, `wire` its
messages in order, `settling` the answers that the disconnection gives.
*Fairness:* the ACS goes on and its timers fire; the process may hang.

### Admin

`request[c]` is a request at one of its awaits, `store` the collections, `known` the
snapshots behind the hashes `cwmp-local-cache-hash` and `ui-local-cache-hash`.
`CheckUi`, `CheckNbi` have the order of checks of each route with their status codes,
`Write`, `Upload`, `Announce`, `Remove` the writes. `FlattenPreset` and `PreProcessPreset`
are the two conversions, from what is stored to what is shown and back (`lib/ui/db.ts:255-347`),
and are modelled by what they do. What may be absent, or thrown, is a set of at most one element.

- *Events* are stored by name and shown as one text, split at commas when it comes
  back. A name is a sequence of words, the parts between its commas; a word has a
  text, signs before it and perhaps spaces around it. `ShownEvents` puts a sign before the
  first word of an event that must not have happened; `ReadEvents` trims each word, takes one
  sign off, drops what is empty, and of two words for one event one counts. `Legible` are
  the events whose text says all that is stored: names of one word without spaces, with
  signs only if negated. Values of events are `TRUE` or `FALSE`, what the code makes of them (`v ? k : ...`).
- *Arguments*: none and an empty list are both shown as an empty text, which is stored as no
  arguments (`Given`, `Document`). A `"verbose"` argument is one that is read as another
  expression than it was written as, `"bad"` one that does not parse.
- *Precondition*: `"old"` is the form before expressions, which is converted when it is shown
  and refused when it is sent; `"bad"` can be neither. Absent and empty are the same.
- *Weight* becomes a number (`parseInt`), whatever it was sent as.
- *Configurations*: only a single provision is shown with its name; a preset with several or others
  is shown without, and refused when it comes back. A preset that cannot be shown (no configurations,
  a bad precondition) ends a list.

The north-bound interface stores any document, so nothing is assumed of it but that events have names.

### ConnectionRequests

`pc` is the await a request is at, `stage` the stage of the opening of the XMPP client
that a request has started, `xmppClient` the one in use. `ExtractAuth` takes the next
credentials; `HttpGet`, `HttpAgain`, the UDP steps and the XMPP steps are the awaits; `ClientGone` is an
error or a close of a client, in any order with the time-outs. `ClientCut` is the server ending
the TCP connection without `</stream:stream>`: a client listens only to data, errors and its
idle time-out (`lib/xmpp-client.ts:352-361`), so it stays in use (`cut`), and reports an error
only if it is written to before its socket is destroyed. An error of the TLS handshake is one of `OpenFails`.
*Fairness* (`Goes`): timers fire, and an attempt to connect comes to something. Nothing is asked of a
server that is connected: while the stream is being opened the code has no time-out and does not
listen for the end of the connection (23-76, 324-350), so a request may wait for ever. `RequestsEnd`
excepts that (`Pending`); `AllTimeOut` does not, and does not hold. A request whose opening
fails ends by throwing, which is not an answer.

### Workers

`main` is the main process, `timers` the forks that are due, `crashes` the recent ones,
`worker` where each process is (starting, listening, closing, exiting) and since when.
`Died` is `restartWorker`. *Fairness:* processes go on and timers fire.

### Store and TaskQueue

A filter is the set of rows it matches; union, difference and the rows before
the first gap (`lib/common/expression/synth.ts`, `pagination.ts`) are modelled by that meaning. `Render` is
the drawing of a page with `fulfill`, a batch goes through counts and bookmarks (`Answer`), `Join`,
`Read` and `Receive`. `still` is the condition under which `Exact` is promised: no change
behind the browser, no failure, no two overlapping batches since the time
stamp. `TaskQueue` has the functions of `task-queue.ts` and the
buttons that call them; `commits` are the requests under way.

## 3. Runs

| run | shows | bounds |
| --- | --- | --- |
| `sessions` | `SingleHolder` (with the exception of a close timer that has fired), `Accounted`, `LockCoverage`, and `ImplementsMutex` (the refinement of `DeviceMutex`) of `CwmpSession`: when the device reconnects to another worker; when phases take time and the database clock runs ahead; when two sessions of a device compete | one session, two connections and two workers, every kind of request, 9 units of time with a session time-out of 2, one failure; one session on one connection at the limit of `TimingAssumption`, from its start until it has ended or 13 units of time are over; two sessions, two connections, one failure |
| `revisions` | `WritesLand`, `HangsAtLimit`, `ChangesAreDirty`, `RepeatableReads`, `NothingForgotten` of a session, also saved and restored between requests (then without CPE faults); `Converges` of the snapshots under fairness | one key, two values, 4 bits, 4 commits (when restored, too), depth 4; two workers, one change, one failure |
| `cache_snapshots` | `CurrentServed`, `SnapshotKept`, `FreshAnswers` | two workers, one collection, one session, two changes or a change and a failure |
| `provisioning` | `NothingDropped`, `BackoffRespected`, `DueFaultsTried`, `TasksSettled`, and `SessionEnds` under fairness | three tasks (one unknown, one that expires), two channels, two sessions, two passes, two requests |
| `device_tasks` | `OnlyAfterASession`, `QueuedForADevice`, `SessionsUndisturbed`, and `RequestsEnd` under fairness | two requests with the same uniqueKey, two sessions or failures |
| `session_parts` | `Accounted`, `DownloadedOnce` of downloads; `LoggedOnce`, `Finishes` of scripts; `KnownWhenWritten`, `Fulfilled`, `Settles` of declarations; `SavedWhole`, `TagsMerged` of documents | two channels and one lost session; three scripts, two sessions, one crash; three instance numbers of which the device has up to two at first, two values, seven scenarios, one change; four devices, two sessions, one tag |
| `services` | `Announced`, `RoundTrip` of administration; `Truthful`, `ClientOpen`, `RequestsEnd` of connection requests; `Exact` of the browser; `Manned`, `Ends` of workers; `QueueSound` of the queue of tasks | two requests of three clients; a connection request over HTTP and UDP, two over a shared XMPP client; two objects, three queries, two pages, one change, one failure; two workers, 12 units of time; four tasks, a queue of 3 |
| `session_revived` | **violated** `NoConcurrentSessions` | |
| `session_stale_load` | **violated** `LoadedUnderLock` | |
| `revisions_lost` | **violated** `WritesLand`: a CPE fault after a reconnection | |
| `presets_throw` | **violated** `FaultHasChannel` | four passes, as in the code |
| `restore_hangs` | **violated** `Restorable`: as many commits as bits | 4 commits on 4 bits, for 32 on 32 |

Every property of a passing run has a mutant in `PROJECT.json`: a plausible bug of the
code under which that run finds it violated. The type invariants (`TypeOK`) are theorems where
there is a proof module, and are not among the runs' properties.

*Why these bounds.* Sessions of one device only meet through the lock, so two
show every conflict; a context can be on at most two connections at once (the
one that closed and the one the device opened), and the second one may be on
another worker. The clock allows a session to be started, reconnected twice,
timed out and its documents to expire. A session that is alone starts at time 1 (nothing but
the passing of time can come before it), and the part `slow` stops once its session has ended, since
`LockCoverage` and the mutex speak only of sessions in progress. In `SessionRevisions` keys do not
interact except through `dirty`, and the commit limit and the width are scaled
together: the defaults, 32 commits on 32 bits, become 4 on 4, in the restored instance too. There
a session that has used the last bit is not restored (`hung`), which `HangsAtLimit` confines to the last
iteration that is allowed; the mutant does not count the iterations of virtual parameters. In `LocalCache` two
changes (there and back) bring a configuration back while the timer of its
first snapshot runs; staleness takes two workers, one that stores an old hash
and one that believes it. `Settled` in `FreshAnswers` is tight: with a hash that
lives one period longer the run fails. A `cache.del` may get lost in every run;
rejected calls and exits of workers take one of the `MaxEvents` that changes and failures
have together, and are without this bound in the theorems.
In `Provisioning` two sessions show what the first one leaves to the second; the
tasks are one of each kind, and two channels are what a common fault needs. One
provision is enough, because a fault only ever adds to a set. `MaxCycles` is 2
instead of 4, `MaxRpcs` 2 instead of 255: each limit is reached. The theorems
hold for any number of sessions, channels, provisions and passes.

In `DeviceTasks` two requests are enough for any conflict over the lock or a
uniqueKey. In `Discovery` three instance numbers allow a hole between two
instances, and every pair of a known and an actual device of up to two
instances is an initial state. In `Scripts` one script calls two
extensions before and one after a commit, while another one waits for the
same call. In `ConnectionRequests` two requests share the client and one has two
transports. In `Store` a page with a limit is followed by one that needs more
rows and the number. In `Workers` the third process is the successor that starts while
its predecessor exits. In `TaskQueue` the queue holds three of four tasks.

### Disagreements between code and documentation

Each violated run is a finding of `PROJECT.json` with the quoted statement.

1. *A session ended by its close timer can be resumed.* The timer ends the
   session and releases the lock, but its cache entry stays for some seconds.
2. *Data is loaded before the lock is taken*, so it may be what the previous
   session is about to replace.
3. *Collapse does nothing on restored data* (`_sizeDiff` is not restored), so
   after a CPE fault `set` returns null ("Can't modify old revisions") and the
   write is dropped.
4. *A preset loop may have no channel.* When the presets have converged, or all
   wait for their faults, in the fifth pass, `applyPresets` records `preset_loop` for
   no channel and `recordFault` throws ("Fault not associated with a channel!").
5. *A session that has used bit 31 is never restored.* `1 << 31` is negative and `>>` keeps
   the sign, so the loop of `setRevisions` does not end; the default of
   `cwmp.maxCommitIterations` is 32, as many as there are bits.

More things the models show without a run of their own. The lock of `refresh` is not waited for, so several
workers may load the configuration at once, and one that has loaded before a
change may store its hash after the change has deleted it; `FreshAnswers` says how
long that can matter. A session that moves to another worker keeps the revision
of the first, of which the second may have no snapshot. Faults of tasks are
deleted while they have *not* expired (`src/lib/cwmp.ts:1565`; its comment says
"Delete expired faults"), which is why `BackoffRespected` excepts tasks that expire.
A task that is retried from its fault and needs no request stays in the
collection and is executed again, although
`src/claudedocs/workflow/04-DATA-FLOW.md` has it deleted after its execution:
these are the tasks in `slipped`.

Other definitions state more promises of the documents or comments that do not
hold; their definitions say so, and TLC finds each of them violated on an
instance of its module.

- `DeviceTasks!SuccessIsExecuted`: the NBI answers 200 when a session has started and ended
  and the task has no fault (`src/lib/nbi.ts:395`), also when the task is still
  queued; `src/docs/api-reference.rst:103` says that it was executed.
- `DeviceTasks!DeletionsLocked`: `Promise.all` rejects with the first of the writes of a deletion
  that fails, `finally` releases the device lock, and the others go on under the next session
  (`src/lib/api-functions.ts:378`); `src/claudedocs/specs/NBI-API-SPEC.md:448` says that the lock prevents
  concurrent modifications.
- `DeviceTasks!RetriesAnswered`: the 500 of a handler that throws is written only when headers have
  already been sent (`src/lib/server.ts:92`, an inverted condition), so the retry of a task that is gone gets no answer;
  `src/claudedocs/NBI-API-INTEGRATION-GUIDE.md:973` says that it gets a 500.
- `ConnectionRequests!AllTimeOut`: a request waits for ever for the XMPP stream it opens when the server
  does not go on with it (`src/lib/xmpp-client.ts:339`); line 762 of the same guide has a time-out for XMPP attempts.
- `Operations!TimeOutHandled`: with `cwmp.downloadSuccessOnTimeout` the call of
  `transferComplete` (`src/lib/session.ts:463`) has no `faultStruct`, whose code
  is read, so the session is lost by an exception.
- `ConnectionRequests!RetryReported`: the second attempt after an unexpected
  close is sent, but its answer is not used (`src/lib/connection-request.ts:133-147`).
- `Admin!UsersLoad`: setting the password of a user who is deleted meanwhile writes
  a user without roles (`src/lib/ui/api.ts:753-764`), which the cache of the user interface cannot load.
- `Persistence!TimesClamped`: timestamps are set back to the session's after the
  value that is stored has been read (`src/lib/cwmp/db.ts:394`).
- `Store!Requested`: after a failed request the queries of its batch stay marked as
  being fetched (`src/ui/store.ts:326`) and are not asked for again.
- `Workers!ExitsWhenTold`: `stop` does not set the exit code that the timer of
  `restartWorker` looks at (`src/lib/cluster.ts:67-70`), so a worker may be forked after it.
- Staged edits for more devices than `MAX_QUEUE` allows are refused only when they
  are queued (`src/ui/drawer-component.ts:175-182`).

## 4. Theorems

All are proved for every value of the constants that satisfies the named
assumptions (`ConstantsAssumption`, the assumptions on `Width` and values,
`RevisionsAssumption`, `CacheAssumption`, `ProvisioningAssumption`, `TasksAssumption`,
`OperationsAssumption`, `RequestsAssumption`, `CountAssumption`), none of which bounds the instance. In `TaskQueue`, `Workers`, `Admin`, `Store` and `Scripts` the
assumption is a definition, the hypothesis of the theorem, which `Services` and
`SessionParts` assume (`ServicesAssumption`, `PartsAssumption`): finitely many tasks, edits apart from each other and
from what the buttons queue; at least as many identifiers as workers, and a positive
`RespawnGap`; that the events of presets sent over either interface have names made of words (of the
north-bound one no more, for it stores any document), and that its clients are not
those of the user interface; that there are finitely many identifiers, ordered by number, and
filters are sets of rows; that a script is a sequence of statements. `ProvisioningAssumption` has a
conjunct of arithmetic, that powers of two are positive: exponentiation is recursive and the provers do not know it, TLC
checks it on every run. It also says that no preset names the channel of a task.

- `CwmpSessionProofs!TypeCorrect`: `TypeOK`, inductive by itself once handlers
  are typed by phase.
- `CwmpSessionProofs!OneHolder`: `SingleHolder`. A context cannot be in two
  places, but to show it one has to know more than `SingleHolder` says: that a
  handler or a record of `onConnection` past its store phase and the cache
  exclude each other, and that a context that is free to be created again is
  nowhere. A timer that has fired counts as a holder and is the one stated exception: it has read the entry with
  `cache.get`, and a late request may pop it. The proof goes action by action: each takes the context away from
  one place and puts it into at most one other.
- `CwmpSessionProofs!LockCovers`: `LockCoverage`; `CwmpSessionProofs!NoneLost`: `Accounted`;
  `CwmpSessionProofs!LockRefines`: `ImplementsMutex`. All three come from `CoverInv` and need
  `TimingAssumption`. That the lock has not expired is not inductive, because what
  counts is when it will be used next. `Good(s, t)` says that the lock of `s` is good beyond `t`
  for any database clock, or will be once an extension in flight is executed, and
  `HandlerInTime` and `WatchInTime` ask for it at the end of all the phases that can
  still follow the present one: four for an authentication, then three for the next
  RPC, two for the saves of `endSession` and one for the release. Three facts carry it.
  A session that is not in a handler has been idle for a bounded time only (`SocketOK`
  and `WatchOK`, from `Tick`'s bounds), and its lock is good for the whole idle time after
  the next extension is due (`Locked`); this is where `REQUEST_TIMEOUT` and
  `CLOCK_SKEW_TOLERANCE` are spent (`GoodWhenLive`). An extension in flight is the last one
  that was due and the old lock outlives it (`ExtensionOK`, `Locked`), so two extensions
  of a session are never under way. And a session that was challenged counts as live
  until its idle time is over (`Live`, weaker than `InProgress`): the device may answer the
  challenge, and then it is in progress again with a lock that nobody has looked after
  meanwhile. `Accounted` needs the same invariant, since the cache entry must not expire
  before the close timer has fired. The refinement adds that no step hands the lock
  from one session to another (`NoHandOver`): a session begins only after a state in which
  nobody has it.
- `SessionRevisionsProofs!TypeCorrect`: `TypeOK`. The lemmas on `VersionedMap` say
  what `set`, `collapse` and `setRevisions` do to the length of an array;
  bounds on sets of revisions use well-founded induction on the naturals
  (`MaxOfBounded`), because the induction theorems over operators are out of
  the provers' reach.
- `SessionRevisionsProofs!WritesAlwaysLand`: `WritesLand`, if the device does not
  reconnect or does not answer with faults (without that assumption it is false:
  `revisions_lost`). The invariant is `TypeOK /\ Levels /\ Lengths`: `Levels`
  relates the depth, the stack and the results of scripts in every phase, and
  `Lengths` bounds the array of every key by the top of the stack. Neither is
  inductive without the other: returning from a level pops the stack, and only
  `Levels` says that the data has been collapsed by as much.
- `SessionRevisionsProofs!ReadsAlwaysRepeat`: `RepeatableReads`; `NothingEverForgotten`:
  `NothingForgotten`; `RestoredBelowLimit`: `HangsAtLimit`. Here the device answers as it likes,
  faults after a reconnection included: writes may be refused then, but nothing that
  was read changes and nothing that is kept is lost. All need that sessions are
  not restored or that `MaxRounds <= Width`, which the defaults meet (32 and 32). The third also
  that there are more than two bits; it says that a session
  is restored whenever `MaxRounds < Width`, and with the defaults unless it is in the last
  iteration or had a CPE fault: where it is not, `restore_hangs` shows it. All come from `Bounded`: `Counted` says that
  every committed revision took an iteration, on each level of the stack; `Positions` where
  `device.set` writes, and that a session that has committed knows its sizes again; and
  `Short`, from the two, that an array ends next to the committed revision or below the
  limit. `Lengths` does not hold here: after a reconnection a collapse may do nothing.
  `DataStep` reduces the actions to five things that can happen to the data, and the
  rest is about one key: `CollapsedReads`, `PutReads` and `RestoredReads`. The last one says
  that an array of at most `Width` revisions is restored as it was; that a value is the
  one of the last change (`LastChange`) takes a least counterexample (`LeastOf`), in place of
  an induction over the array.
- `SessionRevisionsProofs!ChangesAlwaysDirty`: `ChangesAreDirty`, if `MaxRounds <= Width`,
  restored or not. `Seen` is stronger in two ways. It holds during the whole of the second
  `rpcRequest`, and it admits that a change leaves no bit above the lowest when it is made
  at revision `Width`, whose bit is bit 0 again: `Counted` then says that no
  further step is within the limits, so the presets end in a fault and `dirty` is not asked.
- `LocalCacheProofs!TypeCorrect`: `TypeOK`.
- `LocalCacheProofs!CurrentAlwaysServed`: `CurrentServed`, from `Serving` (no timer
  runs for the current snapshot, not only: it is there) and `Ready` (who is
  given an answer is given a revision).
- `LocalCacheProofs!SnapshotAlwaysKept`: `SnapshotKept`, from `Timed`: the time
  left of a session's snapshot and the age of the session add up to at least
  `Evict`.
- `LocalCacheProofs!AnswersAlwaysFresh`: `FreshAnswers`, from `Fresh`, which follows an old hash
  backwards: it is believed (`StaleServed`) because it was compared with the cache
  (`StaleSeen`), where it was (`StaleDies`) because a refresh that began before the change
  stored it. A refresh that began after the change has read nothing else than the
  configuration (`Fetched`, `Recent`). The bound on a hash read before a period began is one
  period later than that of one read in this period.

- `ProvisioningProofs!TypeCorrect`: `TypeOK`; a request is only sent when there is
  room for its answer.
- `ProvisioningProofs!TasksAreSettled`: `TasksSettled`. It speaks of the end of a
  session and is not inductive; `TasksLooked` says the same from the moment
  `nextRpc` hands over to `applyPresets`, because faults only end there together
  with the task they belong to.
- `ProvisioningProofs!DueFaultsAlwaysTried`: `DueFaultsTried`, from `NothingDue`: a pass
  for all channels begins when no fault is due, and a fault recorded in it has a
  positive delay (`NewFaultWaits`, which needs that a fault has a number of
  retries: `RetriesCounted`).
- `ProvisioningProofs!BackoffAlwaysRespected`: `BackoffRespected`, from `Resting`: in every
  session the fault of a waiting channel is the saved one or one of this session.
  The last case is what makes it inductive: the channel may be marked while
  preconditions are fetched and fail, which must not set `retryNow`.
- `ProvisioningProofs!NothingIsDropped`: `NothingDropped`, from `Kempt`, a conjunction over
  channels (`Sound`, `Remembered`) and tasks (`Whole`, `Settled`). `Remembered` alone is not
  preserved: a completed channel loses its fault, so one has to know that it
  worked on everything in it (`Sound`); a task that leaves the queue must leave
  nothing behind (`Settled`); and a fault that is dropped at the start of a session
  must have its task in the queue, which fails for a fault whose task is deleted
  (the worker died between the two writes) unless that task has expired. The
  proof has one lemma per action.

- `DeviceTasksProofs!ExecutedOnlyAfterASession`: `OnlyAfterASession`, from `TaskInv`. `Sound`
  says for every place of a handler what it knows: a request that still has the lock
  has seen no later inform; once it waits, either a session has found its task, or the
  inform is still the one it remembers and no session has the lock. The two polls
  of `awaitSessionStart` each refute one half of the latter. It needs that a session under
  way has the lock (`SessionOwns`).
- `DeviceTasksProofs!NeverQueuedForNoDevice`: `QueuedForADevice`, and
  `DeviceTasksProofs!SessionsNeverDisturbed`: `SessionsUndisturbed`, both from `DeviceInv`: who
  deletes has the lock or has lost it while it stalled, and while nothing has failed
  no write is adrift. The second is a property of all steps, of handlers, sessions and writes that
  nobody waits for (`Land`): what takes something from under a session is the session, a stalled request,
  the replacement or withdrawal of a task, or what a failed deletion left under way.
- `SessionPartsProofs!NoDownloadForgotten`: `Accounted`, and `SessionPartsProofs!PresetAsksOnce`:
  `DownloadedOnce`, both from `DownloadInv`, which says the same of what is saved and of
  what a session has, since the one becomes the other. What makes it inductive is what
  the parameter `Download` says (`Marked`, `Begun`): it is the time of a success, or of an
  operation that is under way and the last to have begun. An operation that fails
  sets it back to `LastDownload`, so what was begun before and is over must not hang on it:
  the fault it leaves accounts for it, or a later download does (`AccountedIn`). An
  operation is found by its key only, so every key is that of one download (`Keyed`); and
  as long as no two are under way at a time, at most one is (`Single`). The attempt found that
  "later" cannot be told by the time: two downloads may begin in one unit of time, hence
  `nth`.
- `ServicesProofs!AnswersAlwaysTruthful`: `Truthful`, from `AnswerInv`. That the
  credentials are incorrect is said once, at the end, of all of them. `RestLeft` says that
  those not taken yet are the end of what was configured, and `RefusedSoFar` that each one
  before that has no user name, was sent and refused, or is in use. To take the next, those in
  use must have been sent and refused, which hangs on where the request is
  (`UsedInPlace`). That `extractAuth` passes over no user name is `ExtractAuthTakes`; it needs that
  a set of positions has a least one.
- `ServicesProofs!ClientAlwaysOpen`: `ClientOpen`, from `OpeningIsNotUp`: a client that
  is being opened is not up, so a stage that it reaches or an error that it meets
  never concerns the one in use. The client in use is up, or was cut off by a server that did not end
  the stream (`ClientCut`); it is none that has closed or reported an error.
- `ServicesProofs!QueueAlwaysSound`: `QueueSound`, from `Apart` (requests of all commits have
  no task in common), `PendingIsPosted` and `StagedUntouched`. Without the last a staged edit
  could call back a task that is posted, and have it posted again.
- `ServicesProofs!AlwaysManned`: `Manned`, from `TimersPast`: no timer is later than
  `respawnTimestamp`, so a new one adds to the set and firing one takes exactly one away.
  Nothing is claimed once the main process has given up or is stopped.
- `ServicesProofs!AlwaysThrottled`: `Wor!Throttled`, from `Spaced`: the last fork and the timers are
  `RespawnGap` apart of each other, no timer is overdue and none is later than
  `respawnTimestamp`. So a worker is only forked at once when no timer is set.

- `ServicesProofs!ChangesAlwaysAnnounced`: `Announced`, from `TodoIsAnnounced`: a request has
  hashes left to remove only after it has written, and what writes without an announcement
  (an upload) is of files.
- `ServicesProofs!PresetsAlwaysReturn`: `RoundTrip`, a property of steps. What the user interface
  stores is in a form that it can show again as it is (`PreProcessedForm`), and what it was shown of a preset
  it stores with the condition and weight of that, its events if they are legible, and as the very
  document if that was in its form (`PresetReturns`, from `WordReturns` and `EventsReturn`: a word that is
  shown is read as what it was). This takes that the events of every preset that is stored, on its way or remembered by a
  client are made of words, whichever interface it came through (`StoredAreSpelt`,
  `SeenAreSpelt`, `IsSound`); of the documents of the north-bound interface nothing else is assumed.
- `ServicesProofs!PagesAlwaysExact`: `Exact`, from `ExactInv`. While nothing has disturbed the
  browser since the stamp, there is at most one batch (`OneBatch`), and the rows that have been
  asked for and are not on their way are held as the collection has them (`Coherent`). The
  limits are the difficult part. An answer that is shown in part asks for its bookmark from
  where the rows that are held end (`RightPlace`): that takes that the rows ahead of the first
  gap come first and that fewer than the limit were found only because there are no more
  (`FewFound`, an argument with the least place beyond the limit). The bookmark then reaches
  exactly as far as the limit (`BookmarkGood`), or there is none and everything is
  fetched. `AskedOnce` says that such a remainder is used once: the answer is marked until its
  bookmark has come, and has no remainder after. Objects that were deleted are found because
  the first batch after a stamp remembers what was held (`BatchSound`, `ArriveKeeps`).
- `SessionPartsProofs!TagsAlwaysMerged`: `TagsMerged`, from `TagsInv`: until a session is saved
  it has changed no tag of the document, so every tag is as it was asked; and those that the two
  writes of `saveDevice` add and remove are among those that the session has changed.
- `SessionPartsProofs!AlwaysLoggedOnce`: `LoggedOnce`, from `LogInv`. A script that waits for an
  extension has logged exactly what comes before that call, at its present revision, and its
  counter is at minus the calls up to it (`Waits`). The next run makes these calls
  again, for answers are only added (`Reaches`), so its count is below 0 up to there and it logs
  from there on.

- `SessionPartsProofs!WrittenAlwaysKnown`: `KnownWhenWritten` of `Discovery`, from `WrittenInv`:
  every parameter whose value is to be written (`Pending`) is watched by the tracker of a
  declaration, and something is known of it or the trackers have been told (`SyncOK`). That it is
  known before it is assigned is not enough: a response may forget it between the
  declarations and the writing (an instance that is gone, an object that turned into a
  parameter, a name the device refuses). `ClearNotices`, `SetGoneNotices`,
  `SetAttrsNotices` and `SetNotices` say that `device.set` and `device.clear` forget nothing
  that is watched without telling its tracker, at once or by a clear that is due
  (`Noticed`), and `ProcessedIsKnown` that `processDeclarations` writes only what is known. It
  assumes (`DiscoveryAssumption`) that declarations are finite sequences whose paths are no
  longer than those of a device and whose aliases have finitely many keys.
- `SessionPartsProofs!PartsLogOnce`, `PartsKnowWhatIsWritten` and `PartsMergeTags`;
  `ServicesProofs!ServicesAnnounceChanges`, `ServicesPutPresetsBack`, `ServicesShowExactPages`,
  `ServicesKeepWorkers` and `ServicesPostOnce`: the same of `PartsSpec` and `ServicesSpec`, for the
  properties as the runs check them. A step of the whole is a step of the part that it is, or
  leaves its variables alone (`StepOfPart`, `StepOfService`), so that part's invariant, conditioned
  on `part`, is kept.
- A lemma for these, no result of its own, is `FoldFacts!FoldKeeps`: `FoldSet` and `FoldLeft` of the community modules, in which the models
  write the loops of the code, are recursive functions on the subsets of a set. What they keep
  takes an induction for which the library's theorems would have to be given an operator. Here
  the step, the choice of the last element and what is kept are constant operators of a module,
  the induction (a least counterexample) is done once, and each loop takes an instance:
  the clears of a response (`ClearAll`), the path upwards (`Set`), what a response says
  (`Told`), the keys of an alias and the declarations (`Tracked`, `Assigned`, `AllProvided`).

*Only model-checked:* of the properties in `session_parts`, two that say what the data of a
device is after all of a session's steps and not only what they keep. `Fulfilled` of
`Discovery` depends on how the declarations of a scenario act together: values that
are set at the time at which an instance is deleted would outlive it, and that this does not
happen hangs on the order in which `generateSetRpcRequest` takes them and on what is
tracked, declaration by declaration. `SavedWhole` of `Persistence` compares two conversions
over documents whose field names are put together from the names of attributes, and the
provers know nothing of strings. Out of their reach is liveness: `Converges`, `SessionEnds`,
`RequestsEnd`, `Finishes`, `Settles`, `Ends`. The models have no RECURSIVE operator.

## 5. What is left

1. `ChannelBits`: the 31 bits of `addProvisions`, `clearProvisions` and `recordFault`
   with the order of provisions, shown to implement the sets of `Provisioning` as
   long as there are less than 32 provisions.
2. Proofs: `SavedWhole` of `Persistence`, with the names of fields as a function that tells
   them apart; then what of `Fulfilled` holds of one declaration.
3. Virtual parameters in `Scripts` and attributes, notifications and access lists in `Discovery`.
4. Composition of `Provisioning` with `DeviceTasks` over the collections of tasks and faults.
