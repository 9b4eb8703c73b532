------------------------------ MODULE Workers ------------------------------
(***************************************************************************)
(* The processes of a service (lib/cluster.ts, lib/server.ts and the       *)
(* bin/genieacs-* programs): the main process forks the workers and forks  *)
(* them again when they die, one every RespawnGap at most; it gives up     *)
(* after too many crashes in each of the last three periods; it is told to *)
(* stop by a signal.  A worker connects to the database before it listens; *)
(* after an uncaught exception or a signal it closes its server, waits for *)
(* open connections up to CloseTimeout, then lets go of what it holds and  *)
(* exits, the hard way after ExitTimeout.                                  *)
(***************************************************************************)
EXTENDS Integers, FiniteSets, Sequences

CONSTANTS Pool,          \* process identifiers, enough for any moment
          WorkerCount, RespawnGap, Period, MostCrashes,
          CloseTimeout, ExitTimeout,
          MaxClock       \* bound

\* What the constants must satisfy (Services assumes it).
CountAssumption ==
  /\ IsFiniteSet(Pool) /\ WorkerCount \in 1..Cardinality(Pool)
  /\ RespawnGap \in Nat \ {0} /\ Period \in Nat

VARIABLES now,
          main,             \* "running", "stopped" by a signal, "gaveup"
          worker,           \* where each worker is, and since when
          respawnTimestamp, crashes,
          timers,           \* when a fork is due
          lastFork          \* when a worker was last forked again, and how long after the one before

vars == <<now, main, worker, respawnTimestamp, crashes, timers, lastFork>>

Max2(a, b) == IF a >= b THEN a ELSE b
Min2(a, b) == IF a <= b THEN a ELSE b
Alive == {w \in Pool : worker[w].pc # "none"}
At(pc) == [pc |-> pc, since |-> now, told |-> FALSE]
None == [pc |-> "none", since |-> 0, told |-> FALSE]
Fork(procs) ==
  LET w == CHOOSE x \in Pool : procs[x].pc = "none"
  IN  [procs EXCEPT ![w] = At("starting")]

(* kill() of every worker: it is told once it has started *)
TellAll(procs) ==
  [w \in Pool |-> CASE procs[w].pc = "starting" -> [procs[w] EXCEPT !.told = TRUE]
                    [] procs[w].pc = "serving"  -> At("closing")
                    [] OTHER                    -> procs[w]]

(***************************************************************************)
(* restartWorker: a worker has died.                                       *)
(***************************************************************************)
Recent(cs) == SelectSeq(cs, LAMBDA t : t > now - 3 * Period)
TooMany(cs) ==
  \A k \in 0..2 :
    Cardinality({i \in 1..Len(cs) : cs[i] > now - (k + 1) * Period
                                    /\ (k > 0 => cs[i] <= now - k * Period)}) > MostCrashes
RespawnAt == Max2(now, respawnTimestamp + RespawnGap)
Forked == [at |-> now, gap |-> Min2(now - lastFork.at, RespawnGap)]
ReforkTwice(rest, at) ==
  IF at = now THEN worker' = Fork(rest) /\ lastFork' = Forked /\ timers' = timers \cup {at}
  ELSE worker' = rest /\ timers' = timers \cup {at} /\ UNCHANGED lastFork
Refork(rest, at) ==
  IF at = now THEN worker' = Fork(rest) /\ lastFork' = Forked /\ UNCHANGED timers
  ELSE worker' = rest /\ timers' = timers \cup {at} /\ UNCHANGED lastFork
Died(w) ==
  LET rest == [worker EXCEPT ![w] = None]
      cs   == Recent(Append(crashes, now))
  IN \/ /\ main # "running"
        /\ worker' = rest
        /\ UNCHANGED <<main, respawnTimestamp, crashes, timers, lastFork>>
     \/ /\ main = "running" /\ TooMany(cs)
        /\ main' = "gaveup" /\ crashes' = cs
        /\ worker' = TellAll(rest)
        /\ UNCHANGED <<respawnTimestamp, timers, lastFork>>
     \/ /\ main = "running" /\ ~TooMany(cs)
        /\ crashes' = cs /\ respawnTimestamp' = RespawnAt
        /\ Refork(rest, RespawnAt)
        /\ UNCHANGED main

(* the timer of a fork that had to wait *)
RespawnAlways ==
  /\ now \in timers
  /\ timers' = timers \ {now}
  /\ worker' = Fork(worker) /\ lastFork' = Forked
  /\ UNCHANGED <<now, main, respawnTimestamp, crashes>>
Respawn ==
  /\ now \in timers
  /\ timers' = timers \ {now}
  /\ IF main = "gaveup" THEN UNCHANGED <<worker, lastFork>>
     ELSE worker' = Fork(worker) /\ lastFork' = Forked
  /\ UNCHANGED <<now, main, respawnTimestamp, crashes>>

(* stop(): the main process is told to exit *)
Stop ==
  /\ main = "running"
  /\ main' = "stopped"
  /\ worker' = TellAll(worker)
  /\ UNCHANGED <<now, respawnTimestamp, crashes, timers, lastFork>>

(***************************************************************************)
(* A worker.                                                               *)
(***************************************************************************)
Move(w, pc) == /\ worker' = [worker EXCEPT ![w] = At(pc)]
               /\ UNCHANGED <<now, main, respawnTimestamp, crashes, timers, lastFork>>

(* connected: it listens; a signal that came meanwhile stops it now *)
Connect(w) ==
  /\ worker[w].pc = "starting"
  /\ Move(w, IF worker[w].told THEN "closing" ELSE "serving")
(* not connected: the error is thrown, there is no server to close *)
ConnectFails(w) == worker[w].pc = "starting" /\ Move(w, "exiting")
(* an uncaught exception, or a signal sent to the worker itself *)
Crash(w) == worker[w].pc = "serving" /\ Move(w, "closing")
(* the last connection is closed, or connections are no longer waited for *)
Close(w) == worker[w].pc = "closing" /\ Move(w, "exiting")
(* the database, the extensions and the channel are let go of, or time is up *)
Exit(w) ==
  /\ worker[w].pc = "exiting"
  /\ Died(w) /\ UNCHANGED now
(* killed, or out of memory *)
Kill(w) ==
  /\ worker[w].pc # "none"
  /\ Died(w) /\ UNCHANGED now

Overdue(w, pc, limit) == worker[w].pc = pc /\ now >= worker[w].since + limit
Tick ==
  /\ now < MaxClock /\ now \notin timers
  /\ \A w \in Pool : ~Overdue(w, "closing", CloseTimeout) /\ ~Overdue(w, "exiting", ExitTimeout)
  /\ now' = now + 1
  /\ UNCHANGED <<main, worker, respawnTimestamp, crashes, timers, lastFork>>

Init ==
  /\ now = 3 * Period
  /\ main = "running"
  /\ \E first \in SUBSET Pool :
       /\ Cardinality(first) = WorkerCount
       /\ worker = [w \in Pool |-> IF w \in first THEN At("starting") ELSE None]
  /\ respawnTimestamp = -RespawnGap /\ lastFork = [at |-> -RespawnGap, gap |-> RespawnGap]
  /\ crashes = <<>> /\ timers = {}

Next ==
  \/ \E w \in Pool : \/ Connect(w) \/ ConnectFails(w) \/ Crash(w)
                     \/ Close(w) \/ Exit(w) \/ Kill(w)
  \/ Respawn \/ Stop \/ Tick

Fairness ==
  /\ \A w \in Pool : WF_vars(Connect(w) \/ ConnectFails(w)) /\ WF_vars(Close(w)) /\ WF_vars(Exit(w))
  /\ WF_vars(Respawn) /\ WF_vars(Tick)

Spec == Init /\ [][Next]_vars /\ Fairness

(***************************************************************************)
(* No worker is lost and none is forked twice: while the main process      *)
(* runs, a worker is alive or the timer of its replacement is set, however *)
(* crashes fall together (restartWorker).                                  *)
(***************************************************************************)
Manned == main = "running" => Cardinality(Alive) + Cardinality(timers) = WorkerCount

(***************************************************************************)
(* Workers that die as soon as they start do not keep the machine busy:    *)
(* two are never forked again within RespawnGap of each other, those of    *)
(* timers and those forked at once taken together (restartWorker).         *)
(***************************************************************************)
Throttled == lastFork.gap >= RespawnGap

(***************************************************************************)
(* Once the main process has given up nothing is left running: every       *)
(* worker exits, and timers set before fork nothing (restartWorker).       *)
(***************************************************************************)
Ends == main = "gaveup" ~> [](Alive = {})

(***************************************************************************)
(* "Received signal SIGTERM, exiting": once told to exit, the service      *)
(* ends, no worker is left.  Does not hold: a timer of restartWorker that  *)
(* was set before forks another one (stop() sets no exitCode).             *)
(***************************************************************************)
ExitsWhenTold == main = "stopped" ~> [](Alive = {})
============================================================================
