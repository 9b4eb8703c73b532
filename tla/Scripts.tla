------------------------------ MODULE Scripts ------------------------------
(***************************************************************************)
(* The scripts of a session and the extensions they call: lib/sandbox.ts   *)
(* runs a script again from its start whenever an extension has answered   *)
(* or its declarations were committed, runProvisions and                   *)
(* runVirtualParameters of lib/session.ts wait for all the scripts of a    *)
(* session, and lib/extensions.ts hands calls to a process                 *)
(* (bin/genieacs-ext.ts) that may fail, hang or end.                       *)
(*                                                                         *)
(* A script is a sequence of statements: it declares, reads what it has    *)
(* declared (a commit), calls an extension, or logs.                       *)
(***************************************************************************)
EXTENDS Integers, Sequences, FiniteSetsExt

CONSTANTS
    Sessions,
    ScriptsOf,      \* the scripts of each session
    Code,           \* the statements of each script: [op, arg], op one of
                    \* "declare", "read", "ext", "log" and "throw"
    Values,         \* what an extension may answer
    MaxCrashes      \* bound on the exceptions in the process of the extension

\* What the constants must satisfy (SessionParts assumes it).
ScriptsAssumption ==
    /\ \A s \in Sessions : ScriptsOf[s] \subseteq DOMAIN Code
    /\ MaxCrashes \in Nat
    /\ \A k \in DOMAIN Code : Code[k] \in Seq({Code[k][i] : i \in DOMAIN Code[k]})

VARIABLES
    revision,   \* of each session: how often its declarations were committed
    cache,      \* extensionsCache of each session
    run,        \* the last result of each script of each session
    logged,     \* what was logged, and how often
    jobs,       \* the calls that wait for an answer: session, call and number
    child,      \* the process: is it known to the ACS, is it there, what has it to do
    wire,       \* what the process has sent, in order
    settling,   \* answers that wait for a disconnect event to fire
    numbered,   \* the last number given to a job
    crashes

vars == <<revision, cache, run, logged, jobs, child, wire, settling, numbered, crashes>>

\* What g says where it says something, and what f says elsewhere.
Over(g, f) == [x \in DOMAIN g \cup DOMAIN f |-> IF x \in DOMAIN g THEN g[x] ELSE f[x]]
With(f, x, v) == Over([y \in {x} |-> v], f)

Of(k, op) == {i \in DOMAIN Code[k] : Code[k][i].op = op}
Slots == {<<s, k>> : s \in Sessions, k \in DOMAIN Code}
Mine(s) == {<<s, k>> : k \in ScriptsOf[s]}
Idle == [status |-> "idle", declared |-> {}, waits |-> <<>>, replayed |-> 0]

Init ==
    /\ revision = [s \in Sessions |-> 0]
    /\ cache = [s \in Sessions |-> <<>>]
    /\ run = [x \in Slots |-> Idle]
    /\ logged = [x \in Slots |-> [i \in Of(x[2], "log") |-> 0]]
    /\ jobs = {}
    /\ child = [known |-> FALSE, up |-> FALSE, todo |-> {}]
    /\ wire = <<>> /\ settling = {}
    /\ numbered = 0 /\ crashes = 0

-----------------------------------------------------------------------------
\* The sandbox

\* Reading what has been declared since the last commit is a commit.
Commits ==
    [k \in DOMAIN Code |->
        {i \in Of(k, "read") : \E d \in Of(k, "declare") : d < i /\ Of(k, "read") \cap (d .. i - 1) = {}}]
RevisionAt ==
    [k \in DOMAIN Code |-> [i \in DOMAIN Code[k] |-> Cardinality({c \in Commits[k] : c < i})]]

\* An answer is known by the revision it was asked for at and the arguments.
Call(k, i) == <<RevisionAt[k][i], Code[k][i].arg>>

\* A script runs up to its first call without an answer, to the commit that goes beyond the
\* revision of the session, to an exception, or to its end.
End(k, max, known) ==
    Min({Len(Code[k]) + 1} \cup Of(k, "throw")
            \cup {i \in Commits[k] : RevisionAt[k][i] = max}
            \cup {i \in Of(k, "ext") : Call(k, i) \notin DOMAIN known})

Outcome(k, end) ==
    IF end > Len(Code[k]) THEN "done"
    ELSE CASE Code[k][end].op = "ext" -> "waiting"
           [] Code[k][end].op = "read" -> "commit"
           [] Code[k][end].op = "throw" -> "fault"

CallsUpTo(k, i) == {j \in Of(k, "ext") : j <= i}

\* What is declared after a call depends on its answer.
Declared(k, end, known) ==
    {[at |-> i, revision |-> RevisionAt[k][i],
      value |-> IF CallsUpTo(k, i) = {} THEN "none" ELSE known[Call(k, Max(CallsUpTo(k, i)))]]
        : i \in {i \in Of(k, "declare") : i < end}}

\* log() is silent at an earlier revision and below 0, where the calls of earlier runs are
\* counted.
Logs(k, end, max, counter) ==
    {i \in Of(k, "log") : i < end /\ RevisionAt[k][i] = max
                           /\ counter + Cardinality(CallsUpTo(k, i)) >= 0}

\* Mutant: only the calls of the last run are taken off
ReplayedLast(start, end) == 0 - end

\* A run that restarts the script counts the calls that were answered from below 0.
Replayed(start, end) == start - end

Result(k, max, known, counter) ==
    LET end == End(k, max, known)
    IN  [status |-> Outcome(k, end),
         waits |-> IF Outcome(k, end) = "waiting" THEN Call(k, end) ELSE <<>>,
         declared |-> Declared(k, end, known),
         replayed |-> Replayed(counter, counter + Cardinality(CallsUpTo(k, end)))]

\* extensions.run: the process is started if none is known, and gets the calls; those that
\* are sent to a process that is no longer there are lost.
Handed(calls) ==
    IF calls = {} THEN child
    ELSE [known |-> TRUE,
          up |-> child.up \/ ~child.known,
          todo |-> IF child.up \/ ~child.known THEN child.todo \cup calls ELSE child.todo]

\* The scripts of X run with the answers known and log what they log; a call that nobody
\* waits for yet becomes a job.
Running(X, known, counter, open) ==
    LET r == [x \in X |-> Result(x[2], revision[x[1]], known, counter[x])]
        calls == {<<x[1], r[x].waits>> : x \in {x \in X : r[x].status = "waiting"}}
                     \ {<<j[1], j[2]>> : j \in open}
        new == {<<c[1], c[2], numbered + 1>> : c \in calls}
        logs(x) == Logs(x[2], End(x[2], revision[x[1]], known), revision[x[1]], counter[x])
    IN  /\ run' = Over(r, run)
        /\ logged' = [x \in Slots |->
                        IF x \in X THEN [i \in DOMAIN logged[x] |-> logged[x][i] + (IF i \in logs(x) THEN 1 ELSE 0)]
                        ELSE logged[x]]
        /\ jobs' = open \cup new
        /\ numbered' = numbered + (IF new = {} THEN 0 ELSE 1)
        /\ child' = Handed(new)

-----------------------------------------------------------------------------
\* The session: rpcRequest runs all its scripts at its revision.
Start(s) ==
    /\ \A x \in Mine(s) : run[x].status = "idle"
    /\ Running(Mine(s), cache[s], [x \in Mine(s) |-> 0], jobs)
    /\ UNCHANGED <<revision, cache, wire, settling, crashes>>

\* When all are at a commit or at their end, and one is at a commit, the declarations are
\* brought about and the scripts run again.
Committed(s) ==
    /\ \A x \in Mine(s) : run[x].status \in {"commit", "done"}
    /\ \E x \in Mine(s) : run[x].status = "commit"
    /\ revision' = [revision EXCEPT ![s] = @ + 1]
    /\ run' = [x \in Slots |-> IF x \in Mine(s) THEN [run[x] EXCEPT !.status = "idle"] ELSE run[x]]
    /\ UNCHANGED <<cache, logged, jobs, child, wire, settling, numbered, crashes>>

\* An answer: it is cached unless it is a fault, and every script that waits for it runs
\* again from its start.
Resolve(j, fault, value) ==
    LET s == j[1]
        waiting == {x \in Mine(s) : run[x].status = "waiting" /\ run[x].waits = j[2]}
        known == With(cache[s], j[2], value)
    IN  IF fault
        THEN /\ run' = [x \in Slots |-> IF x \in waiting THEN [run[x] EXCEPT !.status = "fault"]
                                         ELSE run[x]]
             /\ jobs' = jobs \ {j}
             /\ UNCHANGED <<cache, logged, child, numbered>>
        ELSE /\ cache' = [cache EXCEPT ![s] = known]
             /\ Running(waiting, known, [x \in waiting |-> run[x].replayed], jobs \ {j})

\* Mutant: the calls of a process that is gone have no time-out
ExpiresWhileUp(j) == j \in jobs /\ j \notin {m.job : m \in settling} /\ child.up

Expires(j) == j \in jobs /\ j \notin {m.job : m \in settling}

\* The job times out.
TimeOut(j) ==
    /\ Expires(j)
    /\ Resolve(j, TRUE, "none")
    /\ UNCHANGED <<revision, wire, settling, crashes>>

\* What the process has sent arrives: an answer is kept for a moment, one to a job that has
\* timed out is ignored; after a disconnect the next call starts a new process.
Receive ==
    /\ wire # <<>>
    /\ wire' = Tail(wire)
    /\ LET m == Head(wire)
       IN  IF m.kind = "disconnect"
           THEN child' = [child EXCEPT !.known = FALSE] /\ UNCHANGED settling
           ELSE settling' = (IF m.job \in jobs THEN settling \cup {m} ELSE settling) /\ UNCHANGED child
    /\ UNCHANGED <<revision, cache, run, logged, jobs, numbered, crashes>>

Settle(m) ==
    /\ m \in settling
    /\ settling' = settling \ {m}
    /\ Resolve(m.job, m.fault, m.value)
    /\ UNCHANGED <<revision, wire, crashes>>

-----------------------------------------------------------------------------
\* The process: it answers a call with a value or a fault, or never; an exception answers
\* all calls with a fault and disconnects.
Message(j, fault, value) == [kind |-> "answer", job |-> j, fault |-> fault, value |-> value]

Perform(j, fault, value) ==
    /\ child.up /\ j \in child.todo
    /\ child' = [child EXCEPT !.todo = @ \ {j}]
    /\ wire' = Append(wire, Message(j, fault, value))
    /\ UNCHANGED <<revision, cache, run, logged, jobs, settling, numbered, crashes>>

Crash ==
    /\ child.up /\ child.todo # {} /\ crashes < MaxCrashes
    /\ crashes' = crashes + 1
    /\ child' = [child EXCEPT !.up = FALSE, !.todo = {}]
    /\ \E q \in [1 .. Cardinality(child.todo) -> child.todo] :
          /\ \A j \in child.todo : \E i \in DOMAIN q : q[i] = j
          /\ wire' = wire \o [i \in DOMAIN q |-> Message(q[i], TRUE, "none")]
                          \o <<[kind |-> "disconnect"]>>
    /\ UNCHANGED <<revision, cache, run, logged, jobs, settling, numbered>>

Acs ==
    \/ Receive
    \/ \E j \in jobs : TimeOut(j)
    \/ \E s \in Sessions : Committed(s) \/ Start(s)
    \/ \E m \in settling : Settle(m)

Process ==
    \/ \E j \in child.todo, fault \in BOOLEAN, value \in Values : Perform(j, fault, value)
    \/ Crash

Next == Acs \/ Process

\* The ACS goes on; the process of the extension need not.
Spec == Init /\ [][Next]_vars /\ WF_vars(Acs)

-----------------------------------------------------------------------------
\* Properties

Finished(s) == \/ \A x \in Mine(s) : run[x].status \in {"done", "fault"}
               \/ /\ \A x \in Mine(s) : run[x].status \in {"commit", "done", "fault"}
                  /\ \E x \in Mine(s) : run[x].status = "fault"

\* Every script comes to its end or to a fault, whatever becomes of the process: a call is
\* answered or times out.
Finishes == \A s \in Sessions : <>Finished(s)

\* However often a script is run, it logs what it has to once.
LoggedOnce ==
    \A s \in Sessions : \A x \in Mine(s) : \A i \in DOMAIN logged[x] :
        /\ logged[x][i] <= 1
        /\ run[x].status = "done" /\ Finished(s) /\ RevisionAt[x[2]][i] = revision[s] => logged[x][i] = 1
=============================================================================
