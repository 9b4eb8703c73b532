------------------------- MODULE DeviceTasksProofs -------------------------
(***************************************************************************)
(* A task is reported as executed only after a session that was admitted   *)
(* when the task was in the queue, and a task that is queued under the     *)
(* lock is queued for a device that exists (DeviceTasks), for any number   *)
(* of requests, sessions and failures.                                     *)
(*                                                                         *)
(* The first rests on the lock: who waits for the device has queued its    *)
(* task while it had the lock, when no session was under way, so every     *)
(* inform that is later, and every session that has the lock, has found    *)
(* the task.                                                               *)
(***************************************************************************)
EXTENDS DeviceTasks, TLAPS

Requests == [kind : Kinds \cup {"none"}, task : Clients, pc : Phases, seen : Nat,
             writes : SUBSET Writes, answer : Answers \cup {"none"}]
Sessions == [pc : {"none", "loaded", "fetched", "running", "saving"}, stamp : Nat, new : BOOLEAN,
             work : SUBSET Clients, done : SUBSET Clients, failed : SUBSET Clients,
             writes : SUBSET Writes]

TypeInv ==
    /\ inform \in Nat
    /\ request \in [Clients -> Requests]
    /\ session \in Sessions

\* A session that is under way has the lock.
SessionOwns == session.pc \in {"running", "saving"} => owner = Session

-----------------------------------------------------------------------------
\* What is so of the request c, in steps of its handler.
HasTask(c) == request[c].kind \in Posts
Sound(c) ==
    LET q == request[c] IN
    \* answers come last
    /\ q.answer # "none" => q.pc \in {"release", "clean", "over"}
    /\ q.pc = "clean" => q.answer # "none"
    \* tasks are not withdrawals
    /\ q.pc = "write" => q.kind \notin Posts
    \* while it has the lock no session ends
    /\ HasTask(c) /\ q.pc \in {"insert", "add", "release"} /\ q.answer = "none" /\ owner = c =>
          inform = q.seen
    \* whatever it waits for comes of a session that found the task
    /\ HasTask(c) /\ q.pc \in {"call", "start", "token"} =>
          c \in met \/ (inform = q.seen /\ owner # Session)
    /\ HasTask(c) /\ q.pc \in {"end", "count"} => c \in met
    /\ HasTask(c) /\ q.answer \in {"done", "faulted"} => c \in met

TaskInv == TypeInv /\ SessionOwns /\ \A c \in Clients : Sound(c)

\* A step of the request c leaves the others sound, if it takes the lock from nobody else.
LEMMA OthersSound ==
    ASSUME TasksAssumption, TaskInv, NEW c \in Clients,
           request' \in [Clients -> Requests],
           \A d \in Clients \ {c} : request'[d] = request[d],
           UNCHANGED <<inform, session, met>>,
           \/ owner' = owner
           \/ owner = c /\ owner' = Nobody
           \/ owner = Nobody /\ owner' = c,
           Sound(c)'
    PROVE  TaskInv'
<1>1. TypeInv'
      BY DEF TaskInv, TypeInv
<1>2. /\ (owner' = Session) = (owner = Session)
      /\ \A d \in Clients \ {c} : (owner' = d) = (owner = d)
      BY DEF TasksAssumption
<1>3. SessionOwns'
      BY <1>2 DEF TaskInv, SessionOwns
<1>4. ASSUME NEW d \in Clients, d # c PROVE Sound(d)'
      BY <1>2, <1>4 DEF TaskInv, Sound, HasTask
<1>5. QED BY <1>1, <1>3, <1>4 DEF TaskInv

\* A step that changes nothing that the requests depend on.
LEMMA NobodyConcerned ==
    ASSUME TaskInv, UNCHANGED <<request, inform, owner, met>>,
           session' \in Sessions,
           session'.pc \in {"running", "saving"} => session.pc \in {"running", "saving"}
    PROVE  TaskInv'
BY DEF TaskInv, TypeInv, SessionOwns, Sound, HasTask

-----------------------------------------------------------------------------
\* The requests after a step of a handler.
LEMMA GoIs ==
    ASSUME TypeInv, NEW c \in Clients, NEW pc \in Phases, Go(c, pc)
    PROVE  /\ request' \in [Clients -> Requests]
           /\ \A d \in Clients \ {c} : request'[d] = request[d]
           /\ request'[c] = [request[c] EXCEPT !.pc = pc]
BY DEF Go, TypeInv, Requests

\* What answering does to the requests.
LEMMA ConcludeIs ==
    ASSUME TypeInv, NEW c \in Clients, NEW answer \in Answers, Conclude(c, answer)
    PROVE  /\ request' \in [Clients -> Requests]
           /\ \A d \in Clients \ {c} : request'[d] = request[d]
           /\ request'[c].kind \in {request[c].kind, "none"} /\ request'[c].pc = "over"
           /\ request'[c].answer = answer
BY DEF Conclude, NoRequest, TypeInv, Requests, Phases

\* What going on with an answer at hand does to the requests.
LEMMA AnswerIs ==
    ASSUME TypeInv, NEW c \in Clients, NEW pc \in Phases, NEW answer \in Answers,
           request' = [request EXCEPT ![c].pc = pc, ![c].answer = answer]
    PROVE  /\ request' \in [Clients -> Requests]
           /\ \A d \in Clients \ {c} : request'[d] = request[d]
           /\ request'[c] = [request[c] EXCEPT !.pc = pc, !.answer = answer]
<1> DEFINE q == [request[c] EXCEPT !.pc = pc, !.answer = answer]
<1>1. request[c] \in Requests
      BY DEF TypeInv
<1>2. q \in Requests
      BY <1>1 DEF Requests
<1>3. request' = [request EXCEPT ![c] = q]
      BY <1>1 DEF TypeInv
<1> HIDE DEF q
<1>4. /\ request' \in [Clients -> Requests]
      /\ \A d \in Clients \ {c} : request'[d] = request[d]
      /\ request'[c] = q
      BY <1>2, <1>3 DEF TypeInv
<1>5. QED BY <1>4 DEF q

\* A request that is answered is sound, but for the two answers that want a session.
LEMMA ConcludeKeeps ==
    ASSUME TasksAssumption, TaskInv, NEW c \in Clients, NEW answer \in Answers,
           Conclude(c, answer), answer \in {"done", "faulted"} /\ HasTask(c) => c \in met,
           UNCHANGED <<inform, session, met>>,
           owner' = owner \/ (owner = c /\ owner' = Nobody)
    PROVE  TaskInv'
<1>1. /\ request' \in [Clients -> Requests]
      /\ \A d \in Clients \ {c} : request'[d] = request[d]
      /\ request'[c].kind \in {request[c].kind, "none"} /\ request'[c].pc = "over"
      /\ request'[c].answer = answer
      BY ConcludeIs DEF TaskInv
<1>2. Sound(c)'
      BY <1>1 DEF Sound, HasTask, Posts
<1>3. QED BY <1>1, <1>2, OthersSound

\* An answer of the "finally" block is none of the two that want a session.
LEMMA OutcomeKeeps ==
    ASSUME TasksAssumption, TaskInv, NEW c \in Clients,
           NEW answer \in Answers \ {"done", "faulted"},
           Outcome(c, answer), UNCHANGED <<inform, session, met, owner>>
    PROVE  TaskInv'
<1>1. CASE request' = [request EXCEPT ![c].pc = "release", ![c].answer = answer]
      <2>1. /\ request' \in [Clients -> Requests]
            /\ \A d \in Clients \ {c} : request'[d] = request[d]
            /\ request'[c] = [request[c] EXCEPT !.pc = "release", !.answer = answer]
            BY <1>1, AnswerIs DEF TaskInv, Phases
      <2>2. request[c] \in Requests
            BY DEF TaskInv, TypeInv
      <2>3. Sound(c)'
            BY <2>1, <2>2 DEF Sound, HasTask, Requests, Answers
      <2>4. QED BY <2>1, <2>3, OthersSound
<1>2. CASE Conclude(c, answer)
      BY <1>2, ConcludeKeeps
<1>3. QED BY <1>1, <1>2 DEF Outcome

\* A request that is given up says that its task is queued.
LEMMA UnheardKeeps ==
    ASSUME TasksAssumption, TaskInv, NEW c \in Clients, Unheard(c),
           UNCHANGED <<inform, session, met, owner>>
    PROVE  TaskInv'
<1>1. CASE request' = [request EXCEPT ![c].pc = "clean", ![c].answer = "queued"]
      <2>1. /\ request' \in [Clients -> Requests]
            /\ \A d \in Clients \ {c} : request'[d] = request[d]
            /\ request'[c] = [request[c] EXCEPT !.pc = "clean", !.answer = "queued"]
            BY <1>1, AnswerIs DEF TaskInv, Phases, Answers
      <2>2. request[c] \in Requests
            BY DEF TaskInv, TypeInv
      <2>3. Sound(c)'
            BY <2>1, <2>2 DEF Sound, HasTask, Requests
      <2>4. QED BY <2>1, <2>3, OthersSound
<1>2. CASE Conclude(c, "queued")
      BY <1>2, ConcludeKeeps DEF Answers
<1>3. QED BY <1>1, <1>2 DEF Unheard

\* Going on to another place: what is to be shown is what that place asks for.
LEMMA GoKeeps ==
    ASSUME TasksAssumption, TaskInv, NEW c \in Clients, NEW pc \in Phases \ {"write", "clean"}, Go(c, pc),
           UNCHANGED <<inform, session, met>>,
           \/ owner' = owner
           \/ owner = c /\ owner' = Nobody,
           request[c].answer = "none",
           HasTask(c) =>
              /\ pc \in {"insert", "add", "release"} /\ owner' = c => inform = request[c].seen
              /\ pc \in {"call", "start", "token"} =>
                    c \in met \/ (inform = request[c].seen /\ owner' # Session)
              /\ pc \in {"end", "count"} => c \in met
    PROVE  TaskInv'
<1>1. /\ request' \in [Clients -> Requests]
      /\ \A d \in Clients \ {c} : request'[d] = request[d]
      /\ request'[c] = [request[c] EXCEPT !.pc = pc]
      BY GoIs DEF TaskInv
<1>2. request[c] \in Requests
      BY DEF TaskInv, TypeInv
<1>3. Sound(c)'
      BY <1>1, <1>2 DEF Sound, HasTask, Requests
<1>4. QED BY <1>1, <1>3, OthersSound

-----------------------------------------------------------------------------
\* A request that has no answer yet is at a place where there is none.
LEMMA NoAnswerYet ==
    ASSUME TaskInv, NEW c \in Clients, request[c].pc \notin {"release", "clean", "over"}
    PROVE  request[c].answer = "none"
BY DEF TaskInv, Sound

\* A request begins without an answer, and waits for nothing yet.
LEMMA ArriveKeeps ==
    ASSUME TasksAssumption, TaskInv, NEW c \in Clients, NEW kind \in Kinds, NEW t \in Clients,
           Arrive(c, kind, t)
    PROVE  TaskInv'
<1>1. PICK pc \in {"check", "find", "lock"} :
          request' = [request EXCEPT ![c].kind = kind, ![c].task = t, ![c].pc = pc]
      BY DEF Arrive
<1> DEFINE q == [request[c] EXCEPT !.kind = kind, !.task = t, !.pc = pc]
<1>2. request[c] \in Requests /\ request[c].answer = "none"
      BY NoAnswerYet DEF Arrive, TaskInv, TypeInv
<1>3. q \in Requests /\ q.pc = pc /\ q.answer = "none"
      BY <1>1, <1>2 DEF Requests, Phases
<1>4. request' = [request EXCEPT ![c] = q]
      BY <1>1, <1>2 DEF TaskInv, TypeInv
<1> HIDE DEF q
<1>5. /\ request' \in [Clients -> Requests] /\ request'[c] = q
      /\ \A d \in Clients \ {c} : request'[d] = request[d]
      BY <1>3, <1>4 DEF TaskInv, TypeInv
<1>6. Sound(c)'
      BY <1>1, <1>3, <1>5 DEF Sound, HasTask
<1>7. QED BY <1>5, <1>6, OthersSound DEF Arrive, database

\* Who takes the lock takes it from nobody.
LEMMA AcquireKeeps ==
    ASSUME TasksAssumption, TaskInv, NEW c \in Clients, Acquire(c)
    PROVE  TaskInv'
<1>1. request[c].answer = "none" /\ request[c] \in Requests /\ owner = Nobody /\ owner' = c
      BY NoAnswerYet DEF Acquire, TaskInv, TypeInv
<1>2. CASE HasTask(c)
      <2>1. Go(c, "check")
            BY <1>2 DEF Acquire, HasTask, Go
      <2>2. /\ request' \in [Clients -> Requests]
            /\ \A d \in Clients \ {c} : request'[d] = request[d]
            /\ request'[c] = [request[c] EXCEPT !.pc = "check"]
            BY <2>1, GoIs DEF TaskInv, Phases
      <2>3. Sound(c)'
            BY <1>1, <2>2 DEF Sound, HasTask, Requests
      <2>4. QED BY <1>1, <2>2, <2>3, OthersSound DEF Acquire, database
<1>3. CASE ~HasTask(c)
      <2> DEFINE q == [request[c] EXCEPT !.pc = "write", !.writes = WritesOf(request[c].kind)]
      <2>1. q \in Requests /\ q.kind \notin Posts /\ q.answer = "none" /\ q.pc = "write"
            BY <1>1, <1>3 DEF Requests, Phases, Writes, WritesOf, HasTask
      <2>2. request' = [request EXCEPT ![c] = q]
            BY <1>1, <1>3 DEF Acquire, HasTask, TaskInv, TypeInv
      <2> HIDE DEF q
      <2>3. /\ request' \in [Clients -> Requests] /\ request'[c] = q
            /\ \A d \in Clients \ {c} : request'[d] = request[d]
            BY <2>1, <2>2 DEF TaskInv, TypeInv
      <2>4. Sound(c)'
            BY <2>1, <2>3 DEF Sound, HasTask
      <2>5. QED BY <1>1, <2>3, <2>4, OthersSound DEF Acquire, database
<1>4. QED BY <1>2, <1>3

\* The inform that a request remembers is the last one, whether or not it has the lock.
LEMMA CheckKeeps ==
    ASSUME TasksAssumption, TaskInv, NEW c \in Clients, Check(c)
    PROVE  TaskInv'
<1>1. request[c].answer = "none" /\ request[c] \in Requests
      BY NoAnswerYet DEF Check, TaskInv, TypeInv
<1>2. UNCHANGED <<inform, session, met, owner>>
      BY DEF Check, database
<1>3. CASE request' = [request EXCEPT ![c].pc = "insert", ![c].seen = inform]
      <2> DEFINE q == [request[c] EXCEPT !.pc = "insert", !.seen = inform]
      <2>1. q \in Requests /\ q.answer = "none" /\ q.pc = "insert" /\ q.seen = inform
            BY <1>1 DEF Requests, Phases, TaskInv, TypeInv
      <2>2. request' = [request EXCEPT ![c] = q]
            BY <1>1, <1>3 DEF TaskInv, TypeInv
      <2> HIDE DEF q
      <2>3. /\ request' \in [Clients -> Requests] /\ request'[c] = q
            /\ \A d \in Clients \ {c} : request'[d] = request[d]
            BY <2>1, <2>2 DEF TaskInv, TypeInv
      <2>4. Sound(c)'
            BY <1>2, <2>1, <2>3 DEF Sound, HasTask
      <2>5. QED BY <1>2, <2>3, <2>4, OthersSound
<1>4. CASE \E answer \in {"not found", "refused", "crashed"} : Outcome(c, answer)
      BY <1>2, <1>4, OutcomeKeeps DEF Answers
<1>5. QED BY <1>3, <1>4 DEF Check

\* Withdrawals, of which nothing is claimed but that they have no answer before the last write.
LEMMA WriteKeeps ==
    ASSUME TasksAssumption, TaskInv, NEW c \in Clients, NEW w \in Writes,
           Write(c, w) \/ WriteFails(c, w)
    PROVE  TaskInv'
<1>1. /\ request[c].answer = "none" /\ request[c] \in Requests /\ request[c].kind \notin Posts
      BY NoAnswerYet DEF Write, WriteFails, TaskInv, TypeInv, Sound
<1>2. UNCHANGED <<inform, session, met, owner>>
      BY DEF Write, WriteFails, Deleted, database
<1>3. PICK q \in Requests :
          /\ request' = [request EXCEPT ![c] = q]
          /\ q.kind = request[c].kind
          /\ \/ q.pc = "write" /\ q.answer = "none"
             \/ q.pc = "release"
      <2>1. CASE Write(c, w) /\ request[c].writes # {w}
            <3> DEFINE q == [request[c] EXCEPT !.writes = @ \ {w}]
            <3>1. q \in Requests /\ q.kind = request[c].kind /\ q.pc = "write" /\ q.answer = "none"
                  BY <1>1, <2>1 DEF Requests, Write
            <3>2. request' = [request EXCEPT ![c] = q]
                  BY <1>1, <2>1 DEF Write, TaskInv, TypeInv, Requests
            <3>3. QED BY <3>1, <3>2
      <2>2. CASE Write(c, w) /\ request[c].writes = {w}
            <3> DEFINE q == [request[c] EXCEPT !.writes = @ \ {w}, !.pc = "release", !.answer = "done"]
            <3>1. q \in Requests /\ q.kind = request[c].kind /\ q.pc = "release"
                  BY <1>1, <2>2 DEF Requests, Phases, Answers
            <3>2. request' = [request EXCEPT ![c] = q]
                  BY <1>1, <2>2 DEF Write, TaskInv, TypeInv, Requests
            <3>3. QED BY <3>1, <3>2
      <2>3. CASE WriteFails(c, w)
            <3> DEFINE q == [request[c] EXCEPT !.writes = {}, !.pc = "release", !.answer = "crashed"]
            <3>1. q \in Requests /\ q.kind = request[c].kind /\ q.pc = "release"
                  BY <1>1 DEF Requests, Phases, Answers
            <3>2. request' = [request EXCEPT ![c] = q]
                  BY <1>1, <2>3 DEF WriteFails, TaskInv, TypeInv, Requests
            <3>3. QED BY <3>1, <3>2
      <2>4. QED BY <2>1, <2>2, <2>3
<1>4. /\ request' \in [Clients -> Requests] /\ request'[c] = q
      /\ \A d \in Clients \ {c} : request'[d] = request[d]
      BY <1>3 DEF TaskInv, TypeInv
<1>5. Sound(c)'
      BY <1>1, <1>3, <1>4 DEF Sound, HasTask
<1>6. QED BY <1>2, <1>4, <1>5, OthersSound

\* Who releases the lock and goes on to wait had it: no inform has come since.
LEMMA ReleaseKeeps ==
    ASSUME TasksAssumption, TaskInv, NEW c \in Clients, Release(c)
    PROVE  TaskInv'
<1>1. /\ UNCHANGED <<inform, session, met>>
      /\ owner' = owner \/ (owner = c /\ owner' = Nobody)
      BY DEF Release, database
<1>2. CASE owner # c
      BY <1>1, <1>2, ConcludeKeeps DEF Release, Answers
<1>3. CASE owner = c /\ request[c].answer = "none"
      <2>1. HasTask(c) => inform = request[c].seen /\ owner' # Session
            BY <1>3 DEF Release, TaskInv, Sound, HasTask, TasksAssumption
      <2>2. Go(c, "call")
            BY <1>3 DEF Release
      <2>3. QED BY <1>1, <1>3, <2>1, <2>2, GoKeeps DEF Phases
<1>4. CASE owner = c /\ request[c].answer # "none"
      <2>1. request[c].answer \in Answers
            BY <1>4 DEF TaskInv, TypeInv, Requests
      <2>2. Conclude(c, request[c].answer)
            BY <1>4 DEF Release
      <2>3. request[c].answer \in {"done", "faulted"} /\ HasTask(c) => c \in met
            BY DEF TaskInv, Sound
      <2>4. QED BY <1>1, <2>1, <2>2, <2>3, ConcludeKeeps
<1>5. QED BY <1>2, <1>3, <1>4

\* What the outcome is taken from: the task is known to the session that is over.
LEMMA CountKeeps ==
    ASSUME TasksAssumption, TaskInv, NEW c \in Clients, Count(c)
    PROVE  TaskInv'
<1> DEFINE answer == IF c \in faults THEN "faulted" ELSE "done"
<1>1. answer \in Answers /\ UNCHANGED <<inform, session, met, owner>>
      BY DEF Count, Answers, database
<1>2. HasTask(c) => c \in met
      BY DEF Count, TaskInv, Sound
<1>3. CASE request' = [request EXCEPT ![c].pc = "clean", ![c].answer = answer]
      <2>1. /\ request' \in [Clients -> Requests]
            /\ \A d \in Clients \ {c} : request'[d] = request[d]
            /\ request'[c] = [request[c] EXCEPT !.pc = "clean", !.answer = answer]
            BY <1>1, <1>3, AnswerIs DEF TaskInv, Phases
      <2>2. request[c] \in Requests
            BY DEF TaskInv, TypeInv
      <2>3. Sound(c)'
            BY <1>1, <1>2, <2>1, <2>2 DEF Sound, HasTask, Requests
      <2>4. QED BY <1>1, <2>1, <2>3, OthersSound
<1>4. CASE Conclude(c, answer)
      BY <1>1, <1>2, <1>4, ConcludeKeeps
<1>5. QED BY <1>3, <1>4 DEF Count

\* The steps of a handler.
LEMMA HandleKeeps ==
    ASSUME TasksAssumption, TaskInv, NEW c \in Clients, Handle(c)
    PROVE  TaskInv'
<1>1. CASE Find(c)
      <2>1. request[c].answer = "none" /\ UNCHANGED <<inform, session, met, owner>>
            BY <1>1, NoAnswerYet DEF Find, database
      <2>2. CASE Go(c, "lock")
            BY <2>1, <2>2, GoKeeps DEF Phases
      <2>3. CASE \E answer \in {"crashed", "not found"} : Conclude(c, answer)
            BY <2>1, <2>3, ConcludeKeeps DEF Answers
      <2>4. QED BY <1>1, <2>2, <2>3 DEF Find
<1>2. CASE Acquire(c)
      BY <1>2, AcquireKeeps
<1>3. CASE GiveUp(c)
      <2>1. request[c].answer = "none" /\ UNCHANGED <<inform, session, met, owner>>
            BY <1>3, NoAnswerYet DEF GiveUp, database
      <2>2. CASE Go(c, "check")
            BY <2>1, <2>2, GoKeeps DEF Phases
      <2>3. CASE Conclude(c, "locked")
            BY <2>1, <2>3, ConcludeKeeps DEF Answers
      <2>4. QED BY <1>3, <2>2, <2>3 DEF GiveUp
<1>4. CASE Check(c)
      BY <1>4, CheckKeeps
<1>5. CASE Insert(c)
      <2>1. request[c].answer = "none" /\ UNCHANGED <<inform, session, met, owner>>
            BY <1>5, NoAnswerYet DEF Insert
      <2>2. HasTask(c) /\ owner' = c => inform = request[c].seen
            BY <1>5, <2>1 DEF Insert, TaskInv, Sound
      <2>3. Go(c, "add")
            BY <1>5 DEF Insert
      <2>4. QED BY <2>1, <2>2, <2>3, GoKeeps DEF Phases
<1>6. CASE Add(c)
      <2>1. request[c].answer = "none" /\ UNCHANGED <<inform, session, met, owner>>
            BY <1>6, NoAnswerYet DEF Add
      <2>2. HasTask(c) /\ owner' = c => inform = request[c].seen
            BY <1>6, <2>1 DEF Add, TaskInv, Sound
      <2>3. CASE Go(c, "release")
            BY <2>1, <2>2, <2>3, GoKeeps DEF Phases
      <2>4. CASE Conclude(c, "queued")
            BY <2>1, <2>4, ConcludeKeeps DEF Answers
      <2>5. QED BY <1>6, <2>3, <2>4 DEF Add
<1>7. CASE AddFails(c)
      BY <1>7, OutcomeKeeps DEF AddFails, Answers, database
<1>8. CASE \E w \in Writes : Write(c, w) \/ WriteFails(c, w)
      BY <1>8, WriteKeeps
<1>9. CASE Release(c)
      BY <1>9, ReleaseKeeps
<1>10. CASE Call(c) \/ NotStarted(c)
      <2>1. request[c].answer = "none" /\ UNCHANGED <<inform, session, met, owner>>
            BY <1>10, NoAnswerYet DEF Call, NotStarted, database
      <2>2. CASE Unheard(c)
            BY <2>1, <2>2, UnheardKeeps
      <2>3. CASE request[c].pc = "call" /\ Go(c, "start")
            BY <2>1, <2>3, GoKeeps DEF TaskInv, Sound, Phases
      <2>4. CASE Conclude(c, "crashed")
            BY <2>1, <2>4, ConcludeKeeps DEF Answers
      <2>5. QED BY <1>10, <2>2, <2>3, <2>4 DEF Call, NotStarted
<1>11. CASE PollInform(c)
      <2>1. /\ request[c].answer = "none" /\ UNCHANGED <<inform, session, met, owner>>
            /\ HasTask(c) => c \in met \/ (inform = request[c].seen /\ owner # Session)
            BY <1>11, NoAnswerYet DEF PollInform, database, TaskInv, Sound
      <2>2. CASE Conclude(c, "crashed")
            BY <2>1, <2>2, ConcludeKeeps DEF Answers
      <2>3. CASE inform > request[c].seen /\ Go(c, "end")
            <3>1. inform # request[c].seen
                  BY <2>3 DEF TaskInv, TypeInv, Requests
            <3>2. QED BY <2>1, <2>3, <3>1, GoKeeps DEF Phases
      <2>4. CASE Go(c, "token")
            BY <2>1, <2>4, GoKeeps DEF Phases
      <2>5. QED BY <1>11, <2>2, <2>3, <2>4 DEF PollInform
<1>12. CASE PollToken(c)
      <2>1. /\ request[c].answer = "none" /\ UNCHANGED <<inform, session, met, owner>>
            /\ HasTask(c) => c \in met \/ (inform = request[c].seen /\ owner # Session)
            BY <1>12, NoAnswerYet DEF PollToken, database, TaskInv, Sound
      <2>2. CASE owner = Session /\ Go(c, "end")
            BY <2>1, <2>2, GoKeeps DEF Phases
      <2>3. CASE Go(c, "start")
            BY <2>1, <2>3, GoKeeps DEF Phases
      <2>4. QED BY <1>12, <2>2, <2>3 DEF PollToken
<1>13. CASE PollEnd(c)
      <2>1. /\ request[c].answer = "none" /\ UNCHANGED <<inform, session, met, owner>>
            /\ HasTask(c) => c \in met
            BY <1>13, NoAnswerYet DEF PollEnd, database, TaskInv, Sound
      <2>2. CASE Unheard(c)
            BY <2>1, <2>2, UnheardKeeps
      <2>3. CASE Go(c, "count")
            BY <2>1, <2>3, GoKeeps DEF Phases
      <2>4. QED BY <1>13, <2>2, <2>3 DEF PollEnd
<1>14. CASE Count(c)
      BY <1>14, CountKeeps
<1>15. CASE Clean(c)
      <2>1. /\ request[c].answer \in Answers
            /\ request[c].answer \in {"done", "faulted"} /\ HasTask(c) => c \in met
            BY <1>15 DEF Clean, TaskInv, Sound, TypeInv, Requests
      <2>2. QED BY <1>15, <2>1, ConcludeKeeps DEF Clean
<1>16. QED
      BY <1>1, <1>2, <1>3, <1>4, <1>5, <1>6, <1>7, <1>8, <1>9, <1>10, <1>11, <1>12, <1>13,
         <1>14, <1>15 DEF Handle

-----------------------------------------------------------------------------
\* A session that is over or turned away leaves its number.
LEMMA StampOnly ==
    ASSUME TaskInv, session' = [NoSession EXCEPT !.stamp = session.stamp]
    PROVE  session' \in Sessions /\ session'.pc = "none"
<1>1. session.stamp \in Nat
      BY DEF TaskInv, TypeInv, Sessions
<1>2. NoSession \in Sessions /\ NoSession.pc = "none"
      BY DEF NoSession, Sessions
<1>3. QED BY <1>1, <1>2 DEF Sessions

\* A session is admitted when nobody has the lock, and finds what is queued by then.
LEMMA AdmitKeeps ==
    ASSUME TasksAssumption, TaskInv, Admit
    PROVE  TaskInv'
<1>1. UNCHANGED <<inform, request>>
      BY DEF Admit, database
<1>2. CASE owner = Nobody
      <2>1. /\ owner' = Session /\ met' = Queued
            /\ session' = [session EXCEPT !.pc = "running"]
            BY <1>2 DEF Admit
      <2>2. session' \in Sessions
            BY <2>1 DEF TaskInv, TypeInv, Sessions
      <2>3. TypeInv' /\ SessionOwns'
            BY <1>1, <2>1, <2>2 DEF TaskInv, TypeInv, SessionOwns
      <2>4. ASSUME NEW c \in Clients PROVE Sound(c)'
            <3>1. request[c] \in Requests
                  BY DEF TaskInv, TypeInv
            <3>2. HasTask(c) /\ request[c].pc \in {"call", "start", "token", "end", "count",
                                                  "release", "clean", "over"} => c \in Queued
                  BY <3>1 DEF Queued, HasTask, Requests, Phases
            <3>3. QED
                  BY <1>1, <2>1, <3>1, <3>2 DEF TaskInv, Sound, HasTask, TasksAssumption
      <2>5. QED BY <2>3, <2>4 DEF TaskInv
<1>3. CASE owner # Nobody
      <2>1. session' = [NoSession EXCEPT !.stamp = session.stamp] /\ UNCHANGED <<owner, met>>
            BY <1>3 DEF Admit
      <2>2. QED BY <1>1, <2>1, StampOnly, NobodyConcerned
<1>4. QED BY <1>2, <1>3

\* The inform is saved by a session that has the lock, so by one that has found every task
\* that is waited for.
LEMMA SaveKeeps ==
    ASSUME TasksAssumption, TaskInv, NEW w \in Writes, Save(w)
    PROVE  TaskInv'
<1>1. owner = Session /\ UNCHANGED <<owner, request, met>>
      BY DEF Save, TaskInv, SessionOwns
<1>2. TypeInv' /\ SessionOwns'
      <2>1. session' = [session EXCEPT !.writes = @ \ {w}]
            BY DEF Save
      <2>2. session' \in Sessions /\ session'.pc = session.pc
            BY <2>1 DEF TaskInv, TypeInv, Sessions
      <2>3. inform' \in Nat
            BY DEF Save, TaskInv, TypeInv, Sessions
      <2>4. QED BY <1>1, <2>2, <2>3 DEF TaskInv, TypeInv, SessionOwns
<1>3. ASSUME NEW c \in Clients PROVE Sound(c)'
      BY <1>1 DEF TaskInv, Sound, HasTask, TasksAssumption
<1>4. QED BY <1>2, <1>3 DEF TaskInv

\* The steps of a session.
LEMMA SessionKeeps ==
    ASSUME TasksAssumption, TaskInv, SessionStep
    PROVE  TaskInv'
<1>1. session \in Sessions
      BY DEF TaskInv, TypeInv
<1>2. CASE FetchDevice
      <2>1. /\ session' = [session EXCEPT !.pc = "fetched", !.new = ~known]
            /\ UNCHANGED <<request, inform, owner, met>>
            BY <1>2 DEF FetchDevice, database
      <2>2. session' \in Sessions /\ session'.pc = "fetched"
            BY <1>1, <2>1 DEF Sessions
      <2>3. QED BY <2>1, <2>2, NobodyConcerned
<1>3. CASE Admit
      BY <1>3, AdmitKeeps
<1>4. CASE EndSession
      <2>1. /\ session' = [session EXCEPT !.pc = "saving", !.writes = Writes]
            /\ UNCHANGED <<request, inform, owner, met>> /\ session.pc = "running"
            BY <1>4 DEF EndSession, database
      <2>2. session' \in Sessions
            BY <1>1, <2>1 DEF Sessions
      <2>3. QED BY <2>1, <2>2, NobodyConcerned
<1>5. CASE SessionOver
      <2>1. /\ session' = [NoSession EXCEPT !.stamp = session.stamp]
            /\ UNCHANGED <<inform, request, met>> /\ owner = Session /\ owner' = Nobody
            BY <1>5 DEF SessionOver, database, TaskInv, SessionOwns
      <2>2. session' \in Sessions /\ session'.pc = "none"
            BY <2>1, StampOnly
      <2>3. TypeInv' /\ SessionOwns'
            BY <2>1, <2>2 DEF TaskInv, TypeInv, SessionOwns
      <2>4. ASSUME NEW c \in Clients PROVE Sound(c)'
            BY <2>1 DEF TaskInv, Sound, HasTask, TasksAssumption
      <2>5. QED BY <2>3, <2>4 DEF TaskInv
<1>6. CASE SessionLost
      <2>1. /\ session' = [NoSession EXCEPT !.stamp = session.stamp]
            /\ UNCHANGED <<request, inform, owner, met>>
            BY <1>6 DEF SessionLost, database
      <2>2. QED BY <2>1, StampOnly, NobodyConcerned
<1>7. ASSUME NEW t \in Clients, Work(t) PROVE TaskInv'
      <2>1. /\ session' \in {[session EXCEPT !.done = @ \cup {t}],
                            [session EXCEPT !.failed = @ \cup {t}]}
            /\ UNCHANGED <<request, inform, owner, met>>
            BY <1>7 DEF Work, database
      <2>2. session' \in Sessions /\ session'.pc = session.pc
            BY <1>1, <2>1 DEF Sessions
      <2>3. QED BY <2>1, <2>2, NobodyConcerned
<1>8. ASSUME NEW w \in Writes, Save(w) PROVE TaskInv'
      BY <1>8, SaveKeeps
<1>9. QED
      BY <1>2, <1>3, <1>4, <1>5, <1>6, <1>7, <1>8 DEF SessionStep

\* The tasks are those of the requests.
LEMMA TasksKeep ==
    ASSUME tasks \subseteq Clients, [Next]_vars
    PROVE  (tasks \subseteq Clients)'
<1>1. ASSUME NEW c \in Clients, Handle(c) PROVE tasks' \subseteq Clients
      BY <1>1 DEF Handle, Find, Acquire, GiveUp, Check, Insert, Add, AddFails, Write, WriteFails,
                  Deleted, Release, Call, PollInform, PollToken, NotStarted, PollEnd, Count, Clean,
                  database
<1>2. CASE SessionStep
      BY <1>2 DEF SessionStep, FetchDevice, Admit, EndSession, SessionOver, SessionLost, Work,
                  Save, database
<1>3. CASE \E a \in adrift : Land(a)
      BY <1>3 DEF Land, Deleted
<1>4. CASE \/ \E c \in Clients, kind \in Kinds, t \in Clients : Arrive(c, kind, t)
           \/ \E work \in SUBSET tasks : SessionArrives(work)
           \/ Expire
      BY <1>4 DEF Arrive, SessionArrives, Expire, database
<1>5. QED BY <1>1, <1>2, <1>3, <1>4 DEF Next, vars, database

\* Every step.
LEMMA NextKeeps ==
    ASSUME TasksAssumption, TaskInv, tasks \subseteq Clients, [Next]_vars
    PROVE  TaskInv'
<1>1. ASSUME NEW c \in Clients, Handle(c) PROVE TaskInv'
      BY <1>1, HandleKeeps
<1>2. ASSUME NEW c \in Clients, NEW kind \in Kinds, NEW t \in Clients, Arrive(c, kind, t)
      PROVE  TaskInv'
      BY <1>2, ArriveKeeps
<1>3. CASE SessionStep
      BY <1>3, SessionKeeps
<1>4. ASSUME NEW work \in SUBSET tasks, SessionArrives(work) PROVE TaskInv'
      <2>1. /\ session' = [NoSession EXCEPT !.pc = "loaded", !.stamp = session.stamp + 1,
                                           !.work = work]
            /\ UNCHANGED <<request, inform, owner, met>>
            BY <1>4 DEF SessionArrives, database
      <2>2. session.stamp + 1 \in Nat /\ work \in SUBSET Clients
            BY DEF TaskInv, TypeInv, Sessions
      <2>3. NoSession \in Sessions
            BY DEF NoSession, Sessions
      <2>4. session' \in Sessions /\ session'.pc = "loaded"
            BY <2>1, <2>2, <2>3 DEF Sessions
      <2>5. QED BY <2>1, <2>4, NobodyConcerned
<1>5. ASSUME NEW a \in adrift, Land(a) PROVE TaskInv'
      BY <1>5, NobodyConcerned DEF Land, Deleted, TaskInv, TypeInv
<1>6. CASE Expire
      <2>1. /\ owner' = Nobody /\ UNCHANGED <<request, inform, met, session>>
            /\ owner = Session => session.pc \notin {"running", "saving"}
            BY <1>6 DEF Expire, database, TasksAssumption
      <2>2. TypeInv' /\ SessionOwns'
            BY <1>6, <2>1 DEF TaskInv, TypeInv, SessionOwns, Expire, TasksAssumption
      <2>3. ASSUME NEW c \in Clients PROVE Sound(c)'
            BY <2>1 DEF TaskInv, Sound, HasTask, TasksAssumption
      <2>4. QED BY <2>2, <2>3 DEF TaskInv
<1>7. CASE UNCHANGED vars
      BY <1>7, NobodyConcerned DEF vars, database, TaskInv, TypeInv
<1>8. QED BY <1>1, <1>2, <1>3, <1>4, <1>5, <1>6, <1>7 DEF Next

\* However the polls of the last inform and of the lock fall, and whatever fails or stalls, a
\* task is reported as executed only after a session that found it (awaitSessionStart,
\* awaitSessionEnd, postTasks).
THEOREM ExecutedOnlyAfterASession == Spec => []OnlyAfterASession
<1> USE TasksAssumption
<1> DEFINE Inv == TaskInv /\ tasks \subseteq Clients
<1>1. Init => Inv
      BY DEF Init, TaskInv, TypeInv, SessionOwns, Sound, HasTask, NoRequest, NoSession, Requests,
             Sessions, Phases, Posts
<1>2. Inv /\ [Next]_vars => Inv'
      BY NextKeeps, TasksKeep
<1>3. Inv => OnlyAfterASession
      BY DEF TaskInv, Sound, HasTask, OnlyAfterASession
<1>4. QED BY <1>1, <1>2, <1>3, PTL DEF Spec

-----------------------------------------------------------------------------
\* Who deletes has the lock or has lost it while it stalled; and as long as nothing has failed,
\* who inserts under the lock has seen the device.
Guarded(c) ==
    /\ request[c].pc = "write" => owner = c \/ c \in stalled
    /\ failures = 0 /\ request[c].pc \in {"insert", "add"} /\ owner = c => known

DeviceInv ==
    /\ request \in [Clients -> Requests]
    /\ failures \in Nat
    /\ failures = 0 => adrift = {} /\ stalled = {}
    /\ \A c \in Clients : Guarded(c)

\* A step of c that fails nothing and leaves the device alone, if it is right for c itself.
LEMMA OthersGuarded ==
    ASSUME TasksAssumption, DeviceInv, NEW c \in Clients,
           request' \in [Clients -> Requests],
           \A d \in Clients \ {c} : request'[d] = request[d],
           UNCHANGED <<failures, adrift, stalled, known>>,
           \/ owner' = owner
           \/ owner = c /\ owner' = Nobody
           \/ owner = Nobody /\ owner' = c,
           Guarded(c)'
    PROVE  DeviceInv'
<1>1. \A d \in Clients \ {c} : (owner' = d) = (owner = d)
      BY DEF TasksAssumption
<1>2. ASSUME NEW d \in Clients, d # c PROVE Guarded(d)'
      BY <1>1, <1>2 DEF DeviceInv, Guarded
<1>3. QED BY <1>2 DEF DeviceInv

\* A step that fails is the end of what is promised of insertions.
LEMMA FailedOnce ==
    ASSUME DeviceInv, failures' = failures + 1, request' \in [Clients -> Requests],
           \A d \in Clients : request'[d].pc = "write" => owner' = d \/ d \in stalled'
    PROVE  DeviceInv'
BY DEF DeviceInv, Guarded

\* Answering, giving up and going on elsewhere neither delete nor insert.
Leaves(c) ==
    \/ \E pc \in Phases \ {"write", "insert", "add"} : Go(c, pc)
    \/ \E answer \in Answers : Conclude(c, answer) \/ Outcome(c, answer)
    \/ \E answer \in Answers :
          request' = [request EXCEPT ![c].pc = "clean", ![c].answer = answer]

LEMMA LeavesIs ==
    ASSUME TypeInv, NEW c \in Clients, Leaves(c)
    PROVE  request'[c].pc \notin {"write", "insert", "add"}
<1>1. request[c] \in Requests
      BY DEF TypeInv
<1>2. ASSUME NEW pc \in Phases \ {"write", "insert", "add"}, Go(c, pc)
      PROVE  request'[c].pc \notin {"write", "insert", "add"}
      <2>1. request'[c] = [request[c] EXCEPT !.pc = pc]
            BY <1>2, GoIs
      <2>2. request'[c].pc = pc
            BY <1>1, <2>1 DEF Requests
      <2>3. QED BY <2>2
<1>3. ASSUME NEW answer \in Answers, Conclude(c, answer)
      PROVE  request'[c].pc = "over"
      BY <1>3, ConcludeIs
<1>4. ASSUME NEW answer \in Answers, NEW pc \in {"clean", "release"},
             request' = [request EXCEPT ![c].pc = pc, ![c].answer = answer]
      PROVE  request'[c].pc = pc
      <2>1. request'[c] = [request[c] EXCEPT !.pc = pc, !.answer = answer]
            BY <1>4, AnswerIs DEF Phases
      <2>2. QED BY <1>1, <2>1 DEF Requests
<1>5. QED BY <1>2, <1>3, <1>4 DEF Leaves, Outcome

\* A deletion goes on or is done.
LEMMA WriteIs ==
    ASSUME TypeInv, NEW c \in Clients, NEW w \in Writes, Write(c, w)
    PROVE  request'[c].pc \in {"write", "release"}
<1>1. request[c] \in Requests /\ request[c].pc = "write"
      BY DEF TypeInv, Write
<1>2. CASE request[c].writes # {w}
      <2>1. request'[c].pc = request[c].pc
            BY <1>1, <1>2 DEF Write, TypeInv, Requests
      <2>2. QED BY <1>1, <2>1
<1>3. CASE request[c].writes = {w}
      <2> DEFINE q == [request[c] EXCEPT !.writes = @ \ {w}, !.pc = "release", !.answer = "done"]
      <2>1. q \in Requests /\ q.pc = "release"
            BY <1>1 DEF Requests, Phases, Answers
      <2>2. request' = [request EXCEPT ![c] = q]
            BY <1>1, <1>3 DEF Write, TypeInv, Requests
      <2>3. request'[c] = q
            BY <2>2 DEF TypeInv
      <2>4. QED BY <2>1, <2>3
<1>4. QED BY <1>2, <1>3

\* A handler deletes the device under the lock only, when nobody else inserts under it.
LEMMA HandleGuarded ==
    ASSUME TasksAssumption, TaskInv, DeviceInv, NEW c \in Clients, Handle(c),
           request' \in [Clients -> Requests]
    PROVE  DeviceInv'
<1>1. request[c] \in Requests
      BY DEF DeviceInv
<1>2. \A d \in Clients \ {c} : request'[d] = request[d]
      BY DEF Handle, Find, Acquire, GiveUp, Check, Insert, Add, AddFails, Write, WriteFails,
             Release, Call, PollInform, PollToken, NotStarted, PollEnd, Count, Clean,
             Go, Conclude, Outcome, Unheard, DeviceInv
<1> DEFINE q == request[c]
           q1 == request'[c]
<1>3. ASSUME NEW w \in Writes, Write(c, w) PROVE DeviceInv'
      <2>1. /\ q.pc = "write" /\ UNCHANGED <<owner, failures, adrift, stalled>>
            /\ q1.pc \in {"write", "release"}
            BY <1>3, WriteIs DEF Write, TaskInv
      <2>2. ASSUME NEW d \in Clients, failures = 0
            PROVE  ~(request'[d].pc \in {"insert", "add"} /\ owner = d)
            BY <1>2, <2>1, <2>2 DEF DeviceInv, Guarded
      <2>3. ASSUME NEW d \in Clients, request'[d].pc = "write"
            PROVE  owner = d \/ d \in stalled
            BY <1>2, <2>1, <2>3 DEF DeviceInv, Guarded
      <2>4. QED BY <2>1, <2>2, <2>3 DEF DeviceInv, Guarded
<1>4. CASE AddFails(c) \/ \E w \in Writes : WriteFails(c, w)
      <2>1. failures' = failures + 1 /\ UNCHANGED <<owner, stalled>>
            BY <1>4 DEF AddFails, WriteFails, database
      <2>2. q1.pc # "write"
            <3>1. CASE AddFails(c)
                  BY <3>1, LeavesIs DEF AddFails, Leaves, Answers, TaskInv
            <3>2. ASSUME NEW w \in Writes, WriteFails(c, w) PROVE q1.pc = "release"
                  BY <1>1, <3>2 DEF WriteFails, DeviceInv, Requests
            <3>3. QED BY <1>4, <3>1, <3>2
      <2>3. ASSUME NEW d \in Clients, request'[d].pc = "write"
            PROVE  owner = d \/ d \in stalled
            BY <1>2, <2>2, <2>3 DEF DeviceInv, Guarded
      <2>4. QED BY <2>1, <2>3, FailedOnce
<1>5. CASE Acquire(c)
      <2>1. /\ owner = Nobody /\ owner' = c
            /\ UNCHANGED <<failures, adrift, stalled, known>>
            /\ q1.pc \in {"check", "write"}
            BY <1>1, <1>5 DEF Acquire, database, DeviceInv, Requests
      <2>2. QED BY <1>2, <2>1, OthersGuarded DEF Guarded
<1>6. ASSUME Leaves(c), UNCHANGED <<failures, adrift, stalled, known>>,
             owner' = owner \/ (owner = c /\ owner' = Nobody)
      PROVE  DeviceInv'
      BY <1>2, <1>6, LeavesIs, OthersGuarded DEF Guarded, TaskInv
<1>7. CASE Check(c)
      <2>1. UNCHANGED <<failures, adrift, stalled, known, owner>>
            BY <1>7 DEF Check, database
      <2>2. CASE known /\ request' = [request EXCEPT ![c].pc = "insert", ![c].seen = inform]
            BY <1>2, <2>1, <2>2, OthersGuarded DEF Guarded
      <2>3. CASE \E answer \in Answers : Outcome(c, answer)
            BY <1>6, <2>1, <2>3 DEF Leaves
      <2>4. QED BY <1>7, <2>2, <2>3 DEF Check, Answers
<1>8. CASE Insert(c)
      <2>1. /\ UNCHANGED <<failures, adrift, stalled, known, owner>>
            /\ q.pc = "insert" /\ q1.pc = "add"
            BY <1>1, <1>8 DEF Insert, Go, DeviceInv, Requests
      <2>2. QED BY <1>2, <2>1, OthersGuarded DEF Guarded, DeviceInv
<1>9. CASE Release(c)
      <2>1. /\ UNCHANGED <<failures, adrift, stalled, known>>
            /\ owner' = owner \/ (owner = c /\ owner' = Nobody)
            BY <1>9 DEF Release, database
      <2>2. Leaves(c)
            BY <1>1, <1>9 DEF Release, Leaves, Phases, Answers, Requests
      <2>3. QED BY <1>6, <2>1, <2>2
<1>10. CASE Find(c) \/ GiveUp(c) \/ Add(c) \/ Call(c)
      <2>1. UNCHANGED <<failures, adrift, stalled, known, owner>>
            BY <1>10 DEF Find, GiveUp, Add, Call, database
      <2>2. Leaves(c)
            BY <1>10 DEF Find, GiveUp, Add, Call, Unheard, Leaves, Phases, Answers
      <2>3. QED BY <1>6, <2>1, <2>2
<1>11. CASE PollInform(c) \/ PollToken(c) \/ NotStarted(c) \/ PollEnd(c)
      <2>1. UNCHANGED <<failures, adrift, stalled, known, owner>>
            BY <1>11 DEF PollInform, PollToken, NotStarted, PollEnd, database
      <2>2. Leaves(c)
            BY <1>11 DEF PollInform, PollToken, NotStarted, PollEnd, Unheard, Leaves, Phases, Answers
      <2>3. QED BY <1>6, <2>1, <2>2
<1>12. CASE Count(c) \/ Clean(c)
      <2>1. UNCHANGED <<failures, adrift, stalled, known, owner>>
            BY <1>12 DEF Count, Clean, database
      <2>2. CASE Count(c)
            <3>1. (IF c \in faults THEN "faulted" ELSE "done") \in Answers
                  BY DEF Answers
            <3>2. Leaves(c)
                  BY <2>2, <3>1 DEF Count, Leaves
            <3>3. QED BY <1>6, <2>1, <3>2
      <2>3. CASE Clean(c)
            <3>1. request[c].answer \in Answers
                  BY <1>1, <2>3 DEF Clean, TaskInv, Sound, Requests
            <3>2. QED BY <1>6, <2>1, <2>3, <3>1 DEF Clean, Leaves
      <2>4. QED BY <1>12, <2>2, <2>3
<1>13. QED
      BY <1>3, <1>4, <1>5, <1>7, <1>8, <1>9, <1>10, <1>11, <1>12 DEF Handle

\* Whatever else happens: sessions only ever register the device, and a lock expires under a
\* request only if that stalls.
LEMMA NextGuarded ==
    ASSUME TasksAssumption, TaskInv, DeviceInv, [Next]_vars, TypeInv'
    PROVE  DeviceInv'
<1>1. request' \in [Clients -> Requests]
      BY DEF TypeInv
<1>2. ASSUME NEW c \in Clients, Handle(c) PROVE DeviceInv'
      BY <1>1, <1>2, HandleGuarded
<1>3. ASSUME NEW c \in Clients, NEW kind \in Kinds, NEW t \in Clients, Arrive(c, kind, t)
      PROVE  DeviceInv'
      <2>1. /\ UNCHANGED <<failures, adrift, stalled, known, owner>>
            /\ \A d \in Clients \ {c} : request'[d] = request[d]
            /\ request'[c].pc \in {"check", "find", "lock"}
            BY <1>3 DEF Arrive, database, DeviceInv, Requests
      <2>2. QED BY <1>1, <2>1, OthersGuarded DEF Guarded
<1>4. CASE SessionStep
      <2> DEFINE Quiet == /\ UNCHANGED <<request, adrift, stalled>>
                          /\ failures' = failures \/ failures' = failures + 1
                          /\ known => known'
                          /\ \/ owner' = owner
                             \/ owner = Session /\ owner' = Nobody
                             \/ owner = Nobody /\ owner' = Session
      <2>1. Quiet
            <3>1. CASE FetchDevice \/ EndSession \/ SessionLost
                  BY <3>1 DEF FetchDevice, EndSession, SessionLost, database
            <3>2. CASE Admit \/ SessionOver
                  BY <3>2 DEF Admit, SessionOver, database
            <3>3. ASSUME NEW t \in Clients, Work(t) PROVE Quiet
                  BY <3>3 DEF Work, database
            <3>4. ASSUME NEW w \in Writes, Save(w) PROVE Quiet
                  BY <3>4 DEF Save
            <3>5. QED BY <1>4, <3>1, <3>2, <3>3, <3>4 DEF SessionStep
      <2>2. \A d \in Clients : (owner' = d) = (owner = d)
            BY <2>1 DEF TasksAssumption
      <2>3. QED BY <2>1, <2>2 DEF DeviceInv, Guarded
<1>5. CASE \E work \in SUBSET tasks : SessionArrives(work)
      BY <1>5 DEF SessionArrives, database, DeviceInv, Guarded
<1>6. CASE \E a \in adrift : Land(a)
      <2>1. failures # 0 /\ UNCHANGED <<failures, request, owner, stalled>>
            BY <1>6 DEF Land, DeviceInv
      <2>2. QED BY <2>1 DEF DeviceInv, Guarded
<1>7. CASE Expire
      <2>1. CASE owner = Session /\ UNCHANGED <<failures, stalled>>
            BY <1>7, <2>1 DEF Expire, database, DeviceInv, Guarded, TasksAssumption
      <2>2. CASE failures' = failures + 1 /\ stalled' = stalled \cup {owner}
            <3>1. request' = request
                  BY <1>7 DEF Expire
            <3>2. ASSUME NEW d \in Clients, request'[d].pc = "write" PROVE d \in stalled'
                  BY <2>2, <3>1, <3>2 DEF DeviceInv, Guarded
            <3>3. QED BY <1>1, <2>2, <3>2, FailedOnce
      <2>3. QED BY <1>7, <2>1, <2>2 DEF Expire
<1>8. CASE UNCHANGED vars
      BY <1>8 DEF vars, database, DeviceInv, Guarded
<1>9. QED BY <1>2, <1>3, <1>4, <1>5, <1>6, <1>7, <1>8 DEF Next

\* What holds of every behaviour.
LEMMA DeviceAlways == Spec => [](TaskInv /\ tasks \subseteq Clients /\ DeviceInv)
<1> USE TasksAssumption
<1> DEFINE Inv == TaskInv /\ tasks \subseteq Clients /\ DeviceInv
<1>1. Init => Inv
      BY DEF Init, TaskInv, TypeInv, SessionOwns, Sound, HasTask, NoRequest, NoSession, Requests,
             Sessions, Phases, Posts, DeviceInv, Guarded
<1>2. Inv /\ [Next]_vars => Inv'
      <2>1. Inv /\ [Next]_vars => TaskInv' /\ (tasks \subseteq Clients)'
            BY NextKeeps, TasksKeep
      <2>2. Inv /\ [Next]_vars => DeviceInv'
            BY <2>1, NextGuarded DEF TaskInv
      <2>3. QED BY <2>1, <2>2
<1>3. QED BY <1>1, <1>2, PTL DEF Spec

\* As long as nothing fails and no request stalls, a task that is queued under the lock is
\* queued for a device that exists: deleteDevice cannot come between the look at the device
\* and the insertion (postTasks, deleteDevice).
THEOREM NeverQueuedForNoDevice == Spec => []QueuedForADevice
<1>1. DeviceInv => QueuedForADevice
      BY DEF DeviceInv, Guarded, QueuedForADevice
<1>2. QED BY <1>1, DeviceAlways, PTL

\* A step of a request that touches the database is seen in the request.
LEMMA HandleMoves ==
    ASSUME TypeInv, NEW c \in Clients, Handle(c)
    PROVE  request'[c] # request[c] \/ UNCHANGED database
<1>1. CASE Insert(c)
      <2>1. request[c].pc = "insert" /\ Go(c, "add")
            BY <1>1 DEF Insert
      <2>2. request'[c] = [request[c] EXCEPT !.pc = "add"] /\ request[c] \in Requests
            BY <2>1, GoIs DEF Phases, TypeInv
      <2>3. request'[c].pc = "add"
            BY <2>2 DEF Requests
      <2>4. QED BY <2>1, <2>3
<1>2. CASE Add(c) \/ Clean(c)
      <2>1. /\ request[c].pc \in {"add", "clean"}
            /\ Go(c, "release") \/ Conclude(c, "queued") \/ Conclude(c, request[c].answer)
            BY <1>2 DEF Add, Clean
      <2>2. CASE Go(c, "release")
            <3>1. request'[c] = [request[c] EXCEPT !.pc = "release"] /\ request[c] \in Requests
                  BY <2>2, GoIs DEF Phases, TypeInv
            <3>2. request'[c].pc = "release"
                  BY <3>1 DEF Requests
            <3>3. QED BY <2>1, <3>2
      <2>3. ASSUME NEW answer, Conclude(c, answer) PROVE request'[c].pc = "over"
            BY <2>3 DEF Conclude, TypeInv, NoRequest
      <2>4. QED BY <2>1, <2>2, <2>3
<1>3. ASSUME NEW w \in Writes, Write(c, w)
      PROVE  request'[c] # request[c]
      <2>1. request[c] \in Requests /\ request[c].pc = "write" /\ w \in request[c].writes
            BY <1>3 DEF TypeInv, Write
      <2>2. CASE request[c].writes # {w}
            <3>1. request'[c].writes = request[c].writes \ {w}
                  BY <1>3, <2>1, <2>2 DEF Write, TypeInv, Requests
            <3>2. QED BY <2>1, <3>1
      <2>3. CASE request[c].writes = {w}
            <3> DEFINE q == [request[c] EXCEPT !.writes = @ \ {w}, !.pc = "release", !.answer = "done"]
            <3>1. q.pc = "release"
                  BY <2>1 DEF Requests
            <3>2. request' = [request EXCEPT ![c] = q]
                  BY <1>3, <2>1, <2>3 DEF Write, TypeInv, Requests
            <3>3. request'[c] = q
                  BY <3>2 DEF TypeInv
            <3>4. QED BY <2>1, <3>1, <3>3
      <2>4. QED BY <2>2, <2>3
<1>4. CASE Find(c) \/ Acquire(c) \/ GiveUp(c) \/ Check(c) \/ AddFails(c) \/ Release(c)
      BY <1>4 DEF Find, Acquire, GiveUp, Check, AddFails, Release
<1>5. CASE \/ Call(c) \/ PollInform(c) \/ PollToken(c) \/ NotStarted(c) \/ PollEnd(c)
           \/ Count(c)
      BY <1>5 DEF Call, PollInform, PollToken, NotStarted, PollEnd, Count
<1>6. ASSUME NEW w \in Writes, WriteFails(c, w)
      PROVE  UNCHANGED database
      BY <1>6 DEF WriteFails
<1>7. QED BY <1>1, <1>2, <1>3, <1>4, <1>5, <1>6 DEF Handle

\* A step of the session that touches the database is seen in the session.
LEMMA SessionMoves ==
    ASSUME session \in Sessions, SessionStep
    PROVE  session' # session \/ UNCHANGED database
<1>1. ASSUME NEW w \in Writes, Save(w)
      PROVE  session' # session
      <2>1. w \notin session'.writes /\ w \in session.writes
            BY <1>1 DEF Save, Sessions
      <2>2. QED BY <2>1
<1>2. CASE FetchDevice \/ Admit \/ EndSession \/ SessionOver \/ SessionLost
      BY <1>2 DEF FetchDevice, Admit, EndSession, SessionOver, SessionLost
<1>3. ASSUME NEW t \in Clients, Work(t)
      PROVE  UNCHANGED database
      BY <1>3 DEF Work
<1>4. QED BY <1>1, <1>2, <1>3 DEF SessionStep

\* While a session of the device is under way, no step takes a task, a fault or the device
\* from under it, but for a request that has lost its lock, the tasks that are replaced or
\* withdrawn without the lock, and the writes of a failed deletion that its request no longer
\* waits for (what nbi.ts, ui/api.ts and deleteDevice do between acquireLock and releaseLock).
THEOREM SessionsNeverDisturbed == Spec => SessionsUndisturbed
<1> USE TasksAssumption
<1> DEFINE Excused == BySession \/ ByStalled \/ ByReplacement \/ ByAdrift
<1>1. ASSUME TaskInv, DeviceInv, owner = Session, NEW c \in Clients \ stalled, Handle(c), Takes
      PROVE  ByReplacement
      <2>1. request[c].pc # "write" /\ request \in [Clients -> Requests]
            BY <1>1 DEF DeviceInv, Guarded
      <2>2. CASE Insert(c) \/ Clean(c)
            <3>1. UNCHANGED <<known, faults>> /\ request[c].pc \in {"insert", "clean"}
                  BY <2>2 DEF Insert, Clean
            <3>2. request'[c] # request[c]
                  BY <1>1, <3>1, HandleMoves DEF TaskInv, Takes, database
            <3>3. QED BY <3>1, <3>2 DEF ByReplacement
      <2>3. CASE Add(c)
            BY <1>1, <2>3 DEF Add, Takes
      <2>4. CASE Find(c) \/ Acquire(c) \/ GiveUp(c) \/ Check(c) \/ AddFails(c) \/ Release(c)
            <3>1. UNCHANGED database
                  BY <2>4 DEF Find, Acquire, GiveUp, Check, AddFails, Release
            <3>2. QED BY <1>1, <3>1 DEF database, Takes
      <2>5. CASE \/ Call(c) \/ PollInform(c) \/ PollToken(c) \/ NotStarted(c) \/ PollEnd(c)
                 \/ Count(c)
            <3>1. UNCHANGED database
                  BY <2>5 DEF Call, PollInform, PollToken, NotStarted, PollEnd, Count
            <3>2. QED BY <1>1, <3>1 DEF database, Takes
      <2>6. ASSUME NEW w \in Writes PROVE ~Write(c, w) /\ ~WriteFails(c, w)
            BY <2>1 DEF Write, WriteFails
      <2>7. QED BY <1>1, <2>2, <2>3, <2>4, <2>5, <2>6 DEF Handle
<1>2. ASSUME TaskInv, DeviceInv, Next, InSession, Takes
      PROVE  Excused
      <2>1. ASSUME NEW c \in Clients, Handle(c) PROVE Excused
            <3>1. CASE c \notin stalled
                  BY <1>1, <1>2, <2>1, <3>1 DEF InSession
            <3>2. CASE c \in stalled
                  <4>1. request'[c] # request[c] \/ UNCHANGED database
                        BY <1>2, <2>1, HandleMoves DEF TaskInv
                  <4>2. QED BY <1>2, <3>2, <4>1 DEF ByStalled, Takes, database
            <3>3. QED BY <3>1, <3>2
      <2>2. ASSUME NEW c \in Clients, NEW kind \in Kinds, NEW t \in Clients, Arrive(c, kind, t)
            PROVE  FALSE
            BY <1>2, <2>2 DEF Arrive, database, Takes
      <2>3. CASE SessionStep
            <3>1. session' # session \/ UNCHANGED database
                  BY <1>2, <2>3, SessionMoves DEF TaskInv, TypeInv
            <3>2. QED BY <1>2, <3>1 DEF BySession, Takes, database
      <2>4. CASE \E work \in SUBSET tasks : SessionArrives(work)
            BY <1>2, <2>4 DEF SessionArrives, database, Takes
      <2>5. CASE \E a \in adrift : Land(a)
            <3>1. adrift' # adrift
                  BY <2>5 DEF Land
            <3>2. QED BY <3>1 DEF ByAdrift
      <2>6. CASE Expire
            BY <1>2, <2>6 DEF Expire, database, Takes
      <2>7. QED BY <1>2, <2>1, <2>2, <2>3, <2>4, <2>5, <2>6 DEF Next
<1>3. TaskInv /\ DeviceInv /\ [Next]_vars => [InSession /\ Takes => Excused]_vars
      BY <1>2
<1>4. QED BY <1>3, DeviceAlways, PTL DEF Spec, SessionsUndisturbed
=============================================================================
