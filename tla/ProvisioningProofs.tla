------------------------- MODULE ProvisioningProofs -------------------------
(***************************************************************************)
(* Theorems about Provisioning, for any tasks, channels, provisions and    *)
(* bounds.                                                                 *)
(***************************************************************************)
EXTENDS Provisioning, TLAPS

-----------------------------------------------------------------------------
\* Types

\* A request is only sent when there is room for its answer.
RoomForAnswer == phase = "sent" => rpcs < MaxRpcs

Typed == TypeOK /\ RoomForAnswer

LEMMA NeverIsNoTime == Never \notin Nat
  BY DEF Never

LEMMA TypeInit == Init => Typed
  BY ProvisioningAssumption
  DEF Init, Typed, TypeOK, RoomForAnswer, Phases, InSession, Nothing, NoFault, NotSaved,
      FaultRecord, SavedRecord, Channels, Never

\* The variables that NoSession, and ClearProvisions, reset are reset to their type.
LEMMA NoSessionType ==
  ASSUME NoSession
  PROVE  /\ phase' = "closed" /\ white' \in Channels \cup {NoChannel}
         /\ tasks' \subseteq Tasks /\ faults' \in [Channels -> FaultRecord]
         /\ retries' \in [Channels -> 0 .. MaxRetries \cup {Never}]
         /\ touched' \subseteq Channels /\ done' \subseteq Tasks
         /\ channels' \subseteq Channels /\ bits' \in [Channels -> SUBSET Items]
         /\ provisions' \subseteq Items /\ rpcs' = 0 /\ cycles' = 0
         /\ unread' \subseteq Conditional /\ slipped' \subseteq Tasks
  BY DEF NoSession, FaultRecord, NoFault, Nothing, Never

LEMMA ClearedType ==
  ASSUME ClearProvisions, MaxRpcs \in Nat
  PROVE  /\ channels' \subseteq Channels /\ bits' \in [Channels -> SUBSET Items]
         /\ provisions' \subseteq Items /\ rpcs' \in 0 .. MaxRpcs
  BY DEF ClearProvisions, Nothing

LEMMA WorkOnType ==
  ASSUME NEW K \in SUBSET Channels, NEW B \in [Channels -> SUBSET Items], WorkOn(K, B),
         MaxRpcs \in Nat
  PROVE  /\ channels' \subseteq Channels /\ bits' \in [Channels -> SUBSET Items]
         /\ provisions' \subseteq Items /\ rpcs' \in 0 .. MaxRpcs
  BY DEF WorkOn

LEMMA RetriedType ==
  ASSUME NEW K \in SUBSET Channels, Retried(K), TypeOK
  PROVE  /\ retries' \in [Channels -> 0 .. MaxRetries \cup {Never}]
         /\ \A c \in K : retries'[c] \in 0 .. MaxRetries
         /\ \A c \in Channels \ K : retries'[c] = retries[c]
  <1>1. \A c \in Channels : Bumped(c) \in 0 .. MaxRetries
        BY ProvisioningAssumption DEF TypeOK, Bumped, Never
  <1>2. QED BY <1>1 DEF Retried, TypeOK

\* What a fault of the channels K does to the faults: they keep what they had and get
\* what was at work.
LEMMA FaultedType ==
  ASSUME NEW K \in SUBSET Channels, NEW B \in [Channels -> SUBSET Items],
         NEW old \in [Channels -> FaultRecord], TypeOK
  PROVE  /\ Faulted(old, K, B) \in [Channels -> FaultRecord]
         /\ \A c \in Channels \ K : Faulted(old, K, B)[c] = old[c]
         /\ \A c \in K : /\ Faulted(old, K, B)[c].items = old[c].items \cup B[c]
                         /\ Faulted(old, K, B)[c].since = now
                         /\ Faulted(old, K, B)[c].precondition = (B[c] = {})
                         /\ Faulted(old, K, B)[c].retryNow =
                               (retries[c] = Never /\ Cardinality(K) # 1)
  <1>1. \A c \in K : FaultOf(old, c, K, B) \in FaultRecord
        BY DEF FaultOf, FaultRecord, TypeOK
  <1>2. Faulted(old, K, B) \in [Channels -> FaultRecord]
        BY <1>1 DEF Faulted
  <1>3. QED BY <1>2 DEF Faulted, FaultOf

LEMMA FinalType ==
  ASSUME NEW F \in [Channels -> FaultRecord]
  PROVE  /\ Final(F) \in [Channels -> FaultRecord]
         /\ \A c \in Channels : /\ Final(F)[c].items = F[c].items
                                /\ Final(F)[c].since = F[c].since
                                /\ Final(F)[c].precondition = F[c].precondition
                                /\ Final(F)[c].retryNow = FALSE
  BY DEF Final, FaultRecord

LEMMA RecordFaultType ==
  ASSUME NEW K \in SUBSET Channels, NEW B \in [Channels -> SUBSET Items],
         RecordFault(K, B), TypeOK
  PROVE  /\ faults' \in [Channels -> FaultRecord]
         /\ retries' \in [Channels -> 0 .. MaxRetries \cup {Never}]
         /\ touched' \subseteq Channels
  <1>1. faults \in [Channels -> FaultRecord]
        BY DEF TypeOK
  <1>2. QED BY <1>1, FaultedType, RetriedType DEF RecordFault, TypeOK

LEMMA ClearType ==
  ASSUME NEW K \in SUBSET Channels, Clear(K), TypeOK
  PROVE  /\ faults' \in [Channels -> FaultRecord]
         /\ retries' \in [Channels -> 0 .. MaxRetries \cup {Never}]
         /\ touched' \subseteq Channels
  <1>1. NoFault \in FaultRecord
        BY DEF NoFault, FaultRecord, Never
  <1>2. QED BY <1>1 DEF Clear, TypeOK

LEMMA OweType ==
  ASSUME NEW K \in SUBSET Channels, NEW X \in SUBSET Channels, NEW C \in SUBSET Channels,
         NEW B \in [Channels -> SUBSET Items], Owe(K, X, C, B), TypeOK
  PROVE  owed' \in [Channels -> SUBSET Items]
  BY DEF Owe, TypeOK

LEMMA QueueType ==
  ASSUME TypeOK
  PROVE  /\ Cleared \subseteq channels
         /\ Finished \subseteq Tasks /\ Finished \subseteq channels
         /\ Expired \subseteq tasks
         /\ Left \subseteq tasks
         /\ Available \subseteq Left
  BY DEF TypeOK, Cleared, Finished, Expired, Left, Available

\* The provisions with which applyPresets begins.
LEMMA ApplyType ==
  ASSUME NEW w \in Chosen, NEW f \in Fired(w), TypeOK
  PROVE  /\ w \in Channels \cup {NoChannel}
         /\ f \in [PresetChannels -> SUBSET Items]
         /\ Waits(w, f) \subseteq Channels
         /\ Joins(w, f) \subseteq Channels
         /\ JoinBits(w, f) \in [Channels -> SUBSET Items]
         /\ Appended(w, f) \in [Channels -> FaultRecord]
         /\ Extended(w, f) \subseteq Channels
         /\ \A c \in Channels : Added(f, c) \in SUBSET Items
  <1>1. w \in Channels \cup {NoChannel}
        BY DEF Chosen
  <1>2. f \in [PresetChannels -> SUBSET Items]
        BY DEF Fired
  <1>3. \A c \in Channels : Added(f, c) \in SUBSET Items
        BY <1>2 DEF Added
  <1>4. Waits(w, f) \subseteq Channels /\ Joins(w, f) \subseteq Channels
        BY DEF Waits, Joins, Channels
  <1>5. JoinBits(w, f) \in [Channels -> SUBSET Items]
    <2>1. \A c \in Channels : faults[c].items \in SUBSET Items
          BY DEF TypeOK, FaultRecord
    <2>2. QED BY <2>1, <1>3 DEF JoinBits
  <1>6. Appended(w, f) \in [Channels -> FaultRecord]
    <2>1. \A c \in Waits(w, f) : [faults[c] EXCEPT !.items = @ \cup f[c]] \in FaultRecord
          BY <1>2, <1>4 DEF TypeOK, FaultRecord, Waits
    <2>2. QED BY <2>1, <1>4 DEF TypeOK, Appended
  <1>7. Extended(w, f) \subseteq Channels
        BY <1>4 DEF Extended, TypeOK
  <1>8. QED BY <1>1, <1>2, <1>3, <1>4, <1>5, <1>6, <1>7

LEMMA BeginPresetsType ==
  ASSUME NEW w \in Chosen, NEW f \in Fired(w), BeginPresets(w, f), TypeOK
  PROVE  owed' \in [Channels -> SUBSET Items]
  <1> DEFINE B == [c \in Channels |-> JoinBits(w, f)[c] \cup Added(f, c)]
  <1>1. B \in [Channels -> SUBSET Items]
        BY ApplyType
  <1>2. Owe({}, {}, Channels, B)
        BY DEF BeginPresets
  <1> HIDE DEF B
  <1>3. QED BY <1>1, <1>2, OweType

LEMMA MarkedType ==
  ASSUME NEW w \in Chosen, NEW F \in SUBSET Eligible(w), TypeOK
  PROVE  /\ F \subseteq PresetChannels
         /\ Marked(F) \subseteq Channels
         /\ MarkedBits(F) \in [Channels -> SUBSET Items]
  BY ProvisioningAssumption DEF Eligible, Marked, MarkedBits, TypeOK, Channels

LEMMA LoadTyped ==
  ASSUME Typed, Load
  PROVE  Typed'
  <1>1. PICK t \in now + 1 .. MaxTime :
           /\ now' = t
           /\ tasks' = dbTasks
           /\ faults' = [c \in Channels |->
                           IF dbFaults[c].since = Never \/ c \in Dropped(t) THEN NoFault
                           ELSE [items |-> dbFaults[c].items, since |-> dbFaults[c].since,
                                 retryNow |-> FALSE, precondition |-> FALSE]]
           /\ retries' = [c \in Channels |-> LoadedRetries(c, t)]
           /\ touched' = Dropped(t)
        BY DEF Load
  <1>2. now' \in Nat
        BY <1>1 DEF Typed, TypeOK
  <1>3. faults' \in [Channels -> FaultRecord]
    <2>1. \A c \in Channels : dbFaults[c] \in SavedRecord
          BY DEF Typed, TypeOK
    <2>2. QED BY <1>1, <2>1 DEF FaultRecord, SavedRecord, NoFault
  <1>4. retries' \in [Channels -> 0 .. MaxRetries \cup {Never}]
    <2>1. \A c \in Channels : dbFaults[c].retries \in 0 .. MaxRetries \cup {Never}
          BY DEF Typed, TypeOK, SavedRecord
    <2>2. QED BY <1>1, <2>1 DEF LoadedRetries
  <1>5. touched' \subseteq Channels /\ tasks' \subseteq Tasks
        BY <1>1 DEF Dropped, Channels, Typed, TypeOK
  <1>6. phase' = "open" /\ phase' \in Phases /\ unread' \subseteq Conditional
        BY DEF Load, Phases, InSession
  <1>7. UNCHANGED <<dbTasks, dbFaults, white, done, work, cycles, ghosts>>
        BY DEF Load
  <1>8. TypeOK'
        BY <1>2, <1>3, <1>4, <1>5, <1>6, <1>7 DEF Typed, TypeOK, work, ghosts
  <1>9. QED BY <1>6, <1>8 DEF Typed, RoomForAnswer

LEMMA QuietTyped ==
  ASSUME Typed, Empty \/ NextSends \/ PresetsSend \/ Answer
  PROVE  Typed'
  <1>1. CASE Empty
        BY <1>1 DEF Empty, Typed, TypeOK, RoomForAnswer, Phases, InSession, stored, queue,
                    work, ghosts
  <1>2. CASE NextSends \/ PresetsSend
        BY <1>2 DEF NextSends, PresetsSend, Sends, Typed, TypeOK, RoomForAnswer, Phases,
                    InSession, stored, queue, work, ghosts
  <1>3. CASE Answer
        BY <1>3, ProvisioningAssumption
        DEF Answer, Typed, TypeOK, RoomForAnswer, Phases, InSession, stored, queue, ghosts
  <1>4. QED BY <1>1, <1>2, <1>3

LEMMA FaultStepsTyped ==
  ASSUME Typed, NextFaults \/ PresetsFault \/ AnswerFails \/ FetchFaults
  PROVE  Typed'
  <1>1. PICK K \in SUBSET Channels, B \in [Channels -> SUBSET Items] : RecordFault(K, B)
    <2>1. CASE FetchFaults
          BY <2>1, MarkedType DEF FetchFaults, Typed
    <2>2. CASE NextFaults \/ PresetsFault \/ AnswerFails
          BY <2>2 DEF NextFaults, PresetsFault, AnswerFails, Typed, TypeOK
    <2>3. QED BY <2>1, <2>2
  <1>2. /\ faults' \in [Channels -> FaultRecord]
        /\ retries' \in [Channels -> 0 .. MaxRetries \cup {Never}]
        /\ touched' \subseteq Channels
        BY <1>1, RecordFaultType DEF Typed
  <1>3. ClearProvisions
        BY DEF NextFaults, PresetsFault, AnswerFails, FetchFaults
  <1>4. /\ channels' \subseteq Channels /\ bits' \in [Channels -> SUBSET Items]
        /\ provisions' \subseteq Items /\ rpcs' \in 0 .. MaxRpcs
        BY <1>3, ClearedType, ProvisioningAssumption
  <1>5. /\ phase' \in {"next", "apply"} /\ white' \in {white, NoChannel}
        /\ UNCHANGED <<stored, tasks, done, cycles, unread, ghosts>>
        BY DEF NextFaults, PresetsFault, AnswerFails, FetchFaults
  <1>6. QED BY <1>2, <1>4, <1>5
            DEF Typed, TypeOK, RoomForAnswer, Phases, InSession, stored, ghosts

LEMMA FetchSendsTyped ==
  ASSUME Typed, FetchSends
  PROVE  Typed'
  <1>1. /\ phase' = "sent" /\ rpcs < MaxRpcs
        /\ UNCHANGED <<stored, white, queue, provisions, rpcs, cycles, unread, ghosts>>
        BY DEF FetchSends
  <1>2. channels' \subseteq Channels /\ bits' \in [Channels -> SUBSET Items]
        BY MarkedType DEF FetchSends, Typed
  <1>3. QED BY <1>1, <1>2
            DEF Typed, TypeOK, RoomForAnswer, Phases, InSession, stored, queue, ghosts

LEMMA NextDoneTyped ==
  ASSUME Typed, NextDone
  PROVE  Typed'
  <1> DEFINE X == Cleared \cup Expired
  <1>0. MaxRpcs \in Nat
        BY ProvisioningAssumption
  <1>1. /\ Cleared \subseteq Channels /\ Expired \subseteq Channels
        /\ Expired \subseteq Tasks /\ Finished \subseteq Tasks
        /\ Left \subseteq Tasks /\ channels \subseteq Channels /\ Available \subseteq Tasks
        BY QueueType DEF Typed, TypeOK, Channels
  <1>2. /\ faults' \in [Channels -> FaultRecord]
        /\ retries' \in [Channels -> 0 .. MaxRetries \cup {Never}]
        /\ touched' \subseteq Channels
    <2>1. X \in SUBSET Channels /\ Clear(X)
          BY <1>1 DEF NextDone
    <2> HIDE DEF X
    <2>2. QED BY <2>1, ClearType DEF Typed
  <1>3. unread' \subseteq Conditional
        BY DEF NextDone, Typed, TypeOK
  <1>4. UNCHANGED <<stored, white, cycles, slipped>>
        BY DEF NextDone
  <1>5. /\ phase' \in {"next", "apply"}
        /\ tasks' \subseteq Tasks /\ done' \subseteq Tasks
        /\ owed' \in [Channels -> SUBSET Items]
        /\ channels' \subseteq Channels /\ bits' \in [Channels -> SUBSET Items]
        /\ provisions' \subseteq Items /\ rpcs' \in 0 .. MaxRpcs
    <2>1. ASSUME NEW U \in SUBSET Tasks, Settle(U)
          PROVE  tasks' \subseteq Tasks /\ done' \subseteq Tasks
          BY <2>1, <1>1 DEF Settle, Typed, TypeOK
    <2>2. Nothing \in [Channels -> SUBSET Items]
          BY DEF Nothing
    <2>3. Owe(channels, Expired, {}, Nothing) => owed' \in [Channels -> SUBSET Items]
          BY <1>1, <2>2, OweType DEF Typed
    <2>4. CASE /\ Settle({}) /\ phase' = "apply" /\ ClearProvisions
               /\ Owe(channels, Expired, {}, Nothing)
          BY <1>0, <2>1, <2>3, <2>4, ClearedType
    <2>5. ASSUME NEW t \in Available, Settle({t}), phase' = phase, ClearProvisions,
                 Owe(channels, Expired, {}, Nothing)
          PROVE  <1>5
      <3>1. {t} \in SUBSET Tasks
            BY <1>1
      <3>2. phase' = "next"
            BY <2>5 DEF NextDone
      <3>3. QED BY <1>0, <2>1, <2>3, <2>5, <3>1, <3>2, ClearedType
    <2>6. ASSUME NEW t \in Available,
                 Settle({}), phase' = phase, WorkOn({t}, [Nothing EXCEPT ![t] = Work[t]]),
                 Owe(channels, Expired, {t}, [Nothing EXCEPT ![t] = Work[t]])
          PROVE  <1>5
      <3> DEFINE B == [Nothing EXCEPT ![t] = Work[t]]
      <3>1. B \in [Channels -> SUBSET Items] /\ {t} \in SUBSET Channels
            BY <1>1, <2>2, ProvisioningAssumption DEF Channels
      <3>2. phase' = "next"
            BY <2>6 DEF NextDone
      <3>3. WorkOn({t}, B) /\ Owe(channels, Expired, {t}, B)
            BY <2>6
      <3> HIDE DEF B
      <3>4. owed' \in [Channels -> SUBSET Items]
            BY <1>1, <3>1, <3>3, OweType DEF Typed
      <3>5. QED BY <1>0, <2>1, <2>6, <3>1, <3>2, <3>3, <3>4, WorkOnType
    <2>7. QED BY <2>4, <2>5, <2>6 DEF NextDone
  <1>6. QED BY <1>2, <1>3, <1>4, <1>5
            DEF Typed, TypeOK, RoomForAnswer, Phases, InSession, stored

LEMMA PresetsTyped ==
  ASSUME Typed, Apply \/ Loop \/ PresetsDone
  PROVE  Typed'
  <1>0. MaxRpcs \in Nat /\ MaxCycles \in Nat
        BY ProvisioningAssumption
  <1>1. CASE Apply
    <2>0. PICK w \in Chosen : \E f \in Fired(w) :
             /\ Allowed(w)
             /\ cycles' = IF Counted(w) THEN cycles + 1 ELSE cycles
             /\ faults' = Appended(w, f)
             /\ touched' = Extended(w, f)
             /\ WorkOn(Joins(w, f), JoinBits(w, f))
             /\ BeginPresets(w, f)
             /\ white' = w
          BY <1>1 DEF Apply
    <2>1. PICK f \in Fired(w) :
             /\ Allowed(w)
             /\ cycles' = IF Counted(w) THEN cycles + 1 ELSE cycles
             /\ faults' = Appended(w, f)
             /\ touched' = Extended(w, f)
             /\ WorkOn(Joins(w, f), JoinBits(w, f))
             /\ BeginPresets(w, f)
             /\ white' = w
          BY <2>0
    <2>2. /\ white' \in Channels \cup {NoChannel} /\ touched' \subseteq Channels
          /\ faults' \in [Channels -> FaultRecord]
          /\ Joins(w, f) \in SUBSET Channels
          /\ JoinBits(w, f) \in [Channels -> SUBSET Items]
          BY <2>1, ApplyType DEF Typed
    <2>3. owed' \in [Channels -> SUBSET Items]
          BY <2>1, BeginPresetsType DEF Typed
    <2>4. cycles' \in 0 .. MaxCycles
          BY <1>0, <2>1 DEF Allowed, Typed, TypeOK
    <2>5. /\ channels' \subseteq Channels /\ bits' \in [Channels -> SUBSET Items]
          /\ provisions' \subseteq Items /\ rpcs' \in 0 .. MaxRpcs
          BY <1>0, <2>1, <2>2, WorkOnType
    <2>6. phase' = "presets" /\ UNCHANGED <<stored, tasks, retries, done, unread, slipped>>
          BY <1>1 DEF Apply
    <2>7. QED BY <2>2, <2>3, <2>4, <2>5, <2>6
              DEF Typed, TypeOK, RoomForAnswer, Phases, InSession, stored
  <1>2. CASE Loop
    <2>0. PICK w \in Chosen : \E f \in Fired(w) :
             /\ faults' = Final(Faulted(Appended(w, f), Joins(w, f), JoinBits(w, f)))
             /\ touched' = Extended(w, f) \cup Joins(w, f)
             /\ Retried(Joins(w, f))
             /\ phase' \in {"thrown", "served"}
             /\ BeginPresets(w, f)
          BY <1>2 DEF Loop
    <2>1. PICK f \in Fired(w) :
             /\ faults' = Final(Faulted(Appended(w, f), Joins(w, f), JoinBits(w, f)))
             /\ touched' = Extended(w, f) \cup Joins(w, f)
             /\ Retried(Joins(w, f))
             /\ phase' \in {"thrown", "served"}
             /\ BeginPresets(w, f)
          BY <2>0
    <2>2. faults' \in [Channels -> FaultRecord]
      <3>1. Faulted(Appended(w, f), Joins(w, f), JoinBits(w, f)) \in [Channels -> FaultRecord]
            BY ApplyType, FaultedType DEF Typed
      <3>2. QED BY <2>1, <3>1, FinalType
    <2>3. /\ touched' \subseteq Channels
          /\ retries' \in [Channels -> 0 .. MaxRetries \cup {Never}]
          BY <2>1, ApplyType, RetriedType DEF Typed
    <2>4. owed' \in [Channels -> SUBSET Items]
          BY <2>1, BeginPresetsType DEF Typed
    <2>5. ClearProvisions /\ UNCHANGED <<stored, white, tasks, done, cycles, unread, slipped>>
          BY <1>2 DEF Loop
    <2>6. /\ channels' \subseteq Channels /\ bits' \in [Channels -> SUBSET Items]
          /\ provisions' \subseteq Items /\ rpcs' \in 0 .. MaxRpcs
          BY <1>0, <2>5, ClearedType
    <2>7. QED BY <2>1, <2>2, <2>3, <2>4, <2>5, <2>6
              DEF Typed, TypeOK, RoomForAnswer, Phases, InSession, stored
  <1>3. CASE PresetsDone
    <2>1. /\ faults' \in [Channels -> FaultRecord]
          /\ retries' \in [Channels -> 0 .. MaxRetries \cup {Never}]
          /\ touched' \subseteq Channels
          BY <1>3, ClearType DEF PresetsDone, Typed, TypeOK
    <2>2. owed' \in [Channels -> SUBSET Items]
      <3>1. Nothing \in [Channels -> SUBSET Items]
            BY DEF Nothing
      <3>2. QED BY <1>3, <3>1, OweType DEF PresetsDone, Typed, TypeOK
    <2>3. /\ channels' \subseteq Channels /\ bits' \in [Channels -> SUBSET Items]
          /\ provisions' \subseteq Items /\ rpcs' \in 0 .. MaxRpcs
      <3>1. CASE ClearProvisions
            BY <1>0, <3>1, ClearedType
      <3>2. CASE UNCHANGED work
            BY <3>2 DEF work, Typed, TypeOK
      <3>3. QED BY <1>3, <3>1, <3>2 DEF PresetsDone
    <2>4. /\ phase' \in {"apply", "served", "lost"} /\ white' = NoChannel
          /\ slipped' \subseteq Tasks
          /\ UNCHANGED <<stored, tasks, done, cycles, unread>>
          BY <1>3 DEF PresetsDone, Typed, TypeOK
    <2>5. QED BY <2>1, <2>2, <2>3, <2>4
              DEF Typed, TypeOK, RoomForAnswer, Phases, InSession, stored
  <1>4. QED BY <1>1, <1>2, <1>3

LEMMA TerminateTyped ==
  ASSUME Typed, Terminate
  PROVE  Typed'
  <1>0. MaxRpcs \in Nat
        BY ProvisioningAssumption
  <1>1. /\ faults' \in [Channels -> FaultRecord]
        /\ retries' \in [Channels -> 0 .. MaxRetries \cup {Never}]
        /\ touched' \subseteq Channels
    <2>1. CASE UNCHANGED <<faults, retries, touched>>
          BY <2>1 DEF Typed, TypeOK
    <2>2. CASE /\ faults' = Final(Faulted(faults, channels, bits))
               /\ Retried(channels)
               /\ touched' = touched \cup channels
      <3>1. /\ channels \in SUBSET Channels /\ bits \in [Channels -> SUBSET Items]
            /\ faults \in [Channels -> FaultRecord]
            BY DEF Typed, TypeOK
      <3>2. Faulted(faults, channels, bits) \in [Channels -> FaultRecord]
            BY <3>1, FaultedType DEF Typed
      <3>3. QED BY <2>2, <3>1, <3>2, FinalType, RetriedType DEF Typed, TypeOK
    <2>3. QED BY <2>1, <2>2 DEF Terminate
  <1>2. ClearProvisions /\ phase' = "dropped"
        /\ UNCHANGED <<stored, white, tasks, done, cycles, unread, ghosts>>
        BY DEF Terminate
  <1>3. /\ channels' \subseteq Channels /\ bits' \in [Channels -> SUBSET Items]
        /\ provisions' \subseteq Items /\ rpcs' \in 0 .. MaxRpcs
        BY <1>0, <1>2, ClearedType
  <1>4. QED BY <1>1, <1>2, <1>3
            DEF Typed, TypeOK, RoomForAnswer, Phases, InSession, stored, ghosts

\* What is written to the database.
LEMMA WriteType ==
  ASSUME NEW E \in SUBSET Tasks, NEW K \in SUBSET Channels, Write(E, K), TypeOK
  PROVE  dbTasks' \subseteq Tasks /\ dbFaults' \in [Channels -> SavedRecord]
  <1>1. \A c \in Channels : Saved(c) \in SavedRecord
        BY DEF Saved, NotSaved, SavedRecord, FaultRecord, TypeOK, Never
  <1>2. QED BY <1>1 DEF Write, TypeOK

LEMMA EndTyped ==
  ASSUME Typed, Save \/ Crash
  PROVE  Typed'
  <1>0. MaxRpcs \in Nat /\ MaxCycles \in Nat
        BY ProvisioningAssumption
  <1>1. dbTasks' \subseteq Tasks /\ dbFaults' \in [Channels -> SavedRecord]
    <2>1. touched \in SUBSET Channels /\ done \in SUBSET Tasks
          BY DEF Typed, TypeOK
    <2>2. CASE UNCHANGED <<dbTasks, dbFaults>>
          BY <2>2 DEF Typed, TypeOK
    <2>3. ASSUME NEW E \in {{}, done}, NEW K \in SUBSET touched, Write(E, K)
          PROVE  <1>1
      <3>1. E \in SUBSET Tasks /\ K \in SUBSET Channels
            BY <2>1
      <3>2. QED BY <2>3, <3>1, WriteType DEF Typed
    <2>4. CASE Write(done, touched)
          BY <2>1, <2>4, WriteType DEF Typed
    <2>5. QED BY <2>2, <2>3, <2>4 DEF Save, Crash
  <1>2. NoSession /\ now' = now
        BY DEF Save, Crash
  <1>3. owed' \in [Channels -> SUBSET Items]
        BY DEF Save, Crash, Typed, TypeOK
  <1>4. phase' = "closed" /\ phase' \in Phases
        BY <1>2, NoSessionType DEF Phases
  <1>5. now' \in Nat
        BY <1>2 DEF Typed, TypeOK
  <1>6. QED BY <1>0, <1>1, <1>2, <1>3, <1>4, <1>5, NoSessionType
            DEF Typed, TypeOK, RoomForAnswer

LEMMA TypeNext ==
  ASSUME Typed, [Next]_vars
  PROVE  Typed'
  <1>1. CASE Load
        BY <1>1, LoadTyped
  <1>2. CASE NextRpc
        BY <1>2, FaultStepsTyped, QuietTyped, NextDoneTyped DEF NextRpc
  <1>3. CASE ApplyPresets
        BY <1>3, FaultStepsTyped, QuietTyped, FetchSendsTyped, PresetsTyped
        DEF ApplyPresets
  <1>4. CASE Device
        BY <1>4, FaultStepsTyped, QuietTyped, TerminateTyped DEF Device
  <1>5. CASE Save \/ Crash
        BY <1>5, EndTyped
  <1>6. CASE UNCHANGED vars
        BY <1>6 DEF vars, stored, queue, work, ghosts, Typed, TypeOK, RoomForAnswer
  <1>7. QED BY <1>1, <1>2, <1>3, <1>4, <1>5, <1>6 DEF Next

LEMMA TypedAlways == Spec => []Typed
  <1>1. QED BY TypeInit, TypeNext, PTL DEF Spec

\* The queues, faults, retries and limits of every session keep their types: no
\* session exceeds MAX_CYCLES or the limit on requests.
THEOREM TypeCorrect == Spec => []TypeOK
  <1>1. Typed => TypeOK
        BY DEF Typed
  <1>2. QED BY <1>1, TypedAlways, PTL

-----------------------------------------------------------------------------
\* Tasks

\* Once nextRpc has handed over to applyPresets, no task is left that has neither a
\* fault nor been completed.
TasksLooked ==
    phase \in {"apply", "presets", "served"} => \A t \in tasks : Faulty(t) \/ t \in slipped

\* A fault is attributed to the channels at work and to no other.
LEMMA RecordFaultEffect ==
  ASSUME NEW K \in SUBSET Channels, NEW B \in [Channels -> SUBSET Items],
         RecordFault(K, B), TypeOK
  PROVE  /\ \A c \in K : /\ faults'[c].items = faults[c].items \cup B[c]
                         /\ faults'[c].since = now
                         /\ faults'[c].retryNow = (retries[c] = Never /\ Cardinality(K) # 1)
                         /\ faults'[c].precondition = (B[c] = {})
                         /\ retries'[c] \in 0 .. MaxRetries
         /\ \A c \in Channels \ K : faults'[c] = faults[c] /\ retries'[c] = retries[c]
         /\ touched' = touched \cup K
  <1>1. faults \in [Channels -> FaultRecord]
        BY DEF TypeOK
  <1>2. faults' = Faulted(faults, K, B) /\ Retried(K) /\ touched' = touched \cup K
        BY DEF RecordFault
  <1>3. /\ \A c \in K : retries'[c] \in 0 .. MaxRetries
        /\ \A c \in Channels \ K : retries'[c] = retries[c]
        BY <1>2, RetriedType
  <1>4. ASSUME NEW c \in Channels \ K
        PROVE  faults'[c] = faults[c] /\ retries'[c] = retries[c]
    <2>1. Faulted(faults, K, B)[c] = faults[c]
          BY DEF Faulted
    <2>2. QED BY <1>2, <1>3, <2>1
  <1>5. ASSUME NEW c \in K
        PROVE  /\ faults'[c].items = faults[c].items \cup B[c]
               /\ faults'[c].since = now
               /\ faults'[c].retryNow = (retries[c] = Never /\ Cardinality(K) # 1)
               /\ faults'[c].precondition = (B[c] = {})
               /\ retries'[c] \in 0 .. MaxRetries
    <2> DEFINE r == Faulted(faults, K, B)[c]
    <2>1. /\ r.items = faults[c].items \cup B[c]
          /\ r.since = now
          /\ r.retryNow = (retries[c] = Never /\ Cardinality(K) # 1)
          /\ r.precondition = (B[c] = {})
      <3>1. c \in Channels
            OBVIOUS
      <3>2. r = FaultOf(faults, c, K, B)
            BY <3>1 DEF Faulted
      <3> HIDE DEF r
      <3>3. QED BY <3>2 DEF FaultOf
    <2>2. faults'[c] = r
          BY <1>2
    <2> HIDE DEF r
    <2>3. QED BY <1>3, <2>1, <2>2
  <1>6. QED BY <1>2, <1>4, <1>5

LEMMA FaultyStays ==
  ASSUME NEW K \in SUBSET Channels, NEW B \in [Channels -> SUBSET Items],
         RecordFault(K, B), TypeOK, NEW c \in Channels, Faulty(c)
  PROVE  Faulty(c)'
  <1>1. now # Never
        BY NeverIsNoTime DEF TypeOK
  <1>2. faults'[c].since \in {now, faults[c].since}
        BY RecordFaultEffect
  <1>3. QED BY <1>1, <1>2 DEF Faulty

\* Waiting in a fault does not change when it began.
LEMMA AppendedKeeps ==
  ASSUME NEW w \in Chosen, NEW f \in Fired(w), TypeOK, NEW c \in Channels
  PROVE  /\ Appended(w, f)[c].since = faults[c].since
         /\ Appended(w, f)[c].retryNow = faults[c].retryNow
         /\ Appended(w, f)[c].precondition = faults[c].precondition
         /\ faults[c].items \subseteq Appended(w, f)[c].items
  <1>1. faults[c] \in FaultRecord
        BY DEF TypeOK
  <1>2. CASE c \in Waits(w, f)
    <2>1. Appended(w, f)[c] = [faults[c] EXCEPT !.items = @ \cup f[c]]
          BY <1>2 DEF Appended
    <2>2. QED BY <1>1, <2>1 DEF FaultRecord
  <1>3. CASE c \notin Waits(w, f)
        BY <1>3 DEF Appended
  <1>4. QED BY <1>2, <1>3

\* The channels whose fault ends, and no other.
LEMMA ClearEffect ==
  ASSUME NEW K \in SUBSET Channels, Clear(K), TypeOK
  PROVE  /\ \A c \in K : faults'[c] = NoFault
         /\ \A c \in Channels \ K : faults'[c] = faults[c]
         /\ retries' = retries
         /\ touched' = touched \cup {c \in K : Faulty(c)}
  BY DEF Clear, TypeOK

LEMMA NoFaultFields ==
  NoFault.items = {} /\ NoFault.since = Never /\ ~NoFault.retryNow /\ ~NoFault.precondition
  BY DEF NoFault

LEMMA TasksLookedInit == Init => TasksLooked
  BY DEF Init, TasksLooked

LEMMA TasksLookedNext ==
  ASSUME Typed, TasksLooked, [Next]_vars
  PROVE  TasksLooked'
  <1> SUFFICES ASSUME phase' \in {"apply", "presets", "served"}, NEW t \in tasks'
               PROVE  Faulty(t)' \/ t \in slipped'
      BY DEF TasksLooked
  <1>1. TypeOK
        BY DEF Typed
  <1>2. tasks \subseteq Channels /\ tasks \subseteq Tasks
        BY <1>1 DEF TypeOK, Channels
  <1>3. CASE NextDone
    <2>1. /\ Available = {} /\ tasks' = Left /\ Clear(Cleared \cup Expired)
      <3>1. phase = "next"
            BY <1>3 DEF NextDone
      <3>2. Available = {} /\ Settle({}) /\ Clear(Cleared \cup Expired)
            BY <1>3, <3>1 DEF NextDone
      <3>3. QED BY <3>2 DEF Settle
    <2>2. t \in Left /\ t \in Channels /\ t \notin Expired
          BY <1>2, <2>1 DEF Left
    <2>3. Faulty(t) /\ t \notin Cleared
          BY <2>1, <2>2 DEF Available
    <2>4. Cleared \cup Expired \in SUBSET Channels
          BY <1>1, <1>2, QueueType DEF TypeOK
    <2>5. faults'[t] = faults[t]
          BY <1>1, <2>1, <2>2, <2>3, <2>4, ClearEffect
    <2>6. QED BY <2>3, <2>5 DEF Faulty
  <1>4. CASE FetchFaults \/ PresetsFault
    <2>1. PICK K \in SUBSET Channels, B \in [Channels -> SUBSET Items] : RecordFault(K, B)
          BY <1>1, <1>4, MarkedType DEF FetchFaults, PresetsFault, TypeOK
    <2>2. /\ phase \in {"apply", "presets"} /\ tasks' = tasks /\ slipped' = slipped
          BY <1>4 DEF FetchFaults, PresetsFault, ghosts
    <2>3. t \in Channels /\ (Faulty(t) \/ t \in slipped)
          BY <1>2, <2>2 DEF TasksLooked
    <2>4. QED BY <1>1, <2>1, <2>2, <2>3, FaultyStays
  <1>5. CASE Apply \/ Loop
    <2>1. /\ phase = "apply" /\ tasks' = tasks /\ slipped' = slipped
          BY <1>5 DEF Apply, Loop
    <2>2. t \in Channels /\ (Faulty(t) \/ t \in slipped)
          BY <1>2, <2>1 DEF TasksLooked
    <2>3. faults[t].since # Never => faults'[t].since # Never
      <3>1. PICK w \in Chosen : \E f \in Fired(w) :
               \/ faults' = Appended(w, f)
               \/ faults' = Final(Faulted(Appended(w, f), Joins(w, f), JoinBits(w, f)))
            BY <1>5 DEF Apply, Loop
      <3>2. PICK f \in Fired(w) :
               \/ faults' = Appended(w, f)
               \/ faults' = Final(Faulted(Appended(w, f), Joins(w, f), JoinBits(w, f)))
            BY <3>1
      <3>3. CASE faults' = Appended(w, f)
            BY <1>1, <2>2, <3>3, AppendedKeeps
      <3>4. CASE faults' = Final(Faulted(Appended(w, f), Joins(w, f), JoinBits(w, f)))
        <4> DEFINE G == Faulted(Appended(w, f), Joins(w, f), JoinBits(w, f))
        <4>1. /\ Appended(w, f) \in [Channels -> FaultRecord]
              /\ Joins(w, f) \in SUBSET Channels
              /\ JoinBits(w, f) \in [Channels -> SUBSET Items]
              BY <1>1, ApplyType
        <4>2. /\ G \in [Channels -> FaultRecord]
              /\ G[t].since \in {now, Appended(w, f)[t].since}
              BY <1>1, <2>2, <4>1, FaultedType
        <4>3. faults' = Final(G)
              BY <3>4
        <4> HIDE DEF G
        <4>4. faults'[t].since \in {now, faults[t].since}
              BY <1>1, <2>2, <4>2, <4>3, FinalType, AppendedKeeps
        <4>5. QED BY <1>1, <4>4, NeverIsNoTime DEF TypeOK
      <3>5. QED BY <3>2, <3>3, <3>4
    <2>4. QED BY <2>1, <2>2, <2>3 DEF Faulty
  <1>6. CASE PresetsDone
    <2>1. /\ phase = "presets" /\ tasks' = tasks /\ Clear(channels)
          /\ slipped' = slipped \cup (channels \cap Tasks) /\ channels \in SUBSET Channels
          BY <1>1, <1>6 DEF PresetsDone, TypeOK
    <2>2. t \in Tasks /\ t \in Channels /\ (Faulty(t) \/ t \in slipped)
          BY <1>2, <2>1 DEF TasksLooked
    <2>3. CASE t \in channels
          BY <2>1, <2>2, <2>3
    <2>4. CASE t \notin channels
      <3>1. faults'[t] = faults[t]
            BY <1>1, <2>1, <2>2, <2>4, ClearEffect
      <3>2. QED BY <2>1, <2>2, <3>1 DEF Faulty
    <2>5. QED BY <2>3, <2>4
  <1>7. CASE UNCHANGED vars
        BY <1>7 DEF vars, queue, ghosts, TasksLooked, Faulty
  <1>8. QED
    <2>1. ASSUME Load \/ NextFaults \/ NextSends \/ FetchSends \/ PresetsSend \/ Device
                 \/ Save \/ Crash
          PROVE  FALSE
          BY <2>1 DEF Load, NextFaults, NextSends, FetchSends, PresetsSend, Sends, Device,
                      Empty, Answer, AnswerFails, Terminate, Save, Crash, NoSession
    <2>2. QED BY <1>3, <1>4, <1>5, <1>6, <1>7, <2>1 DEF Next, NextRpc, ApplyPresets

\* When nextRpc and applyPresets have nothing left to send, every task has been executed,
\* has expired, has a fault or was retried without a request.
THEOREM TasksAreSettled == Spec => []TasksSettled
  <1>1. TasksLooked => TasksSettled
        BY DEF TasksLooked, TasksSettled
  <1>2. Typed /\ Typed' /\ TasksLooked /\ [Next]_vars => TasksLooked'
        BY TasksLookedNext
  <1>3. Spec => []TasksLooked
        BY <1>2, TasksLookedInit, TypedAlways, PTL DEF Spec
  <1>4. QED BY <1>1, <1>3, PTL

-----------------------------------------------------------------------------
\* Delays

LEMMA DelayIsPositive ==
  \A n \in 0 .. MaxRetries : Delay * 2 ^ n \in Nat \ {0}
  <1>1. Delay \in Nat \ {0} /\ \A n \in 0 .. MaxRetries : 2 ^ n \in Nat \ {0}
        BY ProvisioningAssumption
  <1>2. \A m \in Nat \ {0} : Delay * m \in Nat \ {0}
        BY <1>1
  <1>3. QED BY <1>1, <1>2

\* A fault of this moment is not due.
LEMMA NewFaultWaits ==
  ASSUME TypeOK, NEW n \in 0 .. MaxRetries
  PROVE  ~Ready(now, n)
  <1>1. Delay * 2 ^ n \in Nat \ {0}
        BY DelayIsPositive
  <1>2. QED BY <1>1 DEF Ready, TypeOK

\* A channel with a fault has a number of retries, in a session and in the database.
RetriesCounted ==
    \A c \in Channels :
        /\ Faulty(c) => retries[c] \in 0 .. MaxRetries
        /\ dbFaults[c].since # Never => dbFaults[c].retries \in 0 .. MaxRetries

\* What Apply and Loop do to the faults.
LEMMA LoopEffect ==
  ASSUME TypeOK, NEW w \in Chosen, NEW f \in Fired(w),
         faults' = Final(Faulted(Appended(w, f), Joins(w, f), JoinBits(w, f))),
         Retried(Joins(w, f)), NEW c \in Channels
  PROVE  /\ c \in Joins(w, f) =>
              /\ faults'[c].since = now
              /\ faults'[c].items = Appended(w, f)[c].items \cup JoinBits(w, f)[c]
              /\ retries'[c] \in 0 .. MaxRetries
         /\ c \notin Joins(w, f) =>
              /\ faults'[c].since = faults[c].since
              /\ faults'[c].items = Appended(w, f)[c].items
              /\ retries'[c] = retries[c]
         /\ ~faults'[c].retryNow
  <1> DEFINE A == Appended(w, f)
             K == Joins(w, f)
             B == JoinBits(w, f)
             G == Faulted(A, K, B)
  <1>1. /\ A \in [Channels -> FaultRecord]
        /\ K \in SUBSET Channels
        /\ B \in [Channels -> SUBSET Items]
        BY ApplyType
  <1>2. faults' = Final(G) /\ Retried(K) /\ A[c].since = faults[c].since
        BY AppendedKeeps
  <1> SUFFICES /\ c \in K => /\ faults'[c].since = now
                             /\ faults'[c].items = A[c].items \cup B[c]
                             /\ retries'[c] \in 0 .. MaxRetries
               /\ c \notin K => /\ faults'[c].since = A[c].since
                                /\ faults'[c].items = A[c].items
                                /\ retries'[c] = retries[c]
               /\ ~faults'[c].retryNow
      BY <1>2
  <1> HIDE DEF A, K, B
  <1>3. /\ G \in [Channels -> FaultRecord]
        /\ c \notin K => G[c] = A[c]
        /\ c \in K => G[c].items = A[c].items \cup B[c] /\ G[c].since = now
    <2>1. G \in [Channels -> FaultRecord]
          BY <1>1, FaultedType
    <2>2. CASE c \in K
          BY <1>1, <2>2, FaultedType
    <2>3. CASE c \notin K
          BY <1>1, <2>3, FaultedType
    <2>4. QED BY <2>1, <2>2, <2>3
  <1> HIDE DEF G
  <1>4. /\ faults'[c].items = G[c].items /\ faults'[c].since = G[c].since
        /\ ~faults'[c].retryNow
        BY <1>2, <1>3, FinalType
  <1>5. /\ c \in K => retries'[c] \in 0 .. MaxRetries
        /\ c \notin K => retries'[c] = retries[c]
        BY <1>1, <1>2, RetriedType
  <1>6. QED BY <1>3, <1>4, <1>5

\* The same for Terminate.
LEMMA TerminateEffect ==
  ASSUME Typed, Terminate, NEW c \in Channels
  PROVE  \/ /\ faults'[c].items = faults[c].items /\ faults'[c].since = faults[c].since
            /\ faults'[c].retryNow => faults[c].retryNow
            /\ retries'[c] = retries[c]
            /\ c \in touched' <=> c \in touched
            /\ c \in channels => provisions = {}
         \/ /\ c \in channels /\ c \in touched'
            /\ faults'[c].since = now /\ faults'[c].items = faults[c].items \cup bits[c]
            /\ ~faults'[c].retryNow /\ retries'[c] \in 0 .. MaxRetries
  <1>1. /\ TypeOK /\ channels \in SUBSET Channels /\ bits \in [Channels -> SUBSET Items]
        /\ faults \in [Channels -> FaultRecord]
        BY DEF Typed, TypeOK
  <1>2. CASE provisions = {} /\ UNCHANGED <<faults, retries, touched>>
        BY <1>2
  <1>3. CASE /\ faults' = Final(Faulted(faults, channels, bits))
             /\ Retried(channels)
             /\ touched' = touched \cup channels
    <2> DEFINE G == Faulted(faults, channels, bits)
    <2>1. /\ G \in [Channels -> FaultRecord]
          /\ c \notin channels => G[c] = faults[c]
          /\ c \in channels => G[c].since = now /\ G[c].items = faults[c].items \cup bits[c]
          BY <1>1, FaultedType
    <2>2. faults' = Final(G)
          BY <1>3
    <2> HIDE DEF G
    <2>3. /\ faults'[c].items = G[c].items /\ faults'[c].since = G[c].since
          /\ faults'[c].retryNow = FALSE
          BY <2>1, <2>2, FinalType
    <2>4. /\ c \in channels => retries'[c] \in 0 .. MaxRetries
          /\ c \notin channels => retries'[c] = retries[c]
          BY <1>1, <1>3, RetriedType
    <2>5. CASE c \in channels
          BY <1>3, <2>1, <2>3, <2>4, <2>5
    <2>6. CASE c \notin channels
          BY <1>3, <2>1, <2>3, <2>4, <2>6
    <2>7. QED BY <2>5, <2>6
  <1>4. QED BY <1>2, <1>3 DEF Terminate

LEMMA RetriesCountedInit == Init => RetriesCounted
  BY DEF Init, RetriesCounted, Faulty, NoFault, NotSaved

LEMMA RetriesCountedNext ==
  ASSUME Typed, RetriesCounted, [Next]_vars
  PROVE  RetriesCounted'
  <1>0. TypeOK
        BY DEF Typed
  <1> SUFFICES ASSUME NEW c \in Channels
               PROVE  /\ faults'[c].since # Never => retries'[c] \in 0 .. MaxRetries
                      /\ dbFaults'[c].since # Never => dbFaults'[c].retries \in 0 .. MaxRetries
      BY DEF RetriesCounted, Faulty
  <1>1. /\ faults[c].since # Never => retries[c] \in 0 .. MaxRetries
        /\ dbFaults[c].since # Never => dbFaults[c].retries \in 0 .. MaxRetries
        BY DEF RetriesCounted, Faulty
  <1>2. CASE Load
    <2>1. PICK t \in now + 1 .. MaxTime :
             /\ faults' = [k \in Channels |->
                           IF dbFaults[k].since = Never \/ k \in Dropped(t) THEN NoFault
                           ELSE [items |-> dbFaults[k].items, since |-> dbFaults[k].since,
                                 retryNow |-> FALSE, precondition |-> FALSE]]
             /\ retries' = [k \in Channels |-> LoadedRetries(k, t)]
          BY <1>2 DEF Load
    <2>2. dbFaults' = dbFaults
          BY <1>2 DEF Load
    <2>3. CASE dbFaults[c].since = Never \/ c \in Dropped(t)
          BY <1>1, <2>1, <2>2, <2>3, NoFaultFields
    <2>4. CASE dbFaults[c].since # Never /\ c \notin Dropped(t)
          BY <1>1, <2>1, <2>2, <2>4 DEF LoadedRetries
    <2>5. QED BY <2>3, <2>4
  <1>3. CASE NextFaults \/ PresetsFault \/ AnswerFails \/ FetchFaults
    <2>1. PICK K \in SUBSET Channels, B \in [Channels -> SUBSET Items] : RecordFault(K, B)
          BY <1>0, <1>3, MarkedType
          DEF FetchFaults, NextFaults, PresetsFault, AnswerFails, TypeOK
    <2>2. dbFaults' = dbFaults
          BY <1>3 DEF FetchFaults, NextFaults, PresetsFault, AnswerFails, stored
    <2>3. CASE c \in K
          BY <1>0, <1>1, <2>1, <2>2, <2>3, RecordFaultEffect
    <2>4. CASE c \notin K
          BY <1>0, <1>1, <2>1, <2>2, <2>4, RecordFaultEffect
    <2>5. QED BY <2>3, <2>4
  <1>4. CASE NextDone \/ PresetsDone
    <2>1. PICK K \in SUBSET Channels : Clear(K)
          BY <1>0, <1>4, QueueType DEF NextDone, PresetsDone, TypeOK, Channels
    <2>2. dbFaults' = dbFaults
          BY <1>4 DEF NextDone, PresetsDone, stored
    <2>3. faults'[c] = NoFault \/ faults'[c] = faults[c]
          BY <1>0, <2>1, ClearEffect
    <2>4. retries' = retries
          BY <1>0, <2>1, ClearEffect
    <2>5. QED BY <1>1, <2>2, <2>3, <2>4, NoFaultFields
  <1>5. CASE Apply
    <2>1. PICK w \in Chosen : \E f \in Fired(w) : faults' = Appended(w, f)
          BY <1>5 DEF Apply
    <2>2. PICK f \in Fired(w) : faults' = Appended(w, f)
          BY <2>1
    <2>3. faults'[c].since = faults[c].since
          BY <1>0, <2>2, AppendedKeeps
    <2>4. retries' = retries /\ dbFaults' = dbFaults
          BY <1>5 DEF Apply, stored
    <2>5. QED BY <1>1, <2>3, <2>4
  <1>6. CASE Loop
    <2>1. PICK w \in Chosen : \E f \in Fired(w) :
             /\ faults' = Final(Faulted(Appended(w, f), Joins(w, f), JoinBits(w, f)))
             /\ Retried(Joins(w, f))
          BY <1>6 DEF Loop
    <2>2. PICK f \in Fired(w) :
             /\ faults' = Final(Faulted(Appended(w, f), Joins(w, f), JoinBits(w, f)))
             /\ Retried(Joins(w, f))
          BY <2>1
    <2>3. dbFaults' = dbFaults
          BY <1>6 DEF Loop, stored
    <2>4. \/ retries'[c] \in 0 .. MaxRetries
          \/ faults'[c].since = faults[c].since /\ retries'[c] = retries[c]
          BY <1>0, <2>2, LoopEffect
    <2>5. QED BY <1>1, <2>3, <2>4
  <1>7. CASE Terminate
    <2>1. dbFaults' = dbFaults
          BY <1>7 DEF Terminate, stored
    <2>2. QED BY <1>1, <1>7, <2>1, TerminateEffect
  <1>8. CASE Save \/ Crash
    <2>1. faults'[c] = NoFault
          BY <1>8 DEF Save, Crash, NoSession
    <2>2. dbFaults'[c] = dbFaults[c] \/ dbFaults'[c] = Saved(c)
          BY <1>0, <1>8 DEF Save, Crash, Write, TypeOK
    <2>3. Saved(c).since # Never => Saved(c).retries \in 0 .. MaxRetries
          BY <1>1 DEF Saved, NotSaved, Faulty
    <2>4. QED BY <1>1, <2>1, <2>2, <2>3, NoFaultFields
  <1>9. CASE Empty \/ NextSends \/ FetchSends \/ PresetsSend \/ Answer \/ UNCHANGED vars
        BY <1>1, <1>9 DEF Empty, NextSends, FetchSends, PresetsSend, Answer, vars, stored, queue
  <1>10. QED BY <1>2, <1>3, <1>4, <1>5, <1>6, <1>7, <1>8, <1>9
             DEF Next, NextRpc, ApplyPresets, Device

LEMMA RetriesCountedAlways == Spec => []RetriesCounted
  <1>1. Typed /\ RetriesCounted /\ [Next]_vars => RetriesCounted'
        BY RetriesCountedNext
  <1>2. QED BY <1>1, RetriesCountedInit, TypedAlways, PTL DEF Spec

\* A pass for all channels begins when no fault is due, and none becomes due in it.
NothingDue ==
    phase = "served" \/ (phase = "presets" /\ white = NoChannel)
        => \A c \in Channels : ~Due(c)

LEMMA NothingDueInit == Init => NothingDue
  BY DEF Init, NothingDue

LEMMA DueStays ==
  ASSUME NEW c \in Channels, now' = now, Due(c)',
         faults'[c].since = faults[c].since, faults'[c].retryNow => faults[c].retryNow,
         retries'[c] = retries[c]
  PROVE  Due(c)
  BY DEF Due, Faulty, Ready

LEMMA NothingDueNext ==
  ASSUME Typed, RetriesCounted, NothingDue, [Next]_vars
  PROVE  NothingDue'
  <1>0. TypeOK
        BY DEF Typed
  <1> SUFFICES ASSUME phase' = "served" \/ (phase' = "presets" /\ white' = NoChannel),
                      NEW c \in Channels, Due(c)'
               PROVE  FALSE
      BY DEF NothingDue
  <1>1. CASE Apply
    <2>1. PICK w \in Chosen : \E f \in Fired(w) : faults' = Appended(w, f) /\ white' = w
          BY <1>1 DEF Apply
    <2>2. PICK f \in Fired(w) : faults' = Appended(w, f) /\ white' = w
          BY <2>1
    <2>3. w = NoChannel /\ retries' = retries /\ now' = now
          BY <1>1, <2>2 DEF Apply, stored
    <2>4. ~Due(c)
          BY <2>3, ProvisioningAssumption DEF Chosen
    <2>5. /\ faults'[c].since = faults[c].since
          /\ faults'[c].retryNow = faults[c].retryNow
          BY <1>0, <2>2, AppendedKeeps
    <2>6. QED BY <2>3, <2>4, <2>5, DueStays
  <1>2. CASE Loop
    <2>1. PICK w \in Chosen : \E f \in Fired(w) :
             /\ ~Allowed(w)
             /\ faults' = Final(Faulted(Appended(w, f), Joins(w, f), JoinBits(w, f)))
             /\ Retried(Joins(w, f))
          BY <1>2 DEF Loop
    <2>2. PICK f \in Fired(w) :
             /\ ~Allowed(w)
             /\ faults' = Final(Faulted(Appended(w, f), Joins(w, f), JoinBits(w, f)))
             /\ Retried(Joins(w, f))
          BY <2>1
    <2>3. now' = now
          BY <1>2 DEF Loop, stored
    <2>4. ~Due(c)
          BY <2>2, ProvisioningAssumption DEF Allowed, Counted, Chosen
    <2>5. CASE c \in Joins(w, f)
      <3>1. /\ faults'[c].since = now /\ ~faults'[c].retryNow
            /\ retries'[c] \in 0 .. MaxRetries
            BY <1>0, <2>2, <2>5, LoopEffect
      <3>2. ~Ready(now, retries'[c])
            BY <1>0, <3>1, NewFaultWaits
      <3>3. QED BY <2>3, <3>1, <3>2 DEF Due, Faulty, Ready
    <2>6. CASE c \notin Joins(w, f)
      <3>1. /\ faults'[c].since = faults[c].since /\ ~faults'[c].retryNow
            /\ retries'[c] = retries[c]
            BY <1>0, <2>2, <2>6, LoopEffect
      <3>2. QED BY <2>3, <2>4, <3>1, DueStays
    <2>7. QED BY <2>5, <2>6
  <1>3. CASE PresetsDone
    <2>1. phase = "presets" /\ white = NoChannel
          BY <1>3 DEF PresetsDone, GoesOn
    <2>2. ~Due(c) /\ now' = now
          BY <1>3, <2>1 DEF NothingDue, PresetsDone, stored
    <2>3. Clear(channels) /\ channels \in SUBSET Channels
          BY <1>0, <1>3 DEF PresetsDone, TypeOK
    <2>4. /\ faults'[c] = NoFault \/ faults'[c] = faults[c]
          /\ retries' = retries
          BY <1>0, <2>3, ClearEffect
    <2>5. faults'[c].since # Never
          BY DEF Due, Faulty
    <2>6. faults'[c] = faults[c]
          BY <2>4, <2>5, NoFaultFields
    <2>7. QED BY <2>2, <2>4, <2>6, DueStays
  <1>4. CASE UNCHANGED vars
    <2>1. UNCHANGED <<phase, white, faults, retries, now>>
          BY <1>4 DEF vars, stored, queue
    <2>2. ~Due(c)
          BY <2>1 DEF NothingDue
    <2>3. QED BY <2>1, <2>2, DueStays
  <1>5. QED
    <2>1. ASSUME Load \/ NextRpc \/ FetchFaults \/ FetchSends \/ PresetsFault \/ PresetsSend
                 \/ Device \/ Save \/ Crash
          PROVE  FALSE
          BY <2>1 DEF Load, NextRpc, NextFaults, NextSends, NextDone, FetchFaults, FetchSends,
                      PresetsFault, PresetsSend, Sends, Device, Empty, Answer, AnswerFails,
                      Terminate, Save, Crash, NoSession
    <2>2. QED BY <1>1, <1>2, <1>3, <1>4, <2>1 DEF Next, ApplyPresets

\* The server does not end a session while the delay of a fault is over: the fault was
\* retried, or its presets were, in this session.
THEOREM DueFaultsAlwaysTried == Spec => []DueFaultsTried
  <1>1. NothingDue => DueFaultsTried
        BY DEF NothingDue, DueFaultsTried
  <1>2. Typed /\ RetriesCounted /\ NothingDue /\ [Next]_vars => NothingDue'
        BY NothingDueNext
  <1>3. Spec => []NothingDue
        BY <1>2, NothingDueInit, TypedAlways, RetriesCountedAlways, PTL DEF Spec
  <1>4. QED BY <1>1, <1>3, PTL

\* Channel c has a saved fault that is not due yet (and is not a task that expires).
Waiting(c) ==
    /\ dbFaults[c].since # Never
    /\ c \in Tasks => Expiry[c] = Never
    /\ ~(dbFaults[c].since + Delay * 2 ^ dbFaults[c].retries <= now)

\* It has no provisions at work, and its fault is either the one that was saved or one
\* of this session, which gives it a longer delay.
Rests(c) ==
    /\ Faulty(c) /\ ~faults[c].retryNow /\ bits[c] = {}
    /\ phase = "presets" => c \notin channels
    /\ \/ faults[c].since = dbFaults[c].since /\ retries[c] = dbFaults[c].retries
       \/ faults[c].since = now

Resting ==
    /\ phase = "closed" => bits = Nothing
    /\ phase # "closed" => \A c \in Channels : Waiting(c) => Rests(c)

LEMMA RestIsNotDue ==
  ASSUME TypeOK, RetriesCounted, NEW c \in Channels, Waiting(c), Rests(c)
  PROVE  ~Due(c) /\ retries[c] # Never
  <1>1. retries[c] \in 0 .. MaxRetries
        BY DEF RetriesCounted, Rests
  <1>2. CASE faults[c].since = now
        BY <1>1, <1>2, NewFaultWaits, NeverIsNoTime DEF Rests, Due
  <1>3. CASE faults[c].since = dbFaults[c].since /\ retries[c] = dbFaults[c].retries
        BY <1>1, <1>3, NeverIsNoTime DEF Rests, Waiting, Due, Ready
  <1>4. retries[c] # Never
        BY <1>1, NeverIsNoTime
  <1>5. QED BY <1>2, <1>3, <1>4 DEF Rests

LEMMA RestingInit == Init => Resting
  BY DEF Init, Resting

LEMMA RestingNext ==
  ASSUME Typed, RetriesCounted, Resting, [Next]_vars
  PROVE  Resting'
  <1>0. TypeOK /\ now \in Nat /\ now # Never
        BY NeverIsNoTime DEF Typed, TypeOK
  <1>1. CASE Save \/ Crash
        BY <1>1 DEF Save, Crash, NoSession, Resting
  <1>2. CASE UNCHANGED vars
        BY <1>2 DEF vars, stored, queue, work, Resting, Waiting, Rests, Faulty, Nothing
  <1>3. CASE Load
    <2>1. PICK t \in now + 1 .. MaxTime :
             /\ now' = t
             /\ faults' = [k \in Channels |->
                           IF dbFaults[k].since = Never \/ k \in Dropped(t) THEN NoFault
                           ELSE [items |-> dbFaults[k].items, since |-> dbFaults[k].since,
                                 retryNow |-> FALSE, precondition |-> FALSE]]
             /\ retries' = [k \in Channels |-> LoadedRetries(k, t)]
          BY <1>3 DEF Load
    <2>2. /\ phase = "closed" /\ phase' = "open" /\ dbFaults' = dbFaults /\ bits' = bits
          /\ bits = Nothing
          BY <1>3 DEF Load, work, Resting
    <2>3. ASSUME NEW c \in Channels, Waiting(c)' PROVE Rests(c)'
      <3>1. dbFaults[c].since # Never /\ (c \in Tasks => Expiry[c] = Never)
            BY <2>2, <2>3 DEF Waiting
      <3>2. t \in Nat /\ ~(Never >= t)
            BY <1>0, <2>1 DEF Never
      <3>3. c \notin Dropped(t)
            BY <3>1, <3>2 DEF Dropped
      <3>4. /\ faults'[c].since = dbFaults[c].since /\ ~faults'[c].retryNow
            /\ retries'[c] = dbFaults[c].retries
            BY <2>1, <3>1, <3>3 DEF LoadedRetries
      <3>5. bits'[c] = {}
            BY <2>2 DEF Nothing
      <3>6. QED BY <2>2, <3>1, <3>4, <3>5 DEF Rests, Faulty
    <2>4. QED BY <2>2, <2>3 DEF Resting
  <1>4. ASSUME phase # "closed", phase' # "closed", now' = now, dbFaults' = dbFaults,
               \A c \in Channels : Waiting(c) /\ Rests(c) => Rests(c)'
        PROVE  Resting'
        BY <1>4 DEF Resting, Waiting
  <1>5. ASSUME NEW c \in Channels, Waiting(c), Rests(c), now' = now, dbFaults' = dbFaults,
               faults'[c].since = now \/ (/\ faults'[c].since = faults[c].since
                                          /\ retries'[c] = retries[c]),
               ~faults'[c].retryNow, bits'[c] = {}, phase' = "presets" => c \notin channels'
        PROVE  Rests(c)'
        BY <1>0, <1>5 DEF Rests, Faulty
  <1>6. CASE NextFaults \/ PresetsFault \/ AnswerFails \/ FetchFaults
    <2>1. PICK K \in SUBSET Channels, B \in [Channels -> SUBSET Items] : RecordFault(K, B)
          BY <1>0, <1>6, MarkedType
          DEF FetchFaults, NextFaults, PresetsFault, AnswerFails, TypeOK
    <2>2. /\ phase # "closed" /\ phase' # "closed" /\ now' = now /\ dbFaults' = dbFaults
          /\ bits' = Nothing /\ channels' = {}
          BY <1>6 DEF FetchFaults, NextFaults, PresetsFault, AnswerFails, stored,
                      ClearProvisions
    <2>3. ASSUME NEW c \in Channels, Waiting(c), Rests(c) PROVE Rests(c)'
      <3>1. bits'[c] = {} /\ c \notin channels'
            BY <2>2 DEF Nothing
      <3>2. retries[c] # Never /\ ~faults[c].retryNow
            BY <1>0, <2>3, RestIsNotDue DEF Rests
      <3>3. CASE c \in K
            BY <1>0, <1>5, <2>1, <2>2, <2>3, <3>1, <3>2, <3>3, RecordFaultEffect
      <3>4. CASE c \notin K
            BY <1>0, <1>5, <2>1, <2>2, <2>3, <3>1, <3>2, <3>4, RecordFaultEffect
      <3>5. QED BY <3>3, <3>4
    <2>4. QED BY <1>4, <2>2, <2>3
  <1>7. CASE NextDone
    <2>1. /\ phase = "next" /\ phase' \in {"next", "apply"}
          /\ now' = now /\ dbFaults' = dbFaults /\ Clear(Cleared \cup Expired)
          BY <1>7 DEF NextDone, stored
    <2>2. Cleared \cup Expired \in SUBSET Channels
          BY <1>0, QueueType DEF TypeOK, Channels
    <2>3. ASSUME NEW c \in Channels, Waiting(c), Rests(c) PROVE Rests(c)'
      <3>1. c \notin Cleared /\ c \notin Expired
            BY <1>0, <2>3 DEF Cleared, Expired, Rests, Waiting, TypeOK
      <3>2. faults'[c] = faults[c] /\ retries' = retries
            BY <1>0, <2>1, <2>2, <3>1, ClearEffect
      <3>3. \A t \in Available : t # c
            BY <2>3, <3>1 DEF Available, Rests
      <3>4. bits'[c] = {}
            BY <1>7, <3>3 DEF NextDone, ClearProvisions, WorkOn, Nothing
      <3>5. QED BY <1>5, <2>1, <2>3, <3>2, <3>4 DEF Rests
    <2>4. QED BY <1>4, <2>1, <2>3
  <1>8. CASE FetchSends
    <2>1. PICK w \in Chosen : \E F \in SUBSET Eligible(w) : bits' = MarkedBits(F)
          BY <1>8 DEF FetchSends
    <2>2. PICK F \in SUBSET Eligible(w) : bits' = MarkedBits(F)
          BY <2>1
    <2>3. /\ phase = "apply" /\ phase' = "sent" /\ now' = now /\ dbFaults' = dbFaults
          /\ faults' = faults /\ retries' = retries
          BY <1>8 DEF FetchSends, stored, queue
    <2>4. ASSUME NEW c \in Channels, Waiting(c), Rests(c) PROVE Rests(c)'
      <3>1. bits'[c] = {}
            BY <2>2, <2>4 DEF MarkedBits, Rests
      <3>2. QED BY <1>5, <2>3, <2>4, <3>1 DEF Rests
    <2>5. QED BY <1>4, <2>3, <2>4
  <1>9. CASE Apply
    <2>1. PICK w \in Chosen : \E f \in Fired(w) :
             faults' = Appended(w, f) /\ WorkOn(Joins(w, f), JoinBits(w, f))
          BY <1>9 DEF Apply
    <2>2. PICK f \in Fired(w) :
             faults' = Appended(w, f) /\ WorkOn(Joins(w, f), JoinBits(w, f))
          BY <2>1
    <2>3. /\ phase = "apply" /\ phase' = "presets" /\ now' = now /\ dbFaults' = dbFaults
          /\ retries' = retries
          BY <1>9 DEF Apply, stored
    <2>4. ASSUME NEW c \in Channels, Waiting(c), Rests(c) PROVE Rests(c)'
      <3>1. w # c /\ Faulty(c)
            BY <1>0, <2>4, RestIsNotDue, ProvisioningAssumption DEF Chosen, Rests
      <3>2. c \notin Joins(w, f)
            BY <3>1 DEF Joins
      <3>3. bits'[c] = {} /\ c \notin channels'
            BY <2>2, <3>1, <3>2 DEF WorkOn, JoinBits
      <3>4. faults'[c].since = faults[c].since /\ ~faults'[c].retryNow
            BY <1>0, <2>2, <2>4, AppendedKeeps DEF Rests
      <3>5. QED BY <1>5, <2>3, <2>4, <3>3, <3>4
    <2>5. QED BY <1>4, <2>3, <2>4
  <1>10. CASE Loop
    <2>1. PICK w \in Chosen : \E f \in Fired(w) :
             /\ faults' = Final(Faulted(Appended(w, f), Joins(w, f), JoinBits(w, f)))
             /\ Retried(Joins(w, f))
          BY <1>10 DEF Loop
    <2>2. PICK f \in Fired(w) :
             /\ faults' = Final(Faulted(Appended(w, f), Joins(w, f), JoinBits(w, f)))
             /\ Retried(Joins(w, f))
          BY <2>1
    <2>3. /\ phase = "apply" /\ phase' \in {"thrown", "served"} /\ now' = now
          /\ dbFaults' = dbFaults /\ bits' = Nothing
          BY <1>10 DEF Loop, stored, ClearProvisions
    <2>4. ASSUME NEW c \in Channels, Waiting(c), Rests(c) PROVE Rests(c)'
      <3>1. /\ \/ faults'[c].since = now
               \/ faults'[c].since = faults[c].since /\ retries'[c] = retries[c]
            /\ ~faults'[c].retryNow
            BY <1>0, <2>2, LoopEffect
      <3>2. bits'[c] = {}
            BY <2>3 DEF Nothing
      <3>3. QED BY <1>5, <2>3, <2>4, <3>1, <3>2
    <2>5. QED BY <1>4, <2>3, <2>4
  <1>11. CASE PresetsDone
    <2>1. /\ phase = "presets" /\ phase' \in {"apply", "served", "lost"} /\ now' = now
          /\ dbFaults' = dbFaults /\ Clear(channels) /\ channels \in SUBSET Channels
          BY <1>0, <1>11 DEF PresetsDone, stored, TypeOK
    <2>2. ASSUME NEW c \in Channels, Waiting(c), Rests(c) PROVE Rests(c)'
      <3>1. c \notin channels
            BY <2>1, <2>2 DEF Rests
      <3>2. faults'[c] = faults[c] /\ retries' = retries
            BY <1>0, <2>1, <3>1, ClearEffect
      <3>3. bits'[c] = {}
            BY <1>11, <2>2 DEF PresetsDone, ClearProvisions, work, Nothing, Rests
      <3>4. QED BY <1>5, <2>1, <2>2, <3>2, <3>3 DEF Rests
    <2>3. QED BY <1>4, <2>1, <2>2
  <1>12. CASE Terminate
    <2>1. /\ phase # "closed" /\ phase' = "dropped" /\ now' = now /\ dbFaults' = dbFaults
          /\ bits' = Nothing
          BY <1>12 DEF Terminate, stored, ClearProvisions
    <2>2. ASSUME NEW c \in Channels, Waiting(c), Rests(c) PROVE Rests(c)'
      <3>1. /\ \/ faults'[c].since = now
               \/ faults'[c].since = faults[c].since /\ retries'[c] = retries[c]
            /\ faults'[c].retryNow => faults[c].retryNow
        <4>1. \/ /\ faults'[c].since = faults[c].since /\ retries'[c] = retries[c]
                 /\ faults'[c].retryNow => faults[c].retryNow
              \/ faults'[c].since = now /\ ~faults'[c].retryNow
              BY <1>12, TerminateEffect
        <4>2. QED BY <4>1
      <3>2. bits'[c] = {}
            BY <2>1 DEF Nothing
      <3>3. QED BY <1>5, <2>1, <2>2, <3>1, <3>2 DEF Rests
    <2>3. QED BY <1>4, <2>1, <2>2
  <1>13. CASE Empty \/ NextSends \/ PresetsSend \/ Answer
    <2>1. /\ phase # "closed" /\ phase' \in {"next", "sent"}
          /\ UNCHANGED <<now, dbFaults, faults, retries, bits>>
          BY <1>13 DEF Empty, NextSends, PresetsSend, Sends, Answer, stored, queue, work
    <2>2. ASSUME NEW c \in Channels, Waiting(c), Rests(c) PROVE Rests(c)'
          BY <1>5, <2>1, <2>2 DEF Rests
    <2>3. QED BY <1>4, <2>1, <2>2
  <1>14. QED BY <1>1, <1>2, <1>3, <1>6, <1>7, <1>8, <1>9, <1>10, <1>11, <1>12, <1>13
             DEF Next, NextRpc, ApplyPresets, Device

\* No session works on the provisions of a channel with a saved fault before the delay
\* of the fault is over, however often sessions begin, fail or die meanwhile.
THEOREM BackoffAlwaysRespected == Spec => []BackoffRespected
  <1>1. ASSUME Resting PROVE BackoffRespected
    <2>1. ASSUME NEW c \in Channels, bits[c] # {}, Waiting(c) PROVE FALSE
          BY <1>1, <2>1 DEF Resting, Rests, Nothing
    <2>2. QED BY <2>1 DEF BackoffRespected, Waiting
  <1>2. Typed /\ RetriesCounted /\ Resting /\ [Next]_vars => Resting'
        BY RestingNext
  <1>3. Spec => []Resting
        BY <1>2, RestingInit, TypedAlways, RetriesCountedAlways, PTL DEF Spec
  <1>4. QED BY <1>1, <1>3, PTL

-----------------------------------------------------------------------------
\* Nothing is dropped

\* Outside of nextRpc and applyPresets no channel is at work.
Idle ==
    /\ phase \in {"closed", "open", "served", "dropped", "thrown"} => channels = {}
    /\ phase = "closed" => done = {}

\* What is at work, the fault of the session and the saved one fit together: a channel
\* that works has all the provisions of its fault, unless only the parameters of its
\* preconditions are fetched, and a fault that differs from the saved one is saved again.
Sound(c) ==
    /\ c \notin channels => bits[c] = {}
    /\ bits[c] \subseteq provisions
    /\ c \in channels /\ (bits[c] # {} \/ phase = "presets") => faults[c].items \subseteq bits[c]
    /\ ~Faulty(c) => faults[c].items = {}
    /\ dbFaults[c].since = Never => dbFaults[c].items = {}
    /\ phase # "closed" /\ c \notin touched => faults[c].items = dbFaults[c].items

\* The provisions of a task are kept together.
Whole(t) ==
    /\ t \in channels => bits[t] = Work[t]
    /\ Faulty(t) => faults[t].items = Work[t]
    /\ dbFaults[t].since # Never => dbFaults[t].items = Work[t]
    /\ owed[t] \subseteq Work[t]
    /\ t \in Unknown => /\ t \notin channels /\ ~Faulty(t)
                        /\ dbFaults[t].since = Never /\ owed[t] = {}

\* A task is done when nothing of it is left.  A task that is neither queued nor done,
\* because a session died when it had deleted the task but not its fault, has expired:
\* otherwise its fault would be dropped in the next session.
Settled(t) ==
    /\ t \in done => t \notin tasks /\ faults[t].items = {} /\ bits[t] = {} /\ owed[t] = {}
    /\ t \in tasks => t \in dbTasks
    /\ phase # "closed" /\ t \notin tasks
          /\ (faults[t].items # {} \/ bits[t] # {} \/ owed[t] # {}) => Expiry[t] < now
    /\ phase = "closed" /\ t \notin dbTasks /\ owed[t] # {} => Expiry[t] < now

\* What is owed is at work, in a fault or in the queue; between two passes of the
\* presets it is not only at work.
Remembered(c) ==
    owed[c] \subseteq IF phase = "closed" THEN Kept(dbFaults, dbTasks, c)
                      ELSE IF phase = "apply" THEN Kept(faults, tasks, c)
                      ELSE bits[c] \cup Kept(faults, tasks, c)

Kempt ==
    /\ Idle
    /\ \A c \in Channels : Sound(c) /\ Remembered(c)
    /\ \A t \in Tasks : Whole(t) /\ Settled(t)

LEMMA KemptInit == Init => Kempt
  <1> SUFFICES ASSUME Init PROVE Kempt
      OBVIOUS
  <1>1. \A c \in Channels : /\ bits[c] = {} /\ faults[c] = NoFault /\ owed[c] = {}
                            /\ dbFaults[c] = NotSaved
        BY DEF Init, Nothing
  <1>2. NotSaved.since = Never /\ NotSaved.items = {}
        BY DEF NotSaved
  <1>3. /\ phase = "closed" /\ channels = {} /\ provisions = {} /\ done = {} /\ tasks = {}
        BY DEF Init
  <1>4. \A c \in Channels : Sound(c) /\ Remembered(c)
        BY <1>1, <1>2, <1>3, NoFaultFields DEF Sound, Remembered, Faulty
  <1>5. \A t \in Tasks : t \in Channels
        BY DEF Channels
  <1>6. \A t \in Tasks : Whole(t) /\ Settled(t)
        BY <1>1, <1>2, <1>3, <1>5, NoFaultFields DEF Whole, Settled, Faulty
  <1>7. QED BY <1>3, <1>4, <1>6 DEF Kempt, Idle

\* Tasks and presets have channels of their own.
LEMMA TaskChannels ==
  ASSUME NEW t \in Tasks
  PROVE  t \in Channels /\ t \notin PresetChannels /\ t \notin Conditional
  BY ProvisioningAssumption DEF Channels

LEMMA ExpiryType ==
  ASSUME NEW t \in Tasks
  PROVE  Expiry[t] \in Int
  BY ProvisioningAssumption DEF Never

\* Steps that change none of it.
LEMMA KemptQuiet ==
  ASSUME Typed, Kempt, Empty \/ NextSends \/ PresetsSend \/ Answer \/ UNCHANGED vars
  PROVE  Kempt'
  <1>1. UNCHANGED <<stored, tasks, faults, touched, done, channels, bits, provisions, owed>>
        BY DEF Empty, NextSends, PresetsSend, Answer, vars, queue, work, ghosts
  <1>2. \/ phase' = phase
        \/ phase \in {"open", "next", "presets", "sent"} /\ phase' \in {"next", "sent"}
        BY DEF Empty, NextSends, PresetsSend, Sends, Answer, vars
  <1>3. ASSUME NEW c \in Channels PROVE Sound(c)' /\ Remembered(c)'
    <2>1. Sound(c) /\ Remembered(c)
          BY DEF Kempt
    <2>2. QED BY <1>1, <1>2, <2>1 DEF Sound, Remembered, Faulty, Kept, stored
  <1>4. ASSUME NEW t \in Tasks PROVE Whole(t)' /\ Settled(t)'
    <2>1. Whole(t) /\ Settled(t)
          BY DEF Kempt
    <2>2. QED BY <1>1, <1>2, <2>1 DEF Whole, Settled, Faulty, stored
  <1>5. Idle'
        BY <1>1, <1>2 DEF Idle, Kempt
  <1>6. QED BY <1>3, <1>4, <1>5 DEF Kempt

\* A fault of the channels at work keeps what they were at.
LEMMA KemptFaults ==
  ASSUME Typed, Kempt, NextFaults \/ PresetsFault \/ AnswerFails
  PROVE  Kempt'
  <1>1. /\ TypeOK /\ channels \in SUBSET Channels /\ bits \in [Channels -> SUBSET Items]
        /\ now # Never
        BY NeverIsNoTime DEF Typed, TypeOK
  <1>2. /\ RecordFault(channels, bits) /\ ClearProvisions
        /\ phase \in {"next", "presets", "sent"} /\ phase' \in {"next", "apply"}
        /\ UNCHANGED <<dbTasks, dbFaults, now, tasks, done, owed>>
        BY DEF NextFaults, PresetsFault, AnswerFails, stored, ghosts
  <1>3. \A c \in Channels : bits'[c] = {} /\ c \notin channels'
        BY <1>2 DEF ClearProvisions, Nothing
  <1>4. ASSUME NEW c \in Channels
        PROVE  \/ /\ c \in channels /\ c \in touched'
                  /\ faults'[c].since = now /\ faults'[c].items = faults[c].items \cup bits[c]
               \/ /\ c \notin channels /\ faults'[c] = faults[c]
                  /\ c \in touched' <=> c \in touched
        BY <1>1, <1>2, RecordFaultEffect
  <1>5. ASSUME NEW c \in Channels PROVE Sound(c)' /\ Remembered(c)'
    <2>1. Sound(c) /\ Remembered(c)
          BY DEF Kempt
    <2>2. Sound(c)'
          BY <1>1, <1>2, <1>3, <1>4, <2>1 DEF Sound, Faulty
    <2>3. bits[c] \cup faults[c].items \subseteq faults'[c].items
          BY <1>4, <2>1 DEF Sound
    <2>4. Remembered(c)'
          BY <1>2, <2>1, <2>3 DEF Remembered, Kept
    <2>5. QED BY <2>2, <2>4
  <1>6. ASSUME NEW t \in Tasks PROVE Whole(t)' /\ Settled(t)'
    <2>1. Whole(t) /\ Settled(t) /\ Sound(t) /\ t \in Channels
          BY TaskChannels DEF Kempt
    <2>2. Whole(t)'
          BY <1>1, <1>2, <1>3, <1>4, <2>1 DEF Whole, Sound, Faulty
    <2>3. Settled(t)'
          BY <1>1, <1>2, <1>3, <1>4, <2>1 DEF Settled, Whole, Sound
    <2>4. QED BY <2>2, <2>3
  <1>7. Idle'
        BY <1>2 DEF Idle
  <1>8. QED BY <1>5, <1>6, <1>7 DEF Kempt

LEMMA KemptTerminate ==
  ASSUME Typed, Kempt, Terminate
  PROVE  Kempt'
  <1>1. now # Never
        BY NeverIsNoTime DEF Typed, TypeOK
  <1>2. /\ ClearProvisions /\ phase \in {"open", "sent", "lost"} /\ phase' = "dropped"
        /\ UNCHANGED <<dbTasks, dbFaults, now, tasks, done, owed>>
        BY DEF Terminate, stored, ghosts
  <1>3. \A c \in Channels : bits'[c] = {} /\ c \notin channels'
        BY <1>2 DEF ClearProvisions, Nothing
  <1>4. ASSUME NEW c \in Channels
        PROVE  \/ /\ c \in channels /\ c \in touched'
                  /\ faults'[c].since = now /\ faults'[c].items = faults[c].items \cup bits[c]
               \/ /\ faults'[c].since = faults[c].since /\ faults'[c].items = faults[c].items
                  /\ c \in touched' <=> c \in touched
                  /\ bits[c] = {}
    <2>1. Sound(c)
          BY DEF Kempt
    <2>2. QED BY <2>1, TerminateEffect DEF Sound
  <1>5. ASSUME NEW c \in Channels PROVE Sound(c)' /\ Remembered(c)'
    <2>1. Sound(c) /\ Remembered(c)
          BY DEF Kempt
    <2>2. Sound(c)'
          BY <1>1, <1>2, <1>3, <1>4, <2>1 DEF Sound, Faulty
    <2>3. bits[c] \cup faults[c].items \subseteq faults'[c].items
          BY <1>4
    <2>4. Remembered(c)'
          BY <1>2, <2>1, <2>3 DEF Remembered, Kept
    <2>5. QED BY <2>2, <2>4
  <1>6. ASSUME NEW t \in Tasks PROVE Whole(t)' /\ Settled(t)'
    <2>1. Whole(t) /\ Settled(t) /\ Sound(t) /\ t \in Channels
          BY TaskChannels DEF Kempt
    <2>2. Whole(t)'
          BY <1>1, <1>2, <1>3, <1>4, <2>1 DEF Whole, Sound, Faulty
    <2>3. Settled(t)'
          BY <1>2, <1>3, <1>4, <2>1 DEF Settled
    <2>4. QED BY <2>2, <2>3
  <1>7. Idle'
        BY <1>2 DEF Idle, ClearProvisions
  <1>8. QED BY <1>5, <1>6, <1>7 DEF Kempt

\* Fetching parameters for preconditions.
LEMMA KemptFetch ==
  ASSUME Typed, Kempt, FetchFaults \/ FetchSends
  PROVE  Kempt'
  <1>1. TypeOK /\ now # Never
        BY NeverIsNoTime DEF Typed, TypeOK
  <1>2. /\ phase = "apply" /\ phase' \in {"apply", "sent"}
        /\ UNCHANGED <<dbTasks, dbFaults, now, tasks, done, owed>>
        BY DEF FetchFaults, FetchSends, stored, queue, ghosts
  <1>3. PICK F \in SUBSET PresetChannels :
           \/ RecordFault(Marked(F), MarkedBits(F)) /\ ClearProvisions
           \/ /\ channels' = Marked(F) /\ bits' = MarkedBits(F)
              /\ UNCHANGED <<faults, touched, provisions>>
              /\ phase' = "sent"
        BY DEF FetchFaults, FetchSends, Eligible, queue
  <1>4. /\ Marked(F) \in SUBSET Channels /\ MarkedBits(F) \in [Channels -> SUBSET Items]
        /\ channels \subseteq Marked(F)
        BY <1>1, ProvisioningAssumption DEF Marked, MarkedBits, TypeOK, Channels
  <1>5. ASSUME NEW c \in Channels
        PROVE  /\ c \notin Marked(F) => MarkedBits(F)[c] = bits[c] /\ c \notin channels
               /\ c \in Marked(F) => \/ MarkedBits(F)[c] = {} /\ c \in PresetChannels
                                     \/ MarkedBits(F)[c] = bits[c] /\ c \in channels
        BY ProvisioningAssumption DEF Marked, MarkedBits
  <1>6. CASE RecordFault(Marked(F), MarkedBits(F)) /\ ClearProvisions
    <2>1. \A c \in Channels : bits'[c] = {} /\ c \notin channels'
          BY <1>6 DEF ClearProvisions, Nothing
    <2>2. ASSUME NEW c \in Channels
          PROVE  \/ /\ c \in Marked(F) /\ c \in touched' /\ faults'[c].since = now
                    /\ faults'[c].items = faults[c].items \cup MarkedBits(F)[c]
                 \/ /\ c \notin Marked(F) /\ faults'[c] = faults[c]
                    /\ c \in touched' <=> c \in touched
          BY <1>1, <1>4, <1>6, RecordFaultEffect
    <2>3. ASSUME NEW c \in Channels PROVE Sound(c)' /\ Remembered(c)'
      <3>1. Sound(c) /\ Remembered(c)
            BY DEF Kempt
      <3>2. Sound(c)'
            BY <1>1, <1>2, <2>1, <2>2, <3>1 DEF Sound, Faulty
      <3>3. faults[c].items \subseteq faults'[c].items
            BY <2>2
      <3>4. Remembered(c)'
            BY <1>2, <3>1, <3>3 DEF Remembered, Kept
      <3>5. QED BY <3>2, <3>4
    <2>4. ASSUME NEW t \in Tasks PROVE Whole(t)' /\ Settled(t)'
      <3>1. /\ Whole(t) /\ Settled(t) /\ Sound(t) /\ t \in Channels
            /\ t \notin PresetChannels
            BY TaskChannels DEF Kempt
      <3>2. \/ /\ t \in channels /\ faults'[t].since = now
               /\ faults'[t].items = faults[t].items \cup bits[t]
            \/ faults'[t] = faults[t]
            BY <1>5, <2>2, <3>1
      <3>3. Whole(t)'
            BY <1>1, <1>2, <2>1, <3>1, <3>2 DEF Whole, Sound, Faulty
      <3>4. Settled(t)'
            BY <1>2, <2>1, <3>1, <3>2 DEF Settled
      <3>5. QED BY <3>3, <3>4
    <2>5. Idle'
          BY <1>2 DEF Idle
    <2>6. QED BY <2>3, <2>4, <2>5 DEF Kempt
  <1>7. CASE /\ channels' = Marked(F) /\ bits' = MarkedBits(F)
             /\ UNCHANGED <<faults, touched, provisions>>
             /\ phase' = "sent"
    <2>1. ASSUME NEW c \in Channels PROVE Sound(c)' /\ Remembered(c)'
      <3>1. Sound(c) /\ Remembered(c)
            BY DEF Kempt
      <3>2. Sound(c)'
            BY <1>2, <1>5, <1>7, <3>1 DEF Sound, Faulty
      <3>3. Remembered(c)'
            BY <1>2, <1>7, <3>1 DEF Remembered, Kept
      <3>4. QED BY <3>2, <3>3
    <2>2. ASSUME NEW t \in Tasks PROVE Whole(t)' /\ Settled(t)'
      <3>1. /\ Whole(t) /\ Settled(t) /\ Sound(t) /\ t \in Channels
            /\ t \notin PresetChannels
            BY TaskChannels DEF Kempt
      <3>2. bits'[t] = bits[t] /\ (t \in channels' <=> t \in channels)
            BY <1>5, <1>7, <3>1
      <3>3. QED BY <1>2, <1>7, <3>1, <3>2 DEF Whole, Settled, Faulty
    <2>3. Idle'
          BY <1>7 DEF Idle
    <2>4. QED BY <2>1, <2>2, <2>3 DEF Kempt
  <1>8. QED BY <1>3, <1>6, <1>7

\* A session begins: what is dropped is still in the queue.
LEMMA KemptLoad ==
  ASSUME Typed, Kempt, Load
  PROVE  Kempt'
  <1>1. PICK t \in now + 1 .. MaxTime :
           /\ now' = t
           /\ tasks' = dbTasks
           /\ faults' = [c \in Channels |->
                           IF dbFaults[c].since = Never \/ c \in Dropped(t) THEN NoFault
                           ELSE [items |-> dbFaults[c].items, since |-> dbFaults[c].since,
                                 retryNow |-> FALSE, precondition |-> FALSE]]
           /\ touched' = Dropped(t)
        BY DEF Load
  <1>2. /\ phase = "closed" /\ phase' = "open" /\ channels = {}
        /\ UNCHANGED <<dbTasks, dbFaults, done, channels, bits, provisions, owed>>
        BY DEF Load, Kempt, Idle, work, ghosts
  <1>3. t \in Int /\ now \in Int /\ now < t
        BY <1>1 DEF Typed, TypeOK
  <1>4. ASSUME NEW c \in Channels
        PROVE  \/ /\ c \in Dropped(t) /\ c \in Tasks /\ c \in touched'
                  /\ faults'[c].since = Never /\ faults'[c].items = {}
               \/ /\ c \notin Dropped(t) /\ faults'[c].since = dbFaults[c].since
                  /\ faults'[c].items = dbFaults[c].items
    <2>1. Sound(c)
          BY DEF Kempt
    <2>2. CASE c \in Dropped(t)
          BY <1>1, <2>2, NoFaultFields DEF Dropped
    <2>3. CASE c \notin Dropped(t) /\ dbFaults[c].since = Never
          BY <1>1, <2>1, <2>3, NoFaultFields DEF Sound
    <2>4. CASE c \notin Dropped(t) /\ dbFaults[c].since # Never
          BY <1>1, <2>4
    <2>5. QED BY <2>2, <2>3, <2>4
  <1>5. ASSUME NEW c \in Channels PROVE Sound(c)'
    <2>1. Sound(c)
          BY DEF Kempt
    <2>2. QED BY <1>2, <1>4, <2>1 DEF Sound, Faulty
  <1>6. ASSUME NEW k \in Tasks PROVE Whole(k)' /\ Settled(k)' /\ Remembered(k)'
    <2>1. /\ Whole(k) /\ Settled(k) /\ Remembered(k) /\ Sound(k) /\ k \in Channels
          /\ Expiry[k] \in Int
          BY TaskChannels, ExpiryType DEF Kempt
    <2>2. dbFaults[k].since # Never /\ k \notin Dropped(t) => Expiry[k] < t
          BY <1>3, <2>1 DEF Dropped
    <2>3. Whole(k)'
          BY <1>2, <1>4, <2>1 DEF Whole, Faulty
    <2>4. faults'[k].items # {} => Expiry[k] < t
          BY <1>4, <2>1, <2>2 DEF Sound
    <2>5. owed[k] # {} /\ k \notin dbTasks => Expiry[k] < t
          BY <1>2, <1>3, <2>1 DEF Settled
    <2>6. Settled(k)'
      <3>1. k \notin done
            BY <1>2 DEF Kempt, Idle
      <3>2. bits'[k] = {}
            BY <1>2, <2>1 DEF Sound
      <3>3. QED BY <1>1, <1>2, <2>4, <2>5, <3>1, <3>2 DEF Settled
    <2>7. Remembered(k)'
      <3>1. CASE k \in dbTasks
            BY <1>1, <1>2, <2>1, <3>1 DEF Remembered, Kept, Whole
      <3>2. CASE k \notin dbTasks
        <4>1. owed[k] \subseteq dbFaults[k].items
              BY <1>2, <2>1, <3>2 DEF Remembered, Kept
        <4>2. owed[k] # {} => k \notin Dropped(t)
              BY <1>3, <2>1, <2>5, <3>2 DEF Dropped
        <4>3. CASE owed[k] = {}
              BY <1>2, <4>3 DEF Remembered
        <4>4. CASE owed[k] # {}
          <5>1. faults'[k].items = dbFaults[k].items
                BY <1>4, <2>1, <4>2, <4>4
          <5>2. owed'[k] \subseteq faults'[k].items /\ phase' = "open"
                BY <1>2, <4>1, <5>1
          <5>3. QED BY <5>2 DEF Remembered, Kept
        <4>5. QED BY <4>3, <4>4
      <3>3. QED BY <3>1, <3>2
    <2>8. QED BY <2>3, <2>6, <2>7
  <1>7. ASSUME NEW c \in Channels \ Tasks PROVE Remembered(c)'
    <2>1. Remembered(c)
          BY DEF Kempt
    <2>2. c \notin tasks' /\ c \notin dbTasks
          BY <1>1 DEF Typed, TypeOK
    <2>3. QED BY <1>2, <1>4, <2>1, <2>2 DEF Remembered, Kept
  <1>8. Idle'
        BY <1>2 DEF Idle
  <1>9. QED BY <1>5, <1>6, <1>7, <1>8 DEF Kempt

\* Applying presets begins what they add, and what a retried fault has.
LEMMA ApplyItems ==
  ASSUME Typed, Kempt, phase = "apply", NEW w \in Chosen, NEW f \in Fired(w),
         BeginPresets(w, f), NEW c \in Channels
  PROVE  /\ owed'[c] = owed[c] \cup JoinBits(w, f)[c] \cup Added(f, c)
         /\ c \notin Joins(w, f) => JoinBits(w, f)[c] = {}
         /\ faults[c].items \subseteq Appended(w, f)[c].items
         /\ c \in Joins(w, f) => Appended(w, f)[c] = faults[c]
                                    /\ faults[c].items \subseteq JoinBits(w, f)[c]
         /\ owed'[c] \subseteq JoinBits(w, f)[c] \cup Appended(w, f)[c].items
                                  \cup (IF c \in tasks THEN Work[c] ELSE {})
         /\ c \notin Extended(w, f) =>
               c \notin touched /\ Appended(w, f)[c].items = faults[c].items
  <1>1. TypeOK /\ Sound(c) /\ Remembered(c)
        BY DEF Typed, Kempt
  <1>2. owed'[c] = owed[c] \cup JoinBits(w, f)[c] \cup Added(f, c)
        BY DEF BeginPresets, Owe
  <1>3. c \in Waits(w, f) =>
           /\ c \in PresetChannels /\ c # w /\ Faulty(c)
           /\ Appended(w, f)[c].items = faults[c].items \cup f[c]
    <2>1. faults[c] \in FaultRecord
          BY <1>1 DEF TypeOK
    <2>2. QED BY <2>1 DEF Waits, Appended, FaultRecord
  <1>4. c \notin Waits(w, f) => Appended(w, f)[c] = faults[c]
        BY DEF Appended
  <1>5. /\ c \notin Joins(w, f) => JoinBits(w, f)[c] = {}
        /\ c \in Joins(w, f) => Added(f, c) \subseteq JoinBits(w, f)[c]
    <2>1. c = w => c \in Joins(w, f)
          BY DEF Joins
    <2>2. QED BY <2>1 DEF JoinBits
  <1>6. c \in Joins(w, f) => Appended(w, f)[c] = faults[c]
                                /\ faults[c].items \subseteq JoinBits(w, f)[c]
    <2>1. CASE c = w
          BY <1>3, <1>4, <2>1 DEF JoinBits
    <2>2. CASE c # w /\ c \in Joins(w, f)
          BY <1>1, <1>3, <1>4, <2>2 DEF Joins, Sound
    <2>3. QED BY <2>1, <2>2
  <1>7. faults[c].items \subseteq Appended(w, f)[c].items
        BY <1>3, <1>4
  <1>8. owed'[c] \subseteq JoinBits(w, f)[c] \cup Appended(w, f)[c].items
                              \cup (IF c \in tasks THEN Work[c] ELSE {})
    <2>1. owed[c] \subseteq faults[c].items \cup (IF c \in tasks THEN Work[c] ELSE {})
          BY <1>1 DEF Remembered, Kept
    <2>2. Added(f, c) \subseteq JoinBits(w, f)[c] \cup Appended(w, f)[c].items
      <3>1. CASE c \in Joins(w, f)
            BY <1>5, <3>1
      <3>2. CASE c \notin Joins(w, f) /\ c \in PresetChannels
        <4>1. c # w /\ (f[c] = {} \/ Faulty(c))
              BY <3>2 DEF Joins
        <4>2. f[c] # {} => c \in Waits(w, f)
              BY <3>2, <4>1 DEF Waits
        <4>3. QED BY <1>3, <3>2, <4>2 DEF Added
      <3>3. CASE c \notin PresetChannels
            BY <3>3 DEF Added
      <3>4. QED BY <3>1, <3>2, <3>3
    <2>3. QED BY <1>2, <1>7, <2>1, <2>2
  <1>9. c \notin Extended(w, f) =>
           c \notin touched /\ Appended(w, f)[c].items = faults[c].items
        BY <1>3, <1>4 DEF Extended
  <1>10. QED BY <1>2, <1>5, <1>6, <1>7, <1>8, <1>9

\* Only the task that is white-listed joins the presets, with its fault.
LEMMA ApplyTask ==
  ASSUME Typed, Kempt, phase = "apply", NEW w \in Chosen, NEW f \in Fired(w),
         BeginPresets(w, f), NEW t \in Tasks
  PROVE  /\ t \in Joins(w, f) => /\ Faulty(t) /\ t \notin Unknown
                                 /\ JoinBits(w, f)[t] = faults[t].items
                                 /\ owed'[t] = owed[t] \cup faults[t].items
         /\ t \notin Joins(w, f) => owed'[t] = owed[t]
         /\ Appended(w, f)[t] = faults[t]
  <1>1. /\ t \in Channels /\ t \notin PresetChannels /\ Added(f, t) = {}
        BY TaskChannels DEF Added
  <1>2. Whole(t)
        BY DEF Kempt
  <1>3. t \in Joins(w, f) => t = w /\ Faulty(t)
        BY <1>1, ProvisioningAssumption DEF Joins, Chosen, Due
  <1>4. Appended(w, f)[t] = faults[t]
        BY <1>1 DEF Appended, Waits
  <1>5. t \in Joins(w, f) => JoinBits(w, f)[t] = faults[t].items
        BY <1>1, <1>3 DEF JoinBits
  <1>6. /\ owed'[t] = owed[t] \cup JoinBits(w, f)[t] \cup Added(f, t)
        /\ t \notin Joins(w, f) => JoinBits(w, f)[t] = {}
        BY <1>1, ApplyItems
  <1>7. t \in Joins(w, f) => t \notin Unknown
        BY <1>2, <1>3 DEF Whole
  <1>8. QED BY <1>1, <1>3, <1>4, <1>5, <1>6, <1>7

LEMMA KemptApply ==
  ASSUME Typed, Kempt, Apply
  PROVE  Kempt'
  <1>1. PICK w \in Chosen : \E f \in Fired(w) :
           /\ faults' = Appended(w, f)
           /\ touched' = Extended(w, f)
           /\ WorkOn(Joins(w, f), JoinBits(w, f))
           /\ BeginPresets(w, f)
        BY DEF Apply
  <1>2. PICK f \in Fired(w) :
           /\ faults' = Appended(w, f)
           /\ touched' = Extended(w, f)
           /\ channels' = Joins(w, f) /\ bits' = JoinBits(w, f)
           /\ provisions' = UNION {JoinBits(w, f)[c] : c \in Channels}
           /\ BeginPresets(w, f)
        BY <1>1 DEF WorkOn
  <1>3. /\ TypeOK /\ phase = "apply" /\ phase' = "presets"
        /\ UNCHANGED <<dbTasks, dbFaults, now, tasks, done>>
        BY DEF Typed, Apply, stored
  <1>4. ASSUME NEW c \in Channels PROVE Sound(c)' /\ Remembered(c)'
    <2>1. Sound(c)
          BY DEF Kempt
    <2>2. /\ faults'[c].since = faults[c].since
          /\ c \notin Joins(w, f) => JoinBits(w, f)[c] = {}
          /\ c \in Joins(w, f) => faults'[c].items \subseteq JoinBits(w, f)[c]
          /\ c \notin touched' => c \notin touched /\ faults'[c].items = faults[c].items
          /\ owed'[c] \subseteq JoinBits(w, f)[c] \cup faults'[c].items
                                   \cup (IF c \in tasks THEN Work[c] ELSE {})
          BY <1>2, <1>3, ApplyItems, AppendedKeeps
    <2>3. bits'[c] \subseteq provisions'
          BY <1>2
    <2>4. ~Faulty(c) => faults'[c].items = {}
          BY <1>2, <2>1 DEF Appended, Waits, Sound
    <2>5. Sound(c)'
          BY <1>2, <1>3, <2>1, <2>2, <2>3, <2>4 DEF Sound, Faulty
    <2>6. Remembered(c)'
          BY <1>2, <1>3, <2>2 DEF Remembered, Kept
    <2>7. QED BY <2>5, <2>6
  <1>5. ASSUME NEW t \in Tasks PROVE Whole(t)' /\ Settled(t)'
    <2>1. /\ Whole(t) /\ Settled(t) /\ Sound(t) /\ t \in Channels
          BY TaskChannels DEF Kempt
    <2>2. /\ t \in Joins(w, f) => /\ Faulty(t) /\ t \notin Unknown
                                  /\ JoinBits(w, f)[t] = faults[t].items
                                  /\ owed'[t] = owed[t] \cup faults[t].items
          /\ t \notin Joins(w, f) => owed'[t] = owed[t] /\ JoinBits(w, f)[t] = {}
          /\ faults'[t] = faults[t]
      <3>1. t \notin Joins(w, f) => JoinBits(w, f)[t] = {}
            BY <1>2, <1>3, <2>1, ApplyItems
      <3>2. QED BY <1>2, <1>3, <3>1, ApplyTask
    <2>3. Whole(t)'
          BY <1>2, <1>3, <2>1, <2>2 DEF Whole, Faulty
    <2>4. Settled(t)'
      <3>1. t \in done => owed'[t] = {} /\ bits'[t] = {}
            BY <1>2, <2>1, <2>2 DEF Settled
      <3>2. bits'[t] # {} \/ owed'[t] # {} => faults[t].items # {} \/ owed[t] # {}
            BY <1>2, <2>2
      <3>3. QED BY <1>3, <2>1, <2>2, <3>1, <3>2 DEF Settled
    <2>5. QED BY <2>3, <2>4
  <1>6. Idle'
        BY <1>3 DEF Idle
  <1>7. QED BY <1>4, <1>5, <1>6 DEF Kempt

LEMMA KemptLoop ==
  ASSUME Typed, Kempt, Loop
  PROVE  Kempt'
  <1>1. PICK w \in Chosen : \E f \in Fired(w) :
           /\ faults' = Final(Faulted(Appended(w, f), Joins(w, f), JoinBits(w, f)))
           /\ touched' = Extended(w, f) \cup Joins(w, f)
           /\ Retried(Joins(w, f))
           /\ BeginPresets(w, f)
        BY DEF Loop
  <1>2. PICK f \in Fired(w) :
           /\ faults' = Final(Faulted(Appended(w, f), Joins(w, f), JoinBits(w, f)))
           /\ touched' = Extended(w, f) \cup Joins(w, f)
           /\ Retried(Joins(w, f))
           /\ BeginPresets(w, f)
        BY <1>1
  <1>3. /\ TypeOK /\ phase = "apply" /\ phase' \in {"thrown", "served"} /\ ClearProvisions
        /\ UNCHANGED <<dbTasks, dbFaults, now, tasks, done>>
        BY DEF Typed, Loop, stored
  <1>4. \A c \in Channels : bits'[c] = {} /\ c \notin channels'
        BY <1>3 DEF ClearProvisions, Nothing
  <1>5. ASSUME NEW c \in Channels
        PROVE  /\ c \in Joins(w, f) =>
                    /\ faults'[c].since = now /\ c \in touched'
                    /\ faults'[c].items = faults[c].items \cup JoinBits(w, f)[c]
               /\ c \notin Joins(w, f) =>
                    /\ faults'[c].since = faults[c].since
                    /\ faults'[c].items = Appended(w, f)[c].items
                    /\ c \notin touched' => /\ c \notin touched
                                            /\ faults'[c].items = faults[c].items
    <2>1. /\ c \in Joins(w, f) =>
               /\ faults'[c].since = now
               /\ faults'[c].items = Appended(w, f)[c].items \cup JoinBits(w, f)[c]
          /\ c \notin Joins(w, f) =>
               /\ faults'[c].since = faults[c].since
               /\ faults'[c].items = Appended(w, f)[c].items
          BY <1>2, <1>3, LoopEffect
    <2>2. c \in Joins(w, f) => Appended(w, f)[c] = faults[c]
          BY <1>2, <1>3, ApplyItems
    <2>3. c \notin Extended(w, f) =>
             c \notin touched /\ Appended(w, f)[c].items = faults[c].items
          BY <1>2, <1>3, ApplyItems
    <2>4. QED BY <1>2, <2>1, <2>2, <2>3
  <1>6. ASSUME NEW c \in Channels PROVE Sound(c)' /\ Remembered(c)'
    <2>1. Sound(c)
          BY DEF Kempt
    <2>2. /\ c \notin Joins(w, f) => JoinBits(w, f)[c] = {}
          /\ owed'[c] \subseteq JoinBits(w, f)[c] \cup Appended(w, f)[c].items
                                   \cup (IF c \in tasks THEN Work[c] ELSE {})
          BY <1>2, <1>3, ApplyItems
    <2>3. c \in Joins(w, f) => Appended(w, f)[c] = faults[c]
          BY <1>2, <1>3, ApplyItems
    <2>4. now # Never
          BY <1>3, NeverIsNoTime DEF TypeOK
    <2>5. ~Faulty(c) /\ c \notin Joins(w, f) => faults'[c].items = {}
          BY <1>5, <2>1 DEF Appended, Waits, Sound
    <2>6. Sound(c)'
          BY <1>3, <1>4, <1>5, <2>1, <2>4, <2>5 DEF Sound, Faulty
    <2>7. JoinBits(w, f)[c] \cup Appended(w, f)[c].items \subseteq faults'[c].items
          BY <1>5, <2>2, <2>3
    <2>8. Remembered(c)'
          BY <1>3, <2>2, <2>7 DEF Remembered, Kept
    <2>9. QED BY <2>6, <2>8
  <1>7. ASSUME NEW t \in Tasks PROVE Whole(t)' /\ Settled(t)'
    <2>1. /\ Whole(t) /\ Settled(t) /\ Sound(t) /\ t \in Channels
          BY TaskChannels DEF Kempt
    <2>2. /\ t \in Joins(w, f) => /\ Faulty(t) /\ t \notin Unknown
                                  /\ JoinBits(w, f)[t] = faults[t].items
                                  /\ owed'[t] = owed[t] \cup faults[t].items
          /\ t \notin Joins(w, f) => owed'[t] = owed[t]
          /\ Appended(w, f)[t] = faults[t]
          BY <1>2, <1>3, ApplyTask
    <2>3. /\ faults'[t].items = faults[t].items
          /\ faults'[t].since # Never => Faulty(t)
          BY <1>5, <2>1, <2>2 DEF Faulty
    <2>4. Whole(t)'
          BY <1>3, <1>4, <2>1, <2>2, <2>3 DEF Whole, Faulty
    <2>5. Settled(t)'
      <3>1. t \in done => owed'[t] = {}
            BY <2>1, <2>2 DEF Settled
      <3>2. owed'[t] # {} => faults[t].items # {} \/ owed[t] # {}
            BY <2>2
      <3>3. QED BY <1>3, <1>4, <2>1, <2>3, <3>1, <3>2 DEF Settled
    <2>6. QED BY <2>4, <2>5
  <1>8. Idle'
        BY <1>3 DEF Idle, ClearProvisions
  <1>9. QED BY <1>6, <1>7, <1>8 DEF Kempt

\* The tasks C begin with their provisions, and the tasks U are done.
NextWork(C, U) ==
    /\ C \cap Unknown = {} /\ U \subseteq Unknown
    /\ channels' = C
    /\ tasks' = Left \ U /\ done' = done \cup Finished \cup Expired \cup U
    /\ phase' = "apply" => C = {}
    /\ \A c \in Channels :
          /\ bits'[c] = (IF c \in C THEN Work[c] ELSE {})
          /\ bits'[c] \subseteq provisions'
          /\ owed'[c] = (IF c \in Expired THEN {}
                         ELSE IF c \in channels THEN owed[c] \ bits[c] ELSE owed[c])
                            \cup bits'[c]

\* The outcomes of NextDone: nothing is left, or a task begins, or its name is unknown.
LEMMA NextDoneEffect ==
  ASSUME NextDone
  PROVE  \E C \in SUBSET Available, U \in SUBSET Available : NextWork(C, U)
  <1>1. ASSUME NEW U \in SUBSET Available, U \subseteq Unknown, Settle(U),
               Owe(channels, Expired, {}, Nothing), ClearProvisions
        PROVE  NextWork({}, U)
    <2>1. /\ channels' = {} /\ \A c \in Channels : bits'[c] = {}
          BY <1>1 DEF ClearProvisions, Nothing
    <2>2. \A c \in Channels :
             owed'[c] = IF c \in Expired THEN {}
                        ELSE IF c \in channels THEN owed[c] \ bits[c] ELSE owed[c]
          BY <1>1 DEF Owe
    <2>3. tasks' = Left \ U /\ done' = done \cup Finished \cup Expired \cup U
          BY <1>1 DEF Settle
    <2>4. QED BY <1>1, <2>1, <2>2, <2>3 DEF NextWork
  <1>2. ASSUME NEW t \in Available, t \notin Unknown, Settle({}), phase' = phase,
               WorkOn({t}, [Nothing EXCEPT ![t] = Work[t]]),
               Owe(channels, Expired, {t}, [Nothing EXCEPT ![t] = Work[t]])
        PROVE  NextWork({t}, {})
    <2> DEFINE B == [Nothing EXCEPT ![t] = Work[t]]
    <2>1. \A c \in Channels : B[c] = IF c \in {t} THEN Work[c] ELSE {}
          BY DEF Nothing
    <2>2. /\ channels' = {t} /\ bits' = B
          /\ provisions' = UNION {B[c] : c \in Channels}
          /\ Owe(channels, Expired, {t}, B)
          BY <1>2 DEF WorkOn
    <2> HIDE DEF B
    <2>3. \A c \in Channels :
             owed'[c] = (IF c \in Expired THEN {}
                         ELSE IF c \in channels THEN owed[c] \ bits[c] ELSE owed[c])
                            \cup B[c]
          BY <2>1, <2>2 DEF Owe
    <2>4. tasks' = Left \ {} /\ done' = done \cup Finished \cup Expired \cup {}
          BY <1>2 DEF Settle
    <2>5. \A c \in Channels : bits'[c] \subseteq provisions'
          BY <2>2
    <2>6. phase' # "apply" /\ {t} \cap Unknown = {} /\ {} \subseteq Unknown
          BY <1>2 DEF NextDone
    <2>7. \A c \in Channels :
             /\ bits'[c] = (IF c \in {t} THEN Work[c] ELSE {})
             /\ owed'[c] = (IF c \in Expired THEN {}
                            ELSE IF c \in channels THEN owed[c] \ bits[c] ELSE owed[c])
                               \cup bits'[c]
          BY <2>1, <2>2, <2>3
    <2>8. QED BY <2>2, <2>4, <2>5, <2>6, <2>7 DEF NextWork
  <1>3. CASE Settle({}) /\ Owe(channels, Expired, {}, Nothing) /\ ClearProvisions
    <2>1. NextWork({}, {})
          BY <1>1, <1>3
    <2>2. QED BY <2>1
  <1>4. ASSUME NEW t \in Available \cap Unknown, Settle({t}),
               Owe(channels, Expired, {}, Nothing), ClearProvisions
        PROVE  \E C \in SUBSET Available, U \in SUBSET Available : NextWork(C, U)
    <2>1. {t} \in SUBSET Available /\ {t} \subseteq Unknown
          OBVIOUS
    <2>2. NextWork({}, {t})
          BY <1>1, <1>4, <2>1
    <2>3. QED BY <2>1, <2>2
  <1>5. ASSUME NEW t \in Available, t \notin Unknown, Settle({}), phase' = phase,
               WorkOn({t}, [Nothing EXCEPT ![t] = Work[t]]),
               Owe(channels, Expired, {t}, [Nothing EXCEPT ![t] = Work[t]])
        PROVE  \E C \in SUBSET Available, U \in SUBSET Available : NextWork(C, U)
    <2>1. NextWork({t}, {})
          BY <1>2, <1>5
    <2>2. QED BY <2>1
  <1>6. QED BY <1>3, <1>4, <1>5 DEF NextDone

LEMMA KemptNextDone ==
  ASSUME Typed, Kempt, NextDone
  PROVE  Kempt'
  <1>1. PICK C \in SUBSET Available, U \in SUBSET Available : NextWork(C, U)
        BY NextDoneEffect
  <1>2. /\ TypeOK /\ phase = "next" /\ phase' \in {"next", "apply"}
        /\ UNCHANGED <<dbTasks, dbFaults, now>>
        /\ Clear(Cleared \cup Expired) /\ Cleared \cup Expired \in SUBSET Channels
        BY QueueType DEF Typed, TypeOK, NextDone, stored, Channels
  <1>3. ASSUME NEW c \in Channels
        PROVE  /\ c \in Cleared \cup Expired => faults'[c] = NoFault
               /\ c \notin Cleared \cup Expired => faults'[c] = faults[c]
               /\ c \notin touched' => c \notin touched /\ faults'[c].items = faults[c].items
    <2>1. Sound(c)
          BY DEF Kempt
    <2>2. /\ c \in Cleared \cup Expired => faults'[c] = NoFault
          /\ c \notin Cleared \cup Expired => faults'[c] = faults[c]
          /\ touched' = touched \cup {k \in Cleared \cup Expired : Faulty(k)}
          BY <1>2, ClearEffect
    <2>3. QED BY <2>1, <2>2, NoFaultFields DEF Sound
  <1>4. ASSUME NEW c \in Channels, c \in C \cup U
        PROVE  faults'[c] = NoFault \/ (~Faulty(c) /\ faults'[c].items = {})
    <2>1. Sound(c) /\ c \in Available
          BY <1>4 DEF Kempt
    <2>2. QED BY <1>3, <2>1 DEF Available, Sound
  <1>5. ASSUME NEW c \in Channels PROVE Sound(c)'
    <2>1. Sound(c)
          BY DEF Kempt
    <2>2. /\ c \in channels' <=> c \in C
          /\ bits'[c] = (IF c \in C THEN Work[c] ELSE {}) /\ bits'[c] \subseteq provisions'
          BY <1>1 DEF NextWork
    <2>3. c \in C => faults'[c].items = {}
          BY <1>4, NoFaultFields
    <2>4. QED BY <1>2, <1>3, <2>1, <2>2, <2>3, NoFaultFields DEF Sound, Faulty
  <1>6. ASSUME NEW c \in Channels PROVE Remembered(c)'
    <2>1. Sound(c) /\ Remembered(c)
          BY DEF Kempt
    <2>2. /\ bits'[c] = (IF c \in C THEN Work[c] ELSE {})
          /\ tasks' = Left \ U /\ C \cap U = {}
          /\ owed'[c] = (IF c \in Expired THEN {}
                         ELSE IF c \in channels THEN owed[c] \ bits[c] ELSE owed[c])
                            \cup bits'[c]
          BY <1>1 DEF NextWork
    <2>3. c \in C => c \in tasks'
          BY <1>1, <2>2 DEF Available
    <2>4. SUFFICES owed'[c] \subseteq faults'[c].items
                                         \cup (IF c \in tasks' THEN Work[c] ELSE {})
          BY <1>2 DEF Remembered, Kept
    <2>5. CASE c \in Expired
          BY <2>2, <2>3, <2>5
    <2>6. CASE c \notin Expired /\ c \in channels
      <3>1. CASE c \in Tasks
        <4>1. owed[c] \subseteq Work[c] /\ bits[c] = Work[c]
              BY <2>6, <3>1 DEF Kempt, Whole
        <4>2. QED BY <2>2, <2>3, <2>6, <4>1
      <3>2. CASE c \notin Tasks
        <4>1. c \notin tasks /\ c \notin C
              BY <1>2, <2>3, <3>2 DEF TypeOK, Available, Left
        <4>2. owed[c] \subseteq bits[c] \cup faults[c].items
              BY <1>2, <2>1, <4>1 DEF Remembered, Kept
        <4>3. CASE bits[c] # {}
              BY <2>1, <2>2, <2>6, <4>1, <4>2, <4>3 DEF Sound
        <4>4. CASE bits[c] = {}
              BY <1>3, <2>2, <2>6, <4>1, <4>2, <4>4 DEF Cleared
        <4>5. QED BY <4>3, <4>4
      <3>3. QED BY <3>1, <3>2
    <2>7. CASE c \notin Expired /\ c \notin channels
      <3>1. faults'[c] = faults[c] /\ bits[c] = {}
            BY <1>3, <2>1, <2>7 DEF Cleared, Sound
      <3>2. owed[c] \subseteq faults[c].items \cup (IF c \in tasks THEN Work[c] ELSE {})
            BY <1>2, <2>1, <3>1 DEF Remembered, Kept
      <3>3. CASE c \in U
        <4>1. owed[c] = {}
          <5>1. c \in Tasks /\ c \in Unknown
                BY <1>1, <3>3, ProvisioningAssumption DEF NextWork
          <5>2. QED BY <5>1 DEF Kempt, Whole
        <4>2. QED BY <2>2, <2>3, <2>7, <4>1
      <3>4. CASE c \notin U
        <4>1. c \in tasks => c \in tasks'
              BY <2>2, <2>7, <3>4 DEF Left, Finished
        <4>2. QED BY <2>2, <2>3, <2>7, <3>1, <3>2, <4>1
      <3>5. QED BY <3>3, <3>4
    <2>8. QED BY <2>5, <2>6, <2>7
  <1>7. ASSUME NEW t \in Tasks PROVE Whole(t)' /\ Settled(t)'
    <2>1. Whole(t) /\ Settled(t) /\ Sound(t) /\ t \in Channels
          BY TaskChannels DEF Kempt
    <2>2. /\ t \in channels' <=> t \in C
          /\ t \in C => t \notin Unknown
          /\ t \in U => t \in Unknown
          /\ bits'[t] = (IF t \in C THEN Work[t] ELSE {})
          /\ owed'[t] = (IF t \in Expired THEN {}
                         ELSE IF t \in channels THEN owed[t] \ bits[t] ELSE owed[t])
                            \cup bits'[t]
          /\ tasks' = Left \ U /\ done' = done \cup Finished \cup Expired \cup U
          BY <1>1, <2>1 DEF NextWork
    <2>3. Whole(t)'
      <3>1. faults'[t] = NoFault \/ faults'[t] = faults[t]
            BY <1>3, <2>1
      <3>2. QED BY <1>2, <2>1, <2>2, <3>1, NoFaultFields DEF Whole, Faulty
    <2>4. t \in done' => t \notin tasks' /\ t \notin C
      <3>1. t \in C => t \in tasks /\ t \notin Finished /\ t \notin Expired /\ t \notin U
            BY <2>2 DEF Available, Left
      <3>2. QED BY <2>1, <2>2, <3>1 DEF Settled, Left
    <2>5. t \in done' => faults'[t].items = {} /\ owed'[t] = {} /\ bits'[t] = {}
      <3>1. ASSUME t \in done' PROVE bits'[t] = {}
            BY <2>2, <2>4, <3>1
      <3>2. CASE t \in done
            BY <1>3, <2>1, <2>2, <3>1, <3>2, NoFaultFields DEF Settled
      <3>3. CASE t \in Expired
            BY <1>3, <2>1, <2>2, <3>1, <3>3, NoFaultFields
      <3>4. CASE t \in Finished /\ t \notin Expired
        <4>1. t \in channels /\ bits[t] = Work[t] /\ owed[t] \subseteq Work[t]
              BY <2>1, <3>4 DEF Finished, Whole
        <4>2. faults'[t].items = {}
          <5>1. CASE bits[t] # {}
                BY <1>3, <2>1, <4>1, <5>1, NoFaultFields DEF Cleared
          <5>2. CASE bits[t] = {}
            <6>1. faults[t].items = {}
                  BY <2>1, <4>1, <5>2 DEF Whole, Sound
            <6>2. QED BY <1>3, <2>1, <6>1, NoFaultFields
          <5>3. QED BY <5>1, <5>2
        <4>3. QED BY <2>2, <3>1, <3>4, <4>1, <4>2
      <3>5. CASE t \in U /\ t \notin Expired
            BY <1>4, <2>1, <2>2, <3>1, <3>5, NoFaultFields DEF Whole
      <3>6. QED BY <2>2, <3>2, <3>3, <3>4, <3>5
    <2>6. t \in tasks /\ t \notin tasks' => t \in done'
          BY <2>2 DEF Left
    <2>7. t \notin tasks =>
             /\ faults'[t].items # {} => faults[t].items # {}
             /\ owed'[t] # {} => owed[t] # {}
             /\ bits'[t] = {}
      <3>1. t \notin tasks => t \notin C
            BY DEF Available, Left
      <3>2. faults'[t].items # {} => faults[t].items # {}
            BY <1>3, <2>1, NoFaultFields
      <3>3. QED BY <2>2, <3>1, <3>2
    <2>8. t \in tasks' => t \in tasks
          BY <2>2 DEF Left
    <2>9. Settled(t)'
          BY <1>2, <2>1, <2>4, <2>5, <2>6, <2>7, <2>8 DEF Settled
    <2>10. QED BY <2>3, <2>9
  <1>8. Idle'
        BY <1>2 DEF Idle
  <1>9. QED BY <1>5, <1>6, <1>7, <1>8 DEF Kempt

LEMMA KemptPresetsDone ==
  ASSUME Typed, Kempt, PresetsDone
  PROVE  Kempt'
  <1>1. /\ TypeOK /\ phase = "presets" /\ phase' \in {"apply", "served", "lost"}
        /\ Clear(channels) /\ channels \in SUBSET Channels
        /\ UNCHANGED <<dbTasks, dbFaults, now, tasks, done>>
        BY DEF Typed, TypeOK, PresetsDone, stored
  <1>2. \/ UNCHANGED <<channels, bits, provisions>> /\ phase' # "served"
        \/ channels' = {} /\ \A c \in Channels : bits'[c] = {}
        BY DEF PresetsDone, ClearProvisions, Nothing, work
  <1>3. ASSUME NEW c \in Channels
        PROVE  /\ c \in channels => faults'[c] = NoFault /\ owed'[c] = owed[c] \ bits[c]
               /\ c \notin channels => faults'[c] = faults[c] /\ owed'[c] = owed[c]
               /\ c \notin touched' => c \notin touched /\ faults'[c].items = faults[c].items
    <2>1. Sound(c)
          BY DEF Kempt
    <2>2. /\ c \in channels => faults'[c] = NoFault
          /\ c \notin channels => faults'[c] = faults[c]
          /\ touched' = touched \cup {k \in channels : Faulty(k)}
          BY <1>1, ClearEffect
    <2>3. /\ c \in channels => owed'[c] = owed[c] \ bits[c]
          /\ c \notin channels => owed'[c] = owed[c]
          BY DEF PresetsDone, Owe
    <2>4. QED BY <2>1, <2>2, <2>3, NoFaultFields DEF Sound
  <1>4. ASSUME NEW c \in Channels PROVE Sound(c)' /\ Remembered(c)'
    <2>1. Sound(c) /\ Remembered(c)
          BY DEF Kempt
    <2>2. Sound(c)'
          BY <1>1, <1>2, <1>3, <2>1, NoFaultFields DEF Sound, Faulty
    <2>3. owed'[c] \subseteq faults'[c].items \cup (IF c \in tasks THEN Work[c] ELSE {})
      <3>1. owed[c] \subseteq bits[c] \cup faults[c].items
                                  \cup (IF c \in tasks THEN Work[c] ELSE {})
            BY <1>1, <2>1 DEF Remembered, Kept
      <3>2. CASE c \in channels
            BY <1>1, <1>3, <2>1, <3>1, <3>2 DEF Sound
      <3>3. CASE c \notin channels
            BY <1>3, <2>1, <3>1, <3>3 DEF Sound
      <3>4. QED BY <3>2, <3>3
    <2>4. Remembered(c)'
          BY <1>1, <2>3 DEF Remembered, Kept
    <2>5. QED BY <2>2, <2>4
  <1>5. ASSUME NEW t \in Tasks PROVE Whole(t)' /\ Settled(t)'
    <2>1. Whole(t) /\ Settled(t) /\ Sound(t) /\ t \in Channels
          BY TaskChannels DEF Kempt
    <2>2. /\ faults'[t] = NoFault \/ faults'[t] = faults[t]
          /\ owed'[t] \subseteq owed[t]
          /\ t \in channels' => t \in channels /\ bits'[t] = bits[t]
          /\ bits'[t] = bits[t] \/ bits'[t] = {}
          BY <1>2, <1>3, <2>1
    <2>3. Whole(t)'
          BY <1>1, <2>1, <2>2, NoFaultFields DEF Whole, Faulty
    <2>4. /\ faults'[t].items # {} => faults[t].items # {}
          /\ owed'[t] # {} => owed[t] # {}
          /\ bits'[t] # {} => bits[t] # {}
          BY <2>2, NoFaultFields
    <2>5. Settled(t)'
          BY <1>1, <2>1, <2>4 DEF Settled
    <2>6. QED BY <2>3, <2>5
  <1>6. Idle'
        BY <1>1, <1>2 DEF Idle
  <1>7. QED BY <1>4, <1>5, <1>6 DEF Kempt

\* A session is over, saved or not.
LEMMA KemptNoSession ==
  ASSUME Typed, Kempt, NoSession, now' = now,
         \A c \in Channels : /\ owed'[c] \subseteq owed[c]
                             /\ \/ dbFaults'[c] = dbFaults[c]
                                \/ dbFaults'[c].since = faults[c].since
                                   /\ dbFaults'[c].items = faults[c].items,
         \A t \in Tasks : t \in dbTasks /\ t \notin dbTasks' => t \in done,
         \A c \in Channels : owed'[c] \subseteq Kept(dbFaults', dbTasks', c)
  PROVE  Kempt'
  <1>1. /\ phase' = "closed" /\ channels' = {} /\ provisions' = {} /\ done' = {}
        /\ tasks' = {}
        /\ \A c \in Channels : bits'[c] = {} /\ faults'[c] = NoFault
        BY DEF NoSession, Nothing
  <1>2. ASSUME NEW c \in Channels PROVE Sound(c)' /\ Remembered(c)'
    <2>1. Sound(c)
          BY DEF Kempt
    <2>2. Sound(c)'
          BY <1>1, <2>1, NoFaultFields DEF Sound, Faulty
    <2>3. Remembered(c)'
          BY <1>1 DEF Remembered
    <2>4. QED BY <2>2, <2>3
  <1>3. ASSUME NEW t \in Tasks PROVE Whole(t)' /\ Settled(t)'
    <2>1. Whole(t) /\ Settled(t) /\ t \in Channels
          BY TaskChannels DEF Kempt
    <2>2. Whole(t)'
          BY <1>1, <2>1, NoFaultFields DEF Whole, Faulty
    <2>3. t \notin dbTasks' /\ owed'[t] # {} => Expiry[t] < now
      <3>1. SUFFICES ASSUME t \notin dbTasks', owed'[t] # {} PROVE Expiry[t] < now
            OBVIOUS
      <3>2. owed[t] # {}
            BY <2>1, <3>1
      <3>3. t \notin dbTasks
            BY <2>1, <3>1, <3>2 DEF Settled
      <3>4. QED BY <2>1, <3>2, <3>3 DEF Settled
    <2>4. Settled(t)'
          BY <1>1, <2>3, NoFaultFields DEF Settled
    <2>5. QED BY <2>2, <2>4
  <1>4. Idle'
        BY <1>1 DEF Idle
  <1>5. QED BY <1>2, <1>3, <1>4 DEF Kempt

\* What is written when nothing is at work any more.
LEMMA WriteEffect ==
  ASSUME Typed, Kempt, phase \in {"served", "dropped"}, NEW E \in {{}, done},
         NEW K \in SUBSET touched, Write(E, K), NEW c \in Channels
  PROVE  /\ c \in K => /\ dbFaults'[c].since = faults[c].since
                       /\ dbFaults'[c].items = faults[c].items
         /\ c \notin K => dbFaults'[c] = dbFaults[c]
         /\ owed[c] \subseteq faults[c].items
                                \cup (IF c \in tasks /\ c \in dbTasks' THEN Work[c] ELSE {})
         /\ c \notin touched => faults[c].items = dbFaults[c].items
         /\ c \in dbTasks /\ c \notin dbTasks' => owed[c] = {}
  <1>1. Sound(c) /\ Remembered(c)
        BY DEF Kempt
  <1>2. Saved(c).since = faults[c].since /\ Saved(c).items = faults[c].items
        BY <1>1 DEF Saved, NotSaved, Faulty, Sound
  <1>3. bits[c] = {}
        BY <1>1 DEF Kempt, Idle, Sound
  <1>4. /\ c \in dbTasks /\ c \notin dbTasks' => owed[c] = {}
        /\ c \in tasks => c \in dbTasks'
    <2>1. CASE c \in Tasks
      <3>1. Settled(c)
            BY <2>1 DEF Kempt
      <3>2. QED BY <3>1 DEF Settled, Write
    <2>2. CASE c \notin Tasks
          BY <2>2 DEF Typed, TypeOK
    <2>3. QED BY <2>1, <2>2
  <1>5. owed[c] \subseteq faults[c].items \cup (IF c \in tasks THEN Work[c] ELSE {})
        BY <1>1, <1>3 DEF Remembered, Kept
  <1>6. /\ c \in K => dbFaults'[c] = Saved(c)
        /\ c \notin K => dbFaults'[c] = dbFaults[c]
        BY DEF Write
  <1>7. QED BY <1>1, <1>2, <1>4, <1>5, <1>6 DEF Sound

LEMMA KemptSave ==
  ASSUME Typed, Kempt, Save
  PROVE  Kempt'
  <1>1. /\ phase \in {"served", "dropped"} /\ Write(done, touched) /\ NoSession
        /\ now' = now /\ owed' = owed
        BY DEF Save
  <1>2. \A c \in Channels :
           /\ owed'[c] \subseteq owed[c]
           /\ \/ dbFaults'[c] = dbFaults[c]
              \/ dbFaults'[c].since = faults[c].since
                 /\ dbFaults'[c].items = faults[c].items
        BY <1>1, WriteEffect
  <1>3. ASSUME NEW c \in Channels PROVE owed'[c] \subseteq Kept(dbFaults', dbTasks', c)
    <2>1. /\ owed[c] \subseteq faults[c].items
                                 \cup (IF c \in tasks /\ c \in dbTasks' THEN Work[c] ELSE {})
          /\ dbFaults'[c].items = faults[c].items
          BY <1>1, WriteEffect
    <2>2. QED BY <1>1, <2>1 DEF Kept
  <1>4. \A t \in Tasks : t \in dbTasks /\ t \notin dbTasks' => t \in done
        BY <1>1 DEF Write
  <1>5. QED BY <1>1, <1>2, <1>3, <1>4, KemptNoSession

LEMMA KemptCrash ==
  ASSUME Typed, Kempt, Crash
  PROVE  Kempt'
  <1>1. /\ phase # "closed" /\ NoSession /\ now' = now
        /\ \A c \in Channels : owed'[c] = owed[c] \cap Kept(dbFaults, dbTasks, c)
        BY DEF Crash
  <1>2. CASE UNCHANGED <<dbTasks, dbFaults>>
    <2>1. \A c \in Channels : owed'[c] \subseteq Kept(dbFaults', dbTasks', c)
          BY <1>1, <1>2 DEF Kept
    <2>2. QED BY <1>1, <1>2, <2>1, KemptNoSession
  <1>3. ASSUME phase \in {"served", "dropped"}, NEW E \in {{}, done},
               NEW K \in SUBSET touched, Write(E, K)
        PROVE  Kempt'
    <2>1. \A c \in Channels :
             /\ owed'[c] \subseteq owed[c]
             /\ \/ dbFaults'[c] = dbFaults[c]
                \/ dbFaults'[c].since = faults[c].since
                   /\ dbFaults'[c].items = faults[c].items
          BY <1>1, <1>3, WriteEffect
    <2>2. ASSUME NEW c \in Channels PROVE owed'[c] \subseteq Kept(dbFaults', dbTasks', c)
      <3>1. /\ c \in K => dbFaults'[c].items = faults[c].items
            /\ c \notin K => dbFaults'[c] = dbFaults[c]
            /\ owed[c] \subseteq faults[c].items
                                 \cup (IF c \in tasks /\ c \in dbTasks' THEN Work[c] ELSE {})
            /\ c \in dbTasks /\ c \notin dbTasks' => owed[c] = {}
            BY <1>3, WriteEffect
      <3>2. owed'[c] = owed[c] \cap (dbFaults[c].items
                                        \cup (IF c \in dbTasks THEN Work[c] ELSE {}))
            BY <1>1 DEF Kept
      <3>3. CASE c \in K
            BY <3>1, <3>2, <3>3 DEF Kept
      <3>4. CASE c \notin K
            BY <3>1, <3>2, <3>4 DEF Kept
      <3>5. QED BY <3>3, <3>4
    <2>3. \A t \in Tasks : t \in dbTasks /\ t \notin dbTasks' => t \in done
          BY <1>3 DEF Write
    <2>4. QED BY <1>1, <2>1, <2>2, <2>3, KemptNoSession
  <1>4. QED BY <1>2, <1>3 DEF Crash

LEMMA KemptNext ==
  ASSUME Typed, Kempt, [Next]_vars
  PROVE  Kempt'
  <1>1. CASE Load
        BY <1>1, KemptLoad
  <1>2. CASE NextRpc
        BY <1>2, KemptFaults, KemptQuiet, KemptNextDone DEF NextRpc
  <1>3. CASE ApplyPresets
        BY <1>3, KemptFetch, KemptApply, KemptLoop, KemptFaults, KemptQuiet, KemptPresetsDone
        DEF ApplyPresets
  <1>4. CASE Device
        BY <1>4, KemptQuiet, KemptFaults, KemptTerminate DEF Device
  <1>5. CASE Save \/ Crash
        BY <1>5, KemptSave, KemptCrash
  <1>6. CASE UNCHANGED vars
        BY <1>6, KemptQuiet
  <1>7. QED BY <1>1, <1>2, <1>3, <1>4, <1>5, <1>6 DEF Next

\* Whatever fails, and whichever writes of endSession are done when the worker dies: the
\* provisions that were begun for a channel and not completed are still known.
THEOREM NothingIsDropped == Spec => []NothingDropped
  <1>1. ASSUME Kempt PROVE NothingDropped
    <2>1. ASSUME NEW c \in Channels
          PROVE  owed[c] \subseteq IF phase = "closed" THEN Kept(dbFaults, dbTasks, c)
                                   ELSE bits[c] \cup Kept(faults, tasks, c)
      <3>1. Remembered(c)
            BY <1>1 DEF Kempt
      <3>2. QED BY <3>1 DEF Remembered
    <2>2. QED BY <2>1 DEF NothingDropped
  <1>2. Typed /\ Kempt /\ [Next]_vars => Kempt'
        BY KemptNext
  <1>3. Spec => []Kempt
        BY <1>2, KemptInit, TypedAlways, PTL DEF Spec
  <1>4. QED BY <1>1, <1>3, PTL
=============================================================================
