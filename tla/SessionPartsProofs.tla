------------------------- MODULE SessionPartsProofs -------------------------
(***************************************************************************)
(* What is proved of four parts of a session that share nothing: its       *)
(* operations (Operations), the tags of its device (Persistence), its      *)
(* scripts (Scripts) and its declarations (Discovery); the last three are  *)
(* instances in SessionParts, with definitions that begin with Pers!, Box! *)
(* and Disc!.  Each part is proved on its own, and then of the whole.      *)
(*                                                                         *)
(* No download is forgotten, and one that a preset asks for is not asked   *)
(* for again when it has succeeded, for any times and any number of        *)
(* sessions that are lost.  Both hang on what Download, the time of the    *)
(* last request, says: it is the time of a success, or of the operation    *)
(* that was begun last and is still under way.                             *)
(*                                                                         *)
(* Tags that administrators change while a session has the device are      *)
(* kept.  It hangs on the two steps that save them: neither touches a tag  *)
(* that the session has left alone.                                        *)
(*                                                                         *)
(* A script logs each line once, for any scripts and answers and however   *)
(* often it is run.  It hangs on where the calls are counted from: below 0 *)
(* by as many as the script had made when it waited, so that the count is  *)
(* negative just where it has logged already.                              *)
(*                                                                         *)
(* What is to be written is known, for any declarations and devices.  It   *)
(* hangs on the trackers: every parameter that is to be written is the     *)
(* target of a declaration, which tracks it, and nothing is forgotten in   *)
(* silence: whatever a response takes away, its clear tells the trackers,  *)
(* and then the declarations are run again before anything is written.     *)
(* Clears, trackers and declarations are folds over sets and sequences;    *)
(* what a fold keeps is what its step keeps (FoldFacts).                   *)
(***************************************************************************)
EXTENDS SessionParts, FiniteSetTheorems, WellFoundedInduction, TLAPS

Maps(D, R) == UNION {[S -> R] : S \in SUBSET D}
Retries == Maps(Channels, Nat)
Keys == Nat \X Channels
Transfers == [at: Nat, channel: Channels, retries: Retries]
Downloads == [key: Keys, channel: Channels, at: Nat, nth: Nat]
Devices == [download: Nat, last: Nat, operations: Maps(Keys, Transfers),
            faults: Maps(Channels, [at: Nat, retries: Nat]), task: BOOLEAN,
            sent: SUBSET Downloads, done: SUBSET Nat, overlap: BOOLEAN]
InSession == [on: {TRUE}, empty: BOOLEAN, d: Devices, retries: Retries]

TypeInv ==
    /\ clock \in Nat \ {0}
    /\ db \in Devices
    /\ ctx \in InSession \cup {NoSession}

-----------------------------------------------------------------------------
\* Maps

\* A map with one more key, and without some.
LEMMA MapWith ==
  ASSUME NEW D, NEW R, NEW f \in Maps(D, R), NEW x \in D, NEW v \in R
  PROVE  /\ With(f, x, v) \in Maps(D, R) /\ DOMAIN With(f, x, v) = DOMAIN f \cup {x}
         /\ With(f, x, v)[x] = v
         /\ \A y \in DOMAIN f \ {x} : With(f, x, v)[y] = f[y]
  <1> DEFINE g == With(f, x, v)
  <1>1. DOMAIN f \subseteq D /\ \A y \in DOMAIN f : f[y] \in R
        BY DEF Maps
  <1>2. g = [y \in DOMAIN f \cup {x} |-> IF y = x THEN v ELSE f[y]]
        BY DEF With, Over
  <1>3. g \in [DOMAIN f \cup {x} -> R]
        BY <1>1, <1>2
  <1>4. QED BY <1>1, <1>2, <1>3 DEF Maps

LEMMA MapWithout ==
  ASSUME NEW D, NEW R, NEW f \in Maps(D, R), NEW S
  PROVE  /\ Without(f, S) \in Maps(D, R) /\ DOMAIN Without(f, S) = DOMAIN f \ S
         /\ \A y \in DOMAIN f \ S : Without(f, S)[y] = f[y]
  <1>1. DOMAIN f \subseteq D /\ \A y \in DOMAIN f : f[y] \in R
        BY DEF Maps
  <1>2. Without(f, S) \in [DOMAIN f \ S -> R]
        BY <1>1 DEF Without
  <1>3. QED BY <1>1, <1>2 DEF Maps, Without

\* So it is of faults and of operations.
LEMMA FaultWith ==
  ASSUME NEW f \in Maps(Channels, [at: Nat, retries: Nat]), NEW c \in Channels,
         NEW v \in [at: Nat, retries: Nat]
  PROVE  /\ With(f, c, v) \in Maps(Channels, [at: Nat, retries: Nat])
         /\ DOMAIN With(f, c, v) = DOMAIN f \cup {c}
  <1>1. PICK R : R = [at: Nat, retries: Nat]
        OBVIOUS
  <1>2. f \in Maps(Channels, R) /\ c \in Channels /\ v \in R
        BY <1>1
  <1>3. With(f, c, v) \in Maps(Channels, R)
        BY ONLY <1>2, MapWith, Zenon
  <1>4. DOMAIN With(f, c, v) = DOMAIN f \cup {c}
        BY DEF With, Over
  <1>5. QED BY <1>1, <1>3, <1>4

LEMMA FaultWithout ==
  ASSUME NEW f \in Maps(Channels, [at: Nat, retries: Nat]), NEW S
  PROVE  /\ Without(f, S) \in Maps(Channels, [at: Nat, retries: Nat])
         /\ DOMAIN Without(f, S) = DOMAIN f \ S
  <1>1. PICK R : R = [at: Nat, retries: Nat]
        OBVIOUS
  <1>2. f \in Maps(Channels, R)
        BY <1>1
  <1>3. Without(f, S) \in Maps(Channels, R)
        BY ONLY <1>2, MapWithout
  <1>4. DOMAIN Without(f, S) = DOMAIN f \ S
        BY DEF Without
  <1>5. QED BY <1>1, <1>3, <1>4

LEMMA OperationWith ==
  ASSUME NEW f \in Maps(Keys, Transfers), NEW k \in Keys, NEW o \in Transfers
  PROVE  With(f, k, o) \in Maps(Keys, Transfers)
  BY ONLY f \in Maps(Keys, Transfers), k \in Keys, o \in Transfers, MapWith, Zenon

\* Two maps, one over the other.
LEMMA MapOver ==
  ASSUME NEW D, NEW R, NEW f \in Maps(D, R), NEW h \in Maps(D, R)
  PROVE  Over(h, f) \in Maps(D, R)
  <1>1. DOMAIN f \subseteq D /\ \A y \in DOMAIN f : f[y] \in R
        BY DEF Maps
  <1>2. DOMAIN h \subseteq D /\ \A y \in DOMAIN h : h[y] \in R
        BY DEF Maps
  <1>3. Over(h, f) \in [DOMAIN h \cup DOMAIN f -> R]
        BY <1>1, <1>2 DEF Over
  <1>4. QED BY <1>1, <1>2, <1>3 DEF Maps

-----------------------------------------------------------------------------
\* What the steps of a session make of it

\* Once more, but for the parts named: what a session has of the device.
LEMMA SessionType ==
  ASSUME NEW x \in InSession
  PROVE  /\ x.on /\ x.empty \in BOOLEAN /\ x.retries \in Retries /\ x.d \in Devices
         /\ x.d.download \in Nat /\ x.d.last \in Nat /\ x.d.operations \in Maps(Keys, Transfers)
         /\ x.d.faults \in Maps(Channels, [at: Nat, retries: Nat]) /\ x.d.task \in BOOLEAN
         /\ x.d.sent \subseteq Downloads /\ x.d.done \subseteq Nat /\ x.d.overlap \in BOOLEAN
  <1>1. x.d \in Devices
        BY DEF InSession
  <1>2. QED BY <1>1 DEF InSession, Devices

\* A device keeps its type when its operations, its Download and what was sent change.
LEMMA DeviceWith ==
  ASSUME NEW d \in Devices, NEW ops \in Maps(Keys, Transfers), NEW t \in Nat,
         NEW sent \in SUBSET Downloads, NEW overlap \in BOOLEAN
  PROVE  /\ [d EXCEPT !.operations = ops, !.download = t] \in Devices
         /\ [d EXCEPT !.download = t, !.operations = ops, !.sent = sent,
                      !.overlap = overlap] \in Devices
  <1>1. PICK M, F, S, N :
           M = Maps(Keys, Transfers) /\ F = Maps(Channels, [at: Nat, retries: Nat])
           /\ S = SUBSET Downloads /\ N = SUBSET Nat
        OBVIOUS
  <1>2. Devices = [download: Nat, last: Nat, operations: M, faults: F, task: BOOLEAN,
                   sent: S, done: N, overlap: BOOLEAN]
        BY <1>1 DEF Devices
  <1>3. ops \in M /\ sent \in S
        BY <1>1
  <1>4. [d EXCEPT !.operations = ops, !.download = t] \in Devices
        BY ONLY d \in Devices, t \in Nat, <1>2, <1>3
  <1>5. [d EXCEPT !.download = t, !.operations = ops, !.sent = sent,
                  !.overlap = overlap] \in Devices
        BY ONLY d \in Devices, t \in Nat, overlap \in BOOLEAN, <1>2, <1>3
  <1>6. QED BY <1>4, <1>5

LEMMA RecordFaultResult ==
  ASSUME NEW x \in InSession, NEW c \in Channels, NEW at \in Nat,
         NEW y, y = RecordFault(x, c, at)
  PROVE  /\ y \in InSession /\ y.empty = x.empty
         /\ DOMAIN y.d.faults = DOMAIN x.d.faults \cup {c}
         /\ y.d = [x.d EXCEPT !.faults = y.d.faults]
  <1> DEFINE n == IF c \in DOMAIN x.retries THEN x.retries[c] + 1 ELSE 0
             rs == With(x.retries, c, n)
             fs == With(x.d.faults, c, [at |-> at, retries |-> n])
  <1>1. n \in Nat
        BY SessionType DEF Retries, Maps
  <1> HIDE DEF n
  <1>2. rs \in Retries
    <2>1. x.retries \in Maps(Channels, Nat)
          BY SessionType DEF Retries
    <2>2. QED BY <1>1, <2>1, MapWith DEF Retries
  <1>3. fs \in Maps(Channels, [at: Nat, retries: Nat]) /\ DOMAIN fs = DOMAIN x.d.faults \cup {c}
    <2>1. x.d.faults \in Maps(Channels, [at: Nat, retries: Nat])
          BY SessionType
    <2>2. PICK v \in [at: Nat, retries: Nat] : v = [at |-> at, retries |-> n]
          BY <1>1
    <2>3. fs = With(x.d.faults, c, v)
          BY <2>2
    <2> HIDE DEF fs
    <2>4. QED BY <2>1, <2>3, FaultWith
  <1>4. y = [x EXCEPT !.retries = rs, !.d.faults = fs]
        BY DEF RecordFault, n
  <1> HIDE DEF rs, fs
  <1>5. y.retries = rs /\ y.d = [x.d EXCEPT !.faults = fs] /\ y.empty = x.empty
        BY <1>4 DEF InSession
  <1>6. y.d.faults = fs /\ y.d \in Devices
        BY <1>3, <1>5, SessionType DEF Devices
  <1>7. y \in InSession
        BY <1>2, <1>4, <1>6 DEF InSession
  <1>8. QED BY <1>3, <1>5, <1>6, <1>7

\* A transfer that has failed leaves a fault of its channel, and Download is as it was at
\* the last success.
FailsAs(x, k, y, c) ==
  /\ y \in InSession /\ y.empty = x.empty
  /\ DOMAIN y.d.faults = DOMAIN x.d.faults \cup {c}
  /\ y.d.operations = Without(x.d.operations, {k})
  /\ y.d.download = x.d.last /\ y.d.last = x.d.last
  /\ y.d.sent = x.d.sent /\ y.d.done = x.d.done /\ y.d.overlap = x.d.overlap

LEMMA FailResult ==
  ASSUME NEW x \in InSession, NEW k \in DOMAIN x.d.operations
  PROVE  FailsAs(x, k, Fail(x, k), x.d.operations[k].channel)
  <1> SUFFICES ASSUME NEW y, y = Fail(x, k), NEW c, c = x.d.operations[k].channel
               PROVE  FailsAs(x, k, y, c)
      OBVIOUS
  <1> DEFINE o == x.d.operations[k]
             ops == Without(x.d.operations, {k})
             rs == Over(o.retries, x.retries)
             z == Revert([x EXCEPT !.d.operations = ops, !.retries = rs])
  <1>1. o \in Transfers
        BY SessionType DEF Maps
  <1>2. ops \in Maps(Keys, Transfers) /\ rs \in Retries
        BY <1>1, SessionType, MapWithout, MapOver DEF Transfers, Retries
  <1>3. y = RecordFault(z, c, o.at) /\ c \in Channels /\ o.at \in Nat
        BY <1>1 DEF Fail, Transfers
  <1> HIDE DEF ops, rs
  <1>4. z.d = [x.d EXCEPT !.operations = ops, !.download = x.d.last] /\ z.empty = x.empty
        BY DEF Revert, InSession, Devices
  <1>5. z \in InSession
    <2>1. z.d \in Devices
      <3>1. x.d \in Devices /\ x.d.last \in Nat
            BY SessionType
      <3>2. [x.d EXCEPT !.operations = ops, !.download = x.d.last] \in Devices
            BY <1>2, <3>1, DeviceWith
      <3>3. QED BY <1>4, <3>2
    <2>2. QED BY <1>2, <2>1 DEF InSession, Revert
  <1> HIDE DEF z, o
  <1>6. /\ y \in InSession /\ y.empty = z.empty /\ y.d = [z.d EXCEPT !.faults = y.d.faults]
        /\ DOMAIN y.d.faults = DOMAIN z.d.faults \cup {c}
        BY <1>3, <1>5, RecordFaultResult
  <1>7. /\ z.d.operations = ops /\ z.d.download = x.d.last /\ z.d.last = x.d.last
        /\ z.d.sent = x.d.sent /\ z.d.done = x.d.done /\ z.d.overlap = x.d.overlap
        /\ z.d.faults = x.d.faults
        BY <1>4, SessionType DEF Devices
  <1>8. /\ y.d.operations = z.d.operations /\ y.d.download = z.d.download
        /\ y.d.last = z.d.last /\ y.d.sent = z.d.sent /\ y.d.done = z.d.done
        /\ y.d.overlap = z.d.overlap
        BY <1>5, <1>6, SessionType DEF Devices
  <1>9. QED BY <1>4, <1>6, <1>7, <1>8 DEF ops, FailsAs

\* One that has succeeded is the last success.
SucceedsAs(x, k, y, at) ==
  /\ y \in InSession /\ y.empty = x.empty
  /\ y.d.operations = Without(x.d.operations, {k})
  /\ y.d.last = at /\ y.d.done = x.d.done \cup {at}
  /\ y.d.download = x.d.download /\ y.d.faults = x.d.faults
  /\ y.d.sent = x.d.sent /\ y.d.overlap = x.d.overlap

LEMMA SucceedResult ==
  ASSUME NEW x \in InSession, NEW k \in DOMAIN x.d.operations
  PROVE  SucceedsAs(x, k, Succeed(x, k), x.d.operations[k].at)
  <1> SUFFICES ASSUME NEW y, y = Succeed(x, k), NEW at, at = x.d.operations[k].at
               PROVE  SucceedsAs(x, k, y, at)
      OBVIOUS
  <1> DEFINE ops == Without(x.d.operations, {k})
  <1>1. at \in Nat
        BY SessionType DEF Maps, Transfers
  <1>2. ops \in Maps(Keys, Transfers)
        BY SessionType, MapWithout
  <1> HIDE DEF ops
  <1>3. /\ y.d = [x.d EXCEPT !.operations = ops, !.last = at, !.done = x.d.done \cup {at}]
        /\ y = [x EXCEPT !.d = y.d]
        BY DEF Succeed, InSession, Devices, ops
  <1>4. y.d \in Devices
    <2>1. x.d.done \cup {at} \subseteq Nat
          BY <1>1, SessionType
    <2>2. x.d \in Devices
          BY SessionType
    <2>3. QED BY <1>1, <1>2, <1>3, <2>1, <2>2 DEF Devices
  <1>5. y \in InSession /\ y.empty = x.empty
        BY <1>3, <1>4 DEF InSession
  <1>6. QED BY <1>3, <1>4, <1>5, SessionType DEF Devices, ops, SucceedsAs

LEMMA DoneResult ==
  ASSUME NEW x \in InSession, NEW c \in Channels, NEW y, y = Done(x, c)
  PROVE  /\ y \in InSession /\ y.empty = x.empty
         /\ DOMAIN y.d.faults = DOMAIN x.d.faults \ {c}
         /\ y.d.operations = x.d.operations /\ y.d.download = x.d.download
         /\ y.d.last = x.d.last /\ y.d.sent = x.d.sent /\ y.d.done = x.d.done
         /\ y.d.overlap = x.d.overlap
  <1> DEFINE fs == Without(x.d.faults, {c})
             task == x.d.task /\ c # Task
  <1>1. fs \in Maps(Channels, [at: Nat, retries: Nat]) /\ DOMAIN fs = DOMAIN x.d.faults \ {c}
    <2>1. x.d.faults \in Maps(Channels, [at: Nat, retries: Nat])
          BY SessionType
    <2>2. QED BY ONLY <2>1, FaultWithout, Zenon
  <1>2. task \in BOOLEAN
        BY SessionType
  <1>3. y = [x EXCEPT !.d.faults = fs, !.d.task = task]
        BY DEF Done
  <1> HIDE DEF fs, task
  <1>4. y.d = [x.d EXCEPT !.faults = fs, !.task = task] /\ y = [x EXCEPT !.d = y.d]
        BY <1>3 DEF InSession, Devices
  <1>5. y.d \in Devices
        BY <1>1, <1>2, <1>4, SessionType DEF Devices
  <1>6. y \in InSession /\ y.empty = x.empty
        BY <1>4, <1>5 DEF InSession
  <1>7. QED BY <1>1, <1>4, <1>5, <1>6, SessionType DEF Devices

\* A download that the device will report is an operation.
LEMMA StartedResult ==
  ASSUME clock \in Nat, NEW x \in InSession, NEW c \in Channels, NEW y, y = Started(x, c),
         IsFiniteSet(x.d.sent), NEW k, k = Key(c)
  PROVE  /\ y \in InSession /\ y.empty = x.empty
         /\ DOMAIN y.d.operations = DOMAIN x.d.operations \cup {k}
         /\ y.d.operations[k].at = clock /\ y.d.operations[k].channel = c
         /\ \A l \in DOMAIN x.d.operations \ {k} : y.d.operations[l] = x.d.operations[l]
         /\ y.d.sent = x.d.sent \cup {Download(x, c)}
         /\ y.d.overlap = (x.d.overlap \/ DOMAIN x.d.operations # {})
         /\ y.d.download = clock /\ y.d.last = x.d.last /\ y.d.done = x.d.done
         /\ y.d.faults = x.d.faults
  <1> DEFINE o == Operation(x, c)
             ops == With(x.d.operations, k, o)
             sent == x.d.sent \cup {Download(x, c)}
             overlap == x.d.overlap \/ DOMAIN x.d.operations # {}
  <1>1. k \in Keys
        BY DEF Key, Keys
  <1>2. o \in Transfers /\ o.at = clock /\ o.channel = c
    <2>1. [e \in {c} \cap DOMAIN x.retries |-> x.retries[e]] \in Retries
      <3>1. \A e \in DOMAIN x.retries : x.retries[e] \in Nat
            BY SessionType DEF Retries, Maps
      <3>2. [e \in {c} \cap DOMAIN x.retries |-> x.retries[e]] \in
               [{c} \cap DOMAIN x.retries -> Nat]
            BY <3>1
      <3>3. QED BY <3>2 DEF Retries, Maps
    <2>2. QED BY <2>1 DEF Operation, Transfers
  <1> HIDE DEF o
  <1>3. /\ ops \in Maps(Keys, Transfers) /\ DOMAIN ops = DOMAIN x.d.operations \cup {k}
        /\ ops[k] = o /\ \A l \in DOMAIN x.d.operations \ {k} : ops[l] = x.d.operations[l]
    <2>1. x.d.operations \in Maps(Keys, Transfers)
          BY SessionType
    <2>2. ops \in Maps(Keys, Transfers)
          BY <1>1, <1>2, <2>1, OperationWith
    <2>3. DOMAIN ops = DOMAIN x.d.operations \cup {k} /\ ops[k] = o
          BY DEF With, Over
    <2>4. \A l \in DOMAIN x.d.operations \ {k} : ops[l] = x.d.operations[l]
          BY DEF With, Over
    <2>5. QED BY <2>2, <2>3, <2>4
  <1>4. sent \subseteq Downloads
    <2>1. Cardinality(x.d.sent) + 1 \in Nat
          BY FS_CardinalityType
    <2>2. QED BY <1>1, <2>1, SessionType DEF Download, Downloads, Key
  <1>5. overlap \in BOOLEAN
        BY SessionType
  <1>6. y = [x EXCEPT !.d.download = clock, !.d.operations = ops, !.d.sent = sent,
                      !.d.overlap = overlap]
        BY DEF Started, o
  <1> HIDE DEF ops, sent, overlap
  <1>7. /\ y.d = [x.d EXCEPT !.download = clock, !.operations = ops, !.sent = sent,
                             !.overlap = overlap]
        /\ y = [x EXCEPT !.d = y.d]
        BY <1>6 DEF InSession, Devices
  <1>8. y.d \in Devices
    <2>1. x.d \in Devices
          BY SessionType
    <2>2. [x.d EXCEPT !.download = clock, !.operations = ops, !.sent = sent,
                      !.overlap = overlap] \in Devices
          BY <1>3, <1>4, <1>5, <2>1, DeviceWith
    <2>3. QED BY <1>7, <2>2
  <1>9. y \in InSession /\ y.empty = x.empty
        BY <1>7, <1>8 DEF InSession
  <1>10. /\ y.d.operations = ops /\ y.d.sent = sent /\ y.d.overlap = overlap
         /\ y.d.download = clock /\ y.d.last = x.d.last /\ y.d.done = x.d.done
         /\ y.d.faults = x.d.faults
        BY <1>7, <1>8, SessionType DEF Devices
  <1>11. QED BY <1>2, <1>3, <1>9, <1>10 DEF sent, overlap

LEMMA DownloadedResult ==
  ASSUME clock \in Nat, NEW x \in InSession, NEW y, y = Downloaded(x)
  PROVE  /\ y \in InSession /\ y.empty = x.empty
         /\ y.d.download = clock /\ y.d.last = clock /\ y.d.done = x.d.done \cup {clock}
         /\ y.d.operations = x.d.operations /\ y.d.faults = x.d.faults
         /\ y.d.sent = x.d.sent /\ y.d.overlap = x.d.overlap
  <1>1. /\ y.d = [x.d EXCEPT !.download = clock, !.last = clock, !.done = x.d.done \cup {clock}]
        /\ y = [x EXCEPT !.d = y.d]
        BY DEF Downloaded, InSession, Devices
  <1>2. y.d \in Devices
    <2>1. x.d.done \cup {clock} \subseteq Nat
          BY SessionType
    <2>2. x.d \in Devices
          BY SessionType
    <2>3. QED BY <1>1, <2>1, <2>2 DEF Devices
  <1>3. y \in InSession /\ y.empty = x.empty
        BY <1>1, <1>2 DEF InSession
  <1>4. QED BY <1>1, <1>2, <1>3, SessionType DEF Devices

-----------------------------------------------------------------------------
\* What is known of the device

\* The key of an operation tells its time and channel, and a preset begins none
\* before its time.
Keyed(d, moment) ==
    /\ \A k \in DOMAIN d.operations :
          /\ k = <<d.operations[k].at, d.operations[k].channel>>
          /\ d.operations[k].at <= moment
          /\ d.operations[k].channel = Preset => d.operations[k].at >= DeclaredAt
    /\ \A s \in d.sent :
          /\ s.key = <<s.at, s.channel>> /\ s.at <= moment
          /\ s.channel = Preset => s.at >= DeclaredAt
    /\ \A t \in d.done : t <= moment
    /\ IsFiniteSet(d.sent)
    /\ \A s \in d.sent : s.nth <= Cardinality(d.sent) /\ \A r \in d.sent : r.nth = s.nth => r = s

\* Download is the time of a success, or of the operation that was begun last and is
\* still under way.
Begun(d) ==
    \/ d.download \in {0} \cup d.done
    \/ \E r \in d.sent : /\ r.key \in DOMAIN d.operations /\ r.at = d.download
                         /\ \A s \in d.sent : s.nth <= r.nth
Marked(d) == d.last \in {0} \cup d.done /\ Begun(d)

AccountedIn(d, s) ==
    \/ s.key \in DOMAIN d.operations
    \/ s.channel \in DOMAIN d.faults
    \/ \E t \in d.done : t >= IF s.channel = Task THEN s.at ELSE DeclaredAt
    \/ \E r \in d.sent : r.nth > s.nth
AllAccounted(d) == \A s \in d.sent : AccountedIn(d, s)

\* Unless two were under way at once, Download tells of every operation and of every success
\* of a preset, so the preset wants none.
Single(d) ==
    ~d.overlap =>
        /\ \A k, l \in DOMAIN d.operations : k = l
        /\ \A k \in DOMAIN d.operations : d.operations[k].at <= d.download
        /\ d.last >= DeclaredAt => d.download >= DeclaredAt

Known(d, moment) ==
    d.download <= moment /\ Keyed(d, moment) /\ Marked(d) /\ AllAccounted(d) /\ Single(d)

\* Accounted speaks of what is saved; it is kept because it holds of what the session has,
\* too.
DownloadInv == TypeInv /\ Known(db, clock) /\ (ctx.on => Known(ctx.d, clock))

LEMMA OnIsInSession == TypeInv /\ ctx.on => ctx \in InSession
  <1>1. ~NoSession.on
        BY DEF NoSession
  <1>2. QED BY <1>1 DEF TypeInv

-----------------------------------------------------------------------------
\* The steps of a session keep it

LEMMA OperationType ==
  ASSUME NEW d \in Devices, NEW k \in DOMAIN d.operations
  PROVE  d.operations[k].at \in Nat /\ d.operations[k].channel \in Channels
  <1>1. d.operations \in Maps(Keys, Transfers)
        BY DEF Devices
  <1>2. QED BY <1>1 DEF Maps, Transfers

LEMMA SentType ==
  ASSUME NEW d \in Devices, NEW s \in d.sent
  PROVE  s.key \in Keys /\ s.channel \in Channels /\ s.at \in Nat /\ s.nth \in Nat
  <1>1. d.sent \subseteq Downloads
        BY DEF Devices
  <1>2. QED BY <1>1 DEF Downloads

LEMMA KnownFail ==
  ASSUME clock \in Nat, NEW x \in InSession, Known(x.d, clock), NEW k \in DOMAIN x.d.operations,
         NEW y, y = Fail(x, k)
  PROVE  Known(y.d, clock)
  <1> DEFINE ops == x.d.operations
             c == ops[k].channel
  <1>1. /\ DOMAIN y.d.faults = DOMAIN x.d.faults \cup {c}
        /\ y.d.operations = Without(ops, {k})
        /\ y.d.download = x.d.last /\ y.d.last = x.d.last
        /\ y.d.sent = x.d.sent /\ y.d.done = x.d.done /\ y.d.overlap = x.d.overlap
        BY FailResult DEF FailsAs
  <1>2. /\ DOMAIN y.d.operations = DOMAIN ops \ {k}
        /\ \A l \in DOMAIN y.d.operations : y.d.operations[l] = ops[l]
        BY <1>1 DEF Without
  <1>3. y.d.download <= clock
    <2>1. x.d.last \in {0} \cup x.d.done
          BY DEF Known, Marked
    <2>2. QED BY <1>1, <2>1 DEF Known, Keyed
  <1>4. Keyed(y.d, clock)
        BY <1>1, <1>2 DEF Known, Keyed
  <1>5. Marked(y.d)
        BY <1>1 DEF Known, Marked, Begun
  <1>6. AllAccounted(y.d)
    <2>1. SUFFICES ASSUME NEW s \in x.d.sent PROVE AccountedIn(y.d, s)
          BY <1>1 DEF AllAccounted
    <2>2. AccountedIn(x.d, s)
          BY DEF Known, AllAccounted
    <2>3. CASE s.key = k
      <3>1. k = <<s.at, s.channel>> /\ k = <<ops[k].at, c>>
            BY <2>3 DEF Known, Keyed
      <3>2. s.channel = c
            BY <3>1
      <3>3. QED BY <1>1, <3>2 DEF AccountedIn
    <2>4. CASE s.key # k
          BY <1>1, <1>2, <2>2, <2>4 DEF AccountedIn
    <2>5. QED BY <2>3, <2>4
  <1>7. Single(y.d)
        BY <1>1, <1>2 DEF Known, Single
  <1>8. QED BY <1>3, <1>4, <1>5, <1>6, <1>7 DEF Known

LEMMA KnownSucceed ==
  ASSUME clock \in Nat, NEW x \in InSession, Known(x.d, clock), NEW k \in DOMAIN x.d.operations,
         NEW y, y = Succeed(x, k)
  PROVE  Known(y.d, clock)
  <1> DEFINE ops == x.d.operations
  <1>a. PICK at : at = ops[k].at
        OBVIOUS
  <1>1. /\ y.d.operations = Without(ops, {k})
        /\ y.d.last = at /\ y.d.done = x.d.done \cup {at}
        /\ y.d.download = x.d.download /\ y.d.faults = x.d.faults
        /\ y.d.sent = x.d.sent /\ y.d.overlap = x.d.overlap
        BY <1>a, SucceedResult DEF SucceedsAs
  <1>2. /\ DOMAIN y.d.operations = DOMAIN ops \ {k}
        /\ \A l \in DOMAIN y.d.operations : y.d.operations[l] = ops[l]
        BY <1>1 DEF Without
  <1>3. /\ at \in Nat /\ at <= clock /\ k = <<at, ops[k].channel>>
        /\ ops[k].channel = Preset => at >= DeclaredAt
        BY <1>a, SessionType, OperationType DEF Known, Keyed
  <1>4. \A s \in x.d.sent : s.key = k => s.at = at /\ s.channel = ops[k].channel
    <2>1. SUFFICES ASSUME NEW s \in x.d.sent, s.key = k
                   PROVE  s.at = at /\ s.channel = ops[k].channel
          OBVIOUS
    <2>2. s.key = <<s.at, s.channel>>
          BY DEF Known, Keyed
    <2>3. QED BY <1>3, <2>1, <2>2
  <1>5. Keyed(y.d, clock)
        BY <1>1, <1>2, <1>3 DEF Known, Keyed
  <1>6. Marked(y.d)
        BY <1>1, <1>2, <1>4 DEF Known, Marked, Begun
  <1>7. AllAccounted(y.d)
    <2>1. SUFFICES ASSUME NEW s \in x.d.sent PROVE AccountedIn(y.d, s)
          BY <1>1 DEF AllAccounted
    <2>2. AccountedIn(x.d, s)
          BY DEF Known, AllAccounted
    <2>3. CASE s.key = k
      <3>1. s.at = at /\ s.channel = ops[k].channel
            BY <1>4, <2>3
      <3>2. ops[k].channel \in Channels
            BY SessionType, OperationType
      <3>3. at >= IF s.channel = Task THEN s.at ELSE DeclaredAt
            BY <1>3, <3>1, <3>2 DEF Channels
      <3>4. QED BY <1>1, <3>3 DEF AccountedIn
    <2>4. CASE s.key # k
          BY <1>1, <1>2, <2>2, <2>4 DEF AccountedIn
    <2>5. QED BY <2>3, <2>4
  <1>8. Single(y.d)
    <2>1. SUFFICES ASSUME ~x.d.overlap PROVE Single(y.d)
          BY <1>1 DEF Single
    <2>2. /\ \A l, m \in DOMAIN ops : l = m
          /\ at <= x.d.download
          BY <1>a, <2>1 DEF Known, Single
    <2>3. DOMAIN y.d.operations = {}
          BY <1>2, <2>2
    <2>4. at >= DeclaredAt => x.d.download >= DeclaredAt
          BY <1>3, <2>2, SessionType, OperationsAssumption
    <2>5. QED BY <1>1, <2>3, <2>4 DEF Single
  <1>9. QED BY <1>1, <1>5, <1>6, <1>7, <1>8 DEF Known

LEMMA KnownRecordFault ==
  ASSUME clock \in Nat, NEW x \in InSession, Known(x.d, clock), NEW c \in Channels,
         NEW y, y = RecordFault(x, c, clock)
  PROVE  Known(y.d, clock)
  <1>1. /\ DOMAIN y.d.faults = DOMAIN x.d.faults \cup {c}
        /\ y.d = [x.d EXCEPT !.faults = y.d.faults]
        BY RecordFaultResult
  <1>2. /\ y.d.operations = x.d.operations /\ y.d.download = x.d.download
        /\ y.d.last = x.d.last /\ y.d.sent = x.d.sent /\ y.d.done = x.d.done
        /\ y.d.overlap = x.d.overlap
        BY <1>1, SessionType DEF Devices
  <1>3. Keyed(y.d, clock) /\ Marked(y.d) /\ Single(y.d) /\ y.d.download <= clock
        BY <1>2 DEF Known, Keyed, Marked, Begun, Single
  <1>4. AllAccounted(y.d)
        BY <1>1, <1>2 DEF Known, AllAccounted, AccountedIn
  <1>5. QED BY <1>3, <1>4 DEF Known

\* A channel may be done when nothing needs its fault.
LEMMA KnownDone ==
  ASSUME clock \in Nat, NEW x \in InSession, Known(x.d, clock), NEW c \in Channels,
         \A s \in x.d.sent : s.channel = c =>
            \/ s.key \in DOMAIN x.d.operations
            \/ \E t \in x.d.done : t >= IF s.channel = Task THEN s.at ELSE DeclaredAt
            \/ \E r \in x.d.sent : r.nth > s.nth,
         NEW y, y = Done(x, c)
  PROVE  Known(y.d, clock)
  <1>1. /\ DOMAIN y.d.faults = DOMAIN x.d.faults \ {c}
        /\ y.d.operations = x.d.operations /\ y.d.download = x.d.download
        /\ y.d.last = x.d.last /\ y.d.sent = x.d.sent /\ y.d.done = x.d.done
        /\ y.d.overlap = x.d.overlap
        BY DoneResult
  <1>2. Keyed(y.d, clock) /\ Marked(y.d) /\ Single(y.d) /\ y.d.download <= clock
        BY <1>1 DEF Known, Keyed, Marked, Begun, Single
  <1>3. AllAccounted(y.d)
        BY <1>1 DEF Known, AllAccounted, AccountedIn
  <1>4. QED BY <1>2, <1>3 DEF Known

\* What is not wanted has been downloaded since, or is under way.
LEMMA KnownNotWanted ==
  ASSUME DownloadInv, NEW c \in Channels, NotWanted(c)
  PROVE  Known(ctx'.d, clock)
  <1>1. ctx \in InSession /\ clock \in Nat \ {0} /\ Known(ctx.d, clock) /\ ctx' = Done(ctx, c)
    <2>1. ctx.on /\ ctx' = Done(ctx, c)
          BY DEF NotWanted, Turn
    <2>2. QED BY <2>1, OnIsInSession DEF DownloadInv, TypeInv
  <1> DEFINE d == ctx.d
  <1>2. d.download \in Nat /\ DeclaredAt \in Nat \ {0} /\ d.done \subseteq Nat /\ d \in Devices
        BY <1>1, SessionType, OperationsAssumption
  <1>3. SUFFICES ASSUME NEW s \in d.sent, s.channel = c
                 PROVE  \/ s.key \in DOMAIN d.operations
                        \/ \E t \in d.done : t >= IF s.channel = Task THEN s.at ELSE DeclaredAt
                        \/ \E r \in d.sent : r.nth > s.nth
        BY <1>1, KnownDone
  <1>4. /\ s.at \in Nat /\ s.at <= clock /\ (c = Preset => s.at >= DeclaredAt)
        /\ s.key = <<s.at, s.channel>>
        BY <1>1, <1>2, <1>3, SentType DEF Known, Keyed
  <1>5. d.download >= IF c = Task THEN clock ELSE DeclaredAt
        BY <1>1, <1>2, <1>4 DEF NotWanted, Wanted, DeclaredBy, Channels
  <1>6. CASE d.download \in {0} \cup d.done
    <2>1. d.download \in d.done
          BY <1>1, <1>2, <1>5, <1>6
    <2>2. d.download >= IF s.channel = Task THEN s.at ELSE DeclaredAt
          BY <1>1, <1>2, <1>3, <1>4, <1>5
    <2>3. QED BY <2>1, <2>2
  <1>7. CASE \E r \in d.sent : /\ r.key \in DOMAIN d.operations /\ r.at = d.download
                               /\ \A q \in d.sent : q.nth <= r.nth
    <2>1. PICK r \in d.sent : /\ r.key \in DOMAIN d.operations /\ r.at = d.download
                              /\ \A q \in d.sent : q.nth <= r.nth
          BY <1>7
    <2>2. s.nth <= r.nth /\ s.nth \in Nat /\ r.nth \in Nat
          BY <1>2, <2>1, SentType
    <2>3. s.nth = r.nth => s = r
          BY <1>1, <2>1 DEF Known, Keyed
    <2>4. QED BY <2>1, <2>2, <2>3
  <1>8. QED BY <1>1, <1>6, <1>7 DEF Known, Marked, Begun

\* The device has the file at once.
LEMMA KnownDownloaded ==
  ASSUME clock \in Nat, NEW x \in InSession, Known(x.d, clock), NEW c \in Channels,
         c = Preset => clock >= DeclaredAt, NEW y, y = Done(Downloaded(x), c)
  PROVE  y \in InSession /\ Known(y.d, clock)
  <1> PICK z : z = Downloaded(x)
      OBVIOUS
  <1>1. /\ z \in InSession
        /\ z.d.download = clock /\ z.d.last = clock /\ z.d.done = x.d.done \cup {clock}
        /\ z.d.operations = x.d.operations /\ z.d.faults = x.d.faults
        /\ z.d.sent = x.d.sent /\ z.d.overlap = x.d.overlap
        BY DownloadedResult
  <1>2. Keyed(z.d, clock)
        BY <1>1 DEF Known, Keyed
  <1>3. Marked(z.d)
        BY <1>1 DEF Marked, Begun
  <1>4. AllAccounted(z.d)
        BY <1>1 DEF Known, AllAccounted, AccountedIn
  <1>5. Single(z.d)
    <2>1. \A k \in DOMAIN x.d.operations : x.d.operations[k].at <= clock
          BY DEF Known, Keyed
    <2>2. QED BY <1>1, <2>1 DEF Known, Single
  <1>6. Known(z.d, clock)
        BY <1>1, <1>2, <1>3, <1>4, <1>5 DEF Known
  <1>7. \A s \in z.d.sent : s.channel = c => clock >= IF s.channel = Task THEN s.at ELSE DeclaredAt
        BY <1>2 DEF Keyed, Channels
  <1>8. QED BY <1>1, <1>6, <1>7, KnownDone, DoneResult

\* The device will report: the download is the last that was begun, and what was begun
\* before is accounted for by it.
LEMMA KnownStarted ==
  ASSUME clock \in Nat, NEW x \in InSession, Known(x.d, clock), NEW c \in Channels,
         c = Preset => clock >= DeclaredAt, NEW y, y = Done(Started(x, c), c)
  PROVE  y \in InSession /\ Known(y.d, clock)
  <1> PICK z : z = Started(x, c)
      OBVIOUS
  <1> PICK k : k = Key(c)
      OBVIOUS
  <1> PICK n : n = Cardinality(x.d.sent)
      OBVIOUS
  <1> PICK r : r = Download(x, c)
      OBVIOUS
  <1>0. n \in Nat /\ IsFiniteSet(x.d.sent)
        BY FS_CardinalityType DEF Known, Keyed
  <1>1. /\ z \in InSession
        /\ DOMAIN z.d.operations = DOMAIN x.d.operations \cup {k}
        /\ z.d.operations[k].at = clock /\ z.d.operations[k].channel = c
        /\ \A l \in DOMAIN x.d.operations \ {k} : z.d.operations[l] = x.d.operations[l]
        /\ z.d.sent = x.d.sent \cup {r}
        /\ z.d.overlap = (x.d.overlap \/ DOMAIN x.d.operations # {})
        /\ z.d.download = clock /\ z.d.last = x.d.last /\ z.d.done = x.d.done
        /\ z.d.faults = x.d.faults
        BY <1>0, StartedResult
  <1>2. r.key = k /\ r.channel = c /\ r.at = clock /\ r.nth = n + 1 /\ k = <<clock, c>>
        BY DEF Download, Key
  <1>3. \A s \in x.d.sent : s.nth \in Nat /\ s.nth < r.nth
        BY <1>0, <1>2, SessionType, SentType DEF Known, Keyed
  <1>4. IsFiniteSet(z.d.sent) /\ Cardinality(z.d.sent) = n + 1
    <2>1. r \notin x.d.sent
          BY <1>0, <1>2, <1>3
    <2>2. /\ IsFiniteSet(x.d.sent \cup {r})
          /\ Cardinality(x.d.sent \cup {r}) = Cardinality(x.d.sent) + 1
          BY <1>0, <2>1, FS_AddElement, Zenon
    <2>3. QED BY <1>1, <2>2
  <1>5. Keyed(z.d, clock)
    <2>1. \A l \in DOMAIN z.d.operations :
             /\ l = <<z.d.operations[l].at, z.d.operations[l].channel>>
             /\ z.d.operations[l].at <= clock
             /\ z.d.operations[l].channel = Preset => z.d.operations[l].at >= DeclaredAt
          BY <1>1, <1>2 DEF Known, Keyed
    <2>2. \A s \in z.d.sent : /\ s.key = <<s.at, s.channel>> /\ s.at <= clock
                              /\ s.channel = Preset => s.at >= DeclaredAt
          BY <1>1, <1>2 DEF Known, Keyed
    <2>3. \A s \in z.d.sent : s.nth <= n + 1
          BY <1>0, <1>1, <1>2, <1>3
    <2>4. \A s \in z.d.sent : \A q \in z.d.sent : q.nth = s.nth => q = s
      <3>1. \A s \in x.d.sent : \A q \in x.d.sent : q.nth = s.nth => q = s
            BY DEF Known, Keyed
      <3>2. \A s \in x.d.sent : s.nth # r.nth
            BY <1>0, <1>2, <1>3
      <3>3. QED BY <1>1, <3>1, <3>2
    <2>5. \A t \in z.d.done : t <= clock
          BY <1>1 DEF Known, Keyed
    <2>6. QED BY <1>4, <2>1, <2>2, <2>3, <2>4, <2>5 DEF Keyed
  <1>6. Marked(z.d)
    <2>1. \A s \in z.d.sent : s.nth <= r.nth
          BY <1>0, <1>1, <1>2, <1>3
    <2>2. QED BY <1>1, <1>2, <2>1 DEF Known, Marked, Begun
  <1>7. \A s \in z.d.sent : s.key \in DOMAIN z.d.operations \/ \E q \in z.d.sent : q.nth > s.nth
        BY <1>0, <1>1, <1>2, <1>3
  <1>8. Single(z.d)
    <2>1. SUFFICES ASSUME ~x.d.overlap, DOMAIN x.d.operations = {} PROVE Single(z.d)
          BY <1>1 DEF Single
    <2>2. x.d.download <= clock /\ (x.d.last >= DeclaredAt => x.d.download >= DeclaredAt)
          BY <2>1 DEF Known, Single
    <2>3. x.d.last >= DeclaredAt => clock >= DeclaredAt
          BY <2>2, SessionType, OperationsAssumption
    <2>4. QED BY <1>1, <2>1, <2>3 DEF Single
  <1>9. Known(z.d, clock)
        BY <1>1, <1>5, <1>6, <1>7, <1>8 DEF Known, AllAccounted, AccountedIn
  <1>10. QED BY <1>1, <1>7, <1>9, KnownDone, DoneResult

-----------------------------------------------------------------------------
\* Every step keeps it

\* It is enough to look at the session when nothing is saved and the time stands still.
LEMMA InSessionKeeps ==
  ASSUME DownloadInv, UNCHANGED <<clock, db>>,
         ctx' = NoSession \/ (ctx' \in InSession /\ Known(ctx'.d, clock))
  PROVE  DownloadInv'
  <1>1. ~NoSession.on
        BY DEF NoSession
  <1>2. TypeInv'
        BY DEF DownloadInv, TypeInv
  <1>3. QED BY <1>1, <1>2 DEF DownloadInv

LEMMA InvInit == Init => DownloadInv
  <1> SUFFICES ASSUME Init PROVE DownloadInv
      OBVIOUS
  <1> USE DEF Init
  <1>1. <<>> \in Maps(Keys, Transfers) /\ <<>> \in Maps(Channels, [at: Nat, retries: Nat])
        /\ DOMAIN <<>> = {}
    <2>1. DOMAIN <<>> = {} /\ \A R : <<>> \in [{} -> R]
          OBVIOUS
    <2>2. QED BY <2>1, Zenon DEF Maps
  <1>2. db \in Devices /\ DOMAIN db.operations = {} /\ db.sent = {}
        BY <1>1 DEF Nothing, Devices
  <1>3. TypeInv
        BY <1>2 DEF TypeInv
  <1>4. Keyed(db, clock)
        BY <1>2, FS_EmptySet DEF Keyed, Nothing
  <1>5. Known(db, clock)
        BY <1>2, <1>4, OperationsAssumption
        DEF Known, Marked, Begun, AllAccounted, Single, Nothing
  <1>6. QED BY <1>3, <1>5 DEF DownloadInv, NoSession

LEMMA InvStep == DownloadInv /\ [Next]_vars => DownloadInv'
  <1> SUFFICES ASSUME DownloadInv, [Next]_vars PROVE DownloadInv'
      OBVIOUS
  <1>0. clock \in Nat \ {0} /\ db \in Devices /\ Known(db, clock)
        /\ (ctx.on => ctx \in InSession /\ Known(ctx.d, clock))
        BY OnIsInSession DEF DownloadInv, TypeInv
  <1>1. CASE Tick
    <2>1. ~ctx.on /\ clock' = clock + 1 /\ UNCHANGED <<db, ctx>>
          BY <1>1 DEF Tick
    <2>2. \A s \in db.sent : s.at \in Nat
          BY <1>0, SentType
    <2>3. \A k \in DOMAIN db.operations : db.operations[k].at \in Nat
          BY <1>0, OperationType
    <2>4. db.done \subseteq Nat /\ db.download \in Nat
          BY <1>0 DEF Devices
    <2>5. Keyed(db, clock + 1)
          BY <1>0, <2>2, <2>3, <2>4 DEF Known, Keyed
    <2>6. Known(db, clock + 1)
          BY <1>0, <2>4, <2>5 DEF Known
    <2>7. QED BY <1>0, <2>1, <2>6 DEF DownloadInv, TypeInv
  <1>2. CASE Inform
    <2>1. UNCHANGED <<clock, db>> /\ ctx'.d = db
          BY <1>2 DEF Inform
    <2>2. db.faults \in Maps(Channels, [at: Nat, retries: Nat])
          BY <1>0 DEF Devices
    <2>3. [c \in DOMAIN db.faults |-> db.faults[c].retries] \in Retries
      <3>1. DOMAIN db.faults \subseteq Channels /\ \A c \in DOMAIN db.faults : db.faults[c].retries \in Nat
            BY <2>2 DEF Maps
      <3>2. [c \in DOMAIN db.faults |-> db.faults[c].retries] \in [DOMAIN db.faults -> Nat]
            BY <3>1
      <3>3. QED BY <3>1, <3>2 DEF Retries, Maps
    <2>4. ctx' \in InSession
          BY <1>0, <1>2, <2>3 DEF Inform, InSession
    <2>5. QED BY <1>0, <2>1, <2>4, InSessionKeeps
  <1>3. CASE TimeOut
    <2>1. PICK k \in DOMAIN ctx.d.operations : ctx' = Fail(ctx, k)
          BY <1>3 DEF TimeOut, Due
    <2>2. ctx.on /\ UNCHANGED <<clock, db>>
          BY <1>3 DEF TimeOut
    <2>3. QED BY <1>0, <2>1, <2>2, FailResult, KnownFail, InSessionKeeps DEF FailsAs
  <1>4. CASE TimeOutThrows \/ SessionLost
        BY <1>4, InSessionKeeps DEF TimeOutThrows, SessionLost
  <1>5. CASE EmptyPost
    <2>1. ctx.on /\ ctx' = [ctx EXCEPT !.empty = TRUE] /\ UNCHANGED <<clock, db>>
          BY <1>5 DEF EmptyPost
    <2>2. ctx' \in InSession /\ ctx'.d = ctx.d
          BY <1>0, <2>1 DEF InSession
    <2>3. QED BY <1>0, <2>1, <2>2, InSessionKeeps
  <1>6. CASE EndSession
    <2>1. ctx.on /\ db' = ctx.d /\ ctx' = NoSession /\ clock' = clock
          BY <1>6 DEF EndSession
    <2>2. db' \in Devices /\ ~ctx'.on
          BY <1>0, <2>1 DEF InSession, NoSession
    <2>3. QED BY <1>0, <2>1, <2>2 DEF DownloadInv, TypeInv
  <1>7. ASSUME NEW k \in DOMAIN cpe, TransferComplete(k) PROVE DownloadInv'
    <2>1. ctx.on /\ UNCHANGED <<clock, db>>
          /\ \/ ctx' = ctx
             \/ k \in DOMAIN ctx.d.operations /\ ctx' \in {Succeed(ctx, k), Fail(ctx, k)}
          BY <1>7 DEF TransferComplete
    <2>2. QED BY <1>0, <2>1, SucceedResult, KnownSucceed, FailResult, KnownFail, InSessionKeeps
          DEF FailsAs, SucceedsAs
  <1>8. ASSUME NEW k \in DOMAIN cpe, NEW how, Transferred(k, how) PROVE DownloadInv'
        BY <1>8 DEF Transferred, DownloadInv, TypeInv
  <1>9. ASSUME NEW c \in Channels, NotWanted(c) PROVE DownloadInv'
    <2>1. ctx.on /\ ctx' = Done(ctx, c) /\ UNCHANGED <<clock, db>>
          BY <1>9 DEF NotWanted, Turn
    <2>2. QED BY <1>0, <1>9, <2>1, DoneResult, KnownNotWanted, InSessionKeeps
  <1>10. ASSUME NEW c \in Channels, DownloadAnswered(c) PROVE DownloadInv'
    <2>1. /\ ctx.on /\ UNCHANGED <<clock, db>>
          /\ ctx' \in {Done(Downloaded(ctx), c), Done(Started(ctx, c), c), RecordFault(ctx, c, clock)}
          /\ c = Preset => clock >= DeclaredAt
      <3>1. c = Preset => c # Task
            BY OperationsAssumption
      <3>2. c = Preset => DeclaredAt <= clock
            BY <1>10, <3>1 DEF DownloadAnswered, Wanted, DeclaredBy
      <3>3. QED BY <1>0, <1>10, <3>2, OperationsAssumption DEF DownloadAnswered, Turn
    <2>2. PICK x, y : x = ctx /\ y = ctx'
          OBVIOUS
    <2>3. clock \in Nat /\ x \in InSession /\ Known(x.d, clock)
          BY <1>0, <2>1, <2>2
    <2>4. CASE y = Done(Downloaded(x), c)
          BY ONLY <2>1, <2>2, <2>3, <2>4, DownloadInv, KnownDownloaded, InSessionKeeps
    <2>5. CASE y = Done(Started(x, c), c)
          BY ONLY <2>1, <2>2, <2>3, <2>5, DownloadInv, KnownStarted, InSessionKeeps
    <2>6. CASE y = RecordFault(x, c, clock)
      <3>1. y \in InSession
            BY ONLY <2>3, <2>6, c \in Channels, RecordFaultResult
      <3>2. Known(y.d, clock)
            BY ONLY <2>3, <2>6, c \in Channels, KnownRecordFault
      <3>3. QED BY ONLY <2>1, <2>2, <3>1, <3>2, DownloadInv, InSessionKeeps
    <2>7. QED BY <2>1, <2>2, <2>4, <2>5, <2>6
  <1>11. CASE UNCHANGED vars
        BY <1>11 DEF vars, DownloadInv, TypeInv
  <1>12. QED BY <1>1, <1>2, <1>3, <1>4, <1>5, <1>6, <1>7, <1>8, <1>9, <1>10, <1>11 DEF Next

-----------------------------------------------------------------------------
\* Whatever the device does or omits to do, whichever sessions are lost, and whatever the
\* times: a download that was begun is under way, has succeeded, has left a fault that is
\* retried, or is followed by another.
THEOREM NoDownloadForgotten == Spec => []Accounted
  <1>1. DownloadInv => Accounted
        BY DEF DownloadInv, Known, AllAccounted, AccountedIn, Accounted
  <1>2. QED BY <1>1, InvInit, InvStep, PTL DEF Spec

\* A preset that asks for a download once does not ask again when one has succeeded, unless
\* two were under way at a time.
THEOREM PresetAsksOnce == Spec => []DownloadedOnce
  <1>1. DownloadInv => DownloadedOnce
    <2>1. SUFFICES ASSUME DownloadInv, ctx.on, Wanted(Preset), ~ctx.d.overlap
                   PROVE  ctx.d.last < DeclaredAt
          BY DEF DownloadedOnce
    <2>2. ctx \in InSession /\ Single(ctx.d)
          BY <2>1, OnIsInSession DEF DownloadInv, Known
    <2>3. DeclaredAt > ctx.d.download
          BY <2>1, OperationsAssumption DEF Wanted, DeclaredBy
    <2>4. ctx.d.last >= DeclaredAt => ctx.d.download >= DeclaredAt
          BY <2>1, <2>2 DEF Single
    <2>5. QED BY <2>2, <2>3, <2>4, SessionType, OperationsAssumption
  <1>2. QED BY <1>1, InvInit, InvStep, PTL DEF Spec

-----------------------------------------------------------------------------
\* The tags of a device (Persistence)

\* The tags are as administrators have asked, but for some.
AsAsked(changed) ==
    \A tag \in DOMAIN asked \ changed : asked[tag] \in BOOLEAN /\ (asked[tag] <=> tag \in tags)

\* TagsMerged alone is not inductive.  Until a session is saved it has changed no tags, and
\* those that it is about to remove are among those that it has changed.
TagsInv ==
    /\ phase = "session" => AsAsked({})
    /\ phase = "pull" => held.tagged = (dataTags \ baseTags) \cup (baseTags \ dataTags)
    /\ phase \in {"pull", "idle"} => AsAsked(held.tagged)

\* A step that leaves the tags alone.
LEMMA TagsAlone ==
  ASSUME TagsInv, UNCHANGED <<tags, phase, held, asked>>,
         phase = "pull" => UNCHANGED <<dataTags, baseTags>>
  PROVE  TagsInv'
BY DEF TagsInv, AsAsked

\* What an administrator asks of a tag is so at once, whatever was asked before.
LEMMA UpdateTagsKeeps ==
  ASSUME TagsInv, NEW tag, NEW on \in BOOLEAN, Pers!UpdateTags(tag, on)
  PROVE  TagsInv'
<1>1. \A changed : AsAsked(changed) => AsAsked(changed)'
      BY DEF Pers!UpdateTags, AsAsked
<1>2. phase' = phase /\ held' = held /\ UNCHANGED <<dataTags, baseTags>> /\ phase # "idle"
      BY DEF Pers!UpdateTags
<1>3. phase = "session" => AsAsked({})'
      BY <1>1 DEF TagsInv
<1>4. phase = "pull" => AsAsked(held.tagged)'
      BY <1>1, <1>2 DEF TagsInv, AsAsked
<1>5. QED BY <1>2, <1>3, <1>4 DEF TagsInv

\* Saving removes no tag; what the session has changed is known from then on.
LEMMA SaveKeeps ==
  ASSUME TagsInv, Pers!Save
  PROVE  TagsInv'
<1>1. CASE phase' = "failed"
      BY <1>1 DEF TagsInv
<1> DEFINE added == dataTags \ baseTags
           removed == baseTags \ dataTags
<1>2. CASE phase' = "pull" /\ tags' = tags \cup added /\ held'.tagged = added \cup removed
      <2>1. asked' = asked /\ UNCHANGED <<dataTags, baseTags>> /\ AsAsked({})
            BY DEF Pers!Save, TagsInv
      <2>2. AsAsked(held.tagged)'
            BY <1>2, <2>1 DEF AsAsked
      <2>3. QED BY <1>2, <2>1, <2>2 DEF TagsInv
<1>3. QED BY <1>1, <1>2 DEF Pers!Save

\* Nor does the removal of tags touch another tag than those.
LEMMA PullKeeps ==
  ASSUME TagsInv, Pers!Pull
  PROVE  TagsInv'
<1>1. /\ phase = "pull" /\ phase' = "idle" /\ held' = held /\ asked' = asked
      /\ tags' = tags \ (baseTags \ dataTags)
      BY DEF Pers!Pull, Pers!Pulls
<1>2. (baseTags \ dataTags) \subseteq held.tagged /\ AsAsked(held.tagged)
      BY <1>1 DEF TagsInv
<1>3. AsAsked(held.tagged)'
      BY <1>1, <1>2 DEF AsAsked
<1>4. QED BY <1>1, <1>3 DEF TagsInv

LEMMA TagsStep == TagsInv /\ [Pers!Next]_Pers!vars => TagsInv'
<1> SUFFICES ASSUME TagsInv, [Pers!Next]_Pers!vars
             PROVE  TagsInv'
    OBVIOUS
<1>1. CASE \E t \in 1 .. 4 * MaxSessions : Pers!Begin(t)
      <2>1. phase' = "session" /\ asked' = <<>>
            BY <1>1 DEF Pers!Begin
      <2>2. QED BY <2>1 DEF TagsInv, AsAsked
<1>2. CASE Pers!Explore(<<>>) \/ \E p \in Pers!Here : Pers!Explore(p)
      BY <1>2, TagsAlone DEF Pers!Explore, Pers!Learn
<1>3. CASE \E p \in Pers!Here, t \in {now, now + 1} : Pers!Value(p, t)
      BY <1>3, TagsAlone DEF Pers!Value, Pers!Learn
<1>4. CASE \E p \in Pers!Here, which \in SUBSET {"notification", "accessList"}, t \in {now, now + 1} :
              Pers!Attributes(p, which, t)
      BY <1>4, TagsAlone DEF Pers!Attributes, Pers!Learn
<1>5. CASE \E tag \in Tags, on \in BOOLEAN : Pers!Tag(tag, on)
      BY <1>5, TagsAlone DEF Pers!Tag
<1>6. CASE \E tag \in Tags, on \in BOOLEAN : Pers!UpdateTags(tag, on)
      BY <1>6, UpdateTagsKeeps
<1>7. CASE Pers!Save
      BY <1>7, SaveKeeps
<1>8. CASE Pers!Pull
      BY <1>8, PullKeeps
<1>9. CASE \E model \in Stored : Pers!Change(model)
      BY <1>9, TagsAlone DEF Pers!Change
<1>10. CASE UNCHANGED Pers!vars
      BY <1>10, TagsAlone DEF Pers!vars
<1>11. QED
      BY <1>1, <1>2, <1>3, <1>4, <1>5, <1>6, <1>7, <1>8, <1>9, <1>10 DEF Pers!Next

LEMMA TagsInit == Pers!Init => TagsInv
BY DEF Pers!Init, TagsInv, AsAsked

LEMMA TagsByInvariant == TagsInv => Pers!TagsMerged
BY DEF TagsInv, AsAsked, Pers!TagsMerged

\* Tags that administrators change while a session has the device are kept: saving the device
\* merges the changes of both (saveDevice).
THEOREM TagsAlwaysMerged == Pers!Spec => []Pers!TagsMerged
<1>1. QED BY TagsInit, TagsStep, TagsByInvariant, PTL DEF Pers!Spec

-----------------------------------------------------------------------------
\* Scripts and their extensions (Scripts)

LEMMA SameCount ==
  ASSUME NEW S
  PROVE  Box!Cardinality(S) = Cardinality(S) /\ Box!IsFiniteSet(S) = IsFiniteSet(S)
BY DEF Box!Cardinality, Cardinality, Box!IsFiniteSet, IsFiniteSet

\* How many calls a script makes up to a statement.
Calls(k, i) == Box!Cardinality(Box!CallsUpTo(k, i))

\* A run of script k, at revision max with the answers known, gets to statement e.
Reaches(k, max, known, e) ==
    /\ \A j \in Box!Of(k, "throw") : e <= j
    /\ \A j \in Box!Commits[k] : Box!RevisionAt[k][j] = max => e <= j
    /\ \A j \in Box!Of(k, "ext") : Box!Call(k, j) \notin DOMAIN known => e <= j

\* At revision max the script has logged what comes before statement e.
LoggedUpTo(k, max, log, e) ==
    \A i \in Box!Of(k, "log") : Box!RevisionAt[k][i] = max => (log[i] = 1 <=> i < e)

\* What is known of a script, by the result of its last run.
NeverTwice(k, max, log) ==
    /\ log \in [Box!Of(k, "log") -> {0, 1}]
    /\ \A i \in Box!Of(k, "log") : log[i] = 1 => Box!RevisionAt[k][i] <= max
Waits(k, max, known, result, log) ==
    \E e \in Box!Of(k, "ext") :
        /\ result.waits = Box!Call(k, e) /\ result.replayed = 0 - Calls(k, e)
        /\ Reaches(k, max, known, e) /\ LoggedUpTo(k, max, log, e)
ScriptInv(k, max, known, result, log) ==
    /\ DOMAIN result = {"status", "declared", "waits", "replayed"}
    /\ NeverTwice(k, max, log)
    /\ result.status = "idle" => LoggedUpTo(k, max, log, 0)
    /\ result.status = "waiting" => Waits(k, max, known, result, log)
    /\ result.status = "done" => LoggedUpTo(k, max, log, Len(Code[k]) + 1)

\* LoggedOnce alone is not inductive: whether a script that waits logs a statement again
\* depends on the calls that are counted from below 0.
LogInv ==
    /\ revision \in [Sessions -> Nat]
    /\ DOMAIN cache = Sessions /\ DOMAIN run = Box!Slots /\ DOMAIN logged = Box!Slots
    /\ \A j \in jobs : j[1] \in Sessions
    /\ \A m \in settling : m.job[1] \in Sessions
    /\ \A s \in Sessions : \A k \in ScriptsOf[s] :
          ScriptInv(k, revision[s], cache[s], run[<<s, k>>], logged[<<s, k>>])

-----------------------------------------------------------------------------
\* Statements and calls

LEMMA Statements ==
  ASSUME Box!ScriptsAssumption, NEW k \in DOMAIN Code
  PROVE  /\ Len(Code[k]) \in Nat /\ DOMAIN Code[k] = 1 .. Len(Code[k])
         /\ \A op : Box!Of(k, op) \subseteq 1 .. Len(Code[k])
         /\ Box!Of(k, "log") \cap Box!Of(k, "ext") = {}
         /\ Box!Commits[k] \subseteq Box!Of(k, "read")
<1>1. Code[k] \in Seq({Code[k][i] : i \in DOMAIN Code[k]})
      BY DEF Box!ScriptsAssumption
<1>2. Len(Code[k]) \in Nat /\ DOMAIN Code[k] = 1 .. Len(Code[k])
      BY <1>1
<1>3. QED BY <1>2 DEF Box!Of, Box!Commits

LEMMA CallsAreCounted ==
  ASSUME Box!ScriptsAssumption, NEW k \in DOMAIN Code
  PROVE  /\ \A i : Calls(k, i) \in Nat
         /\ Calls(k, 0) = 0
         /\ \A i, j \in Nat : i <= j => Calls(k, i) <= Calls(k, j)
         /\ \A i \in Nat, j \in Box!Of(k, "ext") : i < j => Calls(k, i) < Calls(k, j)
<1>1. IsFiniteSet(1 .. Len(Code[k]))
      <2>1. Len(Code[k]) \in Int /\ 1 \in Int
            BY Statements
      <2>2. QED BY ONLY <2>1, FS_Interval
<1>2. \A i : Box!CallsUpTo(k, i) \subseteq 1 .. Len(Code[k])
      BY Statements DEF Box!CallsUpTo
<1>3. \A i : IsFiniteSet(Box!CallsUpTo(k, i))
      BY <1>1, <1>2, FS_Subset
<1>4. \A i : Calls(k, i) = Cardinality(Box!CallsUpTo(k, i)) /\ Calls(k, i) \in Nat
      BY <1>3, SameCount, FS_CardinalityType DEF Calls
<1>5. Calls(k, 0) = 0
      <2>1. Box!CallsUpTo(k, 0) = {}
            BY Statements DEF Box!CallsUpTo
      <2>2. QED BY <1>4, <2>1, FS_EmptySet
<1>6. ASSUME NEW i \in Nat, NEW j \in Nat, i <= j
      PROVE  Calls(k, i) <= Calls(k, j)
      <2>1. Box!CallsUpTo(k, i) \subseteq Box!CallsUpTo(k, j)
            BY <1>6, Statements DEF Box!CallsUpTo
      <2>2. QED BY <1>3, <1>4, <2>1, FS_Subset
<1>7. ASSUME NEW i \in Nat, NEW j \in Box!Of(k, "ext"), i < j
      PROVE  Calls(k, i) < Calls(k, j)
      <2>1. Box!CallsUpTo(k, i) \subseteq Box!CallsUpTo(k, j)
            BY <1>7, Statements DEF Box!CallsUpTo
      <2>2. j \in Box!CallsUpTo(k, j) /\ j \notin Box!CallsUpTo(k, i)
            BY <1>7, Statements DEF Box!CallsUpTo
      <2>3. Cardinality(Box!CallsUpTo(k, i)) <= Cardinality(Box!CallsUpTo(k, j))
            /\ Cardinality(Box!CallsUpTo(k, i)) # Cardinality(Box!CallsUpTo(k, j))
            BY <1>3, <2>1, <2>2, FS_Subset
      <2>4. QED BY <1>4, <2>3
<1>8. QED BY <1>4, <1>5, <1>6, <1>7

LEMMA RevisionsAreCounted ==
  ASSUME Box!ScriptsAssumption, NEW k \in DOMAIN Code, NEW i \in DOMAIN Code[k]
  PROVE  Box!RevisionAt[k][i] \in Nat
<1>1. {c \in Box!Commits[k] : c < i} \subseteq 1 .. Len(Code[k])
      BY Statements
<1>2. IsFiniteSet({c \in Box!Commits[k] : c < i})
      <2>1. Len(Code[k]) \in Int /\ 1 \in Int
            BY Statements
      <2>2. IsFiniteSet(1 .. Len(Code[k]))
            BY ONLY <2>1, FS_Interval
      <2>3. QED BY <1>1, <2>2, FS_Subset
<1>3. Box!RevisionAt[k][i] = Box!Cardinality({c \in Box!Commits[k] : c < i})
      BY DEF Box!RevisionAt
<1>4. QED BY <1>2, <1>3, SameCount, FS_CardinalityType

\* A set of positions has a least one.
LEMMA LeastPosition ==
  ASSUME NEW S \in SUBSET Nat, S # {}
  PROVE  \E i \in S : \A j \in S : i <= j
<1> DEFINE R == OpToRel(<, Nat)
<1>1. PICK i \in S : \A j \in S : <<j, i>> \notin R
      BY ONLY S \subseteq Nat, S # {}, NatLessThanWellFounded, WFMin, Zenon
<1>2. \A j \in S : ~(j < i)
      <2>1. SUFFICES ASSUME NEW j \in S, j < i PROVE FALSE
            OBVIOUS
      <2>2. <<j, i>> \in R
            BY <2>1, Zenon DEF OpToRel
      <2>3. QED BY <2>2, <1>1
<1>3. QED BY <1>2

\* A run ends at the first statement that stops it.
LEMMA Ending ==
  ASSUME Box!ScriptsAssumption, NEW k \in DOMAIN Code, NEW max, NEW known
  PROVE  LET e == Box!End(k, max, known)
         IN  /\ e \in 1 .. Len(Code[k]) + 1 /\ Reaches(k, max, known, e)
             /\ e \in {Len(Code[k]) + 1} \cup Box!Of(k, "throw") \cup Box!Of(k, "read") \cup Box!Of(k, "ext")
             /\ \A d \in Nat : d <= Len(Code[k]) + 1 /\ Reaches(k, max, known, d) => d <= e
<1> DEFINE S == {Len(Code[k]) + 1} \cup Box!Of(k, "throw")
                  \cup {i \in Box!Commits[k] : Box!RevisionAt[k][i] = max}
                  \cup {i \in Box!Of(k, "ext") : Box!Call(k, i) \notin DOMAIN known}
           e == Box!End(k, max, known)
<1>1. S \subseteq 1 .. Len(Code[k]) + 1 /\ S # {} /\ S \subseteq Nat
      BY Statements
<1>2. e = CHOOSE x \in S : \A y \in S : x <= y
      BY DEF Box!End, Box!Min
<1> HIDE DEF S
<1>3. \E x \in S : \A y \in S : x <= y
      BY <1>1, LeastPosition
<1>4. e \in S /\ \A y \in S : e <= y
      BY <1>2, <1>3
<1> HIDE DEF e
<1>5. Reaches(k, max, known, e)
      BY <1>4 DEF S, Reaches
<1>6. e \in {Len(Code[k]) + 1} \cup Box!Of(k, "throw") \cup Box!Of(k, "read") \cup Box!Of(k, "ext")
      BY <1>4, Statements DEF S
<1>7. ASSUME NEW d \in Nat, d <= Len(Code[k]) + 1, Reaches(k, max, known, d)
      PROVE  d <= e
      BY <1>4, <1>7 DEF S, Reaches
<1>8. QED BY <1>1, <1>4, <1>5, <1>6, <1>7 DEF e

-----------------------------------------------------------------------------
\* A run

\* A script that starts, or that waited at statement d with the calls of that counted from
\* below 0, logs what is left up to where it gets.
LEMMA RunOnce ==
  ASSUME Box!ScriptsAssumption, NEW k \in DOMAIN Code, NEW max \in Nat, NEW known,
         NEW d \in Box!Of(k, "ext") \cup {0}, NEW counter, counter = 0 - Calls(k, d),
         Reaches(k, max, known, d), NEW log, NeverTwice(k, max, log), LoggedUpTo(k, max, log, d),
         NEW e, e = Box!End(k, max, known),
         NEW log2,
         log2 = [i \in Box!Of(k, "log") |-> log[i] + (IF i \in Box!Logs(k, e, max, counter) THEN 1 ELSE 0)]
  PROVE  ScriptInv(k, max, known, Box!Result(k, max, known, counter), log2)
<1>1. /\ e \in 1 .. Len(Code[k]) + 1 /\ Len(Code[k]) \in Nat /\ d \in Nat /\ d <= e
      /\ Reaches(k, max, known, e)
      /\ e \in {Len(Code[k]) + 1} \cup Box!Of(k, "throw") \cup Box!Of(k, "read") \cup Box!Of(k, "ext")
      BY Statements, Ending
<1>2. \A i : Calls(k, i) \in Nat
      BY CallsAreCounted
<1>3. ASSUME NEW i \in Box!Of(k, "log"), Box!RevisionAt[k][i] = max
      PROVE  i \in Box!Logs(k, e, max, counter) <=> i < e /\ ~ (i < d)
      <2>1. i \in Nat /\ i # d /\ i # 0
            BY Statements
      <2>2. CASE i < d
            <3>1. Calls(k, i) < Calls(k, d)
                  BY <2>1, <2>2, CallsAreCounted
            <3>2. ~ (counter + Calls(k, i) >= 0)
                  BY <1>2, <3>1
            <3>3. QED BY <2>2, <3>2 DEF Box!Logs, Calls
      <2>3. CASE ~ (i < d)
            <3>1. Calls(k, d) <= Calls(k, i)
                  BY <1>1, <2>1, <2>3, CallsAreCounted
            <3>2. counter + Calls(k, i) >= 0
                  BY <1>2, <3>1
            <3>3. QED BY <1>3, <2>3, <3>2 DEF Box!Logs, Calls
      <2>4. QED BY <2>2, <2>3
<1>4. \A i \in Box!Of(k, "log") : Box!RevisionAt[k][i] # max => i \notin Box!Logs(k, e, max, counter)
      BY DEF Box!Logs
<1>5. log \in [Box!Of(k, "log") -> {0, 1}]
      BY DEF NeverTwice
<1>6. LoggedUpTo(k, max, log2, e)
      <2> SUFFICES ASSUME NEW i \in Box!Of(k, "log"), Box!RevisionAt[k][i] = max
                   PROVE  log2[i] = 1 <=> i < e
          BY DEF LoggedUpTo
      <2>1. log[i] \in {0, 1} /\ (log[i] = 1 <=> i < d) /\ i \in Nat
            BY <1>5, Statements DEF LoggedUpTo
      <2>2. QED BY <1>1, <1>3, <2>1
<1>7. NeverTwice(k, max, log2)
      <2>1. ASSUME NEW i \in Box!Of(k, "log")
            PROVE  log2[i] \in {0, 1} /\ (log2[i] = 1 => Box!RevisionAt[k][i] <= max)
            <3>1. log[i] \in {0, 1} /\ (log[i] = 1 => Box!RevisionAt[k][i] <= max)
                  BY <1>5 DEF NeverTwice
            <3>2. CASE Box!RevisionAt[k][i] # max
                  BY <1>4, <3>1, <3>2
            <3>3. CASE Box!RevisionAt[k][i] = max
                  <4>1. (log[i] = 1 <=> i < d) /\ i \in Nat
                        BY <3>3, Statements DEF LoggedUpTo
                  <4>2. QED BY <1>3, <3>1, <3>3, <4>1
            <3>4. QED BY <3>2, <3>3
      <2>2. QED BY <2>1 DEF NeverTwice
<1> DEFINE r == Box!Result(k, max, known, counter)
<1>8. /\ DOMAIN r = {"status", "declared", "waits", "replayed"}
      /\ r.status = Box!Outcome(k, e)
      /\ r.waits = IF Box!Outcome(k, e) = "waiting" THEN Box!Call(k, e) ELSE <<>>
      /\ r.replayed = 0 - Calls(k, e)
      <2>1. /\ r.status = Box!Outcome(k, e)
            /\ r.waits = IF Box!Outcome(k, e) = "waiting" THEN Box!Call(k, e) ELSE <<>>
            /\ r.replayed = counter - (counter + Calls(k, e))
            BY DEF Box!Result, Box!Replayed, Calls
      <2>2. counter - (counter + Calls(k, e)) = 0 - Calls(k, e)
            BY <1>2
      <2>3. QED BY <2>1, <2>2 DEF Box!Result
<1> HIDE DEF r
<1>9. CASE e = Len(Code[k]) + 1
      <2>1. r.status = "done"
            BY <1>1, <1>8, <1>9 DEF Box!Outcome
      <2>2. QED BY <1>6, <1>7, <1>8, <1>9, <2>1 DEF ScriptInv, r
<1>10. CASE e \in Box!Of(k, "ext")
      <2>1. r.status = "waiting"
            BY <1>1, <1>8, <1>10, Statements DEF Box!Outcome, Box!Of
      <2>2. Waits(k, max, known, r, log2)
            BY <1>1, <1>6, <1>8, <1>10, <2>1 DEF Waits
      <2>3. QED BY <1>7, <1>8, <2>1, <2>2 DEF ScriptInv, r
<1>11. CASE e \in Box!Of(k, "read") \cup Box!Of(k, "throw")
      <2>1. r.status \in {"commit", "fault"}
            BY <1>1, <1>8, <1>11, Statements DEF Box!Outcome, Box!Of
      <2>2. QED BY <1>7, <1>8, <2>1 DEF ScriptInv, r
<1>12. QED BY <1>1, <1>9, <1>10, <1>11

\* More answers change nothing that is known of a script.
LEMMA MoreAnswers ==
  ASSUME NEW k, NEW max, NEW known, NEW more, DOMAIN known \subseteq DOMAIN more,
         NEW result, NEW log, ScriptInv(k, max, known, result, log)
  PROVE  ScriptInv(k, max, more, result, log)
<1>1. \A e : Reaches(k, max, known, e) => Reaches(k, max, more, e)
      BY DEF Reaches
<1>2. Waits(k, max, known, result, log) => Waits(k, max, more, result, log)
      BY <1>1 DEF Waits
<1>3. QED BY <1>2 DEF ScriptInv

\* Some scripts of a session run, from their start or on from where they waited, knowing more.
Runs(s, known, X, counter, open) ==
    /\ Box!Running(X, known, counter, open)
    /\ X \subseteq Box!Mine(s) /\ open \subseteq jobs
    /\ DOMAIN cache' = Sessions /\ cache'[s] = known /\ DOMAIN cache[s] \subseteq DOMAIN known
    /\ \A t \in Sessions \ {s} : cache'[t] = cache[t]
    /\ \A x \in X : \E d \in Box!Of(x[2], "ext") \cup {0} :
          /\ counter[x] = 0 - Calls(x[2], d) /\ Reaches(x[2], revision[s], known, d)
          /\ LoggedUpTo(x[2], revision[s], logged[x], d)

LEMMA RunningKeeps ==
  ASSUME Box!ScriptsAssumption, LogInv, NEW s \in Sessions, NEW known, NEW X, NEW counter, NEW open,
         Runs(s, known, X, counter, open), revision' = revision, settling' \subseteq settling
  PROVE  LogInv'
<1> DEFINE r == [x \in X |-> Box!Result(x[2], revision[x[1]], known, counter[x])]
           calls == {<<x[1], r[x].waits>> : x \in {x \in X : r[x].status = "waiting"}}
                     \ {<<j[1], j[2]>> : j \in open}
           new == {<<c[1], c[2], numbered + 1>> : c \in calls}
           logs(x) == Box!Logs(x[2], Box!End(x[2], revision[x[1]], known), revision[x[1]], counter[x])
<1>1. /\ run' = Box!Over(r, run)
      /\ logged' = [x \in Box!Slots |->
                      IF x \in X THEN [i \in DOMAIN logged[x] |-> logged[x][i] + (IF i \in logs(x) THEN 1 ELSE 0)]
                      ELSE logged[x]]
      /\ jobs' = open \cup new /\ open \subseteq jobs
      BY DEF Box!Running, Runs
<1>2. /\ revision \in [Sessions -> Nat] /\ DOMAIN run = Box!Slots /\ DOMAIN logged = Box!Slots
      /\ \A j \in jobs : j[1] \in Sessions
      /\ \A m \in settling : m.job[1] \in Sessions
      BY DEF LogInv
<1>3. X \subseteq Box!Slots /\ \A x \in X : x[1] = s /\ x = <<s, x[2]>> /\ x[2] \in ScriptsOf[s]
      BY DEF Runs, Box!Mine, Box!Slots, Box!ScriptsAssumption
<1>4. /\ DOMAIN run' = Box!Slots /\ DOMAIN logged' = Box!Slots
      /\ \A x \in X : run'[x] = Box!Result(x[2], revision[s], known, counter[x])
      /\ \A x \in Box!Slots \ X : run'[x] = run[x]
      BY <1>1, <1>2, <1>3 DEF Box!Over
<1>5. \A j \in jobs' : j[1] \in Sessions
      <2> HIDE DEF r
      <2>1. \A c \in calls : c[1] = s
            BY <1>3
      <2> HIDE DEF calls
      <2>2. \A j \in new : j[1] = s
            BY <2>1
      <2>3. QED BY <1>1, <1>2, <2>2
<1>6. ASSUME NEW t \in Sessions, NEW k \in ScriptsOf[t]
      PROVE  ScriptInv(k, revision[t], cache'[t], run'[<<t, k>>], logged'[<<t, k>>])
      <2> DEFINE x == <<t, k>>
      <2>1. x \in Box!Slots /\ k \in DOMAIN Code /\ x[1] = t /\ x[2] = k
            BY DEF Box!Slots, Box!ScriptsAssumption
      <2>2. ScriptInv(k, revision[t], cache[t], run[x], logged[x])
            BY DEF LogInv
      <2>3. logged[x] \in [Box!Of(k, "log") -> {0, 1}] /\ DOMAIN logged[x] = Box!Of(k, "log")
            BY <2>2 DEF ScriptInv, NeverTwice
      <2>4. logged'[x] = IF x \in X
                         THEN [i \in DOMAIN logged[x] |-> logged[x][i] + (IF i \in logs(x) THEN 1 ELSE 0)]
                         ELSE logged[x]
            BY <1>1, <2>1
      <2> HIDE DEF x
      <2>5. CASE x \in X
            <3>1. t = s
                  BY <1>3, <2>1, <2>5
            <3>2. PICK d \in Box!Of(k, "ext") \cup {0} :
                     /\ counter[x] = 0 - Calls(k, d) /\ Reaches(k, revision[s], known, d)
                     /\ LoggedUpTo(k, revision[s], logged[x], d)
                  BY <2>1, <2>5 DEF Runs
            <3>3. PICK e : e = Box!End(k, revision[s], known)
                  OBVIOUS
            <3>4. logged'[x] = [i \in Box!Of(k, "log") |-> logged[x][i] +
                     (IF i \in Box!Logs(k, e, revision[s], counter[x]) THEN 1 ELSE 0)]
                  BY <2>1, <2>3, <2>4, <2>5, <3>1, <3>3
            <3>5. NeverTwice(k, revision[s], logged[x])
                  BY <2>2, <3>1 DEF ScriptInv
            <3>6. revision[s] \in Nat
                  BY <1>2
            <3>7. ScriptInv(k, revision[s], known, Box!Result(k, revision[s], known, counter[x]), logged'[x])
                  BY <2>1, <3>2, <3>3, <3>4, <3>5, <3>6, RunOnce
            <3>8. run'[x] = Box!Result(k, revision[s], known, counter[x])
                  BY <1>4, <2>1, <2>5
            <3>9. cache'[s] = known
                  BY DEF Runs
            <3>10. QED BY <3>1, <3>7, <3>8, <3>9 DEF x
      <2>6. CASE x \notin X
            <3>1. run'[x] = run[x]
                  BY <1>4, <2>1, <2>6
            <3>2. logged'[x] = logged[x]
                  BY <2>3, <2>4, <2>6
            <3>3. DOMAIN cache[t] \subseteq DOMAIN cache'[t]
                  BY DEF Runs
            <3>4. QED BY <2>2, <3>1, <3>2, <3>3, MoreAnswers DEF x
      <2>7. QED BY <2>5, <2>6
<1>7. DOMAIN cache' = Sessions
      BY DEF Runs
<1>8. QED BY <1>2, <1>4, <1>5, <1>6, <1>7 DEF LogInv

\* An answer, a fault or none: what the scripts that waited for it do then.
LEMMA ResolveKeeps ==
  ASSUME Box!ScriptsAssumption, LogInv, NEW j, j[1] \in Sessions, NEW fault, NEW value,
         Box!Resolve(j, fault, value), revision' = revision, settling' \subseteq settling
  PROVE  LogInv'
<1> DEFINE s == j[1]
           waiting == {x \in Box!Mine(s) : run[x].status = "waiting" /\ run[x].waits = j[2]}
           known == Box!With(cache[s], j[2], value)
<1>1. /\ revision \in [Sessions -> Nat] /\ DOMAIN cache = Sessions /\ DOMAIN run = Box!Slots
      /\ DOMAIN logged = Box!Slots /\ \A i \in jobs : i[1] \in Sessions
      /\ \A m \in settling : m.job[1] \in Sessions
      BY DEF LogInv
<1>2. CASE fault
      <2>1. /\ run' = [x \in Box!Slots |-> IF x \in waiting THEN [run[x] EXCEPT !.status = "fault"]
                                         ELSE run[x]]
            /\ jobs' = jobs \ {j} /\ cache' = cache /\ logged' = logged
            BY <1>2 DEF Box!Resolve
      <2>2. ASSUME NEW t \in Sessions, NEW k \in ScriptsOf[t]
            PROVE  ScriptInv(k, revision[t], cache[t], run'[<<t, k>>], logged[<<t, k>>])
            <3> DEFINE x == <<t, k>>
            <3>1. x \in Box!Slots
                  BY DEF Box!Slots, Box!ScriptsAssumption
            <3>2. ScriptInv(k, revision[t], cache[t], run[x], logged[x])
                  BY DEF LogInv
            <3>3. run'[x] = run[x] \/ run'[x] = [run[x] EXCEPT !.status = "fault"]
                  BY <2>1, <3>1
            <3> HIDE DEF x
            <3>4. run'[x] = run[x] \/ (run'[x].status = "fault" /\ DOMAIN run'[x] = DOMAIN run[x])
                  BY <3>2, <3>3 DEF ScriptInv
            <3>5. QED BY <3>2, <3>4 DEF ScriptInv, x
      <2>3. DOMAIN run' = Box!Slots
            BY <2>1
      <2> HIDE DEF waiting
      <2>4. QED BY <1>1, <2>1, <2>2, <2>3 DEF LogInv
<1>3. CASE ~fault
      <2>1. /\ cache' = [cache EXCEPT ![s] = known]
            /\ Box!Running(waiting, known, [x \in waiting |-> run[x].replayed], jobs \ {j})
            BY <1>3 DEF Box!Resolve
      <2>2. DOMAIN cache[s] \subseteq DOMAIN known
            BY DEF Box!With, Box!Over
      <2>3. DOMAIN cache' = Sessions /\ cache'[s] = known /\ \A t \in Sessions \ {s} : cache'[t] = cache[t]
            BY <1>1, <2>1
      <2>4. ASSUME NEW x \in waiting
            PROVE  \E d \in Box!Of(x[2], "ext") \cup {0} :
                      /\ [y \in waiting |-> run[y].replayed][x] = 0 - Calls(x[2], d)
                      /\ Reaches(x[2], revision[s], known, d)
                      /\ LoggedUpTo(x[2], revision[s], logged[x], d)
            <3>1. x = <<s, x[2]>> /\ x[2] \in ScriptsOf[s] /\ run[x].status = "waiting"
                  BY DEF Box!Mine
            <3>2. ScriptInv(x[2], revision[s], cache[s], run[x], logged[x])
                  BY <3>1 DEF LogInv
            <3>3. ScriptInv(x[2], revision[s], known, run[x], logged[x])
                  BY <2>2, <3>2, MoreAnswers
            <3>4. Waits(x[2], revision[s], known, run[x], logged[x])
                  BY <3>1, <3>3 DEF ScriptInv
            <3>5. [y \in waiting |-> run[y].replayed][x] = run[x].replayed
                  OBVIOUS
            <3> HIDE DEF waiting, known
            <3>6. QED BY <3>4, <3>5 DEF Waits
      <2> DEFINE counter == [x \in waiting |-> run[x].replayed]
      <2>5. Box!Running(waiting, known, counter, jobs \ {j}) /\ waiting \subseteq Box!Mine(s)
            BY <2>1
      <2> HIDE DEF waiting, known
      <2>6. Runs(s, known, waiting, counter, jobs \ {j})
            BY <2>2, <2>3, <2>4, <2>5 DEF Runs
      <2> HIDE DEF counter
      <2>7. QED BY <2>6, RunningKeeps
<1>4. QED BY <1>2, <1>3

-----------------------------------------------------------------------------
\* The steps

\* The scripts of a session start.
LEMMA StartKeeps ==
  ASSUME Box!ScriptsAssumption, LogInv, NEW s \in Sessions, Box!Start(s)
  PROVE  LogInv'
<1> DEFINE counter == [x \in Box!Mine(s) |-> 0]
<1>1. /\ \A x \in Box!Mine(s) : run[x].status = "idle"
      /\ Box!Running(Box!Mine(s), cache[s], counter, jobs)
      /\ UNCHANGED <<revision, cache, settling>>
      BY DEF Box!Start
<1>2. DOMAIN cache' = Sessions /\ cache'[s] = cache[s] /\ \A t \in Sessions \ {s} : cache'[t] = cache[t]
      BY <1>1 DEF LogInv
<1>3. ASSUME NEW x \in Box!Mine(s)
      PROVE  /\ counter[x] = 0 - Calls(x[2], 0) /\ Reaches(x[2], revision[s], cache[s], 0)
             /\ LoggedUpTo(x[2], revision[s], logged[x], 0)
      <2>1. x = <<s, x[2]>> /\ x[2] \in ScriptsOf[s] /\ x[2] \in DOMAIN Code
            BY DEF Box!Mine, Box!ScriptsAssumption
      <2>2. LoggedUpTo(x[2], revision[s], logged[x], 0)
            BY <1>1, <2>1 DEF LogInv, ScriptInv
      <2>3. Reaches(x[2], revision[s], cache[s], 0)
            <3>1. \A op : Box!Of(x[2], op) \subseteq Nat
                  BY <2>1, Statements
            <3>2. Box!Commits[x[2]] \subseteq Nat
                  BY <2>1, <3>1, Statements
            <3>3. QED BY <3>1, <3>2 DEF Reaches
      <2>4. counter[x] = 0 - Calls(x[2], 0)
            BY <2>1, CallsAreCounted
      <2>5. QED BY <2>2, <2>3, <2>4
<1> HIDE DEF counter
<1>4. \A x \in Box!Mine(s) : \E d \in Box!Of(x[2], "ext") \cup {0} :
          /\ counter[x] = 0 - Calls(x[2], d) /\ Reaches(x[2], revision[s], cache[s], d)
          /\ LoggedUpTo(x[2], revision[s], logged[x], d)
      BY <1>3
<1>5. Runs(s, cache[s], Box!Mine(s), counter, jobs)
      BY <1>1, <1>2, <1>4 DEF Runs
<1>6. QED BY <1>1, <1>5, RunningKeeps

\* A commit: nothing has been logged at the next revision.
LEMMA CommittedKeeps ==
  ASSUME Box!ScriptsAssumption, LogInv, NEW s \in Sessions, Box!Committed(s)
  PROVE  LogInv'
<1>1. /\ revision' = [revision EXCEPT ![s] = @ + 1]
      /\ run' = [x \in Box!Slots |-> IF x \in Box!Mine(s) THEN [run[x] EXCEPT !.status = "idle"] ELSE run[x]]
      /\ UNCHANGED <<cache, logged, jobs, settling>>
      BY DEF Box!Committed
<1>2. /\ revision' \in [Sessions -> Nat] /\ DOMAIN cache' = Sessions /\ DOMAIN run' = Box!Slots
      /\ DOMAIN logged' = Box!Slots /\ \A j \in jobs' : j[1] \in Sessions
      /\ \A m \in settling' : m.job[1] \in Sessions
      BY <1>1 DEF LogInv
<1>3. ASSUME NEW t \in Sessions, NEW k \in ScriptsOf[t]
      PROVE  ScriptInv(k, revision'[t], cache[t], run'[<<t, k>>], logged[<<t, k>>])
      <2> DEFINE x == <<t, k>>
      <2>1. x \in Box!Slots /\ k \in DOMAIN Code /\ (x \in Box!Mine(s) <=> t = s)
            BY DEF Box!Slots, Box!Mine, Box!ScriptsAssumption
      <2>2. ScriptInv(k, revision[t], cache[t], run[x], logged[x])
            BY DEF LogInv
      <2> HIDE DEF x
      <2>3. CASE t = s
            <3>1. run'[x] = [run[x] EXCEPT !.status = "idle"] /\ revision'[t] = revision[t] + 1
                  BY <1>1, <2>1, <2>3 DEF LogInv
            <3>2. /\ DOMAIN run'[x] = {"status", "declared", "waits", "replayed"}
                  /\ run'[x].status = "idle"
                  BY <2>2, <3>1 DEF ScriptInv
            <3>3. \A i \in Box!Of(k, "log") : Box!RevisionAt[k][i] \in Nat
                  BY <2>1, RevisionsAreCounted DEF Box!Of
            <3>4. revision[t] \in Nat
                  BY DEF LogInv
            <3>5. NeverTwice(k, revision'[t], logged[x])
                  BY <2>2, <3>1, <3>3, <3>4 DEF ScriptInv, NeverTwice
            <3>6. LoggedUpTo(k, revision'[t], logged[x], 0)
                  <4>1. SUFFICES ASSUME NEW i \in Box!Of(k, "log"), Box!RevisionAt[k][i] = revision'[t]
                                 PROVE  ~ (logged[x][i] = 1) /\ ~ (i < 0)
                        BY DEF LoggedUpTo
                  <4>2. logged[x][i] = 1 => Box!RevisionAt[k][i] <= revision[t]
                        BY <2>2 DEF ScriptInv, NeverTwice
                  <4>3. i \in Nat
                        BY <2>1, Statements
                  <4>4. QED BY <3>1, <3>4, <4>1, <4>2, <4>3
            <3>7. QED BY <3>2, <3>5, <3>6 DEF ScriptInv, x
      <2>4. CASE t # s
            <3>1. run'[x] = run[x] /\ revision'[t] = revision[t]
                  BY <1>1, <2>1, <2>4 DEF LogInv
            <3>2. QED BY <2>2, <3>1 DEF x
      <2>5. QED BY <2>3, <2>4
<1>4. QED BY <1>1, <1>2, <1>3 DEF LogInv

\* A step that runs no script.
LEMMA ElsewhereKeeps ==
  ASSUME LogInv, UNCHANGED <<revision, cache, run, logged, jobs>>,
         \A m \in settling' : m \in settling \/ m.job \in jobs
  PROVE  LogInv'
BY DEF LogInv

LEMMA LogStep ==
  ASSUME Box!ScriptsAssumption
  PROVE  LogInv /\ [Box!Next]_Box!vars => LogInv'
<1> SUFFICES ASSUME LogInv, [Box!Next]_Box!vars
             PROVE  LogInv'
    OBVIOUS
<1>1. CASE \E s \in Sessions : Box!Start(s) \/ Box!Committed(s)
      BY <1>1, StartKeeps, CommittedKeeps
<1>2. ASSUME NEW j \in jobs, Box!TimeOut(j)
      PROVE  LogInv'
      <2>1. Box!Resolve(j, TRUE, "none") /\ revision' = revision /\ settling' = settling
            BY <1>2 DEF Box!TimeOut
      <2>2. j[1] \in Sessions
            BY DEF LogInv
      <2>3. QED BY <2>1, <2>2, ResolveKeeps
<1>3. CASE Box!Receive
      <2>1. UNCHANGED <<revision, cache, run, logged, jobs>>
            BY <1>3 DEF Box!Receive
      <2>2. \A m \in settling' : m \in settling \/ m.job \in jobs
            BY <1>3 DEF Box!Receive
      <2>3. QED BY <2>1, <2>2, ElsewhereKeeps
<1>4. ASSUME NEW m \in settling, Box!Settle(m)
      PROVE  LogInv'
      <2>1. Box!Resolve(m.job, m.fault, m.value) /\ revision' = revision /\ settling' \subseteq settling
            BY <1>4 DEF Box!Settle
      <2>2. m.job[1] \in Sessions
            BY DEF LogInv
      <2>3. QED BY <2>1, <2>2, ResolveKeeps
<1>5. CASE \E j \in child.todo, fault \in BOOLEAN, value \in Answers : Box!Perform(j, fault, value)
      BY <1>5, ElsewhereKeeps DEF Box!Perform
<1>6. CASE Box!Crash
      BY <1>6, ElsewhereKeeps DEF Box!Crash
<1>7. CASE UNCHANGED Box!vars
      BY <1>7, ElsewhereKeeps DEF Box!vars
<1>8. QED
      BY <1>1, <1>2, <1>3, <1>4, <1>5, <1>6, <1>7 DEF Box!Next, Box!Acs, Box!Process

\* A session begins with scripts that have not been run and have logged nothing.
LEMMA LogInit ==
  ASSUME Box!ScriptsAssumption
  PROVE  Box!Init => LogInv
<1> SUFFICES ASSUME Box!Init PROVE LogInv
    OBVIOUS
<1>1. /\ revision = [s \in Sessions |-> 0] /\ DOMAIN cache = Sessions
      /\ run = [x \in Box!Slots |-> Box!Idle]
      /\ logged = [x \in Box!Slots |-> [i \in Box!Of(x[2], "log") |-> 0]]
      /\ jobs = {} /\ settling = {}
      BY DEF Box!Init
<1>2. ASSUME NEW s \in Sessions, NEW k \in ScriptsOf[s]
      PROVE  ScriptInv(k, revision[s], cache[s], run[<<s, k>>], logged[<<s, k>>])
      <2>1. <<s, k>> \in Box!Slots /\ k \in DOMAIN Code
            BY DEF Box!Slots, Box!ScriptsAssumption
      <2>2. run[<<s, k>>] = Box!Idle /\ logged[<<s, k>>] = [i \in Box!Of(k, "log") |-> 0]
            BY <1>1, <2>1
      <2>3. Box!Of(k, "log") \subseteq Nat
            BY <2>1, Statements
      <2>4. NeverTwice(k, revision[s], logged[<<s, k>>]) /\ LoggedUpTo(k, revision[s], logged[<<s, k>>], 0)
            BY <2>2, <2>3 DEF NeverTwice, LoggedUpTo
      <2>5. QED BY <2>2, <2>4 DEF ScriptInv, Box!Idle
<1>3. QED BY <1>1, <1>2 DEF LogInv

LEMMA LogByInvariant ==
  ASSUME Box!ScriptsAssumption
  PROVE  LogInv => Box!LoggedOnce
<1> SUFFICES ASSUME LogInv, NEW s \in Sessions, NEW x \in Box!Mine(s), NEW i \in DOMAIN logged[x]
             PROVE  /\ logged[x][i] <= 1
                    /\ run[x].status = "done" /\ Box!Finished(s)
                       /\ Box!RevisionAt[x[2]][i] = revision[s] => logged[x][i] = 1
    BY DEF Box!LoggedOnce
<1>1. PICK k \in ScriptsOf[s] : x = <<s, k>> /\ x[2] = k
      BY DEF Box!Mine
<1>2. k \in DOMAIN Code /\ ScriptInv(k, revision[s], cache[s], run[x], logged[x])
      BY <1>1 DEF LogInv, Box!ScriptsAssumption
<1>3. i \in Box!Of(k, "log") /\ logged[x][i] \in {0, 1}
      BY <1>2 DEF ScriptInv, NeverTwice
<1>4. i \in 1 .. Len(Code[k]) /\ Len(Code[k]) \in Nat
      BY <1>2, <1>3, Statements
<1>5. ASSUME run[x].status = "done", Box!RevisionAt[k][i] = revision[s]
      PROVE  logged[x][i] = 1
      BY <1>2, <1>3, <1>4, <1>5 DEF ScriptInv, LoggedUpTo
<1>6. QED BY <1>1, <1>3, <1>5

\* However often a script is run, because it waits for extensions or commits what it has
\* declared, it logs what it has to once (extCounter and log of the sandbox).
THEOREM AlwaysLoggedOnce ==
  ASSUME Box!ScriptsAssumption
  PROVE  Box!Spec => []Box!LoggedOnce
<1>1. QED BY LogInit, LogStep, LogByInvariant, PTL DEF Box!Spec

-----------------------------------------------------------------------------
\* Declarations: what is to be written is known (Discovery)

\* What Discovery says of finite sets is what is said here.
LEMMA SameDiscovery ==
  ASSUME NEW S
  PROVE  Disc!Cardinality(S) = Cardinality(S) /\ Disc!IsFiniteSet(S) = IsFiniteSet(S)
BY DEF Disc!Cardinality, Cardinality, Disc!IsFiniteSet, IsFiniteSet

\* What a session knows, d, is about finitely many paths.
Whole(d) ==
    /\ d = [ts |-> d.ts, at |-> d.at, tr |-> d.tr, changed |-> d.changed]
    /\ d.changed \in BOOLEAN
    /\ IsFiniteSet(DOMAIN d.ts) /\ IsFiniteSet(DOMAIN d.at)
\* Some declaration wants to hear if p comes or goes; it has heard of it or p is known; the
\* clears that are due will tell of it.
Watched(tr, p) == \E q \in DOMAIN tr : "exist" \in tr[q] /\ Disc!Covering(q, p)
KnownOrNoticed(d, p) == Disc!Known(d, p) \/ d.changed
Forgets(clear, p) == \E c \in clear : c.path = p /\ "exist" \in c.flags

-----------------------------------------------------------------------------
\* Nothing is forgotten in silence

\* A clear does not forget in silence (clearTrackers in DeviceData.clear): a parameter that is
\* watched is known still or the trackers are told, and they are told of the path itself if
\* "exist" is said of it.
LEMMA ClearNotices ==
  ASSUME NEW d, Whole(d), NEW c
  PROVE  /\ Whole(Disc!Clear(d, c)) /\ Disc!Clear(d, c).tr = d.tr
         /\ d.changed => Disc!Clear(d, c).changed
         /\ Len(c.path) \in Nat => \A p : Watched(d.tr, p) /\ Len(p) \in Nat /\ Len(p) <= Disc!Deep =>
               /\ Disc!Known(d, p) => KnownOrNoticed(Disc!Clear(d, c), p)
               /\ c.path = p /\ "exist" \in c.flags => Disc!Clear(d, c).changed
<1> DEFINE below == Disc!Later(c.ts, c.object)
           depth == IF below > 0 THEN Disc!Deep ELSE Len(c.path)
           S == Disc!Find(Disc!Paths(d), c.path, TRUE, TRUE, depth)
           gone == {p \in S \cap DOMAIN d.ts :
                       \/ c.ts > d.ts[p]
                       \/ below > d.ts[p] /\ Len(p) > Len(c.path)}
           aged(p) == {n \in DOMAIN d.at[p] \cap {"object", "value"} : c.object > d.at[p][n][1]}
           older == {p \in (S \cap DOMAIN d.at) \ gone : Len(p) = Len(c.path) /\ aged(p) # {}}
           flags == c.flags \cup (IF gone # {} THEN {"exist"} ELSE {}) \cup UNION {aged(p) : p \in older}
           e == Disc!Clear(d, c)
<1>1. PICK at : at = [p \in DOMAIN d.at \ gone |->
                        IF p \in older THEN Disc!Without(d.at[p], aged(p)) ELSE d.at[p]]
      OBVIOUS
<1>2. e = [d EXCEPT !.ts = Disc!Without(d.ts, gone), !.at = at,
                    !.changed = d.changed \/ (\E p \in S \cap DOMAIN d.tr : d.tr[p] \cap flags # {})]
      BY <1>1 DEF Disc!Clear
<1>3. /\ e.ts = Disc!Without(d.ts, gone) /\ e.at = at /\ e.tr = d.tr
      /\ e.changed = (d.changed \/ (\E p \in S \cap DOMAIN d.tr : d.tr[p] \cap flags # {}))
      /\ e = [ts |-> e.ts, at |-> e.at, tr |-> e.tr, changed |-> e.changed]
  <2> HIDE DEF S, flags, gone
  <2>. QED BY <1>2 DEF Whole
<1>4. DOMAIN e.ts \subseteq DOMAIN d.ts /\ DOMAIN e.at = DOMAIN d.at \ gone
      BY <1>1, <1>3 DEF Disc!Without
<1>5. Whole(e)
  <2> HIDE DEF S, flags, gone
  <2>1. IsFiniteSet(DOMAIN e.ts) /\ IsFiniteSet(DOMAIN e.at)
        BY <1>4, FS_Subset DEF Whole
  <2>2. e.changed \in BOOLEAN
        BY <1>3 DEF Whole
  <2>. QED BY <1>3, <2>1, <2>2 DEF Whole
<1>6. ASSUME Len(c.path) \in Nat,
             NEW p, Watched(d.tr, p), Len(p) \in Nat, Len(p) <= Disc!Deep, "exist" \in flags,
             Len(p) \in Len(c.path) .. depth,
             \A i \in 1 .. Len(c.path) : p[i] = c.path[i] \/ p[i] = Disc!Star \/ c.path[i] = Disc!Star
      PROVE  e.changed
  <2>1. PICK q \in DOMAIN d.tr : "exist" \in d.tr[q] /\ Disc!Covering(q, p)
        BY <1>6 DEF Watched
  <2>2. q \in S
    <3>1. Len(q) \in Len(c.path) .. depth
          BY <1>6, <2>1 DEF Disc!Covering
    <3>2. \A i \in 1 .. Len(c.path) : i \in 1 .. Len(p)
          BY <1>6 DEF Disc!Deep
    <3>3. \A i \in 1 .. Len(c.path) : q[i] = c.path[i] \/ q[i] = Disc!Star \/ c.path[i] = Disc!Star
          BY <1>6, <2>1, <3>2 DEF Disc!Covering
    <3> HIDE DEF depth
    <3>. QED BY <3>1, <3>3 DEF Disc!Find, Disc!Paths
  <2> HIDE DEF S, flags
  <2>. QED BY <1>3, <1>6, <2>1, <2>2
<1>7. ASSUME Len(c.path) \in Nat,
             NEW p, Watched(d.tr, p), Len(p) \in Nat, Len(p) <= Disc!Deep, Disc!Known(d, p)
      PROVE  KnownOrNoticed(e, p)
  <2>1. CASE p \notin gone
        BY <1>4, <1>7, <2>1 DEF KnownOrNoticed, Disc!Known
  <2>2. CASE p \in gone
    <3>1. "exist" \in flags
          BY <2>2
    <3>2. Len(p) \in Len(c.path) .. depth
          /\ \A i \in 1 .. Len(c.path) : p[i] = c.path[i] \/ p[i] = Disc!Star \/ c.path[i] = Disc!Star
      <4>1. p \in S
            BY <2>2
      <4> HIDE DEF depth
      <4>. QED BY <4>1 DEF Disc!Find
    <3> HIDE DEF flags, depth
    <3>. QED BY <1>6, <1>7, <3>1, <3>2 DEF KnownOrNoticed
  <2>. QED BY <2>1, <2>2
<1>8. ASSUME Len(c.path) \in Nat,
             NEW p, Watched(d.tr, p), Len(p) \in Nat, Len(p) <= Disc!Deep, c.path = p, "exist" \in c.flags
      PROVE  e.changed
  <2>1. Len(p) \in Len(c.path) .. depth
    <3>1. depth = Disc!Deep \/ depth = Len(c.path)
          OBVIOUS
    <3>2. Len(c.path) = Len(p)
          BY <1>8, Zenon
    <3> HIDE DEF depth
    <3>. QED BY <1>8, <3>1, <3>2
  <2>2. "exist" \in flags
    <3> HIDE DEF gone, older
    <3>. QED BY <1>8
  <2> HIDE DEF flags, depth
  <2>. QED BY <1>6, <1>8, <2>1, <2>2
<1> HIDE DEF flags, S, gone
<1>9. d.changed => e.changed
      BY <1>3
<1>. QED BY <1>3, <1>5, <1>7, <1>8, <1>9

\* What is forgotten of the parameters of P, of which trackers are told by all of clear, when
\* those of s were cleared.
ClearOne(z, c, d) == Disc!Clear(d, c)
AnyOf(s) == CHOOSE x \in s : TRUE
StillNoticed(z, s, d) ==
    /\ Whole(d) /\ d.tr = z.tr
    /\ \A p \in z.ps : KnownOrNoticed(d, p) \/ Forgets(z.clear \ s, p)
C == INSTANCE FoldFacts WITH Op <- ClearOne, Pick <- AnyOf, Good <- StillNoticed

WatchedPaths(ps, tr) == \A p \in ps : Watched(tr, p) /\ Len(p) \in Nat /\ Len(p) <= Disc!Deep
HavePaths(clear) == \A c \in clear : Len(c.path) \in Nat

\* What a response says so far: of the parameters of P either something is known, or what
\* depends on them is told, or they are about to be cleared.
Noticed(ps, tr, done) ==
    /\ Whole(done.d) /\ done.d.tr = tr
    /\ IsFiniteSet(done.clear) /\ (ps # {} => HavePaths(done.clear))
    /\ \A p \in ps : KnownOrNoticed(done.d, p) \/ Forgets(done.clear, p)

\* Nor do all clears of a response: once they are done, of every parameter of P something is
\* known or the trackers are told.
LEMMA ClearAllNotices ==
  ASSUME NEW ps, NEW tr, WatchedPaths(ps, tr), NEW done, Noticed(ps, tr, done)
  PROVE  LET d == Disc!ClearAll(done) IN Whole(d) /\ d.tr = tr /\ \A p \in ps : KnownOrNoticed(d, p)
<1> DEFINE z == [ps |-> ps, tr |-> tr, clear |-> done.clear]
<1>1. Disc!ClearAll(done) = C!Fold(z, done.d, done.clear)
      BY DEF Disc!ClearAll, Disc!FoldSet, Disc!MapThenFoldSet, C!Fold, ClearOne, AnyOf
<1>2. \A s \in SUBSET done.clear : s # {} => AnyOf(s) \in s
      BY DEF AnyOf
<1>3. StillNoticed(z, {}, done.d)
  <2>1. done.clear \ {} = done.clear
        OBVIOUS
  <2>. QED BY <2>1 DEF StillNoticed, Noticed
<1>4. ASSUME NEW s \in SUBSET done.clear, NEW c \in done.clear \ s, NEW d, StillNoticed(z, s, d)
      PROVE  StillNoticed(z, s \cup {c}, ClearOne(z, c, d))
  <2>1. Whole(d) /\ d.tr = tr /\ (ps # {} => Len(c.path) \in Nat)
        BY <1>4 DEF StillNoticed, Noticed, HavePaths
  <2>2. PICK e : e = Disc!Clear(d, c)
        OBVIOUS
  <2>3. Whole(e) /\ e.tr = tr /\ (d.changed => e.changed)
        BY <2>1, <2>2, ClearNotices
  <2>4. ASSUME NEW p \in ps
        PROVE  KnownOrNoticed(e, p) \/ Forgets(done.clear \ (s \cup {c}), p)
    <3>1. Watched(d.tr, p) /\ Len(p) \in Nat /\ Len(p) <= Disc!Deep /\ Len(c.path) \in Nat
          BY <2>1 DEF WatchedPaths
    <3>2. KnownOrNoticed(d, p) \/ Forgets(done.clear \ s, p)
          BY <1>4 DEF StillNoticed
    <3>3. CASE KnownOrNoticed(d, p)
          BY <2>1, <2>2, <2>3, <3>1, <3>3, ClearNotices DEF KnownOrNoticed
    <3>4. CASE Forgets(done.clear \ s, p)
      <4>1. PICK b \in done.clear \ s : b.path = p /\ "exist" \in b.flags
            BY <3>4 DEF Forgets
      <4>2. CASE b = c
            BY <2>1, <2>2, <3>1, <4>1, <4>2, ClearNotices DEF KnownOrNoticed
      <4>3. CASE b # c
            BY <4>1, <4>3 DEF Forgets
      <4>. QED BY <4>2, <4>3
    <3>. QED BY <3>2, <3>3, <3>4
  <2>. QED BY <2>2, <2>3, <2>4 DEF StillNoticed, ClearOne
<1>5. IsFiniteSet(done.clear)
      BY DEF Noticed
<1> HIDE DEF z
<1>6. StillNoticed(z, done.clear, C!Fold(z, done.d, done.clear))
      BY <1>2, <1>3, <1>4, <1>5, C!FoldKeeps DEF IsFiniteSet, C!IsFiniteSet
<1>7. PICK d : d = Disc!ClearAll(done)
      OBVIOUS
<1>8. StillNoticed(z, done.clear, d)
      BY <1>1, <1>6, <1>7
<1>9. \A p : ~Forgets(done.clear \ done.clear, p)
      BY DEF Forgets
<1>10. Whole(d) /\ d.tr = tr /\ \A p \in ps : KnownOrNoticed(d, p)
      BY <1>8, <1>9 DEF StillNoticed, z
<1>. QED BY <1>7, <1>10

\* What a step of set does, of which r is the result: nothing is forgotten in silence.
SetsWell(d, r) ==
    /\ Whole(r.d) /\ r.d.tr = d.tr
    /\ IsFiniteSet(r.clear) /\ HavePaths(r.clear)
    /\ \A p : KnownOrNoticed(d, p) => KnownOrNoticed(r.d, p) \/ Forgets(r.clear, p)

\* A parameter that is said to be gone is forgotten with a clear that tells of it.
LEMMA SetGoneNotices ==
  ASSUME NEW d, Whole(d), NEW path, Len(path) \in Nat, NEW t
  PROVE  SetsWell(d, Disc!SetGone(d, path, t))
<1> DEFINE stale == IF Disc!Wild(path)
                    THEN {q \in Disc!Find(DOMAIN d.ts, path, FALSE, TRUE, Len(path)) \ {path} : t > d.ts[q]}
                    ELSE {}
           cleared(q, flags) == [path |-> q, ts |-> t, object |-> 0, flags |-> flags]
           own == IF Disc!Known(d, path) THEN {cleared(path, {"exist"})} ELSE {}
           clear == {cleared(q, {}) : q \in stale} \cup own
           e == [d EXCEPT !.ts = Disc!With(d.ts, path, t), !.at = Disc!Without(d.at, {path})]
           r == Disc!SetGone(d, path, t)
<1>1. CASE ~Disc!Late(d, path, t)
  <2>1. r = [d |-> d, clear |-> {}, up |-> FALSE, t |-> t]
        BY <1>1 DEF Disc!SetGone
  <2>2. r.d = d /\ r.clear = {}
        BY <2>1
  <2>. QED BY <2>2, FS_EmptySet DEF SetsWell, HavePaths
<1>2. CASE Disc!Late(d, path, t)
  <2>1. r = [d |-> e, clear |-> clear, up |-> FALSE, t |-> t]
        BY <1>2 DEF Disc!SetGone
  <2>2. r.d = e /\ r.clear = clear
        BY <2>1
  <2>3. /\ e = [ts |-> e.ts, at |-> e.at, tr |-> e.tr, changed |-> e.changed]
        /\ e.changed = d.changed /\ e.tr = d.tr
        /\ e.ts = Disc!With(d.ts, path, t) /\ e.at = Disc!Without(d.at, {path})
    <3>1. PICK x, ts, at : x = e /\ ts = Disc!With(d.ts, path, t) /\ at = Disc!Without(d.at, {path})
          OBVIOUS
    <3>2. x = [d EXCEPT !.ts = ts, !.at = at]
          BY <3>1
    <3>3. /\ x = [ts |-> x.ts, at |-> x.at, tr |-> x.tr, changed |-> x.changed]
          /\ x.changed = d.changed /\ x.tr = d.tr /\ x.ts = ts /\ x.at = at
          BY <3>2 DEF Whole
    <3> HIDE DEF e
    <3>. QED BY <3>1, <3>3
  <2>4. DOMAIN e.ts = DOMAIN d.ts \cup {path} /\ DOMAIN e.at = DOMAIN d.at \ {path}
        BY <2>3 DEF Disc!With, Disc!Without
  <2>5. Whole(e)
    <3>1. IsFiniteSet(DOMAIN e.ts)
          BY <2>4, FS_AddElement DEF Whole
    <3>2. IsFiniteSet(DOMAIN e.at)
          BY <2>4, FS_Subset DEF Whole
    <3>. QED BY <2>3, <3>1, <3>2 DEF Whole
  <2>6. stale \subseteq DOMAIN d.ts /\ \A q \in stale : Len(q) \in Nat
        BY DEF Disc!Find
  <2>7. IsFiniteSet(clear)
    <3>1. IsFiniteSet(stale)
          BY <2>6, FS_Subset DEF Whole
    <3> HIDE DEF stale
    <3>2. IsFiniteSet({cleared(q, {}) : q \in stale})
      <4>1. [q \in stale |-> cleared(q, {})] \in Surjection(stale, {cleared(q, {}) : q \in stale})
            BY DEF Surjection
      <4>. QED BY <3>1, <4>1, FS_Surjection
    <3>3. IsFiniteSet(own)
          BY FS_EmptySet, FS_Singleton
    <3> HIDE DEF own, cleared
    <3>. QED BY <3>2, <3>3, FS_Union
  <2>8. HavePaths(clear)
    <3> HIDE DEF stale
    <3>. QED BY <2>6 DEF HavePaths
  <2>9. ASSUME NEW p, KnownOrNoticed(d, p)
        PROVE  KnownOrNoticed(e, p) \/ Forgets(clear, p)
    <3>1. CASE d.changed
          BY <2>3, <3>1 DEF KnownOrNoticed
    <3>2. CASE Disc!Known(d, p) /\ p # path
          BY <2>4, <3>2 DEF KnownOrNoticed, Disc!Known
    <3>3. CASE Disc!Known(d, p) /\ p = path
      <4>1. own = {cleared(path, {"exist"})}
            BY <3>3
      <4>2. cleared(path, {"exist"}) \in clear
            BY <4>1
      <4>3. cleared(path, {"exist"}).path = p /\ "exist" \in cleared(path, {"exist"}).flags
            BY <3>3
      <4> HIDE DEF clear, cleared
      <4>. QED BY <4>2, <4>3 DEF Forgets
    <3>. QED BY <2>9, <3>1, <3>2, <3>3 DEF KnownOrNoticed
  <2> HIDE DEF e, clear
  <2>. QED BY <2>2, <2>3, <2>5, <2>7, <2>8, <2>9 DEF SetsWell
<1>. QED BY <1>1, <1>2

\* Attributes that are set forget nothing but what they clear.
LEMMA SetAttrsNotices ==
  ASSUME NEW d, Whole(d), NEW path, Len(path) \in Nat, NEW t, NEW current, NEW given, NEW newer, NEW flags
  PROVE  SetsWell(d, Disc!SetAttrs(d, path, t, current, given, newer, flags))
<1> DEFINE r == Disc!SetAttrs(d, path, t, current, given, newer, flags)
<1>1. PICK attrs : attrs = Disc!Over([n \in newer |-> given[n]], current)
      OBVIOUS
<1>2. PICK told \in BOOLEAN :
         told = (/\ flags \cap {"exist", "object"} = {}
                 /\ \E q \in Disc!Find(DOMAIN d.tr, path, TRUE, FALSE, Len(path)) : d.tr[q] \cap flags # {})
      OBVIOUS
<1>3. PICK ts : ts = IF Disc!Late(d, path, t) THEN Disc!With(d.ts, path, t) ELSE d.ts
      OBVIOUS
<1>4. PICK clear : clear = IF "exist" \in flags
                           THEN {[path |-> path, ts |-> t, object |-> 0, flags |-> flags]}
                           ELSE IF "object" \in flags
                           THEN {[path |-> path, ts |-> 0, object |-> given.object[1], flags |-> flags]}
                           ELSE {}
      OBVIOUS
<1> DEFINE e == [d EXCEPT !.ts = ts, !.at = Disc!With(d.at, path, attrs), !.changed = d.changed \/ told]
<1>5. r = [d |-> e, clear |-> clear, up |-> Disc!Late(d, path, t) /\ Len(path) > 1, t |-> t]
      BY <1>1, <1>2, <1>3, <1>4 DEF Disc!SetAttrs
<1>6. r.d = e /\ r.clear = clear
      BY <1>5
<1>7. /\ e = [ts |-> e.ts, at |-> e.at, tr |-> e.tr, changed |-> e.changed]
      /\ e.changed = (d.changed \/ told) /\ e.tr = d.tr
      /\ e.ts = ts /\ e.at = Disc!With(d.at, path, attrs)
  <2>1. PICK x, at : x = e /\ at = Disc!With(d.at, path, attrs)
        OBVIOUS
  <2>2. x = [d EXCEPT !.ts = ts, !.at = at, !.changed = d.changed \/ told]
        BY <2>1
  <2>3. /\ x = [ts |-> x.ts, at |-> x.at, tr |-> x.tr, changed |-> x.changed]
        /\ x.changed = (d.changed \/ told) /\ x.tr = d.tr /\ x.ts = ts /\ x.at = at
        BY <2>2 DEF Whole
  <2> HIDE DEF e
  <2>. QED BY <2>1, <2>3
<1>8. DOMAIN e.ts \subseteq DOMAIN d.ts \cup {path} /\ DOMAIN e.at = DOMAIN d.at \cup {path}
      BY <1>3, <1>7 DEF Disc!With
<1> HIDE DEF e
<1>9. Whole(e)
  <2>1. IsFiniteSet(DOMAIN d.ts \cup {path}) /\ IsFiniteSet(DOMAIN d.at \cup {path})
        BY FS_AddElement DEF Whole
  <2>2. IsFiniteSet(DOMAIN e.ts) /\ IsFiniteSet(DOMAIN e.at)
        BY <1>8, <2>1, FS_Subset
  <2>3. e.changed \in BOOLEAN
        BY <1>7 DEF Whole
  <2>. QED BY <1>7, <2>2, <2>3 DEF Whole
<1>10. IsFiniteSet(clear) /\ HavePaths(clear)
  <2>1. clear = {} \/ \E c : clear = {c} /\ c.path = path
        BY <1>4
  <2>2. \A c \in clear : c.path = path
        BY <2>1
  <2>3. IsFiniteSet(clear)
    <3>1. IsFiniteSet({}) /\ \A c : IsFiniteSet({c})
          BY FS_EmptySet, FS_Singleton
    <3>. QED BY ONLY <2>1, <3>1, Zenon
  <2>. QED BY <2>2, <2>3 DEF HavePaths
<1>11. \A p : KnownOrNoticed(d, p) => KnownOrNoticed(e, p)
      BY <1>7, <1>8 DEF KnownOrNoticed, Disc!Known
<1>. QED BY <1>6, <1>7, <1>9, <1>10, <1>11 DEF SetsWell

\* Nor does the setting of one path, whether it is gone, new or known.
LEMMA SetOneNotices ==
  ASSUME NEW d, Whole(d), NEW path, Len(path) \in Nat, NEW t, NEW attrs
  PROVE  SetsWell(d, Disc!SetOne(d, path, t, attrs))
<1>1. \A u, given, newer : SetsWell(d, Disc!SetKnown(d, path, u, d.at[path], given, newer))
  <2> SUFFICES ASSUME NEW u, NEW given, NEW newer
               PROVE  SetsWell(d, Disc!SetKnown(d, path, u, d.at[path], given, newer))
      OBVIOUS
  <2>1. PICK v : v = Disc!FoldSet(Disc!Later, u, {given[n][1] : n \in DOMAIN given})
        OBVIOUS
  <2>2. Disc!SetKnown(d, path, u, d.at[path], given, newer)
          = Disc!SetAttrs(d, path, v, d.at[path], given, newer, Disc!Changed(d.at[path], given, newer))
        BY <2>1, Zenon DEF Disc!SetKnown
  <2>3. PICK current, flags : current = d.at[path] /\ flags = Disc!Changed(d.at[path], given, newer)
        OBVIOUS
  <2>. QED BY <2>2, <2>3, SetAttrsNotices
<1>2. PICK given : given = Disc!Coherent(attrs)
      OBVIOUS
<1>3. PICK newer : newer = {n \in DOMAIN given : Disc!Replaced(d.at[path], given, n)}
      OBVIOUS
<1>4. \/ Disc!SetOne(d, path, t, attrs) = Disc!SetGone(d, path, t)
      \/ Disc!SetOne(d, path, t, attrs) = Disc!SetKnown(d, path, t, d.at[path], given, newer)
      \/ Disc!SetOne(d, path, t, attrs) = Disc!SetAttrs(d, path, t, <<>>, given, DOMAIN given, {"exist"})
      BY <1>2, <1>3 DEF Disc!SetOne, Disc!SetGiven
<1>5. SetsWell(d, Disc!SetAttrs(d, path, t, <<>>, given, DOMAIN given, {"exist"}))
      BY SetAttrsNotices
<1>. QED BY <1>1, <1>4, <1>5, SetGoneNotices

\* Positions of a sequence have a last one.
LEMMA LastPosition ==
  ASSUME NEW n \in Nat, NEW S \in SUBSET (1 .. n), S # {}
  PROVE  Disc!Max(S) \in S
<1> DEFINE R == OpToRel(<, Nat)
           fromEnd == {m \in Nat : n - m \in S}
<1>1. fromEnd \in SUBSET Nat /\ fromEnd # {}
  <2>1. PICK i \in S : i \in 1 .. n
        OBVIOUS
  <2>2. n - i \in fromEnd
        BY <2>1
  <2>. QED BY <2>2
<1> HIDE DEF fromEnd
<1>2. PICK m \in fromEnd : \A l \in fromEnd : <<l, m>> \notin R
      BY ONLY <1>1, NatLessThanWellFounded, WFMin, Zenon
<1>3. \A l \in fromEnd : ~(l < m)
  <2>1. SUFFICES ASSUME NEW l \in fromEnd, l < m PROVE FALSE
        OBVIOUS
  <2>2. <<l, m>> \in R
        BY <2>1, <1>1, Zenon DEF OpToRel
  <2>. QED BY <2>2, <1>2
<1>4. n - m \in S /\ m \in Nat
      BY <1>2 DEF fromEnd
<1>5. \A j \in S : n - m >= j
  <2> SUFFICES ASSUME NEW j \in S PROVE n - m >= j
      OBVIOUS
  <2>1. n - j \in fromEnd
        BY DEF fromEnd
  <2>2. ~(n - j < m)
        BY <1>3, <2>1
  <2>. QED BY <2>2, <1>4
<1>. QED BY <1>4, <1>5 DEF Disc!Max

\* A path and those above it, from the last to the first: a fold over their places.
Upwards(path) == [i \in 1 .. Len(path) |-> Len(path) + 1 - i]
UpOne(z, i, acc) == Disc!Upward(z.path, acc, Upwards(z.path)[i])
LastOf(s) == Disc!Max(s)
UpNoticed(z, s, acc) == Noticed(z.ps, z.tr, acc)
U == INSTANCE FoldFacts WITH Op <- UpOne, Pick <- LastOf, Good <- UpNoticed

\* Setting a path sets those above it as well, from the last to the first.
LEMMA SetNotices ==
  ASSUME NEW ps, NEW tr, NEW done, Noticed(ps, tr, done), NEW path, Disc!IsSequence(path), NEW t, NEW attrs
  PROVE  Noticed(ps, tr, Disc!Set(done, path, t, attrs))
<1> DEFINE z == [ps |-> ps, tr |-> tr, path |-> path]
           begin == [d |-> done.d, clear |-> done.clear, up |-> TRUE, t |-> t, attrs |-> attrs]
<1>1. Len(path) \in Nat /\ \A k \in 1 .. Len(path) : Len(SubSeq(path, 1, k)) \in Nat
      BY DEF Disc!IsSequence
<1>2. DOMAIN Upwards(path) = 1 .. Len(path)
      /\ \A i \in 1 .. Len(path) : Upwards(path)[i] \in 1 .. Len(path)
      BY <1>1 DEF Upwards
<1>3. Disc!Set(done, path, t, attrs) = U!Fold(z, begin, DOMAIN Upwards(path))
      BY DEF Disc!Set, Disc!FoldLeft, Disc!MapThenFoldSet, U!Fold, UpOne, LastOf, Upwards
<1>4. \A s \in SUBSET DOMAIN Upwards(path) : s # {} => LastOf(s) \in s
      BY <1>1, <1>2, LastPosition DEF LastOf
<1>5. UpNoticed(z, {}, begin)
      BY DEF UpNoticed, Noticed
<1>6. IsFiniteSet(DOMAIN Upwards(path))
      BY <1>1, <1>2, FS_Interval
<1>7. ASSUME NEW i \in DOMAIN Upwards(path), NEW acc, Noticed(ps, tr, acc)
      PROVE  Noticed(ps, tr, Disc!Upward(path, acc, Upwards(path)[i]))
  <2>1. CASE ~acc.up
        BY <1>7, <2>1 DEF Disc!Upward
  <2>2. CASE acc.up
    <3>1. PICK k : k = Upwards(path)[i]
          OBVIOUS
    <3>2. PICK r : r = Disc!SetOne(acc.d, SubSeq(path, 1, k), acc.t, acc.attrs)
          OBVIOUS
    <3>3. PICK j : j = Disc!Joined(acc.clear, r)
          OBVIOUS
    <3>4. j.d = r.d /\ j.clear = acc.clear \cup r.clear
          BY <3>3 DEF Disc!Joined
    <3>5. Disc!Upward(path, acc, Upwards(path)[i]) = j
          BY <2>2, <3>1, <3>2, <3>3, Zenon DEF Disc!Upward
    <3>6. Whole(acc.d) /\ Len(SubSeq(path, 1, k)) \in Nat
          BY <1>1, <1>2, <1>7, <3>1 DEF Noticed
    <3>7. SetsWell(acc.d, r)
          BY <3>2, <3>6, SetOneNotices
    <3>8. IsFiniteSet(j.clear)
          BY <1>7, <3>4, <3>7, FS_Union DEF Noticed, SetsWell
    <3>9. ps # {} => HavePaths(j.clear)
          BY <1>7, <3>4, <3>7 DEF Noticed, SetsWell, HavePaths
    <3>10. ASSUME NEW p \in ps
           PROVE  KnownOrNoticed(j.d, p) \/ Forgets(j.clear, p)
      <4>1. KnownOrNoticed(acc.d, p) \/ Forgets(acc.clear, p)
            BY <1>7 DEF Noticed
      <4>2. KnownOrNoticed(acc.d, p) => KnownOrNoticed(r.d, p) \/ Forgets(r.clear, p)
            BY <3>7 DEF SetsWell
      <4>. QED BY <3>4, <4>1, <4>2 DEF Forgets
    <3>11. Whole(j.d) /\ j.d.tr = tr
          BY <1>7, <3>4, <3>7 DEF Noticed, SetsWell
    <3>12. Noticed(ps, tr, j)
          BY <3>8, <3>9, <3>10, <3>11 DEF Noticed
    <3>. QED BY <3>5, <3>12
  <2>. QED BY <2>1, <2>2
<1>8. z.ps = ps /\ z.tr = tr /\ z.path = path
      OBVIOUS
<1> HIDE DEF z, begin
<1>9. \A s \in SUBSET DOMAIN Upwards(path) : \A i \in DOMAIN Upwards(path) \ s : \A acc :
         UpNoticed(z, s, acc) => UpNoticed(z, s \cup {i}, UpOne(z, i, acc))
      BY <1>7, <1>8 DEF UpNoticed, UpOne
<1>10. UpNoticed(z, DOMAIN Upwards(path), U!Fold(z, begin, DOMAIN Upwards(path)))
      BY <1>4, <1>5, <1>6, <1>9, U!FoldKeeps DEF IsFiniteSet, U!IsFiniteSet
<1>. QED BY <1>3, <1>8, <1>10 DEF UpNoticed

\* All that a response says: a fold over it.
TellOne(z, x, done) == Disc!Set(done, x.path, x.t, x.attrs)
ToldNoticed(z, s, done) == Noticed(z.ps, z.tr, done)
H == INSTANCE FoldFacts WITH Op <- TellOne, Pick <- AnyOf, Good <- ToldNoticed

\* All that a response says keeps what is so of P.
LEMMA ToldNotices ==
  ASSUME NEW ps, NEW tr, NEW done, Noticed(ps, tr, done),
         NEW all, IsFiniteSet(all), \A x \in all : Disc!IsSequence(x.path)
  PROVE  Noticed(ps, tr, Disc!Told(done, all))
<1> DEFINE z == [ps |-> ps, tr |-> tr]
<1>1. Disc!Told(done, all) = H!Fold(z, done, all)
      BY DEF Disc!Told, Disc!FoldSet, Disc!MapThenFoldSet, H!Fold, TellOne, AnyOf
<1>2. \A s \in SUBSET all : s # {} => AnyOf(s) \in s
      BY DEF AnyOf
<1>3. z.ps = ps /\ z.tr = tr
      OBVIOUS
<1> HIDE DEF z
<1>4. ToldNoticed(z, {}, done)
      BY <1>3 DEF ToldNoticed
<1>5. \A s \in SUBSET all : \A x \in all \ s : \A so :
         ToldNoticed(z, s, so) => ToldNoticed(z, s \cup {x}, TellOne(z, x, so))
      BY <1>3, SetNotices DEF ToldNoticed, TellOne
<1>6. ToldNoticed(z, all, H!Fold(z, done, all))
      BY <1>2, <1>4, <1>5, H!FoldKeeps DEF IsFiniteSet, H!IsFiniteSet
<1>. QED BY <1>1, <1>3, <1>6 DEF ToldNoticed

\* A response, with its clears, forgets nothing in silence.
LEMMA LearntNotices ==
  ASSUME NEW ps, NEW d, Whole(d), WatchedPaths(ps, d.tr), \A p \in ps : KnownOrNoticed(d, p),
         NEW all, IsFiniteSet(all), \A x \in all : Disc!IsSequence(x.path)
  PROVE  LET e == Disc!Learnt(d, all) IN Whole(e) /\ e.tr = d.tr /\ \A p \in ps : KnownOrNoticed(e, p)
<1> DEFINE done == [d |-> d, clear |-> {}]
<1>1. done.d = d /\ done.clear = {}
      OBVIOUS
<1>2. PICK so : so = Disc!Told(done, all)
      OBVIOUS
<1>3. Disc!Learnt(d, all) = Disc!ClearAll(so)
      BY <1>2 DEF Disc!Learnt
<1> HIDE DEF done
<1>4. Noticed(ps, d.tr, done)
      BY <1>1, FS_EmptySet DEF Noticed, HavePaths
<1>5. Noticed(ps, d.tr, so)
      BY <1>2, <1>4, ToldNotices
<1>. QED BY <1>3, <1>5, ClearAllNotices

-----------------------------------------------------------------------------
\* Declarations: all that they name is tracked, and only what they name is assigned.

\* Tracking adds trackers, and changes nothing else.
Grows(d, e) ==
    /\ Whole(e) /\ e.ts = d.ts /\ e.at = d.at /\ e.changed = d.changed
    /\ \A q \in DOMAIN d.tr : q \in DOMAIN e.tr /\ d.tr[q] \subseteq e.tr[q]
Watches(d, path) == path \in DOMAIN d.tr /\ "exist" \in d.tr[path]

\* track adds to the trackers and changes nothing else.
LEMMA TrackGrows ==
  ASSUME NEW d, Whole(d), NEW path, NEW flags
  PROVE  LET e == Disc!Track(d, path, flags)
         IN  Grows(d, e) /\ path \in DOMAIN e.tr /\ flags \subseteq e.tr[path]
<1>1. PICK had : had = IF path \in DOMAIN d.tr THEN d.tr[path] ELSE {}
      OBVIOUS
<1>2. PICK tr : tr = Disc!With(d.tr, path, flags \cup had)
      OBVIOUS
<1>3. PICK e : e = Disc!Track(d, path, flags)
      OBVIOUS
<1>4. e = [d EXCEPT !.tr = tr]
      BY <1>1, <1>2, <1>3 DEF Disc!Track
<1>5. /\ e = [ts |-> e.ts, at |-> e.at, tr |-> e.tr, changed |-> e.changed]
      /\ e.ts = d.ts /\ e.at = d.at /\ e.changed = d.changed /\ e.tr = tr
      BY <1>4 DEF Whole
<1>6. Whole(e)
      BY <1>5 DEF Whole
<1>7. /\ \A q \in DOMAIN d.tr : q \in DOMAIN tr /\ d.tr[q] \subseteq tr[q]
      /\ path \in DOMAIN tr /\ flags \subseteq tr[path]
      BY <1>1, <1>2 DEF Disc!With
<1>. QED BY <1>3, <1>5, <1>6, <1>7 DEF Grows

\* The keys of an alias: a fold over them.
TrackKey(z, n, e) == Disc!Track(e, Append(z.path, n), {"exist", "value"})
KeysTracked(z, s, e) == Grows(z.d, e) /\ Watches(e, z.path)
K == INSTANCE FoldFacts WITH Op <- TrackKey, Pick <- AnyOf, Good <- KeysTracked

\* A declaration tracks its path, and the keys of its alias.
LEMMA TrackedGrows ==
  ASSUME NEW d, Whole(d), NEW decl, IsFiniteSet(DOMAIN decl.alias)
  PROVE  Grows(d, Disc!Tracked(d, decl)) /\ Watches(Disc!Tracked(d, decl), decl.path)
<1> DEFINE z == [path |-> decl.path, d |-> d]
<1>1. PICK begin : begin = Disc!Track(d, decl.path, {"exist"})
      OBVIOUS
<1>2. PICK keys : keys = DOMAIN decl.alias
      OBVIOUS
<1>3. Disc!Tracked(d, decl) = K!Fold(z, begin, keys)
      BY <1>1, <1>2 DEF Disc!Tracked, Disc!FoldSet, Disc!MapThenFoldSet, K!Fold, TrackKey, AnyOf
<1>4. z.path = decl.path /\ z.d = d
      OBVIOUS
<1> HIDE DEF z
<1>5. KeysTracked(z, {}, begin)
      BY <1>1, <1>4, TrackGrows DEF KeysTracked, Watches
<1>6. ASSUME NEW s, NEW n, NEW e, KeysTracked(z, s, e)
      PROVE  KeysTracked(z, s \cup {n}, TrackKey(z, n, e))
  <2>1. PICK f : f = Disc!Track(e, Append(z.path, n), {"exist", "value"})
        OBVIOUS
  <2>2. Whole(e)
        BY <1>6 DEF KeysTracked, Grows
  <2>3. Grows(e, f)
        BY <2>1, <2>2, TrackGrows
  <2>. QED BY <1>6, <2>1, <2>3 DEF KeysTracked, TrackKey, Grows, Watches
<1>7. \A s \in SUBSET keys : s # {} => AnyOf(s) \in s
      BY DEF AnyOf
<1>8. \A s \in SUBSET keys : \A n \in keys \ s : \A e :
         KeysTracked(z, s, e) => KeysTracked(z, s \cup {n}, TrackKey(z, n, e))
      BY <1>6
<1>9. KeysTracked(z, keys, K!Fold(z, begin, keys))
      BY <1>2, <1>5, <1>7, <1>8, K!FoldKeeps DEF IsFiniteSet, K!IsFiniteSet
<1>. QED BY <1>3, <1>4, <1>9 DEF KeysTracked

\* The declarations, one after the other: folds over their positions.
TrackDecl(z, i, e) == Disc!Tracked(e, z.decls[i])
DeclsTracked(z, s, e) == Grows(z.d, e) /\ \A i \in s : Watches(e, z.decls[i].path)
G == INSTANCE FoldFacts WITH Op <- TrackDecl, Pick <- LastOf, Good <- DeclsTracked

Declarations(decls) ==
    /\ Disc!IsSequence(decls)
    /\ \A i \in DOMAIN decls :
          /\ Disc!IsSequence(decls[i].path) /\ Len(decls[i].path) <= Disc!Deep
          /\ IsFiniteSet(DOMAIN decls[i].alias)
          /\ decls[i].count \subseteq Nat \X Nat

\* The positions of declarations are finitely many, and those of any of them have a last one.
LEMMA DeclarationsOrdered ==
  ASSUME NEW decls, Disc!IsSequence(decls)
  PROVE  IsFiniteSet(DOMAIN decls) /\ \A s \in SUBSET DOMAIN decls : s # {} => LastOf(s) \in s
<1>1. Len(decls) \in Nat /\ DOMAIN decls = 1 .. Len(decls)
      BY DEF Disc!IsSequence
<1>2. IsFiniteSet(1 .. Len(decls))
      BY <1>1, FS_Interval
<1>. QED BY <1>1, <1>2, LastPosition DEF LastOf

\* All declarations together track each one's path.
LEMMA AllTracked ==
  ASSUME NEW d, Whole(d), NEW decls, Declarations(decls)
  PROVE  LET e == Disc!FoldLeft(Disc!Tracked, d, decls)
         IN  Grows(d, e) /\ \A i \in DOMAIN decls : Watches(e, decls[i].path)
<1> DEFINE z == [decls |-> decls, d |-> d]
<1>1. Disc!FoldLeft(Disc!Tracked, d, decls) = G!Fold(z, d, DOMAIN decls)
      BY DEF Disc!FoldLeft, Disc!MapThenFoldSet, G!Fold, TrackDecl, LastOf
<1>2. z.decls = decls /\ z.d = d
      OBVIOUS
<1> HIDE DEF z
<1>3. DeclsTracked(z, {}, d)
      BY <1>2 DEF DeclsTracked, Grows
<1>4. ASSUME NEW s, NEW i \in DOMAIN decls, NEW e, DeclsTracked(z, s, e)
      PROVE  DeclsTracked(z, s \cup {i}, TrackDecl(z, i, e))
  <2>1. PICK f : f = Disc!Tracked(e, decls[i])
        OBVIOUS
  <2>2. Whole(e)
        BY <1>4 DEF DeclsTracked, Grows
  <2>3. IsFiniteSet(DOMAIN decls[i].alias)
        BY DEF Declarations
  <2>4. Grows(e, f) /\ Watches(f, decls[i].path)
        BY <2>1, <2>2, <2>3, TrackedGrows
  <2>5. Grows(d, f)
        BY <1>2, <1>4, <2>4 DEF DeclsTracked, Grows
  <2>6. \A j \in s : Watches(f, decls[j].path)
        BY <1>2, <1>4, <2>4 DEF DeclsTracked, Watches, Grows
  <2>. QED BY <1>2, <2>1, <2>4, <2>5, <2>6 DEF DeclsTracked, TrackDecl
<1>5. \A s \in SUBSET DOMAIN decls : \A i \in DOMAIN decls \ s : \A e :
         DeclsTracked(z, s, e) => DeclsTracked(z, s \cup {i}, TrackDecl(z, i, e))
      BY <1>4
<1>6. IsFiniteSet(DOMAIN decls) /\ \A s \in SUBSET DOMAIN decls : s # {} => LastOf(s) \in s
      BY DeclarationsOrdered DEF Declarations
<1>7. DeclsTracked(z, DOMAIN decls, G!Fold(z, d, DOMAIN decls))
      BY <1>3, <1>5, <1>6, G!FoldKeeps DEF IsFiniteSet, G!IsFiniteSet
<1>. QED BY <1>1, <1>2, <1>7 DEF DeclsTracked

AssignOne(z, i, v) == Disc!Over([p \in Disc!Targets(z.d, z.decls[i]) |-> Disc!The(z.decls[i].set)], v)
OnlyTargets(z, s, v) == \A p \in DOMAIN v : \E i \in s : p \in Disc!Targets(z.d, z.decls[i])
Z == INSTANCE FoldFacts WITH Op <- AssignOne, Pick <- LastOf, Good <- OnlyTargets

\* A value is assigned only to what some declaration aims at.
LEMMA AssignedToTargets ==
  ASSUME NEW d, NEW decls, Declarations(decls), NEW p \in DOMAIN Disc!Assigned(d, decls)
  PROVE  \E i \in DOMAIN decls : p \in Disc!Targets(d, decls[i])
<1> DEFINE z == [decls |-> decls, d |-> d]
<1>1. Disc!Assigned(d, decls) = Z!Fold(z, <<>>, DOMAIN decls)
      BY DEF Disc!Assigned, Disc!FoldLeft, Disc!MapThenFoldSet, Z!Fold, AssignOne, LastOf
<1>2. z.decls = decls /\ z.d = d
      OBVIOUS
<1> HIDE DEF z
<1>3. OnlyTargets(z, {}, <<>>)
      BY DEF OnlyTargets
<1>4. ASSUME NEW s, NEW i \in DOMAIN decls, NEW v, OnlyTargets(z, s, v)
      PROVE  OnlyTargets(z, s \cup {i}, AssignOne(z, i, v))
  <2>1. DOMAIN AssignOne(z, i, v) = Disc!Targets(z.d, z.decls[i]) \cup DOMAIN v
        BY DEF AssignOne, Disc!Over
  <2>. QED BY <1>4, <2>1 DEF OnlyTargets
<1>5. \A s \in SUBSET DOMAIN decls : \A i \in DOMAIN decls \ s : \A v :
         OnlyTargets(z, s, v) => OnlyTargets(z, s \cup {i}, AssignOne(z, i, v))
      BY <1>4
<1>6. IsFiniteSet(DOMAIN decls) /\ \A s \in SUBSET DOMAIN decls : s # {} => LastOf(s) \in s
      BY DeclarationsOrdered DEF Declarations
<1>7. OnlyTargets(z, DOMAIN decls, Z!Fold(z, <<>>, DOMAIN decls))
      BY <1>3, <1>5, <1>6, Z!FoldKeeps DEF IsFiniteSet, Z!IsFiniteSet
<1>. QED BY <1>1, <1>2, <1>7 DEF OnlyTargets

\* So what is assigned is watched.
LEMMA AssignedIsWatched ==
  ASSUME NEW d, Whole(d), NEW decls, Declarations(decls)
  PROVE  WatchedPaths(DOMAIN Disc!Assigned(d, decls), Disc!FoldLeft(Disc!Tracked, d, decls).tr)
<1>1. PICK e : e = Disc!FoldLeft(Disc!Tracked, d, decls)
      OBVIOUS
<1>2. ASSUME NEW p \in DOMAIN Disc!Assigned(d, decls)
      PROVE  Watched(e.tr, p) /\ Len(p) \in Nat /\ Len(p) <= Disc!Deep
  <2>1. PICK i \in DOMAIN decls : p \in Disc!Targets(d, decls[i])
        BY AssignedToTargets
  <2>2. PICK path : path = decls[i].path
        OBVIOUS
  <2>3. Len(path) \in Nat /\ Len(path) <= Disc!Deep
    <3>1. Disc!IsSequence(path) /\ Len(path) <= Disc!Deep
          BY <2>2 DEF Declarations
    <3>. QED BY <3>1 DEF Disc!IsSequence
  <2>4. p = path \/ p \in Disc!Find(DOMAIN d.at, path, FALSE, TRUE, Len(path))
        BY <2>1, <2>2 DEF Disc!Targets, Disc!Found, Disc!Unpack
  <2>5. Len(p) = Len(path) /\ \A j \in 1 .. Len(p) : path[j] \in {p[j], Disc!Star}
        BY <2>3, <2>4 DEF Disc!Find
  <2>6. Watches(e, path)
        BY <1>1, <2>2, AllTracked
  <2>7. Watched(e.tr, p)
        BY <2>5, <2>6 DEF Watched, Watches, Disc!Covering
  <2>. QED BY <2>3, <2>5, <2>7
<1>. QED BY <1>1, <1>2 DEF WatchedPaths

-----------------------------------------------------------------------------
\* What syncState is made of.
Fields == {"on", "exist", "object", "writable", "value", "gpn", "spv", "delete", "create", "reboot"}
Aliases == UNION {{s.decls[i].alias : i \in DOMAIN s.decls} : s \in Scenarios}

\* Positions are finitely many.
LEMMA PositionsFinite ==
  ASSUME NEW n \in Nat, NEW S \in SUBSET (1 .. n)
  PROVE  IsFiniteSet(S) /\ Cardinality(S) \in Nat /\ \A k \in S : k \in Nat /\ 1 <= k /\ k <= n
<1>1. IsFiniteSet(1 .. n)
      BY FS_Interval
<1>2. IsFiniteSet(S)
      BY ONLY <1>1, S \in SUBSET (1 .. n), FS_Subset, Zenon
<1>3. Cardinality(S) \in Nat
      BY <1>2, FS_CardinalityType
<1>. QED BY <1>2, <1>3

UpTo(S, m) == {k \in S : k <= m}

\* Every rank up to the size of a set of positions is that of one of them.
LEMMA RankReached ==
  ASSUME NEW N \in Nat, NEW S \in SUBSET (1 .. N), NEW j \in 1 .. Cardinality(S)
  PROVE  \E i \in S : Disc!Rank(i, S) = j
<1> DEFINE enough == {m \in Nat : Cardinality(UpTo(S, m)) >= j}
<1>1. IsFiniteSet(S) /\ Cardinality(S) \in Nat /\ j \in Nat /\ j # 0 /\ j <= Cardinality(S)
      BY PositionsFinite
<1>2. \A k \in S : k \in Nat /\ 1 <= k /\ k <= N
      BY PositionsFinite
<1>3. ASSUME NEW m \in Nat
      PROVE  IsFiniteSet(UpTo(S, m)) /\ Cardinality(UpTo(S, m)) \in Nat
  <2>1. UpTo(S, m) \in SUBSET S
        BY DEF UpTo
  <2>2. IsFiniteSet(UpTo(S, m))
        BY ONLY <1>1, <2>1, FS_Subset, Zenon
  <2>. QED BY <2>2, FS_CardinalityType
<1>4. N \in enough
  <2>1. UpTo(S, N) = S
        BY <1>2 DEF UpTo
  <2>. QED BY <1>1, <2>1
<1>5. PICK m \in enough : m = 0 \/ (m - 1 \in Nat /\ m - 1 \notin enough)
  <2>1. enough \in SUBSET Nat /\ enough # {}
        BY <1>4
  <2> HIDE DEF enough
  <2>. QED BY <2>1, C!Least
<1>6. m # 0
  <2>1. UpTo(S, 0) = {}
    <3>1. \A k \in S : ~(k <= 0)
          BY <1>2
    <3>. QED BY ONLY <3>1, Zenon DEF UpTo
  <2>2. Cardinality(UpTo(S, 0)) = 0
        BY <2>1, FS_EmptySet
  <2>3. m = 0 => Cardinality(UpTo(S, 0)) >= j
        BY <1>5
  <2>. QED BY <1>1, <2>2, <2>3
<1>7. /\ m \in Nat /\ m - 1 \in Nat
      /\ Cardinality(UpTo(S, m)) >= j /\ ~(Cardinality(UpTo(S, m - 1)) >= j)
      BY <1>5, <1>6
<1> HIDE DEF enough
<1>8. PICK R : R = UpTo(S, m - 1)
      OBVIOUS
<1>9. IsFiniteSet(R) /\ Cardinality(R) \in Nat /\ ~(Cardinality(R) >= j)
      BY <1>3, <1>7, <1>8
<1>10. CASE m \notin S
  <2>1. UpTo(S, m) = R
    <3>1. \A k \in S : k <= m <=> k <= m - 1
          BY <1>2, <1>7, <1>10
    <3>2. UpTo(S, m) = UpTo(S, m - 1)
          BY ONLY <3>1, Zenon DEF UpTo
    <3>. QED BY <1>8, <3>2
  <2>. QED BY <1>7, <1>9, <2>1
<1>11. CASE m \in S
  <2>1. UpTo(S, m) = R \cup {m} /\ m \notin R
    <3>1. \A k \in S : k <= m <=> (k <= m - 1 \/ k = m)
          BY <1>2, <1>7
    <3>2. ~(m <= m - 1)
          BY <1>7
    <3>. QED BY ONLY <1>8, <1>11, <3>1, <3>2, Zenon DEF UpTo
  <2>2. Cardinality(UpTo(S, m)) = Cardinality(R) + 1
        BY <1>9, <2>1, FS_AddElement
  <2>3. Disc!Rank(m, S) = Cardinality(UpTo(S, m))
        BY SameDiscovery DEF Disc!Rank, UpTo
  <2>4. Cardinality(R) + 1 >= j
        BY <1>7, <2>2
  <2>5. Disc!Rank(m, S) = j
        BY <1>1, <1>9, <2>2, <2>3, <2>4
  <2>. QED BY <1>11, <2>5
<1>. QED BY <1>10, <1>11

\* What is to be created has the keys of an alias.
LEMMA CreationsAreAliases ==
  ASSUME NEW n, NEW keys \in Aliases, NEW min \in Nat, NEW max, NEW create \in Seq(Aliases)
  PROVE  Disc!Creations(n, keys, min, max, create) \in Seq(Aliases)
<1> DEFINE fuller == {i \in DOMAIN create : Disc!Covers(create[i], keys)}
           kept == {i \in DOMAIN create : i \in fuller => n + Disc!Rank(i, fuller) <= max}
           vaguer == {i \in kept : Disc!Covers(keys, create[i])}
           m == n + Disc!Cardinality(fuller)
           become == [i \in DOMAIN create |->
                     IF i \in vaguer /\ m + Disc!Rank(i, vaguer) <= min THEN keys ELSE create[i]]
           missing == {j \in 1 .. min : j > m + Disc!Cardinality(vaguer)}
           first == [j \in 1 .. Disc!Cardinality(kept) |-> become[Disc!The({i \in kept : Disc!Rank(i, kept) = j})]]
           second == [j \in 1 .. Disc!Cardinality(missing) |-> keys]
<1>1. Disc!Creations(n, keys, min, max, create) = first \o second
      BY DEF Disc!Creations
<1>2. Len(create) \in Nat /\ DOMAIN create = 1 .. Len(create) /\ \A i \in DOMAIN create : create[i] \in Aliases
      OBVIOUS
<1>3. kept \in SUBSET (1 .. Len(create)) /\ missing \in SUBSET (1 .. min)
      BY <1>2
<1>4. \A i \in DOMAIN create : become[i] \in Aliases
  <2> HIDE DEF vaguer, m
  <2>. QED BY <1>2
<1> HIDE DEF kept, missing, become
<1>5. Disc!Cardinality(kept) \in Nat /\ Disc!Cardinality(missing) \in Nat
      BY <1>2, <1>3, PositionsFinite, SameDiscovery
<1>6. ASSUME NEW j \in 1 .. Disc!Cardinality(kept)
      PROVE  become[Disc!The({i \in kept : Disc!Rank(i, kept) = j})] \in Aliases
  <2>1. {i \in kept : Disc!Rank(i, kept) = j} # {}
        BY <1>2, <1>3, RankReached, SameDiscovery
  <2>2. Disc!The({i \in kept : Disc!Rank(i, kept) = j}) \in kept
        BY <2>1 DEF Disc!The
  <2>. QED BY <1>2, <1>3, <1>4, <2>2
<1>7. first \in Seq(Aliases) /\ second \in Seq(Aliases)
  <2>1. first \in [1 .. Disc!Cardinality(kept) -> Aliases] /\ second \in [1 .. Disc!Cardinality(missing) -> Aliases]
        BY <1>6
  <2> HIDE DEF first, second
  <2>. QED BY <1>5, <2>1
<1> HIDE DEF first, second
<1>. QED BY <1>1, <1>7

\* A syncState whose creations have the keys of aliases.
Creates(s) == Fields \subseteq DOMAIN s /\ s.on = TRUE /\ s.create \in Seq(Aliases)
ProvideOne(z, i, s) == Disc!Provided(z.d, s, z.decls[i])
CreatesSo(z, done, s) == Creates(s)
V == INSTANCE FoldFacts WITH Op <- ProvideOne, Pick <- LastOf, Good <- CreatesSo

\* One declaration asks for instances with keys of aliases only.
LEMMA ProvidedCreates ==
  ASSUME NEW d, NEW s, Creates(s), NEW decl, decl.count \subseteq Nat \X Nat, decl.alias \in Aliases
  PROVE  Creates(Disc!Provided(d, s, decl))
<1>1. CASE decl.count = {}
      BY <1>1 DEF Disc!Provided
<1>2. CASE decl.count # {}
  <2> DEFINE min == Disc!The(decl.count)[1]
             max == Disc!The(decl.count)[2]
  <2>1. PICK delete : delete = Disc!Deletions(Disc!Here(d, decl), min, max, s.delete)
        OBVIOUS
  <2>2. PICK create : create = IF ~Disc!Wild(decl.path) THEN s.create
                               ELSE Disc!Creations(Len(Disc!Here(d, decl)), decl.alias, min, max, s.create)
        OBVIOUS
  <2>3. Disc!Provided(d, s, decl) = [s EXCEPT !.delete = delete, !.create = create]
        BY <1>2, <2>1, <2>2 DEF Disc!Provided
  <2>4. min \in Nat
    <3>1. Disc!The(decl.count) \in decl.count
          BY <1>2 DEF Disc!The
    <3>. QED BY <3>1
  <2> HIDE DEF min, max
  <2>5. create \in Seq(Aliases)
        BY <2>2, <2>4, CreationsAreAliases DEF Creates
  <2>. QED BY <2>3, <2>5 DEF Creates, Fields
<1>. QED BY <1>1, <1>2

\* And so do all of them.
LEMMA AllProvidedCreate ==
  ASSUME NEW d, NEW decls, Declarations(decls), \A i \in DOMAIN decls : decls[i].alias \in Aliases
  PROVE  Creates(Disc!AllProvided(d, decls))
<1> DEFINE z == [decls |-> decls, d |-> d]
<1>1. Disc!AllProvided(d, decls) = V!Fold(z, Disc!Sync, DOMAIN decls)
      BY DEF Disc!AllProvided, Disc!FoldLeft, Disc!MapThenFoldSet, V!Fold, ProvideOne, LastOf
<1>2. z.decls = decls /\ z.d = d
      OBVIOUS
<1> HIDE DEF z
<1>3. CreatesSo(z, {}, Disc!Sync)
      BY DEF CreatesSo, Creates, Disc!Sync, Fields
<1>4. ASSUME NEW i \in DOMAIN decls, NEW s, Creates(s)
      PROVE  Creates(ProvideOne(z, i, s))
  <2>1. decls[i].count \subseteq Nat \X Nat
        BY DEF Declarations
  <2>. QED BY <1>2, <1>4, <2>1, ProvidedCreates DEF ProvideOne
<1>5. \A s \in SUBSET DOMAIN decls : \A i \in DOMAIN decls \ s : \A a :
         CreatesSo(z, s, a) => CreatesSo(z, s \cup {i}, ProvideOne(z, i, a))
      BY <1>4 DEF CreatesSo
<1>6. IsFiniteSet(DOMAIN decls) /\ \A s \in SUBSET DOMAIN decls : s # {} => LastOf(s) \in s
      BY DeclarationsOrdered DEF Declarations
<1>7. CreatesSo(z, DOMAIN decls, V!Fold(z, Disc!Sync, DOMAIN decls))
      BY <1>3, <1>5, <1>6, V!FoldKeeps DEF IsFiniteSet, V!IsFiniteSet
<1>. QED BY <1>1, <1>7 DEF CreatesSo

\* What is to be read and written is known, and nothing but what is assigned is written.
LEMMA ProcessedIsKnown ==
  ASSUME NEW d, NEW s, Creates(s), NEW wanted, NEW toWrite, NEW assigned
  PROVE  LET r == Disc!Processed(d, s, wanted, toWrite, assigned)
         IN  /\ Creates(r) /\ r.value \subseteq DOMAIN d.at
             /\ DOMAIN r.spv \subseteq DOMAIN d.at \cap DOMAIN assigned
<1> DEFINE ps == Disc!Paths(d) \cup {w.path : w \in wanted} \cup toWrite
           visited == Disc!Visited(d, ps)
           askedAt(c) == Disc!Latest({w.get : w \in {w \in wanted : Disc!Covering(w.path, c)}})
           valueAt(c) == Disc!Latest({w.value : w \in {w \in wanted : Disc!Covering(w.path, c)}})
           due == {c \in visited : askedAt(c) > Disc!ExploredAt(d, c) /\ askedAt(c) > Disc!LeafTime(d, c)}
           leaf(c) == Disc!KnownPrefix(d, c)
           isObject(l) == l = Disc!Root \/ Disc!AttrValue(d, l, "object") = 1
           known == {c \in visited : Disc!Known(d, c)}
           stale == {c \in known : /\ valueAt(c) > 0
                                   /\ ~Disc!Has(d, c, "value") \/ valueAt(c) > Disc!AttrTime(d, c, "value")}
           exist == {c \in due : c = leaf(c)}
           gpn == {leaf(c) : c \in {c \in due : c # leaf(c) /\ isObject(leaf(c))}}
           object == {leaf(c) : c \in {c \in due : c # leaf(c) /\ ~isObject(leaf(c))}}
                     \cup {c \in stale : Disc!AttrValue(d, c, "object") = Disc!Unknown}
           value == {c \in stale : Disc!AttrValue(d, c, "object") = 0}
           writable == {c \in known : /\ \E p \in toWrite : Disc!Covering(p, c)
                                      /\ ~Disc!Has(d, c, "writable")}
           spv == [c \in known \cap DOMAIN assigned |-> assigned[c]]
<1>1. PICK r : r = Disc!Processed(d, s, wanted, toWrite, assigned)
      OBVIOUS
<1>2. r = [s EXCEPT !.exist = exist, !.gpn = gpn, !.object = object, !.value = value,
                    !.writable = writable, !.spv = spv]
      BY <1>1 DEF Disc!Processed
<1>3. known \subseteq DOMAIN d.at
      BY DEF Disc!Known
<1> HIDE DEF visited, due, known, valueAt
<1>4. value \subseteq DOMAIN d.at /\ DOMAIN spv \subseteq DOMAIN d.at \cap DOMAIN assigned
      BY <1>3
<1> HIDE DEF exist, gpn, object, value, writable, spv
<1>5. r.value = value /\ r.spv = spv /\ Creates(r)
      BY <1>2 DEF Creates, Fields
<1>. QED BY <1>1, <1>4, <1>5

-----------------------------------------------------------------------------
\* The invariant

\* What is about to be written.
Pending == IF sync.on THEN DOMAIN sync.spv ELSE {}

CpeOK == device = [a |-> device.a, writable |-> device.writable] /\ DOMAIN device.a \subseteq Disc!Instances
SyncOK ==
    /\ sync.on \in BOOLEAN
    /\ sync.on => Creates(sync) /\ IsFiniteSet(sync.value) /\ IsFiniteSet(DOMAIN sync.spv)
    /\ WatchedPaths(Pending, data.tr)
    /\ \A p \in Pending : KnownOrNoticed(data, p)
RequestOK ==
    /\ request.name = "GetParameterValues" => IsFiniteSet(request.names)
    /\ request.name = "SetParameterValues" => IsFiniteSet(DOMAIN request.list)
    /\ request.name = "AddObject" => IsFiniteSet(DOMAIN request.keys)

WrittenInv == Whole(data) /\ declared \in Scenarios /\ CpeOK /\ SyncOK /\ RequestOK

\* What a function takes a finite set to is finite.
LEMMA ImageFinite ==
  ASSUME NEW S, IsFiniteSet(S), NEW f
  PROVE  IsFiniteSet({f[x] : x \in S})
<1>1. [x \in S |-> f[x]] \in Surjection(S, {f[x] : x \in S})
      BY DEF Surjection
<1>. QED BY <1>1, FS_Surjection

\* The instances of the device are finitely many.
LEMMA InstancesFinite ==
  ASSUME Disc!DiscoveryAssumption
  PROVE  \A some \in SUBSET Disc!Instances : /\ IsFiniteSet(some)
                                             /\ IsFiniteSet({Disc!InstanceOf(i) : i \in some})
                                             /\ IsFiniteSet({Disc!Leaf(i) : i \in some})
<1>1. IsFiniteSet(DOMAIN Numbers)
  <2>1. Disc!IsSequence(Numbers)
        BY DEF Disc!DiscoveryAssumption
  <2>. QED BY <2>1, DeclarationsOrdered
<1>2. IsFiniteSet(Disc!Instances)
      BY <1>1, ImageFinite DEF Disc!Instances
<1>3. SUFFICES ASSUME NEW some \in SUBSET Disc!Instances
               PROVE  /\ IsFiniteSet(some)
                      /\ IsFiniteSet({Disc!InstanceOf(i) : i \in some})
                      /\ IsFiniteSet({Disc!Leaf(i) : i \in some})
      OBVIOUS
<1>4. IsFiniteSet(some)
      BY ONLY <1>2, some \in SUBSET Disc!Instances, FS_Subset, Zenon
<1>5. IsFiniteSet({Disc!InstanceOf(i) : i \in some})
  <2> DEFINE f == [i \in some |-> Disc!InstanceOf(i)]
  <2>1. IsFiniteSet({f[i] : i \in some})
        BY <1>4, ImageFinite
  <2>2. {f[i] : i \in some} = {Disc!InstanceOf(i) : i \in some}
        OBVIOUS
  <2>. QED BY <2>1, <2>2
<1>6. IsFiniteSet({Disc!Leaf(i) : i \in some})
  <2> DEFINE f == [i \in some |-> Disc!Leaf(i)]
  <2>1. IsFiniteSet({f[i] : i \in some})
        BY <1>4, ImageFinite
  <2>2. {f[i] : i \in some} = {Disc!Leaf(i) : i \in some}
        OBVIOUS
  <2>. QED BY <2>1, <2>2
<1>. QED BY <1>4, <1>5, <1>6

\* So is all that the device has.
LEMMA EverythingFinite ==
  ASSUME Disc!DiscoveryAssumption, CpeOK
  PROVE  IsFiniteSet(Disc!Everything) /\ \A S \in SUBSET Disc!Everything : IsFiniteSet(S)
<1>1. Disc!Everything = ({Disc!Root} \cup {Disc!D}) \cup ({Disc!InstanceOf(i) : i \in DOMAIN device.a} \cup {Disc!Leaf(i) : i \in DOMAIN device.a})
      BY DEF Disc!Everything
<1>2. DOMAIN device.a \in SUBSET Disc!Instances
      BY DEF CpeOK
<1>3. IsFiniteSet({Disc!InstanceOf(i) : i \in DOMAIN device.a}) /\ IsFiniteSet({Disc!Leaf(i) : i \in DOMAIN device.a})
      BY <1>2, InstancesFinite
<1>4. IsFiniteSet({Disc!Root} \cup {Disc!D})
      BY FS_Singleton, FS_Union
<1>5. IsFiniteSet(Disc!Everything)
      BY ONLY <1>1, <1>3, <1>4, FS_Union, Zenon
<1>. QED BY ONLY <1>5, FS_Subset, Zenon

\* A sequence of the library is one in the sense of the model.
LEMMA SequenceIsSequence ==
  ASSUME NEW S, NEW s \in Seq(S)
  PROVE  Disc!IsSequence(s)
<1>1. Len(s) \in Nat /\ s \in [1 .. Len(s) -> {s[i] : i \in DOMAIN s}]
      OBVIOUS
<1>. QED BY <1>1 DEF Disc!IsSequence

\* What the device has are paths.
LEMMA EverythingPaths ==
  ASSUME NEW p \in Disc!Everything
  PROVE  Disc!IsSequence(p) /\ Disc!IsSequence(Append(p, Disc!Star))
<1>1. PICK S : p \in Seq(S)
  <2>1. CASE p = Disc!Root
        BY <2>1, <<>> \in Seq({}) DEF Disc!Root
  <2>2. CASE p = Disc!D
        BY <2>2, <<"D">> \in Seq({"D"}) DEF Disc!D
  <2>3. ASSUME NEW i, p = Disc!InstanceOf(i) PROVE p \in Seq({"D", i})
        BY <2>3 DEF Disc!InstanceOf
  <2>4. ASSUME NEW i, p = Disc!Leaf(i) PROVE p \in Seq({"D", i, "a"})
        BY <2>4 DEF Disc!Leaf
  <2>. QED BY <2>1, <2>2, <2>3, <2>4 DEF Disc!Everything
<1>2. p \in Seq(S \cup {Disc!Star}) /\ Append(p, Disc!Star) \in Seq(S \cup {Disc!Star})
      BY <1>1
<1>. QED BY <1>2, SequenceIsSequence

-----------------------------------------------------------------------------
\* The steps

\* What a session may come to know: of what is about to be written something is known, or
\* it is told that the declarations have to be run again.
Learns(e) == Whole(e) /\ e.tr = data.tr /\ \A p \in Pending : KnownOrNoticed(e, p)

\* What is learnt in a state of the invariant keeps what is pending known or told.
LEMMA LearntIsLearnt ==
  ASSUME WrittenInv, NEW all, IsFiniteSet(all), \A x \in all : Disc!IsSequence(x.path)
  PROVE  Learns(Disc!Learnt(data, all))
<1>1. PICK ps : ps = Pending
      OBVIOUS
<1>2. Whole(data) /\ WatchedPaths(ps, data.tr) /\ \A p \in ps : KnownOrNoticed(data, p)
      BY <1>1 DEF WrittenInv, SyncOK
<1>3. PICK d : d = data
      OBVIOUS
<1>4. PICK e : e = Disc!Learnt(d, all)
      OBVIOUS
<1>5. Whole(e) /\ e.tr = d.tr /\ \A p \in ps : KnownOrNoticed(e, p)
      BY <1>2, <1>3, <1>4, LearntNotices
<1>. QED BY <1>1, <1>3, <1>4, <1>5 DEF Learns

\* An answer keeps what is known of what is to be written.
LEMMA AnswerKeeps ==
  ASSUME WrittenInv, NEW e, Learns(e), NEW next, Disc!Answer(e, next), CpeOK', RequestOK'
  PROVE  WrittenInv'
<1>1. data' = e /\ UNCHANGED <<declared, sync>>
      BY DEF Disc!Answer
<1>2. Pending' = Pending
      BY <1>1 DEF Pending
<1>3. SyncOK'
      BY <1>1, <1>2 DEF WrittenInv, SyncOK, Learns
<1>. QED BY <1>1, <1>3 DEF WrittenInv, Learns

\* A request takes away from what is left to be done.
LEMMA AskKeeps ==
  ASSUME WrittenInv, sync.on, NEW req, NEW s, Disc!Ask(req, s), RequestOK', Creates(s),
         s.value \subseteq sync.value, DOMAIN s.spv \subseteq DOMAIN sync.spv
  PROVE  WrittenInv'
<1>1. sync' = s /\ UNCHANGED <<device, data, declared>>
      BY DEF Disc!Ask
<1>2. Pending' \subseteq Pending
      BY <1>1 DEF Pending, Creates
<1>3. IsFiniteSet(s.value) /\ IsFiniteSet(DOMAIN s.spv)
      BY FS_Subset DEF WrittenInv, SyncOK
<1>4. SyncOK'
      BY <1>1, <1>2, <1>3 DEF WrittenInv, SyncOK, Creates, WatchedPaths
<1>5. CpeOK'
      BY <1>1 DEF WrittenInv, CpeOK
<1>. QED BY <1>1, <1>4, <1>5 DEF WrittenInv

\* Where nothing is left to be done, nothing is about to be written.
LEMMA NoSyncKeeps ==
  ASSUME WrittenInv, sync' = Disc!NoSync, Whole(data)', UNCHANGED <<device, declared>>, RequestOK'
  PROVE  WrittenInv'
<1>1. sync'.on = FALSE
      BY DEF Disc!NoSync
<1>2. Pending' = {}
      BY <1>1 DEF Pending
<1>3. SyncOK'
      BY <1>1, <1>2 DEF SyncOK, WatchedPaths
<1>4. CpeOK'
      BY DEF WrittenInv, CpeOK
<1>. QED BY <1>3, <1>4 DEF WrittenInv

\* Exploring changes neither what is to be read, nor what is to be written or created.
LEMMA ExploredShape ==
  ASSUME WrittenInv, sync.on
  PROVE  /\ Creates(Disc!Explored) /\ Disc!Explored.value = sync.value /\ Disc!Explored.spv = sync.spv
         /\ Disc!Explored.create = sync.create
<1>1. PICK gpn : gpn = Disc!Explorable
      OBVIOUS
<1>2. Disc!Explored = [sync EXCEPT !.exist = {}, !.object = {}, !.writable = {}, !.gpn = gpn]
      BY <1>1 DEF Disc!Explored
<1>. QED BY <1>2 DEF WrittenInv, SyncOK, Creates, Fields

\* A session begins with nothing to do, and with the tree of its device or none.
LEMMA DiscoveryInit ==
  ASSUME Disc!DiscoveryAssumption, Disc!Init
  PROVE  WrittenInv
<1>1. CpeOK
  <2>1. device \in Disc!Models
        BY DEF Disc!Init
  <2>. QED BY <2>1 DEF CpeOK, Disc!Models
<1>2. SyncOK
  <2>1. sync.on = FALSE
        BY DEF Disc!Init, Disc!NoSync
  <2>. QED BY <2>1 DEF SyncOK, Pending, WatchedPaths
<1>3. RequestOK
      BY DEF Disc!Init, Disc!NoRequest, RequestOK
<1>4. Whole(Disc!NoData)
  <2>1. DOMAIN <<>> = {}
        OBVIOUS
  <2>. QED BY <2>1, FS_EmptySet DEF Whole, Disc!NoData
<1>5. ASSUME NEW m \in Disc!Models
      PROVE  Whole(Disc!Picture(m))
  <2> DEFINE object == [object |-> <<1, 1>>, writable |-> <<1, m.writable>>, value |-> <<1, Null>>]
             leaf(i) == [object |-> <<1, 0>>, writable |-> <<1, 1>>, value |-> <<1, m.a[i]>>]
             objects == {Disc!D} \cup {Disc!InstanceOf(i) : i \in DOMAIN m.a}
             leaves == {Disc!Leaf(i) : i \in DOMAIN m.a}
             explored == {<<Disc!Star>>, <<"D", Disc!Star>>} \cup {<<"D", i, Disc!Star>> : i \in DOMAIN m.a}
             at == [p \in objects \cup leaves |-> IF p \in leaves THEN leaf(p[2]) ELSE object]
             ts == [p \in objects \cup leaves \cup explored |-> 1]
  <2>1. Disc!Picture(m) = [Disc!NoData EXCEPT !.at = at, !.ts = ts]
        BY DEF Disc!Picture
  <2>2. DOMAIN m.a \in SUBSET Disc!Instances
        BY DEF Disc!Models
  <2>3. /\ IsFiniteSet(DOMAIN m.a) /\ IsFiniteSet({Disc!InstanceOf(i) : i \in DOMAIN m.a})
        /\ IsFiniteSet({Disc!Leaf(i) : i \in DOMAIN m.a})
        BY <2>2, InstancesFinite
  <2>4. IsFiniteSet({<<"D", i, Disc!Star>> : i \in DOMAIN m.a})
    <3> DEFINE f == [i \in DOMAIN m.a |-> <<"D", i, Disc!Star>>]
    <3>1. IsFiniteSet({f[i] : i \in DOMAIN m.a})
          BY <2>3, ImageFinite
    <3>2. {f[i] : i \in DOMAIN m.a} = {<<"D", i, Disc!Star>> : i \in DOMAIN m.a}
          OBVIOUS
    <3>. QED BY <3>1, <3>2
  <2>5. IsFiniteSet({Disc!D}) /\ IsFiniteSet({<<Disc!Star>>, <<"D", Disc!Star>>})
    <3>1. PICK S : S = {<<Disc!Star>>, <<"D", Disc!Star>>}
          OBVIOUS
    <3>2. PICK x, y : x = <<Disc!Star>> /\ y = <<"D", Disc!Star>>
          OBVIOUS
    <3>3. S = {x} \cup {y}
          BY <3>1, <3>2
    <3>4. IsFiniteSet(S) /\ IsFiniteSet({Disc!D})
          BY ONLY <3>3, FS_Singleton, FS_Union, Zenon
    <3>. QED BY <3>1, <3>4
  <2>6. IsFiniteSet(objects) /\ IsFiniteSet(leaves) /\ IsFiniteSet(explored)
        BY <2>3, <2>4, <2>5, FS_Union
  <2> HIDE DEF objects, leaves, explored
  <2>7. IsFiniteSet(objects \cup leaves) /\ IsFiniteSet(objects \cup leaves \cup explored)
        BY <2>6, FS_Union
  <2>8. DOMAIN at = objects \cup leaves /\ DOMAIN ts = objects \cup leaves \cup explored
        OBVIOUS
  <2> HIDE DEF at, ts
  <2>. QED BY <2>1, <2>7, <2>8 DEF Whole, Disc!NoData
<1>6. data \in {Disc!NoData} \cup {Disc!Picture(m) : m \in Disc!Models} /\ declared \in Scenarios
      BY DEF Disc!Init
<1>. QED BY <1>1, <1>2, <1>3, <1>4, <1>5, <1>6 DEF WrittenInv

\* Declarations are run: what they assign is tracked, and it is known or the trackers are told.
LEMMA DeclareKeeps ==
  ASSUME Disc!DiscoveryAssumption, WrittenInv, Disc!Declare
  PROVE  WrittenInv'
<1>1. PICK decls : decls = declared.decls
      OBVIOUS
<1>2. Declarations(decls) /\ \A i \in DOMAIN decls : decls[i].alias \in Aliases
  <2>1. declared \in Scenarios
        BY DEF WrittenInv
  <2>2. Declarations(decls)
        BY <1>1, <2>1, SameDiscovery DEF Disc!DiscoveryAssumption, Declarations
  <2>. QED BY <1>1, <2>1, <2>2 DEF Aliases
<1>3. Whole(data)
      BY DEF WrittenInv
<1>4. PICK e : e = Disc!FoldLeft(Disc!Tracked, data, decls)
      OBVIOUS
<1>5. PICK wanted : wanted = UNION {Disc!Wanted(data, decls[i]) : i \in DOMAIN decls}
      OBVIOUS
<1>6. PICK toWrite : toWrite = UNION {Disc!ToWrite(data, decls[i]) : i \in DOMAIN decls}
      OBVIOUS
<1>7. PICK provided : provided = Disc!AllProvided(data, decls)
      OBVIOUS
<1>8. PICK assigned : assigned = Disc!Assigned(data, decls)
      OBVIOUS
<1>9. PICK r : r = Disc!Processed(e, provided, wanted, toWrite, assigned)
      OBVIOUS
<1>10. /\ data' = e /\ sync' = [r EXCEPT !.reboot = declared.reboot]
       /\ UNCHANGED <<device, declared, request>>
       BY <1>1, <1>4, <1>5, <1>6, <1>7, <1>8, <1>9 DEF Disc!Declare
<1>11. Whole(e) /\ Grows(data, e)
       BY <1>2, <1>3, <1>4, AllTracked DEF Grows
<1>12. WatchedPaths(DOMAIN assigned, e.tr)
       BY <1>2, <1>3, <1>4, <1>8, AssignedIsWatched
<1>13. Creates(provided)
       BY <1>2, <1>7, AllProvidedCreate
<1>14. /\ Creates(r) /\ r.value \subseteq DOMAIN e.at
       /\ DOMAIN r.spv \subseteq DOMAIN e.at \cap DOMAIN assigned
       BY <1>9, <1>13, ProcessedIsKnown
<1>15. Creates(sync') /\ sync'.value = r.value /\ sync'.spv = r.spv
       BY <1>10, <1>14 DEF Creates, Fields
<1>16. Pending' = DOMAIN r.spv
       BY <1>15 DEF Pending, Creates
<1>17. IsFiniteSet(r.value) /\ IsFiniteSet(DOMAIN r.spv)
  <2>1. IsFiniteSet(DOMAIN e.at)
        BY <1>11 DEF Whole
  <2>2. r.value \subseteq DOMAIN e.at /\ DOMAIN r.spv \subseteq DOMAIN e.at
        BY <1>14
  <2>. QED BY ONLY <2>1, <2>2, FS_Subset, Zenon
<1>18. SyncOK'
  <2>1. WatchedPaths(Pending', e.tr)
        BY <1>12, <1>14, <1>16 DEF WatchedPaths
  <2>2. \A p \in Pending' : KnownOrNoticed(e, p)
        BY <1>14, <1>16 DEF KnownOrNoticed, Disc!Known
  <2>. QED BY <1>10, <1>15, <1>17, <2>1, <2>2 DEF SyncOK, Creates
<1>19. CpeOK' /\ RequestOK'
       BY <1>10 DEF WrittenInv, CpeOK, RequestOK
<1>. QED BY <1>10, <1>11, <1>18, <1>19 DEF WrittenInv

\* GetParameterNames is asked for.
LEMMA GetNamesKeeps ==
  ASSUME WrittenInv, sync.on, NEW p, NEW nextLevel, Disc!GetNames(p, nextLevel)
  PROVE  WrittenInv'
<1>1. PICK gpn : gpn = Disc!Explored.gpn \ IF nextLevel THEN {p} ELSE Disc!Below(p, Disc!Explored.gpn)
      OBVIOUS
<1>2. PICK s : s = [Disc!Explored EXCEPT !.gpn = gpn]
      OBVIOUS
<1>3. PICK req : req = [name |-> "GetParameterNames", path |-> p, nextLevel |-> nextLevel]
      OBVIOUS
<1>4. Disc!Ask(req, s)
      BY <1>1, <1>2, <1>3 DEF Disc!GetNames
<1>5. RequestOK'
      BY <1>3, <1>4 DEF Disc!Ask, RequestOK
<1>6. Creates(s) /\ s.value = sync.value /\ s.spv = sync.spv
      BY <1>2, ExploredShape DEF Creates, Fields
<1>. QED BY <1>4, <1>5, <1>6, AskKeeps

\* GetParameterValues is asked for.
LEMMA GetValuesKeeps ==
  ASSUME WrittenInv, sync.on, NEW S, Disc!GetValues(S)
  PROVE  WrittenInv'
<1>1. PICK e : e = Disc!Explored
      OBVIOUS
<1>2. PICK s : s = [e EXCEPT !.value = e.value \ S]
      OBVIOUS
<1>3. PICK req : req = [name |-> "GetParameterValues", names |-> S, keys |-> <<>>]
      OBVIOUS
<1>4. Disc!Ask(req, s)
      BY <1>1, <1>2, <1>3 DEF Disc!GetValues
<1>5. S \subseteq sync.value
      BY DEF Disc!GetValues
<1>6. IsFiniteSet(S)
  <2>1. IsFiniteSet(sync.value)
        BY DEF WrittenInv, SyncOK
  <2>. QED BY ONLY <1>5, <2>1, FS_Subset, Zenon
<1>7. RequestOK'
      BY <1>3, <1>4, <1>6 DEF Disc!Ask, RequestOK
<1>8. Creates(e) /\ e.value = sync.value /\ e.spv = sync.spv
      BY <1>1, ExploredShape
<1>9. Creates(s) /\ s.value = sync.value \ S /\ s.spv = sync.spv
      BY <1>2, <1>8 DEF Creates, Fields
<1>. QED BY <1>4, <1>7, <1>9, AskKeeps

\* DeleteObject is asked for.
LEMMA DeleteInstanceKeeps ==
  ASSUME WrittenInv, sync.on, NEW p, Disc!DeleteInstance(p)
  PROVE  WrittenInv'
<1>1. PICK e : e = Disc!Explored
      OBVIOUS
<1>2. PICK s : s = [e EXCEPT !.delete = e.delete \ {p}]
      OBVIOUS
<1>3. PICK req : req = [name |-> "DeleteObject", path |-> p]
      OBVIOUS
<1>4. Disc!Ask(req, s)
      BY <1>1, <1>2, <1>3 DEF Disc!DeleteInstance
<1>5. RequestOK'
      BY <1>3, <1>4 DEF Disc!Ask, RequestOK
<1>6. Creates(e) /\ e.value = sync.value /\ e.spv = sync.spv
      BY <1>1, ExploredShape
<1>7. Creates(s) /\ s.value = sync.value /\ s.spv = sync.spv
      BY <1>2, <1>6 DEF Creates, Fields
<1>. QED BY <1>4, <1>5, <1>7, AskKeeps

\* AddObject is asked for, with the keys of an alias.
LEMMA CreateInstanceKeeps ==
  ASSUME Disc!DiscoveryAssumption, WrittenInv, Disc!CreateInstance
  PROVE  WrittenInv'
<1>0. sync.on /\ sync.create # <<>>
      BY DEF Disc!CreateInstance, Disc!Writing, Disc!ReadAll, Disc!Reading, Disc!Creatable
<1>1. PICK e : e = Disc!Explored
      OBVIOUS
<1>2. PICK s : s = [e EXCEPT !.create = Tail(e.create)]
      OBVIOUS
<1>3. PICK req : req = [name |-> "AddObject", keys |-> Head(sync.create)]
      OBVIOUS
<1>4. Disc!Ask(req, s)
      BY <1>1, <1>2, <1>3 DEF Disc!CreateInstance
<1>5. Creates(e) /\ e.value = sync.value /\ e.spv = sync.spv /\ e.create = sync.create
      BY <1>0, <1>1, ExploredShape
<1>6. Creates(sync) /\ sync.create \in Seq(Aliases)
      BY <1>0 DEF WrittenInv, SyncOK, Creates
<1>7. Head(sync.create) \in Aliases /\ Tail(sync.create) \in Seq(Aliases)
      BY <1>0, <1>6
<1>8. IsFiniteSet(DOMAIN Head(sync.create))
      BY <1>7, SameDiscovery DEF Aliases, Disc!DiscoveryAssumption
<1>9. RequestOK'
      BY <1>3, <1>4, <1>8 DEF Disc!Ask, RequestOK
<1>10. Creates(s) /\ s.value = sync.value /\ s.spv = sync.spv
       BY <1>2, <1>5, <1>7 DEF Creates, Fields
<1>. QED BY <1>0, <1>4, <1>9, <1>10, AskKeeps

\* SetParameterValues is asked for; what it sets is pending no more.
LEMMA SetValuesKeeps ==
  ASSUME WrittenInv, sync.on, NEW S, Disc!SetValues(S)
  PROVE  WrittenInv'
<1>1. PICK e : e = Disc!Explored
      OBVIOUS
<1>2. PICK s : s = [e EXCEPT !.spv = Disc!Without(e.spv, S)]
      OBVIOUS
<1>3. PICK req : req = [name |-> "SetParameterValues", list |-> [p \in S |-> sync.spv[p]]]
      OBVIOUS
<1>4. Disc!Ask(req, s)
      BY <1>1, <1>2, <1>3 DEF Disc!SetValues
<1>5. S \subseteq DOMAIN sync.spv
      BY DEF Disc!SetValues, Disc!Different
<1>6. IsFiniteSet(S)
  <2>1. IsFiniteSet(DOMAIN sync.spv)
        BY DEF WrittenInv, SyncOK
  <2>. QED BY ONLY <1>5, <2>1, FS_Subset, Zenon
<1>7. RequestOK'
      BY <1>3, <1>4, <1>6 DEF Disc!Ask, RequestOK
<1>8. Creates(e) /\ e.value = sync.value /\ e.spv = sync.spv
      BY <1>1, ExploredShape
<1>9. Creates(s) /\ s.value = sync.value /\ DOMAIN s.spv \subseteq DOMAIN sync.spv
      BY <1>2, <1>8 DEF Creates, Fields, Disc!Without
<1>. QED BY <1>4, <1>7, <1>9, AskKeeps

\* Reboot is asked for.
LEMMA RebootKeeps ==
  ASSUME WrittenInv, Disc!Reboot
  PROVE  WrittenInv'
<1>0. sync.on
      BY DEF Disc!Reboot, Disc!Writing, Disc!ReadAll, Disc!Reading
<1>1. PICK e : e = Disc!Explored
      OBVIOUS
<1>2. PICK s : s = [e EXCEPT !.reboot = 0, !.spv = <<>>]
      OBVIOUS
<1>3. PICK req : req = [name |-> "Reboot"]
      OBVIOUS
<1>4. Disc!Ask(req, s)
      BY <1>1, <1>2, <1>3 DEF Disc!Reboot
<1>5. RequestOK'
      BY <1>3, <1>4 DEF Disc!Ask, RequestOK
<1>6. Creates(e) /\ e.value = sync.value
      BY <1>0, <1>1, ExploredShape
<1>7. Creates(s) /\ s.value = sync.value /\ DOMAIN s.spv = {}
      BY <1>2, <1>6 DEF Creates, Fields
<1>. QED BY <1>0, <1>4, <1>5, <1>7, AskKeeps

\* What was said in two parts.
LEMMA TwiceToldIsLearnt ==
  ASSUME WrittenInv, NEW all, IsFiniteSet(all), \A x \in all : Disc!IsSequence(x.path),
         NEW more, IsFiniteSet(more), \A x \in more : Disc!IsSequence(x.path)
  PROVE  Learns(Disc!ClearAll(Disc!Told(Disc!Told([d |-> data, clear |-> {}], all), more)))
<1>1. PICK ps : ps = Pending
      OBVIOUS
<1>2. PICK d, tr : d = data /\ tr = data.tr
      OBVIOUS
<1>3. PICK done : done = [d |-> d, clear |-> {}]
      OBVIOUS
<1>4. WatchedPaths(ps, tr) /\ Noticed(ps, tr, done)
  <2>1. Whole(data) /\ WatchedPaths(ps, data.tr) /\ \A p \in ps : KnownOrNoticed(data, p)
        BY <1>1 DEF WrittenInv, SyncOK
  <2>. QED BY <1>2, <1>3, <2>1, FS_EmptySet DEF Noticed, HavePaths
<1>5. PICK once : once = Disc!Told(done, all)
      OBVIOUS
<1>6. PICK twice : twice = Disc!Told(once, more)
      OBVIOUS
<1>7. Noticed(ps, tr, once)
      BY <1>4, <1>5, ToldNotices
<1>8. Noticed(ps, tr, twice)
      BY <1>6, <1>7, ToldNotices
<1>9. PICK e : e = Disc!ClearAll(twice)
      OBVIOUS
<1>10. Whole(e) /\ e.tr = tr /\ \A p \in ps : KnownOrNoticed(e, p)
       BY <1>4, <1>8, <1>9, ClearAllNotices
<1>11. Learns(e)
       BY <1>1, <1>2, <1>10 DEF Learns
<1>. QED BY <1>2, <1>3, <1>5, <1>6, <1>9, <1>11

\* What exists is there.
LEMMA ExistsThere ==
  ASSUME NEW p, Disc!Exists(p)
  PROVE  p \in Disc!Everything
BY DEF Disc!Exists, Disc!Everything

\* A device that has changed is one still.
LEMMA NoOtherDevice ==
  ASSUME WrittenInv, UNCHANGED device
  PROVE  CpeOK'
BY DEF WrittenInv, CpeOK

\* Where nothing is asked, nothing is wrong with what is asked.
LEMMA NothingAsked ==
  ASSUME request' = Disc!NoRequest
  PROVE  RequestOK'
BY DEF Disc!NoRequest, RequestOK

\* Names come: of the explored path those that are not listed are gone.
LEMMA NamesAnsweredKeeps ==
  ASSUME Disc!DiscoveryAssumption, WrittenInv, Disc!NamesAnswered
  PROVE  WrittenInv'
<1> DEFINE listedNow == {p \in Disc!Everything : /\ Len(p) > Len(request.path) \/ ~request.nextLevel
                                                 /\ Len(p) > 0
                                                 /\ Disc!IsPrefix(request.path, p)
                                                 /\ request.nextLevel => Len(p) = Len(request.path) + 1}
           known(p) == [object |-> <<Disc!Time, IF Disc!IsLeaf(p) THEN 0 ELSE 1>>, writable |-> <<Disc!Time, Disc!AccessOf(p)>>]
           name(p) == [path |-> p, t |-> Disc!Time, attrs |-> known(p)]
           explore(p) == [path |-> p, t |-> Disc!Time, attrs |-> <<>>]
           objectsOf(listed) == IF request.nextLevel THEN {} ELSE {p \in listed : ~Disc!IsLeaf(p)}
           wildOf(listed) == {Append(request.path, Disc!Star)}
                             \cup IF request.nextLevel THEN {}
                                  ELSE {Append(p, Disc!Star) : p \in {q \in listed : ~Disc!IsLeaf(q)}}
<1>1. PICK listed : listed = listedNow
      OBVIOUS
<1>2. PICK wild : wild = wildOf(listed)
      OBVIOUS
<1>3. PICK named : named = {name(p) : p \in listed}
      OBVIOUS
<1>4. PICK explored : explored = {explore(p) : p \in wild}
      OBVIOUS
<1>5. PICK e : e = Disc!ClearAll(Disc!Told(Disc!Told([d |-> data, clear |-> {}], named), explored))
      OBVIOUS
<1>6. Disc!Answer(e, Disc!NoRequest) /\ UNCHANGED device /\ Disc!Exists(request.path)
      BY <1>1, <1>2, <1>3, <1>4, <1>5 DEF Disc!NamesAnswered
<1>7. listed \subseteq Disc!Everything
      BY <1>1
<1>8. IsFiniteSet(listed)
      BY <1>7, EverythingFinite DEF WrittenInv
<1> HIDE DEF listedNow, known
<1>9. IsFiniteSet(named) /\ \A x \in named : Disc!IsSequence(x.path)
  <2>1. IsFiniteSet({[q \in listed |-> name(q)][p] : p \in listed})
        BY <1>8, ImageFinite
  <2>2. {[q \in listed |-> name(q)][p] : p \in listed} = named
        BY <1>3
  <2>3. \A x \in named : Disc!IsSequence(x.path)
        BY <1>3, <1>7, EverythingPaths
  <2>. QED BY <2>1, <2>2, <2>3
<1>10. PICK objects : objects = objectsOf(listed)
       OBVIOUS
<1>11. wild = {Append(request.path, Disc!Star)} \cup {Append(p, Disc!Star) : p \in objects} /\ objects \subseteq listed
       BY <1>2, <1>10
<1>12. IsFiniteSet(wild) /\ \A p \in wild : Disc!IsSequence(p)
  <2>1. IsFiniteSet(objects)
        BY ONLY <1>8, <1>11, FS_Subset, Zenon
  <2>2. IsFiniteSet({[q \in objects |-> Append(q, Disc!Star)][p] : p \in objects})
        BY <2>1, ImageFinite
  <2>3. {[q \in objects |-> Append(q, Disc!Star)][p] : p \in objects} = {Append(p, Disc!Star) : p \in objects}
        OBVIOUS
  <2>4. IsFiniteSet(wild)
        BY <1>11, <2>2, <2>3, FS_Singleton, FS_Union, Zenon
  <2>5. request.path \in Disc!Everything
        BY <1>6, ExistsThere
  <2>6. ASSUME NEW p \in wild PROVE Disc!IsSequence(p)
    <3>1. PICK q \in Disc!Everything : p = Append(q, Disc!Star)
          BY <1>7, <1>11, <2>5
    <3>. QED BY <3>1, EverythingPaths
  <2>. QED BY <2>4, <2>6
<1>13. IsFiniteSet(explored) /\ \A x \in explored : Disc!IsSequence(x.path)
  <2>1. IsFiniteSet({[q \in wild |-> explore(q)][p] : p \in wild})
        BY <1>12, ImageFinite
  <2>2. {[q \in wild |-> explore(q)][p] : p \in wild} = explored
        BY <1>4
  <2>3. \A x \in explored : Disc!IsSequence(x.path)
        BY <1>4, <1>12
  <2>. QED BY <2>1, <2>2, <2>3
<1>14. Learns(e)
       BY <1>5, <1>9, <1>13, TwiceToldIsLearnt
<1>15. CpeOK' /\ RequestOK'
       BY <1>6, NoOtherDevice, NothingAsked DEF Disc!Answer
<1>. QED BY <1>6, <1>14, <1>15, AnswerKeeps

\* Values come.
LEMMA ValuesAnsweredKeeps ==
  ASSUME Disc!DiscoveryAssumption, WrittenInv, Disc!ValuesAnswered
  PROVE  WrittenInv'
<1> DEFINE say(p) == [path |-> p, t |-> Disc!Time,
                      attrs |-> [object |-> <<Disc!Time, 0>>, value |-> <<Disc!Time, device.a[p[2]]>>]]
<1>1. PICK names : names = request.names
      OBVIOUS
<1>2. PICK wrong : wrong = {p \in names \cap DOMAIN request.keys : request.keys[p] # device.a[p[2]]}
      OBVIOUS
<1>3. PICK all : all = {say(p) : p \in names}
      OBVIOUS
<1>4. PICK next : next = IF wrong = {} THEN Disc!NoRequest
                         ELSE [name |-> "SetParameterValues", list |-> [p \in wrong |-> request.keys[p]]]
      OBVIOUS
<1>5. Disc!Answer(Disc!Learnt(data, all), next) /\ UNCHANGED device /\ \A p \in names : Disc!Exists(p)
      BY <1>1, <1>2, <1>3, <1>4 DEF Disc!ValuesAnswered
<1>6. names \subseteq Disc!Everything
      BY <1>5, ExistsThere
<1>7. IsFiniteSet(names)
      BY <1>6, EverythingFinite DEF WrittenInv
<1>8. IsFiniteSet(wrong)
  <2>1. wrong \subseteq names
        BY <1>2
  <2>. QED BY ONLY <1>7, <2>1, FS_Subset, Zenon
<1>9. IsFiniteSet(all) /\ \A x \in all : Disc!IsSequence(x.path)
  <2>1. IsFiniteSet({[q \in names |-> say(q)][p] : p \in names})
        BY <1>7, ImageFinite
  <2>2. {[q \in names |-> say(q)][p] : p \in names} = all
        BY <1>3
  <2>3. \A x \in all : Disc!IsSequence(x.path)
        BY <1>3, <1>6, EverythingPaths
  <2>. QED BY <2>1, <2>2, <2>3
<1>10. Learns(Disc!Learnt(data, all))
       BY <1>9, LearntIsLearnt
<1>11. RequestOK'
  <2>1. request' = next
        BY <1>5 DEF Disc!Answer
  <2>2. CASE wrong = {}
        BY <1>4, <2>1, <2>2, NothingAsked
  <2>3. CASE wrong # {}
    <3>1. next.name = "SetParameterValues" /\ DOMAIN next.list = wrong
          BY <1>4, <2>3
    <3>. QED BY <1>8, <2>1, <3>1 DEF RequestOK
  <2>. QED BY <2>2, <2>3
<1>12. CpeOK'
       BY <1>5, NoOtherDevice
<1>. QED BY <1>5, <1>10, <1>11, <1>12, AnswerKeeps

\* Values have been set.
LEMMA ValuesSetKeeps ==
  ASSUME Disc!DiscoveryAssumption, WrittenInv, Disc!ValuesSet
  PROVE  WrittenInv'
<1> DEFINE say(p) == [path |-> p, t |-> Disc!Time + 1,
                      attrs |-> [object |-> <<Disc!Time + 1, 0>>, value |-> <<Disc!Time + 1, request.list[p]>>]]
<1>1. PICK names : names = DOMAIN request.list
      OBVIOUS
<1>2. PICK all : all = {say(p) : p \in names}
      OBVIOUS
<1>3. PICK a : a = [i \in DOMAIN device.a |-> IF Disc!Leaf(i) \in DOMAIN request.list
                                             THEN request.list[Disc!Leaf(i)] ELSE device.a[i]]
      OBVIOUS
<1>4. /\ Disc!Answer(Disc!Learnt(data, all), Disc!NoRequest) /\ device' = [device EXCEPT !.a = a]
      /\ \A p \in names : Disc!Exists(p)
      BY <1>1, <1>2, <1>3 DEF Disc!ValuesSet
<1>5. names \subseteq Disc!Everything
      BY <1>4, ExistsThere
<1>6. IsFiniteSet(names)
      BY <1>5, EverythingFinite DEF WrittenInv
<1>7. IsFiniteSet(all) /\ \A x \in all : Disc!IsSequence(x.path)
  <2>1. IsFiniteSet({[q \in names |-> say(q)][p] : p \in names})
        BY <1>6, ImageFinite
  <2>2. {[q \in names |-> say(q)][p] : p \in names} = all
        BY <1>2
  <2>3. \A x \in all : Disc!IsSequence(x.path)
        BY <1>2, <1>5, EverythingPaths
  <2>. QED BY <2>1, <2>2, <2>3
<1>8. Learns(Disc!Learnt(data, all))
      BY <1>7, LearntIsLearnt
<1>9. CpeOK'
  <2>1. DOMAIN a = DOMAIN device.a
        BY <1>3
  <2>. QED BY <1>4, <2>1 DEF WrittenInv, CpeOK
<1>10. RequestOK'
       BY <1>4, NothingAsked DEF Disc!Answer
<1>. QED BY <1>4, <1>8, <1>9, <1>10, AnswerKeeps

\* An instance has been added, with its keys to be set.
LEMMA InstanceAddedKeeps ==
  ASSUME Disc!DiscoveryAssumption, WrittenInv, NEW i \in Disc!Instances, Disc!InstanceAdded(i)
  PROVE  WrittenInv'
<1>1. PICK keys : keys = DOMAIN request.keys
      OBVIOUS
<1>2. PICK names : names = {Append(Disc!InstanceOf(i), n) : n \in keys}
      OBVIOUS
<1>3. PICK x : x = [path |-> Disc!InstanceOf(i), t |-> Disc!Time + 1, attrs |-> [object |-> <<Disc!Time + 1, 1>>]]
      OBVIOUS
<1>4. PICK next : next = IF keys = {} THEN Disc!NoRequest
                         ELSE [name |-> "GetParameterValues", names |-> names,
                               keys |-> [p \in names |-> request.keys[p[3]]]]
      OBVIOUS
<1>5. Disc!Answer(Disc!Learnt(data, {x}), next) /\ device' = [device EXCEPT !.a = Disc!With(device.a, i, Default)]
      /\ request.name = "AddObject"
      BY <1>1, <1>2, <1>3, <1>4 DEF Disc!InstanceAdded
<1>6. Disc!IsSequence(Disc!InstanceOf(i))
  <2>1. Disc!InstanceOf(i) \in Seq({"D", i})
        BY DEF Disc!InstanceOf
  <2>. QED BY <2>1, SequenceIsSequence
<1>7. Learns(Disc!Learnt(data, {x}))
  <2>1. Disc!IsSequence(x.path)
        BY <1>3, <1>6
  <2>2. IsFiniteSet({x}) /\ \A y \in {x} : Disc!IsSequence(y.path)
        BY ONLY <2>1, FS_Singleton, Zenon
  <2>. QED BY <2>2, LearntIsLearnt
<1>8. IsFiniteSet(names)
  <2>1. IsFiniteSet(keys)
        BY <1>1, <1>5 DEF WrittenInv, RequestOK
  <2>2. IsFiniteSet({[m \in keys |-> Append(Disc!InstanceOf(i), m)][n] : n \in keys})
        BY <2>1, ImageFinite
  <2>3. {[m \in keys |-> Append(Disc!InstanceOf(i), m)][n] : n \in keys} = names
        BY <1>2
  <2>. QED BY <2>2, <2>3
<1>9. RequestOK'
  <2>1. request' = next
        BY <1>5 DEF Disc!Answer
  <2>2. CASE keys = {}
        BY <1>4, <2>1, <2>2, NothingAsked
  <2>3. CASE keys # {}
    <3>1. next.name = "GetParameterValues" /\ next.names = names
          BY <1>4, <2>3
    <3>. QED BY <1>8, <2>1, <3>1 DEF RequestOK
  <2>. QED BY <2>2, <2>3
<1>10. CpeOK'
  <2>1. DOMAIN Disc!With(device.a, i, Default) = DOMAIN device.a \cup {i}
        BY DEF Disc!With
  <2>. QED BY <1>5, <2>1 DEF WrittenInv, CpeOK
<1>. QED BY <1>5, <1>7, <1>9, <1>10, AnswerKeeps

\* An instance has been deleted: its parameters are gone, and the trackers are told.
LEMMA InstanceDeletedKeeps ==
  ASSUME Disc!DiscoveryAssumption, WrittenInv, Disc!InstanceDeleted
  PROVE  WrittenInv'
<1>1. PICK x : x = [path |-> request.path, t |-> Disc!Time + 1, attrs |-> <<>>]
      OBVIOUS
<1>2. PICK a : a = Disc!Without(device.a, {request.path[2]})
      OBVIOUS
<1>3. Disc!Answer(Disc!Learnt(data, {x}), Disc!NoRequest) /\ device' = [device EXCEPT !.a = a] /\ Disc!Exists(request.path)
      BY <1>1, <1>2 DEF Disc!InstanceDeleted
<1>4. Disc!IsSequence(request.path)
      BY <1>3, ExistsThere, EverythingPaths
<1>5. Learns(Disc!Learnt(data, {x}))
  <2>1. Disc!IsSequence(x.path)
        BY <1>1, <1>4
  <2>2. IsFiniteSet({x}) /\ \A y \in {x} : Disc!IsSequence(y.path)
        BY ONLY <2>1, FS_Singleton, Zenon
  <2>. QED BY <2>2, LearntIsLearnt
<1>6. CpeOK'
  <2>1. DOMAIN a \subseteq DOMAIN device.a
        BY <1>2 DEF Disc!Without
  <2>. QED BY <1>3, <2>1 DEF WrittenInv, CpeOK
<1>7. RequestOK'
      BY <1>3, NothingAsked DEF Disc!Answer
<1>. QED BY <1>3, <1>5, <1>6, <1>7, AnswerKeeps

\* The device has been rebooted.
LEMMA RebootedKeeps ==
  ASSUME WrittenInv, Disc!Rebooted
  PROVE  WrittenInv'
<1>1. PICK e : e = [data EXCEPT !.changed = data.changed \/ rebooted = 0]
      OBVIOUS
<1>2. Disc!Answer(e, Disc!NoRequest) /\ UNCHANGED device
      BY <1>1 DEF Disc!Rebooted
<1>3. Whole(data)
      BY DEF WrittenInv
<1>4. /\ e = [ts |-> e.ts, at |-> e.at, tr |-> e.tr, changed |-> e.changed]
      /\ e.ts = data.ts /\ e.at = data.at /\ e.tr = data.tr
      /\ e.changed = (data.changed \/ rebooted = 0)
      BY <1>1, <1>3 DEF Whole
<1>5. Whole(e)
      BY <1>3, <1>4 DEF Whole
<1>6. Learns(e)
      BY <1>4, <1>5 DEF WrittenInv, SyncOK, Learns, KnownOrNoticed, Disc!Known
<1>7. CpeOK' /\ RequestOK'
      BY <1>2, NoOtherDevice, NothingAsked DEF Disc!Answer
<1>. QED BY <1>2, <1>6, <1>7, AnswerKeeps

\* The device has refused a name: what was asked of it is gone.
LEMMA InvalidNameKeeps ==
  ASSUME WrittenInv, Disc!InvalidName
  PROVE  WrittenInv'
<1> DEFINE gone(p) == [path |-> p, ts |-> Disc!Time + 1, object |-> 0, flags |-> {}]
<1>1. PICK names : names = Disc!Named
      OBVIOUS
<1>2. PICK clear : clear = {gone(p) : p \in names}
      OBVIOUS
<1>3. PICK done : done = [d |-> data, clear |-> clear]
      OBVIOUS
<1>4. /\ data' = Disc!ClearAll(done) /\ sync' = Disc!NoSync /\ request' = Disc!NoRequest
      /\ UNCHANGED <<device, declared>>
      BY <1>1, <1>2, <1>3 DEF Disc!InvalidName
<1>5. IsFiniteSet(names)
      BY <1>1, FS_EmptySet, FS_Singleton DEF Disc!Named, WrittenInv, RequestOK
<1>6. IsFiniteSet(clear)
  <2>1. IsFiniteSet({[q \in names |-> gone(q)][p] : p \in names})
        BY <1>5, ImageFinite
  <2>2. {[q \in names |-> gone(q)][p] : p \in names} = clear
        BY <1>2
  <2>. QED BY <2>1, <2>2
<1>7. Noticed({}, data.tr, done)
      BY <1>3, <1>6 DEF WrittenInv, Noticed
<1>8. WatchedPaths({}, data.tr)
      BY DEF WatchedPaths
<1>9. PICK e : e = Disc!ClearAll(done)
      OBVIOUS
<1>10. Whole(e)
       BY <1>7, <1>8, <1>9, ClearAllNotices
<1>11. Whole(data)'
       BY <1>4, <1>9, <1>10
<1>12. RequestOK'
       BY <1>4, NothingAsked
<1>. QED BY <1>4, <1>11, <1>12, NoSyncKeeps

\* When nothing is left to be done, the trackers are cleared.
LEMMA TrackersClearedKeeps ==
  ASSUME WrittenInv, sync' = Disc!NoSync, data' = Disc!ClearTrackers(data), UNCHANGED <<device, declared, request>>
  PROVE  WrittenInv'
<1>1. PICK e : e = Disc!ClearTrackers(data)
      OBVIOUS
<1>2. Whole(data) /\ e = [data EXCEPT !.tr = <<>>, !.changed = FALSE]
      BY <1>1 DEF WrittenInv, Disc!ClearTrackers
<1>3. /\ e = [ts |-> e.ts, at |-> e.at, tr |-> e.tr, changed |-> e.changed]
      /\ e.ts = data.ts /\ e.at = data.at /\ e.changed = FALSE
      BY <1>2 DEF Whole
<1>4. Whole(data)'
  <2>1. Whole(e)
        BY <1>2, <1>3 DEF Whole
  <2>. QED BY <1>1, <2>1
<1>5. RequestOK'
      BY DEF WrittenInv, RequestOK
<1>. QED BY <1>4, <1>5, NoSyncKeeps

\* What the invariant is about does not change.
LEMMA AloneKeeps ==
  ASSUME WrittenInv, UNCHANGED <<data, declared, sync, request>>, CpeOK'
  PROVE  WrittenInv'
<1>1. Pending' = Pending
      BY DEF Pending
<1>2. SyncOK' /\ RequestOK'
      BY <1>1 DEF WrittenInv, SyncOK, RequestOK
<1>. QED BY <1>2 DEF WrittenInv

\* The device changes on its own; what the session knows of it does not.
LEMMA DriftKeeps ==
  ASSUME WrittenInv, NEW model \in Disc!Models, Disc!Drift(model)
  PROVE  WrittenInv'
<1>1. CpeOK'
  <2>1. device' \in Disc!Models
        BY DEF Disc!Drift
  <2>. QED BY <2>1 DEF CpeOK, Disc!Models
<1>. QED BY <1>1, AloneKeeps DEF Disc!Drift

\* Every step keeps the invariant.
LEMMA DiscoveryStep ==
  ASSUME Disc!DiscoveryAssumption, WrittenInv, [Disc!Next]_Disc!vars
  PROVE  WrittenInv'
<1>1. CASE Disc!Declare
      BY <1>1, DeclareKeeps
<1>2. CASE Disc!TooManyCommits \/ Disc!GoOn \/ UNCHANGED Disc!vars
  <2>1. UNCHANGED <<device, data, declared, sync, request>>
        BY <1>2 DEF Disc!TooManyCommits, Disc!GoOn, Disc!vars
  <2>. QED BY <2>1, NoOtherDevice, AloneKeeps
<1>3. CASE Disc!DeclareAgain \/ Disc!Done
  <2>1. sync' = Disc!NoSync /\ data' = Disc!ClearTrackers(data) /\ UNCHANGED <<device, declared, request>>
        BY <1>3 DEF Disc!DeclareAgain, Disc!Done
  <2>. QED BY <2>1, TrackersClearedKeeps
<1>4. CASE Disc!CreateInstance
      BY <1>4, CreateInstanceKeeps
<1>5. CASE Disc!Reboot
      BY <1>5, RebootKeeps
<1>6. CASE sync.on /\ \E p \in Disc!Explorable, nextLevel \in BOOLEAN : Disc!GetNames(p, nextLevel)
      BY <1>6, GetNamesKeeps
<1>7. CASE sync.on /\ \E S \in SUBSET sync.value : Disc!GetValues(S)
      BY <1>7, GetValuesKeeps
<1>8. CASE sync.on /\ \E p \in sync.delete : Disc!DeleteInstance(p)
      BY <1>8, DeleteInstanceKeeps
<1>9. CASE sync.on /\ \E S \in SUBSET DOMAIN sync.spv : Disc!SetValues(S)
      BY <1>9, SetValuesKeeps
<1>10. CASE Disc!Respond
  <2>1. CASE Disc!NamesAnswered
        BY <2>1, NamesAnsweredKeeps
  <2>2. CASE Disc!ValuesAnswered
        BY <2>2, ValuesAnsweredKeeps
  <2>3. CASE Disc!ValuesSet
        BY <2>3, ValuesSetKeeps
  <2>4. CASE Disc!InstanceDeleted
        BY <2>4, InstanceDeletedKeeps
  <2>5. CASE Disc!Rebooted
        BY <2>5, RebootedKeeps
  <2>6. CASE Disc!InvalidName
        BY <2>6, InvalidNameKeeps
  <2>7. CASE \E i \in Disc!Instances : Disc!InstanceAdded(i)
        BY <2>7, InstanceAddedKeeps
  <2>. QED BY <1>10, <2>1, <2>2, <2>3, <2>4, <2>5, <2>6, <2>7 DEF Disc!Respond
<1>11. CASE \E model \in Disc!Models : Disc!Drift(model)
       BY <1>11, DriftKeeps
<1>12. CASE Disc!Acs
       BY <1>1, <1>2, <1>3, <1>4, <1>5, <1>6, <1>7, <1>8, <1>9, <1>12 DEF Disc!Acs
<1>. QED BY <1>2, <1>10, <1>11, <1>12 DEF Disc!Next, Disc!Ended

\* When values are written the trackers are silent: what is pending is known.
LEMMA KnownByInvariant ==
  ASSUME WrittenInv
  PROVE  Disc!KnownWhenWritten
<1>1. SUFFICES ASSUME Disc!Writing, NEW p \in DOMAIN sync.spv PROVE p \in DOMAIN data.at
      BY DEF Disc!KnownWhenWritten
<1>2. sync.on /\ ~data.changed
      BY <1>1 DEF Disc!Writing, Disc!ReadAll, Disc!Reading
<1>. QED BY <1>1, <1>2 DEF WrittenInv, SyncOK, Pending, KnownOrNoticed, Disc!Known

\* What is to be written is known: generateSetRpcRequest looks at the attributes of every parameter
\* of spv without asking whether there are any, and there always are, for any declarations,
\* devices, batches and however often the device changes on its own.
THEOREM WrittenAlwaysKnown ==
  ASSUME Disc!DiscoveryAssumption
  PROVE  Disc!Spec => []Disc!KnownWhenWritten
<1>1. Disc!Init => WrittenInv
      BY DiscoveryInit
<1>2. WrittenInv /\ [Disc!Next]_Disc!vars => WrittenInv'
      BY DiscoveryStep
<1>3. WrittenInv => Disc!KnownWhenWritten
      BY KnownByInvariant
<1>. QED BY <1>1, <1>2, <1>3, PTL DEF Disc!Spec

-----------------------------------------------------------------------------
\* The whole (SessionParts)

\* A step of the whole is a step of the part that it is.
LEMMA StepOfPart ==
  ASSUME [PartsNext]_partsVars
  PROVE  /\ part' = part
         /\ part = "scripts" => [Box!Next]_Box!vars
         /\ part = "discovery" => [Disc!Next]_Disc!vars
         /\ part = "persistence" => [Pers!Next]_Pers!vars
<1>1. CASE PartsNext
      BY <1>1 DEF PartsNext
<1>2. CASE UNCHANGED partsVars
      BY <1>2 DEF partsVars, Others, BoxOnly, DiscOnly, PersOnly, Box!vars, Disc!vars, Pers!vars
<1>. QED BY <1>1, <1>2

LEMMA PartBegins ==
  ASSUME PartsInit
  PROVE  /\ part = "scripts" => Box!Init
         /\ part = "discovery" => Disc!Init
         /\ part = "persistence" => Pers!Init
BY DEF PartsInit

\* However often the sandbox runs a script again, what it logs is logged once.
THEOREM PartsLogOnce == PartsSpec => []LoggedOnce
<1> DEFINE Inv == part = "scripts" => LogInv
<1>1. PartsInit => Inv
      BY PartBegins, LogInit, PartsAssumption
<1>2. Inv /\ [PartsNext]_partsVars => Inv'
      BY StepOfPart, LogStep, PartsAssumption
<1>3. Inv => LoggedOnce
      BY LogByInvariant, PartsAssumption DEF LoggedOnce
<1>. QED BY <1>1, <1>2, <1>3, PTL DEF PartsSpec

\* What generateSetRpcRequest is about to write is known, whatever was declared.
THEOREM PartsKnowWhatIsWritten == PartsSpec => []KnownWhenWritten
<1> DEFINE Inv == part = "discovery" => WrittenInv
<1>1. PartsInit => Inv
      BY PartBegins, DiscoveryInit, PartsAssumption
<1>2. Inv /\ [PartsNext]_partsVars => Inv'
      BY StepOfPart, DiscoveryStep, PartsAssumption
<1>3. Inv => KnownWhenWritten
      BY KnownByInvariant DEF KnownWhenWritten
<1>. QED BY <1>1, <1>2, <1>3, PTL DEF PartsSpec

\* saveDevice keeps the tags that administrators change while a session has the device.
THEOREM PartsMergeTags == PartsSpec => []TagsMerged
<1> DEFINE Inv == part = "persistence" => TagsInv
<1>1. PartsInit => Inv
      BY PartBegins, TagsInit
<1>2. Inv /\ [PartsNext]_partsVars => Inv'
      BY StepOfPart, TagsStep
<1>3. Inv => TagsMerged
      BY TagsByInvariant DEF TagsMerged
<1>. QED BY <1>1, <1>2, <1>3, PTL DEF PartsSpec
=============================================================================
