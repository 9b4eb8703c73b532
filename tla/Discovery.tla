----------------------------- MODULE Discovery -----------------------------
(***************************************************************************)
(* How a session of the ACS brings about what its scripts declare          *)
(* (lib/session.ts: runDeclarations, processDeclarations,                  *)
(* processInstances, generateGetRpcRequest, generateSetRpcRequest,         *)
(* rpcResponse, rpcFault), against a device whose data model it does not   *)
(* know, or knows from an earlier session.                                 *)
(*                                                                         *)
(* The device has the object D, its instances D.<i> and their parameters   *)
(* D.<i>.a; Reboot is a parameter of the ACS.  What is declared stays the  *)
(* same: this is what happens between two commits of the scripts.          *)
(***************************************************************************)
EXTENDS DeviceData

CONSTANTS
    Numbers,        \* the instance numbers of the device, in their order
    Values,         \* the values of a
    Default,        \* the value of a in a new instance
    Scenarios,      \* what may be declared: [decls |-> declarations, reboot |-> a time]
    NextLevel,      \* cwmp.gpnNextLevel
    BatchSize,      \* cwmp.gpvBatchSize
    MaxCommits,     \* cwmp.maxCommitIterations
    MaxDrift        \* bound on the changes the device makes on its own

IsSequence(s) == s \in Seq({s[i] : i \in DOMAIN s})

\* What the constants must satisfy (SessionParts assumes it).
DiscoveryAssumption ==
    /\ Default \in Values /\ Null \notin Values
    /\ NextLevel \in Nat /\ BatchSize \in Nat \ {0}
    /\ MaxCommits \in Nat /\ MaxDrift \in Nat
    /\ IsSequence(Numbers)
    /\ \A s \in Scenarios :
          /\ IsSequence(s.decls)
          /\ \A i \in DOMAIN s.decls :
                /\ IsSequence(s.decls[i].path) /\ Len(s.decls[i].path) <= Deep
                /\ IsFiniteSet(DOMAIN s.decls[i].alias)
                /\ s.decls[i].count \subseteq Nat \X Nat

VARIABLES
    cpe,      \* the device: its instances, and whether D may be written
    data,     \* what the session knows
    rebooted, \* the value of Reboot, 0 if it has none
    declared, \* the scenario
    sync,     \* syncState: what is left to be read and written
    request,  \* rpcRequest
    commits,  \* half the iteration: how often the declarations have been run
    drift,    \* changes the device has made on its own
    phase     \* "acs", "cpe", "done" or "fault"

vars == <<cpe, data, rebooted, declared, sync, request, commits, drift, phase>>

Now == 2                        \* the session's timestamp; an earlier session was at 1
Time == Now + 2 * commits

D == <<"D">>
Root == <<>>
InstanceOf(i) == <<"D", i>>
Leaf(i) == <<"D", i, "a">>
Instances == {Numbers[i] : i \in DOMAIN Numbers}
Before(i, j) == \E m, n \in DOMAIN Numbers : Numbers[m] = i /\ Numbers[n] = j /\ m < n

NoRequest == [name |-> "none"]
NoSync == [on |-> FALSE]
Sync == [on |-> TRUE, exist |-> {}, object |-> {}, writable |-> {}, value |-> {}, gpn |-> {},
         spv |-> <<>>, delete |-> {}, create |-> <<>>, reboot |-> 0]

\* What an earlier session has left in the database of a device that was m.
Picture(m) ==
    LET object == [object |-> <<1, 1>>, writable |-> <<1, m.writable>>, value |-> <<1, Null>>]
        leaf(i) == [object |-> <<1, 0>>, writable |-> <<1, 1>>, value |-> <<1, m.a[i]>>]
        objects == {D} \cup {InstanceOf(i) : i \in DOMAIN m.a}
        leaves == {Leaf(i) : i \in DOMAIN m.a}
        explored == {<<Star>>, <<"D", Star>>} \cup {<<"D", i, Star>> : i \in DOMAIN m.a}
    IN  [NoData EXCEPT
          !.at = [p \in objects \cup leaves |-> IF p \in leaves THEN leaf(p[2]) ELSE object],
          !.ts = [p \in objects \cup leaves \cup explored |-> 1]]

Models == [a : UNION {[S -> Values] : S \in SUBSET Instances}, writable : {0, 1}]

Init ==
    /\ cpe \in {m \in Models : Cardinality(DOMAIN m.a) < Len(Numbers)}
    /\ data \in {NoData} \cup {Picture(m) : m \in {m \in Models : m.writable = cpe.writable}}
    /\ declared \in Scenarios
    /\ rebooted \in {0, 1}
    /\ sync = NoSync /\ request = NoRequest
    /\ commits = 0 /\ drift = 0
    /\ phase = "acs"

-----------------------------------------------------------------------------
\* runDeclarations. A declaration is [path, alias, get, value, set, count]: since when the
\* path and the attribute value must be known, at most one value to set, and at most one
\* pair of a minimum and a maximum of instances.

The(S) == CHOOSE x \in S : TRUE
Found(d, decl) == Unpack(d, decl.path, decl.alias)
Aliased(decl) == DOMAIN decl.alias # {}

\* What is to be read: [path, get, value].
Wanted(d, decl) ==
    {[path |-> p, get |-> decl.get, value |-> decl.value] :
        p \in IF Aliased(decl) THEN Found(d, decl) ELSE {decl.path}}
    \cup IF Aliased(decl) THEN AliasDeclarations(decl.path, decl.get, decl.alias) ELSE {}

\* What gets the value of a declaration.
Targets(d, decl) ==
    IF decl.set = {} THEN {}
    ELSE IF Wild(decl.path) \/ Aliased(decl) THEN Found(d, decl) ELSE {decl.path}

\* The attribute writable is needed of all that is to be set, created or deleted.
ToWrite(d, decl) ==
    Targets(d, decl)
    \cup IF decl.count = {} THEN {} ELSE Found(d, decl) \cup {Parent(decl.path)}

Tracked(d, decl) ==
    FoldSet(LAMBDA n, e : Track(e, Append(decl.path, n), {"exist", "value"}),
            Track(d, decl.path, {"exist"}), DOMAIN decl.alias)

\* mergeAttributeValues: later declarations of a path prevail.
Assigned(d, decls) ==
    FoldLeft(LAMBDA v, decl : Over([p \in Targets(d, decl) |-> The(decl.set)], v), <<>>, decls)

\* processInstances: instances beyond the maximum are deleted; those that are about to be
\* created count; missing ones are created with the keys of the alias. A declaration of
\* one instance only deletes.
Covers(f, g) == \A n \in DOMAIN g : n \in DOMAIN f /\ f[n] = g[n]
Rank(i, S) == Cardinality({j \in S : j <= i})

\* Mutant: one instance too many is kept
DeletionsButOne(here, min, max, deleted) ==
    (deleted \ {here[i] : i \in 1 .. MinOf(min, Len(here))}) \cup {here[i] : i \in max + 2 .. Len(here)}

Deletions(here, min, max, deleted) ==
    (deleted \ {here[i] : i \in 1 .. MinOf(min, Len(here))}) \cup {here[i] : i \in max + 1 .. Len(here)}

Creations(n, keys, min, max, create) ==
    LET fuller == {i \in DOMAIN create : Covers(create[i], keys)}
        kept == {i \in DOMAIN create : i \in fuller => n + Rank(i, fuller) <= max}
        vaguer == {i \in kept : Covers(keys, create[i])}
        m == n + Cardinality(fuller)
        now == [i \in DOMAIN create |->
                  IF i \in vaguer /\ m + Rank(i, vaguer) <= min THEN keys ELSE create[i]]
        missing == {j \in 1 .. min : j > m + Cardinality(vaguer)}
    IN  [j \in 1 .. Cardinality(kept) |-> now[The({i \in kept : Rank(i, kept) = j})]]
        \o [j \in 1 .. Cardinality(missing) |-> keys]

Here(d, decl) == SetToSortSeq(Found(d, decl), LAMBDA p, q : Before(p[2], q[2]))
Provided(d, s, decl) ==
    IF decl.count = {} THEN s
    ELSE LET min == The(decl.count)[1]
             max == The(decl.count)[2]
             here == Here(d, decl)
         IN  [s EXCEPT !.delete = Deletions(here, min, max, @),
                       !.create = IF ~Wild(decl.path) THEN @
                                  ELSE Creations(Len(here), decl.alias, min, max, @)]
AllProvided(d, decls) == FoldLeft(LAMBDA s, decl : Provided(d, s, decl), Sync, decls)

-----------------------------------------------------------------------------
\* processDeclarations: what the tree of known and declared paths makes of it.

\* The parameters of the tree that are visited, and the paths that are unknown beyond the
\* last known one, the leaf.
KnownPrefix(d, c) ==
    SubSeq(c, 1, CHOOSE k \in 0 .. Len(c) :
                    /\ k = 0 \/ Known(d, SubSeq(c, 1, k))
                    /\ \A j \in k + 1 .. Len(c) : ~Known(d, SubSeq(c, 1, j)))
Covering(p, c) == Len(p) = Len(c) /\ \A i \in 1 .. Len(c) : p[i] \in {c[i], Star}
Visited(d, P) ==
    UNION {LET l == lq[1]
               q == lq[2]
           IN  {c \in {l \o SubSeq(q, Len(l) + 1, k) : k \in Len(l) .. Len(q)} : KnownPrefix(d, c) = l} :
              lq \in {lq \in (DOMAIN d.at \cup {Root}) \X P :
                        /\ Len(lq[1]) <= Len(lq[2])
                        /\ Covering(SubSeq(lq[2], 1, Len(lq[1])), lq[1])}}

Latest(S) == IF S = {} THEN 0 ELSE Max(S)
ExploredAt(d, c) == Latest({d.ts[p] : p \in {p \in DOMAIN d.ts : Covering(p, c)}})

\* Since when it is known that there is nothing below the leaf, or no instance more.
LeafTime(d, c) ==
    Latest({LET p == SubSeq(c, 1, k)
            IN  IF Known(d, p)
                THEN IF AttrValue(d, p, "object") = 0 THEN AttrTime(d, p, "object") ELSE 0
                ELSE ExploredAt(d, p) : k \in 0 .. Len(c)})

Processed(d, s, wanted, toWrite, assigned) ==
    LET P == Paths(d) \cup {w.path : w \in wanted} \cup toWrite
        visited == Visited(d, P)
        asked(c) == Latest({w.get : w \in {w \in wanted : Covering(w.path, c)}})
        valueAt(c) == Latest({w.value : w \in {w \in wanted : Covering(w.path, c)}})
        due == {c \in visited : asked(c) > ExploredAt(d, c) /\ asked(c) > LeafTime(d, c)}
        leaf(c) == KnownPrefix(d, c)
        isObject(l) == l = Root \/ AttrValue(d, l, "object") = 1
        known == {c \in visited : Known(d, c)}
        stale == {c \in known : /\ valueAt(c) > 0
                                /\ ~Has(d, c, "value") \/ valueAt(c) > AttrTime(d, c, "value")}
    IN  [s EXCEPT
          !.exist = {c \in due : c = leaf(c)},
          !.gpn = {leaf(c) : c \in {c \in due : c # leaf(c) /\ isObject(leaf(c))}},
          !.object = {leaf(c) : c \in {c \in due : c # leaf(c) /\ ~isObject(leaf(c))}}
                     \cup {c \in stale : AttrValue(d, c, "object") = Unknown},
          !.value = {c \in stale : AttrValue(d, c, "object") = 0},
          !.writable = {c \in known : /\ \E p \in toWrite : Covering(p, c)
                                      /\ ~Has(d, c, "writable")},
          !.spv = [c \in known \cap DOMAIN assigned |-> assigned[c]]]

Declare ==
    /\ phase = "acs" /\ ~sync.on /\ commits < MaxCommits
    /\ LET tracked == FoldLeft(Tracked, data, declared.decls)
           wanted == UNION {Wanted(data, declared.decls[i]) : i \in DOMAIN declared.decls}
           toWrite == UNION {ToWrite(data, declared.decls[i]) : i \in DOMAIN declared.decls}
       IN  /\ data' = tracked
           /\ sync' = [Processed(tracked, AllProvided(data, declared.decls), wanted, toWrite,
                                 Assigned(data, declared.decls))
                         EXCEPT !.reboot = declared.reboot]
    /\ commits' = commits + 1
    /\ UNCHANGED <<cpe, rebooted, declared, request, drift, phase>>

TooManyCommits ==
    /\ phase = "acs" /\ request = NoRequest
    /\ commits = MaxCommits
    /\ phase' = "fault"
    /\ UNCHANGED <<cpe, data, rebooted, declared, sync, request, commits, drift>>

-----------------------------------------------------------------------------
\* generateGetRpcRequest

Below(p, S) == Find(S, p, FALSE, TRUE, Deep)

\* Parameters whose existence, kind or access is in question are looked up with their
\* parents, unless a request for something below will tell.
ToExplore(s) ==
    LET answered == s.value \cup s.object \cup s.writable \cup s.gpn
        deeper(p) == {q \in s.object \cup s.writable : Len(q) > Len(p)}
    IN  s.gpn \cup {Parent(p) : p \in {p \in s.exist : Below(p, answered) = {}}}
              \cup {Parent(p) : p \in {p \in s.object : Below(p, s.value \cup deeper(p)) = {}}}
              \cup {Parent(p) : p \in s.writable}

Readable(p) == AttrValue(data, p, "object") = 0

Ask(req, s) ==
    /\ request' = req
    /\ sync' = s
    /\ phase' = "cpe"
    /\ UNCHANGED <<cpe, data, rebooted, declared, commits, drift>>

Reading == phase = "acs" /\ sync.on /\ request = NoRequest /\ commits < MaxCommits
Explorable == {p \in ToExplore(sync) : p = Root \/ Known(data, p)}
Explored == [sync EXCEPT !.exist = {}, !.object = {}, !.writable = {}, !.gpn = Explorable]

\* The shortest path first; all that is below it at once, if that looks cheaper
\* (estimateGpnCount).
GetNames(p, nextLevel) ==
    /\ Reading
    /\ p \in Explorable /\ \A q \in Explorable : Len(p) <= Len(q)
    /\ nextLevel \/ Len(p) >= NextLevel
    /\ Ask([name |-> "GetParameterNames", path |-> p, nextLevel |-> nextLevel],
           [Explored EXCEPT !.gpn = @ \ IF nextLevel THEN {p} ELSE Below(p, @)])

GetValues(S) ==
    /\ Reading /\ Explorable = {}
    /\ S # {} /\ S \subseteq {p \in sync.value : Readable(p)}
    /\ Cardinality(S) = MinOf(BatchSize, Cardinality({p \in sync.value : Readable(p)}))
    /\ Ask([name |-> "GetParameterValues", names |-> S, keys |-> <<>>],
           [Explored EXCEPT !.value = @ \ S])

ReadAll == Reading /\ Explorable = {} /\ \A p \in sync.value : ~Readable(p)

\* What was read has changed what the declarations meant: they are run again.
DeclareAgain ==
    /\ ReadAll
    /\ data.changed
    /\ sync' = NoSync
    /\ data' = ClearTrackers(data)
    /\ UNCHANGED <<cpe, rebooted, declared, request, commits, drift, phase>>

-----------------------------------------------------------------------------
\* generateSetRpcRequest

Writable(p) == AttrValue(data, p, "writable") = 1
Writing == ReadAll /\ ~data.changed
Deletable == {p \in sync.delete : Known(data, p) /\ Writable(p)}
Creatable == sync.create # <<>> /\ Writable(D)
Different == {p \in DOMAIN sync.spv : /\ Has(data, p, "value") /\ Writable(p)
                                      /\ sync.spv[p] # AttrValue(data, p, "value")}

DeleteInstance(p) ==
    /\ Writing
    /\ p \in Deletable
    /\ Ask([name |-> "DeleteObject", path |-> p], [Explored EXCEPT !.delete = @ \ {p}])

CreateInstance ==
    /\ Writing /\ Deletable = {}
    /\ Creatable
    /\ Ask([name |-> "AddObject", keys |-> Head(sync.create)],
           [Explored EXCEPT !.create = Tail(@)])

SetValues(S) ==
    /\ Writing /\ Deletable = {} /\ ~Creatable
    /\ S # {} /\ S \subseteq Different
    /\ Cardinality(S) = MinOf(BatchSize, Cardinality(Different))
    /\ Ask([name |-> "SetParameterValues", list |-> [p \in S |-> sync.spv[p]]],
           [Explored EXCEPT !.spv = Without(@, S)])

Reboot ==
    /\ Writing /\ Deletable = {} /\ ~Creatable /\ Different = {}
    /\ sync.reboot > rebooted
    /\ Ask([name |-> "Reboot"], [Explored EXCEPT !.reboot = 0, !.spv = <<>>])

Done ==
    /\ Writing /\ Deletable = {} /\ ~Creatable /\ Different = {}
    /\ sync.reboot <= rebooted
    /\ phase' = "done"
    /\ sync' = NoSync
    /\ data' = ClearTrackers(data)
    /\ UNCHANGED <<cpe, rebooted, declared, request, commits, drift>>

-----------------------------------------------------------------------------
\* The device

Exists(p) == p \in {Root, D} \cup UNION {{InstanceOf(i), Leaf(i)} : i \in DOMAIN cpe.a}
Everything == {Root, D} \cup UNION {{InstanceOf(i), Leaf(i)} : i \in DOMAIN cpe.a}
IsLeaf(p) == Len(p) = 3
AccessOf(p) == IF IsLeaf(p) THEN 1 ELSE cpe.writable

\* Instances come and go without the ACS, and values change.
Drift(model) ==
    /\ phase = "cpe"
    /\ drift < MaxDrift
    /\ model.writable = cpe.writable /\ model # cpe
    /\ Cardinality(DOMAIN model.a) < Len(Numbers)
    /\ \E i \in Instances : \A j \in Instances \ {i} :
          (j \in DOMAIN model.a <=> j \in DOMAIN cpe.a) /\ (j \in DOMAIN cpe.a => model.a[j] = cpe.a[j])
    /\ cpe' = model
    /\ drift' = drift + 1
    /\ UNCHANGED <<data, rebooted, declared, sync, request, commits, phase>>

\* rpcResponse: what the session learns, and whether the request goes on with the keys of
\* a new instance.
Answer(learnt, next) ==
    /\ phase = "cpe"
    /\ phase' = "acs"
    /\ data' = learnt
    /\ request' = next
    /\ UNCHANGED <<declared, sync, commits, drift>>

NamesAnswered ==
    /\ request.name = "GetParameterNames"
    /\ Exists(request.path)
    /\ LET listed == {p \in Everything : /\ Len(p) > Len(request.path) \/ ~request.nextLevel
                                         /\ Len(p) > 0
                                         /\ IsPrefix(request.path, p)
                                         /\ request.nextLevel => Len(p) = Len(request.path) + 1}
           known(p) == [object |-> <<Time, IF IsLeaf(p) THEN 0 ELSE 1>>, writable |-> <<Time, AccessOf(p)>>]
           wild == {Append(request.path, Star)}
                   \cup IF request.nextLevel THEN {} ELSE {Append(p, Star) : p \in {q \in listed : ~IsLeaf(q)}}
           named == {[path |-> p, t |-> Time, attrs |-> known(p)] : p \in listed}
           explored == {[path |-> p, t |-> Time, attrs |-> <<>>] : p \in wild}
       IN  Answer(ClearAll(Told(Told([d |-> data, clear |-> {}], named), explored)), NoRequest)
    /\ UNCHANGED <<cpe, rebooted>>

\* The values of the keys of a new instance are read back, and those that are not what
\* they ought to be are set.
ValuesAnswered ==
    /\ request.name = "GetParameterValues"
    /\ \A p \in request.names : Exists(p)
    /\ LET wrong == {p \in request.names \cap DOMAIN request.keys : request.keys[p] # cpe.a[p[2]]}
       IN  Answer(Learnt(data, {[path |-> p, t |-> Time,
                                 attrs |-> [object |-> <<Time, 0>>, value |-> <<Time, cpe.a[p[2]]>>]] :
                                    p \in request.names}),
                  IF wrong = {} THEN NoRequest
                  ELSE [name |-> "SetParameterValues", list |-> [p \in wrong |-> request.keys[p]]])
    /\ UNCHANGED <<cpe, rebooted>>

ValuesSet ==
    /\ request.name = "SetParameterValues"
    /\ \A p \in DOMAIN request.list : Exists(p)
    /\ cpe' = [cpe EXCEPT !.a = [i \in DOMAIN @ |-> IF Leaf(i) \in DOMAIN request.list
                                                     THEN request.list[Leaf(i)] ELSE @[i]]]
    /\ Answer(Learnt(data, {[path |-> p, t |-> Time + 1,
                      attrs |-> [object |-> <<Time + 1, 0>>, value |-> <<Time + 1, request.list[p]>>]] :
                        p \in DOMAIN request.list}), NoRequest)
    /\ UNCHANGED rebooted

InstanceAdded(i) ==
    /\ request.name = "AddObject"
    /\ i \in Instances \ DOMAIN cpe.a
    /\ cpe' = [cpe EXCEPT !.a = With(@, i, Default)]
    /\ Answer(Learnt(data, {[path |-> InstanceOf(i), t |-> Time + 1,
                              attrs |-> [object |-> <<Time + 1, 1>>]]}),
              IF DOMAIN request.keys = {} THEN NoRequest
              ELSE [name |-> "GetParameterValues",
                    names |-> {Append(InstanceOf(i), n) : n \in DOMAIN request.keys},
                    keys |-> [p \in {Append(InstanceOf(i), n) : n \in DOMAIN request.keys} |->
                                request.keys[p[3]]]])
    /\ UNCHANGED rebooted

InstanceDeleted ==
    /\ request.name = "DeleteObject"
    /\ Exists(request.path)
    /\ cpe' = [cpe EXCEPT !.a = Without(@, {request.path[2]})]
    /\ Answer(Learnt(data, {[path |-> request.path, t |-> Time + 1, attrs |-> <<>>]}), NoRequest)
    /\ UNCHANGED rebooted

\* The parameter Reboot is not there before the first response.
Rebooted ==
    /\ request.name = "Reboot"
    /\ rebooted' = Now
    /\ Answer([data EXCEPT !.changed = @ \/ rebooted = 0], NoRequest)
    /\ UNCHANGED cpe

\* rpcFault: a name that is no longer valid is forgotten with all that is below it.
Named == CASE request.name \in {"GetParameterNames", "DeleteObject"} -> {request.path}
           [] request.name = "GetParameterValues" -> request.names
           [] request.name = "SetParameterValues" -> DOMAIN request.list
           [] OTHER -> {}

\* Mutant: the request that has failed is sent again
InvalidNameRetried ==
    /\ phase = "cpe"
    /\ \E p \in Named : ~Exists(p)
    /\ phase' = "acs"
    /\ data' = ClearAll([d |-> data,
                         clear |-> {[path |-> p, ts |-> Time + 1, object |-> 0, flags |-> {}] : p \in Named}])
    /\ sync' = NoSync
    /\ UNCHANGED <<cpe, rebooted, declared, commits, drift, request>>

InvalidName ==
    /\ phase = "cpe"
    /\ \E p \in Named : ~Exists(p)
    /\ phase' = "acs"
    /\ data' = ClearAll([d |-> data,
                         clear |-> {[path |-> p, ts |-> Time + 1, object |-> 0, flags |-> {}] : p \in Named}])
    /\ sync' = NoSync /\ request' = NoRequest
    /\ UNCHANGED <<cpe, rebooted, declared, commits, drift>>

\* A request of its own that follows the creation of an instance is sent at once.
GoOn ==
    /\ phase = "acs" /\ request # NoRequest
    /\ phase' = "cpe"
    /\ UNCHANGED <<cpe, data, rebooted, declared, sync, request, commits, drift>>

Respond ==
    \/ NamesAnswered \/ ValuesAnswered \/ ValuesSet \/ InstanceDeleted \/ Rebooted \/ InvalidName
    \/ \E i \in Instances : InstanceAdded(i)

Acs ==
    \/ Declare \/ TooManyCommits \/ DeclareAgain \/ CreateInstance \/ Reboot \/ Done \/ GoOn
    \/ sync.on /\ \E p \in Explorable, nextLevel \in BOOLEAN : GetNames(p, nextLevel)
    \/ sync.on /\ \E S \in SUBSET sync.value : GetValues(S)
    \/ sync.on /\ \E p \in sync.delete : DeleteInstance(p)
    \/ sync.on /\ \E S \in SUBSET DOMAIN sync.spv : SetValues(S)

\* The session is over.
Ended == phase \in {"done", "fault"} /\ UNCHANGED vars

Next == Acs \/ Respond \/ Ended \/ \E model \in Models : Drift(model)

\* A step of Acs or Respond, told by the variables that only they change.  One of them is
\* possible until the session is over (there is no deadlock), so that this is the weak
\* fairness of Acs \/ Respond; ENABLED of that takes TLC too long.
Advance ==
    /\ phase \in {"acs", "cpe"}
    /\ phase' \in {"acs", "cpe", "done", "fault"}
    /\ commits' \in {commits, commits + 1}

Spec == Init /\ [][Next]_vars /\ WF_<<phase, commits>>(Advance)

-----------------------------------------------------------------------------
\* Properties

\* What is known of a parameter is no newer than what is known of its parent, which set
\* marks along with it.
TypeOK ==
    /\ cpe \in Models
    /\ \A p \in DOMAIN data.at : p \in DOMAIN data.ts /\ DOMAIN data.at[p] \subseteq AttrNames
    /\ \A p \in DOMAIN data.at : Len(p) > 1 => Known(data, Parent(p)) /\ data.ts[Parent(p)] >= data.ts[p]
    /\ commits \in 0 .. MaxCommits /\ drift \in 0 .. MaxDrift
    /\ phase \in {"acs", "cpe", "done", "fault"}

\* What is to be written is known: generateSetRpcRequest looks at the attributes of every
\* parameter in spv without asking whether there are any.
KnownWhenWritten == Writing => DOMAIN sync.spv \subseteq DOMAIN data.at

\* When the declarations are done, a device that did not change on its own has what they
\* say: values where they may be written, and as many instances as may be had.
Matches(decl) ==
    IF decl.alias = <<>> THEN {p \in Everything : p \in Find({p}, decl.path, FALSE, TRUE, Len(decl.path))}
    ELSE {p \in Everything : /\ p \in Find({p}, decl.path, FALSE, TRUE, Len(decl.path))
                             /\ cpe.a[p[2]] = decl.alias["a"]}

Fulfilled ==
    phase = "done" /\ drift = 0 =>
        \A i \in DOMAIN declared.decls :
            LET decl == declared.decls[i]
                n == Cardinality(Matches(decl))
            IN  /\ decl.get = Now /\ decl.value = Now /\ decl.set # {} =>
                      \A p \in Matches(decl) : cpe.a[p[2]] \in decl.set
                /\ decl.get = Now /\ decl.count # {} /\ cpe.writable = 1 =>
                      /\ n <= The(decl.count)[2]
                      /\ Wild(decl.path) => n >= The(decl.count)[1]

\* When the declarations are done, all that was read or written in this session is so on
\* a device that did not change on its own.
Truthful ==
    phase = "done" /\ drift = 0 =>
        \A p \in DOMAIN data.at :
            /\ AttrTime(data, p, "object") > Now => Exists(p)
            /\ AttrTime(data, p, "value") > Now /\ AttrValue(data, p, "object") = 0 =>
                  Exists(p) /\ cpe.a[p[2]] = data.at[p]["value"][2]

\* Declarations that do not contradict each other are done in the end: the reading and the
\* writing do not set each other off for ever.
Settles == <>(phase = "done")
=============================================================================
