----------------------------- MODULE DeviceData -----------------------------
(***************************************************************************)
(* What a session knows of the data model of its device: the parameters    *)
(* with the time of every attribute, the times at which wildcards were     *)
(* explored, and the trackers of what was declared (lib/device.ts, with    *)
(* the lookups of lib/common/path-set.ts).                                 *)
(*                                                                         *)
(* A path is a sequence of segments; the revisions of the maps are those   *)
(* of VersionedMap and are left out.                                       *)
(***************************************************************************)
EXTENDS Naturals, Sequences, FiniteSets, SequencesExt

CONSTANT Null   \* no value

Star == "*"
AttrNames == {"object", "writable", "value"}
Flags == AttrNames \cup {"exist"}

MinOf(a, b) == IF a <= b THEN a ELSE b
Later(a, b) == IF a >= b THEN a ELSE b
Wild(path) == \E i \in 1 .. Len(path) : path[i] = Star
Parent(path) == SubSeq(path, 1, Len(path) - 1)
TimeOf(d, path) == IF path \in DOMAIN d.ts THEN d.ts[path] ELSE 0
Known(d, path) == path \in DOMAIN d.at
Has(d, path, n) == Known(d, path) /\ n \in DOMAIN d.at[path]
AttrTime(d, path, n) == IF Has(d, path, n) THEN d.at[path][n][1] ELSE 0
Unknown == 2
AttrValue(d, path, n) ==
    IF Has(d, path, n) THEN d.at[path][n][2] ELSE IF n = "value" THEN Null ELSE Unknown

\* What g says where it says something, and what f says elsewhere.
Over(g, f) == [x \in DOMAIN g \cup DOMAIN f |-> IF x \in DOMAIN g THEN g[x] ELSE f[x]]
With(f, x, v) == [y \in DOMAIN f \cup {x} |-> IF y = x THEN v ELSE f[y]]
Without(f, S) == [x \in DOMAIN f \ S |-> f[x]]

NoData == [ts |-> <<>>, at |-> <<>>, tr |-> <<>>, changed |-> FALSE]

\* PathSet.find: the paths of S that are, up to the given length, a superset or a subset
\* of the pattern, and go no deeper than depth.
Find(S, path, superset, subset, depth) ==
    {q \in S : /\ Len(q) \in Len(path) .. depth
               /\ \A i \in 1 .. Len(path) : \/ q[i] = path[i]
                                            \/ superset /\ q[i] = Star
                                            \/ subset /\ path[i] = Star}
Deep == 99
Paths(d) == DOMAIN d.ts \cup DOMAIN d.tr

\* A parameter with a value is no object, an object has no value; the later time tells.
Coherent(attrs) ==
    LET time(n) == IF n \in DOMAIN attrs THEN attrs[n][1] ELSE 0
    IN  IF "value" \in DOMAIN attrs /\ attrs.value[2] # Null /\ time("value") >= time("object")
        THEN With(attrs, "object", <<time("value"), 0>>)
        ELSE IF "object" \in DOMAIN attrs /\ attrs.object[2] = 1 /\ time("object") >= time("value")
        THEN With(attrs, "value", <<time("object"), Null>>)
        ELSE attrs

Replaced(current, attrs, n) == n \notin DOMAIN current \/ attrs[n][1] > current[n][1]

\* set, without the parents, gives the data, what is to be cleared, whether the parent is
\* to be marked as explored, and when.
Late(d, path, t) == path \notin DOMAIN d.ts \/ t > d.ts[path]

\* A wildcard was explored, or a parameter is gone.
SetGone(d, path, t) ==
    LET stale == IF Wild(path)
                 THEN {q \in Find(DOMAIN d.ts, path, FALSE, TRUE, Len(path)) \ {path} : t > d.ts[q]}
                 ELSE {}
        cleared(q, flags) == [path |-> q, ts |-> t, object |-> 0, flags |-> flags]
    IN  IF ~Late(d, path, t) THEN [d |-> d, clear |-> {}, up |-> FALSE, t |-> t]
        ELSE [d |-> [d EXCEPT !.ts = With(@, path, t), !.at = Without(@, {path})],
              clear |-> {cleared(q, {}) : q \in stale}
                        \cup IF Known(d, path) THEN {cleared(path, {"exist"})} ELSE {},
              up |-> FALSE, t |-> t]

\* A parameter gets the attributes that are newer than its own; flags are those that change.
Changed(current, given, newer) == {n \in newer : n \notin DOMAIN current \/ given[n][2] # current[n][2]}
SetAttrs(d, path, t, current, given, newer, flags) ==
    [d |-> [d EXCEPT
              !.ts = IF Late(d, path, t) THEN With(@, path, t) ELSE @,
              !.at = With(@, path, Over([n \in newer |-> given[n]], current)),
              !.changed = @ \/ (/\ flags \cap {"exist", "object"} = {}
                                /\ \E q \in Find(DOMAIN d.tr, path, TRUE, FALSE, Len(path)) :
                                       d.tr[q] \cap flags # {})],
     clear |-> IF "exist" \in flags
               THEN {[path |-> path, ts |-> t, object |-> 0, flags |-> flags]}
               ELSE IF "object" \in flags
               THEN {[path |-> path, ts |-> 0, object |-> given.object[1], flags |-> flags]}
               ELSE {},
     up |-> Late(d, path, t) /\ Len(path) > 1, t |-> t]

SetKnown(d, path, t, current, given, newer) ==
    SetAttrs(d, path, FoldSet(Later, t, {given[n][1] : n \in DOMAIN given}),
             current, given, newer, Changed(current, given, newer))

\* attrs is empty for a wildcard and for a parameter that is gone.
SetGiven(d, path, t, given) ==
    IF Known(d, path)
    THEN SetKnown(d, path, t, d.at[path], given,
                  {n \in DOMAIN given : Replaced(d.at[path], given, n)})
    ELSE SetAttrs(d, path, t, <<>>, given, DOMAIN given, {"exist"})
SetOne(d, path, t, attrs) ==
    IF Wild(path) \/ DOMAIN attrs = {} THEN SetGone(d, path, t)
    ELSE SetGiven(d, path, t, Coherent(attrs))

\* set: every parent up to the first that was already explored so late is marked too.
\* done is [d |-> the data, clear |-> what is to be cleared in the end], as is the result.
Joined(clear, r) ==
    [d |-> r.d, clear |-> clear \cup r.clear, up |-> r.up, t |-> r.t,
     attrs |-> [object |-> <<r.t, 1>>]]
Upward(path, acc, k) ==
    IF ~acc.up THEN acc
    ELSE Joined(acc.clear, SetOne(acc.d, SubSeq(path, 1, k), acc.t, acc.attrs))
Set(done, path, t, attrs) ==
    FoldLeft(LAMBDA acc, k : Upward(path, acc, k),
             [d |-> done.d, clear |-> done.clear, up |-> TRUE, t |-> t, attrs |-> attrs],
             [i \in 1 .. Len(path) |-> Len(path) + 1 - i])

\* Mutant: the trackers are not told of what is forgotten
ClearSilently(d, c) ==
    LET gone == {p \in Find(DOMAIN d.ts, c.path, TRUE, TRUE, Deep) : Later(c.ts, c.object) > d.ts[p]}
    IN  [d EXCEPT !.ts = Without(@, gone), !.at = Without(@, gone)]

\* clear: forget what is older than c.ts, and below the path what is older than c.object,
\* and tell the trackers.
Clear(d, c) ==
    LET below == Later(c.ts, c.object)
        S == Find(Paths(d), c.path, TRUE, TRUE, IF below > 0 THEN Deep ELSE Len(c.path))
        gone == {p \in S \cap DOMAIN d.ts :
                    \/ c.ts > d.ts[p]
                    \/ below > d.ts[p] /\ Len(p) > Len(c.path)}
        aged(p) == {n \in DOMAIN d.at[p] \cap {"object", "value"} : c.object > d.at[p][n][1]}
        older == {p \in (S \cap DOMAIN d.at) \ gone : Len(p) = Len(c.path) /\ aged(p) # {}}
        flags == c.flags \cup (IF gone # {} THEN {"exist"} ELSE {}) \cup UNION {aged(p) : p \in older}
    IN  [d EXCEPT !.ts = Without(@, gone),
                  !.at = [p \in DOMAIN @ \ gone |->
                            IF p \in older THEN Without(@[p], aged(p)) ELSE @[p]],
                  !.changed = @ \/ (\E p \in S \cap DOMAIN d.tr : d.tr[p] \cap flags # {})]

ClearAll(done) == FoldSet(LAMBDA c, d : Clear(d, c), done.d, done.clear)

\* All that a response says is set, then what has become stale is cleared.
Told(done, all) == FoldSet(LAMBDA x, so : Set(so, x.path, x.t, x.attrs), done, all)
Learnt(d, all) == ClearAll(Told([d |-> d, clear |-> {}], all))

Track(d, path, flags) ==
    [d EXCEPT !.tr = With(@, path, flags \cup (IF path \in DOMAIN @ THEN @[path] ELSE {}))]

ClearTrackers(d) == [d EXCEPT !.tr = <<>>, !.changed = FALSE]

\* unpack: the parameters that match the path and, where a segment is an alias, whose
\* parameter of that name has that value. alias maps names to values.
Unpack(d, path, alias) ==
    {p \in Find(DOMAIN d.at, path, FALSE, TRUE, Len(path)) :
        \A n \in DOMAIN alias : AttrValue(d, Append(p, n), "value") = alias[n]}

\* getAliasDeclarations: to tell instances apart by an alias, its parameters are needed.
AliasDeclarations(path, t, alias) ==
    {[path |-> path, get |-> t, value |-> 0]}
    \cup {[path |-> Append(path, n), get |-> t, value |-> t] : n \in DOMAIN alias}
=============================================================================
