----------------------------- MODULE Persistence -----------------------------
(***************************************************************************)
(* What a session knows of its device, kept in the document of the device  *)
(* (fetchDevice and saveDevice of lib/cwmp/db.ts) and read again by the    *)
(* next session and by the administrators (flattenDevice of lib/ui/db.ts). *)
(*                                                                         *)
(* The document is a function from keys to values; a key is the path of a  *)
(* parameter, for its subdocument (its value is Null), or such a path and  *)
(* the name of a field.  A value stands for a value with its type.         *)
(***************************************************************************)
EXTENDS DeviceData

CONSTANTS
    Models,         \* what a device may be: from its parameters to Object or their values
    Tags,
    Tagged,         \* bound: the devices whose tags change
    MaxSessions     \* bound: sessions of the device

Object == "object"

\* What the constants must satisfy (SessionParts assumes it).
PersistenceAssumption ==
    /\ MaxSessions \in Nat \ {0}
    /\ \A m \in Models : \A p \in DOMAIN m : Len(p) > 1 => m[Parent(p)] = Object

VARIABLES
    cpe,        \* the device: one of Models
    doc, tags,  \* its document: keys and tags
    now,        \* the timestamp of the session
    phase,      \* "idle", "session", "pull" or "failed"
    data, dataTags,     \* what the session knows
    base, baseTags,     \* what it has loaded
    held,       \* what the last session that was saved knew, its timestamp, and the tags it changed
    asked       \* what administrators ask of tags while a session has the device: a function

vars == <<cpe, doc, tags, now, phase, data, dataTags, base, baseTags, held, asked>>

Keys(key) == {SubSeq(key, 1, i) : i \in 0 .. Len(key)}
Field(path, name) == Append(path, name)
Get(d, key, default) == IF key \in DOMAIN d THEN d[key] ELSE default

\* The parameters that are kept under another name.
Inform == <<"Events", "Inform">>
Registered == <<"Events", "Registered">>
OUI == <<"DeviceID", "OUI">>        \* and so the others of DeviceID
Special == (Inform :> <<"_lastInform">>) @@ (Registered :> <<"_registered">>) @@ (OUI :> <<"_deviceId._OUI">>)
Roots == {<<"Events">>, <<"DeviceID">>}
Own(paths) == {p \in paths : <<p[1]>> \notin Roots}    \* the parameters of the device itself
Params(d) == {key \in DOMAIN d : d[key] = Null /\ key # <<>>}
HasChildren(d, path) == \E q \in Params(d) : Len(q) = Len(path) + 1 /\ IsPrefix(path, q)

Nothing == [data |-> NoData, tagged |-> {}, now |-> 0]

Init ==
    /\ cpe \in Models
    /\ doc = <<>> /\ tags = {}
    /\ now = 0 /\ phase = "idle"
    /\ data = NoData /\ base = NoData /\ dataTags = {} /\ baseTags = {}
    /\ held = Nothing
    /\ asked = <<>>

-----------------------------------------------------------------------------
\* fetchDevice

\* The attributes of a parameter: its _timestamp is the time of its value, or, of an object,
\* the time at which its children were explored; then their attributes were read too.
LoadParam(d, p) ==
    LET own == Get(d, Field(p, "_timestamp"), 0)
        explored == Get(d, Field(Parent(p), "_timestamp"), 0)
        set(name) == Field(p, name) \in DOMAIN d
        t == Later(Later(own, 1), explored)
        at == Later(Get(d, Field(p, "_attributesTimestamp"), 0), 1)
        has == {n \in {"value", "writable", "notification", "accessList"} : set("_" \o n)}
               \cup (IF set("_object") \/ set("_value") THEN {"object"} ELSE {})
    IN  [t |-> t, attrs |->
          [n \in has |->
             CASE n = "object" -> <<t, IF set("_value") THEN 0 ELSE d[Field(p, "_object")]>>
               [] n = "value" -> <<Later(own, 1), d[Field(p, "_value")]>>
               [] n = "writable" -> <<Later(explored, 1), d[Field(p, "_writable")]>>
               [] OTHER -> <<at, d[Field(p, "_" \o n)]>>]]

\* Events have the time that they are about; that of the first session, and the identity of
\* the device, have the time of this one.
LoadSpecial(d, p, timestamp) ==
    LET v == d[Special[p]]
        t == IF p = Inform THEN v ELSE timestamp
    IN  [object |-> <<t, 0>>, writable |-> <<t, 0>>, value |-> <<t, v>>]

Load(d, timestamp) ==
    LET params == Params(d)
        special == {p \in DOMAIN Special : Special[p] \in DOMAIN d}
        explored == {<<>>} \cup {p \in params :
                        \/ HasChildren(d, p)
                        \/ Field(p, "_value") \notin DOMAIN d /\ Get(d, Field(p, "_object"), 0) = 1}
        wild == {Append(p, Star) : p \in {p \in explored : Field(p, "_timestamp") \in DOMAIN d}}
    IN  [NoData EXCEPT
          !.at = [p \in Roots |-> [object |-> <<timestamp, 1>>, writable |-> <<timestamp, 0>>]]
                 @@ [p \in params |-> LoadParam(d, p).attrs] @@ [p \in special |-> LoadSpecial(d, p, timestamp)],
          !.ts = [p \in Roots |-> timestamp] @@ [p \in params |-> LoadParam(d, p).t]
                 @@ [p \in special |-> LoadSpecial(d, p, timestamp).value[1]]
                 @@ [w \in wild |-> d[Field(Parent(w), "_timestamp")]]]

-----------------------------------------------------------------------------
\* saveDevice

\* When children were explored is kept with their parent; no later than the session.
SaveExplored(old, new, timestamp) ==
    LET wild == {p \in DOMAIN old.ts \cup DOMAIN new.ts :
                    Wild(p) /\ ~Wild(Parent(p)) /\ TimeOf(old, p) # TimeOf(new, p)}
        here == {p \in wild \cap DOMAIN new.ts : Parent(p) = <<>> \/ Known(new, Parent(p))}
        key(p) == Field(Parent(p), "_timestamp")
    IN  [set |-> [k \in {key(p) : p \in here} |-> MinOf(new.ts[Append(Parent(k), Star)], timestamp)],
         unset |-> {key(p) : p \in wild \ DOMAIN new.ts}]

SaveSpecial(old, new) ==
    LET differ == {p \in DOMAIN Special : AttrValue(old, p, "value") # AttrValue(new, p, "value")}
        here == {p \in differ : Known(new, p)}
    IN  [set |-> [k \in {Special[p] : p \in here} |->
                    new.at[CHOOSE p \in here : Special[p] = k].value[2]],
         unset |-> {Special[p] : p \in differ \ here}]

Real(attrs) == {n \in DOMAIN attrs : attrs[n][2] # Null}

Gone(was, is) == Real(was) \ Real(is)

\* Of a parameter that is still there, the attributes that differ.  The times of a value and
\* of the other attributes are written as they are.
SaveParam(old, new, p) ==
    LET was == IF Known(old, p) THEN old.at[p] ELSE <<>>
        is == new.at[p]
        time(attrs, n) == IF n \in DOMAIN attrs THEN attrs[n][1] ELSE 0
        differ == {n \in Real(is) : n \notin DOMAIN was \/ was[n][2] # is[n][2]}
        gone == Gone(was, is)
        stamp == IF "value" \in Real(is) /\ time(is, "value") # time(was, "value")
                 THEN {"_timestamp"} ELSE {}
        attributes == IF /\ {"notification", "accessList"} \cap Real(is) # {}
                         /\ time(is, "notification") # time(was, "notification")
                      THEN {"_attributesTimestamp"} ELSE {}
        name(k) == CHOOSE n \in DOMAIN is : k[Len(k)] = "_" \o n
    IN  [set |-> [k \in {Field(p, "_" \o n) : n \in differ} |-> is[name(k)][2]]
                 @@ [k \in {Field(p, s) : s \in stamp} |-> is.value[1]]
                 @@ [k \in {Field(p, s) : s \in attributes} |-> is.notification[1]],
         unset |-> {Field(p, "_" \o n) : n \in gone}
                   \cup (IF "value" \in gone THEN {Field(p, "_timestamp")} ELSE {})
                   \cup (IF gone \cap {"notification", "accessList"} # {}
                            /\ {"notification", "accessList"} \cap Real(is) = {}
                         THEN {Field(p, "_attributesTimestamp")} ELSE {})]

\* Mutant: what was unset stays unset
OptimizedAgainst(unset, set) == {k \in unset : \A u \in unset \ {k} : ~IsPrefix(u, k)}

\* Of the keys to be removed, those below another are dropped (optimizeProjection), and those
\* that are set as well: a _timestamp may become that of a value.
Optimized(unset, set) ==
    {k \in unset : (\A u \in unset \ {k} : ~IsPrefix(u, k)) /\ k \notin DOMAIN set}

Update(old, new, timestamp) ==
    LET params == {p \in Own(DOMAIN old.at \cup DOMAIN new.at) :
                      ~Known(old, p) \/ ~Known(new, p) \/ old.at[p] # new.at[p]}
        each == {SaveParam(old, new, p) : p \in {p \in params : Known(new, p)}}
        explored == SaveExplored(old, new, timestamp)
        special == SaveSpecial(old, new)
        set == FoldSet(LAMBDA e, f : e.set @@ f, explored.set @@ special.set, each)
    IN  [set |-> set,
         unset |-> Optimized(UNION {e.unset : e \in each} \cup explored.unset \cup special.unset
                             \cup {p \in params : ~Known(new, p)}, set)]

\* The database refuses an update of a document and of a field of it.
Conflict(up) == \E u \in up.unset, k \in DOMAIN up.set : IsPrefix(u, k) \/ IsPrefix(k, u)

Apply(d, up) ==
    LET kept == Without(d, {k \in DOMAIN d : \E u \in up.unset : IsPrefix(u, k)})
        inside == UNION {Keys(k) \ {k} : k \in DOMAIN up.set} \ {<<>>}
    IN  up.set @@ kept @@ [k \in inside |-> Null]

-----------------------------------------------------------------------------
\* A session.  The first one finds no document and makes one.
Begin(t) ==
    LET loaded == IF doc = <<>> THEN NoData ELSE Load(doc, t)
        given(p) == [value |-> <<t, IF p = OUI THEN 0 ELSE t>>, writable |-> <<t, 0>>]
    IN  /\ phase = "idle" /\ now < 4 * MaxSessions
        /\ t = now + 4
        /\ now' = t /\ phase' = "session"
        /\ base' = loaded
        /\ baseTags' = tags /\ dataTags' = tags
        /\ data' = FoldSet(LAMBDA p, d : ClearAll(Set([d |-> d, clear |-> {}], p, t, given(p))), loaded,
                           IF doc = <<>> THEN {Inform, Registered, OUI} ELSE {Inform, OUI})
        /\ asked' = <<>>
        /\ UNCHANGED <<cpe, doc, tags, held>>

Learn(all) ==
    /\ phase = "session"
    /\ data' = Learnt(data, all)
    /\ UNCHANGED <<cpe, doc, tags, now, phase, dataTags, base, baseTags, held, asked>>

Here == DOMAIN cpe
IsObject(p) == cpe[p] = Object

\* GetParameterNames, of the children of what is known to be an object.
Explore(path) ==
    /\ path # <<>> => path \in Here /\ IsObject(path) /\ AttrValue(data, path, "object") = 1
    /\ LET children == {p \in Here : Parent(p) = path}
       IN  Learn({[path |-> p, t |-> now, attrs |-> [object |-> <<now, IF IsObject(p) THEN 1 ELSE 0>>,
                                                     writable |-> <<now, 1>>]] : p \in children}
                 \cup {[path |-> Append(path, Star), t |-> now, attrs |-> <<>>]})

\* GetParameterValues, the values in an inform, and values that were set, at a later time.
Value(p, t) ==
    /\ ~IsObject(p)
    /\ t \in {now, now + 1}
    /\ Learn({[path |-> p, t |-> t, attrs |-> [object |-> <<t, 0>>, value |-> <<t, cpe[p]>>]]})

\* GetParameterAttributes, and SetParameterAttributes of either or both.
Attributes(p, which, t) ==
    /\ Known(data, p) /\ ~IsObject(p)
    /\ \/ t = now /\ which = {"notification", "accessList"}
       \/ t = now + 1 /\ which # {} /\ which \subseteq DOMAIN data.at[p]
    /\ Learn({[path |-> p, t |-> t, attrs |-> [n \in which |-> <<t, t - now>>]]})

Tag(tag, on) ==
    /\ phase = "session" /\ cpe \in Tagged
    /\ dataTags' = IF on THEN dataTags \cup {tag} ELSE dataTags \ {tag}
    /\ UNCHANGED <<cpe, doc, tags, now, phase, data, base, baseTags, held, asked>>

\* Mutant: the tags that the session does not know are removed
PullsAll(old, new) == Tags \ new

Pulls(old, new) == old \ new

\* Tags are added and removed one by one, in two updates.
Save ==
    LET up == Update(base, data, now)
    IN  /\ phase = "session"
        /\ IF Conflict(up) THEN phase' = "failed" /\ UNCHANGED <<doc, tags, held>>
           ELSE /\ doc' = Apply(doc, up)
                /\ tags' = tags \cup (dataTags \ baseTags)
                /\ held' = [data |-> data, now |-> now,
                            tagged |-> (dataTags \ baseTags) \cup (baseTags \ dataTags)]
                /\ phase' = "pull"
        /\ UNCHANGED <<cpe, now, data, dataTags, base, baseTags, asked>>

Pull ==
    /\ phase = "pull"
    /\ tags' = tags \ Pulls(baseTags, dataTags)
    /\ phase' = "idle"
    /\ data' = NoData /\ base' = NoData /\ dataTags' = {} /\ baseTags' = {}
    /\ UNCHANGED <<cpe, doc, now, held, asked>>

\* Meanwhile an administrator changes a tag, and between sessions the device changes.
UpdateTags(tag, on) ==
    /\ phase \in {"session", "pull"} /\ cpe \in Tagged
    /\ tags' = IF on THEN tags \cup {tag} ELSE tags \ {tag}
    /\ asked' = [x \in DOMAIN asked \cup {tag} |-> IF x = tag THEN on ELSE asked[x]]
    /\ UNCHANGED <<cpe, doc, now, phase, data, dataTags, base, baseTags, held>>

Change(model) ==
    /\ phase = "idle" /\ model # cpe
    /\ cpe' = model
    /\ UNCHANGED <<doc, tags, now, phase, data, dataTags, base, baseTags, held, asked>>

Next ==
    \/ \E t \in 1 .. 4 * MaxSessions : Begin(t)
    \/ Explore(<<>>) \/ \E p \in Here : Explore(p)
    \/ \E p \in Here, t \in {now, now + 1} : Value(p, t)
    \/ \E p \in Here, which \in SUBSET {"notification", "accessList"}, t \in {now, now + 1} :
          Attributes(p, which, t)
    \/ \E tag \in Tags, on \in BOOLEAN : Tag(tag, on) \/ UpdateTags(tag, on)
    \/ Save \/ Pull
    \/ \E model \in Models : Change(model)

Spec == Init /\ [][Next]_vars

-----------------------------------------------------------------------------
\* flattenDevice: what is shown of a document.
FlattenSpecial(d) ==
    [p \in {p \in DOMAIN Special : Special[p] \in DOMAIN d} |->
       [value |-> d[Special[p]], writable |-> 0, object |-> 0]]

FlattenParam(d, p) ==
    LET set(name) == Field(p, name) \in DOMAIN d
        has == {n \in {"value", "writable", "notification", "accessList"} : set("_" \o n)}
    IN  [n \in has |-> d[Field(p, "_" \o n)]]
        @@ IF set("_value") THEN [object |-> 0]
           ELSE IF set("_object") THEN [object |-> d[Field(p, "_object")]] ELSE <<>>

Flatten(d) == FlattenSpecial(d) @@ [p \in Params(d) |-> FlattenParam(d, p)]

-----------------------------------------------------------------------------
\* Properties

Saved == phase = "idle" /\ held # Nothing
Explored(d) == {p \in DOMAIN d.ts : Wild(p) /\ (Parent(p) = <<>> \/ Known(d, Parent(p)))}

\* A session that is saved is saved whole: the next one finds the same parameters with the same
\* attributes, and takes none of them for newer than they are.
RoundTrip ==
    /\ phase # "failed"
    /\ Saved =>
         LET known == held.data
             found == Load(doc, held.now)
             parameters == DOMAIN known.at \ Roots
         IN  /\ DOMAIN found.at \ Roots = parameters
             /\ \A p \in parameters :
                  /\ DOMAIN found.at[p] = Real(known.at[p])
                  /\ \A n \in DOMAIN found.at[p] :
                       /\ found.at[p][n][2] = known.at[p][n][2]
                       /\ n \in {"value", "writable"} => found.at[p][n][1] <= known.at[p][n][1]
             /\ \A p \in Explored(found) : p \in DOMAIN known.ts /\ found.ts[p] <= known.ts[p]

\* Administrators are shown what the session knew.
ShownAsKnown ==
    Saved => LET shown == Flatten(doc) IN
                 /\ DOMAIN shown = DOMAIN held.data.at \ Roots
                 /\ \A p \in DOMAIN shown :
                      shown[p] = [n \in Real(held.data.at[p]) |-> held.data.at[p][n][2]]

\* A tag that an administrator changes while a session has the device stays as it was asked,
\* unless the session has changed it too.
TagsMerged ==
    phase = "idle" => \A tag \in DOMAIN asked \ held.tagged : (tag \in tags) = asked[tag]

\* Times may be later than the session to tell its revisions; no later time is stored.  Does not
\* hold: the time that is stored was read before it is set back (saveDevice).
TimesClamped ==
    Saved => \A key \in DOMAIN doc : key[Len(key)] = "_timestamp" => doc[key] <= held.now
=============================================================================
