------------------------------- MODULE Admin -------------------------------
(***************************************************************************)
(* The administration of the ACS: presets, provisions, virtual parameters, *)
(* files, configuration, users and permissions are changed through two     *)
(* services, the north-bound interface (lib/nbi.ts, one chain of routes)   *)
(* and the user interface (lib/ui/api.ts over lib/ui/db.ts and             *)
(* putResource, deleteResource of lib/api-functions.ts), which checks what *)
(* the user may do.  A change is written to the database and then          *)
(* announced: the hash under which the CWMP servers, or the user           *)
(* interface, share their snapshot is removed from the cache.              *)
(*                                                                         *)
(* What may be absent (a document, a snapshot, a secret) is a set of at    *)
(* most one element.                                                       *)
(***************************************************************************)
EXTENDS Naturals, Sequences, FiniteSets

CONSTANTS
    UiClients, NbiClients,
    LoggedIn,       \* the clients of the user interface that have logged in
    Access,         \* of each of those and each resource: 0 none, 1 count, 2 read, 3 change
    Hidden,         \* of each of those: the documents that its filters do not admit
    Ids,
    Bodies,         \* what the user interface (ui) and the other one (nbi) are sent for each
                    \* resource, "bad" standing for what does not compile
    MaxRequests     \* bound on the requests of one behaviour

\* The events of a preset: whether each must have happened, or must not have.  A comma ends
\* a word of a name; a word has a text, signs before it and perhaps spaces around it.
Word == [space : BOOLEAN, dashes : Nat, text : STRING]
IsEvents(events) == events \in [DOMAIN events -> BOOLEAN] /\ DOMAIN events \subseteq Seq(Word)

\* What the constants must satisfy (Services assumes it).  The north-bound interface is sent
\* any document: of its presets no more is said than that events have names, as the fields of
\* any JSON object do.
AdminAssumption ==
    /\ LoggedIn \subseteq UiClients
    /\ UiClients \cap NbiClients = {}
    /\ MaxRequests \in Nat
    /\ "presets" \in DOMAIN Bodies =>
          /\ \A b \in Bodies["presets"].ui : b.events \subseteq Word
          /\ \A d \in Bodies["presets"].nbi : IsEvents(d.events)

Resources == DOMAIN Bodies

\* The collections that each snapshot is made of.
Hashes == {"cwmp", "ui"}
Collections ==
    [cwmp |-> {"presets", "provisions", "virtualParameters", "files", "config"} \cap Resources,
     ui |-> {"users", "permissions", "config"} \cap Resources]

VARIABLES
    store,      \* the documents
    known,      \* the snapshots that the hashes in the cache stand for
    request,    \* the request of each client
    seen,       \* what each client has read, as it is shown it
    asked

vars == <<store, known, request, seen, asked>>

Clients == UiClients \cup NbiClients
NoRequest == [op |-> "none", resource |-> "none", id |-> "none", body |-> {}, pc |-> "idle",
              todo |-> {}, status |-> 0]
Content(h) == [r \in Collections[h] |-> store[r]]

\* There are devices, and the users of the first run.
Initially(r) ==
    CASE r = "devices" -> {[tags |-> {}]}
      [] r = "users" -> {[secret |-> {"first"}, roles |-> {"admin"}]}
      [] OTHER -> {}

Init ==
    /\ store = [r \in Resources |-> [i \in Ids |-> Initially(r)]]
    /\ known = [h \in Hashes |-> {}]
    /\ request = [c \in Clients |-> NoRequest]
    /\ seen = [c \in Clients |-> {}]
    /\ asked = 0

-----------------------------------------------------------------------------
\* Documents

\* A preset as the user interface shows it, if it can.  An old precondition becomes an
\* expression, which may be "bad"; the events become one text, in which an event that must
\* not have happened has a sign before its first word; only a single provision is shown,
\* with the text of its arguments, and no arguments look as empty ones do.
Expression(p) == IF p = "old" THEN "converted" ELSE p

ShownWords(name, happens) ==
    {IF i = 1 /\ ~happens THEN [name[i] EXCEPT !.dashes = @ + 1] ELSE name[i] : i \in DOMAIN name}

\* Mutant: the events that must not have happened are not shown
ShownPositive(events) == UNION {ShownWords(k, TRUE) : k \in {k \in DOMAIN events : events[k]}}

ShownEvents(events) == UNION {ShownWords(k, events[k]) : k \in DOMAIN events}

Single(configurations) ==
    {c \in {configurations[i] : i \in DOMAIN configurations} :
        Len(configurations) = 1 /\ c.type = "provision" /\ c.name # ""}

\* Arguments, unless there are none.
Given(lists) == {args \in lists : DOMAIN args # {}}

FlattenPreset(d) ==
    {[precondition |-> Expression(d.precondition), weight |-> d.weight,
      events |-> ShownEvents(d.events),
      provision |-> {c.name : c \in Single(configurations)},
      provisionArgs |-> UNION {Given(c.args) : c \in Single(configurations)}]
        : configurations \in IF d.precondition = "bad" THEN {} ELSE d.configurations}

\* A word of the text names an event, if anything is left of it: spaces are trimmed, and a
\* first sign is taken off.  Of two words that name the same event the later one counts.
Nameless == <<[space |-> FALSE, dashes |-> 0, text |-> ""]>>
EventOf(w) ==
    [name |-> <<[space |-> FALSE, dashes |-> IF w.dashes = 0 THEN 0 ELSE w.dashes - 1,
                 text |-> w.text]>>,
     happens |-> w.dashes = 0]
ReadEvents(words) ==
    LET read == {e \in {EventOf(w) : w \in words} : e.name # Nameless}
    IN  {events \in [{e.name : e \in read} -> BOOLEAN] :
            \A k \in DOMAIN events : [name |-> k, happens |-> events[k]] \in read}

\* The text of a "verbose" argument is read as another expression, from then on the same.
Parsed(args) == [i \in DOMAIN args |-> IF args[i] = "verbose" THEN "terse" ELSE args[i]]
Parses(args) == \A i \in DOMAIN args : args[i] # "bad"

\* What the user interface is sent for a preset becomes a document (one of these), unless an
\* expression does not parse or there is no provision.  A weight becomes a number.
Provisions(p) ==
    IF p.precondition \in {"old", "bad"} \/ \E args \in p.provisionArgs : ~Parses(args)
    THEN {} ELSE p.provision \ {""}

Document(p, name, events) ==
    [precondition |-> p.precondition, weight |-> [as |-> "number", value |-> p.weight.value],
     events |-> events,
     configurations |-> {<<[type |-> "provision", name |-> name,
                            args |-> {Parsed(args) : args \in Given(p.provisionArgs)}]>>}]

PreProcessPreset(p) ==
    {Document(p, name, events) : name \in Provisions(p), events \in ReadEvents(p.events)}

\* A script that does not compile is refused.
Compiled(script) == IF script = "bad" THEN {} ELSE {script}

Flatten(resource, d) == IF resource = "presets" THEN FlattenPreset(d) ELSE {d}

\* Tags are added and removed; the database refuses to do both in one update, or nothing.
Tagged(old, body) ==
    IF (body.add = {}) = (body.pull = {}) THEN {}
    ELSE {[tags |-> (d.tags \cup body.add) \ body.pull] : d \in old}

\* Only what is sent is set, and a password never is; a user without a document gets one.
SetUser(old, body) ==
    {[secret |-> UNION {u.secret : u \in old},
      roles |-> IF body.roles = {} THEN UNION {u.roles : u \in old} ELSE body.roles]}

Converted(c, resource, old, body) ==
    CASE resource = "presets" /\ c \in UiClients -> PreProcessPreset(body)
      [] resource \in {"provisions", "virtualParameters"} -> Compiled(body)
      [] resource = "users" -> SetUser(old, body)
      [] OTHER -> {body}

\* Mutant: a deleted virtual parameter is not announced
AnnouncedButOne(c, op, resource) ==
    IF resource = "virtualParameters" /\ op = "delete" THEN {}
    ELSE {h \in Hashes : resource \in Collections[h]}

\* What has to be removed from the cache.  Neither interface announces an upload, and the
\* north-bound interface does not announce that a file was deleted.
Announces(c, op, resource) ==
    IF op = "upload" \/ (resource = "files" /\ c \in NbiClients) THEN {}
    ELSE {h \in Hashes : resource \in Collections[h]}

-----------------------------------------------------------------------------
\* The snapshots are refreshed when they are asked for and no hash is known.  The one of the
\* user interface cannot be made while a user has no roles, nor the other one while a preset
\* has no configurations or a precondition that is no expression of either kind.
Loadable(h) ==
    IF h = "ui" THEN "users" \in Resources => \A i \in Ids : \A u \in store["users"][i] : u.roles # {}
    ELSE "presets" \in Resources => \A i \in Ids : \A d \in store["presets"][i] :
            d.configurations # {} /\ d.precondition # "bad"

Refresh(h) ==
    /\ known[h] = {}
    /\ Loadable(h)
    /\ known' = [known EXCEPT ![h] = {Content(h)}]

Inform ==
    /\ Refresh("cwmp")
    /\ UNCHANGED <<store, request, seen, asked>>

-----------------------------------------------------------------------------
\* Requests

Move(c, pc) == request' = [request EXCEPT ![c].pc = pc]
Answer(c, status) == request' = [request EXCEPT ![c].pc = "answered", ![c].status = status]

Ops(resource) ==
    CASE resource = "devices" -> {"tags"}
      [] resource = "files" -> {"upload", "delete"}
      [] resource = "users" -> {"put", "delete", "password"}
      [] OTHER -> {"put", "delete"}

Asked(c, op, resource, id, body) ==
    /\ request[c].pc \in {"idle", "answered"} /\ asked < MaxRequests
    /\ asked' = asked + 1
    /\ request' = [request EXCEPT ![c] = [NoRequest EXCEPT
                      !.op = op, !.resource = resource, !.id = id, !.body = body, !.pc = "arrived"]]
    /\ UNCHANGED <<store, seen>>

\* What was shown may be sent again.
Sent(op, bodies) == IF op \in {"put", "upload", "tags"} THEN {{b} : b \in bodies} ELSE {{}}
Again(c, resource, op) == IF op = "put" THEN {x[3] : x \in {x \in seen[c] : x[1] = resource}} ELSE {}

\* The user interface takes its snapshot with every request.
AskUi(c) ==
    /\ IF known["ui"] = {} THEN Refresh("ui") ELSE UNCHANGED known
    /\ \E resource \in Resources, id \in Ids :
          \E op \in Ops(resource) :
             \E body \in Sent(op, Bodies[resource].ui \cup Again(c, resource, op)) :
                Asked(c, op, resource, id, body)

\* The north-bound interface has no routes that change users, permissions and configuration.
Routes == {"presets", "provisions", "virtualParameters", "files", "devices"} \cap Resources

AskNbi(c) ==
    /\ \E resource \in Routes, id \in Ids :
          \E op \in Ops(resource) :
             \E body \in {{}} \cup Sent(op, Bodies[resource].nbi \cup Again(c, resource, op)) : Asked(c, op, resource, id, body)
    /\ UNCHANGED known

HasAccess(c, level, resource) == c \in LoggedIn /\ Access[c][resource] >= level
Found(c, resource, id) == IF <<resource, id>> \in Hidden[c] THEN {} ELSE store[resource][id]

\* Routes that change what is there look for it with the filter of the user first; those that
\* put a document look at that alone.  Who has not logged in gives the present password to
\* change it, and the snapshot tells whether it is right.
CheckUi(c) ==
    LET q == request[c]
    IN  /\ c \in UiClients /\ q.pc = "arrived"
        /\ \/ /\ q.op = "password" /\ c \notin LoggedIn
              /\ \A k \in known["ui"] :
                    IF \E u \in k["users"][q.id] : u.secret # {} THEN Move(c, "write") ELSE Answer(c, 401)
              /\ known["ui"] # {}
           \/ /\ q.op # "password" \/ c \in LoggedIn
              /\ IF ~HasAccess(c, 3, q.resource) THEN Answer(c, 403)
                 ELSE IF q.op \in {"delete", "password", "tags"} /\ Found(c, q.resource, q.id) = {} THEN Answer(c, 404)
                 ELSE Move(c, IF q.op = "upload" THEN "remove" ELSE "write")
        /\ UNCHANGED <<store, known, seen, asked>>

\* A body that does not parse, here an empty one, is refused.
CheckNbi(c) ==
    LET q == request[c]
    IN  /\ c \in NbiClients /\ q.pc = "arrived"
        /\ IF q.op # "delete" /\ q.body = {} THEN Answer(c, 400)
           ELSE IF q.resource \in {"files", "devices"} /\ q.op # "upload" /\ store[q.resource][q.id] = {} THEN Answer(c, 404)
           ELSE Move(c, IF q.op = "upload" THEN "remove" ELSE "write")
        /\ UNCHANGED <<store, known, seen, asked>>

\* What is there after the change, one of these if any.
Written(c) ==
    LET q == request[c]
        old == store[q.resource][q.id]
    IN  CASE q.op = "delete" -> {{}}
          [] q.op = "put" -> {{d} : d \in UNION {Converted(c, q.resource, old, b) : b \in q.body}}
          [] q.op = "tags" -> {{d} : d \in UNION {Tagged(old, b) : b \in q.body}}
          [] q.op = "password" -> {{[secret |-> {c}, roles |-> UNION {u.roles : u \in old}]}}

Write(c) ==
    LET q == request[c]
    IN  /\ q.pc = "write"
        /\ \/ Written(c) = {} /\ Answer(c, 400) /\ UNCHANGED store
           \/ \E new \in Written(c) :
                /\ store' = [store EXCEPT ![q.resource][q.id] = new]
                /\ request' = [request EXCEPT ![c].pc = "announce",
                                              ![c].todo = Announces(c, q.op, q.resource)]
        /\ UNCHANGED <<known, seen, asked>>

Announce(c) ==
    LET q == request[c]
    IN  /\ q.pc = "announce"
        /\ IF q.todo = {} THEN Answer(c, 200) /\ UNCHANGED known
           ELSE \E h \in q.todo :
                   /\ known' = [known EXCEPT ![h] = {}]
                   /\ request' = [request EXCEPT ![c].todo = @ \ {h}]
        /\ UNCHANGED <<store, seen, asked>>

\* An upload removes the file first, and stores the new one when all of it has come; the
\* user interface is given it as a stream, which may end too soon.
Remove(c) ==
    LET q == request[c]
    IN  /\ q.pc = "remove"
        /\ store' = [store EXCEPT !["files"][q.id] = {}]
        /\ Move(c, "upload")
        /\ UNCHANGED <<known, seen, asked>>

Upload(c) ==
    LET q == request[c]
    IN  /\ q.pc = "upload"
        /\ IF store["files"][q.id] = {}
           THEN store' = [store EXCEPT !["files"][q.id] = q.body] /\ Answer(c, 201)
           ELSE UNCHANGED store /\ Answer(c, 500)
        /\ UNCHANGED <<known, seen, asked>>

CutOff(c) ==
    /\ c \in UiClients /\ request[c].pc = "upload"
    /\ Answer(c, 500)
    /\ UNCHANGED <<store, known, seen, asked>>

\* Reading, one document or many: those that the filter admits, as they are shown.  One that
\* cannot be shown ends a list, but whoever asks for the others alone is shown them.
Read(c, resource) ==
    /\ request[c].pc \in {"idle", "answered"} /\ asked < MaxRequests
    /\ HasAccess(c, 2, resource)
    /\ seen' = [seen EXCEPT ![c] =
          UNION {{<<resource, i, x>> : x \in UNION {Flatten(resource, d) : d \in Found(c, resource, i)}} : i \in Ids}]
    /\ seen' # seen
    /\ UNCHANGED <<store, known, request, asked>>

\* The north-bound interface shows the documents as they are.
Query(c, resource) ==
    /\ request[c].pc \in {"idle", "answered"} /\ asked < MaxRequests
    /\ seen' = [seen EXCEPT ![c] = UNION {{<<resource, i, d>> : d \in store[resource][i]} : i \in Ids}]
    /\ seen' # seen
    /\ UNCHANGED <<store, known, request, asked>>

Next ==
    \/ Inform
    \/ \E c \in UiClients : AskUi(c) \/ CheckUi(c) \/ CutOff(c) \/ \E resource \in Resources : Read(c, resource)
    \/ \E c \in NbiClients : AskNbi(c) \/ CheckNbi(c) \/ \E resource \in Resources : Query(c, resource)
    \/ \E c \in Clients : Write(c) \/ Announce(c) \/ Remove(c) \/ Upload(c)

Spec == Init /\ [][Next]_vars

-----------------------------------------------------------------------------
\* Properties

\* A snapshot in use that is not what is stored is about to be withdrawn, unless it is about
\* files: whoever has his change answered finds it in use.
Announced ==
    \A h \in Hashes : \A k \in known[h] : \A r \in Collections[h] \ {"files"} :
        k[r] = store[r] \/ \E c \in Clients : request[c].resource = r /\ h \in request[c].todo

\* Events of which the text says all that is stored: names of one word, without spaces
\* around it, and with signs only if the event must not have happened.
Legible(events) ==
    /\ events \in [DOMAIN events -> BOOLEAN]
    /\ \A k \in DOMAIN events :
          /\ Len(k) = 1 /\ k = <<k[1]>> /\ k # Nameless
          /\ k[1] \in Word /\ ~k[1].space
          /\ k[1].dashes > 0 => ~events[k]

\* The form in which the user interface stores presets, whatever it is sent.
UiForm(d) ==
    /\ d = [precondition |-> d.precondition, weight |-> d.weight, events |-> d.events,
            configurations |-> d.configurations]
    /\ d.precondition \notin {"old", "bad"}
    /\ d.weight = [as |-> "number", value |-> d.weight.value]
    /\ Legible(d.events)
    /\ \E configurations \in d.configurations :
          LET c == configurations[1]
          IN  /\ d.configurations = {configurations}
              /\ configurations = <<[type |-> "provision", name |-> c.name, args |-> c.args]>>
              /\ c.name # ""
              /\ \A args \in c.args : DOMAIN args # {} /\ Parses(args) /\ Parsed(args) = args

\* What the user interface stores as preset d was shown to it has the condition and weight of
\* d, and its events if the text says them; a preset that it stored itself is as it was.
IsPutBack(d, new) ==
    /\ new.precondition = Expression(d.precondition) /\ new.weight.value = d.weight.value
    /\ Legible(d.events) => new.events = d.events
    /\ UiForm(d) => new = d

\* The user interface stores presets that it can show again, and those that it showed as
\* they were.
PutBack ==
    \A c \in UiClients :
        LET q == request[c]
        IN  /\ Write(c) /\ q.resource = "presets" /\ q.op = "put" /\ request'[c].pc = "announce"
            => \A new \in store'["presets"][q.id] :
                  /\ UiForm(new)
                  /\ \A d \in UNION {store["presets"][i] : i \in Ids} :
                        q.body \subseteq FlattenPreset(d) => IsPutBack(d, new)

RoundTrip == [][PutBack]_vars

\* The user interface can load its users, whatever became of them.  Does not
\* hold: setting the password of a user who is gone writes a user without roles.
UsersLoad == Loadable("ui")
=============================================================================
