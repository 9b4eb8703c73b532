--------------------------- MODULE ServicesProofs ---------------------------
(***************************************************************************)
(* What is proved of the parts around the sessions: of connection requests *)
(* (ConnectionRequests), of the processes of a service (Workers), of the   *)
(* tasks that its users send (TaskQueue), of the configuration that its    *)
(* administrators change (Admin) and of what the browser shows (Store).    *)
(* They share nothing: all but the first are instances in Services, their  *)
(* definitions are those with Wor!, Tas!, Adm! and Sto!.  Each is proved   *)
(* on its own, and then of the whole.                                      *)
(*                                                                         *)
(* The client of the XMPP server that connection requests share is open    *)
(* while it is in use, and what a request is answered is so, for any       *)
(* requests, credentials and transports.  The point of the first is the    *)
(* race of two requests that both found no client: each opens one, the     *)
(* later takes the place of the earlier, and whichever closes, none is in  *)
(* use.  What has to be known for it is that a client that is being opened *)
(* is not in use yet.  That of the second is that "incorrect credentials"  *)
(* is said of all of them: what is left of them is the end of what was     *)
(* configured, and every one with a user name before it was sent and       *)
(* refused, but for the ones in use.                                       *)
(*                                                                         *)
(* Of the processes of a service no worker is lost, and none forked twice, *)
(* for any number of workers and any RespawnGap.  Two things make it so:   *)
(* the fork of a dead worker falls later than every timer that is set, so  *)
(* two of them never share one, and whenever a worker is to be forked      *)
(* there is an identifier left for it.  The same timers keep forks         *)
(* RespawnGap apart.                                                       *)
(*                                                                         *)
(* Tasks of the user interface are posted by one request at a time, and    *)
(* their queue is bounded, for any tasks, devices and edits.  Its          *)
(* invariant says as well that the tasks of a staged edit have not been    *)
(* touched: queueing them cannot call a task back that is posted.          *)
(*                                                                         *)
(* A change of the configuration withdraws the snapshots that it makes     *)
(* stale, for any clients and any contents.  Its invariant says as well    *)
(* that only a change that is written has hashes to remove, and that what  *)
(* is uploaded is a file, which no withdrawal is due for.                  *)
(*                                                                         *)
(* A preset that the user interface stores is one that it can show as it   *)
(* is, and what it showed of any preset is stored as it was so far as the  *)
(* text says it: of the north-bound interface's presets no more is assumed *)
(* than that their events have names.  The invariant is that the names     *)
(* consist of words, wherever a preset is stored, shown or sent.           *)
(*                                                                         *)
(* A query that the browser shows as up to date has the rows, or the       *)
(* number of rows, of the collection, for any filters, limits and pages.   *)
(* Its invariant follows a batch: until its bookmark has come an ask       *)
(* starts where the rows that are held end, and with it reaches as far as  *)
(* the limit; what has been asked for and is not on its way is held as the *)
(* collection has it; and an answer shown in part is not asked for again   *)
(* before its bookmark has come.                                           *)
(***************************************************************************)
EXTENDS Services, SequenceTheorems, FiniteSetTheorems, WellFoundedInduction, TLAPS

Locations == {"start", "await", "done", "get", "again", "client", "opening", "first",
              "next", "send", "waiting"}
OpeningStages ==
    {"connect", "stream", "starttls", "secure", "plain", "scram", "challenge", "authorized",
     "bind"}
Methods == {"none", "Basic", "Digest", "other"}
Stages == OpeningStages \cup {"none", "up", "cut", "gone"}

TypeInv ==
    /\ pc \in [Requests -> Locations]
    /\ method \in [Requests -> Methods]
    /\ stage \in [Requests -> Stages]
    /\ xmppClient \in Requests \cup {Closed}

\* A client that is being opened is at one of the stages of that, so it is not in use.
OpeningIsNotUp == \A r \in Requests : pc[r] = "opening" => stage[r] \in OpeningStages

\* ClientOpen alone is not inductive: Open changes the stage of the client that it opens.
ClientInv == TypeInv /\ OpeningIsNotUp /\ ClientOpen

-----------------------------------------------------------------------------
\* The stages that may follow one are stages.
LEMMA FollowsType ==
    ASSUME NEW s \in OpeningStages, NEW next \in Follows[s]
    PROVE  next \in OpeningStages \cup {"up"}
BY DEF Follows, OpeningStages

\* A step that leaves the clients alone and begins to open none keeps the invariant.
LEMMA ClientsAlone ==
    ASSUME ClientInv, UNCHANGED <<stage, xmppClient>>, method' \in [Requests -> Methods],
           NEW r \in Requests,
           NEW l \in Locations \ {"opening"}, pc' = [pc EXCEPT ![r] = l]
    PROVE  ClientInv'
BY DEF ClientInv, TypeInv, OpeningIsNotUp, ClientOpen

\* Nor does one that does not touch the requests' places.
LEMMA NothingMoves ==
    ASSUME ClientInv, UNCHANGED <<stage, xmppClient, pc, method>>
    PROVE  ClientInv'
BY DEF ClientInv, TypeInv, OpeningIsNotUp, ClientOpen

\* Whoever fails to open a client did not have the one in use.
LEMMA OpenFailsKeeps ==
    ASSUME ClientInv, NEW r \in Requests, OpenFails(r)
    PROVE  ClientInv'
<1>1. stage[r] \notin {"up", "cut"}
      BY DEF ClientInv, OpeningIsNotUp, OpenFails, OpeningStages
<1>2. stage' = [stage EXCEPT ![r] = "gone"] /\ xmppClient' = xmppClient
      BY DEF OpenFails
<1>3. "gone" \in Stages /\ "done" \in Locations
      BY DEF Stages, Locations
<1>4. TypeInv' /\ OpeningIsNotUp'
      BY <1>3 DEF ClientInv, TypeInv, OpeningIsNotUp, OpenFails
<1>5. ClientOpen'
      BY <1>1, <1>2 DEF ClientInv, TypeInv, ClientOpen
<1>6. QED BY <1>4, <1>5 DEF ClientInv

\* A client that is being opened comes to its next stage, or is up and in use.
LEMMA OpenKeeps ==
    ASSUME ClientInv, NEW r \in Requests, Open(r)
    PROVE  ClientInv'
<1>1. PICK next \in Follows[stage[r]] :
          /\ stage' = [stage EXCEPT ![r] = next] /\ method' = method
          /\ IF next = "up" THEN xmppClient' = r /\ Goto(r, "first")
             ELSE UNCHANGED <<xmppClient, pc, status>>
      BY DEF Open
<1>2. stage[r] \in OpeningStages /\ stage[r] \notin {"up", "cut"}
      BY DEF Open, ClientInv, OpeningIsNotUp, OpeningStages
<1>3. next \in OpeningStages \cup {"up"} /\ next \in Stages
      BY <1>1, <1>2, FollowsType DEF Stages
<1>4. CASE next = "up"
      <2>1. "first" \in Locations /\ pc' = [pc EXCEPT ![r] = "first"]
            BY <1>1, <1>4 DEF Goto, Locations
      <2>2. QED
            BY <1>1, <1>3, <1>4, <2>1
               DEF ClientInv, TypeInv, OpeningIsNotUp, ClientOpen
<1>5. CASE next # "up"
      <2>1. /\ stage' = [stage EXCEPT ![r] = next] /\ next \in OpeningStages
            /\ xmppClient' = xmppClient /\ pc' = pc /\ method' = method
            BY <1>1, <1>3, <1>5
      <2>2. TypeInv' /\ OpeningIsNotUp'
            BY <1>2, <1>3, <2>1 DEF ClientInv, TypeInv, OpeningIsNotUp
      <2>3. ClientOpen'
            BY <1>2, <2>1 DEF ClientInv, TypeInv, ClientOpen
      <2>4. QED BY <2>2, <2>3 DEF ClientInv
<1>6. QED BY <1>4, <1>5

\* A request finds a client or begins to open one, which touches none that is in use.
LEMMA ClientKeeps ==
    ASSUME ClientInv, NEW r \in Requests, Client(r)
    PROVE  ClientInv'
<1>1. CASE xmppClient = Closed
      <2>1. /\ stage' = [stage EXCEPT ![r] = "connect"]
            /\ pc' = [pc EXCEPT ![r] = "opening"] /\ xmppClient' = Closed
            /\ method' = method
            BY <1>1 DEF Client, Goto
      <2>2. "connect" \in OpeningStages /\ "connect" \in Stages /\ "opening" \in Locations
            BY DEF OpeningStages, Stages, Locations
      <2>3. QED
            BY <2>1, <2>2 DEF ClientInv, TypeInv, OpeningIsNotUp, ClientOpen
<1>2. CASE xmppClient # Closed
      <2>1. "first" \in Locations \ {"opening"}
            BY DEF Locations
      <2>2. QED
            BY <1>2, <2>1, ClientsAlone DEF Client, Goto, ClientInv, TypeInv
<1>3. QED BY <1>1, <1>2

\* When a client closes, none is in use, whichever it was.
LEMMA ClientGoneKeeps ==
    ASSUME ClientInv, NEW c \in Requests, NEW error \in BOOLEAN, ClientGone(c, error)
    PROVE  ClientInv'
<1>1. /\ stage[c] \in {"up", "cut"} /\ stage' = [stage EXCEPT ![c] = "gone"]
      /\ xmppClient' = Closed /\ method' = method
      BY DEF ClientGone, LetGo
<1>2. \A r \in Requests : pc'[r] \in {pc[r], "await"}
      BY DEF ClientGone
<1>3. pc' \in [Requests -> Locations]
      BY DEF ClientGone, ClientInv, TypeInv, Locations
<1>4. TypeInv'
      BY <1>1, <1>3 DEF ClientInv, TypeInv, Stages
<1>5. OpeningIsNotUp'
      BY <1>1, <1>2 DEF ClientInv, TypeInv, OpeningIsNotUp, OpeningStages
<1>6. ClientOpen'
      BY <1>1 DEF ClientOpen
<1>7. QED BY <1>4, <1>5, <1>6 DEF ClientInv

-----------------------------------------------------------------------------
\* A client that is cut off was not being opened, and stays in use if it was.
LEMMA ClientCutKeeps ==
    ASSUME ClientInv, NEW c \in Requests, ClientCut(c)
    PROVE  ClientInv'
<1>1. /\ stage[c] = "up" /\ stage' = [stage EXCEPT ![c] = "cut"]
      /\ UNCHANGED <<pc, method, xmppClient>>
      BY DEF ClientCut
<1>2. TypeInv'
      BY <1>1 DEF ClientInv, TypeInv, Stages
<1>3. OpeningIsNotUp'
      BY <1>1 DEF ClientInv, TypeInv, OpeningIsNotUp, OpeningStages
<1>4. ClientOpen'
      BY <1>1 DEF ClientInv, TypeInv, ClientOpen
<1>5. QED BY <1>2, <1>3, <1>4 DEF ClientInv

\* The other steps of a request have to do with its own place, not with the clients.
LEMMA StepKeeps ==
    ASSUME ClientInv, NEW r \in Requests, Step(r) \/ Open(r) \/ OpenFails(r)
    PROVE  ClientInv'
<1> DEFINE Elsewhere == Locations \ {"opening"}
<1>1. {"done", "client", "get", "await", "again", "first", "send", "waiting", "next"} \subseteq Elsewhere
      BY DEF Locations
<1> HIDE DEF Elsewhere
<1>2. method \in [Requests -> Methods]
      BY DEF ClientInv, TypeInv
<1>3. CASE Start(r)
      <2>1. PICK l \in Elsewhere : pc' = [pc EXCEPT ![r] = l]
            BY <1>1, <1>3 DEF Start, Goto
      <2>2. QED BY <1>3, <2>1, <1>2, ClientsAlone DEF Start, Elsewhere
<1>4. CASE Finish(r)
      BY <1>1, <1>4, <1>2, ClientsAlone DEF Finish, Elsewhere
<1>5. CASE SendUdp(r) \/ UdpFails(r)
      BY <1>5, NothingMoves DEF SendUdp, UdpFails
<1>6. CASE HttpGet(r)
      <2>1. pc' \in {[pc EXCEPT ![r] = "await"], [pc EXCEPT ![r] = "get"]}
            <3>1. PICK response \in Responses(r) :
                     CASE response = "ok" -> /\ Return(r, "") /\ Accepted(r)
                                             /\ UNCHANGED <<left, using, method>>
                       [] response = "unavailable" ->
                             Return(r, Offline) /\ UNCHANGED <<left, using, method, reached>>
                       [] response \in {"unexpected", "unparsable"} ->
                             Return(r, Error) /\ UNCHANGED <<left, using, method, reached>>
                       [] response \in {"Basic", "Digest", "other"} ->
                             /\ method' = [method EXCEPT ![r] = response]
                             /\ Take(r)
                             /\ IF using'[r] = {} THEN Return(r, Incorrect) ELSE Goto(r, "get")
                             /\ UNCHANGED reached
                  BY <1>6 DEF HttpGet
            <3>2. CASE response \in {"ok", "unavailable", "unexpected", "unparsable"}
                  BY <3>1, <3>2 DEF Return
            <3>3. CASE response \in {"Basic", "Digest", "other"}
                  BY <3>1, <3>3 DEF Return, Goto
            <3>4. QED BY <1>2, <3>1, <3>2, <3>3 DEF Responses, Methods
      <2>2. method' \in [Requests -> Methods]
            BY <1>6, <1>2 DEF HttpGet, Responses, Methods
      <2>3. QED BY <1>1, <1>6, <2>1, <2>2, ClientsAlone DEF HttpGet, Elsewhere
<1>7. CASE NotSent(r)
      BY <1>1, <1>7, <1>2, ClientsAlone DEF NotSent, Return, Elsewhere
<1>8. CASE HttpFails(r)
      <2>1. PICK l \in Elsewhere : pc' = [pc EXCEPT ![r] = l]
            BY <1>1, <1>8 DEF HttpFails, Goto, Return
      <2>2. QED BY <1>8, <2>1, <1>2, ClientsAlone DEF HttpFails, Elsewhere
<1>9. CASE HttpAgain(r)
      BY <1>1, <1>9, <1>2, ClientsAlone DEF HttpAgain, Return, Elsewhere
<1>10. CASE Client(r)
      BY <1>10, ClientKeeps
<1>11. CASE Open(r)
      BY <1>11, OpenKeeps
<1>12. CASE OpenFails(r)
      BY <1>12, OpenFailsKeeps
<1>13. CASE Stanza(r)
      <2>1. PICK l \in Elsewhere : pc' = [pc EXCEPT ![r] = l]
            BY <1>1, <1>13 DEF Stanza, Goto, Return
      <2>2. QED BY <1>13, <2>1, <1>2, ClientsAlone DEF Stanza, Elsewhere
<1>14. CASE SendIq(r)
      <2>1. PICK l \in Elsewhere : pc' = [pc EXCEPT ![r] = l]
            BY <1>1, <1>14 DEF SendIq, Goto, Return
      <2>2. QED BY <1>14, <2>1, <1>2, ClientsAlone DEF SendIq, Elsewhere
<1>15. CASE Reply(r)
      <2>1. PICK l \in Elsewhere : pc' = [pc EXCEPT ![r] = l]
            BY <1>1, <1>15 DEF Reply, Goto, Return
      <2>2. QED BY <1>15, <2>1, <1>2, ClientsAlone DEF Reply, Elsewhere
<1>16. CASE IqTimeout(r)
      BY <1>1, <1>16, <1>2, ClientsAlone DEF IqTimeout, Return, Elsewhere
<1>17. QED
      BY <1>3, <1>4, <1>5, <1>6, <1>7, <1>8, <1>9, <1>10, <1>11, <1>12, <1>13, <1>14, <1>15,
         <1>16 DEF Step

\* No client that has closed or reported an error is in use: whoever opens a client, whoever's
\* attempt fails, and whichever client closes, is cut off or fails (xmppConnectionRequest,
\* XmppClient).
THEOREM ClientAlwaysOpen == Spec => []ClientOpen
<1>1. Init => ClientInv
      BY DEF Init, ClientInv, TypeInv, OpeningIsNotUp, ClientOpen, Locations, Stages, Methods
<1>2. ClientInv /\ [Next]_vars => ClientInv'
      <2> SUFFICES ASSUME ClientInv, [Next]_vars PROVE ClientInv'
          OBVIOUS
      <2>1. CASE \E r \in Requests : Step(r) \/ Open(r) \/ OpenFails(r)
            BY <2>1, StepKeeps
      <2>2. CASE \E c \in Requests : ClientCut(c) \/ \E error \in BOOLEAN : ClientGone(c, error)
            BY <2>2, ClientGoneKeeps, ClientCutKeeps
      <2>3. CASE UNCHANGED vars
            BY <2>3, NothingMoves DEF vars
      <2>4. QED BY <2>1, <2>2, <2>3 DEF Next
<1>3. ClientInv => ClientOpen
      BY DEF ClientInv
<1>4. QED BY <1>1, <1>2, <1>3, PTL DEF Spec

-----------------------------------------------------------------------------
\* What requests are answered.

Creds == [user : STRING, right : BOOLEAN]
Answers == {"none", "", "Invalid connection request URL", Incorrect, Offline, Error, "thrown",
            "Basic HTTP authentication not allowed", "Unrecognized auth method"}
UdpStates == {"none", "sending", "sent", "failed"}

AnswerType ==
    /\ pc \in [Requests -> Locations] /\ method \in [Requests -> Methods]
    /\ status \in [Requests -> Answers] /\ udp \in [Requests -> UdpStates]
    /\ reached \in [Requests -> BOOLEAN]
    /\ left \in [Requests -> [main : Seq(Creds), udp : Seq(Creds)]]
    /\ using \in [Requests -> SUBSET Creds] /\ tried \in [Requests -> SUBSET Creds]

\* The credentials that request r has been through come before those that are left.
Through(r) == Len(AuthExp[r]) - Len(left[r].main)
\* What is left of the configured credentials is their end.
RestLeft(r) ==
    /\ Len(left[r].main) <= Len(AuthExp[r])
    /\ \A j \in 1 .. Len(left[r].main) : left[r].main[j] = AuthExp[r][Through(r) + j]
\* Those it has been through were refused, but for the ones in use.
Wrong(r, c) == c \in tried[r] /\ ~c.right
RefusedSoFar(r) ==
    \A i \in 1 .. Len(AuthExp[r]) :
        i <= Through(r) /\ AuthExp[r][i].user # "" =>
            AuthExp[r][i] \in using[r] \/ Wrong(r, AuthExp[r][i])
\* None are in use before any is asked for, and those a device has refused were sent.
UsedInPlace(r) ==
    /\ pc[r] \in {"start", "client", "opening", "first"} => using[r] = {}
    /\ pc[r] = "get" /\ method[r] = "none" => using[r] = {}
    /\ pc[r] = "waiting" => using[r] \subseteq tried[r]
    /\ pc[r] = "next" => \A c \in using[r] : Wrong(r, c)
\* What is said is so.
SaidTruly(r) ==
    pc[r] \in {"await", "done"} =>
        /\ status[r] = "" => reached[r] \/ udp[r] = "sent"
        /\ status[r] = Incorrect => left[r].main = <<>> /\ using[r] = {}

Sound(r) == RestLeft(r) /\ RefusedSoFar(r) /\ UsedInPlace(r) /\ SaidTruly(r)

\* Truthful speaks of the end only; what leads there is in Sound.
AnswerInv == AnswerType /\ \A r \in Requests : Sound(r)

-----------------------------------------------------------------------------
\* A set of positions has a least one.
LEMMA LeastPosition ==
    ASSUME NEW S \in SUBSET Nat, S # {}
    PROVE  \E i \in S : \A j \in S : i <= j
<1> DEFINE R == OpToRel(<, Nat)
<1>1. PICK i \in S : \A j \in S : <<j, i>> \notin R
      BY ONLY S \subseteq Nat, S # {}, NatLessThanWellFounded, WFMin, Zenon
<1>2. \A j \in S : ~(j < i)
      <2>1. SUFFICES ASSUME NEW j \in S, j < i PROVE FALSE
            OBVIOUS
      <2>2. <<j, i>> \in R
            BY <2>1, Zenon DEF OpToRel
      <2>3. QED BY <2>2, <1>1
<1>3. QED BY <1>2

\* The first of some positions, or the last of all if there are none.
LEMMA FirstOf ==
    ASSUME NEW n \in Nat \ {0}, NEW S \in SUBSET (1 .. n)
    PROVE  LET k == IF S = {} THEN n ELSE CHOOSE i \in S : \A j \in S : i <= j
           IN  k \in 1 .. n /\ \A j \in 1 .. (k - 1) : j \notin S
<1> DEFINE k == IF S = {} THEN n ELSE CHOOSE i \in S : \A j \in S : i <= j
<1>1. CASE S = {}
      BY <1>1
<1>2. CASE S # {}
      <2>1. \E i \in S : \A j \in S : i <= j
            BY <1>2, LeastPosition
      <2>2. k \in S /\ \A j \in S : k <= j
            BY <1>2, <2>1
      <2> HIDE DEF k
      <2>3. k \in 1 .. n
            BY <2>2
      <2>4. ASSUME NEW j \in 1 .. (k - 1), j \in S PROVE FALSE
            <3>1. k <= j /\ k \in Nat /\ j \in Nat /\ j <= k - 1
                  BY <2>2, <2>3, <2>4
            <3>2. QED BY ONLY <3>1
      <2>5. QED BY <2>3, <2>4 DEF k
<1>3. QED BY <1>1, <1>2

\* extractAuth passes over credentials without a user name only.
LEMMA ExtractAuthTakes ==
    ASSUME NEW exp \in Seq(Creds), exp # <<>>
    PROVE  \E k \in 1 .. Len(exp) :
             /\ ExtractAuth(exp) = [creds |-> {exp[k]}, rest |-> SubSeq(exp, k + 1, Len(exp))]
             /\ \A j \in 1 .. (k - 1) : exp[j].user = ""
<1> DEFINE named == {i \in DOMAIN exp : exp[i].user # ""}
           k == IF named = {} THEN Len(exp) ELSE CHOOSE i \in named : \A j \in named : i <= j
<1>1. DOMAIN exp = 1 .. Len(exp) /\ Len(exp) \in Nat \ {0}
      BY EmptySeq, LenProperties
<1>2. ExtractAuth(exp) = [creds |-> {exp[k]}, rest |-> SubSeq(exp, k + 1, Len(exp))]
      BY DEF ExtractAuth
<1>3. \A j \in 1 .. Len(exp) : j \notin named => exp[j].user = ""
      BY <1>1, Zenon
<1>4. named \in SUBSET (1 .. Len(exp))
      BY <1>1, Zenon
<1> HIDE DEF named
<1>5. k \in 1 .. Len(exp) /\ \A j \in 1 .. (k - 1) : j \notin named
      BY <1>1, <1>4, FirstOf, Zenon
<1> HIDE DEF k
<1>6. 1 .. (k - 1) \subseteq 1 .. Len(exp)
      BY <1>1, <1>5
<1>7. \A j \in 1 .. (k - 1) : exp[j].user = ""
      BY <1>3, <1>5, <1>6, Zenon
<1>8. QED BY <1>2, <1>5, <1>7

\* A prefix that is taken from a sequence leaves its end.
LEMMA RestOf ==
    ASSUME NEW exp \in Seq(Creds), NEW k \in 1 .. Len(exp)
    PROVE  LET rest == SubSeq(exp, k + 1, Len(exp))
           IN  /\ rest \in Seq(Creds) /\ Len(rest) = Len(exp) - k
               /\ \A j \in 1 .. Len(rest) : rest[j] = exp[k + j]
<1>1. Len(exp) \in Nat /\ k \in Nat /\ k <= Len(exp)
      BY LenProperties
<1>2. \A i \in (k + 1) .. Len(exp) : exp[i] \in Creds
      BY <1>1, ElementOfSeq
<1> DEFINE rest == SubSeq(exp, k + 1, Len(exp))
<1>3. /\ rest \in Seq(Creds)
      /\ Len(rest) = IF k + 1 <= Len(exp) THEN Len(exp) - (k + 1) + 1 ELSE 0
      /\ \A i \in 1 .. Len(exp) - (k + 1) + 1 : rest[i] = exp[k + 1 + i - 1]
      BY <1>1, <1>2, SubSeqProperties
<1> HIDE DEF rest
<1>4. Len(rest) = Len(exp) - k
      BY <1>1, <1>3
<1>5. ASSUME NEW j \in 1 .. Len(rest) PROVE rest[j] = exp[k + j]
      <2>1. j \in 1 .. Len(exp) - (k + 1) + 1 /\ k + 1 + j - 1 = k + j
            BY <1>1, <1>4
      <2>2. QED BY <1>3, <2>1
<1>6. QED BY <1>3, <1>4, <1>5 DEF rest

\* When those in use were refused, the next are taken.
LEMMA TakeKeeps ==
    ASSUME RequestsAssumption, AnswerType, NEW r \in Requests, RestLeft(r), RefusedSoFar(r),
           Take(r), tried[r] \subseteq tried'[r], \A c \in using[r] : c \in tried'[r] /\ ~c.right
    PROVE  /\ left' \in [Requests -> [main : Seq(Creds), udp : Seq(Creds)]]
           /\ using' \in [Requests -> SUBSET Creds]
           /\ RestLeft(r)' /\ RefusedSoFar(r)'
           /\ using'[r] = {} => left'[r].main = <<>>
           /\ \A q \in Requests \ {r} : left'[q] = left[q] /\ using'[q] = using[q]
<1> DEFINE old == left[r].main
           all == AuthExp[r]
           e == ExtractAuth(old)
<1>1. /\ using' = [using EXCEPT ![r] = e.creds]
      /\ left' = [left EXCEPT ![r].main = e.rest]
      BY DEF Take
<1>2. all \in Seq(Creds) /\ old \in Seq(Creds) /\ Len(all) \in Nat /\ Len(old) \in Nat
      <2>1. all \in Seq(Creds) /\ old \in Seq(Creds)
            BY DEF RequestsAssumption, AnswerType, Creds
      <2>2. QED BY <2>1, LenProperties
<1>3. CASE old = <<>>
      <2>1. e = [creds |-> {}, rest |-> old]
            BY <1>3 DEF ExtractAuth
      <2>2. /\ using' = [using EXCEPT ![r] = {}]
            /\ left' = left
            BY <1>1, <2>1 DEF AnswerType
      <2>3. RestLeft(r)' /\ Through(r)' = Through(r)
            BY <2>2 DEF RestLeft, Through
      <2>4. RefusedSoFar(r)'
            BY <2>2, <2>3 DEF RefusedSoFar, Wrong, AnswerType
      <2>5. using'[r] = {}
            BY <2>2 DEF AnswerType
      <2>6. QED BY <1>3, <2>2, <2>3, <2>4, <2>5 DEF AnswerType
<1>4. CASE old # <<>>
      <2>1. PICK k \in 1 .. Len(old) :
               /\ e = [creds |-> {old[k]}, rest |-> SubSeq(old, k + 1, Len(old))]
               /\ \A j \in 1 .. (k - 1) : old[j].user = ""
            BY <1>2, <1>4, ExtractAuthTakes, Zenon
      <2> DEFINE rest == SubSeq(old, k + 1, Len(old))
      <2>2. /\ rest \in Seq(Creds) /\ Len(rest) = Len(old) - k
            /\ \A j \in 1 .. Len(rest) : rest[j] = old[k + j]
            BY <1>2, RestOf, Zenon
      <2>3. old[k] \in Creds
            BY <1>2, ElementOfSeq, Zenon
      <2> HIDE DEF rest, e
      <2>4. e.creds = {old[k]} /\ e.rest = rest
            BY <2>1 DEF rest
      <2>5. left'[r].main = rest /\ using'[r] = {old[k]}
            BY <1>1, <2>4 DEF AnswerType
      <2>6. /\ left' \in [Requests -> [main : Seq(Creds), udp : Seq(Creds)]]
            /\ using' \in [Requests -> SUBSET Creds]
            /\ \A q \in Requests \ {r} : left'[q] = left[q] /\ using'[q] = using[q]
            BY <1>1, <2>2, <2>3, <2>4 DEF AnswerType
      <2>7. Through(r)' = Through(r) + k /\ Through(r) = Len(all) - Len(old)
            <3>1. Through(r) = Len(all) - Len(old)
                  BY DEF Through
            <3>2. Through(r)' = Len(all) - Len(rest)
                  BY <2>5 DEF Through
            <3>3. k \in Int
                  OBVIOUS
            <3>4. QED BY <1>2, <2>2, <3>1, <3>2, <3>3
      <2>8. /\ Len(old) <= Len(all)
            /\ \A j \in 1 .. Len(old) : old[j] = all[Through(r) + j]
            BY DEF RestLeft
      <2>9. k \in Nat /\ k >= 1 /\ k <= Len(old) /\ Through(r) \in Nat
            BY <1>2, <2>7, <2>8
      <2>10. RestLeft(r)'
            <3>1. ASSUME NEW j \in 1 .. Len(rest) PROVE rest[j] = all[Through(r) + k + j]
                  <4>1. k + j \in 1 .. Len(old) /\ Through(r) + (k + j) = Through(r) + k + j
                        BY <1>2, <2>2, <2>9
                  <4>2. QED BY <2>2, <2>8, <4>1
            <3>2. Len(rest) <= Len(all)
                  BY <1>2, <2>2, <2>8, <2>9
            <3>3. QED BY <2>5, <2>7, <3>1, <3>2 DEF RestLeft
      <2>11. RefusedSoFar(r)'
            <3>0. Len(all) \in Nat /\ Len(old) \in Nat
                  BY <1>2
            <3> SUFFICES ASSUME NEW i \in 1 .. Len(all), i <= Through(r) + k, all[i].user # ""
                         PROVE  all[i] \in {old[k]} \/ (all[i] \in tried'[r] /\ ~all[i].right)
                BY <2>5, <2>7 DEF RefusedSoFar, Wrong
            <3>1. CASE i <= Through(r)
                  BY <3>1 DEF RefusedSoFar, Wrong
            <3>2. CASE i > Through(r)
                  <4> DEFINE j == i - Through(r)
                  <4>1. i \in Nat
                        BY ONLY i \in 1 .. Len(all), <3>0
                  <4>2. j \in Nat /\ j >= 1 /\ j <= k /\ Through(r) + j = i
                        BY ONLY i <= Through(r) + k, <2>9, <3>2, <4>1
                  <4> HIDE DEF j
                  <4>3. j \in 1 .. Len(old)
                        BY ONLY <3>0, <2>9, <4>2
                  <4>4. old[j] = all[i]
                        BY <2>8, <4>2, <4>3
                  <4>5. ~(j \in 1 .. (k - 1))
                        BY <2>1, <4>4
                  <4>6. j = k
                        BY ONLY <2>9, <4>2, <4>5
                  <4>7. QED BY <4>4, <4>6
            <3>3. i \in Nat
                  BY ONLY i \in 1 .. Len(all), <3>0
            <3>4. QED BY ONLY <2>9, <3>1, <3>2, <3>3
      <2>12. QED BY <2>5, <2>6, <2>10, <2>11
<1>5. QED BY <1>3, <1>4

\* What a request knows does not change when nothing that it has does.
Own(q) == <<pc[q], left[q].main, using[q], method[q], status[q], udp[q], reached[q], tried[q]>>

LEMMA UntouchedIsSound ==
    ASSUME NEW q \in Requests, Sound(q), Own(q)' = Own(q)
    PROVE  Sound(q)'
<1>1. /\ pc'[q] = pc[q] /\ left'[q].main = left[q].main /\ using'[q] = using[q]
      /\ method'[q] = method[q] /\ status'[q] = status[q] /\ udp'[q] = udp[q]
      /\ reached'[q] = reached[q] /\ tried'[q] = tried[q]
      BY DEF Own
<1>2. Through(q)' = Through(q)
      BY <1>1 DEF Through
<1>3. RestLeft(q)'
      BY <1>1, <1>2 DEF Sound, RestLeft
<1>4. RefusedSoFar(q)'
      BY <1>1, <1>2 DEF Sound, RefusedSoFar, Wrong
<1>5. UsedInPlace(q)' /\ SaidTruly(q)'
      BY <1>1 DEF Sound, UsedInPlace, SaidTruly, Wrong
<1>6. QED BY <1>3, <1>4, <1>5 DEF Sound

\* Credentials that are in use may be sent; what was left of them and what is known of the
\* others stays.
SentOrNot(r) == tried' = tried \/ Sent(r)

LEMMA SendingKeeps ==
    ASSUME AnswerType, NEW r \in Requests, UNCHANGED <<left, using>>, SentOrNot(r)
    PROVE  /\ tried' \in [Requests -> SUBSET Creds]
           /\ tried[r] \subseteq tried'[r]
           /\ RestLeft(r) => RestLeft(r)'
           /\ RefusedSoFar(r) => RefusedSoFar(r)'
           /\ \A q \in Requests \ {r} : tried'[q] = tried[q]
<1>1. /\ tried' \in [Requests -> SUBSET Creds] /\ tried[r] \subseteq tried'[r]
      /\ \A q \in Requests \ {r} : tried'[q] = tried[q]
      BY DEF SentOrNot, Sent, AnswerType
<1>2. Through(r)' = Through(r)
      BY DEF Through
<1>3. RestLeft(r) => RestLeft(r)'
      BY <1>2 DEF RestLeft
<1>4. RefusedSoFar(r) => RefusedSoFar(r)'
      BY <1>1, <1>2 DEF RefusedSoFar, Wrong
<1>5. QED BY <1>1, <1>3, <1>4

\* A request that returns anything but that the credentials are wrong.
LEMMA ReturnKeeps ==
    ASSUME AnswerInv, NEW r \in Requests, NEW s \in Answers, Return(r, s),
           UNCHANGED <<left, using, method, udp>>, SentOrNot(r),
           reached' = reached \/ Accepted(r), s # Incorrect, s = "" => Accepted(r)
    PROVE  AnswerInv'
<1>1. AnswerType /\ \A q \in Requests : Sound(q)
      BY DEF AnswerInv
<1>2. pc' = [pc EXCEPT ![r] = "await"] /\ status' = [status EXCEPT ![r] = s]
      BY DEF Return
<1>3. "await" \in Locations
      BY DEF Locations
<1>4. reached' \in [Requests -> BOOLEAN] /\ \A q \in Requests \ {r} : reached'[q] = reached[q]
      BY <1>1 DEF AnswerType, Accepted
<1>5. s = "" => reached'[r]
      BY <1>1 DEF AnswerType, Accepted
<1>6. AnswerType'
      BY <1>1, <1>2, <1>3, <1>4, SendingKeeps DEF AnswerType
<1>7. ASSUME NEW q \in Requests \ {r} PROVE Sound(q)'
      BY <1>1, <1>2, <1>4, SendingKeeps, UntouchedIsSound DEF Own, AnswerType
<1>8. Sound(r)'
      <2>1. RestLeft(r)' /\ RefusedSoFar(r)'
            BY <1>1, SendingKeeps DEF Sound
      <2>2. pc'[r] = "await" /\ status'[r] = s
            BY <1>1, <1>2 DEF AnswerType
      <2>3. UsedInPlace(r)' /\ SaidTruly(r)'
            BY <1>5, <2>2 DEF UsedInPlace, SaidTruly
      <2>4. QED BY <2>1, <2>3 DEF Sound
<1>9. QED BY <1>6, <1>7, <1>8 DEF AnswerInv

\* A request that goes on.
LEMMA GotoKeeps ==
    ASSUME AnswerInv, NEW r \in Requests, NEW l \in Locations \ {"await", "done"}, Goto(r, l),
           UNCHANGED <<left, using, method, reached>>, SentOrNot(r),
           udp' \in [Requests -> UdpStates], \A q \in Requests \ {r} : udp'[q] = udp[q],
           l \in {"start", "client", "opening", "first", "get"} => using[r] = {},
           l \in {"waiting", "next"} => using[r] \subseteq tried'[r],
           l = "next" => \A c \in using[r] : ~c.right
    PROVE  AnswerInv'
<1>1. AnswerType /\ \A q \in Requests : Sound(q)
      BY DEF AnswerInv
<1>2. pc' = [pc EXCEPT ![r] = l] /\ status' = status
      BY DEF Goto
<1>3. AnswerType'
      BY <1>1, <1>2, SendingKeeps DEF AnswerType
<1>4. ASSUME NEW q \in Requests \ {r} PROVE Sound(q)'
      BY <1>1, <1>2, SendingKeeps, UntouchedIsSound DEF Own, AnswerType
<1>5. Sound(r)'
      <2>1. RestLeft(r)' /\ RefusedSoFar(r)'
            BY <1>1, SendingKeeps DEF Sound
      <2>2. pc'[r] = l
            BY <1>1, <1>2 DEF AnswerType
      <2>3. UsedInPlace(r)' /\ SaidTruly(r)'
            BY <2>2 DEF UsedInPlace, SaidTruly, Wrong
      <2>4. QED BY <2>1, <2>3 DEF Sound
<1>6. QED BY <1>3, <1>4, <1>5 DEF AnswerInv

\* A request whose credentials were refused takes others, or says that all were wrong.
LEMMA NextCredentialsKeep ==
    ASSUME RequestsAssumption, AnswerInv, NEW r \in Requests, NEW l \in {"get", "send"},
           Take(r), IF using'[r] = {} THEN Return(r, Incorrect) ELSE Goto(r, l),
           method' \in [Requests -> Methods], \A q \in Requests \ {r} : method'[q] = method[q],
           l = "get" => method'[r] # "none",
           SentOrNot(r), \A c \in using[r] : c \in tried'[r] /\ ~c.right,
           UNCHANGED <<udp, reached>>
    PROVE  AnswerInv'
<1>1. AnswerType /\ \A q \in Requests : Sound(q)
      BY DEF AnswerInv
<1>2. /\ tried' \in [Requests -> SUBSET Creds] /\ tried[r] \subseteq tried'[r]
      /\ \A q \in Requests \ {r} : tried'[q] = tried[q]
      <2>1. tried \in [Requests -> SUBSET Creds] /\ using[r] \in SUBSET Creds
            BY <1>1 DEF AnswerType
      <2>2. QED BY <2>1 DEF SentOrNot, Sent
<1>3. RestLeft(r) /\ RefusedSoFar(r)
      BY <1>1 DEF Sound
<1>4. /\ left' \in [Requests -> [main : Seq(Creds), udp : Seq(Creds)]]
      /\ using' \in [Requests -> SUBSET Creds]
      /\ RestLeft(r)' /\ RefusedSoFar(r)'
      /\ using'[r] = {} => left'[r].main = <<>>
      /\ \A q \in Requests \ {r} : left'[q] = left[q] /\ using'[q] = using[q]
      BY <1>1, <1>2, <1>3, TakeKeeps
<1>5. \E k \in {"await", l}, s \in Answers :
          /\ pc' = [pc EXCEPT ![r] = k] /\ status' = [status EXCEPT ![r] = s]
          /\ k = "await" => s = Incorrect /\ using'[r] = {}
      <2>1. CASE using'[r] = {}
            <3>1. /\ pc' = [pc EXCEPT ![r] = "await"]
                  /\ status' = [status EXCEPT ![r] = Incorrect]
                  BY <2>1 DEF Return
            <3>2. Incorrect \in Answers
                  BY DEF Answers
            <3>3. QED BY <2>1, <3>1, <3>2, Zenon
      <2>2. CASE using'[r] # {}
            <3>1. pc' = [pc EXCEPT ![r] = l] /\ status' = status
                  BY <2>2 DEF Goto
            <3>2. status' = [status EXCEPT ![r] = status[r]] /\ status[r] \in Answers /\ l # "await"
                  BY <1>1, <3>1 DEF AnswerType
            <3>3. QED BY <3>1, <3>2
      <2>3. QED BY <2>1, <2>2
<1>6. PICK k \in {"await", l}, s \in Answers :
          /\ pc' = [pc EXCEPT ![r] = k] /\ status' = [status EXCEPT ![r] = s]
          /\ k = "await" => s = Incorrect /\ using'[r] = {}
      BY <1>5
<1>7. k \in Locations \ {"start", "client", "opening", "first", "waiting", "next", "done"}
      BY DEF Locations
<1>8. AnswerType'
      BY <1>1, <1>2, <1>4, <1>6, <1>7 DEF AnswerType
<1>9. ASSUME NEW q \in Requests \ {r} PROVE Sound(q)'
      BY <1>1, <1>2, <1>4, <1>6, UntouchedIsSound DEF Own, AnswerType
<1>10. UsedInPlace(r)' /\ SaidTruly(r)'
      <2>1. pc'[r] = k /\ status'[r] = s
            BY <1>1, <1>6 DEF AnswerType
      <2>2. k = "get" => method'[r] # "none"
            OBVIOUS
      <2>3. UsedInPlace(r)'
            BY <1>7, <2>1, <2>2 DEF UsedInPlace
      <2>4. SaidTruly(r)'
            BY <1>4, <1>6, <1>7, <2>1 DEF SaidTruly, Incorrect
      <2>5. QED BY <2>3, <2>4
<1>11. QED BY <1>4, <1>8, <1>9, <1>10 DEF AnswerInv, Sound

-----------------------------------------------------------------------------
\* The steps of a request.

\* Over HTTP: credentials that were refused give way to the next.
LEMMA HttpGetAnswers ==
    ASSUME RequestsAssumption, AnswerInv, NEW r \in Requests, HttpGet(r)
    PROVE  AnswerInv'
<1>1. /\ AnswerType /\ UsedInPlace(r) /\ pc[r] = "get" /\ Sent(r) /\ udp' = udp
      BY DEF AnswerInv, Sound, HttpGet
<1>2. PICK response \in Responses(r) :
          CASE response = "ok" -> /\ Return(r, "") /\ Accepted(r)
                                  /\ UNCHANGED <<left, using, method>>
            [] response = "unavailable" ->
                  Return(r, Offline) /\ UNCHANGED <<left, using, method, reached>>
            [] response \in {"unexpected", "unparsable"} ->
                  Return(r, Error) /\ UNCHANGED <<left, using, method, reached>>
            [] response \in {"Basic", "Digest", "other"} ->
                  /\ method' = [method EXCEPT ![r] = response]
                  /\ Take(r)
                  /\ IF using'[r] = {} THEN Return(r, Incorrect) ELSE Goto(r, "get")
                  /\ UNCHANGED reached
      BY DEF HttpGet
<1>3. CASE response = "ok"
      <2>1. Return(r, "") /\ Accepted(r) /\ UNCHANGED <<left, using, method>>
            BY <1>2, <1>3
      <2>2. "" \in Answers /\ "" # Incorrect
            BY DEF Answers, Incorrect
      <2>3. QED BY <1>1, <2>1, <2>2, ReturnKeeps DEF SentOrNot
<1>4. CASE response \in {"unavailable", "unexpected", "unparsable"}
      <2>1. PICK s \in {Offline, Error} :
               Return(r, s) /\ UNCHANGED <<left, using, method, reached>>
            BY <1>2, <1>4
      <2>2. s \in Answers /\ s # "" /\ s # Incorrect
            BY DEF Answers, Offline, Error, Incorrect
      <2>3. QED BY <1>1, <2>1, <2>2, ReturnKeeps DEF SentOrNot
<1>5. CASE response \in {"Basic", "Digest", "other"}
      <2>1. /\ method' = [method EXCEPT ![r] = response] /\ Take(r)
            /\ IF using'[r] = {} THEN Return(r, Incorrect) ELSE Goto(r, "get")
            /\ UNCHANGED reached
            BY <1>2, <1>5
      <2>2. /\ method' \in [Requests -> Methods] /\ method'[r] # "none"
            /\ \A q \in Requests \ {r} : method'[q] = method[q]
            BY <1>1, <1>5, <2>1 DEF AnswerType, Methods
      <2>3. \A c \in using[r] : ~c.right
            <3>1. CASE method[r] = "none"
                  BY <1>1, <3>1 DEF UsedInPlace
            <3>2. CASE method[r] # "none"
                  BY <1>5, <3>2 DEF Responses
            <3>3. QED BY <3>1, <3>2
      <2>4. \A c \in using[r] : c \in tried'[r]
            BY <1>1 DEF Sent, AnswerType
      <2>5. SentOrNot(r)
            BY <1>1 DEF SentOrNot
      <2>6. QED BY <1>1, <2>1, <2>2, <2>3, <2>4, <2>5, NextCredentialsKeep
<1>6. response \in {"ok", "unavailable", "unexpected", "unparsable", "Basic", "Digest", "other"}
      BY <1>1 DEF Responses, AnswerType, Methods
<1>7. QED BY <1>3, <1>4, <1>5, <1>6

\* Over XMPP: those that the device refused give way to the next.
LEMMA StanzaAnswers ==
    ASSUME RequestsAssumption, AnswerInv, NEW r \in Requests, Stanza(r)
    PROVE  AnswerInv'
<1>1. /\ AnswerType /\ UsedInPlace(r) /\ pc[r] \in {"first", "next"}
      /\ Take(r) /\ IF using'[r] = {} THEN Return(r, Incorrect) ELSE Goto(r, "send")
      /\ UNCHANGED <<method, udp, reached, tried>>
      BY DEF AnswerInv, Sound, Stanza
<1>2. \A c \in using[r] : c \in tried'[r] /\ ~c.right
      BY <1>1 DEF UsedInPlace, Wrong
<1>3. method' \in [Requests -> Methods] /\ SentOrNot(r)
      BY <1>1 DEF AnswerType, SentOrNot
<1>4. QED BY <1>1, <1>2, <1>3, NextCredentialsKeep

\* A stanza is sent, or there is no client for it any more.
LEMMA SendIqAnswers ==
    ASSUME AnswerInv, NEW r \in Requests, SendIq(r)
    PROVE  AnswerInv'
<1>1. AnswerType /\ UNCHANGED <<left, using, method, udp, reached>>
      BY DEF AnswerInv, SendIq
<1>2. CASE xmppClient = Closed
      <2>1. Return(r, Error) /\ UNCHANGED tried
            BY <1>2 DEF SendIq
      <2>2. Error \in Answers /\ Error # "" /\ Error # Incorrect
            BY DEF Answers, Error, Incorrect
      <2>3. QED BY <1>1, <2>1, <2>2, ReturnKeeps DEF SentOrNot
<1>3. CASE xmppClient # Closed
      <2>1. Goto(r, "waiting") /\ Sent(r)
            BY <1>3 DEF SendIq
      <2>2. using[r] \subseteq tried'[r]
            BY <1>1, <2>1 DEF Sent, AnswerType
      <2>3. /\ "waiting" \in Locations \ {"await", "done"}
            /\ SentOrNot(r) /\ udp' \in [Requests -> UdpStates]
            BY <1>1, <2>1 DEF Locations, SentOrNot, AnswerType
      <2>4. QED BY <1>1, <2>1, <2>2, <2>3, GotoKeeps
<1>4. QED BY <1>2, <1>3

\* The device replies to a stanza.
LEMMA ReplyAnswers ==
    ASSUME AnswerInv, NEW r \in Requests, Reply(r)
    PROVE  AnswerInv'
<1>1. /\ AnswerType /\ UsedInPlace(r) /\ pc[r] = "waiting"
      /\ UNCHANGED <<left, using, method, udp, tried>> /\ SentOrNot(r)
      BY DEF AnswerInv, Sound, Reply, SentOrNot
<1>2. CASE Return(r, "") /\ Accepted(r)
      <2>1. "" \in Answers /\ "" # Incorrect
            BY DEF Answers, Incorrect
      <2>2. QED BY <1>1, <1>2, <2>1, ReturnKeeps
<1>3. CASE (\A c \in using[r] : ~c.right) /\ Goto(r, "next") /\ UNCHANGED reached
      <2>1. using[r] \subseteq tried'[r]
            BY <1>1 DEF UsedInPlace
      <2>2. "next" \in Locations \ {"await", "done"} /\ udp' \in [Requests -> UdpStates]
            BY <1>1 DEF Locations, AnswerType
      <2>3. QED BY <1>1, <1>3, <2>1, <2>2, GotoKeeps
<1>4. CASE \E s \in {Offline, Error} : Return(r, s) /\ UNCHANGED reached
      <2>1. PICK s \in {Offline, Error} : Return(r, s) /\ UNCHANGED reached
            BY <1>4
      <2>2. s \in Answers /\ s # "" /\ s # Incorrect
            BY DEF Answers, Offline, Error, Incorrect
      <2>3. QED BY <1>1, <2>1, <2>2, ReturnKeeps
<1>5. QED BY <1>2, <1>3, <1>4 DEF Reply

\* A request begins over HTTP or XMPP, and perhaps UDP, or is no request at all.
LEMMA StartAnswers ==
    ASSUME AnswerInv, NEW r \in Requests, Start(r)
    PROVE  AnswerInv'
<1>1. /\ AnswerType /\ (\A q \in Requests : Sound(q)) /\ pc[r] = "start" /\ using[r] = {}
      /\ UNCHANGED <<left, using, method, reached, tried>> /\ SentOrNot(r)
      BY DEF AnswerInv, Sound, UsedInPlace, Start, SentOrNot
<1>2. CASE /\ pc' = [pc EXCEPT ![r] = "done"]
           /\ status' = [status EXCEPT ![r] = "Invalid connection request URL"]
           /\ UNCHANGED udp
      <2>1. AnswerType'
            BY <1>1, <1>2 DEF AnswerType, Locations, Answers
      <2>2. ASSUME NEW q \in Requests \ {r} PROVE Sound(q)'
            BY <1>1, <1>2, UntouchedIsSound DEF Own, AnswerType
      <2>3. RestLeft(r)' /\ RefusedSoFar(r)'
            BY <1>1, SendingKeeps DEF Sound
      <2>4. pc'[r] = "done" /\ status'[r] = "Invalid connection request URL"
            BY <1>1, <1>2 DEF AnswerType
      <2>5. UsedInPlace(r)' /\ SaidTruly(r)'
            BY <2>4 DEF UsedInPlace, SaidTruly, Incorrect
      <2>6. QED BY <2>1, <2>2, <2>3, <2>5 DEF AnswerInv, Sound
<1>3. CASE /\ Goto(r, IF r \in ViaXmpp THEN "client" ELSE "get")
           /\ udp' = [udp EXCEPT ![r] = IF r \in WithUdp THEN "sending" ELSE "none"]
      <2>1. PICK l \in {"client", "get"} : Goto(r, l)
            BY <1>3
      <2>2. udp' \in [Requests -> UdpStates] /\ \A q \in Requests \ {r} : udp'[q] = udp[q]
            BY <1>1, <1>3 DEF AnswerType, UdpStates
      <2>3. l \in Locations \ {"await", "done"}
            BY DEF Locations
      <2>4. QED BY <1>1, <2>1, <2>2, <2>3, GotoKeeps
<1>4. QED BY <1>2, <1>3 DEF Start

\* Datagrams go out besides, and change nothing but what is said in the end.
LEMMA DatagramKeeps ==
    ASSUME AnswerInv, NEW r \in Requests, udp[r] = "sending",
           UNCHANGED <<pc, using, method, status, reached, tried>>,
           left' \in [Requests -> [main : Seq(Creds), udp : Seq(Creds)]],
           \A q \in Requests : left'[q].main = left[q].main,
           udp' \in [Requests -> UdpStates], \A q \in Requests \ {r} : udp'[q] = udp[q]
    PROVE  AnswerInv'
<1>1. AnswerType /\ \A q \in Requests : Sound(q)
      BY DEF AnswerInv
<1>2. AnswerType'
      BY <1>1 DEF AnswerType
<1>3. ASSUME NEW q \in Requests \ {r} PROVE Sound(q)'
      BY <1>1, UntouchedIsSound DEF Own
<1>4. Through(r)' = Through(r)
      BY DEF Through
<1>5. RestLeft(r)'
      BY <1>1, <1>4 DEF Sound, RestLeft
<1>6. RefusedSoFar(r)'
      BY <1>1, <1>4 DEF Sound, RefusedSoFar, Wrong
<1>7. UsedInPlace(r)'
      BY <1>1 DEF Sound, UsedInPlace, Wrong
<1>8. SaidTruly(r)'
      BY <1>1 DEF Sound, SaidTruly
<1>9. QED BY <1>2, <1>3, <1>5, <1>6, <1>7, <1>8 DEF AnswerInv, Sound

LEMMA SendUdpAnswers ==
    ASSUME AnswerInv, NEW r \in Requests, SendUdp(r)
    PROVE  AnswerInv'
<1> DEFINE e == ExtractAuth(left[r].udp)
<1>1. /\ udp[r] = "sending" /\ left' = [left EXCEPT ![r].udp = e.rest]
      /\ udp' \in {udp, [udp EXCEPT ![r] = "sent"]}
      /\ UNCHANGED <<pc, using, method, status, reached, tried>>
      BY DEF SendUdp, AnswerInv, AnswerType
<1>2. AnswerType
      BY DEF AnswerInv
<1>3. left[r].udp \in Seq(Creds)
      BY <1>2 DEF AnswerType
<1>4. e.rest \in Seq(Creds)
      <2>1. CASE left[r].udp = <<>>
            <3>1. e = [creds |-> {}, rest |-> left[r].udp]
                  BY <2>1 DEF ExtractAuth
            <3>2. QED BY <1>3, <3>1
      <2>2. CASE left[r].udp # <<>>
            <3>1. PICK k \in 1 .. Len(left[r].udp) :
                     e = [creds |-> {left[r].udp[k]},
                          rest |-> SubSeq(left[r].udp, k + 1, Len(left[r].udp))]
                  BY <1>3, <2>2, ExtractAuthTakes, Zenon
            <3>2. SubSeq(left[r].udp, k + 1, Len(left[r].udp)) \in Seq(Creds)
                  BY <1>3, RestOf, Zenon
            <3>3. QED BY <3>1, <3>2
      <2>3. QED BY <2>1, <2>2
<1> HIDE DEF e
<1>5. /\ left' \in [Requests -> [main : Seq(Creds), udp : Seq(Creds)]]
      /\ \A q \in Requests : left'[q].main = left[q].main
      <2>1. left \in [Requests -> [main : Seq(Creds), udp : Seq(Creds)]]
            BY <1>2 DEF AnswerType
      <2> DEFINE new == [left[r] EXCEPT !.udp = e.rest]
      <2>2. left' = [left EXCEPT ![r] = new]
            BY <1>1
      <2>3. new \in [main : Seq(Creds), udp : Seq(Creds)] /\ new.main = left[r].main
            BY <1>4, <2>1
      <2> HIDE DEF new
      <2>4. left' \in [Requests -> [main : Seq(Creds), udp : Seq(Creds)]]
            BY <2>1, <2>2, <2>3
      <2>5. ASSUME NEW q \in Requests PROVE left'[q].main = left[q].main
            BY <2>1, <2>2, <2>3
      <2>6. QED BY <2>4, <2>5
<1>6. udp' \in [Requests -> UdpStates] /\ \A q \in Requests \ {r} : udp'[q] = udp[q]
      BY <1>1, <1>2 DEF AnswerType, UdpStates
<1>7. QED BY <1>1, <1>5, <1>6, DatagramKeeps

LEMMA UdpFailsAnswers ==
    ASSUME AnswerInv, NEW r \in Requests, UdpFails(r)
    PROVE  AnswerInv'
<1>1. /\ udp[r] = "sending" /\ udp' = [udp EXCEPT ![r] = "failed"]
      /\ UNCHANGED <<pc, left, using, method, status, reached, tried>>
      BY DEF UdpFails
<1>2. AnswerType
      BY DEF AnswerInv
<1>3. udp' \in [Requests -> UdpStates] /\ \A q \in Requests \ {r} : udp'[q] = udp[q]
      BY <1>1, <1>2 DEF AnswerType, UdpStates
<1>4. left' \in [Requests -> [main : Seq(Creds), udp : Seq(Creds)]]
      BY <1>1, <1>2 DEF AnswerType
<1>5. QED BY <1>1, <1>3, <1>4, DatagramKeeps

\* A request comes to its end: with what it returned, or, if datagrams were sent, without an
\* error, or, if no client could be opened, with an exception.
LEMMA EndKeeps ==
    ASSUME AnswerInv, NEW r \in Requests, NEW s \in Answers,
           pc' = [pc EXCEPT ![r] = "done"], status' = [status EXCEPT ![r] = s],
           UNCHANGED <<left, using, method, udp, reached, tried>>,
           \/ pc[r] = "await" /\ s = status[r]
           \/ s = "" /\ udp[r] = "sent"
           \/ s \notin {"", Incorrect}
    PROVE  AnswerInv'
<1>1. AnswerType /\ \A q \in Requests : Sound(q)
      BY DEF AnswerInv
<1>2. AnswerType'
      BY <1>1 DEF AnswerType, Locations
<1>3. ASSUME NEW q \in Requests \ {r} PROVE Sound(q)'
      BY <1>1, UntouchedIsSound DEF Own, AnswerType
<1>4. RestLeft(r)' /\ RefusedSoFar(r)'
      BY <1>1, SendingKeeps DEF Sound, SentOrNot
<1>5. pc'[r] = "done" /\ status'[r] = s
      BY <1>1 DEF AnswerType
<1>6. UsedInPlace(r)'
      BY <1>5 DEF UsedInPlace
<1>7. SaidTruly(r)'
      BY <1>1, <1>5 DEF Sound, SaidTruly, Incorrect
<1>8. QED BY <1>2, <1>3, <1>4, <1>6, <1>7 DEF AnswerInv, Sound

LEMMA FinishAnswers ==
    ASSUME AnswerInv, NEW r \in Requests, Finish(r)
    PROVE  AnswerInv'
<1>1. AnswerType
      BY DEF AnswerInv
<1> DEFINE s == IF udp[r] = "sent" THEN "" ELSE status[r]
<1>2. s \in Answers
      BY <1>1 DEF AnswerType, Answers
<1>3. /\ pc[r] = "await" /\ pc' = [pc EXCEPT ![r] = "done"]
      /\ status' = [status EXCEPT ![r] = s]
      /\ UNCHANGED <<left, using, method, udp, reached, tried>>
      BY DEF Finish
<1>4. s = status[r] \/ (s = "" /\ udp[r] = "sent")
      OBVIOUS
<1> HIDE DEF s
<1>5. QED BY <1>2, <1>3, <1>4, EndKeeps

LEMMA OpenFailsAnswers ==
    ASSUME AnswerInv, NEW r \in Requests, OpenFails(r)
    PROVE  AnswerInv'
<1>1. "thrown" \in Answers /\ "thrown" \notin {"", Incorrect}
      BY DEF Answers, Incorrect
<1>2. QED BY <1>1, EndKeeps DEF OpenFails

\* Every step of a request keeps what is known of the answers.
LEMMA StepAnswers ==
    ASSUME RequestsAssumption, AnswerInv, NEW r \in Requests, Step(r) \/ Open(r) \/ OpenFails(r)
    PROVE  AnswerInv'
<1>1. AnswerType /\ UsedInPlace(r)
      BY DEF AnswerInv, Sound
<1>2. {"again", "get", "client", "opening", "first"} \subseteq Locations \ {"await", "done"}
      BY DEF Locations
<1>3. /\ {Offline, Error, "Basic HTTP authentication not allowed", "Unrecognized auth method"}
            \subseteq Answers \ {"", Incorrect}
      BY DEF Answers, Offline, Error, Incorrect
<1>4. UNCHANGED udp => udp' \in [Requests -> UdpStates] /\ \A q \in Requests : udp'[q] = udp[q]
      BY <1>1 DEF AnswerType
<1>5. CASE Start(r) \/ Finish(r) \/ SendUdp(r) \/ UdpFails(r)
      BY <1>5, StartAnswers, FinishAnswers, SendUdpAnswers, UdpFailsAnswers
<1>6. CASE HttpGet(r)
      BY <1>6, HttpGetAnswers
<1>7. CASE NotSent(r)
      <2>1. PICK s \in Refused(r) : Return(r, s)
            BY <1>7 DEF NotSent
      <2>2. s \in Answers \ {"", Incorrect}
            BY <1>3 DEF Refused
      <2>3. QED BY <1>7, <2>1, <2>2, ReturnKeeps DEF NotSent, SentOrNot
<1>8. CASE HttpFails(r)
      <2>1. CASE method[r] = "none"
            <3>1. PICK s \in {Offline, Error} : Return(r, s)
                  BY <1>8, <2>1 DEF HttpFails
            <3>2. QED BY <1>3, <1>8, <3>1, ReturnKeeps DEF HttpFails, SentOrNot
      <2>2. CASE method[r] # "none"
            <3>1. Goto(r, "again")
                  BY <1>8, <2>2 DEF HttpFails
            <3>2. QED BY <1>2, <1>4, <1>8, <3>1, GotoKeeps DEF HttpFails, SentOrNot
      <2>3. QED BY <2>1, <2>2
<1>9. CASE HttpAgain(r)
      <2>1. PICK s \in {Offline, Error} : Return(r, s)
            BY <1>9 DEF HttpAgain
      <2>2. QED BY <1>3, <1>9, <2>1, ReturnKeeps DEF HttpAgain, SentOrNot
<1>10. CASE Client(r)
      <2>1. PICK l \in {"opening", "first"} : Goto(r, l)
            BY <1>10 DEF Client
      <2>2. using[r] = {}
            BY <1>1, <1>10 DEF Client, UsedInPlace
      <2>3. QED BY <1>2, <1>4, <1>10, <2>1, <2>2, GotoKeeps DEF Client, SentOrNot
<1>11. CASE Open(r)
      <2>1. UNCHANGED <<left, using, method, udp, reached, tried>> /\ using[r] = {}
            BY <1>1, <1>11 DEF Open, UsedInPlace
      <2>2. Goto(r, "first") \/ UNCHANGED <<pc, status>>
            BY <1>11 DEF Open
      <2>3. CASE Goto(r, "first")
            BY <1>2, <1>4, <2>1, <2>3, GotoKeeps DEF SentOrNot
      <2>4. CASE UNCHANGED <<pc, status>>
            BY <2>1, <2>4, UntouchedIsSound DEF AnswerInv, AnswerType, Own
      <2>5. QED BY <2>2, <2>3, <2>4
<1>12. CASE OpenFails(r)
      BY <1>12, OpenFailsAnswers
<1>13. CASE Stanza(r)
      BY <1>13, StanzaAnswers
<1>14. CASE SendIq(r)
      BY <1>14, SendIqAnswers
<1>15. CASE Reply(r)
      BY <1>15, ReplyAnswers
<1>16. CASE IqTimeout(r)
      BY <1>3, <1>16, ReturnKeeps DEF IqTimeout, SentOrNot
<1>17. QED
      BY <1>5, <1>6, <1>7, <1>8, <1>9, <1>10, <1>11, <1>12, <1>13, <1>14, <1>15, <1>16 DEF Step

\* A client that closes with an error tells those it was to answer.
LEMMA ClientGoneAnswers ==
    ASSUME AnswerInv, NEW c \in Requests, NEW error \in BOOLEAN, ClientGone(c, error)
    PROVE  AnswerInv'
<1> DEFINE told == {r \in Requests : error /\ pc[r] = "waiting" /\ via[r] = c}
<1>1. /\ pc' = [r \in Requests |-> IF r \in told THEN "await" ELSE pc[r]]
      /\ status' = [r \in Requests |-> IF r \in told THEN Error ELSE status[r]]
      /\ UNCHANGED <<left, using, method, udp, reached, tried>>
      BY DEF ClientGone
<1> HIDE DEF told
<1>2. AnswerType /\ \A q \in Requests : Sound(q)
      BY DEF AnswerInv
<1>3. AnswerType'
      <2>1. "await" \in Locations /\ Error \in Answers
            BY DEF Locations, Answers
      <2>2. QED BY <1>1, <1>2, <2>1 DEF AnswerType
<1>4. ASSUME NEW q \in Requests PROVE Sound(q)'
      <2>1. CASE q \notin told
            BY <1>1, <1>2, <2>1, UntouchedIsSound DEF Own, AnswerType
      <2>2. CASE q \in told
            <3>1. pc'[q] = "await" /\ status'[q] = Error
                  BY <1>1, <2>2
            <3>2. UsedInPlace(q)' /\ SaidTruly(q)'
                  BY <3>1 DEF UsedInPlace, SaidTruly, Error, Incorrect
            <3>3. RestLeft(q)' /\ RefusedSoFar(q)'
                  BY <1>1, <1>2, SendingKeeps DEF Sound, SentOrNot
            <3>4. QED BY <3>2, <3>3 DEF Sound
      <2>3. QED BY <2>1, <2>2
<1>5. QED BY <1>3, <1>4 DEF AnswerInv

\* A client that is cut off tells nobody.
LEMMA ClientCutAnswers ==
    ASSUME AnswerInv, NEW c \in Requests, ClientCut(c)
    PROVE  AnswerInv'
<1>1. UNCHANGED <<pc, left, using, method, status, udp, reached, tried>>
      BY DEF ClientCut
<1>2. QED BY <1>1, UntouchedIsSound DEF AnswerInv, AnswerType, Own

\* Credentials are called incorrect only when every one that has a user name was sent and
\* refused, and no request is answered without an error that neither reached the device nor
\* went out as datagrams (httpConnectionRequest, xmppConnectionRequest,
\* udpConnectionRequest, connectionRequest).
THEOREM AnswersAlwaysTruthful == Spec => []Truthful
<1>1. Init => AnswerInv
      <2> SUFFICES ASSUME Init PROVE AnswerInv
          OBVIOUS
      <2>1. \A r \in Requests : AuthExp[r] \in Seq(Creds)
            BY RequestsAssumption DEF RequestsAssumption, Creds
      <2>2. AnswerType
            BY <2>1 DEF Init, AnswerType, Locations, Methods, Answers, UdpStates
      <2>3. ASSUME NEW r \in Requests PROVE Sound(r)
            <3>1. /\ pc[r] = "start" /\ using[r] = {} /\ left[r].main = AuthExp[r]
                  BY DEF Init
            <3>2. Len(AuthExp[r]) \in Nat
                  BY <2>1, LenProperties
            <3>3. Through(r) = 0
                  BY <3>1, <3>2 DEF Through
            <3>4. RestLeft(r)
                  BY <3>1, <3>2, <3>3 DEF RestLeft
            <3>5. RefusedSoFar(r)
                  <4>1. \A i \in 1 .. Len(AuthExp[r]) : ~(i <= Through(r))
                        BY ONLY <3>2, <3>3
                  <4>2. QED BY <4>1 DEF RefusedSoFar
            <3>6. UsedInPlace(r) /\ SaidTruly(r)
                  BY <3>1 DEF UsedInPlace, SaidTruly
            <3>7. QED BY <3>4, <3>5, <3>6 DEF Sound
      <2>4. QED BY <2>2, <2>3 DEF AnswerInv
<1>2. AnswerInv /\ [Next]_vars => AnswerInv'
      <2> SUFFICES ASSUME AnswerInv, [Next]_vars PROVE AnswerInv'
          OBVIOUS
      <2>1. CASE \E r \in Requests : Step(r) \/ Open(r) \/ OpenFails(r)
            BY <2>1, StepAnswers, RequestsAssumption
      <2>2. CASE \E c \in Requests : ClientCut(c) \/ \E error \in BOOLEAN : ClientGone(c, error)
            BY <2>2, ClientGoneAnswers, ClientCutAnswers
      <2>3. CASE UNCHANGED vars
            BY <2>3, UntouchedIsSound DEF vars, AnswerInv, AnswerType, Own
      <2>4. QED BY <2>1, <2>2, <2>3 DEF Next
<1>3. AnswerInv => Truthful
      <2> SUFFICES ASSUME AnswerInv, NEW r \in Requests, Done(r)
                   PROVE  /\ status[r] = "" => reached[r] \/ udp[r] = "sent"
                          /\ status[r] = Incorrect =>
                                \A i \in DOMAIN AuthExp[r] : AuthExp[r][i].user # "" =>
                                   AuthExp[r][i] \in tried[r] /\ ~AuthExp[r][i].right
          BY DEF Truthful
      <2>1. RefusedSoFar(r) /\ SaidTruly(r)
            BY DEF AnswerInv, Sound
      <2>2. status[r] = "" => reached[r] \/ udp[r] = "sent"
            BY <2>1 DEF SaidTruly, Done
      <2>3. ASSUME status[r] = Incorrect, NEW i \in DOMAIN AuthExp[r], AuthExp[r][i].user # ""
            PROVE  AuthExp[r][i] \in tried[r] /\ ~AuthExp[r][i].right
            <3>1. left[r].main = <<>> /\ using[r] = {}
                  BY <2>1, <2>3 DEF SaidTruly, Done
            <3>2. AuthExp[r] \in Seq(Creds)
                  BY RequestsAssumption DEF RequestsAssumption, Creds
            <3>3. i \in 1 .. Len(AuthExp[r]) /\ Len(AuthExp[r]) \in Nat
                  BY <3>2, LenProperties
            <3>4. Len(left[r].main) = 0
                  BY <3>1, EmptySeq
            <3>5. i <= Through(r)
                  BY <3>3, <3>4 DEF Through
            <3>6. QED BY <2>1, <2>3, <3>1, <3>3, <3>5 DEF RefusedSoFar, Wrong
      <2>4. QED BY <2>2, <2>3
<1>4. QED BY <1>1, <1>2, <1>3, PTL DEF Spec

-----------------------------------------------------------------------------
\* The processes of a service (Workers).
\* What Workers counts is counted as here.
LEMMA SameProcesses ==
  ASSUME NEW S
  PROVE  Wor!Cardinality(S) = Cardinality(S) /\ Wor!IsFiniteSet(S) = IsFiniteSet(S)
BY DEF Wor!Cardinality, Cardinality, Wor!IsFiniteSet, IsFiniteSet

Places == {"none", "starting", "serving", "closing", "exiting"}
Procs == [pc : Places, since : Int, told : BOOLEAN]

CountType ==
  /\ now \in Int /\ respawnTimestamp \in Int
  /\ worker \in [Pool -> Procs]
  /\ timers \subseteq Int /\ IsFiniteSet(timers)

TimersPast == \A t \in timers : t <= respawnTimestamp

\* Nothing is claimed once the main process has given up or is stopped.
CountInv == main = "running" => CountType /\ TimersPast /\ Wor!Manned

AliveIn(procs) == {w \in Pool : procs[w].pc # "none"}

-----------------------------------------------------------------------------
\* What counts: the workers that are alive are finitely many.
LEMMA AliveFinite ==
  ASSUME Wor!CountAssumption, NEW procs
  PROVE  IsFiniteSet(AliveIn(procs)) /\ Cardinality(AliveIn(procs)) \in Nat
<1>1. AliveIn(procs) \subseteq Pool
      BY DEF AliveIn
<1>2. QED BY <1>1, FS_Subset, FS_CardinalityType, SameProcesses DEF Wor!CountAssumption

\* A fork adds one worker, if not all identifiers are taken.
LEMMA ForkAddsOne ==
  ASSUME Wor!CountAssumption, CountType, NEW procs \in [Pool -> Procs],
         Cardinality(AliveIn(procs)) < WorkerCount
  PROVE  /\ Wor!Fork(procs) \in [Pool -> Procs]
         /\ Cardinality(AliveIn(Wor!Fork(procs))) = Cardinality(AliveIn(procs)) + 1
<1> DEFINE w == CHOOSE x \in Pool : procs[x].pc = "none"
<1>1. AliveIn(procs) # Pool
      <2>1. Cardinality(Pool) \in Nat /\ WorkerCount <= Cardinality(Pool)
            BY FS_CardinalityType, SameProcesses DEF Wor!CountAssumption
      <2>2. Cardinality(AliveIn(procs)) \in Nat
            BY AliveFinite
      <2>3. QED BY <2>1, <2>2 DEF Wor!CountAssumption
<1>2. \E x \in Pool : procs[x].pc = "none"
      BY <1>1 DEF AliveIn
<1>3. w \in Pool /\ procs[w].pc = "none"
      BY <1>2
<1>4. Wor!Fork(procs) = [procs EXCEPT ![w] = Wor!At("starting")]
      BY DEF Wor!Fork
<1> HIDE DEF w
<1>5. Wor!At("starting") \in Procs /\ Wor!At("starting").pc # "none"
      BY DEF Wor!At, Procs, Places, CountType
<1>6. AliveIn(Wor!Fork(procs)) = AliveIn(procs) \cup {w} /\ w \notin AliveIn(procs)
      BY <1>3, <1>4, <1>5 DEF AliveIn
<1>7. Cardinality(AliveIn(procs) \cup {w}) = Cardinality(AliveIn(procs)) + 1
      BY <1>6, AliveFinite, FS_AddElement
<1>8. Wor!Fork(procs) \in [Pool -> Procs]
      BY <1>3, <1>4, <1>5
<1>9. QED
      BY <1>6, <1>7, <1>8

\* A death takes one away.
LEMMA DeathTakesOne ==
  ASSUME Wor!CountAssumption, CountType, NEW w \in Pool, worker[w].pc # "none"
  PROVE  LET rest == [worker EXCEPT ![w] = Wor!None]
         IN  /\ rest \in [Pool -> Procs]
             /\ Cardinality(AliveIn(rest)) = Cardinality(AliveIn(worker)) - 1
<1> DEFINE rest == [worker EXCEPT ![w] = Wor!None]
<1>1. Wor!None \in Procs /\ Wor!None.pc = "none"
      BY DEF Wor!None, Procs, Places
<1>2. rest \in [Pool -> Procs]
      BY <1>1 DEF CountType
<1>3. AliveIn(rest) = AliveIn(worker) \ {w} /\ w \in AliveIn(worker)
      BY <1>1 DEF AliveIn, CountType
<1>4. Cardinality(AliveIn(rest)) = Cardinality(AliveIn(worker)) - 1
      BY <1>3, AliveFinite, FS_RemoveElement
<1>5. QED BY <1>2, <1>4

\* A timer that is set or fires changes their number by one.
LEMMA OneTimer ==
  ASSUME CountType, NEW t \in Int
  PROVE  /\ IsFiniteSet(timers \cup {t}) /\ IsFiniteSet(timers \ {t})
         /\ Cardinality(timers) \in Nat
         /\ t \notin timers => Cardinality(timers \cup {t}) = Cardinality(timers) + 1
         /\ t \in timers => Cardinality(timers \ {t}) = Cardinality(timers) - 1
BY FS_AddElement, FS_RemoveElement, FS_CardinalityType DEF CountType

-----------------------------------------------------------------------------
\* A worker dies and is replaced, now or by a timer later than all the others.
LEMMA DiedKeeps ==
  ASSUME Wor!CountAssumption, CountInv, NEW w \in Pool, worker[w].pc # "none", Wor!Died(w),
         now' = now, main' = "running"
  PROVE  CountInv'
<1> DEFINE rest == [worker EXCEPT ![w] = Wor!None]
<1>1. /\ main = "running" /\ respawnTimestamp' = Wor!RespawnAt
      /\ Wor!Refork(rest, Wor!RespawnAt)
      BY DEF Wor!Died
<1>2. CountType /\ TimersPast /\ Wor!Manned
      BY <1>1 DEF CountInv
<1>3. /\ rest \in [Pool -> Procs]
      /\ Cardinality(AliveIn(rest)) = Cardinality(AliveIn(worker)) - 1
      BY <1>2, DeathTakesOne
<1>4. Cardinality(AliveIn(worker)) + Cardinality(timers) = WorkerCount
      BY <1>1, <1>2, SameProcesses DEF Wor!Manned, Wor!Alive, AliveIn
<1>5. /\ Cardinality(AliveIn(worker)) \in Nat /\ Cardinality(timers) \in Nat
      /\ WorkerCount \in Nat
      BY <1>2, AliveFinite, FS_CardinalityType DEF Wor!CountAssumption, CountType
<1>6. /\ Wor!RespawnAt \in Int
      /\ \A t \in timers : t < Wor!RespawnAt
      BY <1>2 DEF Wor!RespawnAt, Wor!Max2, CountType, TimersPast, Wor!CountAssumption
<1>7. TimersPast'
      <2>1. timers' \subseteq timers \cup {Wor!RespawnAt}
            BY <1>1 DEF Wor!Refork
      <2>2. \A t \in timers' : t <= Wor!RespawnAt
            BY <1>2, <1>6, <2>1 DEF CountType
      <2>3. QED BY <1>1, <2>2 DEF TimersPast
<1> HIDE DEF rest
<1>8. CASE Wor!RespawnAt = now
      <2>1. worker' = Wor!Fork(rest) /\ timers' = timers
            BY <1>1, <1>8 DEF Wor!Refork
      <2>2. /\ Wor!Fork(rest) \in [Pool -> Procs]
            /\ Cardinality(AliveIn(Wor!Fork(rest))) = Cardinality(AliveIn(rest)) + 1
            BY <1>2, <1>3, <1>4, <1>5, ForkAddsOne
      <2>3. Wor!Manned'
            BY <1>3, <1>4, <1>5, <2>1, <2>2, SameProcesses DEF Wor!Manned, Wor!Alive, AliveIn
      <2>4. CountType'
            BY <1>1, <1>2, <1>6, <2>1, <2>2 DEF CountType
      <2>5. QED BY <1>7, <2>3, <2>4 DEF CountInv
<1>9. CASE Wor!RespawnAt # now
      <2>1. worker' = rest /\ timers' = timers \cup {Wor!RespawnAt}
            BY <1>1, <1>9 DEF Wor!Refork
      <2>2. IsFiniteSet(timers') /\ Cardinality(timers') = Cardinality(timers) + 1
            <3>1. PICK t : t = Wor!RespawnAt
                  OBVIOUS
            <3>2. t \in Int /\ t \notin timers /\ timers' = timers \cup {t}
                  BY <1>6, <2>1, <3>1
            <3>3. QED BY <1>2, <3>2, OneTimer
      <2>3. Wor!Manned'
            BY <1>3, <1>4, <1>5, <2>1, <2>2, SameProcesses DEF Wor!Manned, Wor!Alive, AliveIn
      <2>4. CountType'
            BY <1>1, <1>2, <1>3, <1>6, <2>1, <2>2 DEF CountType
      <2>5. QED BY <1>7, <2>3, <2>4 DEF CountInv
<1>10. QED BY <1>8, <1>9

\* A timer fires, and its worker is forked.
LEMMA RespawnKeeps ==
  ASSUME Wor!CountAssumption, CountInv, Wor!Respawn, main' = "running"
  PROVE  CountInv'
<1>1. /\ main = "running" /\ now \in timers /\ timers' = timers \ {now}
      /\ worker' = Wor!Fork(worker) /\ now' = now /\ respawnTimestamp' = respawnTimestamp
      BY DEF Wor!Respawn
<1>2. CountType /\ TimersPast /\ Wor!Manned
      BY <1>1 DEF CountInv
<1>3. Cardinality(AliveIn(worker)) + Cardinality(timers) = WorkerCount
      BY <1>1, <1>2, SameProcesses DEF Wor!Manned, Wor!Alive, AliveIn
<1>4. /\ IsFiniteSet(timers') /\ Cardinality(timers') = Cardinality(timers) - 1
      /\ Cardinality(timers) \in Nat
      BY <1>1, <1>2, OneTimer DEF CountType
<1>5. Cardinality(AliveIn(worker)) \in Nat /\ Cardinality(timers') \in Nat /\ WorkerCount \in Nat
      BY <1>4, AliveFinite, FS_CardinalityType DEF Wor!CountAssumption
<1>6. Cardinality(AliveIn(worker)) < WorkerCount
      BY <1>3, <1>4, <1>5
<1>7. /\ worker' \in [Pool -> Procs]
      /\ Cardinality(AliveIn(worker')) = Cardinality(AliveIn(worker)) + 1
      BY <1>1, <1>2, <1>6, ForkAddsOne DEF CountType
<1>8. Wor!Manned'
      BY <1>3, <1>4, <1>5, <1>7, SameProcesses DEF Wor!Manned, Wor!Alive, AliveIn
<1>9. QED
      BY <1>1, <1>2, <1>4, <1>7, <1>8 DEF CountInv, CountType, TimersPast

\* A worker that goes on is as alive as before.
LEMMA MoveKeeps ==
  ASSUME CountInv, NEW w \in Pool, NEW to \in Places \ {"none"}, Wor!Move(w, to),
         worker[w].pc # "none"
  PROVE  CountInv'
<1> SUFFICES ASSUME main = "running" PROVE CountInv'
    BY DEF Wor!Move, CountInv
<1>1. CountType /\ TimersPast /\ Wor!Manned
      BY DEF CountInv
<1>2. Wor!At(to) \in Procs /\ Wor!At(to).pc = to
      BY <1>1 DEF Wor!At, Procs, CountType
<1>3. worker' \in [Pool -> Procs]
      BY <1>1, <1>2 DEF Wor!Move, CountType
<1>4. Wor!Alive' = Wor!Alive
      BY <1>1, <1>2 DEF Wor!Move, Wor!Alive, CountType
<1>5. QED BY <1>1, <1>3, <1>4 DEF Wor!Move, CountInv, CountType, TimersPast, Wor!Manned

-----------------------------------------------------------------------------
\* Every step keeps the count.
LEMMA CountStep ==
  ASSUME Wor!CountAssumption, CountInv, [Wor!Next]_Wor!vars
  PROVE  CountInv'
<1> SUFFICES ASSUME main' = "running" PROVE CountInv'
    BY DEF CountInv
<1>1. ASSUME NEW w \in Pool, Wor!Connect(w) PROVE CountInv'
      BY <1>1, MoveKeeps DEF Wor!Connect, Places
<1>2. ASSUME NEW w \in Pool, Wor!ConnectFails(w) \/ Wor!Crash(w) \/ Wor!Close(w) PROVE CountInv'
      BY <1>2, MoveKeeps DEF Wor!ConnectFails, Wor!Crash, Wor!Close, Places
<1>3. ASSUME NEW w \in Pool, Wor!Exit(w) \/ Wor!Kill(w) PROVE CountInv'
      BY <1>3, DiedKeeps DEF Wor!Exit, Wor!Kill
<1>4. CASE Wor!Respawn
      BY <1>4, RespawnKeeps
<1>5. CASE Wor!Stop
      BY <1>5 DEF Wor!Stop
<1>6. CASE Wor!Tick
      BY <1>6 DEF Wor!Tick, CountInv, CountType, TimersPast, Wor!Manned, Wor!Alive
<1>7. CASE UNCHANGED Wor!vars
      BY <1>7 DEF Wor!vars, CountInv, CountType, TimersPast, Wor!Manned, Wor!Alive
<1>8. QED BY <1>1, <1>2, <1>3, <1>4, <1>5, <1>6, <1>7 DEF Wor!Next

\* At first the workers are those that were forked, and no timer is set.
LEMMA CountInit ==
  ASSUME Wor!CountAssumption
  PROVE  Wor!Init => CountInv
<1> SUFFICES ASSUME Wor!Init PROVE CountInv
    OBVIOUS
<1>1. PICK first \in SUBSET Pool :
        /\ Cardinality(first) = WorkerCount
        /\ worker = [w \in Pool |-> IF w \in first THEN Wor!At("starting") ELSE Wor!None]
      BY SameProcesses DEF Wor!Init
<1>2. now \in Int /\ respawnTimestamp \in Int /\ timers = {}
      BY DEF Wor!Init, Wor!CountAssumption
<1>3. worker \in [Pool -> Procs] /\ Wor!Alive = first
      BY <1>1, <1>2 DEF Wor!At, Wor!None, Procs, Places, Wor!Alive
<1>4. IsFiniteSet({}) /\ Cardinality({}) = 0
      BY FS_EmptySet
<1>5. WorkerCount \in Nat
      BY FS_CardinalityType DEF Wor!CountAssumption
<1>6. Wor!Manned
      BY <1>1, <1>2, <1>3, <1>4, <1>5, SameProcesses DEF Wor!Manned
<1>7. QED BY <1>2, <1>3, <1>4, <1>6 DEF CountInv, CountType, TimersPast

LEMMA MannedByInvariant ==
  ASSUME Wor!CountAssumption
  PROVE  CountInv => Wor!Manned
BY DEF CountInv, Wor!Manned

\* However workers crash, as many are alive or about to be forked as there are to be, until
\* the main process gives up or is told to stop (restartWorker).
THEOREM AlwaysManned ==
  ASSUME Wor!CountAssumption
  PROVE  Wor!Spec => []Wor!Manned
<1>1. CountInv /\ [Wor!Next]_Wor!vars => CountInv'
      BY CountStep
<1>2. QED BY CountInit, <1>1, MannedByInvariant, PTL DEF Wor!Spec

-----------------------------------------------------------------------------
\* Forks that replace workers.

SpacingType ==
  /\ now \in Int /\ respawnTimestamp \in Int /\ timers \subseteq Int
  /\ lastFork \in [at : Int, gap : Int]

\* The last fork and those to come are RespawnGap apart of each other, none is overdue, and
\* the timestamp is that of the last of them.
Spaced ==
  /\ \A t \in timers : t >= now /\ t <= respawnTimestamp /\ t >= lastFork.at + RespawnGap
  /\ \A t \in timers : \A u \in timers : t < u => u >= t + RespawnGap
  /\ lastFork.at <= respawnTimestamp

ThrottleInv == SpacingType /\ Spaced /\ Wor!Throttled

\* A worker that is forked now, as far from the last one as those to come are from it.
LEMMA ForkedKeeps ==
  ASSUME Wor!CountAssumption, ThrottleInv, UNCHANGED now, lastFork' = Wor!Forked,
         now >= lastFork.at + RespawnGap,
         respawnTimestamp' \in Int, respawnTimestamp' >= now,
         timers' \subseteq timers,
         \A t \in timers' : t <= respawnTimestamp' /\ t >= now + RespawnGap
  PROVE  ThrottleInv'
<1>1. RespawnGap \in Nat \ {0}
      BY DEF Wor!CountAssumption
<1>2. /\ now \in Int /\ lastFork.at \in Int /\ timers \subseteq Int
      BY DEF ThrottleInv, SpacingType
<1>3. lastFork' = [at |-> now, gap |-> RespawnGap]
      BY <1>1, <1>2 DEF Wor!Forked, Wor!Min2
<1>4. SpacingType'
      BY <1>1, <1>2, <1>3 DEF SpacingType
<1>5. \A t \in timers' : \A u \in timers' : t < u => u >= t + RespawnGap
      BY DEF ThrottleInv, Spaced
<1>6. Spaced'
      BY <1>1, <1>2, <1>3, <1>5 DEF Spaced
<1>7. Wor!Throttled'
      BY <1>1, <1>3 DEF Wor!Throttled
<1>8. QED BY <1>4, <1>6, <1>7 DEF ThrottleInv

\* A death sets a timer later than the others, or forks at once when none is set.
LEMMA DiedThrottled ==
  ASSUME Wor!CountAssumption, ThrottleInv, NEW w \in Pool, Wor!Died(w), UNCHANGED now
  PROVE  ThrottleInv'
<1>1. RespawnGap \in Nat \ {0}
      BY DEF Wor!CountAssumption
<1>2. /\ now \in Int /\ respawnTimestamp \in Int /\ timers \subseteq Int
      /\ lastFork.at \in Int
      BY DEF ThrottleInv, SpacingType
<1>3. CASE UNCHANGED <<respawnTimestamp, timers, lastFork>>
      BY <1>3 DEF ThrottleInv, SpacingType, Spaced, Wor!Throttled
<1>4. CASE respawnTimestamp' = Wor!RespawnAt /\ \E rest : Wor!Refork(rest, Wor!RespawnAt)
      <2>1. Wor!RespawnAt \in Int /\ Wor!RespawnAt >= now /\ Wor!RespawnAt >= respawnTimestamp + RespawnGap
            BY <1>1, <1>2 DEF Wor!RespawnAt, Wor!Max2
      <2>2. CASE Wor!RespawnAt = now
            <3>1. timers = {}
                  BY <1>1, <1>2, <2>1, <2>2 DEF ThrottleInv, Spaced
            <3>2. timers' = {} /\ lastFork' = Wor!Forked
                  BY <1>4, <2>2, <3>1 DEF Wor!Refork
            <3>3. now >= lastFork.at + RespawnGap
                  BY <1>1, <1>2, <2>1, <2>2 DEF ThrottleInv, Spaced
            <3>4. respawnTimestamp' = now
                  BY <1>4, <2>2
            <3>5. QED BY <1>2, <3>1, <3>2, <3>3, <3>4, ForkedKeeps
      <2>3. CASE Wor!RespawnAt # now
            <3>1. timers' = timers \cup {Wor!RespawnAt} /\ lastFork' = lastFork
                  BY <1>4, <2>3 DEF Wor!Refork
            <3>2. SpacingType'
                  BY <1>4, <2>1, <3>1 DEF ThrottleInv, SpacingType
            <3> DEFINE at == Wor!RespawnAt
            <3>3. at \in Int /\ at >= now /\ at >= respawnTimestamp + RespawnGap
                  BY <2>1
            <3>4. timers' = timers \cup {at} /\ respawnTimestamp' = at
                  BY <1>4, <3>1
            <3> HIDE DEF at
            <3>5. Spaced'
                  BY <1>1, <1>2, <3>1, <3>3, <3>4 DEF ThrottleInv, Spaced
            <3>6. QED BY <3>1, <3>2, <3>5 DEF ThrottleInv, Wor!Throttled
      <2>4. QED BY <2>2, <2>3
<1>5. QED BY <1>3, <1>4 DEF Wor!Died

\* At first nobody has been forked again.
LEMMA ThrottleInit ==
  ASSUME Wor!CountAssumption
  PROVE  Wor!Init => ThrottleInv
BY DEF Wor!Init, Wor!CountAssumption, ThrottleInv, SpacingType, Spaced, Wor!Throttled

LEMMA ThrottleStep ==
  ASSUME Wor!CountAssumption
  PROVE  ThrottleInv /\ [Wor!Next]_Wor!vars => ThrottleInv'
<1> SUFFICES ASSUME ThrottleInv, [Wor!Next]_Wor!vars PROVE ThrottleInv'
    OBVIOUS
<1>1. ASSUME NEW w \in Pool, Wor!Exit(w) \/ Wor!Kill(w) PROVE ThrottleInv'
      BY <1>1, DiedThrottled DEF Wor!Exit, Wor!Kill
<1>2. CASE Wor!Respawn
      <2>1. /\ now \in timers /\ timers' = timers \ {now}
            /\ UNCHANGED <<now, respawnTimestamp>>
            BY <1>2 DEF Wor!Respawn
      <2>2. CASE lastFork' = lastFork
            BY <2>1, <2>2 DEF ThrottleInv, SpacingType, Spaced, Wor!Throttled
      <2>3. CASE lastFork' = Wor!Forked
            <3>1. /\ now \in Int /\ respawnTimestamp \in Int /\ timers \subseteq Int
                  BY DEF ThrottleInv, SpacingType
            <3>2. now >= lastFork.at + RespawnGap /\ respawnTimestamp >= now
                  BY <2>1, <3>1 DEF ThrottleInv, Spaced
            <3>3. \A t \in timers' : t <= respawnTimestamp /\ t >= now + RespawnGap
                  BY <2>1, <3>1 DEF ThrottleInv, Spaced
            <3>4. QED BY <2>1, <2>3, <3>1, <3>2, <3>3, ForkedKeeps
      <2>4. QED BY <1>2, <2>2, <2>3 DEF Wor!Respawn
<1>3. CASE Wor!Tick
      <2>1. /\ now' = now + 1 /\ now \notin timers
            /\ UNCHANGED <<respawnTimestamp, timers, lastFork>>
            BY <1>3 DEF Wor!Tick
      <2>2. QED BY <2>1 DEF ThrottleInv, SpacingType, Spaced, Wor!Throttled
<1>4. CASE UNCHANGED <<now, respawnTimestamp, timers, lastFork>>
      BY <1>4 DEF ThrottleInv, SpacingType, Spaced, Wor!Throttled
<1>5. ASSUME NEW w \in Pool,
             Wor!Connect(w) \/ Wor!ConnectFails(w) \/ Wor!Crash(w) \/ Wor!Close(w)
      PROVE  ThrottleInv'
      BY <1>4, <1>5 DEF Wor!Connect, Wor!ConnectFails, Wor!Crash, Wor!Close, Wor!Move
<1>6. CASE Wor!Stop \/ UNCHANGED Wor!vars
      BY <1>4, <1>6 DEF Wor!Stop, Wor!vars
<1>7. QED BY <1>1, <1>2, <1>3, <1>5, <1>6 DEF Wor!Next

\* Two workers are never forked again within RespawnGap, whether their timers fire, or they
\* die when it has passed (restartWorker).
THEOREM AlwaysThrottled ==
  ASSUME Wor!CountAssumption
  PROVE  Wor!Spec => []Wor!Throttled
<1>1. ThrottleInv => Wor!Throttled
      BY DEF ThrottleInv
<1>2. QED BY ThrottleInit, ThrottleStep, <1>1, PTL DEF Wor!Spec

-----------------------------------------------------------------------------
\* The tasks that users send (TaskQueue).
\* What TaskQueue counts is counted as here.
LEMMA SameCount ==
  ASSUME NEW S
  PROVE  Tas!Cardinality(S) = Cardinality(S) /\ Tas!IsFiniteSet(S) = IsFiniteSet(S)
BY DEF Tas!Cardinality, Cardinality, Tas!IsFiniteSet, IsFiniteSet

Statuses == {"none", "queued", "pending", "fault", "stale", "done"}
Commits == [requests : SUBSET SUBSET Tasks, summons : BOOLEAN]

QueueType ==
  /\ taskStatus \in [Tasks -> Statuses]
  /\ queue \subseteq Tasks
  /\ staging \subseteq Edits
  /\ commits \subseteq Commits

StagedUntouched == \A e \in staging : \A t \in e : taskStatus[t] = "none"

PendingIsPosted == \A t \in Tasks : (taskStatus[t] = "pending") = (t \in Tas!Posted)
Apart ==
  \A c \in commits : \A d \in commits : \A r \in c.requests : \A q \in d.requests :
    r \cap q # {} => (c = d /\ r = q)

QueueInv == QueueType /\ StagedUntouched /\ PendingIsPosted /\ Apart /\ Tas!QueueBounded

-----------------------------------------------------------------------------
\* A queue that loses tasks is no longer.
LEMMA FewerFit ==
  ASSUME Tas!TasksAssumption, QueueType, Tas!QueueBounded, NEW Q \in SUBSET queue
  PROVE  Tas!Cardinality(Q) <= MAX_QUEUE
<1>1. IsFiniteSet(queue)
      <2>1. IsFiniteSet(Tasks) /\ queue \subseteq Tasks
            BY SameCount DEF Tas!TasksAssumption, QueueType
      <2>2. QED BY <2>1, FS_Subset
<1>2. Cardinality(queue) \in Nat /\ Cardinality(Q) \in Nat /\ Cardinality(Q) <= Cardinality(queue)
      BY <1>1, FS_Subset, FS_CardinalityType
<1>3. Tas!Cardinality(queue) = Cardinality(queue) /\ Tas!Cardinality(Q) = Cardinality(Q)
      BY SameCount
<1>4. QED BY <1>2, <1>3 DEF Tas!QueueBounded, Tas!TasksAssumption

\* What is posted stays apart when nothing is posted and no pending task changes.
LEMMA NothingPosted ==
  ASSUME QueueInv, UNCHANGED commits, taskStatus' \in [Tasks -> Statuses],
         \A t \in Tasks : taskStatus'[t] # taskStatus[t] =>
             taskStatus[t] # "pending" /\ taskStatus'[t] # "pending"
  PROVE  PendingIsPosted' /\ Apart'
BY DEF QueueInv, PendingIsPosted, Apart, Tas!Posted, Commits, QueueType

\* Queueing tasks that are not posted keeps the invariant if the edits that stay staged
\* have none of them.
LEMMA QueueTaskKeeps ==
  ASSUME Tas!TasksAssumption, QueueInv, NEW tasks \in SUBSET Tasks, Tas!QueueTask(tasks),
         UNCHANGED commits, staging' \subseteq staging,
         \A t \in tasks : taskStatus[t] # "pending",
         \A e \in staging' : e \cap tasks = {}
  PROVE  QueueInv'
<1>1. CASE Tas!CanQueue(tasks)
      <2>1. /\ taskStatus' = [t \in Tasks |-> IF t \in tasks THEN "queued" ELSE taskStatus[t]]
            /\ queue' = queue \cup tasks
            BY <1>1 DEF Tas!QueueTask
      <2>2. QueueType'
            BY <2>1 DEF QueueInv, QueueType, Statuses
      <2>3. StagedUntouched'
            BY <2>1 DEF QueueInv, StagedUntouched, QueueType, Tas!TasksAssumption
      <2>4. PendingIsPosted' /\ Apart'
            <3>1. taskStatus' \in [Tasks -> Statuses]
                  BY <2>2 DEF QueueType
            <3>2. QED BY <2>1, <3>1, NothingPosted
      <2>5. Tas!QueueBounded'
            BY <1>1, <2>1 DEF Tas!CanQueue, Tas!QueueBounded
      <2>6. QED BY <2>2, <2>3, <2>4, <2>5 DEF QueueInv
<1>2. CASE ~Tas!CanQueue(tasks)
      <2>1. UNCHANGED <<taskStatus, queue, commits>>
            BY <1>2 DEF Tas!QueueTask
      <2>2. QED
            BY <2>1 DEF QueueInv, QueueType, StagedUntouched, PendingIsPosted, Apart, Tas!Posted,
                        Tas!QueueBounded
<1>3. QED BY <1>1, <1>2

\* Posting tasks that are neither posted nor staged keeps it.
LEMMA CommitKeeps ==
  ASSUME Tas!TasksAssumption, QueueInv, NEW tasks \in SUBSET Tasks, NEW summons \in BOOLEAN,
         Tas!Commit(tasks, summons),
         \A t \in tasks : taskStatus[t] # "pending",
         \A e \in staging : e \cap tasks = {}
  PROVE  QueueInv'
<1> DEFINE ofDevice(d) == {t \in tasks : DeviceOf[t] = d}
           new == [requests |-> {ofDevice(d) : d \in {DeviceOf[t] : t \in tasks}},
                   summons |-> summons]
<1>1. /\ queue' = queue \cup tasks /\ Tas!CanQueue(tasks)
      /\ taskStatus' = [t \in Tasks |-> IF t \in tasks THEN "pending" ELSE taskStatus[t]]
      /\ commits' = commits \cup {new} /\ staging' = staging
      BY DEF Tas!Commit
<1>2. new \in Commits
      BY DEF Commits
<1>3. /\ \A r \in new.requests : r \subseteq tasks
      /\ \A r \in new.requests : \A q \in new.requests : r \cap q # {} => r = q
      /\ UNION new.requests = tasks
      <2>1. new.requests = {ofDevice(d) : d \in {DeviceOf[t] : t \in tasks}}
            OBVIOUS
      <2>2. \A r \in new.requests : \E d : r = ofDevice(d)
            BY <2>1
      <2>3. \A t \in tasks : ofDevice(DeviceOf[t]) \in new.requests /\ t \in ofDevice(DeviceOf[t])
            BY <2>1
      <2>4. \A r \in new.requests : r \subseteq tasks
            BY <2>2
      <2>5. ASSUME NEW r \in new.requests, NEW q \in new.requests, r \cap q # {} PROVE r = q
            <3>1. PICK d : r = ofDevice(d)
                  BY <2>2
            <3>2. PICK e : q = ofDevice(e)
                  BY <2>2
            <3>3. d = e
                  BY <2>5, <3>1, <3>2
            <3>4. QED BY <3>1, <3>2, <3>3
      <2>6. UNION new.requests = tasks
            BY <2>3, <2>4
      <2>7. QED BY <2>4, <2>5, <2>6
<1>4. tasks \cap Tas!Posted = {}
      BY DEF QueueInv, PendingIsPosted
<1> HIDE DEF new
<1>5. QueueType'
      BY <1>1, <1>2 DEF QueueInv, QueueType, Statuses
<1>6. StagedUntouched'
      BY <1>1 DEF QueueInv, StagedUntouched, QueueType, Tas!TasksAssumption
<1>7. PendingIsPosted'
      <2>1. Tas!Posted' = Tas!Posted \cup tasks
            BY <1>1, <1>3 DEF Tas!Posted
      <2>2. QED BY <1>1, <2>1 DEF QueueInv, PendingIsPosted
<1>8. Apart'
      <2>1. \A c \in commits : \A r \in c.requests : r \subseteq Tas!Posted
            BY DEF Tas!Posted
      <2>2. QED BY <1>1, <1>3, <1>4, <2>1 DEF QueueInv, Apart
<1>9. Tas!QueueBounded'
      BY <1>1 DEF Tas!CanQueue, Tas!QueueBounded
<1>10. QED BY <1>5, <1>6, <1>7, <1>8, <1>9 DEF QueueInv

\* A request that is answered or fails releases its tasks, and only those.
LEMMA SettledKeeps ==
  ASSUME QueueInv, NEW c \in commits, NEW group \in c.requests, Tas!Settled(c, group),
         taskStatus' \in [Tasks -> Statuses],
         \A t \in Tasks : IF t \in group THEN taskStatus'[t] # "pending"
                                           ELSE taskStatus'[t] = taskStatus[t]
  PROVE  commits' \subseteq Commits /\ PendingIsPosted' /\ Apart'
<1> DEFINE rest == [c EXCEPT !.requests = @ \ {group}]
<1>1. /\ commits' \subseteq (commits \ {c}) \cup {rest}
      /\ commits \ {c} \subseteq commits'
      /\ rest.requests # {} => rest \in commits'
      BY DEF Tas!Settled
<1>2. c \in Commits
      BY DEF QueueInv, QueueType
<1>3. rest \in Commits /\ rest.requests = c.requests \ {group}
      BY <1>2 DEF Commits
<1> HIDE DEF rest
<1>4. commits' \subseteq Commits
      BY <1>1, <1>3 DEF QueueInv, QueueType
<1>5. Apart'
      <2> SUFFICES ASSUME NEW a \in commits', NEW b \in commits',
                          NEW r \in a.requests, NEW q \in b.requests, r \cap q # {}
                   PROVE  a = b /\ r = q
          BY DEF Apart
      <2>1. CASE a = rest /\ b = rest
            BY <1>3, <2>1 DEF QueueInv, Apart
      <2>2. CASE a = rest /\ b \in commits \ {c}
            BY <1>3, <2>2 DEF QueueInv, Apart
      <2>3. CASE a \in commits \ {c} /\ b = rest
            BY <1>3, <2>3 DEF QueueInv, Apart
      <2>4. CASE a \in commits \ {c} /\ b \in commits \ {c}
            BY <2>4 DEF QueueInv, Apart
      <2>5. QED BY <1>1, <2>1, <2>2, <2>3, <2>4
<1>6. Tas!Posted' = Tas!Posted \ group
      <2>1. ASSUME NEW t \in Tas!Posted' PROVE t \in Tas!Posted /\ t \notin group
            <3>1. PICK a \in commits' : \E r \in a.requests : t \in r
                  BY <2>1 DEF Tas!Posted
            <3>2. PICK r \in a.requests : t \in r
                  BY <3>1
            <3>3. CASE a = rest
                  <4>1. r \in c.requests /\ r # group
                        BY <1>3, <3>2, <3>3
                  <4>2. QED BY <3>2, <4>1 DEF QueueInv, Apart, Tas!Posted
            <3>4. CASE a \in commits \ {c}
                  BY <3>2, <3>4 DEF QueueInv, Apart, Tas!Posted
            <3>5. QED BY <1>1, <3>3, <3>4
      <2>2. ASSUME NEW t \in Tas!Posted, t \notin group PROVE t \in Tas!Posted'
            <3>1. PICK a \in commits : \E r \in a.requests : t \in r
                  BY <2>2 DEF Tas!Posted
            <3>2. PICK r \in a.requests : t \in r
                  BY <3>1
            <3>3. CASE a = c
                  BY <1>1, <1>3, <2>2, <3>2, <3>3 DEF Tas!Posted
            <3>4. CASE a # c
                  BY <1>1, <3>2, <3>4 DEF Tas!Posted
            <3>5. QED BY <3>3, <3>4
      <2>3. QED BY <2>1, <2>2
<1>7. PendingIsPosted'
      <2>1. group \subseteq Tas!Posted
            BY DEF Tas!Posted
      <2>2. QED BY <1>6, <2>1 DEF QueueInv, PendingIsPosted
<1>8. QED BY <1>4, <1>5, <1>7

-----------------------------------------------------------------------------
\* The answers of a request.
LEMMA AnswerKeeps ==
  ASSUME Tas!TasksAssumption, QueueInv, NEW c \in commits, NEW group \in c.requests,
         Tas!Answer(c, group) \/ Tas!Fail(c, group)
  PROVE  QueueInv'
<1>1. /\ Tas!Settled(c, group) /\ staging' = staging /\ queue' \subseteq queue
      /\ taskStatus' \in [Tasks -> Statuses]
      /\ \A t \in Tasks : IF t \in group THEN taskStatus'[t] # "pending"
                                           ELSE taskStatus'[t] = taskStatus[t]
      <2>1. CASE Tas!Answer(c, group)
            <3>1. PICK said \in [group -> {"pending", "fault", "done"}] :
                    /\ taskStatus' = [t \in Tasks |->
                                    IF t \in group THEN Tas!AfterAnswer(said[t]) ELSE taskStatus[t]]
                    /\ queue' \subseteq queue
                    /\ Tas!Settled(c, group)
                    /\ UNCHANGED staging
                  BY <2>1 DEF Tas!Answer
            <3>2. \A t \in group : Tas!AfterAnswer(said[t]) \in Statuses \ {"pending"}
                  BY <3>1 DEF Tas!AfterAnswer, Statuses
            <3>3. QED BY <3>1, <3>2 DEF QueueInv, QueueType
      <2>2. CASE Tas!Fail(c, group)
            BY <2>2 DEF Tas!Fail, QueueInv, QueueType, Statuses
      <2>3. QED BY <2>1, <2>2
<1>2. commits' \subseteq Commits /\ PendingIsPosted' /\ Apart'
      BY <1>1, SettledKeeps
<1>3. StagedUntouched'
      <2>1. \A t \in group : t \in Tas!Posted
            BY DEF Tas!Posted
      <2>2. \A e \in staging : \A t \in e : t \in Tasks /\ t \notin group
            BY <2>1 DEF QueueInv, StagedUntouched, PendingIsPosted, QueueType, Tas!TasksAssumption
      <2>3. QED BY <1>1, <2>2 DEF QueueInv, StagedUntouched
<1>4. Tas!QueueBounded'
      BY <1>1, FewerFit DEF QueueInv, Tas!QueueBounded
<1>5. QED BY <1>1, <1>2, <1>3, <1>4 DEF QueueInv, QueueType

\* Every step keeps the invariant.
LEMMA QueueStep ==
  ASSUME Tas!TasksAssumption, QueueInv, [Tas!Next]_Tas!vars
  PROVE  QueueInv'
<1>1. ASSUME NEW t \in Tasks, Tas!QueueDirect(t) PROVE QueueInv'
      <2>1. taskStatus[t] = "none" /\ \A e \in staging : e \cap {t} = {}
            BY <1>1 DEF Tas!QueueDirect, Tas!Used, Tas!TasksAssumption, QueueInv, QueueType
      <2>2. QED BY <1>1, <2>1, QueueTaskKeeps DEF Tas!QueueDirect
<1>2. ASSUME NEW t \in Tasks, Tas!Retry(t) PROVE QueueInv'
      <2>1. taskStatus[t] \in {"fault", "stale"} /\ \A e \in staging : e \cap {t} = {}
            BY <1>2 DEF Tas!Retry, QueueInv, StagedUntouched
      <2>2. QED BY <1>2, <2>1, QueueTaskKeeps DEF Tas!Retry
<1>3. ASSUME NEW t \in Tasks, Tas!CommitSummon(t) PROVE QueueInv'
      <2>1. taskStatus[t] # "pending" /\ \A e \in staging : e \cap {t} = {}
            BY <1>3 DEF Tas!CommitSummon, QueueInv, QueueType, PendingIsPosted, Tas!TasksAssumption
      <2>2. QED BY <1>3, <2>1, CommitKeeps DEF Tas!CommitSummon
<1>4. ASSUME Tas!CommitQueued PROVE QueueInv'
      <2>1. /\ Tas!Queued \subseteq Tasks
            /\ \A t \in Tas!Queued : taskStatus[t] # "pending"
            /\ \A e \in staging : e \cap Tas!Queued = {}
            BY DEF Tas!Queued, QueueInv, QueueType, StagedUntouched
      <2>2. QED BY <1>4, <2>1, CommitKeeps DEF Tas!CommitQueued
<1>5. ASSUME NEW e \in Edits, Tas!QueueStaged(e) PROVE QueueInv'
      <2>1. PICK some \in SUBSET e : Tas!QueueTask(some)
            BY <1>5 DEF Tas!QueueStaged
      <2>2. /\ e \in staging /\ staging' = staging \ {e} /\ commits' = commits
            /\ e \subseteq Tasks
            BY <1>5 DEF Tas!QueueStaged, Tas!TasksAssumption
      <2>3. \A t \in some : taskStatus[t] # "pending"
            BY <2>2 DEF QueueInv, StagedUntouched
      <2>4. \A f \in staging' : f \cap some = {}
            BY <2>2 DEF QueueInv, QueueType, Tas!TasksAssumption
      <2>5. QED BY <2>1, <2>2, <2>3, <2>4, QueueTaskKeeps
<1>6. ASSUME NEW e \in Edits, Tas!Stage(e) \/ Tas!CancelStaged(e) PROVE QueueInv'
      <2>1. /\ UNCHANGED <<taskStatus, queue, commits>>
            /\ staging' \subseteq staging \cup {e}
            /\ e \in staging' => \A t \in e : taskStatus[t] = "none"
            BY <1>6 DEF Tas!Stage, Tas!CancelStaged, Tas!Used, QueueInv, StagedUntouched
      <2>2. QED
            BY <2>1 DEF QueueInv, QueueType, StagedUntouched, PendingIsPosted, Apart, Tas!Posted,
                        Tas!QueueBounded
<1>7. ASSUME UNCHANGED <<taskStatus, staging, commits>>, queue' \subseteq queue PROVE QueueInv'
      <2>1. Tas!QueueBounded'
            BY <1>7, FewerFit DEF QueueInv, Tas!QueueBounded
      <2>2. QED
            BY <1>7, <2>1 DEF QueueInv, QueueType, StagedUntouched, PendingIsPosted, Apart, Tas!Posted
<1>8. CASE Tas!Clear \/ (\E t \in Tasks : Tas!DeleteTask(t)) \/ UNCHANGED Tas!vars
      BY <1>7, <1>8 DEF Tas!Clear, Tas!DeleteTask, Tas!vars
<1>9. QED
      BY <1>1, <1>2, <1>3, <1>4, <1>5, <1>6, <1>8, AnswerKeeps DEF Tas!Next

\* At first nothing is queued.
LEMMA QueueInit ==
  ASSUME Tas!TasksAssumption
  PROVE  Tas!Init => QueueInv
<1> SUFFICES ASSUME Tas!Init PROVE QueueInv
    OBVIOUS
<1>1. Tas!Cardinality({}) = 0
      BY FS_EmptySet, SameCount
<1>2. QED
      BY <1>1 DEF Tas!Init, QueueInv, QueueType, StagedUntouched, PendingIsPosted, Apart, Tas!Posted,
                  Tas!QueueBounded, Statuses, Tas!TasksAssumption

LEMMA QueueByInvariant ==
  ASSUME Tas!TasksAssumption
  PROVE  QueueInv => Tas!QueueSound
BY DEF QueueInv, Tas!QueueSound, Tas!PendingInOneRequest, PendingIsPosted, Apart

\* Tasks that are committed while others are under way, removed, retried or staged are posted
\* by one request at a time, and the queue is bounded (commit, canQueue).
THEOREM QueueAlwaysSound ==
  ASSUME Tas!TasksAssumption
  PROVE  Tas!Spec => []Tas!QueueSound
<1>1. QueueInv /\ [Tas!Next]_Tas!vars => QueueInv'
      BY QueueStep
<1>2. QED BY QueueInit, <1>1, QueueByInvariant, PTL DEF Tas!Spec

-----------------------------------------------------------------------------
\* Configuration (Admin): what is stored, what the interfaces have snapshots of.
\* What the functions and records that the steps of Admin change in part are defined for.
Fields == {"op", "resource", "id", "body", "pc", "todo", "status"}
AdminType ==
    /\ DOMAIN store = Adm!Resources
    /\ DOMAIN known = Adm!Hashes
    /\ DOMAIN request = Adm!Clients
    /\ \A c \in Adm!Clients : DOMAIN request[c] = Fields

\* Only a change that is written has hashes left to remove, and nothing but files is uploaded.
TodoIsAnnounced ==
    \A c \in Adm!Clients :
        /\ request[c].pc # "announce" => request[c].todo = {}
        /\ request[c].pc \in {"write", "announce"} => request[c].op # "upload"
        /\ request[c].op = "upload" => request[c].resource = "files"

AnnouncedInv == AdminType /\ TodoIsAnnounced /\ Adm!Announced

\* What a step makes of the request of a client.
Becomes(c, to, todo) ==
    /\ DOMAIN request' = Adm!Clients
    /\ \A d \in Adm!Clients \ {c} : request'[d] = request[d]
    /\ DOMAIN request'[c] = Fields
    /\ request'[c].pc = to /\ request'[c].todo = todo

SameChange(c) == request'[c].op = request[c].op /\ request'[c].resource = request[c].resource

LEMMA CollectionsAreResources == \A h \in Adm!Hashes : Adm!Collections[h] \subseteq Adm!Resources
BY DEF Adm!Collections, Adm!Hashes

\* A request goes on, and is answered.
LEMMA MoveBecomes ==
  ASSUME AdminType, NEW c \in Adm!Clients, NEW to,
         \/ Adm!Move(c, to)
         \/ to = "answered" /\ \E code : Adm!Answer(c, code)
  PROVE  Becomes(c, to, request[c].todo) /\ SameChange(c)
<1>1. CASE Adm!Move(c, to)
      BY <1>1 DEF Adm!Move, AdminType, Fields, Becomes, SameChange
<1>2. CASE to = "answered" /\ \E code : Adm!Answer(c, code)
      BY <1>2 DEF Adm!Answer, AdminType, Fields, Becomes, SameChange
<1>3. QED BY <1>1, <1>2

\* A snapshot that is withdrawn or made, and files that change, announce nothing and withdraw
\* nothing that has to be announced.
LEMMA KnownKeeps ==
  ASSUME AnnouncedInv, NEW c \in Adm!Clients, NEW to, to # "announce",
         Becomes(c, to, {}), request[c].todo = {},
         request'[c].op = "upload" => to # "write" /\ request'[c].resource = "files",
         DOMAIN store' = Adm!Resources, DOMAIN known' = Adm!Hashes,
         \A r \in Adm!Resources \ {"files"} : store'[r] = store[r],
         \A h \in Adm!Hashes : known'[h] \subseteq known[h] \cup {Adm!Content(h)}
  PROVE  AnnouncedInv'
<1>1. AdminType'
      BY DEF AnnouncedInv, AdminType, Becomes
<1>2. TodoIsAnnounced'
      BY DEF AnnouncedInv, TodoIsAnnounced, Becomes
<1>3. ASSUME NEW h \in Adm!Hashes, NEW k \in known'[h], NEW r \in Adm!Collections[h] \ {"files"}
      PROVE  k[r] = store'[r] \/ \E d \in Adm!Clients : request'[d].resource = r /\ h \in request'[d].todo
      <2>1. store'[r] = store[r]
            BY CollectionsAreResources
      <2>2. CASE k = Adm!Content(h)
            BY <2>1, <2>2 DEF Adm!Content
      <2>3. CASE k \in known[h] /\ k[r] = store[r]
            BY <2>1, <2>3
      <2>4. CASE k \in known[h] /\ k[r] # store[r]
            <3>1. PICK d \in Adm!Clients : request[d].resource = r /\ h \in request[d].todo
                  BY <2>4 DEF AnnouncedInv, Adm!Announced
            <3>2. d # c
                  BY <3>1
            <3>3. QED BY <3>1, <3>2 DEF Becomes
      <2>5. QED BY <2>2, <2>3, <2>4
<1>4. Adm!Announced'
      BY <1>3 DEF Adm!Announced
<1>5. QED BY <1>1, <1>2, <1>4 DEF AnnouncedInv

\* A request that goes on without having written or removed a file.
LEMMA MovedKeeps ==
  ASSUME AnnouncedInv, NEW c \in Adm!Clients, NEW to, to # "announce",
         to = "write" => request[c].op # "upload",
         request[c].pc # "announce" \/ request[c].todo = {},
         \/ Adm!Move(c, to)
         \/ to = "answered" /\ \E code : Adm!Answer(c, code),
         DOMAIN store' = Adm!Resources, known' = known,
         \A r \in Adm!Resources \ {"files"} : store'[r] = store[r]
  PROVE  AnnouncedInv'
<1>1. Becomes(c, to, request[c].todo) /\ SameChange(c)
      BY MoveBecomes DEF AnnouncedInv
<1>2. request[c].todo = {} /\ (request[c].op = "upload" => request[c].resource = "files")
      BY DEF AnnouncedInv, TodoIsAnnounced
<1>3. DOMAIN known' = Adm!Hashes
      BY DEF AnnouncedInv, AdminType
<1>4. QED BY <1>1, <1>2, <1>3, KnownKeeps DEF SameChange

\* A new request, which may come with a new snapshot.
LEMMA AskedKeeps ==
  ASSUME AnnouncedInv, NEW c \in Adm!Clients, NEW resource, NEW op \in Adm!Ops(resource), NEW id, NEW body,
         Adm!Asked(c, op, resource, id, body),
         known' = known \/ Adm!Refresh("ui")
  PROVE  AnnouncedInv'
<1>1. Becomes(c, "arrived", {}) /\ request'[c].op = op /\ request'[c].resource = resource
      <2>1. request' = [request EXCEPT ![c] = [Adm!NoRequest EXCEPT
                           !.op = op, !.resource = resource, !.id = id, !.body = body, !.pc = "arrived"]]
            BY DEF Adm!Asked
      <2>2. DOMAIN request = Adm!Clients
            BY DEF AnnouncedInv, AdminType
      <2>3. QED BY <2>1, <2>2 DEF Adm!NoRequest, Becomes, Fields
<1>2. request[c].todo = {} /\ store' = store
      BY DEF Adm!Asked, AnnouncedInv, TodoIsAnnounced
<1>3. op = "upload" => resource = "files"
      BY DEF Adm!Ops
<1>4. DOMAIN known' = Adm!Hashes /\ \A h \in Adm!Hashes : known'[h] \subseteq known[h] \cup {Adm!Content(h)}
      BY DEF Adm!Refresh, AnnouncedInv, AdminType, Adm!Hashes
<1>5. DOMAIN store' = Adm!Resources
      BY <1>2 DEF AnnouncedInv, AdminType
<1>6. QED BY <1>1, <1>2, <1>3, <1>4, <1>5, KnownKeeps

\* A change that is written, or refused: the hashes of what it is part of are to be removed.
LEMMA WriteKeeps ==
  ASSUME AnnouncedInv, NEW c \in Adm!Clients, Adm!Write(c)
  PROVE  AnnouncedInv'
<1> DEFINE q == request[c]
           todo == Adm!Announces(c, q.op, q.resource)
<1>1. q.pc = "write" /\ q.op # "upload" /\ q.todo = {} /\ known' = known
      BY DEF Adm!Write, AnnouncedInv, TodoIsAnnounced
<1>2. CASE Adm!Answer(c, 400) /\ store' = store
      <2>1. DOMAIN store' = Adm!Resources
            BY <1>2 DEF AnnouncedInv, AdminType
      <2>2. QED BY <1>1, <1>2, <2>1, MovedKeeps
<1>3. ASSUME NEW new, store' = [store EXCEPT ![q.resource][q.id] = new],
             request' = [request EXCEPT ![c].pc = "announce", ![c].todo = todo]
      PROVE  AnnouncedInv'
      <2>1. DOMAIN store = Adm!Resources /\ DOMAIN known = Adm!Hashes /\ DOMAIN request = Adm!Clients
            /\ DOMAIN q = Fields /\ \A d \in Adm!Clients : DOMAIN request[d] = Fields
            BY DEF AnnouncedInv, AdminType
      <2> HIDE DEF todo
      <2>2. Becomes(c, "announce", todo) /\ SameChange(c)
            BY <1>3, <2>1 DEF Becomes, SameChange, Fields
      <2>3. AdminType'
            BY <1>1, <1>3, <2>1, <2>2 DEF AdminType, Becomes
      <2>4. TodoIsAnnounced'
            BY <1>1, <2>2 DEF AnnouncedInv, TodoIsAnnounced, Becomes, SameChange
      <2>5. ASSUME NEW h \in Adm!Hashes, NEW k \in known'[h], NEW r \in Adm!Collections[h] \ {"files"}
            PROVE  k[r] = store'[r] \/ \E d \in Adm!Clients : request'[d].resource = r /\ h \in request'[d].todo
            <3>1. CASE r = q.resource
                  <4>1. h \in todo
                        BY <1>1, <3>1 DEF todo, Adm!Announces
                  <4>2. QED BY <2>2, <3>1, <4>1 DEF Becomes, SameChange
            <3>2. CASE r # q.resource
                  <4>1. store'[r] = store[r]
                        BY <1>3, <2>1, <3>2, CollectionsAreResources
                  <4>2. CASE k[r] = store[r]
                        BY <4>1, <4>2
                  <4>3. CASE k[r] # store[r]
                        <5>1. PICK d \in Adm!Clients : request[d].resource = r /\ h \in request[d].todo
                              BY <1>1, <4>3 DEF AnnouncedInv, Adm!Announced
                        <5>2. d # c
                              BY <3>2, <5>1
                        <5>3. QED BY <2>2, <5>1, <5>2 DEF Becomes
                  <4>4. QED BY <4>2, <4>3
            <3>3. QED BY <3>1, <3>2
      <2>6. Adm!Announced'
            BY <2>5 DEF Adm!Announced
      <2>7. QED BY <2>3, <2>4, <2>6 DEF AnnouncedInv
<1>4. QED BY <1>2, <1>3 DEF Adm!Write

\* A hash that is removed from the cache stands for no snapshot, so none is due for it.
LEMMA AnnounceKeeps ==
  ASSUME AnnouncedInv, NEW c \in Adm!Clients, Adm!Announce(c)
  PROVE  AnnouncedInv'
<1> DEFINE q == request[c]
<1>1. q.pc = "announce" /\ store' = store
      BY DEF Adm!Announce
<1>2. DOMAIN store = Adm!Resources /\ DOMAIN known = Adm!Hashes /\ DOMAIN request = Adm!Clients
      /\ DOMAIN q = Fields /\ \A d \in Adm!Clients : DOMAIN request[d] = Fields
      BY DEF AnnouncedInv, AdminType
<1>3. CASE q.todo = {}
      <2>1. Adm!Answer(c, 200) /\ known' = known
            BY <1>3 DEF Adm!Announce
      <2>2. DOMAIN store' = Adm!Resources
            BY <1>1, <1>2
      <2>3. QED BY <1>1, <1>3, <2>1, <2>2, MovedKeeps
<1>4. ASSUME NEW h \in q.todo,
             known' = [known EXCEPT ![h] = {}],
             request' = [request EXCEPT ![c].todo = @ \ {h}]
      PROVE  AnnouncedInv'
      <2>1. Becomes(c, "announce", q.todo \ {h}) /\ SameChange(c)
            BY <1>1, <1>2, <1>4 DEF Becomes, SameChange, Fields
      <2>2. AdminType'
            BY <1>1, <1>2, <1>4, <2>1 DEF AdminType, Becomes
      <2>3. TodoIsAnnounced'
            BY <1>1, <2>1 DEF AnnouncedInv, TodoIsAnnounced, Becomes, SameChange
      <2>4. ASSUME NEW g \in Adm!Hashes, NEW k \in known'[g], NEW r \in Adm!Collections[g] \ {"files"}
            PROVE  k[r] = store'[r] \/ \E d \in Adm!Clients : request'[d].resource = r /\ g \in request'[d].todo
            <3>1. g # h /\ k \in known[g]
                  BY <1>2, <1>4
            <3>2. CASE k[r] = store[r]
                  BY <1>1, <3>2
            <3>3. CASE k[r] # store[r]
                  <4>1. PICK d \in Adm!Clients : request[d].resource = r /\ g \in request[d].todo
                        BY <3>1, <3>3 DEF AnnouncedInv, Adm!Announced
                  <4>2. request'[d].resource = r /\ g \in request'[d].todo
                        BY <2>1, <3>1, <4>1 DEF Becomes, SameChange
                  <4>3. QED BY <4>2
            <3>4. QED BY <3>2, <3>3
      <2>5. Adm!Announced'
            BY <2>4 DEF Adm!Announced
      <2>6. QED BY <2>2, <2>3, <2>5 DEF AnnouncedInv
<1>5. QED BY <1>3, <1>4 DEF Adm!Announce

\* Nothing but what is known changes, or nothing at all.
LEMMA SnapshotKeeps ==
  ASSUME AnnouncedInv, UNCHANGED <<store, request>>,
         known' = known \/ \E h \in Adm!Hashes : Adm!Refresh(h)
  PROVE  AnnouncedInv'
<1>1. DOMAIN known' = Adm!Hashes /\ \A h \in Adm!Hashes : known'[h] \subseteq known[h] \cup {Adm!Content(h)}
      BY DEF Adm!Refresh, AnnouncedInv, AdminType
<1>2. AdminType' /\ TodoIsAnnounced'
      BY <1>1 DEF AnnouncedInv, AdminType, TodoIsAnnounced
<1>3. Adm!Announced'
      <2> SUFFICES ASSUME NEW h \in Adm!Hashes, NEW k \in known'[h], NEW r \in Adm!Collections[h] \ {"files"}
                   PROVE  k[r] = store[r] \/ \E d \in Adm!Clients : request[d].resource = r /\ h \in request[d].todo
          BY DEF Adm!Announced
      <2>1. CASE k \in known[h]
            BY <2>1 DEF AnnouncedInv, Adm!Announced
      <2>2. CASE k = Adm!Content(h)
            BY <2>2 DEF Adm!Content
      <2>3. QED BY <1>1, <2>1, <2>2
<1>4. QED BY <1>2, <1>3 DEF AnnouncedInv

LEMMA AnnouncedStep == AnnouncedInv /\ [Adm!Next]_Adm!vars => AnnouncedInv'
<1> SUFFICES ASSUME AnnouncedInv, [Adm!Next]_Adm!vars
             PROVE  AnnouncedInv'
    OBVIOUS
<1>1. DOMAIN store = Adm!Resources /\ UiClients \subseteq Adm!Clients /\ NbiClients \subseteq Adm!Clients
      BY DEF AnnouncedInv, AdminType, Adm!Clients
<1>2. CASE Adm!Inform
      BY <1>2, SnapshotKeeps DEF Adm!Inform, Adm!Hashes
<1>3. CASE \E c \in UiClients : Adm!AskUi(c)
      BY <1>1, <1>3, AskedKeeps DEF Adm!AskUi
<1>4. CASE \E c \in NbiClients : Adm!AskNbi(c)
      BY <1>1, <1>4, AskedKeeps DEF Adm!AskNbi
<1>5. ASSUME NEW c \in UiClients, Adm!CheckUi(c)
      PROVE  AnnouncedInv'
      <2>1. UNCHANGED <<store, known>> /\ request[c].pc = "arrived"
            BY <1>5 DEF Adm!CheckUi
      <2>2. \/ \E code : Adm!Answer(c, code)
            \/ request[c].op # "upload" /\ Adm!Move(c, "write")
            \/ Adm!Move(c, "remove")
            BY <1>5 DEF Adm!CheckUi
      <2>3. QED BY <1>1, <2>1, <2>2, MovedKeeps
<1>6. ASSUME NEW c \in NbiClients, Adm!CheckNbi(c)
      PROVE  AnnouncedInv'
      <2>1. UNCHANGED <<store, known>> /\ request[c].pc = "arrived"
            BY <1>6 DEF Adm!CheckNbi
      <2>2. \/ \E code : Adm!Answer(c, code)
            \/ request[c].op # "upload" /\ Adm!Move(c, "write")
            \/ Adm!Move(c, "remove")
            BY <1>6 DEF Adm!CheckNbi
      <2>3. QED BY <1>1, <2>1, <2>2, MovedKeeps
<1>7. CASE \E c \in UiClients : Adm!CutOff(c)
      BY <1>1, <1>7, MovedKeeps DEF Adm!CutOff
<1>8. CASE \/ \E c \in UiClients, resource \in Adm!Resources : Adm!Read(c, resource)
           \/ \E c \in NbiClients, resource \in Adm!Resources : Adm!Query(c, resource)
      BY <1>8, SnapshotKeeps DEF Adm!Read, Adm!Query
<1>9. CASE \E c \in Adm!Clients : Adm!Write(c) \/ Adm!Announce(c)
      BY <1>9, WriteKeeps, AnnounceKeeps
<1>10. CASE \E c \in Adm!Clients : Adm!Remove(c)
      BY <1>1, <1>10, MovedKeeps DEF Adm!Remove
<1>11. CASE \E c \in Adm!Clients : Adm!Upload(c)
      BY <1>1, <1>11, MovedKeeps DEF Adm!Upload
<1>12. CASE UNCHANGED Adm!vars
      BY <1>12, SnapshotKeeps DEF Adm!vars
<1>13. QED
      BY <1>2, <1>3, <1>4, <1>5, <1>6, <1>7, <1>8, <1>9, <1>10, <1>11, <1>12 DEF Adm!Next

\* At first nobody has a snapshot.
LEMMA AnnouncedInit ==
  Adm!Init => AnnouncedInv
BY DEF Adm!Init, AnnouncedInv, AdminType, TodoIsAnnounced, Adm!Announced, Adm!NoRequest, Fields

\* Where a snapshot that is in use differs from what is stored, a request that changed it is
\* about to withdraw it: every change through either interface removes the hashes of what it is
\* part of when it is written, except a change of files (del of "presets_hash" and the others).
THEOREM ChangesAlwaysAnnounced == Adm!Spec => []Adm!Announced
<1>1. AnnouncedInv => Adm!Announced
      BY DEF AnnouncedInv
<1>2. QED BY AnnouncedInit, <1>1, AnnouncedStep, PTL DEF Adm!Spec

-----------------------------------------------------------------------------
\* Presets that are shown and sent again

LEMMA SignedWord ==
  ASSUME NEW v \in Adm!Word
  PROVE  [v EXCEPT !.dashes = @ + 1] = [space |-> v.space, dashes |-> v.dashes + 1, text |-> v.text]
BY DEF Adm!Word

\* The words of one event that is legible are one, which is read as the event.
LEMMA WordReturns ==
  ASSUME NEW events, Adm!Legible(events), NEW k \in DOMAIN events
  PROVE  \E w : /\ Adm!ShownWords(k, events[k]) = {w}
                /\ Adm!EventOf(w) = [name |-> k, happens |-> events[k]]
<1> DEFINE v == k[1]
           w == IF events[k] THEN v ELSE [v EXCEPT !.dashes = @ + 1]
<1>1. /\ k = <<v>> /\ v \in Adm!Word /\ v.space = FALSE
      /\ events[k] \in BOOLEAN /\ (v.dashes > 0 => ~events[k])
      BY DEF Adm!Legible, Adm!Word
<1>2. v = [space |-> FALSE, dashes |-> v.dashes, text |-> v.text] /\ v.dashes \in Nat
      BY <1>1 DEF Adm!Word
<1>3. Adm!ShownWords(k, events[k]) = {w}
      <2>1. DOMAIN k = {1} /\ k[1] = v
            BY <1>1
      <2> HIDE DEF v
      <2>2. Adm!ShownWords(k, events[k]) = {IF 1 = 1 /\ ~events[k] THEN [k[1] EXCEPT !.dashes = @ + 1] ELSE k[1]}
            BY <2>1 DEF Adm!ShownWords
      <2>3. QED BY <1>1, <2>1, <2>2
<1> HIDE DEF v
<1>4. CASE events[k] = TRUE
      <2>1. w = v /\ v.dashes = 0
            BY <1>1, <1>2, <1>4
      <2>2. Adm!EventOf(v) = [name |-> <<v>>, happens |-> TRUE]
            BY <1>2, <2>1 DEF Adm!EventOf
      <2> HIDE DEF w
      <2>3. Adm!EventOf(w) = [name |-> k, happens |-> events[k]]
            BY <1>1, <1>4, <2>1, <2>2
      <2>4. QED BY <1>3, <2>3
<1>5. CASE events[k] = FALSE
      <2> DEFINE signed == [v EXCEPT !.dashes = @ + 1]
      <2>1. w = signed /\ signed = [space |-> FALSE, dashes |-> v.dashes + 1, text |-> v.text]
            <3>1. signed = [space |-> FALSE, dashes |-> v.dashes + 1, text |-> v.text]
                  BY <1>1, SignedWord
            <3> HIDE DEF signed
            <3>2. w = signed
                  BY <1>5 DEF signed
            <3>3. QED BY <3>1, <3>2
      <2>2. w.dashes # 0 /\ w.dashes - 1 = v.dashes /\ w.text = v.text
            BY <1>2, <2>1
      <2> HIDE DEF w
      <2>3. Adm!EventOf(w) = [name |-> <<v>>, happens |-> FALSE]
            BY <1>2, <2>2 DEF Adm!EventOf
      <2>4. QED BY <1>1, <1>3, <1>5, <2>3
<1>6. QED BY <1>1, <1>4, <1>5

\* What the text of legible events is read as are those events.
LEMMA EventsReturn ==
  ASSUME NEW events, Adm!Legible(events), NEW new \in Adm!ReadEvents(Adm!ShownEvents(events))
  PROVE  new = events
<1> DEFINE words == Adm!ShownEvents(events)
           read == {e \in {Adm!EventOf(w) : w \in words} : e.name # Adm!Nameless}
           names == {e.name : e \in read}
<1>1. new \in [names -> BOOLEAN] /\ \A k \in DOMAIN new : [name |-> k, happens |-> new[k]] \in read
      BY DEF Adm!ReadEvents
<1>2. ASSUME NEW e \in read
      PROVE  e.name \in DOMAIN events /\ e.happens = events[e.name]
      <2>1. PICK w \in words : e = Adm!EventOf(w)
            OBVIOUS
      <2>2. PICK k \in DOMAIN events : w \in Adm!ShownWords(k, events[k])
            BY <2>1 DEF Adm!ShownEvents
      <2>3. e = [name |-> k, happens |-> events[k]]
            BY <2>1, <2>2, WordReturns
      <2>4. QED BY <2>3
<1>3. ASSUME NEW k \in DOMAIN events
      PROVE  k \in names
      <2>1. PICK w : /\ Adm!ShownWords(k, events[k]) = {w}
                     /\ Adm!EventOf(w) = [name |-> k, happens |-> events[k]]
            BY WordReturns
      <2>2. w \in words
            BY <2>1 DEF Adm!ShownEvents
      <2>3. k # Adm!Nameless /\ Adm!EventOf(w).name = k
            BY <2>1 DEF Adm!Legible
      <2>4. Adm!EventOf(w) \in read
            BY <2>2, <2>3
      <2> HIDE DEF read
      <2>5. QED BY <2>3, <2>4
<1> HIDE DEF read
<1>4. names = DOMAIN events
      BY <1>2, <1>3
<1>5. ASSUME NEW k \in DOMAIN events
      PROVE  new[k] = events[k]
      <2>1. [name |-> k, happens |-> new[k]] \in read
            BY <1>1, <1>4
      <2>2. QED BY <1>2, <2>1
<1>6. events \in [DOMAIN events -> BOOLEAN]
      BY DEF Adm!Legible
<1>7. QED BY <1>1, <1>4, <1>5, <1>6

\* Whatever text is read, its events are legible.
LEMMA ReadIsLegible ==
  ASSUME NEW words, words \subseteq Adm!Word, NEW events \in Adm!ReadEvents(words)
  PROVE  Adm!Legible(events)
<1> DEFINE read == {e \in {Adm!EventOf(w) : w \in words} : e.name # Adm!Nameless}
<1>1. /\ events \in [{e.name : e \in read} -> BOOLEAN]
      /\ \A k \in DOMAIN events : [name |-> k, happens |-> events[k]] \in read
      BY DEF Adm!ReadEvents
<1>2. ASSUME NEW k \in DOMAIN events
      PROVE  /\ Len(k) = 1 /\ k = <<k[1]>> /\ k # Adm!Nameless
             /\ k[1] \in Adm!Word /\ ~k[1].space
             /\ k[1].dashes > 0 => ~events[k]
      <2>1. PICK w \in words : /\ [name |-> k, happens |-> events[k]] = Adm!EventOf(w)
                               /\ Adm!EventOf(w).name # Adm!Nameless
            BY <1>1
      <2> DEFINE v == [space |-> FALSE, dashes |-> IF w.dashes = 0 THEN 0 ELSE w.dashes - 1,
                       text |-> w.text]
      <2>2. w.dashes \in Nat /\ w.text \in STRING
            BY DEF Adm!Word
      <2>3. k = <<v>> /\ events[k] = (w.dashes = 0) /\ k # Adm!Nameless
            <3>1. Adm!EventOf(w) = [name |-> <<v>>, happens |-> w.dashes = 0]
                  BY DEF Adm!EventOf
            <3> HIDE DEF v
            <3>2. QED BY <2>1, <3>1
      <2>4. v \in Adm!Word /\ ~v.space /\ (v.dashes > 0 => w.dashes # 0)
            BY <2>2 DEF Adm!Word
      <2> HIDE DEF v
      <2>5. Len(k) = 1 /\ k[1] = v
            BY <2>3
      <2>6. QED BY <2>3, <2>4, <2>5
<1> HIDE DEF read
<1>3. QED BY <1>1, <1>2 DEF Adm!Legible

LEMMA LegibleAreEvents ==
  ASSUME NEW events, Adm!Legible(events)
  PROVE  Adm!IsEvents(events)
<1>1. ASSUME NEW k \in DOMAIN events
      PROVE  k \in Seq(Adm!Word)
      <2>1. k = <<k[1]>> /\ k[1] \in Adm!Word
            BY DEF Adm!Legible
      <2> DEFINE w == k[1]
      <2>2. w \in Adm!Word /\ k = <<w>>
            BY <2>1
      <2> HIDE DEF w
      <2>3. QED BY <2>2
<1>2. QED BY <1>1 DEF Adm!Legible, Adm!IsEvents

\* The text of events is made of words.
LEMMA ShownAreWords ==
  ASSUME NEW events, Adm!IsEvents(events)
  PROVE  Adm!ShownEvents(events) \subseteq Adm!Word
<1> SUFFICES ASSUME NEW k \in DOMAIN events, NEW w \in Adm!ShownWords(k, events[k])
             PROVE  w \in Adm!Word
    BY DEF Adm!ShownEvents
<1>1. PICK i \in DOMAIN k : w = IF i = 1 /\ ~events[k] THEN [k[1] EXCEPT !.dashes = @ + 1] ELSE k[i]
      BY DEF Adm!ShownWords
<1>2. k[i] \in Adm!Word /\ (i = 1 => k[1] \in Adm!Word)
      BY DEF Adm!IsEvents
<1>3. QED BY <1>1, <1>2 DEF Adm!Word

\* Arguments that were parsed are parsed as themselves.
LEMMA ParsedOnce ==
  ASSUME NEW args, Adm!Parses(args), DOMAIN args # {}
  PROVE  /\ DOMAIN Adm!Parsed(args) # {} /\ Adm!Parses(Adm!Parsed(args))
         /\ Adm!Parsed(Adm!Parsed(args)) = Adm!Parsed(args)
BY DEF Adm!Parses, Adm!Parsed

\* Whatever the user interface is sent becomes a preset in its form.
LEMMA PreProcessedForm ==
  ASSUME NEW p, p.events \subseteq Adm!Word, NEW d \in Adm!PreProcessPreset(p)
  PROVE  Adm!UiForm(d)
<1> DEFINE parsed == {Adm!Parsed(args) : args \in Adm!Given(p.provisionArgs)}
<1>1. PICK name \in Adm!Provisions(p), events \in Adm!ReadEvents(p.events) :
         d = Adm!Document(p, name, events)
      BY DEF Adm!PreProcessPreset
<1>2. /\ p.precondition \notin {"old", "bad"} /\ name # ""
      /\ \A args \in p.provisionArgs : Adm!Parses(args)
      BY <1>1 DEF Adm!Provisions
<1>3. ASSUME NEW new \in parsed
      PROVE  DOMAIN new # {} /\ Adm!Parses(new) /\ Adm!Parsed(new) = new
      <2>1. PICK args \in Adm!Given(p.provisionArgs) : new = Adm!Parsed(args)
            OBVIOUS
      <2>2. Adm!Parses(args) /\ DOMAIN args # {}
            BY <1>2 DEF Adm!Given
      <2>3. QED BY <2>1, <2>2, ParsedOnce
<1>4. Adm!Legible(events)
      BY ReadIsLegible
<1> DEFINE conf == [type |-> "provision", name |-> name, args |-> parsed]
<1>5. /\ d = [precondition |-> d.precondition, weight |-> d.weight, events |-> d.events,
              configurations |-> d.configurations]
      /\ d.weight = [as |-> "number", value |-> d.weight.value]
      /\ d.precondition = p.precondition /\ d.events = events /\ d.configurations = {<<conf>>}
      BY <1>1 DEF Adm!Document
<1>6. conf = [type |-> "provision", name |-> conf.name, args |-> conf.args] /\ conf.name = name
      /\ conf.args = parsed
      OBVIOUS
<1> HIDE DEF conf, parsed
<1>7. <<conf>>[1] = conf
      OBVIOUS
<1>8. QED BY <1>2, <1>3, <1>4, <1>5, <1>6, <1>7 DEF Adm!UiForm

\* What is shown of a preset is what its configurations say.
LEMMA FlattenedFields ==
  ASSUME NEW d, NEW p \in Adm!FlattenPreset(d)
  PROVE  /\ p.precondition = Adm!Expression(d.precondition) /\ p.weight = d.weight
         /\ p.events = Adm!ShownEvents(d.events)
         /\ \E conf \in d.configurations :
               /\ p.provision = {c.name : c \in Adm!Single(conf)}
               /\ p.provisionArgs = UNION {Adm!Given(c.args) : c \in Adm!Single(conf)}
BY DEF Adm!FlattenPreset

\* A preset in the form of the user interface has one provision, which is shown.
LEMMA FormIsSingle ==
  ASSUME NEW d, Adm!UiForm(d), NEW conf \in d.configurations
  PROVE  \E c : /\ Adm!Single(conf) = {c} /\ d.configurations = {<<c>>}
                /\ c = [type |-> "provision", name |-> c.name, args |-> c.args] /\ c.name # ""
                /\ \A args \in c.args : DOMAIN args # {} /\ Adm!Parses(args) /\ Adm!Parsed(args) = args
<1> DEFINE c == conf[1]
<1>1. /\ d.configurations = {conf}
      /\ conf = <<[type |-> "provision", name |-> c.name, args |-> c.args]>> /\ c.name # ""
      /\ \A args \in c.args : DOMAIN args # {} /\ Adm!Parses(args) /\ Adm!Parsed(args) = args
      BY DEF Adm!UiForm
<1>2. conf = <<c>> /\ c = [type |-> "provision", name |-> c.name, args |-> c.args]
      <2> DEFINE r == [type |-> "provision", name |-> c.name, args |-> c.args]
      <2>1. conf = <<r>>
            BY <1>1
      <2> HIDE DEF r
      <2>2. conf[1] = r
            BY <2>1
      <2>3. QED BY <2>1, <2>2 DEF r
<1>3. c.type = "provision"
      BY <1>2
<1>4. Len(conf) = 1 /\ DOMAIN conf = {1}
      BY <1>2
<1> HIDE DEF c
<1>5. {conf[i] : i \in DOMAIN conf} = {c}
      BY <1>4 DEF c
<1>6. Adm!Single(conf) = {c}
      BY <1>1, <1>3, <1>4, <1>5 DEF Adm!Single
<1>7. QED BY <1>1, <1>2, <1>6

\* What is sent as a preset was shown becomes what it was, so far as that was said.
LEMMA PresetReturns ==
  ASSUME NEW d, NEW p \in Adm!FlattenPreset(d), NEW new \in Adm!PreProcessPreset(p)
  PROVE  Adm!IsPutBack(d, new)
<1> DEFINE parsed == {Adm!Parsed(args) : args \in Adm!Given(p.provisionArgs)}
<1>1. PICK name \in Adm!Provisions(p), events \in Adm!ReadEvents(p.events) :
         new = Adm!Document(p, name, events)
      BY DEF Adm!PreProcessPreset
<1>2. new.precondition = Adm!Expression(d.precondition) /\ new.weight.value = d.weight.value
      /\ new.events = events
      BY <1>1, FlattenedFields DEF Adm!Document
<1>3. Adm!Legible(d.events) => new.events = d.events
      BY <1>1, <1>2, FlattenedFields, EventsReturn
<1>4. ASSUME Adm!UiForm(d)
      PROVE  new = d
      <2>1. PICK conf \in d.configurations :
               /\ p.provision = {c.name : c \in Adm!Single(conf)}
               /\ p.provisionArgs = UNION {Adm!Given(c.args) : c \in Adm!Single(conf)}
            BY FlattenedFields
      <2>2. PICK c : /\ Adm!Single(conf) = {c} /\ d.configurations = {<<c>>}
                     /\ c = [type |-> "provision", name |-> c.name, args |-> c.args] /\ c.name # ""
                     /\ \A args \in c.args : DOMAIN args # {} /\ Adm!Parses(args) /\ Adm!Parsed(args) = args
            BY <1>4, FormIsSingle
      <2>3. name = c.name
            BY <1>1, <2>1, <2>2 DEF Adm!Provisions
      <2>4. Adm!Given(p.provisionArgs) = c.args
            <3>1. Adm!Given(c.args) = c.args
                  BY <2>2 DEF Adm!Given
            <3>2. p.provisionArgs = Adm!Given(c.args)
                  BY <2>1, <2>2
            <3>3. QED BY <3>1, <3>2
      <2>5. parsed = c.args
            BY <2>2, <2>4
      <2> HIDE DEF parsed
      <2>6. [type |-> "provision", name |-> name, args |-> parsed] = c
            BY <2>2, <2>3, <2>5
      <2>7. /\ d = [precondition |-> d.precondition, weight |-> d.weight, events |-> d.events,
                    configurations |-> d.configurations]
            /\ d.weight = [as |-> "number", value |-> d.weight.value]
            /\ d.precondition \notin {"old", "bad"} /\ Adm!Legible(d.events)
            BY <1>4 DEF Adm!UiForm
      <2>8. Adm!Expression(d.precondition) = d.precondition
            BY <2>7 DEF Adm!Expression
      <2>9. new.weight = d.weight /\ new.configurations = d.configurations
            <3>1. p.weight = d.weight
                  BY FlattenedFields
            <3>2. new.configurations = {<<[type |-> "provision", name |-> name, args |-> parsed]>>}
                  BY <1>1 DEF Adm!Document, parsed
            <3>3. new.weight = [as |-> "number", value |-> p.weight.value]
                  BY <1>1 DEF Adm!Document
            <3>4. QED BY <2>2, <2>6, <2>7, <3>1, <3>2, <3>3
      <2>10. new = [precondition |-> new.precondition, weight |-> new.weight, events |-> new.events,
                    configurations |-> new.configurations]
            BY <1>1 DEF Adm!Document
      <2>11. QED BY <1>2, <1>3, <2>7, <2>8, <2>9, <2>10
<1>5. QED BY <1>2, <1>3, <1>4 DEF Adm!IsPutBack

\* What is known of the presets and of what is on its way to them.
PresetType ==
    /\ DOMAIN store = Adm!Resources /\ \A r \in Adm!Resources : DOMAIN store[r] = Ids
    /\ DOMAIN request = Adm!Clients /\ DOMAIN seen = Adm!Clients
    /\ \A c \in Adm!Clients : DOMAIN request[c] = Fields

\* What a client is sent and shown: the user interface words, the other one events.
Spelt(c, x) == IF c \in UiClients THEN x.events \subseteq Adm!Word ELSE Adm!IsEvents(x.events)

StoredAreSpelt ==
    "presets" \in Adm!Resources => \A i \in Ids : \A d \in store["presets"][i] : Adm!IsEvents(d.events)

SeenAreSpelt ==
    \A c \in Adm!Clients : \A x \in seen[c] : x[1] = "presets" => Spelt(c, x[3])

IsSound(c, q) ==
    /\ q.pc \notin {"idle", "answered"} => q.resource \in Adm!Resources /\ q.op \in Adm!Ops(q.resource) /\ q.id \in Ids
    /\ q.resource = "presets" => \A b \in q.body : Spelt(c, b)

PresetInv ==
    /\ PresetType /\ StoredAreSpelt /\ SeenAreSpelt
    /\ \A c \in Adm!Clients : IsSound(c, request[c])

\* A request that goes on, while the documents and what has been seen stay.
LEMMA SoundGoesOn ==
  ASSUME PresetInv, NEW c \in Adm!Clients, request[c].pc \notin {"idle", "answered"}, NEW q,
         request' = [request EXCEPT ![c] = q], DOMAIN q = Fields,
         q.op = request[c].op, q.resource = request[c].resource, q.id = request[c].id,
         q.body = request[c].body
  PROVE  /\ DOMAIN request' = Adm!Clients /\ \A e \in Adm!Clients : DOMAIN request'[e] = Fields
         /\ \A e \in Adm!Clients : IsSound(e, request'[e])
BY DEF PresetInv, PresetType, IsSound

\* What the user interface puts is in its form, and what is written has events at all.
LEMMA PutForm ==
  ASSUME PresetInv, NEW c \in UiClients, request[c].resource = "presets", request[c].op = "put",
         NEW new \in Adm!Written(c), NEW d \in new
  PROVE  /\ \E b \in request[c].body : new = {d} /\ d \in Adm!PreProcessPreset(b)
         /\ Adm!UiForm(d)
<1> DEFINE q == request[c]
<1>1. PICK b \in q.body : new = {d} /\ d \in Adm!PreProcessPreset(b)
      BY DEF Adm!Written, Adm!Converted
<1>2. c \in Adm!Clients
      BY DEF Adm!Clients
<1>3. b.events \subseteq Adm!Word
      BY <1>2 DEF PresetInv, IsSound, Spelt
<1>4. QED BY <1>1, <1>3, PreProcessedForm

LEMMA WrittenIsSpelt ==
  ASSUME PresetInv, NEW c \in Adm!Clients, request[c].pc = "write",
         request[c].resource = "presets", NEW new \in Adm!Written(c), NEW d \in new
  PROVE  Adm!IsEvents(d.events)
<1> DEFINE q == request[c]
<1>1. q.op \in {"put", "delete"}
      BY DEF PresetInv, IsSound, Adm!Ops
<1>2. q.op = "put"
      BY <1>1 DEF Adm!Written
<1>3. CASE c \in UiClients
      <2>1. Adm!Legible(d.events)
            BY <1>2, <1>3, PutForm DEF Adm!UiForm
      <2>2. QED BY <2>1, LegibleAreEvents
<1>4. CASE c \notin UiClients
      <2>1. PICK b \in q.body : d \in Adm!Converted(c, "presets", store["presets"][q.id], b)
            BY <1>2 DEF Adm!Written
      <2>2. d = b
            BY <1>4, <2>1 DEF Adm!Converted
      <2>3. QED BY <1>4, <2>2 DEF PresetInv, IsSound, Spelt
<1>5. QED BY <1>3, <1>4

\* A request that goes on without writing.
LEMMA RequestKeepsPresets ==
  ASSUME PresetInv, NEW c \in Adm!Clients, request[c].pc \notin {"idle", "answered"},
         seen' = seen, DOMAIN store' = Adm!Resources, \A r \in Adm!Resources : DOMAIN store'[r] = Ids,
         "presets" \in Adm!Resources => store'["presets"] = store["presets"],
         NEW q, request' = [request EXCEPT ![c] = q], DOMAIN q = Fields,
         q.op = request[c].op, q.resource = request[c].resource, q.id = request[c].id,
         q.body = request[c].body
  PROVE  PresetInv'
<1>1. /\ DOMAIN request' = Adm!Clients /\ \A e \in Adm!Clients : DOMAIN request'[e] = Fields
      /\ \A e \in Adm!Clients : IsSound(e, request'[e])
      BY SoundGoesOn
<1>2. PresetType'
      BY <1>1 DEF PresetInv, PresetType
<1>3. StoredAreSpelt' /\ SeenAreSpelt'
      BY DEF PresetInv, StoredAreSpelt, SeenAreSpelt
<1>4. QED BY <1>1, <1>2, <1>3 DEF PresetInv, IsSound

LEMMA MoveKeepsPresets ==
  ASSUME PresetInv, NEW c \in Adm!Clients, request[c].pc \notin {"idle", "answered"},
         seen' = seen, DOMAIN store' = Adm!Resources, \A r \in Adm!Resources : DOMAIN store'[r] = Ids,
         "presets" \in Adm!Resources => store'["presets"] = store["presets"],
         \/ \E to : Adm!Move(c, to)
         \/ \E code : Adm!Answer(c, code)
         \/ \E todo : request' = [request EXCEPT ![c].todo = todo]
         \/ \E todo : request' = [request EXCEPT ![c].pc = "announce", ![c].todo = todo]
  PROVE  PresetInv'
<1>1. DOMAIN request[c] = Fields /\ DOMAIN request = Adm!Clients
      BY DEF PresetInv, PresetType
<1>2. CASE \E to : Adm!Move(c, to)
      <2>1. PICK to : request' = [request EXCEPT ![c] = [request[c] EXCEPT !.pc = to]]
            BY <1>1, <1>2 DEF Adm!Move
      <2>2. QED BY <1>1, <2>1, RequestKeepsPresets DEF Fields
<1>3. CASE \E code : Adm!Answer(c, code)
      <2>1. PICK code : request' = [request EXCEPT ![c] = [request[c] EXCEPT !.pc = "answered", !.status = code]]
            BY <1>1, <1>3 DEF Adm!Answer
      <2>2. QED BY <1>1, <2>1, RequestKeepsPresets DEF Fields
<1>4. CASE \E todo : request' = [request EXCEPT ![c].todo = todo]
      <2>1. PICK todo : request' = [request EXCEPT ![c] = [request[c] EXCEPT !.todo = todo]]
            BY <1>1, <1>4
      <2>2. QED BY <1>1, <2>1, RequestKeepsPresets DEF Fields
<1>5. CASE \E todo : request' = [request EXCEPT ![c].pc = "announce", ![c].todo = todo]
      <2>1. PICK todo : request' = [request EXCEPT ![c] = [request[c] EXCEPT !.pc = "announce", !.todo = todo]]
            BY <1>1, <1>5
      <2>2. QED BY <1>1, <2>1, RequestKeepsPresets DEF Fields
<1>6. QED BY <1>2, <1>3, <1>4, <1>5

\* A new request, with what the clients of its interface are sent.
LEMMA AskedKeepsPresets ==
  ASSUME PresetInv, NEW c \in Adm!Clients, NEW resource \in Adm!Resources, NEW id \in Ids,
         NEW op \in Adm!Ops(resource), NEW body, Adm!Asked(c, op, resource, id, body),
         resource = "presets" => \A b \in body : Spelt(c, b)
  PROVE  PresetInv'
<1> DEFINE q == [Adm!NoRequest EXCEPT !.op = op, !.resource = resource, !.id = id, !.body = body,
                                    !.pc = "arrived"]
<1>1. request' = [request EXCEPT ![c] = q] /\ store' = store /\ seen' = seen
      BY DEF Adm!Asked
<1>2. /\ DOMAIN q = Fields /\ q.op = op /\ q.resource = resource /\ q.id = id /\ q.body = body
      BY DEF Adm!NoRequest, Fields
<1> HIDE DEF q
<1>3. IsSound(c, q)
      BY <1>2 DEF IsSound
<1>4. DOMAIN request' = Adm!Clients /\ request'[c] = q /\ \A e \in Adm!Clients \ {c} : request'[e] = request[e]
      BY <1>1 DEF PresetInv, PresetType
<1>5. \A e \in Adm!Clients : IsSound(e, request'[e]) /\ DOMAIN request'[e] = Fields
      BY <1>2, <1>3, <1>4 DEF PresetInv, PresetType
<1>6. PresetType' /\ StoredAreSpelt' /\ SeenAreSpelt'
      BY <1>1, <1>4, <1>5 DEF PresetInv, PresetType, StoredAreSpelt, SeenAreSpelt
<1>7. QED BY <1>5, <1>6 DEF PresetInv, IsSound

LEMMA AskNbiKeepsPresets ==
  ASSUME Adm!AdminAssumption, PresetInv, NEW c \in NbiClients, Adm!AskNbi(c)
  PROVE  PresetInv'
<1>1. PICK resource \in Adm!Routes, id \in Ids : \E op \in Adm!Ops(resource) :
         \E body \in {{}} \cup Adm!Sent(op, Bodies[resource].nbi \cup Adm!Again(c, resource, op)) :
            Adm!Asked(c, op, resource, id, body)
      BY DEF Adm!AskNbi
<1>2. PICK op \in Adm!Ops(resource) :
         \E body \in {{}} \cup Adm!Sent(op, Bodies[resource].nbi \cup Adm!Again(c, resource, op)) :
            Adm!Asked(c, op, resource, id, body)
      BY <1>1
<1>3. PICK body \in {{}} \cup Adm!Sent(op, Bodies[resource].nbi \cup Adm!Again(c, resource, op)) :
         Adm!Asked(c, op, resource, id, body)
      BY <1>2
<1>4. c \in Adm!Clients /\ c \notin UiClients /\ resource \in Adm!Resources
      BY DEF Adm!Clients, Adm!Routes, Adm!AdminAssumption
<1>5. ASSUME resource = "presets", NEW b \in body
      PROVE  Spelt(c, b)
      <2>1. b \in Bodies["presets"].nbi \cup Adm!Again(c, "presets", op)
            BY <1>5 DEF Adm!Sent
      <2>2. CASE b \in Bodies["presets"].nbi
            BY <1>4, <1>5, <2>2 DEF Adm!AdminAssumption, Adm!Resources, Spelt
      <2>3. CASE b \in Adm!Again(c, "presets", op)
            BY <1>4, <2>3 DEF Adm!Again, PresetInv, SeenAreSpelt
      <2>4. QED BY <2>1, <2>2, <2>3
<1>6. QED BY <1>3, <1>4, <1>5, AskedKeepsPresets

LEMMA AskUiKeepsPresets ==
  ASSUME Adm!AdminAssumption, PresetInv, NEW c \in UiClients, Adm!AskUi(c)
  PROVE  PresetInv'
<1>1. PICK resource \in Adm!Resources, id \in Ids : \E op \in Adm!Ops(resource) :
         \E body \in Adm!Sent(op, Bodies[resource].ui \cup Adm!Again(c, resource, op)) :
            Adm!Asked(c, op, resource, id, body)
      BY DEF Adm!AskUi
<1>2. PICK op \in Adm!Ops(resource) :
         \E body \in Adm!Sent(op, Bodies[resource].ui \cup Adm!Again(c, resource, op)) :
            Adm!Asked(c, op, resource, id, body)
      BY <1>1
<1>3. PICK body \in Adm!Sent(op, Bodies[resource].ui \cup Adm!Again(c, resource, op)) :
         Adm!Asked(c, op, resource, id, body)
      BY <1>2
<1>4. c \in Adm!Clients
      BY DEF Adm!Clients
<1>5. ASSUME resource = "presets", NEW b \in body
      PROVE  Spelt(c, b)
      <2>1. b \in Bodies["presets"].ui \cup Adm!Again(c, "presets", op)
            BY <1>3, <1>5 DEF Adm!Sent
      <2>2. CASE b \in Bodies["presets"].ui
            BY <1>5, <2>2 DEF Adm!AdminAssumption, Adm!Resources, Spelt
      <2>3. CASE b \in Adm!Again(c, "presets", op)
            BY <1>4, <2>3 DEF Adm!Again, PresetInv, SeenAreSpelt
      <2>4. QED BY <2>1, <2>2, <2>3
<1>6. QED BY <1>3, <1>4, <1>5, AskedKeepsPresets

\* What becomes of the documents when one is written.
LEMMA WriteKeepsPresets ==
  ASSUME Adm!AdminAssumption, PresetInv, NEW c \in Adm!Clients, Adm!Write(c)
  PROVE  PresetInv'
<1> DEFINE q == request[c]
<1>1. q.pc = "write" /\ seen' = seen /\ q.resource \in Adm!Resources /\ q.id \in Ids
      BY DEF Adm!Write, PresetInv, IsSound
<1>2. DOMAIN store = Adm!Resources /\ \A r \in Adm!Resources : DOMAIN store[r] = Ids
      BY DEF PresetInv, PresetType
<1>3. CASE Adm!Answer(c, 400) /\ store' = store
      BY <1>1, <1>2, <1>3, MoveKeepsPresets
<1>4. ASSUME NEW new \in Adm!Written(c), store' = [store EXCEPT ![q.resource][q.id] = new],
             request' = [request EXCEPT ![c].pc = "announce",
                                        ![c].todo = Adm!Announces(c, q.op, q.resource)]
      PROVE  PresetInv'
      <2>1. /\ DOMAIN store' = Adm!Resources /\ \A r \in Adm!Resources : DOMAIN store'[r] = Ids
            /\ \A r \in Adm!Resources \ {q.resource} : store'[r] = store[r]
            /\ store'[q.resource][q.id] = new
            /\ \A i \in Ids \ {q.id} : store'[q.resource][i] = store[q.resource][i]
            BY <1>1, <1>2, <1>4
      <2>2. PICK todo : request' = [request EXCEPT ![c] = [request[c] EXCEPT !.pc = "announce", !.todo = todo]]
            BY <1>4 DEF PresetInv, PresetType
      <2>3. /\ DOMAIN request' = Adm!Clients /\ \A e \in Adm!Clients : DOMAIN request'[e] = Fields
            /\ \A e \in Adm!Clients : IsSound(e, request'[e])
            <3>1. DOMAIN request[c] = Fields
                  BY DEF PresetInv, PresetType
            <3>2. QED BY <1>1, <2>2, <3>1, SoundGoesOn DEF Fields
      <2>4. PresetType'
            BY <1>1, <2>1, <2>3 DEF PresetInv, PresetType
      <2>5. StoredAreSpelt'
            <3>1. SUFFICES ASSUME "presets" \in Adm!Resources, NEW i \in Ids, NEW d \in store'["presets"][i]
                           PROVE  Adm!IsEvents(d.events)
                  BY DEF StoredAreSpelt
            <3>2. CASE q.resource = "presets" /\ i = q.id
                  BY <1>1, <2>1, <3>1, <3>2, WrittenIsSpelt
            <3>3. CASE ~ (q.resource = "presets" /\ i = q.id)
                  <4>1. store'["presets"][i] = store["presets"][i]
                        BY <2>1, <3>1, <3>3
                  <4>2. QED BY <3>1, <4>1 DEF PresetInv, StoredAreSpelt
            <3>4. QED BY <3>2, <3>3
      <2>6. SeenAreSpelt'
            BY <1>1 DEF PresetInv, SeenAreSpelt
      <2>7. QED BY <2>3, <2>4, <2>5, <2>6 DEF PresetInv, IsSound
<1>5. QED BY <1>3, <1>4 DEF Adm!Write

\* Who reads is shown the words of the events, or the events themselves.
LEMMA SeenKeepsPresets ==
  ASSUME Adm!AdminAssumption, PresetInv, UNCHANGED <<store, request>>,
         \/ seen' = seen
         \/ \E c \in UiClients, resource \in Adm!Resources : Adm!Read(c, resource)
         \/ \E c \in NbiClients, resource \in Adm!Resources : Adm!Query(c, resource)
  PROVE  PresetInv'
<1>1. DOMAIN seen' = Adm!Clients
      BY DEF PresetInv, PresetType, Adm!Read, Adm!Query
<1>2. SeenAreSpelt'
      <2> SUFFICES ASSUME NEW e \in Adm!Clients, NEW x \in seen'[e], x[1] = "presets"
                   PROVE  Spelt(e, x[3])
          BY DEF SeenAreSpelt, Spelt
      <2>1. DOMAIN seen = Adm!Clients
            BY DEF PresetInv, PresetType
      <2>2. CASE x \in seen[e]
            BY <2>2 DEF PresetInv, SeenAreSpelt
      <2>3. ASSUME NEW c \in NbiClients, NEW resource \in Adm!Resources, Adm!Query(c, resource),
                   x \notin seen[e]
            PROVE  Spelt(e, x[3])
            <3>1. c = e
                  BY <2>1, <2>3 DEF Adm!Query
            <3>2. x \in UNION {{<<resource, i, d>> : d \in store[resource][i]} : i \in Ids}
                  BY <2>1, <2>3, <3>1 DEF Adm!Query
            <3>3. PICK i \in Ids : x \in {<<resource, i, d>> : d \in store[resource][i]}
                  BY <3>2
            <3>4. PICK d \in store[resource][i] : x = <<resource, i, d>>
                  BY <3>3
            <3>5. resource = "presets" /\ x[3] = d /\ e \notin UiClients
                  BY <2>3, <3>1, <3>4 DEF Adm!AdminAssumption
            <3>6. QED BY <3>4, <3>5 DEF PresetInv, StoredAreSpelt, Spelt
      <2>4. ASSUME NEW c \in UiClients, NEW resource \in Adm!Resources, Adm!Read(c, resource),
                   x \notin seen[e]
            PROVE  Spelt(e, x[3])
            <3> DEFINE shown(i) == UNION {Adm!Flatten(resource, d) : d \in Adm!Found(c, resource, i)}
            <3>1. c = e
                  BY <2>1, <2>4 DEF Adm!Read
            <3>2. x \in UNION {{<<resource, i, y>> : y \in shown(i)} : i \in Ids}
                  BY <2>1, <2>4, <3>1 DEF Adm!Read
            <3>3. PICK i \in Ids : \E y \in shown(i) : x = <<resource, i, y>>
                  BY <3>2
            <3>4. PICK y \in shown(i) : x = <<resource, i, y>>
                  BY <3>3
            <3>5. PICK d \in Adm!Found(c, resource, i) : y \in Adm!Flatten(resource, d)
                  BY <3>4
            <3>6. resource = "presets" /\ x[3] = y
                  BY <3>4
            <3>7. d \in store["presets"][i] /\ y \in Adm!FlattenPreset(d)
                  BY <3>5, <3>6 DEF Adm!Found, Adm!Flatten
            <3>8. Adm!IsEvents(d.events)
                  BY <2>4, <3>6, <3>7 DEF PresetInv, StoredAreSpelt
            <3>9. y.events \subseteq Adm!Word
                  BY <3>7, <3>8, FlattenedFields, ShownAreWords
            <3>10. QED BY <2>4, <3>1, <3>6, <3>9 DEF Spelt
      <2>5. QED BY <2>2, <2>3, <2>4
<1>3. QED BY <1>1, <1>2 DEF PresetInv, PresetType, StoredAreSpelt, IsSound, Spelt

LEMMA PresetStep ==
  ASSUME Adm!AdminAssumption
  PROVE  PresetInv /\ [Adm!Next]_Adm!vars => PresetInv'
<1> SUFFICES ASSUME PresetInv, [Adm!Next]_Adm!vars
             PROVE  PresetInv'
    OBVIOUS
<1>1. /\ DOMAIN store = Adm!Resources /\ \A r \in Adm!Resources : DOMAIN store[r] = Ids
      /\ UiClients \subseteq Adm!Clients /\ NbiClients \subseteq Adm!Clients
      BY DEF PresetInv, PresetType, Adm!Clients
<1>2. CASE Adm!Inform
      BY <1>2, SeenKeepsPresets DEF Adm!Inform
<1>3. CASE \/ \E c \in UiClients : Adm!AskUi(c)
           \/ \E c \in NbiClients : Adm!AskNbi(c)
      BY <1>3, AskUiKeepsPresets, AskNbiKeepsPresets
<1>4. ASSUME NEW c \in Adm!Clients, Adm!CheckUi(c) \/ Adm!CheckNbi(c) \/ Adm!CutOff(c)
      PROVE  PresetInv'
      <2>1. UNCHANGED <<store, seen>> /\ request[c].pc \notin {"idle", "answered"}
            BY <1>4 DEF Adm!CheckUi, Adm!CheckNbi, Adm!CutOff
      <2>2. (\E to : Adm!Move(c, to)) \/ (\E code : Adm!Answer(c, code))
            <3>1. CASE Adm!CheckUi(c)
                  BY <3>1 DEF Adm!CheckUi
            <3>2. CASE Adm!CheckNbi(c)
                  BY <3>2 DEF Adm!CheckNbi
            <3>3. CASE Adm!CutOff(c)
                  BY <3>3 DEF Adm!CutOff
            <3>4. QED BY <1>4, <3>1, <3>2, <3>3
      <2>3. QED BY <1>1, <2>1, <2>2, MoveKeepsPresets
<1>5. CASE \/ \E c \in UiClients, resource \in Adm!Resources : Adm!Read(c, resource)
           \/ \E c \in NbiClients, resource \in Adm!Resources : Adm!Query(c, resource)
      BY <1>5, SeenKeepsPresets DEF Adm!Read, Adm!Query
<1>6. CASE \E c \in Adm!Clients : Adm!Write(c)
      BY <1>6, WriteKeepsPresets
<1>7. ASSUME NEW c \in Adm!Clients, Adm!Announce(c)
      PROVE  PresetInv'
      <2>1. UNCHANGED <<store, seen>> /\ request[c].pc \notin {"idle", "answered"}
            BY <1>7 DEF Adm!Announce
      <2>2. (\E todo : request' = [request EXCEPT ![c].todo = todo]) \/ (\E code : Adm!Answer(c, code))
            BY <1>7 DEF Adm!Announce
      <2>3. QED BY <1>1, <2>1, <2>2, MoveKeepsPresets
<1>8. ASSUME NEW c \in Adm!Clients, Adm!Remove(c) \/ Adm!Upload(c)
      PROVE  PresetInv'
      <2>1. seen' = seen /\ request[c].pc \notin {"idle", "answered"}
            BY <1>8 DEF Adm!Remove, Adm!Upload
      <2>2. (\E to : Adm!Move(c, to)) \/ (\E code : Adm!Answer(c, code))
            BY <1>8 DEF Adm!Remove, Adm!Upload
      <2>3. store' = store \/ \E x : store' = [store EXCEPT !["files"][request[c].id] = x]
            BY <1>8 DEF Adm!Remove, Adm!Upload
      <2>4. /\ DOMAIN store' = Adm!Resources /\ \A r \in Adm!Resources : DOMAIN store'[r] = Ids
            /\ "presets" \in Adm!Resources => store'["presets"] = store["presets"]
            BY <1>1, <2>3
      <2>5. QED BY <2>1, <2>2, <2>4, MoveKeepsPresets
<1>9. CASE UNCHANGED Adm!vars
      BY <1>9, SeenKeepsPresets DEF Adm!vars
<1>10. QED
      BY <1>1, <1>2, <1>3, <1>4, <1>5, <1>6, <1>7, <1>8, <1>9 DEF Adm!Next

\* At first there are no presets.
LEMMA PresetInit ==
  ASSUME Adm!AdminAssumption
  PROVE  Adm!Init => PresetInv
<1> SUFFICES ASSUME Adm!Init PROVE PresetInv
    OBVIOUS
<1>1. /\ store = [r \in Adm!Resources |-> [i \in Ids |-> Adm!Initially(r)]]
      /\ request = [c \in Adm!Clients |-> Adm!NoRequest] /\ seen = [c \in Adm!Clients |-> {}]
      BY DEF Adm!Init
<1>2. Adm!Initially("presets") = {}
      BY DEF Adm!Initially
<1>3. StoredAreSpelt
      BY <1>1, <1>2 DEF StoredAreSpelt
<1>4. PresetType /\ SeenAreSpelt /\ \A c \in Adm!Clients : IsSound(c, request[c])
      BY <1>1 DEF PresetType, SeenAreSpelt, IsSound, Adm!NoRequest, Fields, Adm!Clients
<1>5. QED BY <1>3, <1>4 DEF PresetInv

\* What the user interface writes is in its form, and as it was if it was shown.
LEMMA PutBackByInvariant ==
  ASSUME Adm!AdminAssumption
  PROVE  PresetInv => Adm!PutBack
<1> SUFFICES ASSUME PresetInv, NEW c \in UiClients, Adm!Write(c), request[c].resource = "presets",
                    request[c].op = "put", request'[c].pc = "announce",
                    NEW d \in store'["presets"][request[c].id]
             PROVE  /\ Adm!UiForm(d)
                    /\ \A old \in UNION {store["presets"][i] : i \in Ids} :
                          request[c].body \subseteq Adm!FlattenPreset(old) => Adm!IsPutBack(old, d)
    BY DEF Adm!PutBack
<1> DEFINE q == request[c]
<1>1. /\ DOMAIN store = Adm!Resources /\ \A r \in Adm!Resources : DOMAIN store[r] = Ids
      /\ DOMAIN request = Adm!Clients /\ DOMAIN q = Fields /\ c \in Adm!Clients
      BY DEF PresetInv, PresetType, Adm!Clients
<1>2. q.resource \in Adm!Resources /\ q.id \in Ids
      BY <1>1 DEF PresetInv, IsSound, Adm!Write
<1>3. ~ Adm!Answer(c, 400)
      <2>1. Adm!Answer(c, 400) => request'[c].pc = "answered"
            BY <1>1 DEF Adm!Answer, Fields
      <2>2. QED BY <2>1
<1>4. PICK new \in Adm!Written(c) : store' = [store EXCEPT ![q.resource][q.id] = new]
      BY <1>3 DEF Adm!Write
<1>5. d \in new
      BY <1>1, <1>2, <1>4
<1>6. QED BY <1>4, <1>5, PutForm, PresetReturns

\* Whatever the user interface is sent as a preset, it stores one that it can show again as it
\* is; and sent what it showed of any preset, it stores the same condition and weight, the same
\* events if their names can be told from the text, and the very document if that was in its
\* form: so far preProcessPreset undoes flattenPreset.
THEOREM PresetsAlwaysReturn ==
  ASSUME Adm!AdminAssumption
  PROVE  Adm!Spec => Adm!RoundTrip
<1>1. QED BY PresetInit, PutBackByInvariant, PresetStep, PTL DEF Adm!Spec, Adm!RoundTrip

-----------------------------------------------------------------------------
\* What the browser shows (Store).
\* Counting and finiteness are those of the instance.
LEMMA SameSize ==
  ASSUME NEW S
  PROVE  Sto!Cardinality(S) = Cardinality(S) /\ Sto!IsFiniteSet(S) = IsFiniteSet(S)
BY DEF Sto!Cardinality, Cardinality, Sto!IsFiniteSet, IsFiniteSet

\* A set of numbers has a least one.
LEMMA LeastNumber ==
  ASSUME NEW S \in SUBSET Nat, S # {}
  PROVE  \E i \in S : \A j \in S : i <= j
<1> DEFINE R == OpToRel(<, Nat)
<1>1. PICK i \in S : \A j \in S : <<j, i>> \notin R
      BY ONLY S \subseteq Nat, S # {}, NatLessThanWellFounded, WFMin, Zenon
<1>2. \A j \in S : ~(j < i)
      <2>1. SUFFICES ASSUME NEW j \in S, j < i PROVE FALSE
            OBVIOUS
      <2>2. <<j, i>> \in R
            BY <2>1, Zenon DEF OpToRel
      <2>3. QED BY <2>2, <1>1
<1>3. QED BY <1>2

-----------------------------------------------------------------------------
\* Places

\* Rows whose places can be counted.
Countable(R) ==
    /\ R \subseteq Sto!Rows /\ IsFiniteSet(R)
    /\ \A r, s \in R : r[1] = s[1] => r = s
First(R, limit) == {r \in R : Sto!Place(r, R) <= limit}
Ahead(R, r) == {s \in R : s[1] <= r[1]}

LEMMA HeldCountable ==
  ASSUME Sto!StoreAssumption, NEW held
  PROVE  Countable(Sto!RowsOf(held))
<1> DEFINE f == [i \in Numbers |-> <<i, held[i]>>]
<1>1. IsFiniteSet({f[i] : i \in Numbers})
      <2>1. IsFiniteSet(Numbers)
            BY SameSize DEF Sto!StoreAssumption
      <2>2. f \in Surjection(Numbers, {f[i] : i \in Numbers})
            BY DEF Surjection
      <2> HIDE DEF f
      <2>3. QED BY <2>1, <2>2, FS_Surjection
<1>2. Sto!RowsOf(held) \subseteq {f[i] : i \in Numbers}
      BY DEF Sto!RowsOf, Sto!Rows
<1>3. \A r, s \in Sto!RowsOf(held) : r[1] = s[1] => r = s
      BY DEF Sto!RowsOf, Sto!Rows
<1>4. Sto!RowsOf(held) \subseteq Sto!Rows
      BY DEF Sto!RowsOf
<1>5. QED BY <1>1, <1>2, <1>3, <1>4, FS_Subset DEF Countable

LEMMA PartCountable ==
  ASSUME NEW R, Countable(R), NEW S, S \subseteq R
  PROVE  Countable(S) /\ Cardinality(S) \in Nat /\ Cardinality(S) <= Cardinality(R)
         /\ (S # R => Cardinality(S) < Cardinality(R)) /\ Cardinality(R) \in Nat
<1>1. IsFiniteSet(S) /\ Cardinality(S) \in Nat /\ Cardinality(R) \in Nat
      BY FS_Subset, FS_CardinalityType DEF Countable
<1>2. Cardinality(S) <= Cardinality(R) /\ (Cardinality(S) = Cardinality(R) => S = R)
      BY FS_Subset DEF Countable
<1>3. QED BY <1>1, <1>2 DEF Countable

LEMMA PlaceCounts ==
  ASSUME NEW R, Countable(R), NEW r
  PROVE  /\ Sto!Place(r, R) = Cardinality(Ahead(R, r)) /\ Sto!Place(r, R) \in Nat
         /\ Countable(Ahead(R, r))
BY SameSize, PartCountable DEF Sto!Place, Ahead

LEMMA RowsAreNumbered ==
  ASSUME Sto!StoreAssumption, NEW r \in Sto!Rows
  PROVE  r[1] \in Int /\ r = <<r[1], r[2]>>
<1>1. r[1] \in Numbers /\ r = <<r[1], r[2]>>
      BY DEF Sto!Rows
<1>2. Numbers \subseteq Int
      BY DEF Sto!StoreAssumption
<1>3. QED BY <1>1, <1>2

\* What comes before every row that is left out, if there are as many as the limit or nothing
\* is left out, is enough to find the first rows.
LEMMA EnoughFound ==
  ASSUME Sto!StoreAssumption, NEW R, Countable(R), NEW W, W \subseteq R, NEW limit \in Nat,
         \A x \in W, s \in R : s[1] <= x[1] => s \in W,
         \A x \in R \ W : Sto!Place(x, R) > limit
  PROVE  First(W, limit) = First(R, limit)
<1>1. ASSUME NEW x \in W
      PROVE  Sto!Place(x, W) = Sto!Place(x, R)
      <2>1. Ahead(W, x) = Ahead(R, x)
            BY DEF Ahead
      <2>2. QED BY <2>1 DEF Sto!Place, Ahead
<1>2. ASSUME NEW x \in R \ W
      PROVE  ~ (Sto!Place(x, R) <= limit)
      BY PlaceCounts
<1>3. QED BY <1>1, <1>2 DEF First

\* Less than the limit are found only where there is no more.
LEMMA FewFound ==
  ASSUME Sto!StoreAssumption, NEW R, Countable(R), NEW limit \in Nat,
         Cardinality(First(R, limit)) < limit
  PROVE  First(R, limit) = R
<1> SUFFICES ASSUME First(R, limit) # R PROVE FALSE
    OBVIOUS
<1> DEFINE beyond == {r \in R : Sto!Place(r, R) > limit}
           places == {Sto!Place(r, R) : r \in beyond}
<1>1. beyond # {} /\ places \in SUBSET Nat /\ places # {}
      BY PlaceCounts DEF First
<1>2. PICK p \in places : \A q \in places : p <= q
      BY <1>1, LeastNumber
<1>3. PICK r \in beyond : \A t \in beyond : Sto!Place(r, R) <= Sto!Place(t, R)
      BY <1>2
<1> DEFINE before == {s \in R : s[1] < r[1]}
<1>4. r \in R /\ R \subseteq Sto!Rows /\ \A s \in R : s[1] \in Int
      BY RowsAreNumbered DEF Countable
<1>5. before \subseteq First(R, limit)
      <2> SUFFICES ASSUME NEW s \in before PROVE Sto!Place(s, R) <= limit
          BY DEF First
      <2>1. Ahead(R, s) \subseteq Ahead(R, r) /\ r \in Ahead(R, r) /\ r \notin Ahead(R, s)
            BY <1>4 DEF Ahead
      <2>2. Sto!Place(s, R) < Sto!Place(r, R)
            BY <2>1, PlaceCounts, PartCountable
      <2>3. s \notin beyond
            BY <1>3, <2>2, PlaceCounts
      <2>4. QED BY <2>3, PlaceCounts
<1>6. Ahead(R, r) = before \cup {r} /\ r \notin before
      BY <1>4 DEF Ahead, Countable
<1>7. Cardinality(before) \in Nat /\ Countable(before)
      BY PartCountable
<1> HIDE DEF before, beyond
<1>8. Cardinality(before \cup {r}) = Cardinality(before) + 1
      BY <1>6, <1>7, FS_AddElement DEF Countable
<1>9. Cardinality(before) >= limit
      <2>1. Sto!Place(r, R) > limit
            BY <1>3 DEF beyond
      <2>2. QED BY <1>6, <1>7, <1>8, <2>1, PlaceCounts
<1>10. Countable(First(R, limit)) /\ Cardinality(First(R, limit)) \in Nat
      BY PartCountable DEF First
<1>11. Cardinality(before) <= Cardinality(First(R, limit))
      BY <1>5, <1>10, PartCountable
<1>12. QED BY <1>7, <1>9, <1>10, <1>11

-----------------------------------------------------------------------------
\* What is found

LEMMA FoundIsFirst ==
  ASSUME NEW held, NEW filter, NEW limit
  PROVE  Sto!FindMatches(held, filter, limit) =
           IF limit = 0 THEN Sto!RowsOf(held) \cap filter ELSE First(Sto!RowsOf(held) \cap filter, limit)
BY DEF Sto!FindMatches, First

LEMMA FilterCountable ==
  ASSUME Sto!StoreAssumption, NEW held, NEW filter
  PROVE  Countable(Sto!RowsOf(held) \cap filter)
BY HeldCountable, PartCountable

LEMMA QueryType ==
  ASSUME Sto!StoreAssumption, NEW q \in Queries
  PROVE  /\ Filter[q] \subseteq Sto!Rows /\ Limit[q] \in Nat
         /\ \A r \in Filter[q] : r[1] \in Int
<1>1. Filter[q] \subseteq Sto!Rows /\ Limit[q] \in Nat
      BY DEF Sto!StoreAssumption
<1>2. QED BY <1>1, RowsAreNumbered

\* The browser holds what the collection has of these rows.
Coherent(held, rows) == \A r \in rows : r \in Sto!RowsOf(held) <=> r \in Sto!RowsOf(db)

LEMMA CoherentFinds ==
  ASSUME NEW held, NEW rows, Coherent(held, rows), NEW filter, filter \subseteq rows, NEW limit
  PROVE  Sto!FindMatches(held, filter, limit) = Sto!FindMatches(db, filter, limit)
<1>1. Sto!RowsOf(held) \cap filter = Sto!RowsOf(db) \cap filter
      BY DEF Coherent
<1>2. QED BY <1>1 DEF Sto!FindMatches

\* The rows ahead of the first one that has not been asked for.
LEMMA SatisfiedAhead ==
  ASSUME Sto!StoreAssumption, NEW fetched, NEW q \in Queries
  PROVE  LET sat == Sto!Satisfied(fetched, Filter[q])
         IN  /\ sat \subseteq fetched /\ sat \subseteq Filter[q]
             /\ \A r \in sat, g \in Filter[q] \ sat : r[1] < g[1]
<1> DEFINE F == Filter[q]
           sat == Sto!Satisfied(fetched, F)
<1>1. CASE fetched = {}
      <2>1. sat = {}
            BY <1>1 DEF Sto!Satisfied
      <2>2. QED BY <2>1
<1>2. CASE fetched # {}
      <2>1. sat = {r \in F : \A gap \in F \ fetched : r[1] < gap[1]}
            BY <1>2 DEF Sto!Satisfied
      <2>2. \A r \in F : r[1] \in Int
            BY QueryType
      <2> HIDE DEF F, sat
      <2>3. sat \subseteq fetched /\ sat \subseteq F
            BY <2>1, <2>2
      <2>4. ASSUME NEW r \in sat, NEW g \in F \ sat
            PROVE  r[1] < g[1]
            <3>1. PICK gap \in F \ fetched : ~ (g[1] < gap[1])
                  BY <2>1
            <3>2. r[1] < gap[1] /\ r \in F
                  BY <2>1
            <3>3. QED BY <2>2, <3>1, <3>2
      <2>5. QED BY <2>3, <2>4 DEF F, sat
<1>3. QED BY <1>1, <1>2

\* Of an ask that waits for its bookmark: the rows it leaves out come before the others, and
\* count already.
RightPlace(k) ==
    LET F == Filter[k.query]
    IN  /\ k.of \subseteq F
        /\ \A r \in F \ k.of, g \in k.of : r[1] < g[1]
        /\ k.place = Limit[k.query] - Cardinality(Sto!RowsOf(db) \cap (F \ k.of))

\* Of one that has it: the rows up to it are enough.
GoodBookmark(k) ==
    Sto!FindMatches(db, Sto!Wanted(k), Limit[k.query]) = Sto!FindMatches(db, Filter[k.query], Limit[k.query])

\* What a page is given at once is right where it is complete, and where it is not the rest is
\* asked for from the right place.
LEMMA FetchedSound ==
  ASSUME Sto!StoreAssumption, NEW q \in Queries, Coherent(objects, combinedFilter)
  PROVE  LET a == Sto!Fetched(q)
         IN  /\ a.unsatisfied = {} => a.value = Sto!FindMatches(db, Filter[q], Limit[q])
             /\ Limit[q] # 0 => RightPlace(Sto!Ask(q, a))
<1> DEFINE F == Filter[q]
           sat == Sto!Satisfied(combinedFilter, F)
           diff == F \ sat
           limit == Limit[q]
           rows == Sto!FindMatches(objects, sat, limit)
           full == diff = {} \/ (limit > 0 /\ Sto!Cardinality(rows) >= limit)
           a == Sto!Fetched(q)
           found == Sto!RowsOf(db) \cap sat
           all == Sto!RowsOf(db) \cap F
<1>1. a.value = rows /\ a.unsatisfied = IF full THEN {} ELSE diff
      BY DEF Sto!Fetched
<1>2. /\ sat \subseteq combinedFilter /\ sat \subseteq F /\ \A r \in sat, g \in diff : r[1] < g[1]
      /\ limit \in Nat /\ \A r \in F : r[1] \in Int
      BY SatisfiedAhead, QueryType
<1>3. rows = Sto!FindMatches(db, sat, limit)
      BY <1>2, CoherentFinds
<1>4. Countable(found) /\ Countable(all)
      BY FilterCountable
<1>5. /\ rows = IF limit = 0 THEN found ELSE First(found, limit)
      /\ Sto!FindMatches(db, F, limit) = IF limit = 0 THEN all ELSE First(all, limit)
      BY <1>3, FoundIsFirst
<1>6. rows \subseteq found /\ Countable(rows) /\ Sto!Cardinality(rows) = Cardinality(rows)
      /\ Cardinality(rows) \in Nat /\ Cardinality(found) \in Nat /\ Cardinality(rows) <= Cardinality(found)
      <2>1. rows \subseteq found
            BY <1>5 DEF First
      <2>2. QED BY <1>4, <2>1, SameSize, PartCountable
<1>7. ASSUME full
      PROVE  rows = Sto!FindMatches(db, F, limit)
      <2>1. CASE diff = {}
            <3>1. sat = F
                  BY <1>2, <2>1
            <3>2. QED BY <1>3, <3>1
      <2>2. CASE limit > 0 /\ Cardinality(rows) >= limit
            <3>1. found \subseteq all /\ \A r \in all \ found : r \in diff
                  BY <1>2
            <3>2. \A x \in found, s \in all : s[1] <= x[1] => s \in found
                  <4>1. SUFFICES ASSUME NEW x \in found, NEW s \in all, s[1] <= x[1], s \notin found
                                 PROVE  FALSE
                        OBVIOUS
                  <4>2. x[1] < s[1] /\ x[1] \in Int /\ s[1] \in Int
                        BY <1>2, <3>1, <4>1
                  <4>3. QED BY <4>1, <4>2
            <3>3. ASSUME NEW x \in all \ found
                  PROVE  Sto!Place(x, all) > limit
                  <4>1. \A s \in found : s[1] < x[1] /\ s[1] \in Int /\ x[1] \in Int
                        BY <1>2, <3>1
                  <4>2. found \subseteq Ahead(all, x) /\ x \in Ahead(all, x) /\ x \notin found
                        BY <1>2, <3>1, <4>1 DEF Ahead
                  <4>3. Countable(Ahead(all, x)) /\ Sto!Place(x, all) = Cardinality(Ahead(all, x))
                        BY <1>4, PlaceCounts
                  <4>4. Cardinality(found) < Cardinality(Ahead(all, x)) /\ Cardinality(Ahead(all, x)) \in Nat
                        BY <4>2, <4>3, PartCountable
                  <4>5. QED BY <1>2, <1>6, <2>2, <4>3, <4>4
            <3> HIDE DEF found, all, rows
            <3>4. First(found, limit) = First(all, limit)
                  BY <1>2, <1>4, <3>1, <3>2, <3>3, EnoughFound
            <3>5. QED BY <1>5, <2>2, <3>4
      <2>3. QED BY <1>6, <1>7, <2>1, <2>2
<1>8. ASSUME limit # 0
      PROVE  RightPlace(Sto!Ask(q, a))
      <2> DEFINE k == Sto!Ask(q, a)
      <2>1. CASE a.unsatisfied = {}
            <3>1. k.query = q /\ k.of = F /\ k.place = limit
                  BY <2>1 DEF Sto!Ask
            <3>2. Cardinality(Sto!RowsOf(db) \cap (F \ k.of)) = 0
                  BY <3>1, FS_EmptySet
            <3>3. Filter[k.query] = F /\ Limit[k.query] = limit /\ F \ k.of = {}
                  BY <3>1
            <3> HIDE DEF k, F, limit
            <3>4. k.of \subseteq F /\ \A r \in F \ k.of, g \in k.of : r[1] < g[1]
                  BY <3>1, <3>3
            <3>5. k.place = limit - Cardinality(Sto!RowsOf(db) \cap (F \ k.of))
                  BY <1>2, <3>1, <3>2
            <3>6. QED BY ONLY <3>3, <3>4, <3>5 DEF RightPlace, k
      <2>2. CASE a.unsatisfied # {}
            <3>1. ~full /\ a.unsatisfied = diff
                  BY <1>1, <2>2
            <3>2. k.query = q /\ k.of = diff /\ k.place = limit - Sto!Cardinality(rows)
                  BY <1>1, <2>2, <3>1 DEF Sto!Ask
            <3>3. Cardinality(rows) < limit
                  BY <1>2, <1>6, <1>8, <3>1
            <3>4. rows = found
                  <4>1. rows = First(found, limit)
                        BY <1>5, <1>8
                  <4> HIDE DEF rows, found
                  <4>2. QED BY <1>2, <1>4, <3>3, <4>1, FewFound
            <3>5. F \ k.of = sat
                  BY <1>2, <3>2
            <3>6. Filter[k.query] = F /\ Limit[k.query] = limit
                  BY <3>2
            <3>7. k.of \subseteq F /\ \A r \in F \ k.of, g \in k.of : r[1] < g[1]
                  BY <1>2, <3>2, <3>5
            <3>8. k.place = limit - Cardinality(found)
                  BY <1>6, <3>2, <3>4
            <3> HIDE DEF k, F, limit
            <3>9. k.place = limit - Cardinality(Sto!RowsOf(db) \cap (F \ k.of))
                  BY <3>5, <3>8
            <3>10. QED BY ONLY <3>6, <3>7, <3>9 DEF RightPlace, k
      <2>3. QED BY <2>1, <2>2
<1>9. QED BY <1>1, <1>7, <1>8

\* A bookmark that was looked for from the right place is good.
LEMMA BookmarkGood ==
  ASSUME Sto!StoreAssumption, NEW k, k.query \in Queries, Limit[k.query] # 0, RightPlace(k),
         NEW j, j.query = k.query, j.bookmark = Sto!Bookmark(db, k.of, k.place)
  PROVE  GoodBookmark(j)
<1> DEFINE F == Filter[k.query]
           limit == Limit[k.query]
           all == Sto!RowsOf(db) \cap F
           sought == Sto!RowsOf(db) \cap k.of
           rest == Sto!RowsOf(db) \cap (F \ k.of)
           W == Sto!Wanted(j)
           found == Sto!RowsOf(db) \cap W
<1>1. /\ limit \in Nat /\ \A r \in F : r[1] \in Int
      /\ k.of \subseteq F /\ \A r \in F \ k.of, g \in k.of : r[1] < g[1]
      /\ k.place = limit - Cardinality(rest)
      BY QueryType DEF RightPlace
<1>2. Countable(all) /\ Countable(sought) /\ Countable(rest) /\ Cardinality(rest) \in Nat
      BY FilterCountable, PartCountable
<1>3. W = {r \in F : \A i \in j.bookmark : r[1] <= i} /\ found \subseteq all
      BY DEF Sto!Wanted, Sto!UpTo
<1>4. \A x \in found, s \in all : s[1] <= x[1] => s \in found
      <2> SUFFICES ASSUME NEW x \in found, NEW s \in all, s[1] <= x[1], NEW i \in j.bookmark
                   PROVE  s[1] <= i
          BY <1>3
      <2>1. PICK r \in sought : r[1] = i
            BY DEF Sto!Bookmark
      <2>2. s[1] \in Int /\ x[1] \in Int /\ i \in Int /\ x[1] <= i
            BY <1>1, <1>3, <2>1
      <2>3. QED BY <2>2
<1>5. ASSUME NEW x \in all \ found
      PROVE  Sto!Place(x, all) > limit
      <2>1. PICK i \in j.bookmark : ~ (x[1] <= i)
            BY <1>3
      <2>2. PICK r \in sought : r[1] = i /\ Sto!Place(r, sought) = k.place
            BY <2>1 DEF Sto!Bookmark
      <2>3. r[1] < x[1] /\ r[1] \in Int /\ x[1] \in Int
            BY <1>1, <2>1, <2>2
      <2>4. Countable(Ahead(sought, r)) /\ Cardinality(Ahead(sought, r)) = limit - Cardinality(rest)
            BY <1>1, <1>2, <2>2, PlaceCounts
      <2>5. rest \cap Ahead(sought, r) = {}
            BY DEF Ahead
      <2>6. rest \cup Ahead(sought, r) \subseteq Ahead(all, x)
            <3>1. \A t \in rest : t[1] < r[1] /\ t[1] \in Int
                  BY <1>1
            <3>2. \A t \in sought : t[1] \in Int
                  BY <1>1
            <3>3. QED BY <1>1, <2>3, <3>1, <3>2 DEF Ahead
      <2>7. x \in Ahead(all, x) /\ x \notin rest \cup Ahead(sought, r)
            <3>1. x \notin rest
                  BY <1>1, <2>2, <2>3
            <3>2. QED BY <2>3, <3>1 DEF Ahead
      <2> HIDE DEF rest, sought, all, limit
      <2>8. /\ IsFiniteSet(rest \cup Ahead(sought, r))
            /\ Cardinality(rest \cup Ahead(sought, r)) = Cardinality(rest) + Cardinality(Ahead(sought, r))
            <3>1. IsFiniteSet(rest) /\ IsFiniteSet(Ahead(sought, r))
                  BY <1>2, <2>4 DEF Countable
            <3>2. Cardinality(rest \cap Ahead(sought, r)) = 0
                  BY <2>5, FS_EmptySet
            <3>3. Cardinality(Ahead(sought, r)) \in Nat
                  BY <3>1, FS_CardinalityType
            <3>4. QED BY <1>2, <3>1, <3>2, <3>3, FS_Union
      <2>9. Cardinality(rest \cup Ahead(sought, r)) = limit
            BY <1>1, <1>2, <2>4, <2>8
      <2>10. Countable(Ahead(all, x)) /\ Sto!Place(x, all) = Cardinality(Ahead(all, x))
            BY <1>2, PlaceCounts
      <2>11. Cardinality(rest \cup Ahead(sought, r)) < Cardinality(Ahead(all, x))
             /\ Cardinality(Ahead(all, x)) \in Nat
            BY <2>6, <2>7, <2>10, PartCountable
      <2>12. QED BY <1>1, <2>9, <2>10, <2>11
<1>6. First(found, limit) = First(all, limit)
      <2> HIDE DEF found, all, limit
      <2>1. QED BY <1>1, <1>2, <1>3, <1>4, <1>5, EnoughFound
<1>7. /\ Sto!FindMatches(db, W, limit) = First(found, limit)
      /\ Sto!FindMatches(db, F, limit) = First(all, limit)
      BY FoundIsFirst
<1>8. QED BY <1>6, <1>7 DEF GoodBookmark

\* Without a limit, there is none and everything is wanted.
LEMMA NoBookmarkGood ==
  ASSUME NEW k, k.bookmark = {}
  PROVE  GoodBookmark(k)
<1>1. Sto!Wanted(k) = Filter[k.query]
      BY DEF Sto!Wanted, Sto!UpTo
<1>2. QED BY <1>1 DEF GoodBookmark

-----------------------------------------------------------------------------
\* The invariant

AnswerFields == {"value", "count", "fulfilled", "fulfilling", "unsatisfied"}
AskFields == {"query", "live", "waits", "of", "place", "bookmark"}
BatchFields == {"pc", "failed", "asks", "diff", "deleted", "rows"}

\* An ask that is live is of the page, one for a number waits until it ends.
AskShape(k) ==
    /\ DOMAIN k = AskFields /\ k.query \in Queries
    /\ k.live => k.query \in page
    /\ k.query \in Counting => k.waits
    /\ k.waits /\ k.query \notin Counting => Limit[k.query] # 0

BatchShape(batch) ==
    /\ DOMAIN batch = BatchFields
    /\ \A k \in batch.asks : AskShape(k)
    /\ batch.pc \in {"fetching", "read"} => \A k \in batch.asks : ~k.waits

AnswerShape(q, a) ==
    /\ DOMAIN a = AnswerFields
    /\ a.fulfilled \in Nat /\ a.fulfilled <= fulfillTimestamp
    /\ q \in Counting => a.unsatisfied = {}

\* What is left of an answer to be asked for is only used when it is drawn: the answer is
\* marked from then on until its bookmark has come.
AskedOnce ==
    /\ \A q \in page : queries[q].unsatisfied # {} /\ Limit[q] # 0 => queries[q].fulfilling
    /\ \A b \in 1 .. MaxBatches : \A k \in batches[b].asks :
          k.live /\ ~k.waits /\ Limit[k.query] # 0 => queries[k.query].unsatisfied = {}

ShapeInv ==
    /\ page \subseteq Queries /\ fulfillTimestamp \in Nat \ {0}
    /\ DOMAIN queries = Queries /\ DOMAIN batches = 1 .. MaxBatches
    /\ \A q \in page : AnswerShape(q, queries[q])
    /\ \A b \in 1 .. MaxBatches : BatchShape(batches[b])
    /\ AskedOnce

\* Of a batch while nothing disturbs it.
AskSound(k) ==
    k.query \notin Counting => IF k.waits THEN RightPlace(k) ELSE GoodBookmark(k)

BatchSound(batch) ==
    /\ ~batch.failed
    /\ batch.pc = "asked" => batch.diff = {}
    /\ batch.pc \in {"fetching", "read"} => \A k \in batch.asks : Sto!Wanted(k) \subseteq combinedFilter
    /\ \A r \in batch.diff : r \in Sto!RowsOf(objects) => r \in Sto!RowsOf(db) \/ r[1] \in batch.deleted
    /\ batch.pc = "read" => batch.rows = Sto!RowsOf(db) \cap batch.diff
    /\ \A k \in batch.asks : AskSound(k)

OneBatch == \A b, c \in Sto!Active : b = c
Arrived == {r \in combinedFilter : \A b \in Sto!Active : r \notin batches[b].diff}
SoundInv ==
    /\ OneBatch
    /\ \A b \in Sto!Active : BatchSound(batches[b])
    /\ Coherent(objects, Arrived)

ExactInv == ShapeInv /\ (still => SoundInv) /\ Sto!Exact

LEMMA ActiveBatch ==
  ASSUME NEW b
  PROVE  b \in Sto!Active <=> b \in 1 .. MaxBatches /\ batches[b].pc # "none"
BY DEF Sto!Active, Sto!Free

LEMMA NoBatchShape == BatchShape(Sto!NoBatch) /\ Sto!NoBatch.pc = "none" /\ Sto!NoBatch.asks = {}
BY DEF BatchShape, Sto!NoBatch, BatchFields

-----------------------------------------------------------------------------
\* Steps that leave the answers alone, or all but one

LEMMA SetTimestampKeeps ==
  ASSUME ExactInv, Sto!SetTimestamp
  PROVE  ExactInv'
<1>1. /\ fulfillTimestamp' = fulfillTimestamp + 1 /\ combinedFilter' = {} /\ still' = (Sto!Active = {})
      /\ UNCHANGED <<db, objects, queries, page, batches>>
      BY DEF Sto!SetTimestamp
<1>2. ShapeInv'
      BY <1>1 DEF ExactInv, ShapeInv, AskedOnce, AnswerShape, BatchShape, AskShape
<1>3. Sto!Active' = Sto!Active
      BY <1>1 DEF Sto!Active, Sto!Free
<1>4. still' => SoundInv'
      BY <1>1, <1>3 DEF SoundInv, OneBatch, Arrived, Coherent
<1>5. \A q \in page : queries[q].fulfilled # fulfillTimestamp + 1
      BY DEF ExactInv, ShapeInv, AnswerShape
<1>6. Sto!Exact'
      BY <1>1, <1>5 DEF Sto!Exact
<1>7. QED BY <1>2, <1>4, <1>6 DEF ExactInv

LEMMA ChangeKeeps ==
  ASSUME ExactInv, NEW i, Sto!Change(i)
  PROVE  ExactInv'
<1>1. still' = FALSE /\ UNCHANGED <<fulfillTimestamp, queries, page, batches>>
      BY DEF Sto!Change
<1>2. ShapeInv'
      BY <1>1 DEF ExactInv, ShapeInv, AskedOnce, AnswerShape, BatchShape, AskShape
<1>3. QED BY <1>1, <1>2 DEF ExactInv, Sto!Exact

\* A batch ends without an answer, or loses an ask.
LEMMA ShrinkKeepsShape ==
  ASSUME ShapeInv, UNCHANGED <<fulfillTimestamp, queries, page>>,
         NEW b \in 1 .. MaxBatches, NEW batch, batches' = [batches EXCEPT ![b] = batch],
         BatchShape(batch), batch.asks \subseteq batches[b].asks
  PROVE  ShapeInv'
<1>1. /\ DOMAIN batches' = 1 .. MaxBatches /\ batches'[b] = batch
      /\ \A c \in 1 .. MaxBatches \ {b} : batches'[c] = batches[c]
      BY DEF ShapeInv
<1>2. \A c \in 1 .. MaxBatches : BatchShape(batches'[c])
      BY <1>1 DEF ShapeInv
<1>3. \A c \in 1 .. MaxBatches : BatchShape(batches[c])'
      BY <1>2 DEF BatchShape, AskShape
<1>4. AskedOnce'
      BY <1>1 DEF ShapeInv, AskedOnce
<1>5. QED BY <1>1, <1>3, <1>4 DEF ShapeInv, AnswerShape

LEMMA FailKeeps ==
  ASSUME ExactInv, NEW b \in Sto!Active, Sto!Fail(b)
  PROVE  ExactInv'
<1>1. still' = FALSE /\ UNCHANGED <<fulfillTimestamp, queries, page>>
      /\ b \in 1 .. MaxBatches
      BY ActiveBatch DEF Sto!Fail
<1>2. \E batch : /\ batches' = [batches EXCEPT ![b] = batch]
                 /\ BatchShape(batch) /\ batch.asks \subseteq batches[b].asks
      <2>1. CASE batches' = [batches EXCEPT ![b] = Sto!NoBatch]
            BY <2>1, NoBatchShape
      <2>2. CASE \E k \in batches[b].asks :
                    batches' = [batches EXCEPT ![b].failed = TRUE, ![b].asks = @ \ {k}]
            <3>1. PICK k \in batches[b].asks :
                     batches' = [batches EXCEPT ![b] = [batches[b] EXCEPT !.failed = TRUE, !.asks = @ \ {k}]]
                  BY <1>1, <2>2 DEF ExactInv, ShapeInv
            <3>2. BatchShape(batches[b])
                  BY <1>1 DEF ExactInv, ShapeInv
            <3>3. BatchShape([batches[b] EXCEPT !.failed = TRUE, !.asks = @ \ {k}])
                  BY <3>2 DEF BatchShape, BatchFields
            <3>4. [batches[b] EXCEPT !.failed = TRUE, !.asks = @ \ {k}].asks \subseteq batches[b].asks
                  BY <3>2 DEF BatchShape, BatchFields
            <3>5. QED BY <3>1, <3>3, <3>4
      <2>3. QED BY <2>1, <2>2 DEF Sto!Fail
<1>3. ShapeInv'
      BY <1>1, <1>2, ShrinkKeepsShape DEF ExactInv
<1>4. QED BY <1>1, <1>3 DEF ExactInv, Sto!Exact

LEMMA GiveUpKeeps ==
  ASSUME ExactInv, NEW b \in Sto!Active, Sto!GiveUp(b)
  PROVE  ExactInv'
<1>1. /\ UNCHANGED <<db, fulfillTimestamp, queries, page, still>> /\ b \in 1 .. MaxBatches
      /\ batches' = [batches EXCEPT ![b] = Sto!NoBatch] /\ batches[b].failed
      BY ActiveBatch DEF Sto!GiveUp
<1>2. ShapeInv'
      BY <1>1, NoBatchShape, ShrinkKeepsShape DEF ExactInv
<1>3. ~still
      BY <1>1 DEF ExactInv, SoundInv, BatchSound
<1>4. QED BY <1>1, <1>2, <1>3 DEF ExactInv, Sto!Exact

\* While nothing disturbs the browser, the batch of a request is the only one.
LEMMA Alone ==
  ASSUME ExactInv, still, NEW b \in Sto!Active
  PROVE  /\ Sto!Active = {b} /\ BatchSound(batches[b])
         /\ \A r \in combinedFilter : r \notin batches[b].diff => r \in Arrived
BY DEF ExactInv, SoundInv, OneBatch, Arrived

\* It stays the only one, or was the last.
LEMMA OtherBatches ==
  ASSUME ShapeInv, NEW b \in 1 .. MaxBatches, NEW batch,
         batches' = [batches EXCEPT ![b] = batch]
  PROVE  /\ DOMAIN batches' = 1 .. MaxBatches /\ batches'[b] = batch
         /\ \A c \in 1 .. MaxBatches \ {b} : batches'[c] = batches[c]
         /\ Sto!Active = {b} => Sto!Active' = IF batch.pc = "none" THEN {} ELSE {b}
<1>1. /\ DOMAIN batches' = 1 .. MaxBatches /\ batches'[b] = batch
      /\ \A c \in 1 .. MaxBatches \ {b} : batches'[c] = batches[c]
      BY DEF ShapeInv
<1>2. ASSUME Sto!Active = {b}
      PROVE  Sto!Active' = IF batch.pc = "none" THEN {} ELSE {b}
      <2>1. \A c : c \in Sto!Active' <=> c \in 1 .. MaxBatches /\ batches'[c].pc # "none"
            BY DEF Sto!Active, Sto!Free
      <2>2. \A c \in 1 .. MaxBatches \ {b} : batches[c].pc = "none"
            BY <1>2, ActiveBatch
      <2>3. QED BY <1>1, <2>1, <2>2
<1>3. QED BY <1>1, <1>2

LEMMA ReadKeeps ==
  ASSUME ExactInv, NEW b \in Sto!Active, Sto!Read(b)
  PROVE  ExactInv'
<1>1. /\ UNCHANGED <<db, objects, combinedFilter, fulfillTimestamp, queries, page, still>>
      /\ b \in 1 .. MaxBatches /\ BatchShape(batches[b]) /\ batches[b].pc = "fetching"
      BY ActiveBatch DEF Sto!Read, ExactInv, ShapeInv
<1> DEFINE new == [batches[b] EXCEPT !.pc = "read", !.rows = Sto!RowsOf(db) \cap batches[b].diff]
<1>2. batches' = [batches EXCEPT ![b] = new]
      BY <1>1 DEF Sto!Read, ExactInv, ShapeInv
<1>3. /\ DOMAIN new = BatchFields /\ new.pc = "read" /\ new.rows = Sto!RowsOf(db) \cap new.diff
      /\ new.failed = batches[b].failed /\ new.asks = batches[b].asks
      /\ new.diff = batches[b].diff /\ new.deleted = batches[b].deleted
      BY <1>1 DEF BatchShape, BatchFields
<1> HIDE DEF new
<1>4. BatchShape(new)
      BY <1>1, <1>3 DEF BatchShape
<1>5. ShapeInv'
      BY <1>1, <1>2, <1>3, <1>4, ShrinkKeepsShape DEF ExactInv
<1>6. ASSUME still'
      PROVE  SoundInv'
      <2>1. Sto!Active = {b} /\ BatchSound(batches[b])
            BY <1>1, <1>6, Alone
      <2>2. batches'[b] = new /\ Sto!Active' = {b}
            BY <1>1, <1>2, <1>3, <2>1, OtherBatches DEF ExactInv
      <2>3. BatchSound(new)
            BY <1>1, <1>3, <2>1 DEF BatchSound
      <2>4. BatchSound(batches[b])'
            BY <1>1, <2>2, <2>3 DEF BatchSound, AskSound, RightPlace, GoodBookmark
      <2>5. Coherent(objects, Arrived)'
            BY <1>1, <1>3, <1>6, <2>1, <2>2 DEF ExactInv, SoundInv, Coherent, Arrived
      <2>6. QED BY <2>2, <2>4, <2>5 DEF SoundInv, OneBatch
<1>7. QED BY <1>1, <1>5, <1>6 DEF ExactInv, Sto!Exact

LEMMA NumberKeeps ==
  ASSUME Sto!StoreAssumption, ExactInv, NEW b \in Sto!Active, NEW k \in batches[b].asks, Sto!Answer(b, k)
  PROVE  ExactInv'
<1> DEFINE counts == k.query \in Counting
           j == [k EXCEPT !.waits = FALSE, !.bookmark = Sto!Bookmark(db, k.of, k.place)]
           asks == IF counts THEN batches[b].asks \ {k} ELSE (batches[b].asks \ {k}) \cup {j}
           new == [batches[b] EXCEPT !.asks = asks]
           a == queries[k.query]
           answer == IF counts
                     THEN Sto!Fulfilled(a, {}, Sto!Cardinality(Sto!RowsOf(db) \cap Filter[k.query]))
                     ELSE [a EXCEPT !.unsatisfied = {}]
<1>1. /\ UNCHANGED <<db, objects, combinedFilter, fulfillTimestamp, page, still>>
      /\ b \in 1 .. MaxBatches /\ BatchShape(batches[b]) /\ AskShape(k) /\ k.waits /\ ShapeInv
      BY ActiveBatch DEF Sto!Answer, ExactInv, ShapeInv, BatchShape
<1>2. batches' = [batches EXCEPT ![b] = new]
      BY <1>1 DEF Sto!Answer, ExactInv, ShapeInv
<1>3. queries' = IF k.live THEN [queries EXCEPT ![k.query] = answer] ELSE queries
      <2>1. k.live => k.query \in page /\ k.query \in DOMAIN queries
            BY <1>1 DEF AskShape, ShapeInv
      <2>2. QED BY <2>1 DEF Sto!Answer
<1>4. /\ DOMAIN new = BatchFields /\ new.asks = asks /\ new.pc = batches[b].pc
      /\ new.failed = batches[b].failed /\ new.rows = batches[b].rows
      /\ new.diff = batches[b].diff /\ new.deleted = batches[b].deleted
      BY <1>1 DEF BatchShape, BatchFields
<1>5. /\ DOMAIN j = AskFields /\ ~j.waits /\ j.bookmark = Sto!Bookmark(db, k.of, k.place)
      /\ j.query = k.query /\ j.live = k.live
      BY <1>1 DEF AskShape, AskFields
<1>6. \A i \in asks : i \in batches[b].asks \/ (i = j /\ ~counts)
      OBVIOUS
<1>7. ASSUME k.live
      PROVE  /\ k.query \in page /\ DOMAIN answer = AnswerFields
             /\ counts => /\ answer.fulfilled = fulfillTimestamp /\ answer.unsatisfied = {}
                          /\ answer.count = Sto!Cardinality(Sto!RowsOf(db) \cap Filter[k.query])
             /\ ~counts => /\ answer.fulfilled = a.fulfilled /\ answer.unsatisfied = {}
                           /\ answer.value = a.value /\ answer.fulfilling = a.fulfilling
      <2>1. k.query \in page /\ AnswerShape(k.query, a)
            BY <1>1, <1>7 DEF AskShape, ShapeInv
      <2>2. QED BY <2>1 DEF AnswerShape, AnswerFields, Sto!Fulfilled
<1>8. /\ batches'[b] = new /\ DOMAIN batches' = 1 .. MaxBatches
      /\ \A c \in 1 .. MaxBatches \ {b} : batches'[c] = batches[c]
      BY <1>1, <1>2, OtherBatches
<1>9. /\ DOMAIN queries' = Queries
      /\ \A q \in page : queries'[q] = IF k.live /\ q = k.query THEN answer ELSE queries[q]
      BY <1>1, <1>3 DEF ShapeInv
<1> HIDE DEF new, j, asks, answer
<1>10. ShapeInv'
      <2>1. AskShape(j) \/ counts
            BY <1>1, <1>5 DEF AskShape
      <2>2. BatchShape(new)
            BY <1>1, <1>4, <1>6, <2>1 DEF BatchShape
      <2>3. \A c \in 1 .. MaxBatches : BatchShape(batches[c])'
            BY <1>1, <1>8, <2>2 DEF ShapeInv, BatchShape, AskShape
      <2>4. \A q \in page : AnswerShape(q, queries'[q])
            BY <1>1, <1>7, <1>9 DEF ShapeInv, AnswerShape
      <2>5. \A q \in page : queries'[q].unsatisfied # {} /\ Limit[q] # 0 => queries'[q].fulfilling
            BY <1>1, <1>7, <1>9 DEF ShapeInv, AskedOnce
      <2>6. ASSUME NEW c \in 1 .. MaxBatches, NEW i \in batches'[c].asks,
                   i.live, ~i.waits, Limit[i.query] # 0
            PROVE  queries'[i.query].unsatisfied = {}
            <3>1. CASE i \in batches[c].asks
                  <4>1. AskShape(i) /\ i.query \in page /\ queries[i.query].unsatisfied = {}
                        BY <1>1, <2>6, <3>1 DEF ShapeInv, BatchShape, AskShape, AskedOnce
                  <4>2. QED BY <1>7, <1>9, <4>1
            <3>2. CASE i = j
                  BY <1>5, <1>7, <1>9, <2>6, <3>2
            <3>3. QED BY <1>4, <1>6, <1>8, <3>1, <3>2
      <2>7. AskedOnce'
            BY <1>1, <2>5, <2>6 DEF AskedOnce
      <2>8. QED BY <1>1, <1>8, <1>9, <2>3, <2>4, <2>7 DEF ShapeInv, AnswerShape
<1>11. ASSUME still'
      PROVE  SoundInv'
      <2>1. Sto!Active = {b} /\ BatchSound(batches[b])
            BY <1>1, <1>11, Alone
      <2>2. Sto!Active' = {b}
            <3>1. new.pc # "none"
                  BY <1>4, ActiveBatch
            <3>2. QED BY <1>1, <1>2, <2>1, <3>1, OtherBatches
      <2>3. ~counts => GoodBookmark(j)
            BY <1>1, <1>5, <2>1, BookmarkGood DEF BatchSound, AskSound, AskShape
      <2>4. \A i \in new.asks : AskSound(i)
            BY <1>4, <1>5, <1>6, <2>1, <2>3 DEF BatchSound, AskSound
      <2>5. new.pc \notin {"fetching", "read"}
            BY <1>1, <1>4 DEF BatchShape
      <2>6. BatchSound(new)
            BY <1>4, <2>1, <2>4, <2>5 DEF BatchSound
      <2>7. BatchSound(batches[b])'
            BY <1>1, <1>8, <2>6 DEF BatchSound, AskSound, RightPlace, GoodBookmark
      <2>8. Coherent(objects, Arrived)'
            BY <1>1, <1>4, <1>8, <1>11, <2>1, <2>2 DEF ExactInv, SoundInv, Coherent, Arrived
      <2>9. QED BY <2>2, <2>7, <2>8 DEF SoundInv, OneBatch
<1>12. Sto!Exact'
      <2>1. SUFFICES ASSUME still, NEW q \in page, queries'[q].fulfilled = fulfillTimestamp
                     PROVE  IF q \in Counting
                            THEN queries'[q].count = Sto!Cardinality(Sto!RowsOf(db) \cap Filter[q])
                            ELSE queries'[q].value = Sto!FindMatches(db, Filter[q], Limit[q])
            BY <1>1 DEF Sto!Exact
      <2>2. CASE k.live /\ q = k.query /\ counts
            BY <1>7, <1>9, <2>2
      <2>3. CASE ~(k.live /\ q = k.query /\ counts)
            <3>1. /\ queries[q].fulfilled = fulfillTimestamp /\ queries'[q].value = queries[q].value
                  /\ q \in Counting => queries'[q] = queries[q]
                  BY <1>7, <1>9, <2>1, <2>3
            <3>2. QED BY <2>1, <3>1 DEF ExactInv, Sto!Exact
      <2>4. QED BY <2>2, <2>3
<1>13. QED BY <1>10, <1>11, <1>12 DEF ExactInv

-----------------------------------------------------------------------------
\* Steps that answer the queries of a batch from what is held

LEMMA AnswersAre ==
  ASSUME NEW asks, NEW held, NEW q \in Queries
  PROVE  LET a == Sto!Answers(asks, held)[q]
         IN  \/ a = queries[q]
             \/ \E k \in asks : /\ k.live /\ k.query = q
                                /\ a = Sto!Fulfilled(queries[q], Sto!FindMatches(held, Sto!Wanted(k), Limit[q]), 0)
<1> DEFINE mine == {k \in asks : k.live /\ k.query = q}
           k == CHOOSE k \in asks : k.live /\ k.query = q
<1>1. CASE mine = {}
      BY <1>1 DEF Sto!Answers
<1>2. CASE mine # {}
      <2>1. k \in asks /\ k.live /\ k.query = q
            BY <1>2
      <2>2. Sto!Answers(asks, held)[q] = Sto!Fulfilled(queries[q], Sto!FindMatches(held, Sto!Wanted(k), Limit[q]), 0)
            BY <1>2 DEF Sto!Answers
      <2> HIDE DEF k
      <2>3. QED BY <2>1, <2>2
<1>3. QED BY <1>1, <1>2

LEMMA AnswersKeepShape ==
  ASSUME ShapeInv, UNCHANGED <<fulfillTimestamp, page>>, NEW b \in 1 .. MaxBatches,
         \A k \in batches[b].asks : ~k.waits,
         NEW held, queries' = Sto!Answers(batches[b].asks, held),
         batches' = [batches EXCEPT ![b] = Sto!NoBatch]
  PROVE  ShapeInv'
<1> DEFINE Given(q) == /\ queries'[q].fulfilled = fulfillTimestamp
                       /\ queries'[q].unsatisfied = queries[q].unsatisfied
                       /\ DOMAIN queries'[q] = AnswerFields
                       /\ Limit[q] # 0 => queries[q].unsatisfied = {}
<1>1. DOMAIN queries' = Queries
      BY DEF Sto!Answers
<1>2. ASSUME NEW q \in page
      PROVE  queries'[q] = queries[q] \/ Given(q)
      <2>1. q \in Queries /\ DOMAIN queries[q] = AnswerFields
            BY DEF ShapeInv, AnswerShape
      <2>2. SUFFICES ASSUME NEW k \in batches[b].asks, k.live, k.query = q, NEW value,
                            queries'[q] = Sto!Fulfilled(queries[q], value, 0)
                     PROVE  Given(q)
            BY <2>1, AnswersAre
      <2>3. Limit[q] # 0 => queries[q].unsatisfied = {}
            BY <2>2 DEF ShapeInv, AskedOnce
      <2>4. QED BY <2>1, <2>2, <2>3 DEF AnswerFields, Sto!Fulfilled
<1> HIDE DEF Given
<1>3. /\ DOMAIN batches' = 1 .. MaxBatches /\ batches'[b] = Sto!NoBatch
      /\ \A c \in 1 .. MaxBatches \ {b} : batches'[c] = batches[c]
      BY OtherBatches
<1>4. \A c \in 1 .. MaxBatches : BatchShape(batches[c])'
      BY <1>3, NoBatchShape DEF ShapeInv, BatchShape, AskShape
<1>5. \A q \in page : AnswerShape(q, queries'[q])
      BY <1>2 DEF Given, ShapeInv, AnswerShape
<1>6. \A q \in page : queries'[q].unsatisfied # {} /\ Limit[q] # 0 => queries'[q].fulfilling
      BY <1>2 DEF Given, ShapeInv, AskedOnce
<1>7. ASSUME NEW c \in 1 .. MaxBatches, NEW i \in batches'[c].asks,
             i.live, ~i.waits, Limit[i.query] # 0
      PROVE  queries'[i.query].unsatisfied = {}
      <2>1. i \in batches[c].asks
            BY <1>3, <1>7, NoBatchShape
      <2>2. i.query \in page /\ queries[i.query].unsatisfied = {}
            BY <1>7, <2>1 DEF ShapeInv, BatchShape, AskShape, AskedOnce
      <2>3. QED BY <1>2, <2>2 DEF Given
<1>8. AskedOnce'
      BY <1>6, <1>7 DEF AskedOnce
<1>9. QED BY <1>1, <1>3, <1>4, <1>5, <1>8 DEF ShapeInv, AnswerShape

LEMMA AnswersExact ==
  ASSUME ShapeInv, Sto!Exact, still, UNCHANGED <<db, fulfillTimestamp, page>>, NEW b \in 1 .. MaxBatches,
         \A k \in batches[b].asks : ~k.waits,
         NEW held, queries' = Sto!Answers(batches[b].asks, held),
         NEW rows, Coherent(held, rows),
         \A k \in batches[b].asks : Sto!Wanted(k) \subseteq rows /\ AskSound(k)
  PROVE  Sto!Exact'
<1>1. SUFFICES ASSUME NEW q \in page, queries'[q].fulfilled = fulfillTimestamp
               PROVE  IF q \in Counting
                      THEN queries'[q].count = Sto!Cardinality(Sto!RowsOf(db) \cap Filter[q])
                      ELSE queries'[q].value = Sto!FindMatches(db, Filter[q], Limit[q])
      BY DEF Sto!Exact
<1>2. CASE queries'[q] = queries[q]
      BY <1>1, <1>2 DEF Sto!Exact
<1>3. CASE \E k \in batches[b].asks :
              /\ k.live /\ k.query = q
              /\ queries'[q] = Sto!Fulfilled(queries[q], Sto!FindMatches(held, Sto!Wanted(k), Limit[q]), 0)
      <2>1. PICK k \in batches[b].asks :
              /\ k.live /\ k.query = q
              /\ queries'[q] = Sto!Fulfilled(queries[q], Sto!FindMatches(held, Sto!Wanted(k), Limit[q]), 0)
            BY <1>3
      <2>2. AskShape(k) /\ ~k.waits /\ AnswerShape(q, queries[q])
            BY DEF ShapeInv, BatchShape
      <2>3. q \notin Counting /\ GoodBookmark(k)
            BY <2>1, <2>2 DEF AskShape, AskSound
      <2>4. Sto!FindMatches(held, Sto!Wanted(k), Limit[q]) = Sto!FindMatches(db, Sto!Wanted(k), Limit[q])
            BY <2>1, CoherentFinds
      <2>5. queries'[q].value = Sto!FindMatches(held, Sto!Wanted(k), Limit[q])
            BY <2>1, <2>2 DEF AnswerShape, AnswerFields, Sto!Fulfilled
      <2>6. QED BY <2>1, <2>3, <2>4, <2>5 DEF GoodBookmark
<1>4. q \in Queries
      BY DEF ShapeInv
<1>5. QED BY <1>2, <1>3, <1>4, AnswersAre

LEMMA JoinKeeps ==
  ASSUME Sto!StoreAssumption, ExactInv, NEW b \in Sto!Active, Sto!Join(b)
  PROVE  ExactInv'
<1> DEFINE asks == batches[b].asks
           W == UNION {Sto!Wanted(k) : k \in asks}
<1>1. /\ UNCHANGED <<db, objects, fulfillTimestamp, page>> /\ batches[b].pc = "asked"
      /\ \A k \in asks : ~k.waits
      /\ b \in 1 .. MaxBatches /\ BatchShape(batches[b]) /\ ShapeInv /\ Sto!Exact
      BY ActiveBatch DEF Sto!Join, ExactInv, ShapeInv
<1>2. IF W \ combinedFilter = {}
      THEN /\ queries' = Sto!Answers(asks, objects)
           /\ batches' = [batches EXCEPT ![b] = Sto!NoBatch]
           /\ UNCHANGED <<combinedFilter, still>>
      ELSE /\ combinedFilter' = combinedFilter \cup W
           /\ batches' = [batches EXCEPT
                ![b].pc = "fetching", ![b].diff = W \ combinedFilter,
                ![b].deleted = IF combinedFilter = {} THEN {i \in Numbers : objects[i] # Null} ELSE {}]
           /\ still' = (still /\ (combinedFilter = {}
                                  \/ (Sto!RowsOf(objects) \cap (W \ combinedFilter)) \subseteq Sto!RowsOf(db)))
           /\ UNCHANGED queries
      <2>1. /\ Sto!UnionDiff(combinedFilter, W)[1] = combinedFilter \cup W
            /\ Sto!UnionDiff(combinedFilter, W)[2] = W \ combinedFilter
            BY DEF Sto!UnionDiff
      <2>2. QED BY <2>1, Zenon DEF Sto!Join
<1>3. CASE W \ combinedFilter = {}
      <2>1. /\ queries' = Sto!Answers(asks, objects) /\ UNCHANGED <<combinedFilter, still>>
            /\ batches' = [batches EXCEPT ![b] = Sto!NoBatch]
            BY <1>2, <1>3
      <2>2. ShapeInv'
            BY <1>1, <2>1, AnswersKeepShape
      <2>3. ASSUME still
            PROVE  SoundInv' /\ Sto!Exact'
            <3>1. /\ Sto!Active = {b} /\ BatchSound(batches[b])
                  /\ \A r \in combinedFilter : r \in Arrived
                  BY <1>1, <2>3, Alone DEF BatchSound
            <3>2. Coherent(objects, combinedFilter)
                  BY <2>3, <3>1 DEF ExactInv, SoundInv, Coherent
            <3>3. Sto!Active' = {}
                  BY <1>1, <2>1, <3>1, OtherBatches, NoBatchShape
            <3>4. SoundInv'
                  BY <1>1, <2>1, <3>2, <3>3 DEF SoundInv, OneBatch, Arrived, Coherent
            <3>5. \A k \in asks : Sto!Wanted(k) \subseteq combinedFilter /\ AskSound(k)
                  BY <1>3, <3>1 DEF BatchSound
            <3>6. Sto!Exact'
                  BY <1>1, <2>1, <2>3, <3>2, <3>5, AnswersExact
            <3>7. QED BY <3>4, <3>6
      <2>4. QED BY <2>1, <2>2, <2>3 DEF ExactInv, Sto!Exact
<1>4. CASE W \ combinedFilter # {}
      <2> DEFINE deleted == IF combinedFilter = {} THEN {i \in Numbers : objects[i] # Null} ELSE {}
                 new == [batches[b] EXCEPT !.pc = "fetching", !.diff = W \ combinedFilter,
                                           !.deleted = deleted]
      <2>1. /\ combinedFilter' = combinedFilter \cup W /\ UNCHANGED queries
            /\ still' = (still /\ (combinedFilter = {}
                                   \/ (Sto!RowsOf(objects) \cap (W \ combinedFilter)) \subseteq Sto!RowsOf(db)))
            /\ batches' = [batches EXCEPT ![b] = new]
            BY <1>1, <1>2, <1>4 DEF ShapeInv
      <2>2. /\ DOMAIN new = BatchFields /\ new.pc = "fetching" /\ new.diff = W \ combinedFilter
            /\ new.deleted = deleted /\ new.asks = asks /\ new.failed = batches[b].failed
            BY <1>1 DEF BatchShape, BatchFields
      <2> HIDE DEF new
      <2>3. BatchShape(new)
            BY <1>1, <2>2 DEF BatchShape
      <2>4. ShapeInv'
            BY <1>1, <2>1, <2>2, <2>3, ShrinkKeepsShape
      <2>5. ASSUME still'
            PROVE  SoundInv'
            <3>1. /\ still /\ Sto!Active = {b} /\ BatchSound(batches[b])
                  /\ \A r \in combinedFilter : r \in Arrived
                  BY <1>1, <2>1, <2>5, Alone DEF BatchSound
            <3>2. Sto!Active' = {b} /\ batches'[b] = new
                  BY <1>1, <2>1, <2>2, <3>1, OtherBatches
            <3>3. ASSUME NEW r \in new.diff, r \in Sto!RowsOf(objects)
                  PROVE  r \in Sto!RowsOf(db) \/ r[1] \in new.deleted
                  <4>1. CASE combinedFilter = {}
                        <5>1. r[1] \in Numbers /\ objects[r[1]] = r[2] /\ r[2] \in Says
                              BY <3>3 DEF Sto!RowsOf, Sto!Rows
                        <5>2. QED BY <2>2, <4>1, <5>1 DEF Sto!StoreAssumption
                  <4>2. CASE combinedFilter # {}
                        BY <2>1, <2>2, <2>5, <3>3, <4>2
                  <4>3. QED BY <4>1, <4>2
            <3>4. \A k \in new.asks : Sto!Wanted(k) \subseteq combinedFilter' /\ AskSound(k)
                  BY <2>1, <2>2, <3>1 DEF BatchSound
            <3>5. BatchSound(batches[b])'
                  BY <1>1, <2>2, <3>1, <3>2, <3>3, <3>4
                  DEF BatchSound, AskSound, RightPlace, GoodBookmark
            <3>6. \A r \in Arrived' : r \in Arrived
                  BY <2>1, <2>2, <3>1, <3>2 DEF Arrived
            <3>7. Coherent(objects, Arrived)'
                  BY <1>1, <3>1, <3>6 DEF ExactInv, SoundInv, Coherent
            <3>8. QED BY <3>2, <3>5, <3>7 DEF SoundInv, OneBatch
      <2>6. QED BY <1>1, <2>1, <2>4, <2>5 DEF ExactInv, Sto!Exact
<1>5. QED BY <1>3, <1>4

LEMMA ArriveKeeps ==
  ASSUME Sto!StoreAssumption, ExactInv, NEW b \in Sto!Active, Sto!Arrive(b)
  PROVE  ExactInv'
<1> DEFINE batch == batches[b]
           held == Sto!Keep(objects, batch.rows)
           gone == Sto!Dropped(batch, held)
<1>1. /\ UNCHANGED <<db, combinedFilter, fulfillTimestamp, page, still>> /\ batch.pc = "read"
      /\ objects' = [i \in Numbers |-> IF i \in gone THEN Null ELSE held[i]]
      /\ queries' = Sto!Answers(batch.asks, objects')
      /\ batches' = [batches EXCEPT ![b] = Sto!NoBatch]
      /\ b \in 1 .. MaxBatches /\ BatchShape(batch) /\ ShapeInv /\ Sto!Exact
      BY ActiveBatch DEF Sto!Arrive, ExactInv, ShapeInv
<1>2. \A k \in batch.asks : ~k.waits
      BY <1>1 DEF BatchShape
<1>3. ShapeInv'
      BY <1>1, <1>2, AnswersKeepShape
<1>4. ASSUME still
      PROVE  SoundInv' /\ Sto!Exact'
      <2>1. /\ Sto!Active = {b} /\ BatchSound(batch)
            /\ \A r \in combinedFilter : r \notin batch.diff => r \in Arrived
            BY <1>4, Alone
      <2>2. ASSUME NEW r \in combinedFilter
            PROVE  r \in Sto!RowsOf(objects') <=> r \in Sto!RowsOf(db)
            <3>1. CASE r \notin Sto!Rows
                  BY <3>1 DEF Sto!RowsOf
            <3>2. CASE r \in Sto!Rows
                  <4> DEFINE i == r[1]
                             says == r[2]
                  <4>1. i \in Numbers /\ says \in Says /\ r = <<i, says>> /\ says # Null
                        BY <3>2 DEF Sto!Rows, Sto!StoreAssumption
                  <4>2. \A h : r \in Sto!RowsOf(h) <=> h[i] = says
                        BY <3>2 DEF Sto!RowsOf
                  <4>3. \A s \in Says : <<i, s>> \in batch.rows <=> db[i] = s /\ <<i, s>> \in batch.diff
                        BY <1>1, <2>1, <4>1 DEF BatchSound, Sto!RowsOf, Sto!Rows
                  <4>4. held[i] = IF \E s \in Says : <<i, s>> \in batch.rows THEN db[i] ELSE objects[i]
                        <5>1. held[i] = IF \E s \in Says : <<i, s>> \in batch.rows
                                        THEN CHOOSE s \in Says : <<i, s>> \in batch.rows
                                        ELSE objects[i]
                              BY <4>1 DEF Sto!Keep
                        <5>2. QED BY <4>3, <5>1
                  <4>5. objects'[i] = IF i \in gone THEN Null ELSE held[i]
                        BY <1>1, <4>1
                  <4>6. i \in gone => /\ i \in batch.deleted /\ \A s \in Says : <<i, s>> \notin batch.rows
                                      /\ <<i, held[i]>> \in batch.diff
                        <5>1. SUFFICES ASSUME i \in gone
                                       PROVE  /\ i \in batch.deleted
                                              /\ \A s \in Says : <<i, s>> \notin batch.rows
                                              /\ <<i, held[i]>> \in batch.diff
                              OBVIOUS
                        <5>2. /\ i \in batch.deleted /\ i \notin {t[1] : t \in batch.rows}
                              /\ \E s \in Says : held[i] = s /\ <<i, s>> \in batch.diff
                              BY <5>1 DEF Sto!Dropped
                        <5>3. ASSUME NEW s \in Says, <<i, s>> \in batch.rows
                              PROVE  FALSE
                              <6>1. <<i, s>>[1] = i
                                    OBVIOUS
                              <6>2. QED BY <5>2, <5>3, <6>1
                        <5>4. QED BY <5>2, <5>3
                  <4>7. CASE r \notin batch.diff
                        <5>1. objects[i] = says <=> db[i] = says
                              BY <1>4, <2>1, <2>2, <4>2, <4>7 DEF ExactInv, SoundInv, Coherent
                        <5>2. held[i] = says <=> db[i] = says
                              BY <4>1, <4>3, <4>4, <4>7, <5>1
                        <5>3. QED BY <4>1, <4>2, <4>5, <4>6, <4>7, <5>2
                  <4>8. CASE r \in batch.diff /\ db[i] = says
                        <5>1. <<i, says>> \in batch.rows
                              BY <4>1, <4>3, <4>8
                        <5>2. QED BY <4>1, <4>2, <4>4, <4>5, <4>6, <4>8, <5>1
                  <4>9. CASE r \in batch.diff /\ db[i] # says
                        <5>1. CASE \E s \in Says : <<i, s>> \in batch.rows
                              BY <4>1, <4>2, <4>4, <4>5, <4>9, <5>1
                        <5>2. CASE ~ \E s \in Says : <<i, s>> \in batch.rows
                              <6>1. held[i] = objects[i]
                                    BY <4>4, <5>2
                              <6>2. CASE objects[i] # says
                                    BY <4>1, <4>2, <4>5, <4>9, <6>1, <6>2
                              <6>3. CASE objects[i] = says
                                    <7>1. i \in batch.deleted
                                          BY <2>1, <4>2, <4>9, <6>3 DEF BatchSound
                                    <7>2. i \notin {t[1] : t \in batch.rows}
                                          <8>1. SUFFICES ASSUME NEW t \in batch.rows, t[1] = i
                                                         PROVE  FALSE
                                                OBVIOUS
                                          <8>2. t \in Sto!Rows
                                                BY <1>1, <2>1, <8>1 DEF BatchSound, Sto!RowsOf
                                          <8>3. t = <<i, t[2]>> /\ t[2] \in Says
                                                BY <8>1, <8>2 DEF Sto!Rows
                                          <8>4. QED BY <5>2, <8>1, <8>3
                                    <7>3. i \in gone
                                          BY <4>1, <4>9, <6>1, <6>3, <7>1, <7>2 DEF Sto!Dropped
                                    <7>4. QED BY <4>1, <4>2, <4>5, <4>9, <7>3
                              <6>4. QED BY <6>2, <6>3
                        <5>3. QED BY <5>1, <5>2
                  <4>10. QED BY <4>7, <4>8, <4>9
            <3>3. QED BY <3>1, <3>2
      <2>3. Coherent(objects', combinedFilter)
            BY <2>2 DEF Coherent
      <2>4. Sto!Active' = {}
            BY <1>1, <2>1, OtherBatches, NoBatchShape
      <2>5. SoundInv'
            BY <1>1, <2>3, <2>4 DEF SoundInv, OneBatch, Arrived, Coherent
      <2>6. \A k \in batch.asks : Sto!Wanted(k) \subseteq combinedFilter /\ AskSound(k)
            BY <1>1, <2>1 DEF BatchSound
      <2>7. Sto!Exact'
            BY <1>1, <1>2, <1>4, <2>3, <2>6, AnswersExact
      <2>8. QED BY <2>5, <2>7
<1>5. QED BY <1>1, <1>3, <1>4 DEF ExactInv, Sto!Exact

-----------------------------------------------------------------------------
\* A page is drawn

\* What a page is given, whether it made the query before or not.
AskedShape(q, a) ==
    /\ AnswerShape(q, a)
    /\ a.unsatisfied # {} /\ Limit[q] # 0 => a.fulfilling \/ Sto!Unfulfilled(a)

LEMMA AskedIsShaped ==
  ASSUME ShapeInv, NEW q \in Queries
  PROVE  AskedShape(q, Sto!Asked(q))
<1>1. CASE q \in page
      BY <1>1 DEF Sto!Asked, AskedShape, ShapeInv, AskedOnce
<1>2. CASE q \notin page /\ q \in Counting
      BY <1>2 DEF Sto!Asked, Sto!Counted, AskedShape, AnswerShape, AnswerFields, ShapeInv
<1>3. CASE q \notin page /\ q \notin Counting
      <2>1. Sto!Asked(q) = Sto!Fetched(q)
            BY <1>3 DEF Sto!Asked
      <2>2. AnswerShape(q, Sto!Fetched(q))
            BY <1>3 DEF Sto!Fetched, AnswerShape, AnswerFields, ShapeInv
      <2>3. ASSUME Sto!Fetched(q).unsatisfied # {}
            PROVE  Sto!Unfulfilled(Sto!Fetched(q))
            <3>1. Sto!Fetched(q).fulfilled = 0 /\ Sto!Fetched(q).fulfilling = FALSE
                  BY <2>3 DEF Sto!Fetched
            <3>2. QED BY <3>1 DEF Sto!Unfulfilled, ShapeInv
      <2>4. QED BY <2>1, <2>2, <2>3 DEF AskedShape
<1>4. QED BY <1>1, <1>2, <1>3

\* It is right if it says that it is up to date, and if not is asked for from the right place.
LEMMA AskedSound ==
  ASSUME Sto!StoreAssumption, ShapeInv, Sto!Exact, still, NEW q \in Queries,
         q \in page \/ Coherent(objects, combinedFilter)
  PROVE  LET a == Sto!Asked(q)
         IN  /\ a.fulfilled = fulfillTimestamp =>
                  IF q \in Counting THEN a.count = Sto!Cardinality(Sto!RowsOf(db) \cap Filter[q])
                  ELSE a.value = Sto!FindMatches(db, Filter[q], Limit[q])
             /\ q \notin Counting /\ Limit[q] # 0 /\ Sto!Unfulfilled(a) => RightPlace(Sto!Ask(q, a))
<1> DEFINE a == Sto!Asked(q)
<1>1. CASE q \in page
      <2>1. a = queries[q]
            BY <1>1 DEF Sto!Asked
      <2>2. ASSUME Limit[q] # 0, Sto!Unfulfilled(a)
            PROVE  RightPlace(Sto!Ask(q, a))
            <3>1. a.unsatisfied = {}
                  BY <1>1, <2>1, <2>2 DEF ShapeInv, AskedOnce, Sto!Unfulfilled
            <3> DEFINE k == Sto!Ask(q, a)
            <3>2. k.query = q /\ k.of = Filter[q] /\ k.place = Limit[q]
                  BY <3>1 DEF Sto!Ask
            <3> HIDE DEF k
            <3>3. Filter[q] \ k.of = {} /\ Limit[q] \in Nat
                  BY <3>2, QueryType
            <3>4. Cardinality(Sto!RowsOf(db) \cap (Filter[q] \ k.of)) = 0
                  BY <3>3, FS_EmptySet
            <3>5. QED BY <3>2, <3>3, <3>4 DEF RightPlace, k
      <2>3. QED BY <1>1, <2>1, <2>2 DEF Sto!Exact
<1>2. CASE q \notin page /\ q \in Counting
      BY <1>2 DEF Sto!Asked, Sto!Counted, ShapeInv
<1>3. CASE q \notin page /\ q \notin Counting
      <2>1. a = Sto!Fetched(q)
            BY <1>3 DEF Sto!Asked
      <2>2. ASSUME a.fulfilled = fulfillTimestamp
            PROVE  a.unsatisfied = {}
            <3>1. fulfillTimestamp # 0
                  BY DEF ShapeInv
            <3>2. QED BY <2>1, <2>2, <3>1 DEF Sto!Fetched
      <2>3. QED BY <1>3, <2>1, <2>2, FetchedSound
<1>4. QED BY <1>1, <1>2, <1>3

\* The asks of a page that is left go on, and are no longer live.
LEMMA LeaveShape ==
  ASSUME NEW batch, BatchShape(batch), NEW p
  PROVE  LET less == Sto!Leave(batch, p)
         IN  /\ DOMAIN less = BatchFields
             /\ less.pc = batch.pc /\ less.failed = batch.failed /\ less.diff = batch.diff
             /\ less.deleted = batch.deleted /\ less.rows = batch.rows
             /\ \A k \in less.asks : \E i \in batch.asks :
                  /\ DOMAIN k = AskFields /\ k.query = i.query /\ k.waits = i.waits /\ k.of = i.of
                  /\ k.place = i.place /\ k.bookmark = i.bookmark
                  /\ k.live => i.live /\ i.query \in p
<1>1. DOMAIN batch = BatchFields /\ \A i \in batch.asks : DOMAIN i = AskFields
      BY DEF BatchShape, AskShape
<1> DEFINE Left(i) == [i EXCEPT !.live = i.live /\ i.query \in p]
<1>2. ASSUME NEW i \in batch.asks
      PROVE  /\ DOMAIN Left(i) = AskFields /\ Left(i).query = i.query /\ Left(i).waits = i.waits
             /\ Left(i).of = i.of /\ Left(i).place = i.place /\ Left(i).bookmark = i.bookmark
             /\ Left(i).live => i.live /\ i.query \in p
      <2>1. Left(i).live = (i.live /\ i.query \in p)
            BY <1>1 DEF AskFields
      <2>2. QED BY <1>1, <2>1 DEF AskFields
<1>3. Sto!Leave(batch, p) = [batch EXCEPT !.asks = {Left(i) : i \in batch.asks}]
      BY <1>1 DEF Sto!Leave, BatchFields
<1> HIDE DEF Left
<1>4. QED BY <1>1, <1>2, <1>3 DEF BatchFields

LEMMA RenderKeeps ==
  ASSUME Sto!StoreAssumption, ExactInv, NEW p \in Pages, Sto!Render(p)
  PROVE  ExactInv'
<1> DEFINE answers == [q \in p |-> Sto!Asked(q)]
           due == {q \in p : Sto!Unfulfilled(answers[q])}
           f == CHOOSE g \in Sto!Free : \A h \in Sto!Free : g <= h
           new == [Sto!NoBatch EXCEPT !.pc = "asked", !.asks = {Sto!Ask(q, answers[q]) : q \in due}]
           Drawn(q) == [Sto!Asked(q) EXCEPT !.fulfilling = @ \/ q \in due]
<1>1. /\ UNCHANGED <<db, objects, combinedFilter, fulfillTimestamp>> /\ page' = p
      /\ still' = (still /\ (Sto!Active = {} \/ (due = {} /\ p \ page = {})))
      /\ due # {} => Sto!Free # {}
      /\ p \subseteq Queries /\ ShapeInv /\ (still => SoundInv) /\ Sto!Exact
      BY DEF Sto!Render, Sto!StoreAssumption, ExactInv
<1>2. batches' = [b \in 1 .. MaxBatches |-> IF due # {} /\ b = f THEN new
                                            ELSE Sto!Leave(batches[b], p)]
      BY DEF Sto!Render
<1>3. queries' = [q \in Queries |-> IF q \notin p THEN Null
                                    ELSE [answers[q] EXCEPT !.fulfilling = @ \/ q \in due]]
      BY DEF Sto!Render
<1>4. /\ DOMAIN queries' = Queries
      /\ \A q \in p : queries'[q] = Drawn(q)
      BY <1>1, <1>3
<1>5. \A q \in p : AskedShape(q, Sto!Asked(q)) /\ (q \in due <=> Sto!Unfulfilled(Sto!Asked(q)))
      BY <1>1, AskedIsShaped
<1>6. /\ DOMAIN new = BatchFields /\ new.pc = "asked" /\ ~new.failed /\ new.diff = {}
      /\ new.asks = {Sto!Ask(q, Sto!Asked(q)) : q \in due}
      BY DEF Sto!NoBatch, BatchFields
<1>7. \A k \in new.asks : \E q \in due :
         /\ k = Sto!Ask(q, Sto!Asked(q)) /\ DOMAIN k = AskFields /\ k.query = q
         /\ (k.waits <=> q \in Counting \/ Limit[q] > 0) /\ k.bookmark = {}
      <2>1. SUFFICES ASSUME NEW q \in due, NEW k, k = Sto!Ask(q, Sto!Asked(q))
                     PROVE  /\ DOMAIN k = AskFields /\ k.query = q
                            /\ (k.waits <=> q \in Counting \/ Limit[q] > 0) /\ k.bookmark = {}
            BY <1>6
      <2>2. DOMAIN k = AskFields /\ k.query = q /\ k.bookmark = {}
            BY <2>1 DEF Sto!Ask, AskFields
      <2>3. k.waits <=> q \in Counting \/ Limit[q] > 0
            BY <2>1 DEF Sto!Ask
      <2>4. QED BY <2>2, <2>3
<1>8. \A q \in p : /\ DOMAIN Drawn(q) = AnswerFields
                   /\ Drawn(q).fulfilling = (Sto!Asked(q).fulfilling \/ q \in due)
                   /\ Drawn(q).value = Sto!Asked(q).value /\ Drawn(q).count = Sto!Asked(q).count
                   /\ Drawn(q).fulfilled = Sto!Asked(q).fulfilled
                   /\ Drawn(q).unsatisfied = Sto!Asked(q).unsatisfied
      BY <1>5 DEF AskedShape, AnswerShape, AnswerFields
<1>9. \A q \in due : q \in p /\ q \in Queries
      BY <1>1
<1>10. \A b \in 1 .. MaxBatches : batches'[b] = IF due # {} /\ b = f THEN new
                                                ELSE Sto!Leave(batches[b], p)
      BY <1>2
<1>11. DOMAIN batches' = 1 .. MaxBatches
      BY <1>2
<1> HIDE DEF new, Drawn, f, due
<1>12. ShapeInv'
      <2>1. \A q \in p : AnswerShape(q, queries'[q])
            BY <1>4, <1>5, <1>8 DEF AskedShape, AnswerShape
      <2>2. \A b \in 1 .. MaxBatches : BatchShape(batches[b])'
            <3>1. SUFFICES ASSUME NEW b \in 1 .. MaxBatches
                           PROVE  BatchShape(batches[b])'
                  OBVIOUS
            <3>2. CASE batches'[b] = new
                  <4>1. \A k \in new.asks : AskShape(k)'
                        <5>1. SUFFICES ASSUME NEW k \in new.asks PROVE AskShape(k)'
                              OBVIOUS
                        <5>2. PICK q \in due : /\ DOMAIN k = AskFields /\ k.query = q
                                               /\ (k.waits <=> q \in Counting \/ Limit[q] > 0)
                              BY <1>7
                        <5>3. q \in p /\ q \in Queries /\ Limit[q] \in Nat
                              BY <1>9, QueryType
                        <5>4. QED BY <1>1, <5>2, <5>3 DEF AskShape
                  <4>2. QED BY <1>6, <3>2, <4>1 DEF BatchShape
            <3>3. CASE batches'[b] = Sto!Leave(batches[b], p)
                  <4>1. BatchShape(batches[b])
                        BY <1>1 DEF ShapeInv
                  <4>2. \A k \in batches'[b].asks : AskShape(k)'
                        BY <1>1, <3>3, <4>1, LeaveShape DEF BatchShape, AskShape
                  <4>3. batches'[b].pc \in {"fetching", "read"} => \A k \in batches'[b].asks : ~k.waits
                        BY <3>3, <4>1, LeaveShape DEF BatchShape
                  <4>4. DOMAIN batches'[b] = BatchFields
                        BY <3>3, <4>1, LeaveShape
                  <4>5. QED BY <4>2, <4>3, <4>4 DEF BatchShape
            <3>4. QED BY <1>10, <3>2, <3>3
      <2>3. \A q \in p : queries'[q].unsatisfied # {} /\ Limit[q] # 0 => queries'[q].fulfilling
            BY <1>4, <1>5, <1>8 DEF AskedShape
      <2>4. ASSUME NEW b \in 1 .. MaxBatches, NEW k \in batches'[b].asks,
                   k.live, ~k.waits, Limit[k.query] # 0
            PROVE  queries'[k.query].unsatisfied = {}
            <3>1. CASE batches'[b] = new
                  <4>1. PICK q \in due : k.query = q /\ (k.waits <=> q \in Counting \/ Limit[q] > 0)
                        BY <1>7, <3>1
                  <4>2. Limit[q] \in Nat
                        BY <1>9, QueryType
                  <4>3. QED BY <2>4, <4>1, <4>2
            <3>2. CASE batches'[b] = Sto!Leave(batches[b], p)
                  <4>1. BatchShape(batches[b])
                        BY <1>1 DEF ShapeInv
                  <4>2. PICK i \in batches[b].asks :
                           k.query = i.query /\ k.waits = i.waits /\ (k.live => i.live /\ i.query \in p)
                        BY <3>2, <4>1, LeaveShape
                  <4>3. /\ k.query \in page /\ k.query \in p /\ queries[k.query].unsatisfied = {}
                        BY <1>1, <2>4, <4>1, <4>2 DEF ShapeInv, AskedOnce, BatchShape, AskShape
                  <4>4. Sto!Asked(k.query) = queries[k.query]
                        BY <4>3 DEF Sto!Asked
                  <4>5. QED BY <1>4, <1>8, <4>3, <4>4
            <3>3. QED BY <1>10, <3>1, <3>2
      <2>5. AskedOnce'
            BY <1>1, <2>3, <2>4 DEF AskedOnce
      <2>6. QED BY <1>1, <1>4, <1>11, <2>1, <2>2, <2>5 DEF ShapeInv, AnswerShape
<1>13. ASSUME still'
       PROVE  /\ still /\ SoundInv /\ (Sto!Active = {} \/ (due = {} /\ p \ page = {}))
              /\ Sto!Active = {} => Coherent(objects, combinedFilter)
      <2>1. still /\ SoundInv /\ (Sto!Active = {} \/ (due = {} /\ p \ page = {}))
            BY <1>1, <1>13
      <2>2. QED BY <2>1 DEF SoundInv, Arrived, Coherent
<1>14. \A b \in 1 .. MaxBatches : batches'[b].pc = IF due # {} /\ b = f THEN "asked" ELSE batches[b].pc
      BY <1>1, <1>6, <1>10, LeaveShape DEF ShapeInv
<1>15. \A b : b \in Sto!Active' <=> b \in 1 .. MaxBatches /\ batches'[b].pc # "none"
      BY DEF Sto!Active, Sto!Free
<1>16. ASSUME still'
       PROVE  SoundInv'
      <2>1. CASE due = {}
            <3>1. Sto!Active' = Sto!Active
                  BY <1>14, <1>15, <2>1, ActiveBatch
            <3>2. ASSUME NEW b \in Sto!Active
                  PROVE  /\ BatchSound(batches[b])' /\ batches'[b].diff = batches[b].diff
                  <4>1. /\ b \in 1 .. MaxBatches /\ BatchShape(batches[b]) /\ BatchSound(batches[b])
                        /\ batches'[b] = Sto!Leave(batches[b], p)
                        BY <1>1, <1>10, <1>13, <1>16, <2>1, ActiveBatch DEF ShapeInv, SoundInv
                  <4>2. \A k \in batches'[b].asks :
                           /\ AskSound(k)'
                           /\ batches[b].pc \in {"fetching", "read"} => Sto!Wanted(k) \subseteq combinedFilter
                        <5>1. SUFFICES ASSUME NEW k \in batches'[b].asks
                                       PROVE  /\ AskSound(k)'
                                              /\ batches[b].pc \in {"fetching", "read"} =>
                                                   Sto!Wanted(k) \subseteq combinedFilter
                              OBVIOUS
                        <5>2. PICK i \in batches[b].asks :
                                 /\ k.query = i.query /\ k.waits = i.waits /\ k.of = i.of
                                 /\ k.place = i.place /\ k.bookmark = i.bookmark
                              BY <4>1, LeaveShape
                        <5>3. Sto!Wanted(k) = Sto!Wanted(i)
                              BY <5>2 DEF Sto!Wanted
                        <5>4. AskSound(i) /\ (batches[b].pc \in {"fetching", "read"} =>
                                                Sto!Wanted(i) \subseteq combinedFilter)
                              BY <4>1 DEF BatchSound
                        <5>5. AskSound(k)
                              BY <5>2, <5>3, <5>4 DEF AskSound, RightPlace, GoodBookmark
                        <5>6. AskSound(k)'
                              BY <1>1, <5>5 DEF AskSound, RightPlace, GoodBookmark
                        <5>7. QED BY <5>3, <5>4, <5>6
                  <4>3. /\ batches'[b].pc = batches[b].pc /\ batches'[b].failed = batches[b].failed
                        /\ batches'[b].diff = batches[b].diff /\ batches'[b].rows = batches[b].rows
                        /\ batches'[b].deleted = batches[b].deleted
                        BY <4>1, LeaveShape
                  <4>4. QED BY <1>1, <4>1, <4>2, <4>3 DEF BatchSound
            <3>3. Coherent(objects, Arrived)'
                  BY <1>1, <1>13, <1>16, <3>1, <3>2 DEF SoundInv, Coherent, Arrived
            <3>4. QED BY <1>13, <1>16, <3>1, <3>2, <3>3 DEF SoundInv, OneBatch
      <2>2. CASE due # {}
            <3>1. Sto!Active = {} /\ Coherent(objects, combinedFilter)
                  BY <1>13, <1>16, <2>2
            <3>2. \A b \in Sto!Active' : b = f
                  BY <1>14, <1>15, <3>1, ActiveBatch
            <3>3. ASSUME NEW b \in Sto!Active'
                  PROVE  batches'[b] = new
                  BY <1>10, <1>15, <2>2, <3>2, <3>3
            <3>4. \A k \in new.asks : AskSound(k)
                  <4>1. SUFFICES ASSUME NEW k \in new.asks, k.query \notin Counting
                                 PROVE  IF k.waits THEN RightPlace(k) ELSE GoodBookmark(k)
                        BY DEF AskSound
                  <4>2. PICK q \in due : /\ k = Sto!Ask(q, Sto!Asked(q)) /\ k.query = q
                                         /\ (k.waits <=> q \in Counting \/ Limit[q] > 0) /\ k.bookmark = {}
                        BY <1>7
                  <4>3. q \in p /\ q \in Queries /\ Sto!Unfulfilled(Sto!Asked(q))
                        BY <1>5, <1>9
                  <4>4. CASE k.waits
                        <5>1. Limit[q] # 0
                              BY <4>1, <4>2, <4>3, <4>4, QueryType
                        <5>2. RightPlace(Sto!Ask(q, Sto!Asked(q)))
                              BY <1>1, <1>13, <1>16, <3>1, <4>1, <4>2, <4>3, <5>1, AskedSound
                        <5>3. QED BY <4>2, <4>4, <5>2
                  <4>5. CASE ~k.waits
                        BY <4>2, <4>5, NoBookmarkGood
                  <4>6. QED BY <4>4, <4>5
            <3>5. BatchSound(new)
                  BY <1>6, <3>4 DEF BatchSound
            <3>6. \A b \in Sto!Active' : BatchSound(batches[b])'
                  BY <1>1, <3>3, <3>5 DEF BatchSound, AskSound, RightPlace, GoodBookmark
            <3>7. Coherent(objects, Arrived)'
                  BY <1>1, <3>1 DEF Coherent, Arrived
            <3>8. QED BY <3>2, <3>6, <3>7 DEF SoundInv, OneBatch
      <2>3. QED BY <2>1, <2>2
<1>17. Sto!Exact'
      <2>1. SUFFICES ASSUME still', NEW q \in p, queries'[q].fulfilled = fulfillTimestamp
                     PROVE  IF q \in Counting
                            THEN queries'[q].count = Sto!Cardinality(Sto!RowsOf(db) \cap Filter[q])
                            ELSE queries'[q].value = Sto!FindMatches(db, Filter[q], Limit[q])
            BY <1>1 DEF Sto!Exact
      <2>2. still /\ q \in Queries /\ (q \in page \/ Coherent(objects, combinedFilter))
            BY <1>1, <1>13, <2>1
      <2>3. /\ Sto!Asked(q).fulfilled = fulfillTimestamp
            /\ queries'[q].value = Sto!Asked(q).value /\ queries'[q].count = Sto!Asked(q).count
            BY <1>4, <1>8, <2>1
      <2>4. QED BY <1>1, <2>2, <2>3, AskedSound
<1>18. QED BY <1>12, <1>16, <1>17 DEF ExactInv

-----------------------------------------------------------------------------
\* At first nothing is shown.
LEMMA ExactInit ==
  ASSUME Sto!StoreAssumption
  PROVE  Sto!Init => ExactInv
<1> SUFFICES ASSUME Sto!Init PROVE ExactInv
    OBVIOUS
<1>1. /\ page = {} /\ fulfillTimestamp = 1 /\ combinedFilter = {}
      /\ DOMAIN queries = Queries /\ DOMAIN batches = 1 .. MaxBatches
      /\ \A b \in 1 .. MaxBatches : batches[b] = Sto!NoBatch
      BY DEF Sto!Init
<1>2. Sto!Active = {}
      BY <1>1, ActiveBatch, NoBatchShape
<1>3. ShapeInv
      BY <1>1, NoBatchShape DEF ShapeInv, AskedOnce
<1>4. SoundInv
      BY <1>1, <1>2 DEF SoundInv, OneBatch, Arrived, Coherent
<1>5. QED BY <1>1, <1>3, <1>4 DEF ExactInv, Sto!Exact

LEMMA ExactStep ==
  ASSUME Sto!StoreAssumption
  PROVE  ExactInv /\ [Sto!Next]_Sto!vars => ExactInv'
<1> SUFFICES ASSUME ExactInv, [Sto!Next]_Sto!vars PROVE ExactInv'
    OBVIOUS
<1>1. CASE Sto!Next
      <2>1. CASE \E p \in Pages : Sto!Render(p)
            BY <2>1, RenderKeeps
      <2>2. CASE Sto!SetTimestamp
            BY <2>2, SetTimestampKeeps
      <2>3. CASE \E i \in Numbers : Sto!Change(i)
            BY <2>3, ChangeKeeps
      <2>4. CASE \E b \in Sto!Active : Sto!Request(b)
            BY <2>4, NumberKeeps, JoinKeeps, GiveUpKeeps, ReadKeeps, ArriveKeeps DEF Sto!Request
      <2>5. CASE \E b \in Sto!Active : Sto!Fail(b)
            BY <2>5, FailKeeps
      <2>6. QED BY <1>1, <2>1, <2>2, <2>3, <2>4, <2>5 DEF Sto!Next
<1>2. CASE UNCHANGED Sto!vars
      BY <1>2 DEF Sto!vars, Sto!data, ExactInv, ShapeInv, SoundInv, Sto!Exact, AskedOnce, AnswerShape,
                  BatchShape, AskShape, OneBatch, Arrived, Coherent, BatchSound, AskSound,
                  RightPlace, GoodBookmark, Sto!Active, Sto!Free
<1>3. QED BY <1>1, <1>2

(***************************************************************************)
(* What the browser shows as up to date is what the collection has: the    *)
(* queries of a page are given, joined, fetched and paged so that neither  *)
(* the rows held from earlier pages nor the bookmarks of a page shown in   *)
(* part leave one out or keep one too many (fulfill, fetch and paginate of *)
(* ui/store.ts), whatever the queries, filters and limits.                 *)
(***************************************************************************)
THEOREM PagesAlwaysExact ==
  ASSUME Sto!StoreAssumption
  PROVE  Sto!Spec => []Sto!Exact
<1>1. ExactInv => Sto!Exact
      BY DEF ExactInv
<1>2. QED BY ExactInit, ExactStep, <1>1, PTL DEF Sto!Spec

-----------------------------------------------------------------------------
\* The whole (Services)

\* A step of the whole is a step of the part that it is.
LEMMA StepOfService ==
  ASSUME [ServicesNext]_servicesVars
  PROVE  /\ part' = part
         /\ part = "admin" => [Adm!Next]_Adm!vars
         /\ part = "store" => [Sto!Next]_Sto!vars
         /\ part = "workers" => [Wor!Next]_Wor!vars
         /\ part = "tasks" => [Tas!Next]_Tas!vars
<1>1. CASE ServicesNext
      BY <1>1 DEF ServicesNext
<1>2. CASE UNCHANGED servicesVars
      BY <1>2 DEF servicesVars, AdmOnly, StoOnly, WorOnly, TasOnly, Adm!vars, Sto!vars, Sto!data,
                  Wor!vars, Tas!vars
<1>. QED BY <1>1, <1>2

LEMMA ServiceBegins ==
  ASSUME ServicesInit
  PROVE  /\ part = "admin" => Adm!Init
         /\ part = "store" => Sto!Init
         /\ part = "workers" => Wor!Init
         /\ part = "tasks" => Tas!Init
BY DEF ServicesInit

\* Whatever administrators change: a snapshot in use that differs from what is stored is about
\* to be withdrawn (del of "presets_hash" and the others).
THEOREM ServicesAnnounceChanges == ServicesSpec => []Announced
<1> DEFINE Inv == part = "admin" => AnnouncedInv
<1>1. ServicesInit => Inv
      BY ServiceBegins, AnnouncedInit
<1>2. Inv /\ [ServicesNext]_servicesVars => Inv'
      BY StepOfService, AnnouncedStep
<1>3. Inv => Announced
      BY DEF Announced, AnnouncedInv
<1>. QED BY <1>1, <1>2, <1>3, PTL DEF ServicesSpec

\* A preset that was shown and is sent again is stored as it was (preProcessPreset).
THEOREM ServicesPutPresetsBack == ServicesSpec => RoundTrip
<1> DEFINE Inv == part = "admin" => PresetInv
<1>1. ServicesInit => Inv
      BY ServiceBegins, PresetInit, ServicesAssumption
<1>2. Inv /\ [ServicesNext]_servicesVars => Inv'
      BY StepOfService, PresetStep, ServicesAssumption
<1>3. Inv => (part = "admin" => Adm!PutBack)
      BY PutBackByInvariant, ServicesAssumption
<1>. QED BY <1>1, <1>2, <1>3, PTL DEF ServicesSpec, RoundTrip

\* A page that says it is up to date shows what the collection has (fulfill of ui/store.ts).
THEOREM ServicesShowExactPages == ServicesSpec => []Exact
<1> DEFINE Inv == part = "store" => ExactInv
<1>1. ServicesInit => Inv
      BY ServiceBegins, ExactInit, ServicesAssumption
<1>2. Inv /\ [ServicesNext]_servicesVars => Inv'
      BY StepOfService, ExactStep, ServicesAssumption
<1>3. Inv => Exact
      BY DEF Exact, ExactInv
<1>. QED BY <1>1, <1>2, <1>3, PTL DEF ServicesSpec

\* No worker is lost, and none is forked again too soon after another (restartWorker).
THEOREM ServicesKeepWorkers == ServicesSpec => []Manned
<1> DEFINE Inv == part = "workers" => CountInv /\ ThrottleInv
<1>1. ServicesInit => Inv
      BY ServiceBegins, CountInit, ThrottleInit, ServicesAssumption
<1>2. Inv /\ [ServicesNext]_servicesVars => Inv'
      BY StepOfService, CountStep, ThrottleStep, ServicesAssumption
<1>3. Inv => Manned
      BY MannedByInvariant, ServicesAssumption DEF Manned, ThrottleInv
<1>. QED BY <1>1, <1>2, <1>3, PTL DEF ServicesSpec

\* A task is posted by one request at a time, and the queue of tasks is bounded (commit).
THEOREM ServicesPostOnce == ServicesSpec => []QueueSound
<1> DEFINE Inv == part = "tasks" => QueueInv
<1>1. ServicesInit => Inv
      BY ServiceBegins, QueueInit, ServicesAssumption
<1>2. Inv /\ [ServicesNext]_servicesVars => Inv'
      BY StepOfService, QueueStep, ServicesAssumption
<1>3. Inv => QueueSound
      BY QueueByInvariant, ServicesAssumption DEF QueueSound
<1>. QED BY <1>1, <1>2, <1>3, PTL DEF ServicesSpec
=============================================================================
