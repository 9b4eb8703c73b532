------------------------- MODULE ConnectionRequests -------------------------
(***************************************************************************)
(* Connection requests: the ACS asks a device to open a session            *)
(* (connectionRequest of lib/api-functions.ts) over HTTP, or over XMPP     *)
(* with one client for the whole process (lib/xmpp-client.ts), and over    *)
(* UDP besides.  The device may want credentials; those configured are     *)
(* tried one after the other (lib/connection-request.ts).                  *)
(***************************************************************************)
EXTENDS Naturals, Sequences, FiniteSets

CONSTANTS
    Requests,
    ViaXmpp, WithUdp,   \* the requests to devices with a Jabber ID, or with a UDP address
    AuthExp,            \* what the configured expression yields for each: its credentials,
                        \* [user |-> a name or "", right |-> whether the device accepts them]
    AllowBasic,         \* cwmp.connectionRequestAllowBasicAuth
    Closed              \* "closed", no request

ASSUME RequestsAssumption ==
    /\ ViaXmpp \subseteq Requests /\ WithUdp \subseteq Requests
    /\ AuthExp \in [Requests -> Seq([user : STRING, right : BOOLEAN])]
    /\ AllowBasic \in BOOLEAN
    /\ Closed \notin Requests

VARIABLES
    pc,         \* what each request is at
    left,       \* the credentials that it has not taken yet, for HTTP or XMPP and for UDP
    using,      \* those it uses: none or one
    method,     \* how the device wants them: "none" before it asked
    status,     \* what the request is answered: "" if the device has been asked
    udp,        \* "none", "sending", "sent" or "failed"
    reached,    \* the device has accepted the request
    tried,      \* the credentials that were sent
    retried,    \* the request was sent again after an error
    stage,      \* the client that each request has opened: "none", the stage of its opening,
                \* "up", "cut" off by the server or "gone"
    xmppClient, \* the client in use, by the request that opened it
    via         \* the client that each request was sent with

vars == <<pc, left, using, method, status, udp, reached, tried, retried, stage, xmppClient, via>>

Init ==
    /\ pc = [r \in Requests |-> "start"]
    /\ left = [r \in Requests |-> [main |-> AuthExp[r], udp |-> AuthExp[r]]]
    /\ using = [r \in Requests |-> {}]
    /\ method = [r \in Requests |-> "none"]
    /\ status = [r \in Requests |-> "none"]
    /\ udp = [r \in Requests |-> "none"]
    /\ reached = [r \in Requests |-> FALSE]
    /\ tried = [r \in Requests |-> {}]
    /\ retried = [r \in Requests |-> FALSE]
    /\ stage = [r \in Requests |-> "none"]
    /\ xmppClient = Closed
    /\ via = [r \in Requests |-> Closed]

\* Mutant: two credentials are taken at a time
ExtractAuthTwice(exp) ==
    IF exp = <<>> THEN [creds |-> {}, rest |-> exp]
    ELSE [creds |-> {exp[1]}, rest |-> SubSeq(exp, 3, Len(exp))]

\* extractAuth takes the first credentials with a user name; those without one that come
\* before it are passed over.
ExtractAuth(exp) ==
    LET named == {i \in DOMAIN exp : exp[i].user # ""}
        i == IF named = {} THEN Len(exp) ELSE CHOOSE i \in named : \A j \in named : i <= j
    IN  IF exp = <<>> THEN [creds |-> {}, rest |-> exp]
        ELSE [creds |-> {exp[i]}, rest |-> SubSeq(exp, i + 1, Len(exp))]

Take(r) ==
    LET e == ExtractAuth(left[r].main)
    IN  /\ using' = [using EXCEPT ![r] = e.creds]
        /\ left' = [left EXCEPT ![r].main = e.rest]

\* The function that was asked returns.
Return(r, s) == pc' = [pc EXCEPT ![r] = "await"] /\ status' = [status EXCEPT ![r] = s]
Incorrect == "Incorrect connection request credentials"
Offline == "Device is offline"
Error == "Connection request error"

Goto(r, l) == pc' = [pc EXCEPT ![r] = l] /\ UNCHANGED status

Accepted(r) == reached' = [reached EXCEPT ![r] = TRUE]

-----------------------------------------------------------------------------
\* connectionRequest: the URL must be one; UDP is started besides, and what is answered
\* waits for it.
Start(r) ==
    /\ pc[r] = "start"
    /\ \/ pc' = [pc EXCEPT ![r] = "done"] /\ status' = [status EXCEPT ![r] = "Invalid connection request URL"]
          /\ UNCHANGED udp
       \/ /\ Goto(r, IF r \in ViaXmpp THEN "client" ELSE "get")
          /\ udp' = [udp EXCEPT ![r] = IF r \in WithUdp THEN "sending" ELSE "none"]
    /\ UNCHANGED <<left, using, method, reached, tried, retried, stage, xmppClient, via>>

Finish(r) ==
    /\ pc[r] = "await" /\ udp[r] # "sending"
    /\ pc' = [pc EXCEPT ![r] = "done"]
    /\ status' = [status EXCEPT ![r] = IF udp[r] = "sent" THEN "" ELSE @]
    /\ UNCHANGED <<left, using, method, udp, reached, tried, retried, stage, xmppClient, via>>

\* A datagram, three times, with each of the credentials, or with none if there are none.
SendUdp(r) ==
    LET e == ExtractAuth(left[r].udp)
    IN  /\ udp[r] = "sending"
        /\ left' = [left EXCEPT ![r].udp = e.rest]
        /\ udp' = [udp EXCEPT ![r] = IF ExtractAuth(e.rest).creds = {} THEN "sent" ELSE @]
        /\ UNCHANGED <<pc, using, method, status, reached, tried, retried, stage, xmppClient, via>>

UdpFails(r) ==
    /\ udp[r] = "sending"
    /\ udp' = [udp EXCEPT ![r] = "failed"]
    /\ UNCHANGED <<pc, left, using, method, status, reached, tried, retried, stage, xmppClient, via>>

-----------------------------------------------------------------------------
\* HTTP

\* What a device answers: it accepts right credentials and refuses others, and may accept
\* a request without any.
Responses(r) ==
    {"unavailable", "unexpected"} \cup
    (IF method[r] = "none" THEN {"ok", "Basic", "Digest", "other", "unparsable"}
     ELSE IF \E c \in using[r] : c.right THEN {"ok"} ELSE {method[r]})

Refused(r) ==
    IF method[r] = "Basic" /\ ~AllowBasic THEN {"Basic HTTP authentication not allowed"}
    ELSE IF method[r] = "other" THEN {"Unrecognized auth method"} ELSE {}

Sent(r) == tried' = [tried EXCEPT ![r] = @ \cup using[r]]

HttpGet(r) ==
    /\ pc[r] = "get" /\ Refused(r) = {}
    /\ Sent(r)
    /\ \E response \in Responses(r) :
          CASE response = "ok" -> /\ Return(r, "") /\ Accepted(r)
                                  /\ UNCHANGED <<left, using, method>>
            [] response = "unavailable" -> Return(r, Offline) /\ UNCHANGED <<left, using, method, reached>>
            [] response \in {"unexpected", "unparsable"} ->
                    Return(r, Error) /\ UNCHANGED <<left, using, method, reached>>
            [] response \in {"Basic", "Digest", "other"} ->
                    /\ method' = [method EXCEPT ![r] = response]
                    /\ Take(r)
                    /\ IF using'[r] = {} THEN Return(r, Incorrect) ELSE Goto(r, "get")
                    /\ UNCHANGED reached
    /\ UNCHANGED <<udp, retried, stage, xmppClient, via>>

NotSent(r) ==
    /\ pc[r] = "get"
    /\ \E s \in Refused(r) : Return(r, s)
    /\ UNCHANGED <<left, using, method, udp, reached, tried, retried, stage, xmppClient, via>>

\* The connection fails, or nothing comes in time.  With credentials it is tried once more.
HttpFails(r) ==
    /\ pc[r] = "get" /\ Refused(r) = {}
    /\ IF method[r] = "none" THEN \E s \in {Offline, Error} : Return(r, s)
       ELSE Goto(r, "again")
    /\ UNCHANGED <<left, using, method, udp, reached, tried, retried, stage, xmppClient, via>>

\* Whatever comes of the second attempt, the error of the first is what is returned.
HttpAgain(r) ==
    /\ pc[r] = "again"
    /\ retried' = [retried EXCEPT ![r] = TRUE]
    /\ \E s \in {Offline, Error} : Return(r, s)
    /\ \/ "ok" \in Responses(r) /\ Accepted(r) /\ Sent(r)
       \/ UNCHANGED <<reached, tried>>
    /\ UNCHANGED <<left, using, method, udp, stage, xmppClient, via>>

-----------------------------------------------------------------------------
\* XMPP: opening the client

Client(r) ==
    /\ pc[r] = "client"
    /\ IF xmppClient = Closed
       THEN Goto(r, "opening") /\ stage' = [stage EXCEPT ![r] = "connect"]
       ELSE Goto(r, "first") /\ UNCHANGED stage
    /\ UNCHANGED <<left, using, method, udp, reached, tried, retried, xmppClient, via>>

\* The stages, and what the server may let follow each: the features of a stream decide
\* between encryption, the two ways to log in, and the binding of the resource.
Follows ==
    [connect |-> {"stream"}, stream |-> {"starttls", "plain", "scram", "up"},
     starttls |-> {"secure"}, secure |-> {"plain", "scram", "up"},
     plain |-> {"authorized"}, scram |-> {"challenge"}, challenge |-> {"authorized"},
     authorized |-> {"bind", "up"}, bind |-> {"up"}]

Open(r) ==
    /\ pc[r] = "opening"
    /\ \E next \in Follows[stage[r]] :
          /\ stage' = [stage EXCEPT ![r] = next]
          /\ IF next = "up" THEN xmppClient' = r /\ Goto(r, "first") ELSE UNCHANGED <<xmppClient, pc, status>>
    /\ UNCHANGED <<left, using, method, udp, reached, tried, retried, via>>

\* Something else comes, or the connection reports an error: the socket is destroyed, and the
\* request throws without waiting for UDP.
OpenFails(r) ==
    /\ pc[r] = "opening"
    /\ stage' = [stage EXCEPT ![r] = "gone"]
    /\ pc' = [pc EXCEPT ![r] = "done"] /\ status' = [status EXCEPT ![r] = "thrown"]
    /\ UNCHANGED <<left, using, method, udp, reached, tried, retried, xmppClient, via>>

\* A stanza with the first or the next credentials.
Stanza(r) ==
    /\ pc[r] \in {"first", "next"}
    /\ Take(r)
    /\ IF using'[r] = {} THEN Return(r, Incorrect) ELSE Goto(r, "send")
    /\ UNCHANGED <<method, udp, reached, tried, retried, stage, xmppClient, via>>

\* The client may be gone when the credentials are there.
SendIq(r) ==
    /\ pc[r] = "send"
    /\ IF xmppClient = Closed
       THEN Return(r, Error) /\ UNCHANGED <<via, tried>>
       ELSE /\ Goto(r, "waiting") /\ Sent(r)
            /\ via' = [via EXCEPT ![r] = xmppClient]
    /\ UNCHANGED <<left, using, method, udp, reached, retried, stage, xmppClient>>

Reply(r) ==
    /\ pc[r] = "waiting" /\ stage[via[r]] = "up"
    /\ \/ /\ \E c \in using[r] : c.right
          /\ Return(r, "") /\ Accepted(r)
       \/ /\ \A c \in using[r] : ~c.right
          /\ Goto(r, "next") /\ UNCHANGED reached
       \/ \E s \in {Offline, Error} : Return(r, s) /\ UNCHANGED reached
    /\ UNCHANGED <<left, using, method, udp, tried, retried, stage, xmppClient, via>>

\* Mutant: the timer is kept by the client
TimesOutOnline(r) == pc[r] = "waiting" /\ stage[via[r]] = "up"

TimesOut(r) == pc[r] = "waiting"

IqTimeout(r) ==
    /\ TimesOut(r)
    /\ Return(r, Error)
    /\ UNCHANGED <<left, using, method, udp, reached, tried, retried, stage, xmppClient, via>>

\* Mutant: only an error lets go of the client
LetGoOnError(error) == IF error THEN Closed ELSE xmppClient

LetGo(error) == Closed

\* A client closes when it was idle for long or the server ends the stream; the requests it
\* was to answer wait for their time-outs.  After an error they are told; a client that was
\* cut off reports one only if it is written to before its socket is destroyed.  Whichever
\* client it was, none is in use then.
ClientGone(c, error) ==
    /\ \/ stage[c] = "up"
       \/ stage[c] = "cut" /\ error /\ \E r \in Requests : pc[r] = "waiting" /\ via[r] = c
    /\ stage' = [stage EXCEPT ![c] = "gone"]
    /\ xmppClient' = LetGo(error)
    /\ LET told == {r \in Requests : error /\ pc[r] = "waiting" /\ via[r] = c}
       IN  /\ pc' = [r \in Requests |-> IF r \in told THEN "await" ELSE pc[r]]
           /\ status' = [r \in Requests |-> IF r \in told THEN Error ELSE status[r]]
    /\ UNCHANGED <<left, using, method, udp, reached, tried, retried, via>>

\* The server closes the connection without ending the stream: nobody listens for that, and
\* the client stays in use.
ClientCut(c) ==
    /\ stage[c] = "up"
    /\ stage' = [stage EXCEPT ![c] = "cut"]
    /\ UNCHANGED <<pc, left, using, method, status, udp, reached, tried, retried, xmppClient, via>>

-----------------------------------------------------------------------------
Step(r) ==
    \/ Start(r) \/ Finish(r) \/ SendUdp(r) \/ UdpFails(r)
    \/ HttpGet(r) \/ NotSent(r) \/ HttpFails(r) \/ HttpAgain(r)
    \/ Client(r) \/ Stanza(r) \/ SendIq(r) \/ Reply(r) \/ IqTimeout(r)

Next ==
    \/ \E r \in Requests : Step(r) \/ Open(r) \/ OpenFails(r)
    \/ \E c \in Requests : ClientCut(c) \/ \E error \in BOOLEAN : ClientGone(c, error)

\* The ACS goes on, its timers fire, and an attempt to connect comes to something.  A server
\* that is connected owes nothing: while a stream is being opened there is no time-out, and
\* nobody listens for the end of the connection.
Goes(r) == Step(r) \/ (stage[r] = "connect" /\ (Open(r) \/ OpenFails(r)))

Spec == Init /\ [][Next]_vars /\ \A r \in Requests : WF_vars(Goes(r))

-----------------------------------------------------------------------------
\* Properties

Done(r) == pc[r] = "done"

\* A request that is answered without an error has reached the device, or datagrams were
\* sent; one that is answered that the credentials are wrong has tried all of them that have
\* a user name, and none was right.
Truthful ==
    \A r \in Requests : Done(r) =>
        /\ status[r] = "" => reached[r] \/ udp[r] = "sent"
        /\ status[r] = Incorrect =>
              \A i \in DOMAIN AuthExp[r] : AuthExp[r][i].user # "" => AuthExp[r][i] \in tried[r] /\ ~AuthExp[r][i].right

\* The client in use has neither closed nor reported an error, whichever of the clients that
\* requests opened at the same time did.  One that was cut off stays in use: see ClientCut.
ClientOpen == xmppClient # Closed => stage[xmppClient] \in {"up", "cut"}

\* A request that waits for the server to go on with the stream that it opens.
Pending(r) == pc[r] = "opening" /\ stage[r] # "connect"

\* "Timeout for HTTP/XMPP connection request attempts" (claudedocs/NBI-API-INTEGRATION-GUIDE.md,
\* cwmp.connectionRequestTimeout): no attempt lasts for ever.
\* Does not hold: a request may wait for ever for the stream that it opens.
AllTimeOut == \A r \in Requests : <>Done(r)

\* Devices that close the connection unexpectedly are asked again: a request that the device
\* has accepted then is answered without an error.  Does not hold: see HttpAgain.
RetryReported == \A r \in Requests : Done(r) /\ retried[r] /\ reached[r] => status[r] = ""
=============================================================================
