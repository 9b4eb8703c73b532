----------------------------- MODULE MCServices -----------------------------
(***************************************************************************)
(* An instance of Services for TLC.                                        *)
(***************************************************************************)
EXTENDS Services, TLC

\* A request over HTTP and UDP, and two that share a client of the XMPP server.
Cred(user, right) == [user |-> user, right |-> right]
Configured ==
    [h |-> <<Cred("", FALSE), Cred("a", TRUE)>>,
     x |-> <<Cred("a", FALSE), Cred("b", TRUE)>>, y |-> <<Cred("a", TRUE)>>]

\* An administrator and one who may only look at the settings, besides the other interface;
\* two requests.  Presets with old, odd and bad parts: events "a, b" and "-c", spaces, signs
\* and nothing between commas; a weight in words; arguments that are empty, that are read as
\* others, that do not parse; two configurations, or none.
Name(space, dashes, text) == [space |-> space, dashes |-> dashes, text |-> text]
Boot == Name(FALSE, 0, "boot")
Odd == Name(TRUE, 1, "odd")
Weight(as, value) == [as |-> as, value |-> value]
Config(args) == [type |-> "provision", name |-> "q", args |-> args]
Preset(precondition, weight, events, configurations) ==
    [precondition |-> precondition, weight |-> weight, events |-> events,
     configurations |-> configurations]
Shown(precondition, weight, events, args) ==
    [precondition |-> precondition, weight |-> weight, events |-> events, provision |-> {"p"},
     provisionArgs |-> args]
Documents ==
    [presets |->
        [ui |-> {Shown("true", Weight("text", 2), {Name(FALSE, 1, "boot"), Name(TRUE, 2, "odd")}, {<<"verbose">>}),
                 Shown("true", Weight("number", 0), {Boot, Name(TRUE, 1, "boot"), Name(FALSE, 0, "")}, {}),
                 Shown("true", Weight("number", 0), {}, {<<"bad">>}),
                 Shown("bad", Weight("number", 0), {}, {})},
         nbi |-> {Preset("old", Weight("text", 1), (<<Boot>> :> FALSE @@ <<Name(FALSE, 2, "odd")>> :> FALSE),
                         {<<Config({<<>>})>>}),
                  Preset("true", Weight("number", 1), (<<Boot, Odd>> :> FALSE @@ <<Odd>> :> TRUE),
                         {<<Config({<<"verbose", "x">>})>>}),
                  Preset("true", Weight("number", 1), (<<Boot>> :> TRUE), {<<Config({}), Config({})>>}),
                  Preset("true", Weight("number", 1), (<<Boot>> :> TRUE), {})}],
     users |-> [ui |-> {[roles |-> {"admin"}]}, nbi |-> {}],
     virtualParameters |-> [ui |-> {"v", "bad"}, nbi |-> {"v", "bad"}],
     files |-> [ui |-> {"f"}, nbi |-> {"g"}],
     devices |-> [ui |-> {[add |-> {"t"}, pull |-> {}], [add |-> {"t"}, pull |-> {"s"}]},
                  nbi |-> {[add |-> {}, pull |-> {"t"}]}],
     config |-> [ui |-> {"on"}, nbi |-> {}]]
Accounts == {"admin", "user"}
MayChange == [c \in Accounts |-> [r \in DOMAIN Documents |->
                 IF r = "config" /\ c = "user" THEN 1 ELSE 3]]
NothingHidden == [c \in Accounts |-> {}]

\* Two objects, queries with a limit of one, of two and for a number, on two pages.
AllRows == [q \in {"one", "two", "n"} |-> {1, 2} \X {"a"}]
Limits == [one |-> 1, two |-> 2, n |-> 0]

\* Two devices, two tasks staged as one edit, one queued alone, one that summons.
Devices == [a |-> "d1", b |-> "d2", c |-> "d1", s |-> "d1"]

\* What the configuration refers to is the name of a definition: TLC evaluates the definition
\* itself once, but the body of the one a constant is given every time.
MCAuthExp == Configured
MCBodies == Documents
MCAccess == MayChange
MCHidden == NothingHidden
MCFilter == AllRows
MCLimit == Limits
MCDeviceOf == Devices
=============================================================================
