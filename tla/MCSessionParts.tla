--------------------------- MODULE MCSessionParts ---------------------------
(***************************************************************************)
(* An instance of SessionParts for TLC.                                    *)
(***************************************************************************)
EXTENDS SessionParts, TLC

\* A session of two scripts that commit, call extensions and log, and one with a script
\* that throws.
St(op, arg) == [op |-> op, arg |-> arg]
TwoSessions ==
    [a |-> <<St("log", 0), St("ext", "x"), St("log", 0), St("ext", "y"), St("declare", 0),
             St("log", 0), St("read", 0), St("declare", 0), St("log", 0)>>,
     b |-> <<St("ext", "x"), St("declare", 0), St("read", 0), St("ext", "x"),
             St("declare", 0), St("log", 0)>>,
     c |-> <<St("log", 0), St("ext", "x"), St("log", 0), St("throw", 0)>>]
ScriptsOfTwo == [s1 |-> {"a", "b"}, s2 |-> {"c"}]

\* Two sessions of a device that has an object with a parameter, the object alone, or a
\* parameter in its place.
A == <<"A">>
X == <<"A", "x">>
ObjectOrValue ==
    {(A :> "object") @@ (X :> "u"), (A :> "object"), (A :> "v"), (A :> "object") @@ (X :> "v")}
OnlyValue == {(A :> "v")}

\* Three instance numbers, of which the device uses the last only later or as far as was
\* known before, two values, and scenarios in the manner of the scripts and of
\* the default provisions.
Decl(path, alias, get, value, set, count) ==
    [path |-> path, alias |-> alias, get |-> get, value |-> value, set |-> set, count |-> count]

Time == 2
All == <<"D", "*", "a">>
Every == <<"D", "*">>
None == <<>>
SetAll == Decl(All, None, Time, Time, {"w"}, {})
SetOne1 == Decl(<<"D", "1", "a">>, None, Time, Time, {"w"}, {})
OneOfValue == Decl(Every, [a |-> "w"], Time, 0, {}, {<<1, 1>>})
NoneOfValue == Decl(Every, [a |-> "w"], Time, 0, {}, {<<0, 0>>})
OneInstance == Decl(Every, None, Time, 0, {}, {<<1, 1>>})
NotTheFirst == Decl(<<"D", "1">>, None, Time, 0, {}, {<<0, 0>>})
StaleSet == Decl(All, None, 1, 1, {"w"}, {})

Scene(decls, reboot) == [decls |-> decls, reboot |-> reboot]
Scenes ==
    {Scene(<<SetAll>>, Time), Scene(<<StaleSet>>, 1), Scene(<<SetOne1>>, 0),
     Scene(<<NoneOfValue>>, 0), Scene(<<OneInstance, SetAll>>, 0),
     Scene(<<NotTheFirst>>, 0), Scene(<<OneOfValue, OneOfValue>>, 0)}

\* What the configuration refers to is the name of a definition: TLC evaluates the definition
\* itself once, but the body of the one a constant is given every time.
MCCode == TwoSessions
MCScriptsOf == ScriptsOfTwo
MCStored == ObjectOrValue
MCTagged == OnlyValue
MCScenarios == Scenes
MCNumbers == <<"1", "2", "3">>

MCInit == PartsInit /\ (part = "discovery" => "3" \notin DOMAIN device.a)
MCSpec == MCInit /\ [][PartsNext]_partsVars /\ Fairness
=============================================================================
