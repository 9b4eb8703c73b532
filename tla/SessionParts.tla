---------------------------- MODULE SessionParts ----------------------------
(***************************************************************************)
(* Four parts of a session that share nothing but the session: downloads   *)
(* (Operations), the sandbox (Scripts), declarations (Discovery) and what  *)
(* is loaded and saved (Persistence).  A behaviour is one of one of them,  *)
(* told by `part`.  The variables of Operations stay as they begin in the  *)
(* other parts; those of the other parts are Unused outside them.          *)
(***************************************************************************)
EXTENDS Operations, Integers, Sequences

CONSTANTS
    Null, Unused,
    \* Scripts
    Sessions, ScriptsOf, Code, Answers, MaxCrashes,
    \* Discovery
    Numbers, Values, Default, Scenarios, NextLevel, BatchSize, MaxCommits, MaxDrift,
    \* Persistence
    Stored, Tags, Tagged, MaxSessions

VARIABLES
    part,
    \* Scripts
    revision, cache, run, logged, jobs, child, wire, settling, numbered, crashes,
    \* Discovery
    rebooted, declared, sync, request, commits, drift,
    \* Persistence
    doc, tags, now, dataTags, base, baseTags, held, asked,
    \* of both
    device, data, phase

Box == INSTANCE Scripts WITH Values <- Answers
Disc == INSTANCE Discovery WITH cpe <- device
Pers == INSTANCE Persistence WITH Models <- Stored, cpe <- device

ASSUME PartsAssumption ==
    Box!ScriptsAssumption /\ Pers!PersistenceAssumption /\ Disc!DiscoveryAssumption

-----------------------------------------------------------------------------
BoxOnly == <<revision, cache, run, logged, jobs, child, wire, settling, numbered, crashes>>
DiscOnly == <<rebooted, declared, sync, request, commits, drift>>
PersOnly == <<doc, tags, now, dataTags, base, baseTags, held, asked>>
Others == <<DiscOnly, PersOnly, BoxOnly, device, data, phase>>
partsVars == <<part, vars, Others>>

NoBox ==
    /\ revision = Unused /\ cache = Unused /\ run = Unused /\ logged = Unused
    /\ jobs = Unused /\ child = Unused /\ wire = Unused /\ settling = Unused
    /\ numbered = Unused /\ crashes = Unused
NoDisc ==
    /\ rebooted = Unused /\ declared = Unused /\ sync = Unused /\ request = Unused
    /\ commits = Unused /\ drift = Unused
NoPers ==
    /\ doc = Unused /\ tags = Unused /\ now = Unused /\ dataTags = Unused
    /\ base = Unused /\ baseTags = Unused /\ held = Unused /\ asked = Unused

\* Downloads do not begin outside their part: one initial state is enough.
NoOps == Init /\ successOnTimeout = CHOOSE option \in Options : TRUE

PartsInit ==
    \/ part = "operations" /\ Init /\ NoDisc /\ NoPers /\ NoBox
       /\ device = Unused /\ data = Unused /\ phase = Unused
    \/ part = "scripts" /\ Box!Init /\ NoOps /\ NoDisc /\ NoPers
       /\ device = Unused /\ data = Unused /\ phase = Unused
    \/ part = "discovery" /\ Disc!Init /\ NoOps /\ NoPers /\ NoBox
    \/ part = "persistence" /\ Pers!Init /\ NoOps /\ NoDisc /\ NoBox

PartsNext ==
    /\ UNCHANGED part
    /\ \/ part = "operations" /\ Next /\ UNCHANGED Others
       \/ part = "scripts" /\ Box!Next
          /\ UNCHANGED <<vars, DiscOnly, PersOnly, device, data, phase>>
       \/ part = "discovery" /\ Disc!Next
          /\ UNCHANGED <<vars, PersOnly, BoxOnly>>
       \/ part = "persistence" /\ Pers!Next
          /\ UNCHANGED <<vars, DiscOnly, BoxOnly>>

\* The fairness of each part: the ACS goes on, the process of an extension need not.
Fairness ==
    /\ WF_BoxOnly(part = "scripts" /\ Box!Acs)
    /\ WF_<<phase, commits>>(part = "discovery" /\ Disc!Advance)

PartsSpec == PartsInit /\ [][PartsNext]_partsVars /\ Fairness

-----------------------------------------------------------------------------
\* Properties: those of Operations, and those of the other modules, each of the behaviours
\* of its part.

\* However often a script is run again, what it logs is logged once (Scripts).
LoggedOnce == part = "scripts" => Box!LoggedOnce
\* Every script comes to its end or to a fault, whatever becomes of the extension (Scripts).
Finishes == \A s \in Sessions : <>(part = "scripts" => Box!Finished(s))

\* What is to be written is known (Discovery).
KnownWhenWritten == part = "discovery" => Disc!KnownWhenWritten
\* When the declarations are done the device has what they say, and what is known of it is
\* so (Discovery).
Fulfilled == part = "discovery" => Disc!Fulfilled /\ Disc!Truthful
\* Reading and writing come to an end (Discovery).
Settles == <>(part = "discovery" => phase = "done")

\* What a session saves the next one finds, and administrators are shown (Persistence).
SavedWhole == part = "persistence" => Pers!RoundTrip /\ Pers!ShownAsKnown
\* Tags that administrators change while a session has the device are kept (Persistence).
TagsMerged == part = "persistence" => Pers!TagsMerged
=============================================================================
