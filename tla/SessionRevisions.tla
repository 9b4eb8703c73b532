-------------------------- MODULE SessionRevisions --------------------------
(***************************************************************************)
(* How a session uses the revisions of its device data: rpcRequest of      *)
(* lib/session.ts runs the provisions, descends into virtual parameters,   *)
(* commits and returns, while every piece of data is written at "the       *)
(* current revision"; nextRpc and applyPresets of lib/cwmp.ts call it and  *)
(* clear it; and a session whose connection closes is saved and restored   *)
(* through getRevisions and setRevisions.                                  *)
(*                                                                         *)
(* `timestamps` and `attributes` of the device data always get the same    *)
(* revisions and collapses: one map stands for both.  What a step writes   *)
(* is any batch of values and deletions.                                   *)
(***************************************************************************)
EXTENDS VersionedMap, SequencesExt

CONSTANTS
    Keys,        \* paths of the device data
    Answers,     \* how the device may answer a request
    MaxRounds,   \* cwmp.maxCommitIterations
    MaxDepth,    \* the limit of deeply_nested_vparams
    Reconnects   \* the device may close its connection between requests

AnswerKinds == {"response", "invalid name", "fault"}

ASSUME RevisionsAssumption ==
    /\ Answers \subseteq AnswerKinds
    /\ MaxRounds \in Nat /\ MaxDepth \in Nat
    /\ Reconnects \in BOOLEAN

VARIABLES
    map,       \* map[k]: the revisions of k
    revision,  \* _revision
    span,      \* _sizeDiff.length
    dirty,     \* the bits of dirty
    stack,     \* sessionContext.revisions
    depth,     \* virtualParameters.length
    rets,      \* provisionsRet: whether each running level is done
    synced,    \* syncState.virtualParameterDeclarations.length
    rounds,    \* iterations of this cycle, in pairs
    phase,     \* where the session is
    caller,    \* who called rpcRequest
    mark       \* the data when applyPresets reset `dirty`

vars == <<map, revision, span, dirty, stack, depth, rets, synced, rounds, phase,
          caller, mark>>

\* declarations.length: a level gets its declarations when its scripts ran.
Declared == Len(rets)

\* An entry of `revisions` that was never set; ++ makes it NaN, as good as that.
Undefined == -1
Entry(i) == IF i \in DOMAIN stack THEN stack[i] ELSE Undefined
OrZero(n) == IF n = Undefined THEN 0 ELSE n
Top == OrZero(Entry(Len(stack)))

Phases == {"open", "run", "sent", "done", "failed", "ended", "hung"}
Callers == {"nextRpc", "conditions", "presets"}

\* Types: revisions, levels and rounds stay numbers, the data stays data.
TypeOK ==
    /\ map \in [Keys -> Revisions]
    /\ revision \in Nat
    /\ span \in Nat \ {0}
    /\ dirty \subseteq 0 .. Width - 1
    /\ stack \in Seq(Nat \cup {Undefined})
    /\ depth \in Nat
    /\ rets \in Seq(BOOLEAN)
    /\ synced \in Nat
    /\ rounds \in Nat
    /\ phase \in Phases
    /\ caller \in Callers
    /\ mark \in [Keys -> Slot]

\* fetchDevice has loaded the data at revision 0.
Init ==
    /\ map \in [Keys -> {<<>>} \cup {<<v>> : v \in Values}]
    /\ revision = 0 /\ span = 1
    /\ dirty = IF \A k \in Keys : map[k] = <<>> THEN {} ELSE {0}
    /\ stack = <<0>> /\ depth = 0 /\ rets = <<>> /\ synced = 0 /\ rounds = 0
    /\ phase = "open" /\ caller = "nextRpc"
    /\ mark = [k \in Keys |-> NonExistent]

-----------------------------------------------------------------------------
\* The device data

Batches == [Keys -> Values \cup {NonExistent, Same}]

\* The data m after the batch b is written at revision rev.
Written(m, rev, b) == [k \in Keys |-> Put(m[k], rev, b[k])]

DirtyBits(m, rev, b) ==
    IF \E k \in Keys : Effective(m[k], rev, b[k]) THEN {Bit(rev)} ELSE {}

\* revision = r, then the batch b
WriteAt(r, b) ==
    /\ revision' = r
    /\ span' = IF span <= r THEN r + 1 ELSE span
    /\ map' = Written(map, r, b)
    /\ dirty' = dirty \cup DirtyBits(map, r, b)

\* device.set and device.clear wherever the revision is.
Write(b) ==
    /\ map' = Written(map, revision, b)
    /\ dirty' = dirty \cup DirtyBits(map, revision, b)
    /\ UNCHANGED <<revision, span>>

\* collapse(r) of a map whose sizes are known up to r, and of its dirty bits
Collapses(r) == span > r
CollapsedMap(r) == IF Collapses(r) THEN [k \in Keys |-> Collapsed(map[k], r)]
                                   ELSE map
CollapsedDirty(r) == IF Collapses(r) THEN CollapsedBits(dirty, r) ELSE dirty

\* The level that is being worked on, and the revision after one of `revisions`.
Inception == Declared - 1
Following(n) == OrZero(n) + 1

\* Mutated form: clearProvisions trusts the first commit.
CommittedTwice == Top > 1

\* revisions[revisions.length - 1] > 0
Committed == Top > 0

\* clearProvisions, or the call of it in recordFault: two calls are as good as
\* one, and so is addProvisions after it.
Clear ==
    /\ IF Committed
       THEN /\ map' = CollapsedMap(1)
            /\ dirty' = CollapsedDirty(1)
            /\ span' = IF Collapses(1) THEN 2 ELSE span
       ELSE UNCHANGED <<map, dirty, span>>
    /\ stack' = <<0>> /\ depth' = 0 /\ rets' = <<>> /\ synced' = 0
    /\ rounds' = 0
    /\ UNCHANGED revision

-----------------------------------------------------------------------------
\* Callers of rpcRequest

\* inform, transferComplete and timeoutOperations
Notice(b) ==
    /\ phase = "open"
    /\ WriteAt(Following(Top), b)
    /\ UNCHANGED <<stack, depth, rets, synced, rounds, phase, caller, mark>>

\* The empty request of the device: timeoutOperations, and nextRpc with nothing
\* to do yet.
DeviceDone(b) ==
    /\ phase = "open"
    /\ WriteAt(Following(Top), b)
    /\ phase' = "done" /\ caller' = "nextRpc"
    /\ UNCHANGED <<stack, depth, rets, synced, rounds, mark>>

\* nextRpc has finished a task, or nothing, and takes the next task.
NextTask ==
    /\ phase = "done" /\ caller = "nextRpc"
    /\ Clear
    /\ phase' = "run"
    /\ UNCHANGED <<caller, mark>>

\* nextRpc again after a fault: nothing is left to do.
NextAfterFault ==
    /\ phase = "failed" /\ caller = "nextRpc"
    /\ Clear
    /\ phase' = "done"
    /\ UNCHANGED <<caller, mark>>

\* applyPresets up to its first rpcRequest, which has nothing to do when no
\* precondition reads a parameter and no provisions are there.  The first form
\* follows nextRpc or a fault; the second one follows finished presets, whose
\* provisions are still there and run again.
ApplyPresets ==
    \/ /\ \/ phase = "done" /\ caller = "nextRpc"
          \/ phase = "failed" /\ caller # "nextRpc"
       /\ IF Committed
          THEN /\ map' = CollapsedMap(1)
               /\ dirty' = CollapsedDirty(1)
          ELSE UNCHANGED <<map, dirty>>
       /\ revision' = 1
       /\ span' = IF span <= 1 \/ (Committed /\ Collapses(1)) THEN 2 ELSE span
       /\ stack' = <<0>> /\ depth' = 0 /\ rets' = <<>> /\ synced' = 0
       /\ rounds' = 0
       /\ phase' \in {"run", "done"}
       /\ caller' = "conditions"
       /\ UNCHANGED mark
    \/ /\ phase = "done" /\ caller = "presets"
       /\ revision' = 1
       /\ span' = IF span <= 1 THEN 2 ELSE span
       /\ phase' = "run"
       /\ caller' = "conditions"
       /\ UNCHANGED <<map, dirty, stack, depth, rets, synced, rounds, mark>>

\* applyPresets from there to its second rpcRequest.
RunPresets ==
    /\ phase = "done" /\ caller = "conditions"
    /\ map' = IF Committed THEN CollapsedMap(1) ELSE map
    /\ span' = IF Committed /\ Collapses(1) THEN 2 ELSE span
    /\ dirty' = {}
    /\ mark' = [k \in Keys |-> Latest(map[k])]
    /\ stack' = <<0>> /\ depth' = 0 /\ rets' = <<>> /\ synced' = 0
    /\ rounds' = 0
    /\ phase' \in {"run", "done"}
    /\ caller' = "presets"
    /\ UNCHANGED revision

\* The presets changed nothing: the session is over.
Finish ==
    /\ phase = "done" /\ caller = "presets"
    /\ ~MoreThanOne(dirty)
    /\ phase' = "ended"
    /\ UNCHANGED <<map, revision, span, dirty, stack, depth, rets, synced, rounds,
                   caller, mark>>

\* applyPresets gives up (preset_loop), or the session is ended early: with
\* provisions at hand endSession records a fault.
Terminate ==
    /\ phase \in {"open", "sent"} \/ (phase = "done" /\ caller = "conditions")
    /\ Clear
    /\ phase' = "ended"
    /\ UNCHANGED <<caller, mark>>

-----------------------------------------------------------------------------
\* rpcRequest

\* The scripts of the next level run, at the revision after the level's own;
\* one that has no revisions to compare with never stops at a commit.
RunScripts(b, done) ==
    /\ phase = "run" /\ Declared <= depth
    /\ Entry(Declared + 1) = Undefined => done
    /\ WriteAt(Following(Entry(Declared + 1)), b)
    /\ rets' = Append(rets, done)
    /\ UNCHANGED <<stack, depth, synced, rounds, phase, caller, mark>>

\* A script or an extension fails.
ScriptFault ==
    /\ phase = "run" /\ Declared <= depth
    /\ revision' = Following(Entry(Declared + 1))
    /\ span' = IF span <= revision' THEN revision' + 1 ELSE span
    /\ phase' = "failed"
    /\ UNCHANGED <<map, dirty, stack, depth, rets, synced, rounds, caller, mark>>

\* One of the limits is reached: these two, or the number of requests or of
\* cycles, which the model does not count.
WithinLimits == Len(stack) < MaxDepth /\ rounds < MaxRounds

LimitFault ==
    /\ phase = "run" /\ Declared > depth
    /\ phase' = "failed"
    /\ UNCHANGED <<map, revision, span, dirty, stack, depth, rets, synced, rounds,
                   caller, mark>>

Working == phase = "run" /\ Declared > depth /\ WithinLimits
Synced == Working /\ synced = Declared

\* Mutated form: the iterations of virtual parameters are not counted.
DeclareUncounted(b) ==
    /\ Working /\ synced < Declared
    /\ rounds' = IF synced = Inception /\ depth = 0 THEN rounds + 1 ELSE rounds
    /\ synced' = synced + 1
    /\ Write(b)
    /\ UNCHANGED <<stack, depth, rets, phase, caller, mark>>

\* runDeclarations for one level; the innermost one counts as an iteration.
Declare(b) ==
    /\ Working /\ synced < Declared
    /\ rounds' = IF synced = Inception THEN rounds + 1 ELSE rounds
    /\ synced' = synced + 1
    /\ Write(b)
    /\ UNCHANGED <<stack, depth, rets, phase, caller, mark>>

\* Data that a declaration depends on has changed, or tags and downloads are
\* written: once more, from the declarations or from here.
Again(b) ==
    /\ Synced
    /\ Write(b)
    /\ synced' \in {synced, 0}
    /\ UNCHANGED <<stack, depth, rets, rounds, phase, caller, mark>>

\* Virtual parameters are to be read or set.
Descend ==
    /\ Synced
    /\ depth' = depth + 1
    /\ stack' = Append(stack, Entry(Inception + 1))
    /\ UNCHANGED <<map, revision, span, dirty, rets, synced, rounds, phase,
                   caller, mark>>

\* A request goes to the device.
Send ==
    /\ Synced
    /\ phase' = "sent"
    /\ UNCHANGED <<map, revision, span, dirty, stack, depth, rets, synced, rounds,
                   caller, mark>>

\* ++revisions[inception]
Incremented ==
    LET i == Inception + 1
        n == Entry(i)
    IN  [j \in 1 .. (IF i > Len(stack) THEN i ELSE Len(stack)) |->
            IF j # i THEN Entry(j) ELSE IF n = Undefined THEN n ELSE n + 1]

\* Nothing is left for the innermost level: its scripts go on after their
\* commit ...
Commit ==
    /\ Synced /\ ~rets[Declared]
    /\ stack' = Incremented
    /\ rets' = Front(rets)
    /\ synced' = synced - 1
    /\ UNCHANGED <<map, revision, span, dirty, depth, rounds, phase, caller, mark>>

\* Mutated form: the parent's own revision is overwritten.
ReturnToParent(n) == OrZero(n)

\* The revision that a finished level leaves its data at.
ReturnTo(n) == OrZero(n) + 1

Popped == Front(Incremented)

\* ... or were done: the level's revisions become the parent's next one, and a
\* virtual parameter gets its values.
Return(b) ==
    /\ Synced /\ rets[Declared]
    /\ stack' = Popped
    /\ rets' = Front(rets)
    /\ synced' = synced - 1
    /\ LET r == ReturnTo(IF Popped = <<>> THEN Undefined ELSE Last(Popped)) IN
       /\ depth = 0 => b = [k \in Keys |-> Same]
       /\ map' = Written(CollapsedMap(r), r, b)
       /\ dirty' = CollapsedDirty(r) \cup DirtyBits(CollapsedMap(r), r, b)
       /\ revision' = r
       /\ span' = r + 1
    /\ IF depth = 0 THEN phase' = "done" /\ UNCHANGED depth
                    ELSE depth' = depth - 1 /\ UNCHANGED phase
    /\ UNCHANGED <<rounds, caller, mark>>

-----------------------------------------------------------------------------
\* The device answers or reconnects

\* rpcResponse; the instance keys of a new object take more requests.
Response(b) ==
    /\ phase = "sent" /\ "response" \in Answers
    /\ WriteAt(Following(Top), b)
    /\ phase' \in {"run", "sent"}
    /\ caller' = "nextRpc"
    /\ UNCHANGED <<stack, depth, rets, synced, rounds, mark>>

\* rpcFault for 9005
InvalidName(b) ==
    /\ phase = "sent" /\ "invalid name" \in Answers
    /\ WriteAt(Following(Top), b)
    /\ synced' = 0
    /\ phase' = "run" /\ caller' = "nextRpc"
    /\ UNCHANGED <<stack, depth, rets, rounds, mark>>

\* rpcFault, an invalid response or an unknown method: recordFault, nextRpc.
Fault ==
    /\ phase = "sent" /\ "fault" \in Answers
    /\ Clear
    /\ phase' = "done" /\ caller' = "nextRpc"
    /\ UNCHANGED mark

\* serialize, then deserialize into a new VersionedMap.
Reconnect ==
    /\ Reconnects
    /\ phase \in {"open", "sent"}
    /\ IF \E k \in Keys : NeverEnds(map[k])
       THEN phase' = "hung" /\ UNCHANGED <<map, dirty>>
       ELSE /\ map' = [k \in Keys |-> Restored(map[k])]
            /\ dirty' = UNION {Mutations(Restored(map[k])) : k \in Keys}
            /\ UNCHANGED phase
    /\ revision' = 0 /\ span' = 1
    /\ synced' = 0
    /\ UNCHANGED <<stack, depth, rets, rounds, caller, mark>>

Over == phase \in {"ended", "hung"} /\ UNCHANGED vars

Next ==
    \/ \E b \in Batches :
          \/ Notice(b) \/ DeviceDone(b) \/ Declare(b) \/ Again(b) \/ Return(b)
          \/ Response(b) \/ InvalidName(b)
          \/ \E done \in BOOLEAN : RunScripts(b, done)
    \/ NextTask \/ NextAfterFault \/ ApplyPresets \/ RunPresets \/ Finish
    \/ Terminate
    \/ ScriptFault \/ LimitFault \/ Descend \/ Send \/ Commit
    \/ Fault \/ Reconnect \/ Over

Spec == Init /\ [][Next]_vars

-----------------------------------------------------------------------------
\* Properties

\* Whatever is written to the device data is kept: while rpcRequest works, no
\* key has revisions after the one that device.set writes at (it does not look
\* at the null that VersionedMap.set returns, "Can't modify old revisions").
WritesLand ==
    phase = "run" /\ Declared > depth => \A k \in Keys : Modifiable(map[k], revision)

\* A script that is run again from its start reads at every committed revision
\* what it read before, through commits, levels of virtual parameters, faults
\* and reconnections (sandbox.ts replays a script after each commit).
ReadsRepeat ==
    \A k \in Keys : \A r \in 0 .. Top : r <= Top' => At(map'[k], r) = At(map[k], r)
RepeatableReads == [][ReadsRepeat]_vars

\* Commits, faults and reconnections lose no data: what was last written is
\* what the session works on afterwards and saves in the end.
LatestKept ==
    (\/ Clear \/ Commit \/ Return([k \in Keys |-> Same])
     \/ ApplyPresets \/ RunPresets \/ Reconnect) =>
        \A k \in Keys : Latest(map'[k]) = Latest(map[k])
NothingForgotten == [][LatestKept]_vars

\* When applyPresets asks whether its provisions have changed anything, and
\* nothing has been requested from the device since, a change shows in `dirty`:
\* the preconditions of other presets are looked at again.
ChangesAreDirty ==
    (/\ phase = "done" /\ caller = "presets"
     /\ \E k \in Keys : Latest(map[k]) # mark[k]) => MoreThanOne(dirty)

\* "Restores session from stored data" (claudedocs/specs/SESSION-SPEC.md:355):
\* deserialize comes to an end.
Restorable == phase # "hung"

\* It does as long as maxCommitIterations is less than the bits of an integer.
\* When they are as many, as by default, it fails to at the limit only, for a
\* session in the last iteration it is allowed, whatever commits, levels of
\* virtual parameters and earlier reconnections led there (but not after a CPE
\* fault, which leaves the revisions of a restored session where they are).
HangsAtLimit ==
    phase = "hung" => /\ Width <= MaxRounds
                      /\ rounds + 1 >= MaxRounds \/ "fault" \in Answers
=============================================================================
