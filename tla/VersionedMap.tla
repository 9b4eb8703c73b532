---------------------------- MODULE VersionedMap ----------------------------
(***************************************************************************)
(* lib/versioned-map.ts: what each operation of a VersionedMap does to the *)
(* array of revisions of one key, and to the bits of `dirty`.              *)
(*                                                                         *)
(* An absent key is <<>>; a[i + 1] is the value at revision i, and stands  *)
(* for every later revision when it is the last one.  NonExistent is the   *)
(* symbol NONEXISTENT, and also what get and has answer for an absent key. *)
(* `size` is left out: nothing reads it.                                   *)
(***************************************************************************)
EXTENDS Integers, Sequences, FiniteSetsExt

CONSTANTS
    Values,       \* values of a key
    NonExistent,  \* NONEXISTENT
    Same,         \* in a batch of writes: the key is not written
    Width         \* bits of the integers that << and >> work on

ASSUME ValuesAssumption ==
    /\ NonExistent \notin Values
    /\ Same \notin Values \cup {NonExistent}
    /\ Width \in Nat \ {0}

Slot == Values \cup {NonExistent}
Revisions == Seq(Slot)

\* get(key, rev) and has(key, rev)
At(a, rev) ==
    IF a = <<>> THEN NonExistent
                ELSE a[IF rev < Len(a) THEN rev + 1 ELSE Len(a)]

Latest(a) == At(a, Len(a))

\* "Can't modify old revisions"
Modifiable(a, rev) == Len(a) <= rev + 1

\* The array up to revision rev, which becomes v.
Extended(a, rev, v) ==
    [i \in 1 .. rev + 1 |-> IF i = rev + 1 THEN v ELSE At(a, i - 1)]

\* set(key, v, rev), or delete(key, rev) when v is NonExistent, does something
Effective(a, rev, v) ==
    /\ v # Same
    /\ Modifiable(a, rev)
    /\ v = NonExistent => Latest(a) # NonExistent

Put(a, rev, v) == IF Effective(a, rev, v) THEN Extended(a, rev, v) ELSE a

\* Mutated form: the first of the collapsed revisions is kept, not the last.
CollapsedToFirst(a, rev) ==
    IF Len(a) <= rev + 1 THEN a ELSE SubSeq(a, 1, rev + 1)

\* collapse(rev): the last value moves down to rev; a key that never existed
\* up to there is dropped.
Collapsed(a, rev) ==
    LET b == [i \in 1 .. rev + 1 |-> IF i = rev + 1 THEN a[Len(a)] ELSE a[i]]
    IN  CASE Len(a) <= rev + 1 -> a
          [] Len(a) > rev + 1 /\ \E i \in DOMAIN b : b[i] # NonExistent -> b
          [] OTHER -> <<>>

-----------------------------------------------------------------------------
\* The bits of an integer are a subset of 0 .. Width - 1

\* 1 << i
Bit(i) == i % Width

\* The comparison `n > 1`, n being negative when its highest bit is set
MoreThanOne(bits) == Width - 1 \notin bits /\ \E b \in bits : b >= 1

\* Mutated form: collapse forgets that later revisions were dirty.
CollapsedBitsCleared(bits, rev) == {b \in bits : b < Bit(rev)}

\* collapse(rev) on `dirty`
CollapsedBits(bits, rev) ==
    LET above == {b \in bits : b >= Bit(rev)}
    IN  (bits \ above) \cup (IF above # {} THEN {Bit(rev)} ELSE {})

-----------------------------------------------------------------------------
\* getRevisions and setRevisions: the array as a record of its changes

Before(a, i) == IF i = 0 THEN NonExistent ELSE a[i]
Changes(a) == {i \in 0 .. Len(a) - 1 : a[i + 1] # Before(a, i)}
Mutations(a) == {Bit(i) : i \in Changes(a)}

\* `mutations >> i` never becomes 0 for a negative number
NeverEnds(a) == Width - 1 \in Mutations(a)

\* setRevisions of getRevisions: nothing is stored for a key without changes;
\* a deletion at i is a bit, and is found again at every j with that bit.
Restored(a) ==
    LET deleted == {Bit(i) : i \in {j \in Changes(a) : a[j + 1] = NonExistent}}
        known(i) == {j \in 0 .. i : Bit(j) \in deleted \/ j \in Changes(a)}
        value(j) == IF Bit(j) \in deleted THEN NonExistent ELSE a[j + 1]
    IN  IF Changes(a) = {} THEN <<>>
        ELSE [i \in 1 .. Max(Mutations(a)) + 1 |->
                IF known(i - 1) = {} THEN NonExistent
                                     ELSE value(Max(known(i - 1)))]
=============================================================================
