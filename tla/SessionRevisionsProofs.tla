----------------------- MODULE SessionRevisionsProofs -----------------------
(***************************************************************************)
(* Theorems about SessionRevisions, for any keys, values, word width and   *)
(* limits.                                                                 *)
(***************************************************************************)
EXTENDS SessionRevisions, SequenceTheorems, WellFoundedInduction, TLAPS

-----------------------------------------------------------------------------
\* The operations on one key

LEMMA SequenceOf ==
  ASSUME NEW S, NEW n \in Nat, NEW f \in [1 .. n -> S]
  PROVE  f \in Seq(S) /\ Len(f) = n
  OBVIOUS

LEMMA AtType ==
  ASSUME NEW a \in Revisions, NEW rev \in Nat
  PROVE  At(a, rev) \in Slot
  <1>1. CASE a = <<>>
        BY <1>1 DEF At, Slot
  <1>2. CASE a # <<>>
    <2>1. Len(a) \in Nat \ {0} /\ \A i \in 1 .. Len(a) : a[i] \in Slot
          BY <1>2 DEF Revisions
    <2>2. QED BY <1>2, <2>1 DEF At
  <1>3. QED BY <1>1, <1>2

LEMMA LatestType ==
  ASSUME NEW a \in Revisions
  PROVE  Latest(a) \in Slot
  <1>1. Len(a) \in Nat
        BY DEF Revisions
  <1>2. QED BY <1>1, AtType DEF Latest

\* A write leaves an array that ends at the written revision, or as it was.
LEMMA PutType ==
  ASSUME NEW a \in Revisions, NEW rev \in Nat, NEW v \in Slot \cup {Same}
  PROVE  /\ Put(a, rev, v) \in Revisions
         /\ Len(Put(a, rev, v)) = Len(a) \/ Len(Put(a, rev, v)) = rev + 1
  <1>1. CASE Effective(a, rev, v)
    <2>1. v \in Slot
          BY <1>1 DEF Effective
    <2>2. \A i \in 1 .. rev + 1 : (IF i = rev + 1 THEN v ELSE At(a, i - 1)) \in Slot
          BY <2>1, AtType
    <2>3. Extended(a, rev, v) \in [1 .. rev + 1 -> Slot]
          BY <2>2 DEF Extended
    <2>4. Extended(a, rev, v) \in Seq(Slot) /\ Len(Extended(a, rev, v)) = rev + 1
          BY <2>3, SequenceOf
    <2>5. QED BY <1>1, <2>4 DEF Put, Revisions
  <1>2. CASE ~Effective(a, rev, v)
        BY <1>2 DEF Put
  <1>3. QED BY <1>1, <1>2

\* A collapsed array ends at the revision or before.
LEMMA CollapsedType ==
  ASSUME NEW a \in Revisions, NEW rev \in Nat
  PROVE  /\ Collapsed(a, rev) \in Revisions
         /\ Len(Collapsed(a, rev)) <= rev + 1
         /\ Len(Collapsed(a, rev)) <= Len(a)
  <1> DEFINE b == [i \in 1 .. rev + 1 |-> IF i = rev + 1 THEN a[Len(a)] ELSE a[i]]
  <1>0. Len(a) \in Nat /\ \A i \in 1 .. Len(a) : a[i] \in Slot
        BY DEF Revisions
  <1>1. CASE Len(a) <= rev + 1
    <2>1. Collapsed(a, rev) = a
          BY <1>1, <1>0 DEF Collapsed
    <2>2. QED BY <2>1, <1>1, <1>0
  <1>2. CASE Len(a) > rev + 1
    <2>1. b \in [1 .. rev + 1 -> Slot]
          BY <1>0, <1>2
    <2>2. b \in Seq(Slot) /\ Len(b) = rev + 1
          BY <2>1, SequenceOf
    <2>3. Collapsed(a, rev) = b \/ Collapsed(a, rev) = <<>>
          BY <1>2, <1>0 DEF Collapsed
    <2>4. CASE Collapsed(a, rev) = b
          BY <2>4, <2>2, <1>2 DEF Revisions
    <2>5. CASE Collapsed(a, rev) = <<>>
      <3>1. <<>> \in Seq(Slot) /\ Len(<<>>) = 0
            OBVIOUS
      <3>2. QED BY <3>1, <2>5, <1>0 DEF Revisions
    <2>6. QED BY <2>3, <2>4, <2>5
  <1>3. QED BY <1>0, <1>1, <1>2

\* A bounded set of numbers has a greatest one.
LEMMA MaxOfBounded ==
  ASSUME NEW n \in Nat, NEW S, S \subseteq 0 .. n, S # {}
  PROVE  Max(S) \in S /\ \A x \in S : x <= Max(S)
  <1> DEFINE R == OpToRel(<, Nat)
             T == {n - x : x \in S}
  <1>0. \A x \in S : x \in Int /\ n - x \in Nat
        OBVIOUS
  <1>1. T \subseteq Nat /\ T # {}
    <2>1. T \subseteq Nat
          BY <1>0
    <2>2. PICK x \in S : TRUE
          OBVIOUS
    <2>3. n - x \in T
          OBVIOUS
    <2>4. QED BY <2>1, <2>3
  <1>2. PICK t \in T : \A y \in T : <<y, t>> \notin R
        BY ONLY <1>1, NatLessThanWellFounded, WFMin, Zenon
  <1>3. \A y \in T : ~(y < t)
    <2>1. SUFFICES ASSUME NEW y \in T, y < t PROVE FALSE
          OBVIOUS
    <2>2. <<y, t>> \in R
          BY <1>1, <2>1, Zenon DEF OpToRel
    <2>3. QED BY <2>2, <1>2
  <1>4. PICK m \in S : t = n - m
        OBVIOUS
  <1>5. \A x \in S : m >= x
    <2>1. SUFFICES ASSUME NEW x \in S PROVE m >= x
          OBVIOUS
    <2>2. n - x \in T
          OBVIOUS
    <2>3. ~(n - x < n - m)
          BY <2>2, <1>3, <1>4
    <2>4. m \in Int /\ x \in Int
          OBVIOUS
    <2>5. QED BY <2>3, <2>4
  <1>6. Max(S) \in S /\ \A x \in S : Max(S) >= x
        BY <1>5 DEF Max
  <1>7. QED BY <1>6

LEMMA BitType ==
  ASSUME NEW i \in Nat
  PROVE  Bit(i) \in 0 .. Width - 1 /\ Bit(i) <= i
  <1>1. Width \in Nat \ {0}
        BY ValuesAssumption
  <1>2. QED BY <1>1 DEF Bit

\* A restored array is no longer than the stored one.
LEMMA RestoredType ==
  ASSUME NEW a \in Revisions
  PROVE  /\ Restored(a) \in Revisions
         /\ Len(Restored(a)) <= Len(a)
  <1> DEFINE deleted == {Bit(i) : i \in {j \in Changes(a) : a[j + 1] = NonExistent}}
             known(i) == {j \in 0 .. i : Bit(j) \in deleted \/ j \in Changes(a)}
             value(j) == IF Bit(j) \in deleted THEN NonExistent ELSE a[j + 1]
             top == Max(Mutations(a))
             cell(i) == IF known(i - 1) = {} THEN NonExistent ELSE value(Max(known(i - 1)))
  <1>0. Len(a) \in Nat /\ \A i \in 1 .. Len(a) : a[i] \in Slot
        BY DEF Revisions
  <1>1. CASE Changes(a) = {}
    <2>1. Restored(a) = <<>>
          BY <1>1 DEF Restored
    <2>2. <<>> \in Seq(Slot) /\ Len(<<>>) = 0
          OBVIOUS
    <2>3. QED BY <2>1, <2>2, <1>0 DEF Revisions
  <1>2. CASE Changes(a) # {}
    <2>1. \A i \in Changes(a) : i \in 0 .. Len(a) - 1
          BY DEF Changes
    <2>2. Mutations(a) \subseteq 0 .. Len(a) - 1 /\ Mutations(a) # {}
      <3>1. \A i \in Changes(a) : Bit(i) \in 0 .. Len(a) - 1
            BY <2>1, <1>0, BitType
      <3>2. QED BY <3>1, <1>2 DEF Mutations
    <2>3. Len(a) - 1 \in Nat
          BY <1>0, <1>2, <2>1
    <2>4. top \in 0 .. Len(a) - 1
      <3> HIDE DEF top
      <3>1. Max(Mutations(a)) \in Mutations(a)
            BY <2>2, <2>3, MaxOfBounded
      <3>2. QED BY <3>1, <2>2 DEF top
    <2> HIDE DEF top
    <2>5. ASSUME NEW i \in 1 .. top + 1
          PROVE  cell(i) \in Slot
      <3>1. CASE known(i - 1) = {}
            BY <3>1 DEF Slot
      <3>2. CASE known(i - 1) # {}
        <4> DEFINE m == Max(known(i - 1))
        <4>1. known(i - 1) \subseteq 0 .. i - 1 /\ i - 1 \in Nat
              BY <2>4
        <4>2. m \in known(i - 1)
          <5> HIDE DEF known
          <5>1. QED BY <4>1, <3>2, MaxOfBounded
        <4> HIDE DEF m
        <4>3. CASE Bit(m) \in deleted
              BY <4>3, <3>2 DEF m, Slot
        <4>4. CASE Bit(m) \notin deleted
          <5>1. m \in Changes(a)
                BY <4>2, <4>4
          <5>2. a[m + 1] \in Slot
                BY <5>1, <2>1, <1>0
          <5>3. cell(i) = a[m + 1]
                BY <3>2, <4>4 DEF m
          <5>4. QED BY <5>2, <5>3
        <4>5. QED BY <4>3, <4>4
      <3>3. QED BY <3>1, <3>2
    <2>6. Restored(a) = [i \in 1 .. top + 1 |-> cell(i)]
          BY <1>2 DEF Restored, top
    <2>7. Restored(a) \in [1 .. top + 1 -> Slot]
      <3> HIDE DEF cell
      <3>1. QED BY <2>5, <2>6
    <2>8. Restored(a) \in Seq(Slot) /\ Len(Restored(a)) = top + 1
          BY <2>7, <2>4, SequenceOf
    <2>9. QED BY <2>8, <2>4, <1>0 DEF Revisions
  <1>3. QED BY <1>1, <1>2

-----------------------------------------------------------------------------
\* The operations on the device data and on the stack

LEMMA EntryType ==
  ASSUME TypeOK
  PROVE  /\ \A i : Entry(i) \in Nat \cup {Undefined}
         /\ \A n \in Nat \cup {Undefined} : OrZero(n) \in Nat /\ Following(n) = OrZero(n) + 1
         /\ Top \in Nat /\ Following(Top) = Top + 1
  <1>1. \A i : Entry(i) \in Nat \cup {Undefined}
        BY DEF TypeOK, Entry
  <1>2. \A n \in Nat \cup {Undefined} : OrZero(n) \in Nat /\ Following(n) = OrZero(n) + 1
        BY DEF OrZero, Following, Undefined
  <1>3. Top \in Nat
        BY <1>1, <1>2 DEF Top
  <1>4. QED BY <1>1, <1>2, <1>3 DEF Following, OrZero, Undefined

LEMMA WrittenType ==
  ASSUME NEW m \in [Keys -> Revisions], NEW rev \in Nat, NEW b \in Batches
  PROVE  /\ Written(m, rev, b) \in [Keys -> Revisions]
         /\ \A k \in Keys : \/ Len(Written(m, rev, b)[k]) = Len(m[k])
                            \/ Len(Written(m, rev, b)[k]) = rev + 1
         /\ DirtyBits(m, rev, b) \subseteq 0 .. Width - 1
  <1>1. \A k \in Keys : b[k] \in Slot \cup {Same}
        BY DEF Batches, Slot
  <1>2. \A k \in Keys : /\ Put(m[k], rev, b[k]) \in Revisions
                        /\ \/ Len(Put(m[k], rev, b[k])) = Len(m[k])
                           \/ Len(Put(m[k], rev, b[k])) = rev + 1
        BY <1>1, PutType
  <1>3. Bit(rev) \in 0 .. Width - 1
        BY BitType
  <1>4. DirtyBits(m, rev, b) \subseteq 0 .. Width - 1
        BY <1>3 DEF DirtyBits
  <1>5. QED BY <1>2, <1>4 DEF Written

LEMMA CollapsedMapType ==
  ASSUME TypeOK, NEW r \in Nat
  PROVE  /\ CollapsedMap(r) \in [Keys -> Revisions]
         /\ CollapsedDirty(r) \subseteq 0 .. Width - 1
         /\ \A k \in Keys : /\ Len(CollapsedMap(r)[k]) <= Len(map[k])
                            /\ Collapses(r) => Len(CollapsedMap(r)[k]) <= r + 1
  <1>1. \A k \in Keys : /\ Collapsed(map[k], r) \in Revisions
                        /\ Len(Collapsed(map[k], r)) <= r + 1
                        /\ Len(Collapsed(map[k], r)) <= Len(map[k])
        BY CollapsedType DEF TypeOK
  <1>2. Bit(r) \in 0 .. Width - 1
        BY BitType
  <1>3. CollapsedDirty(r) \subseteq 0 .. Width - 1
        BY <1>2 DEF CollapsedDirty, CollapsedBits, TypeOK
  <1>4. \A k \in Keys : map[k] \in Revisions /\ Len(map[k]) <= Len(map[k])
        BY DEF TypeOK, Revisions
  <1>5. QED BY <1>1, <1>3, <1>4 DEF CollapsedMap, TypeOK

LEMMA FrontType ==
  ASSUME NEW S, NEW s \in Seq(S), Len(s) > 0
  PROVE  Front(s) \in Seq(S) /\ Len(Front(s)) = Len(s) - 1
  <1>1. \A i \in 1 .. Len(s) - 1 : s[i] \in S
        OBVIOUS
  <1>2. Len(s) \in Nat /\ Len(s) - 1 \in Nat
        OBVIOUS
  <1> DEFINE n == Len(s) - 1
  <1>3. n \in Int /\ \A i \in 1 .. n : s[i] \in S
        BY <1>1, <1>2
  <1>4. Front(s) = SubSeq(s, 1, n)
        BY DEF Front
  <1>5. SubSeq(s, 1, n) \in Seq(S) /\ Len(SubSeq(s, 1, n)) = IF 1 <= n THEN n - 1 + 1 ELSE 0
    <2> HIDE DEF n
    <2>1. QED BY <1>3, SubSeqProperties
  <1>6. n \in Nat
        BY <1>2
  <1>7. Len(Front(s)) = n /\ Front(s) \in Seq(S)
    <2> HIDE DEF n
    <2>1. QED BY <1>4, <1>5, <1>6
  <1>8. QED BY <1>7

LEMMA IncrementedType ==
  ASSUME TypeOK, Declared > 0
  PROVE  /\ Incremented \in Seq(Nat \cup {Undefined})
         /\ Len(Incremented) = IF Declared > Len(stack) THEN Declared ELSE Len(stack)
         /\ \A j \in 1 .. Len(Incremented) :
              Incremented[j] = IF j # Declared \/ Entry(j) = Undefined
                               THEN Entry(j) ELSE Entry(j) + 1
         /\ Popped \in Seq(Nat \cup {Undefined})
         /\ Len(Popped) = Len(Incremented) - 1
         /\ \A j \in 1 .. Len(Popped) : Popped[j] = Incremented[j]
  <1> DEFINE n == IF Declared > Len(stack) THEN Declared ELSE Len(stack)
             f == [j \in 1 .. n |->
                     IF j # Declared \/ Entry(j) = Undefined THEN Entry(j) ELSE Entry(j) + 1]
  <1>1. Declared \in Nat \ {0} /\ Len(stack) \in Nat
        BY DEF TypeOK, Declared
  <1>2. Incremented = f
    <2>1. Inception + 1 = Declared
          BY <1>1 DEF Inception
    <2>2. QED BY <2>1 DEF Incremented
  <1>3. f \in [1 .. n -> Nat \cup {Undefined}]
    <2>1. ASSUME NEW j \in 1 .. n
          PROVE  (IF j # Declared \/ Entry(j) = Undefined THEN Entry(j) ELSE Entry(j) + 1)
                    \in Nat \cup {Undefined}
      <3>1. Entry(j) \in Nat \cup {Undefined}
            BY EntryType
      <3>2. QED BY <3>1
    <2>2. QED BY <2>1
  <1>4. n \in Nat \ {0}
        BY <1>1
  <1>5. f \in Seq(Nat \cup {Undefined}) /\ Len(f) = n
    <2> HIDE DEF n, f
    <2>1. QED BY <1>3, <1>4, SequenceOf
  <1>6. Popped = SubSeq(f, 1, Len(f) - 1)
        BY <1>2 DEF Popped, Front
  <1>7. /\ Popped \in Seq(Nat \cup {Undefined})
        /\ Len(Popped) = n - 1
        /\ \A j \in 1 .. Len(Popped) : Popped[j] = f[j]
    <2> HIDE DEF n, f
    <2>1. \A j \in 1 .. Len(f) - 1 : f[j] \in Nat \cup {Undefined}
          BY <1>5, <1>4
    <2>2. QED BY <2>1, <1>5, <1>6, <1>4, SubSeqProperties
  <1>8. QED BY <1>2, <1>5, <1>7, <1>1

\* What Clear and its copies in applyPresets do to the data.
LEMMA ClearedType ==
  ASSUME TypeOK, Clear
  PROVE  /\ map' \in [Keys -> Revisions]
         /\ dirty' \subseteq 0 .. Width - 1
         /\ span' \in Nat \ {0}
         /\ \A k \in Keys : Len(map'[k]) <= Len(map[k])
  <1>1. CASE Committed
        BY <1>1, CollapsedMapType DEF Clear, TypeOK
  <1>2. CASE ~Committed
    <2>1. \A k \in Keys : Len(map[k]) <= Len(map[k])
          BY DEF TypeOK, Revisions
    <2>2. QED BY <1>2, <2>1 DEF Clear, TypeOK
  <1>3. QED BY <1>1, <1>2

LEMMA WriteAtType ==
  ASSUME TypeOK, NEW r \in Nat, NEW b \in Batches, WriteAt(r, b)
  PROVE  /\ map' \in [Keys -> Revisions]
         /\ dirty' \subseteq 0 .. Width - 1
         /\ revision' = r
         /\ span' \in Nat \ {0} /\ span' >= span /\ span' > r
         /\ \A k \in Keys : Len(map'[k]) = Len(map[k]) \/ Len(map'[k]) = r + 1
  <1>1. /\ Written(map, r, b) \in [Keys -> Revisions]
        /\ DirtyBits(map, r, b) \subseteq 0 .. Width - 1
        /\ \A k \in Keys : \/ Len(Written(map, r, b)[k]) = Len(map[k])
                           \/ Len(Written(map, r, b)[k]) = r + 1
        BY WrittenType DEF TypeOK
  <1>2. span' \in Nat \ {0} /\ span' >= span /\ span' > r
        BY DEF WriteAt, TypeOK
  <1>3. dirty' \subseteq 0 .. Width - 1
        BY <1>1 DEF WriteAt, TypeOK
  <1>4. QED BY <1>1, <1>2, <1>3 DEF WriteAt

LEMMA WriteType ==
  ASSUME TypeOK, NEW b \in Batches, Write(b)
  PROVE  /\ map' \in [Keys -> Revisions]
         /\ dirty' \subseteq 0 .. Width - 1
         /\ \A k \in Keys : \/ Len(map'[k]) = Len(map[k])
                            \/ Len(map'[k]) = revision + 1
  <1>1. /\ Written(map, revision, b) \in [Keys -> Revisions]
        /\ DirtyBits(map, revision, b) \subseteq 0 .. Width - 1
        /\ \A k \in Keys : \/ Len(Written(map, revision, b)[k]) = Len(map[k])
                           \/ Len(Written(map, revision, b)[k]) = revision + 1
        BY WrittenType DEF TypeOK
  <1>2. QED BY <1>1 DEF Write, TypeOK

\* A step of rpcRequest's end: the revision that a level returns to.
LEMMA ReturnType ==
  ASSUME TypeOK, NEW b \in Batches, Return(b)
  PROVE  LET r == ReturnTo(IF Popped = <<>> THEN Undefined ELSE Last(Popped)) IN
         /\ r \in Nat /\ r = revision' /\ span' = r + 1
         /\ r = OrZero(IF Popped = <<>> THEN Undefined ELSE Popped[Len(Popped)]) + 1
         /\ map' \in [Keys -> Revisions]
         /\ dirty' \subseteq 0 .. Width - 1
         /\ \A k \in Keys : \/ Len(map'[k]) = Len(CollapsedMap(r)[k])
                            \/ Len(map'[k]) = r + 1
  <1> DEFINE n == IF Popped = <<>> THEN Undefined ELSE Last(Popped)
             r == ReturnTo(n)
  <1>1. Declared > 0
        BY DEF Return, Synced, Working, TypeOK
  <1>2. Popped \in Seq(Nat \cup {Undefined})
        BY <1>1, IncrementedType
  <1>3. n \in Nat \cup {Undefined}
    <2>1. CASE Popped = <<>>
          BY <2>1
    <2>2. CASE Popped # <<>>
      <3>1. Last(Popped) \in Nat \cup {Undefined}
            BY <1>2, <2>2 DEF Last
      <3>2. QED BY <2>2, <3>1
    <2>3. QED BY <2>1, <2>2
  <1>4. r \in Nat /\ r = OrZero(n) + 1
    <2> HIDE DEF n
    <2>1. QED BY <1>3, EntryType DEF ReturnTo
  <1>5. n = IF Popped = <<>> THEN Undefined ELSE Popped[Len(Popped)]
        BY DEF Last
  <1> HIDE DEF r
  <1>6. /\ map' = Written(CollapsedMap(r), r, b)
        /\ dirty' = CollapsedDirty(r) \cup DirtyBits(CollapsedMap(r), r, b)
        /\ revision' = r
        /\ span' = r + 1
        BY DEF Return, r
  <1>7. /\ map' \in [Keys -> Revisions]
        /\ dirty' \subseteq 0 .. Width - 1
        /\ \A k \in Keys : \/ Len(map'[k]) = Len(CollapsedMap(r)[k])
                           \/ Len(map'[k]) = r + 1
        BY <1>4, <1>6, CollapsedMapType, WrittenType
  <1>8. QED BY <1>4, <1>5, <1>6, <1>7 DEF r

LEMMA ReconnectType ==
  ASSUME TypeOK, Reconnect
  PROVE  /\ map' \in [Keys -> Revisions]
         /\ dirty' \subseteq 0 .. Width - 1
         /\ \A k \in Keys : Len(map'[k]) <= Len(map[k])
  <1>1. \A k \in Keys : map[k] \in Revisions /\ Len(map[k]) <= Len(map[k])
        BY DEF TypeOK, Revisions
  <1>2. CASE \E k \in Keys : NeverEnds(map[k])
        BY <1>1, <1>2 DEF Reconnect, TypeOK
  <1>3. CASE ~\E k \in Keys : NeverEnds(map[k])
    <2>1. /\ map' = [k \in Keys |-> Restored(map[k])]
          /\ dirty' = UNION {Mutations(Restored(map[k])) : k \in Keys}
          BY <1>3 DEF Reconnect
    <2>2. \A k \in Keys : /\ Restored(map[k]) \in Revisions
                          /\ Len(Restored(map[k])) <= Len(map[k])
          BY <1>1, RestoredType
    <2>3. \A a \in Revisions : Mutations(a) \subseteq 0 .. Width - 1
      <3>1. ASSUME NEW a \in Revisions, NEW i \in Changes(a)
            PROVE  Bit(i) \in 0 .. Width - 1
        <4>1. i \in Nat
              BY DEF Changes
        <4>2. QED BY <4>1, BitType
      <3>2. QED BY <3>1 DEF Mutations
    <2>4. QED BY <2>1, <2>2, <2>3
  <1>4. QED BY <1>2, <1>3

-----------------------------------------------------------------------------
\* Types

LEMMA TypeInit == Init => TypeOK
  <1> SUFFICES ASSUME Init PROVE TypeOK
      OBVIOUS
  <1>1. map \in [Keys -> Revisions]
    <2>1. <<>> \in Revisions /\ \A v \in Values : <<v>> \in Revisions
          BY DEF Revisions, Slot
    <2>2. QED BY <2>1 DEF Init
  <1>2. 0 \in 0 .. Width - 1
        BY ValuesAssumption
  <1>3. dirty \subseteq 0 .. Width - 1
        BY <1>2 DEF Init
  <1>4. mark \in [Keys -> Slot]
        BY DEF Init, Slot
  <1>5. stack \in Seq(Nat \cup {Undefined}) /\ rets \in Seq(BOOLEAN)
        BY DEF Init
  <1>6. QED BY <1>1, <1>3, <1>4, <1>5 DEF Init, TypeOK, Phases, Callers

LEMMA ClearStack ==
  ASSUME Clear
  PROVE  /\ stack' = <<0>> /\ depth' = 0 /\ rets' = <<>> /\ synced' = 0 /\ rounds' = 0
         /\ revision' = revision
         /\ stack' \in Seq(Nat \cup {Undefined}) /\ rets' \in Seq(BOOLEAN)
  BY DEF Clear

\* Every step keeps the types.
LEMMA TypeStep == TypeOK /\ [Next]_vars => TypeOK'
  <1> SUFFICES ASSUME TypeOK, [Next]_vars PROVE TypeOK'
      OBVIOUS
  <1>a. /\ phase \in Phases /\ caller \in Callers
        /\ {"open", "run", "sent", "done", "failed", "ended", "hung"} \subseteq Phases
        /\ {"nextRpc", "conditions", "presets"} \subseteq Callers
        BY DEF TypeOK, Phases, Callers
  <1>b. <<0>> \in Seq(Nat \cup {Undefined}) /\ <<>> \in Seq(BOOLEAN)
        OBVIOUS
  <1>c. /\ \A i : Following(Entry(i)) \in Nat
        /\ Following(Top) \in Nat
    <2>1. \A i : Entry(i) \in Nat \cup {Undefined}
          BY EntryType
    <2>2. \A n \in Nat \cup {Undefined} : Following(n) \in Nat
          BY DEF Following, OrZero, Undefined
    <2>3. Following(Top) \in Nat
          BY EntryType
    <2>4. QED BY <2>1, <2>2, <2>3
  <1>1. ASSUME NEW b \in Batches, Notice(b) PROVE TypeOK'
        BY <1>1, <1>c, WriteAtType DEF Notice, TypeOK
  <1>2. ASSUME NEW b \in Batches, DeviceDone(b) PROVE TypeOK'
        BY <1>2, <1>a, <1>c, WriteAtType DEF DeviceDone, TypeOK
  <1>3. ASSUME NextTask PROVE TypeOK'
    <2>1. Clear
          BY <1>3 DEF NextTask
    <2>2. QED BY <2>1, <1>3, <1>a, ClearedType, ClearStack DEF NextTask, TypeOK
  <1>4. ASSUME NextAfterFault PROVE TypeOK'
    <2>1. Clear
          BY <1>4 DEF NextAfterFault
    <2>2. QED BY <2>1, <1>4, <1>a, ClearedType, ClearStack DEF NextAfterFault, TypeOK
  <1>5. ASSUME ApplyPresets PROVE TypeOK'
    <2>1. map' \in [Keys -> Revisions] /\ dirty' \subseteq 0 .. Width - 1
          BY <1>5, CollapsedMapType DEF ApplyPresets, TypeOK
    <2>2. revision' \in Nat /\ span' \in Nat \ {0}
      <3>1. revision' = 1 /\ (span' = span \/ span' = 2)
            BY <1>5 DEF ApplyPresets
      <3>2. QED BY <3>1 DEF TypeOK
    <2>3. /\ stack' \in Seq(Nat \cup {Undefined}) /\ rets' \in Seq(BOOLEAN)
          /\ depth' \in Nat /\ synced' \in Nat /\ rounds' \in Nat
      <3>1. \/ UNCHANGED <<stack, depth, rets, synced, rounds>>
            \/ /\ stack' = <<0>> /\ depth' = 0 /\ rets' = <<>>
               /\ synced' = 0 /\ rounds' = 0
            BY <1>5 DEF ApplyPresets
      <3>2. CASE UNCHANGED <<stack, depth, rets, synced, rounds>>
            BY <3>2 DEF TypeOK
      <3>3. CASE /\ stack' = <<0>> /\ depth' = 0 /\ rets' = <<>>
                 /\ synced' = 0 /\ rounds' = 0
            BY <3>3, <1>b
      <3>4. QED BY <3>1, <3>2, <3>3
    <2>4. phase' \in Phases /\ caller' \in Callers /\ mark' \in [Keys -> Slot]
          BY <1>5, <1>a DEF ApplyPresets, TypeOK
    <2>5. QED BY <2>1, <2>2, <2>3, <2>4 DEF TypeOK
  <1>6. ASSUME RunPresets PROVE TypeOK'
    <2>1. map' \in [Keys -> Revisions] /\ dirty' \subseteq 0 .. Width - 1
          BY <1>6, CollapsedMapType DEF RunPresets, TypeOK
    <2>2. revision' \in Nat /\ span' \in Nat \ {0}
      <3>1. revision' = revision /\ (span' = span \/ span' = 2)
            BY <1>6 DEF RunPresets
      <3>2. QED BY <3>1 DEF TypeOK
    <2>3. /\ stack' \in Seq(Nat \cup {Undefined}) /\ rets' \in Seq(BOOLEAN)
          /\ depth' \in Nat /\ synced' \in Nat /\ rounds' \in Nat
          BY <1>6, <1>b DEF RunPresets
    <2>4. phase' \in Phases /\ caller' \in Callers
          BY <1>6, <1>a DEF RunPresets
    <2>5. mark' \in [Keys -> Slot]
          BY <1>6, LatestType DEF RunPresets, TypeOK
    <2>6. QED BY <2>1, <2>2, <2>3, <2>4, <2>5 DEF TypeOK
  <1>7. ASSUME Finish PROVE TypeOK'
        BY <1>7, <1>a DEF Finish, TypeOK
  <1>8. ASSUME Terminate PROVE TypeOK'
    <2>1. Clear
          BY <1>8 DEF Terminate
    <2>2. QED BY <2>1, <1>8, <1>a, ClearedType, ClearStack DEF Terminate, TypeOK
  <1>9. ASSUME NEW b \in Batches, NEW done \in BOOLEAN, RunScripts(b, done) PROVE TypeOK'
    <2>1. WriteAt(Following(Entry(Declared + 1)), b)
          BY <1>9 DEF RunScripts
    <2>2. rets' \in Seq(BOOLEAN)
          BY <1>9 DEF RunScripts, TypeOK
    <2>3. QED BY <2>1, <2>2, <1>9, <1>c, WriteAtType DEF RunScripts, TypeOK
  <1>10. ASSUME ScriptFault PROVE TypeOK'
    <2>1. revision' \in Nat /\ span' \in Nat \ {0}
          BY <1>10, <1>c DEF ScriptFault, TypeOK
    <2>2. QED BY <2>1, <1>10, <1>a DEF ScriptFault, TypeOK
  <1>11. ASSUME LimitFault PROVE TypeOK'
        BY <1>11, <1>a DEF LimitFault, TypeOK
  <1>12. ASSUME NEW b \in Batches, Declare(b) PROVE TypeOK'
    <2>1. Write(b) /\ UNCHANGED <<revision, span, stack, depth, rets, phase, caller, mark>>
          BY <1>12 DEF Declare, Write
    <2>2. rounds' \in Nat /\ synced' \in Nat
          BY <1>12 DEF Declare, TypeOK
    <2>3. QED BY <2>1, <2>2, WriteType DEF TypeOK
  <1>13. ASSUME NEW b \in Batches, Again(b) PROVE TypeOK'
    <2>1. Write(b) /\ UNCHANGED <<revision, span, stack, depth, rets, rounds, phase, caller, mark>>
          BY <1>13 DEF Again, Write
    <2>2. synced' \in Nat
          BY <1>13 DEF Again, TypeOK
    <2>3. QED BY <2>1, <2>2, WriteType DEF TypeOK
  <1>14. ASSUME Descend PROVE TypeOK'
    <2>1. stack' \in Seq(Nat \cup {Undefined})
          BY <1>14, EntryType DEF Descend, TypeOK
    <2>2. QED BY <2>1, <1>14 DEF Descend, TypeOK
  <1>15. ASSUME Send PROVE TypeOK'
        BY <1>15, <1>a DEF Send, TypeOK
  <1>16. ASSUME Commit PROVE TypeOK'
    <2>1. Declared > 0 /\ synced = Declared /\ Declared \in Nat
          BY <1>16 DEF Commit, Synced, Working, TypeOK, Declared
    <2>2. stack' \in Seq(Nat \cup {Undefined})
          BY <2>1, <1>16, IncrementedType DEF Commit
    <2>3. rets' \in Seq(BOOLEAN)
          BY <2>1, <1>16, FrontType DEF Commit, TypeOK, Declared
    <2>4. QED BY <2>1, <2>2, <2>3, <1>16 DEF Commit, TypeOK
  <1>17. ASSUME NEW b \in Batches, Return(b) PROVE TypeOK'
    <2>1. Declared > 0 /\ synced = Declared /\ Declared \in Nat
          BY <1>17 DEF Return, Synced, Working, TypeOK, Declared
    <2>2. stack' \in Seq(Nat \cup {Undefined})
          BY <2>1, <1>17, IncrementedType DEF Return
    <2>3. rets' \in Seq(BOOLEAN)
          BY <2>1, <1>17, FrontType DEF Return, TypeOK, Declared
    <2>4. /\ map' \in [Keys -> Revisions] /\ dirty' \subseteq 0 .. Width - 1
          /\ revision' \in Nat /\ span' \in Nat \ {0}
          BY <1>17, ReturnType
    <2>5. depth' \in Nat /\ synced' \in Nat /\ phase' \in Phases
          BY <1>17, <2>1, <1>a DEF Return, TypeOK
    <2>6. rounds' \in Nat /\ caller' \in Callers /\ mark' \in [Keys -> Slot]
          BY <1>17 DEF Return, TypeOK
    <2>7. QED BY <2>2, <2>3, <2>4, <2>5, <2>6 DEF TypeOK
  <1>18. ASSUME NEW b \in Batches, Response(b) PROVE TypeOK'
        BY <1>18, <1>a, <1>c, WriteAtType DEF Response, TypeOK
  <1>19. ASSUME NEW b \in Batches, InvalidName(b) PROVE TypeOK'
        BY <1>19, <1>a, <1>c, WriteAtType DEF InvalidName, TypeOK
  <1>20. ASSUME Fault PROVE TypeOK'
    <2>1. Clear
          BY <1>20 DEF Fault
    <2>2. QED BY <2>1, <1>20, <1>a, ClearedType, ClearStack DEF Fault, TypeOK
  <1>21. ASSUME Reconnect PROVE TypeOK'
    <2>1. phase' \in Phases
          BY <1>21, <1>a DEF Reconnect
    <2>2. QED BY <2>1, <1>21, ReconnectType DEF Reconnect, TypeOK
  <1>22. CASE UNCHANGED vars
        BY <1>22 DEF vars, TypeOK
  <1>23. QED
        BY <1>1, <1>2, <1>3, <1>4, <1>5, <1>6, <1>7, <1>8, <1>9, <1>10, <1>11, <1>12,
           <1>13, <1>14, <1>15, <1>16, <1>17, <1>18, <1>19, <1>20, <1>21, <1>22
        DEF Next, Over

\* Revisions, levels and rounds stay numbers and the data stays data, whatever
\* the limits, also when the session is restored.
THEOREM TypeCorrect == Spec => []TypeOK
  <1>1. QED BY TypeInit, TypeStep, PTL DEF Spec

-----------------------------------------------------------------------------
\* Writes land.  The stack always has an entry for each level but perhaps the
\* innermost one; then no entry was ever set.

Levels ==
    /\ Len(stack) \in {depth, depth + 1}
    /\ Len(stack) = depth => \A i \in DOMAIN stack : stack[i] = Undefined
    /\ phase = "open" => stack = <<0>>
    /\ phase = "run" => Declared \in {depth, depth + 1}
    /\ phase = "sent" => Declared = depth + 1
    /\ phase \in {"open", "done"} => rets = <<>> /\ depth = 0

\* No array goes further than one revision after the committed one, nor than
\* the sizes that a collapse looks at, unless the map was just restored.
Lengths ==
    /\ phase = "run" /\ Declared > depth => revision = Top + 1 /\ span > revision
    /\ phase \notin {"ended", "hung"} => \A k \in Keys : Len(map[k]) <= Top + 2
    /\ phase \notin {"ended", "hung"} /\ (Reconnects => phase \notin {"open", "sent"})
         => \A k \in Keys : Len(map[k]) <= span

LEMMA TopEntry ==
  ASSUME TypeOK, Levels
  PROVE  OrZero(Entry(depth + 1)) = Top
  <1>1. Len(stack) \in Nat /\ depth \in Nat
        BY DEF TypeOK
  <1>2. CASE Len(stack) = depth + 1
        BY <1>2 DEF Top
  <1>3. CASE Len(stack) = depth
    <2>1. Entry(depth + 1) = Undefined
          BY <1>1, <1>3 DEF Entry, TypeOK
    <2>2. Entry(Len(stack)) = Undefined
          BY <1>1, <1>3 DEF Entry, Levels, TypeOK
    <2>3. QED BY <2>1, <2>2 DEF Top
  <1>4. QED BY <1>2, <1>3 DEF Levels

\* The top of the next stack.
LEMMA NextTop ==
  ASSUME stack' \in Seq(Nat \cup {Undefined})
  PROVE  /\ Len(stack') > 0 => Top' = OrZero(stack'[Len(stack')])
         /\ Len(stack') = 0 => Top' = 0
         /\ stack' = <<0>> => Top' = 0
         /\ Top' \in Nat
  <1>1. Top' = OrZero(Entry(Len(stack))')
        BY DEF Top, OrZero
  <1>2. Len(stack') > 0 => Entry(Len(stack))' = stack'[Len(stack')]
        BY DEF Entry
  <1>3. Len(stack') = 0 => Entry(Len(stack))' = Undefined
        BY DEF Entry
  <1>4. OrZero(Undefined) = 0 /\ OrZero(0) = 0
        BY DEF OrZero, Undefined
  <1>5. stack' = <<0>> => Len(stack') > 0 /\ stack'[Len(stack')] = 0
        OBVIOUS
  <1>6. \A n \in Nat \cup {Undefined} : OrZero(n) \in Nat
        BY DEF OrZero, Undefined
  <1>7. Entry(Len(stack))' \in Nat \cup {Undefined}
        BY DEF Entry
  <1>8. QED BY <1>1, <1>2, <1>3, <1>4, <1>5, <1>6, <1>7

LEMMA SameTop == stack' = stack => Top' = Top
  BY DEF Top, Entry, OrZero, Undefined

\* What clearing leaves goes no further than revision 1.
LEMMA ClearedLengths ==
  ASSUME TypeOK,
         \A k \in Keys : Len(map[k]) <= Top + 2,
         \A k \in Keys : Len(map[k]) <= span,
         NEW m, m = IF Committed THEN CollapsedMap(1) ELSE map,
         NEW n, n = IF Committed /\ Collapses(1) THEN 2 ELSE span
  PROVE  \A k \in Keys : Len(m[k]) <= 2 /\ Len(m[k]) <= n
  <1>1. Top \in Nat /\ span \in Nat /\ \A k \in Keys : Len(map[k]) \in Nat
        BY EntryType DEF TypeOK, Revisions
  <1>2. CASE Committed /\ Collapses(1)
    <2>1. \A k \in Keys : Len(m[k]) <= 1 + 1
          BY <1>2, CollapsedMapType
    <2>2. QED BY <2>1, <1>2
  <1>3. CASE Committed /\ ~Collapses(1)
    <2>1. m = map /\ n = span
          BY <1>3 DEF CollapsedMap
    <2>2. span <= 1
          BY <1>1, <1>3 DEF Collapses
    <2>3. QED BY <2>1, <2>2, <1>1
  <1>4. CASE ~Committed
    <2>1. m = map /\ n = span
          BY <1>4
    <2>2. Top = 0
          BY <1>1, <1>4 DEF Committed
    <2>3. QED BY <2>1, <2>2, <1>1
  <1>5. QED BY <1>2, <1>3, <1>4

\* After Clear, in a phase whose sizes are known.
LEMMA ClearStep ==
  ASSUME TypeOK, TypeOK', Lengths, Clear,
         phase \notin {"ended", "hung"},
         Reconnects => phase \notin {"open", "sent"},
         phase' \in {"run", "done", "ended"}
  PROVE  Levels' /\ Lengths'
  <1>1. /\ stack' = <<0>> /\ depth' = 0 /\ rets' = <<>>
        /\ Top' = 0 /\ Declared' = 0
        BY ClearStack, NextTop DEF Declared
  <1>2. Levels'
        BY <1>1 DEF Levels, Declared
  <1>3. \A k \in Keys : Len(map'[k]) <= 2 /\ Len(map'[k]) <= span'
    <2>1. /\ \A k \in Keys : Len(map[k]) <= Top + 2
          /\ \A k \in Keys : Len(map[k]) <= span
          BY DEF Lengths
    <2>2. /\ map' = IF Committed THEN CollapsedMap(1) ELSE map
          /\ span' = IF Committed /\ Collapses(1) THEN 2 ELSE span
          BY DEF Clear
    <2>3. QED BY <2>1, <2>2, ClearedLengths
  <1>4. Lengths'
        BY <1>1, <1>3 DEF Lengths
  <1>5. QED BY <1>2, <1>4

\* After a write at the revision that follows the committed one.
LEMMA WriteAtStep ==
  ASSUME TypeOK, Lengths, NEW b \in Batches, WriteAt(Top + 1, b), stack' = stack,
         phase \notin {"ended", "hung"}
  PROVE  /\ revision' = Top' + 1 /\ span' > revision'
         /\ \A k \in Keys : Len(map'[k]) <= Top' + 2
         /\ \A k \in Keys : Len(map'[k]) <= span'
  <1>1. Top \in Nat /\ Top' = Top
        BY EntryType, SameTop
  <1>2. /\ revision' = Top + 1 /\ span' \in Nat /\ span' > Top + 1
        /\ \A k \in Keys : Len(map'[k]) = Len(map[k]) \/ Len(map'[k]) = Top + 1 + 1
        BY <1>1, WriteAtType
  <1>3. \A k \in Keys : Len(map[k]) \in Nat /\ Len(map[k]) <= Top + 2
        BY DEF Lengths, TypeOK, Revisions
  <1>4. \A k \in Keys : Len(map'[k]) <= Top + 2
        BY <1>1, <1>2, <1>3
  <1>5. QED
    <2>1. \A k \in Keys : Len(map'[k]) \in Nat
          BY <1>1, <1>2, <1>3
    <2>2. \A k \in Keys : Len(map'[k]) <= span'
          BY <1>1, <1>2, <1>4, <2>1
    <2>3. QED BY <1>1, <1>2, <1>4, <2>2

\* After a write at the revision that the work goes on at.
LEMMA WriteStep ==
  ASSUME TypeOK, Lengths, NEW b \in Batches, Write(b), stack' = stack,
         phase = "run", Declared > depth
  PROVE  /\ revision' = Top' + 1 /\ span' > revision'
         /\ \A k \in Keys : Len(map'[k]) <= Top' + 2
         /\ \A k \in Keys : Len(map'[k]) <= span'
  <1>1. Top \in Nat /\ Top' = Top
        BY EntryType, SameTop
  <1>2. /\ revision = Top + 1 /\ span \in Nat /\ span > Top + 1
        /\ revision' = revision /\ span' = span
        BY DEF Lengths, TypeOK, Write
  <1>3. \A k \in Keys : Len(map'[k]) = Len(map[k]) \/ Len(map'[k]) = revision + 1
        BY WriteType
  <1>4. \A k \in Keys : /\ Len(map[k]) \in Nat
                        /\ Len(map[k]) <= Top + 2 /\ Len(map[k]) <= span
        BY DEF Lengths, TypeOK, Revisions
  <1>5. QED BY <1>1, <1>2, <1>3, <1>4

\* What the steps between the levels do to the stack.
LEMMA DescendLevels ==
  ASSUME TypeOK, TypeOK', Levels, Descend
  PROVE  /\ Levels' /\ Top' = Top
         /\ phase = "run" /\ phase' = "run" /\ Declared = depth + 1 /\ Declared' = Declared
         /\ depth' = depth + 1 /\ depth \in Nat
         /\ \A i \in 1 .. depth + 1 : Entry(i)' = Entry(i)
         /\ UNCHANGED <<map, revision, span, dirty, rets, synced, rounds, caller, mark>>
  <1>1. /\ phase = "run" /\ phase' = "run" /\ Declared = depth + 1
        /\ depth' = depth + 1 /\ stack' = Append(stack, Entry(depth + 1))
        /\ UNCHANGED <<map, revision, span, dirty, rets, synced, rounds, caller, mark>>
    <2>1. Declared \in Nat /\ depth \in Nat
          BY DEF TypeOK, Declared
    <2>2. phase = "run" /\ Declared = depth + 1
          BY <2>1 DEF Descend, Synced, Working, Levels
    <2>3. Inception + 1 = depth + 1
          BY <2>1, <2>2 DEF Inception
    <2>4. QED BY <2>2, <2>3 DEF Descend
  <1>2. Len(stack) \in Nat /\ depth \in Nat /\ Declared' = Declared
        BY <1>1 DEF TypeOK, Declared
  <1>3. /\ Len(stack') = Len(stack) + 1
        /\ stack'[Len(stack')] = Entry(depth + 1)
        /\ \A i \in 1 .. Len(stack) : stack'[i] = stack[i]
        /\ DOMAIN stack = 1 .. Len(stack) /\ DOMAIN stack' = 1 .. Len(stack')
        BY <1>1 DEF TypeOK
  <1>4. Top' = Top
        BY <1>2, <1>3, NextTop, TopEntry DEF TypeOK
  <1>5. Levels'
    <2>1. ASSUME Len(stack') = depth'
          PROVE  \A i \in DOMAIN stack' : stack'[i] = Undefined
      <3>1. Len(stack) = depth
            BY <2>1, <1>1, <1>2, <1>3
      <3>2. Entry(depth + 1) = Undefined
            BY <3>1, <1>2, <1>3 DEF Entry
      <3>3. \A i \in 1 .. Len(stack) : stack[i] = Undefined
            BY <1>3, <3>1 DEF Levels
      <3>4. QED BY <3>2, <3>3, <1>2, <1>3
    <2>2. Len(stack') \in {depth', depth' + 1}
          BY <1>1, <1>2, <1>3 DEF Levels
    <2>3. Declared' \in {depth', depth' + 1}
          BY <1>1, <1>2
    <2>4. QED BY <2>1, <2>2, <2>3, <1>1 DEF Levels
  <1>6. ASSUME NEW i \in 1 .. depth + 1 PROVE Entry(i)' = Entry(i)
    <2>1. CASE i \in 1 .. Len(stack)
          BY <2>1, <1>2, <1>3 DEF Entry
    <2>2. CASE i \notin 1 .. Len(stack)
      <3>1. Len(stack) = depth
            BY <2>2, <1>2 DEF Levels
      <3>2. i = depth + 1 /\ i = Len(stack') /\ i \in DOMAIN stack'
            BY <2>2, <3>1, <1>2, <1>3
      <3>3. QED BY <3>2, <1>3 DEF Entry
    <2>3. QED BY <2>1, <2>2
  <1>7. QED BY <1>1, <1>2, <1>4, <1>5, <1>6

LEMMA CommitLevels ==
  ASSUME TypeOK, TypeOK', Levels, Commit
  PROVE  /\ Levels' /\ Top' \in {Top, Top + 1}
         /\ phase = "run" /\ phase' = "run" /\ Declared = depth + 1 /\ Declared' = depth
         /\ depth' = depth /\ depth \in Nat
         /\ \A i \in 1 .. depth : Entry(i)' = Entry(i)
         /\ synced = Declared /\ synced' = depth /\ rounds < MaxRounds
         /\ UNCHANGED <<map, revision, span, dirty, rounds, caller, mark>>
  <1>1. /\ phase = "run" /\ phase' = "run" /\ Declared = depth + 1
        /\ depth \in Nat /\ Len(stack) \in Nat
        /\ synced = Declared /\ rounds < MaxRounds
        BY DEF Commit, Synced, Working, WithinLimits, Levels, TypeOK, Declared
  <1>2. /\ stack' = Incremented /\ rets' = Front(rets) /\ synced' = synced - 1
        /\ UNCHANGED <<map, revision, span, dirty, depth, rounds, caller, mark>>
        BY DEF Commit
  <1>3. Declared' = depth
        BY <1>1, <1>2, FrontType DEF TypeOK, Declared
  <1>4. Len(stack') = depth + 1
        BY <1>1, <1>2, IncrementedType DEF Levels
  <1>5. Top' \in {Top, Top + 1}
    <2>1. stack'[depth + 1] = IF Entry(depth + 1) = Undefined
                              THEN Undefined ELSE Entry(depth + 1) + 1
          BY <1>1, <1>2, <1>4, IncrementedType
    <2>2. Top' = OrZero(stack'[depth + 1])
          BY <1>1, <1>4, NextTop DEF TypeOK
    <2>3. Entry(depth + 1) \in Nat \cup {Undefined}
          BY EntryType
    <2>4. OrZero(Entry(depth + 1)) = Top
          BY TopEntry
    <2>5. QED BY <2>1, <2>2, <2>3, <2>4 DEF OrZero, Undefined
  <1>6. Levels'
        BY <1>1, <1>2, <1>3, <1>4 DEF Levels
  <1>7. ASSUME NEW i \in 1 .. depth PROVE Entry(i)' = Entry(i)
    <2>1. i \in DOMAIN stack' /\ stack'[i] = Entry(i)
          BY <1>1, <1>2, <1>4, IncrementedType DEF TypeOK
    <2>2. QED BY <2>1 DEF Entry
  <1>8. QED BY <1>1, <1>2, <1>3, <1>5, <1>6, <1>7

LEMMA ReturnLevels ==
  ASSUME TypeOK, TypeOK', Levels, NEW b \in Batches, Return(b)
  PROVE  /\ Levels'
         /\ phase = "run" /\ Declared = depth + 1 /\ Declared' = depth /\ depth \in Nat
         /\ \/ depth = 0 /\ phase' = "done" /\ depth' = 0 /\ Top' = 0
            \/ /\ depth # 0 /\ phase' = "run" /\ depth' = depth - 1
               /\ Top' = OrZero(Entry(depth))
               /\ \A i \in 1 .. depth : Entry(i)' = Entry(i)
         /\ synced = Declared /\ synced' = depth /\ rounds < MaxRounds
         /\ revision' = Top' + 1 /\ span' = Top' + 2 /\ Top' \in Nat
         /\ map' = Written(CollapsedMap(Top' + 1), Top' + 1, b)
         /\ dirty' = CollapsedDirty(Top' + 1)
                        \cup DirtyBits(CollapsedMap(Top' + 1), Top' + 1, b)
         /\ depth = 0 => b = [k \in Keys |-> Same]
         /\ UNCHANGED <<rounds, caller, mark>>
  <1> DEFINE n == IF Popped = <<>> THEN Undefined ELSE Popped[Len(Popped)]
             r == revision'
  <1>1. /\ phase = "run" /\ Declared = depth + 1
        /\ depth \in Nat /\ Len(stack) \in Nat
        /\ synced = Declared /\ rounds < MaxRounds
        BY DEF Return, Synced, Working, WithinLimits, Levels, TypeOK, Declared
  <1>2. /\ stack' = Popped /\ rets' = Front(rets) /\ synced' = synced - 1
        /\ IF depth = 0 THEN phase' = "done" /\ depth' = 0
                        ELSE depth' = depth - 1 /\ phase' = "run"
        /\ depth = 0 => b = [k \in Keys |-> Same]
        /\ map' = Written(CollapsedMap(r), r, b)
        /\ dirty' = CollapsedDirty(r) \cup DirtyBits(CollapsedMap(r), r, b)
        /\ UNCHANGED <<rounds, caller, mark>>
    <2>1. /\ stack' = Popped /\ rets' = Front(rets) /\ synced' = synced - 1
          /\ depth = 0 => b = [k \in Keys |-> Same]
          /\ UNCHANGED <<rounds, caller, mark>>
          BY DEF Return
    <2>2. IF depth = 0 THEN phase' = "done" /\ depth' = depth
                       ELSE depth' = depth - 1 /\ phase' = phase
          BY DEF Return
    <2>3. /\ map' = Written(CollapsedMap(r), r, b)
          /\ dirty' = CollapsedDirty(r) \cup DirtyBits(CollapsedMap(r), r, b)
          BY DEF Return
    <2>4. QED BY <2>1, <2>2, <2>3, <1>1
  <1>3. Declared' = depth
        BY <1>1, <1>2, FrontType DEF TypeOK, Declared
  <1>4. Popped \in Seq(Nat \cup {Undefined}) /\ Len(Popped) = depth
        BY <1>1, IncrementedType DEF Levels
  <1>5. r \in Nat /\ span' = r + 1 /\ r = OrZero(n) + 1
        BY ReturnType
  <1>6. Top' = OrZero(n)
    <2>1. CASE depth = 0
      <3>1. Popped = <<>>
            BY <1>4, <2>1
      <3>2. n = Undefined /\ OrZero(Undefined) = 0
            BY <3>1 DEF OrZero
      <3>3. QED BY <3>2, <1>2, <1>4, <2>1, NextTop
    <2>2. CASE depth # 0
      <3>1. Popped # <<>> /\ Len(Popped) > 0
            BY <1>1, <1>4, <2>2
      <3>2. QED BY <3>1, <1>2, <1>4, NextTop
    <2>3. QED BY <2>1, <2>2
  <1>7. ASSUME NEW i \in 1 .. depth PROVE Popped[i] = Entry(i) /\ Entry(i)' = Entry(i)
    <2>1. i # depth + 1 /\ i \in 1 .. Len(Popped)
          BY <1>1, <1>4
    <2>2. Popped[i] = Entry(i)
          BY <1>1, <1>4, <2>1, IncrementedType
    <2>3. i \in DOMAIN stack' /\ stack'[i] = Entry(i)
          BY <1>2, <1>4, <2>1, <2>2 DEF TypeOK
    <2>4. QED BY <2>2, <2>3 DEF Entry
  <1>8. depth # 0 => Top' = OrZero(Entry(depth))
    <2>1. SUFFICES ASSUME depth # 0 PROVE n = Entry(depth)
          BY <1>6
    <2>2. depth \in 1 .. depth /\ Popped # <<>>
          BY <1>1, <1>4, <2>1
    <2>3. QED BY <2>2, <1>4, <1>7
  <1>9. depth = 0 => Top' = 0
        BY <1>2, <1>4, NextTop
  <1> HIDE DEF n, r
  <1>10. Levels'
    <2>1. CASE depth = 0
      <3>1. Len(stack') = 0 /\ depth' = 0 /\ phase' = "done" /\ Len(rets') = 0
            BY <2>1, <1>2, <1>3, <1>4 DEF Declared
      <3>2. DOMAIN stack' = {} /\ rets' = <<>>
        <4>1. DOMAIN stack' = 1 .. Len(stack')
              BY DEF TypeOK
        <4>2. DOMAIN stack' = {}
              BY <4>1, <3>1
        <4>3. rets' = <<>>
              BY <3>1 DEF TypeOK
        <4>4. QED BY <4>2, <4>3
      <3>3. phase' \notin {"open", "run", "sent"}
            BY <3>1
      <3>4. Len(stack') \in {depth', depth' + 1}
            BY <3>1
      <3>5. \A i \in DOMAIN stack' : stack'[i] = Undefined
            BY <3>2
      <3>6. QED BY <3>1, <3>2, <3>3, <3>4, <3>5 DEF Levels
    <2>2. CASE depth # 0
      <3>1. Len(stack') = depth' + 1 /\ phase' = "run" /\ Declared' = depth' + 1
            BY <2>2, <1>1, <1>2, <1>3, <1>4
      <3>2. depth' \in Nat
            BY DEF TypeOK
      <3>3. Len(stack') # depth'
        <4>1. Len(stack') = depth' + 1
              BY <3>1
        <4>2. \A d \in Nat : d + 1 # d
              OBVIOUS
        <4>3. QED BY <4>1, <4>2, <3>2, Zenon
      <3>4. phase' \notin {"open", "sent", "done"}
            BY <3>1
      <3>5. QED BY <3>1, <3>3, <3>4 DEF Levels
    <2>3. QED BY <2>1, <2>2
  <1>11. Top' \in Nat
    <2>1. n \in Nat \cup {Undefined}
          BY <1>4 DEF n
    <2>2. QED BY <2>1, <1>6, EntryType
  <1>12. r = Top' + 1 /\ span' = Top' + 2
        BY <1>5, <1>6, <1>11
  <1>13. QED BY <1>1, <1>2, <1>3, <1>7, <1>8, <1>9, <1>10, <1>11, <1>12 DEF r

\* They keep the lengths.
LEMMA DescendStep ==
  ASSUME TypeOK, TypeOK', Levels, Lengths, Descend
  PROVE  Levels' /\ Lengths'
  <1>1. ~(Declared' > depth')
        BY DescendLevels
  <1>2. QED BY <1>1, DescendLevels DEF Lengths

LEMMA CommitStep ==
  ASSUME TypeOK, TypeOK', Levels, Lengths, Commit
  PROVE  Levels' /\ Lengths'
  <1>1. ~(Declared' > depth')
        BY CommitLevels
  <1>2. \A k \in Keys : Len(map'[k]) <= Top' + 2
    <2>1. \A k \in Keys : Len(map[k]) \in Nat /\ Len(map[k]) <= Top + 2
          BY CommitLevels DEF Lengths, TypeOK, Revisions
    <2>2. Top \in Nat
          BY EntryType
    <2>3. QED BY <2>1, <2>2, CommitLevels
  <1>3. QED BY <1>1, <1>2, CommitLevels DEF Lengths

LEMMA ReturnStep ==
  ASSUME TypeOK, TypeOK', Levels, Lengths, NEW b \in Batches, Return(b)
  PROVE  Levels' /\ Lengths'
  <1>1. PICK r \in Nat : r = Top' + 1 /\ r + 1 = Top' + 2
        BY ReturnLevels
  <1>2. /\ phase = "run" /\ revision' = r /\ span' = r + 1 /\ Levels'
        /\ map' = Written(CollapsedMap(r), r, b)
        BY <1>1, ReturnLevels
  <1>3. \A k \in Keys : Len(map'[k]) <= r + 1
    <2>1. SUFFICES ASSUME NEW k \in Keys PROVE Len(map'[k]) <= r + 1
          OBVIOUS
    <2>2. Len(map[k]) \in Nat /\ Len(map[k]) <= span /\ span \in Nat
          BY <1>2 DEF Lengths, TypeOK, Revisions
    <2>3. /\ CollapsedMap(r)[k] \in Revisions
          /\ Len(CollapsedMap(r)[k]) <= Len(map[k])
          /\ Collapses(r) => Len(CollapsedMap(r)[k]) <= r + 1
          BY <1>1, CollapsedMapType
    <2>4. Len(CollapsedMap(r)[k]) \in Nat /\ Len(CollapsedMap(r)[k]) <= r + 1
      <3>1. Len(CollapsedMap(r)[k]) \in Nat
            BY <2>3 DEF Revisions
      <3>2. ~Collapses(r) => span <= r
            BY <1>1, <2>2 DEF Collapses
      <3>3. QED BY <3>1, <3>2, <2>2, <2>3, <1>1
    <2>5. \/ Len(map'[k]) = Len(CollapsedMap(r)[k])
          \/ Len(map'[k]) = r + 1
          BY <1>1, <1>2, CollapsedMapType, WrittenType
    <2>6. QED BY <2>4, <2>5
  <1>4. QED BY <1>1, <1>2, <1>3 DEF Lengths

\* Every step keeps them, if a session is either not restored or not cleared
\* before it is written again.
LEMMA LengthsStep ==
  ASSUME ~Reconnects \/ "fault" \notin Answers,
         TypeOK, TypeOK', Levels, Lengths, [Next]_vars
  PROVE  Levels' /\ Lengths'
  <1>a. Top \in Nat /\ Following(Top) = Top + 1
        BY EntryType
  <1>1. ASSUME NEW b \in Batches, Notice(b) PROVE Levels' /\ Lengths'
    <2>1. /\ phase = "open" /\ phase' = "open" /\ WriteAt(Top + 1, b)
          /\ UNCHANGED <<stack, depth, rets>>
          BY <1>1, <1>a DEF Notice
    <2>2. QED BY <2>1, WriteAtStep DEF Levels, Lengths, Declared
  <1>2. ASSUME NEW b \in Batches, DeviceDone(b) PROVE Levels' /\ Lengths'
    <2>1. /\ phase = "open" /\ phase' = "done" /\ WriteAt(Top + 1, b)
          /\ UNCHANGED <<stack, depth, rets>>
          BY <1>2, <1>a DEF DeviceDone
    <2>2. QED BY <2>1, WriteAtStep DEF Levels, Lengths, Declared
  <1>3. ASSUME NextTask PROVE Levels' /\ Lengths'
        BY <1>3, ClearStep DEF NextTask
  <1>4. ASSUME NextAfterFault PROVE Levels' /\ Lengths'
        BY <1>4, ClearStep DEF NextAfterFault
  <1>5. ASSUME ApplyPresets PROVE Levels' /\ Lengths'
    <2>0. /\ \A k \in Keys : Len(map[k]) <= Top + 2
          /\ \A k \in Keys : Len(map[k]) <= span
      <3>1. phase \in {"done", "failed"}
            BY <1>5 DEF ApplyPresets
      <3>2. QED BY <3>1 DEF Lengths
    <2>1. CASE stack' = <<0>> /\ depth' = 0 /\ rets' = <<>> /\ revision' = 1
                 /\ map' = (IF Committed THEN CollapsedMap(1) ELSE map)
                 /\ span' = (IF span <= 1 \/ (Committed /\ Collapses(1)) THEN 2 ELSE span)
      <3>1. Top' = 0 /\ Declared' = 0
            BY <2>1, NextTop DEF TypeOK, Declared
      <3>2. \A k \in Keys : /\ Len(map'[k]) <= 2
                            /\ Len(map'[k]) <= IF Committed /\ Collapses(1) THEN 2 ELSE span
            BY <2>0, <2>1, ClearedLengths
      <3>3. \A k \in Keys : Len(map'[k]) \in Nat
            BY DEF TypeOK, Revisions
      <3>4. \A k \in Keys : Len(map'[k]) <= span'
            BY <2>1, <3>2, <3>3 DEF TypeOK
      <3>5. phase' \in {"run", "done"}
            BY <1>5 DEF ApplyPresets
      <3>6. Levels'
            BY <2>1, <3>1, <3>5 DEF Levels, Declared
      <3>7. Lengths'
            BY <2>1, <3>1, <3>2, <3>4 DEF Lengths
      <3>8. QED BY <3>6, <3>7
    <2>2. CASE /\ phase = "done" /\ phase' = "run" /\ UNCHANGED <<map, stack, depth, rets>>
               /\ span' = (IF span <= 1 THEN 2 ELSE span)
      <3>1. Top' = Top /\ Declared' = 0 /\ depth' = 0 /\ rets' = <<>>
            BY <2>2, SameTop DEF Levels, Declared
      <3>2. \A k \in Keys : Len(map[k]) \in Nat /\ span \in Nat
            BY DEF TypeOK, Revisions
      <3>3. \A k \in Keys : Len(map'[k]) <= Top' + 2 /\ Len(map'[k]) <= span'
            BY <2>0, <2>2, <3>1, <3>2
      <3>4. Levels'
            BY <2>2, <3>1 DEF Levels, Declared
      <3>5. Lengths'
            BY <2>2, <3>1, <3>3 DEF Lengths
      <3>6. QED BY <3>4, <3>5
    <2>3. QED BY <1>5, <2>1, <2>2 DEF ApplyPresets
  <1>6. ASSUME RunPresets PROVE Levels' /\ Lengths'
    <2>1. /\ \A k \in Keys : Len(map[k]) <= Top + 2
          /\ \A k \in Keys : Len(map[k]) <= span
          BY <1>6 DEF RunPresets, Lengths
    <2>2. /\ map' = IF Committed THEN CollapsedMap(1) ELSE map
          /\ span' = IF Committed /\ Collapses(1) THEN 2 ELSE span
          /\ stack' = <<0>> /\ depth' = 0 /\ rets' = <<>> /\ phase' \in {"run", "done"}
          BY <1>6 DEF RunPresets
    <2>3. Top' = 0 /\ Declared' = 0
          BY <2>2, NextTop DEF TypeOK, Declared
    <2>4. \A k \in Keys : Len(map'[k]) <= 2 /\ Len(map'[k]) <= span'
          BY <2>1, <2>2, ClearedLengths
    <2>5. Levels'
          BY <2>2, <2>3 DEF Levels, Declared
    <2>6. Lengths'
          BY <2>2, <2>3, <2>4 DEF Lengths
    <2>7. QED BY <2>5, <2>6
  <1>7. ASSUME Finish PROVE Levels' /\ Lengths'
        BY <1>7 DEF Finish, Levels, Lengths
  <1>8. ASSUME Terminate PROVE Levels' /\ Lengths'
    <2>1. /\ stack' = <<0>> /\ depth' = 0 /\ rets' = <<>> /\ phase' = "ended"
          BY <1>8, ClearStack DEF Terminate
    <2>2. QED BY <2>1 DEF Levels, Lengths
  <1>9. ASSUME NEW b \in Batches, NEW done \in BOOLEAN, RunScripts(b, done)
        PROVE  Levels' /\ Lengths'
    <2>1. /\ phase = "run" /\ phase' = "run" /\ Declared = depth /\ depth \in Nat
          /\ rets' = Append(rets, done) /\ UNCHANGED <<stack, depth>>
          BY <1>9 DEF RunScripts, Levels, TypeOK, Declared
    <2>2. Following(Entry(Declared + 1)) = Top + 1
      <3>1. Entry(depth + 1) \in Nat \cup {Undefined}
            BY EntryType
      <3>2. QED BY <3>1, <2>1, TopEntry, EntryType
    <2>3. WriteAt(Top + 1, b)
          BY <1>9, <2>2 DEF RunScripts
    <2>4. Declared' = depth' + 1
          BY <2>1 DEF Declared, TypeOK
    <2>5. Levels'
          BY <2>1, <2>4 DEF Levels
    <2>6. Lengths'
          BY <2>1, <2>3, WriteAtStep DEF Lengths
    <2>7. QED BY <2>5, <2>6
  <1>10. ASSUME ScriptFault PROVE Levels' /\ Lengths'
    <2>1. /\ phase = "run" /\ phase' = "failed" /\ UNCHANGED <<map, stack, depth, rets>>
          /\ (span' = span \/ span' > span)
          BY <1>10, EntryType DEF ScriptFault, TypeOK
    <2>2. Top' = Top
          BY <2>1, SameTop
    <2>3. \A k \in Keys : Len(map[k]) \in Nat /\ Len(map[k]) <= Top + 2 /\ Len(map[k]) <= span
          BY <2>1 DEF Lengths, TypeOK, Revisions
    <2>4. span \in Nat /\ span' \in Nat
          BY DEF TypeOK
    <2>5. \A k \in Keys : Len(map'[k]) <= Top' + 2 /\ Len(map'[k]) <= span'
          BY <2>1, <2>2, <2>3, <2>4
    <2>6. QED BY <2>1, <2>5 DEF Levels, Lengths
  <1>11. ASSUME LimitFault PROVE Levels' /\ Lengths'
    <2>1. /\ phase = "run" /\ phase' = "failed"
          /\ UNCHANGED <<map, revision, span, stack, depth, rets>> /\ Top' = Top
          BY <1>11, SameTop DEF LimitFault
    <2>2. QED BY <2>1 DEF Levels, Lengths
  <1>12. ASSUME NEW b \in Batches, Declare(b) PROVE Levels' /\ Lengths'
    <2>1. /\ phase = "run" /\ phase' = "run" /\ Declared > depth /\ Write(b)
          /\ UNCHANGED <<stack, depth, rets>>
          BY <1>12 DEF Declare, Working
    <2>2. QED BY <2>1, WriteStep DEF Levels, Lengths, Declared
  <1>13. ASSUME NEW b \in Batches, Again(b) PROVE Levels' /\ Lengths'
    <2>1. /\ phase = "run" /\ phase' = "run" /\ Declared > depth /\ Write(b)
          /\ UNCHANGED <<stack, depth, rets>>
          BY <1>13 DEF Again, Synced, Working
    <2>2. QED BY <2>1, WriteStep DEF Levels, Lengths, Declared
  <1>14. ASSUME Descend PROVE Levels' /\ Lengths'
        BY <1>14, DescendStep
  <1>15. ASSUME Send PROVE Levels' /\ Lengths'
    <2>1. /\ phase = "run" /\ phase' = "sent" /\ Declared = depth + 1
          /\ UNCHANGED <<map, revision, span, stack, depth, rets>> /\ Top' = Top
          BY <1>15, SameTop DEF Send, Synced, Working, Levels, TypeOK, Declared
    <2>2. QED BY <2>1 DEF Levels, Lengths, Declared
  <1>16. ASSUME Commit PROVE Levels' /\ Lengths'
        BY <1>16, CommitStep
  <1>17. ASSUME NEW b \in Batches, Return(b) PROVE Levels' /\ Lengths'
        BY <1>17, ReturnStep
  <1>18. ASSUME NEW b \in Batches, Response(b) PROVE Levels' /\ Lengths'
    <2>1. /\ phase = "sent" /\ phase' \in {"run", "sent"} /\ WriteAt(Top + 1, b)
          /\ UNCHANGED <<stack, depth, rets>>
          BY <1>18, <1>a DEF Response
    <2>2. QED BY <2>1, WriteAtStep DEF Levels, Lengths, Declared
  <1>19. ASSUME NEW b \in Batches, InvalidName(b) PROVE Levels' /\ Lengths'
    <2>1. /\ phase = "sent" /\ phase' = "run" /\ WriteAt(Top + 1, b)
          /\ UNCHANGED <<stack, depth, rets>>
          BY <1>19, <1>a DEF InvalidName
    <2>2. QED BY <2>1, WriteAtStep DEF Levels, Lengths, Declared
  <1>20. ASSUME Fault PROVE Levels' /\ Lengths'
        BY <1>20, ClearStep DEF Fault
  <1>21. ASSUME Reconnect PROVE Levels' /\ Lengths'
    <2>1. /\ Reconnects /\ phase \in {"open", "sent"} /\ phase' \in {phase, "hung"}
          /\ UNCHANGED <<stack, depth, rets>> /\ Top' = Top /\ Declared' = Declared
          BY <1>21, SameTop DEF Reconnect, Declared
    <2>2. Levels'
          BY <2>1 DEF Levels
    <2>3. \A k \in Keys : Len(map'[k]) <= Top' + 2
      <3>1. \A k \in Keys : /\ Len(map'[k]) \in Nat /\ Len(map[k]) \in Nat
                            /\ Len(map'[k]) <= Len(map[k]) /\ Len(map[k]) <= Top + 2
            BY <1>21, <2>1, ReconnectType DEF Lengths, TypeOK, Revisions
      <3>2. QED BY <3>1, <2>1, <1>a
    <2>4. Lengths'
          BY <2>1, <2>3 DEF Lengths
    <2>5. QED BY <2>2, <2>4
  <1>22. CASE UNCHANGED vars
    <2>1. UNCHANGED <<map, revision, span, stack, depth, rets, phase>> /\ Top' = Top
          BY <1>22, SameTop DEF vars
    <2>2. QED BY <2>1 DEF Levels, Lengths, Declared
  <1>23. QED
        BY <1>1, <1>2, <1>3, <1>4, <1>5, <1>6, <1>7, <1>8, <1>9, <1>10, <1>11, <1>12,
           <1>13, <1>14, <1>15, <1>16, <1>17, <1>18, <1>19, <1>20, <1>21, <1>22
        DEF Next, Over

\* No write to the device data is ever refused, unless a CPE fault can follow
\* a reconnection (the run RevisionsLost shows that writes are lost then).
THEOREM WritesAlwaysLand ==
  ASSUME ~Reconnects \/ "fault" \notin Answers
  PROVE  Spec => []WritesLand
  <1>1. Init => TypeOK /\ Levels /\ Lengths
    <2>1. SUFFICES ASSUME Init PROVE Levels /\ Lengths
          BY TypeInit
    <2>2. Levels
          BY <2>1 DEF Init, Levels
    <2>3. \A k \in Keys : Len(map[k]) <= 1
      <3>1. Len(<<>>) <= 1 /\ \A v \in Values : Len(<<v>>) <= 1
            OBVIOUS
      <3>2. QED BY <3>1, <2>1 DEF Init
    <2>4. Top = 0
          BY <2>1 DEF Init, Top, Entry, OrZero, Undefined
    <2>5. Lengths
          BY <2>1, <2>3, <2>4 DEF Init, Lengths
    <2>6. QED BY <2>2, <2>5
  <1>2. TypeOK /\ Levels /\ Lengths /\ [Next]_vars => (TypeOK /\ Levels /\ Lengths)'
        BY TypeStep, LengthsStep
  <1>3. TypeOK /\ Levels /\ Lengths => WritesLand
    <2>1. SUFFICES ASSUME TypeOK, Lengths, phase = "run", Declared > depth, NEW k \in Keys
                   PROVE  Len(map[k]) <= revision + 1
          BY DEF WritesLand, Modifiable
    <2>2. revision = Top + 1 /\ Len(map[k]) <= Top + 2 /\ Top \in Nat
          BY <2>1, EntryType DEF Lengths
    <2>3. QED BY <2>2
  <1>4. QED BY <1>1, <1>2, <1>3, PTL DEF Spec

-----------------------------------------------------------------------------
\* What can be read after the operations on one key

\* A write changes nothing before its revision, or nothing at all.
LEMMA PutReads ==
  ASSUME NEW a \in Revisions, NEW rev \in Nat, NEW v \in Slot \cup {Same}
  PROVE  /\ \A x \in Nat : x < rev => At(Put(a, rev, v), x) = At(a, x)
         /\ ~Effective(a, rev, v) => Put(a, rev, v) = a
         /\ Put(a, rev, Same) = a
  <1>1. CASE Effective(a, rev, v)
    <2>1. ASSUME NEW x \in Nat, x < rev
          PROVE  At(Put(a, rev, v), x) = At(a, x)
      <3> DEFINE e == Extended(a, rev, v)
      <3>1. Put(a, rev, v) = e
            BY <1>1 DEF Put
      <3>2. Len(e) = rev + 1 /\ e # <<>>
        <4>1. v \in Slot
              BY <1>1 DEF Effective
        <4>2. \A i \in 1 .. rev + 1 : (IF i = rev + 1 THEN v ELSE At(a, i - 1)) \in Slot
              BY <4>1, AtType
        <4>3. e \in [1 .. rev + 1 -> Slot]
              BY <4>2 DEF Extended
        <4>4. Len(e) = rev + 1 /\ e \in Seq(Slot)
          <5> HIDE DEF e
          <5>1. QED BY <4>3, SequenceOf
        <4> HIDE DEF e
        <4>5. QED BY <4>4
      <3>3. e[x + 1] = At(a, x)
            BY <2>1 DEF Extended
      <3> HIDE DEF e
      <3>4. At(e, x) = e[x + 1]
            BY <2>1, <3>2 DEF At
      <3>5. QED BY <3>1, <3>3, <3>4
    <2>2. QED BY <2>1, <1>1 DEF Put, Effective
  <1>2. CASE ~Effective(a, rev, v)
        BY <1>2 DEF Put, Effective
  <1>3. QED BY <1>1, <1>2

\* A collapse keeps the revisions before it, and the last value.
LEMMA CollapsedReads ==
  ASSUME NEW a \in Revisions, NEW rev \in Nat
  PROVE  /\ \A x \in Nat : x < rev => At(Collapsed(a, rev), x) = At(a, x)
         /\ Latest(Collapsed(a, rev)) = Latest(a)
  <1> DEFINE b == [i \in 1 .. rev + 1 |-> IF i = rev + 1 THEN a[Len(a)] ELSE a[i]]
  <1>0. Len(a) \in Nat /\ \A i \in 1 .. Len(a) : a[i] \in Slot
        BY DEF Revisions
  <1>1. CASE Len(a) <= rev + 1
        BY <1>1 DEF Collapsed
  <1>2. CASE Len(a) > rev + 1
    <2>1. b \in [1 .. rev + 1 -> Slot]
          BY <1>0, <1>2
    <2>2. b \in Seq(Slot) /\ Len(b) = rev + 1
      <3> HIDE DEF b
      <3>1. QED BY <2>1, SequenceOf
    <2>3. b[rev + 1] = a[Len(a)] /\ \A x \in Nat : x < rev => b[x + 1] = a[x + 1]
          BY <1>0
    <2>4. DOMAIN b = 1 .. rev + 1
          OBVIOUS
    <2>5. a # <<>> /\ \A x \in Nat : x < rev => At(a, x) = a[x + 1]
      <3>1. a # <<>>
            BY <1>0, <1>2
      <3>2. QED BY <3>1, <1>0, <1>2 DEF At
    <2>6. Latest(a) = a[Len(a)]
          BY <2>5, <1>0 DEF Latest, At
    <2>7. CASE \E i \in DOMAIN b : b[i] # NonExistent
      <3>1. Collapsed(a, rev) = b
            BY <1>0, <1>2, <2>7 DEF Collapsed
      <3> HIDE DEF b
      <3>2. b # <<>>
            BY <2>2
      <3>3. \A x \in Nat : x < rev => At(b, x) = b[x + 1]
            BY <2>2, <3>2 DEF At
      <3>4. Latest(b) = b[rev + 1]
            BY <2>2, <3>2 DEF Latest, At
      <3>5. QED BY <3>1, <3>3, <3>4, <2>3, <2>5, <2>6
    <2>8. CASE ~\E i \in DOMAIN b : b[i] # NonExistent
      <3>1. Collapsed(a, rev) = <<>>
            BY <1>0, <1>2, <2>8 DEF Collapsed
      <3>2. \A i \in 1 .. rev + 1 : b[i] = NonExistent
            BY <2>4, <2>8
      <3> HIDE DEF b
      <3>3. a[Len(a)] = NonExistent /\ \A x \in Nat : x < rev => a[x + 1] = NonExistent
            BY <2>3, <3>2
      <3>4. \A x \in Nat : At(<<>>, x) = NonExistent
            BY DEF At
      <3>5. Latest(<<>>) = NonExistent
            BY DEF Latest, At
      <3>6. QED BY <3>1, <3>3, <3>4, <3>5, <2>5, <2>6
    <2>9. QED BY <2>7, <2>8
  <1>3. QED BY <1>0, <1>1, <1>2

\* A set of numbers has a least one.
LEMMA LeastOf ==
  ASSUME NEW S, S \subseteq Nat, S # {}
  PROVE  \E m \in S : \A x \in S : m <= x
  <1> DEFINE R == OpToRel(<, Nat)
  <1>1. PICK m \in S : \A y \in S : <<y, m>> \notin R
        BY ONLY S \subseteq Nat, S # {}, NatLessThanWellFounded, WFMin, Zenon
  <1>2. \A y \in S : ~(y < m)
    <2>1. SUFFICES ASSUME NEW y \in S, y < m PROVE FALSE
          OBVIOUS
    <2>2. <<y, m>> \in R
          BY <2>1, Zenon DEF OpToRel
    <2>3. QED BY <2>2, <1>1
  <1>3. \A x \in S : x \in Nat /\ m \in Nat
        OBVIOUS
  <1>4. QED BY <1>2, <1>3

\* A value is the one of the last change.
LEMMA LastChange ==
  ASSUME NEW a \in Revisions, NEW i \in 0 .. Len(a) - 1,
         NEW K, K = {j \in 0 .. i : j \in Changes(a)}
  PROVE  a[i + 1] = IF K = {} THEN NonExistent ELSE a[Max(K) + 1]
  <1>0. Len(a) \in Nat /\ i \in Nat
        BY DEF Revisions
  <1>1. CASE K = {}
    <2>1. SUFFICES ASSUME a[i + 1] # NonExistent PROVE FALSE
          BY <1>1
    <2> DEFINE S == {j \in 0 .. i : a[j + 1] # NonExistent}
    <2>2. S \subseteq Nat /\ S # {}
      <3>1. S \subseteq Nat
            OBVIOUS
      <3>2. i \in S
            BY <1>0, <2>1
      <3>3. QED BY <3>1, <3>2
    <2>3. PICK m \in S : \A x \in S : m <= x
      <3> HIDE DEF S
      <3>1. QED BY <2>2, LeastOf
    <2>4. Before(a, m) = NonExistent
      <3>1. CASE m = 0
            BY <3>1 DEF Before
      <3>2. CASE m # 0
        <4>1. m - 1 \notin S /\ m - 1 \in 0 .. i
              BY <2>3, <3>2, <1>0
        <4>2. a[m - 1 + 1] = NonExistent /\ m - 1 + 1 = m
              BY <4>1
        <4>3. QED BY <4>2, <3>2 DEF Before
      <3>3. QED BY <3>1, <3>2
    <2>5. m \in Changes(a)
          BY <1>0, <2>4 DEF Changes
    <2>6. QED BY <2>5, <1>1
  <1>2. CASE K # {}
    <2>1. SUFFICES ASSUME a[i + 1] # a[Max(K) + 1] PROVE FALSE
          BY <1>2
    <2>2. PICK t : t = Max(K)
          OBVIOUS
    <2>3. K \subseteq 0 .. i
          OBVIOUS
    <2>4. t \in K /\ t \in 0 .. i /\ \A x \in K : x <= t
          BY <1>0, <1>2, <2>2, <2>3, MaxOfBounded
    <2> DEFINE S == {j \in t .. i : a[j + 1] # a[t + 1]}
    <2>5. S \subseteq Nat /\ S # {}
      <3>1. S \subseteq Nat
            BY <2>4
      <3>2. i \in S
            BY <1>0, <2>1, <2>2, <2>4
      <3>3. QED BY <3>1, <3>2
    <2>6. PICK m \in S : \A x \in S : m <= x
      <3> HIDE DEF S
      <3>1. QED BY <2>5, LeastOf
    <2>7. m # t /\ m \in t .. i
          OBVIOUS
    <2>8. m - 1 \notin S /\ m - 1 \in t .. i
          BY <2>4, <2>6, <2>7, <1>0
    <2>9. Before(a, m) = a[t + 1]
      <3>1. a[m - 1 + 1] = a[t + 1] /\ m - 1 + 1 = m /\ m # 0
            BY <2>4, <2>7, <2>8
      <3>2. QED BY <3>1 DEF Before
    <2>10. m \in Changes(a)
          BY <1>0, <2>4, <2>9 DEF Changes
    <2>11. m \in K
          BY <2>10, <2>7, <2>4
    <2>12. QED BY <2>11, <2>4, <2>7
  <1>3. QED BY <1>1, <1>2

LEMMA SmallBit ==
  ASSUME NEW i \in Nat, i < Width
  PROVE  Bit(i) = i
  <1>1. Width \in Nat \ {0}
        BY ValuesAssumption
  <1>2. QED BY <1>1 DEF Bit

\* An array that the bits of an integer can tell apart is restored as it was.
LEMMA RestoredReads ==
  ASSUME NEW a \in Revisions, Len(a) <= Width
  PROVE  /\ \A x \in Nat : At(Restored(a), x) = At(a, x)
         /\ Latest(Restored(a)) = Latest(a)
  <1> DEFINE deleted == {Bit(i) : i \in {j \in Changes(a) : a[j + 1] = NonExistent}}
             known(i) == {j \in 0 .. i : Bit(j) \in deleted \/ j \in Changes(a)}
             value(j) == IF Bit(j) \in deleted THEN NonExistent ELSE a[j + 1]
             top == Max(Mutations(a))
             cell(i) == IF known(i - 1) = {} THEN NonExistent ELSE value(Max(known(i - 1)))
             changed(i) == {j \in 0 .. i : j \in Changes(a)}
  <1>0. Len(a) \in Nat /\ Width \in Nat
        BY ValuesAssumption DEF Revisions
  <1>1. \A i \in Changes(a) : i \in 0 .. Len(a) - 1
        BY DEF Changes
  <1>2. \A i \in 0 .. Len(a) - 1 : Bit(i) = i
        BY <1>0, SmallBit
  <1>3. CASE a = <<>>
    <2>1. Len(a) = 0
          BY <1>3
    <2>2. Changes(a) = {}
          BY <2>1, <1>1
    <2>3. QED BY <2>2, <1>3 DEF Restored
  <1>4. CASE a # <<>> /\ Changes(a) = {}
    <2>1. Restored(a) = <<>>
          BY <1>4 DEF Restored
    <2>2. \A i \in 0 .. Len(a) - 1 : a[i + 1] = NonExistent
          BY <1>4, LastChange
    <2>3. Len(a) # 0
          BY <1>4 DEF Revisions
    <2>4. \A x \in Nat : At(a, x) = NonExistent
      <3>1. SUFFICES ASSUME NEW x \in Nat PROVE At(a, x) = NonExistent
            OBVIOUS
      <3>2. CASE x < Len(a)
            BY <3>2, <2>2, <1>4, <1>0 DEF At
      <3>3. CASE ~(x < Len(a))
        <4>1. Len(a) - 1 \in 0 .. Len(a) - 1 /\ Len(a) - 1 + 1 = Len(a)
              BY <2>3, <1>0
        <4>2. a[Len(a)] = NonExistent
              BY <4>1, <2>2
        <4>3. QED BY <4>2, <3>3, <1>4 DEF At
      <3>4. QED BY <3>2, <3>3
    <2>5. \A x \in Nat : At(<<>>, x) = NonExistent
          BY DEF At
    <2>6. Latest(<<>>) = NonExistent
          BY DEF Latest, At
    <2>7. Latest(a) = NonExistent
          BY <2>4, <1>0 DEF Latest
    <2>8. QED BY <2>1, <2>4, <2>5, <2>6, <2>7
  <1>5. CASE Changes(a) # {}
    <2>1. Len(a) # 0 /\ a # <<>> /\ Len(a) - 1 \in Nat
          BY <1>0, <1>1, <1>5
    <2>2. \A i \in Changes(a) : i \in Nat /\ Bit(i) = i
          BY <1>1, <1>2
    <2>3. Mutations(a) = Changes(a)
          BY <2>2 DEF Mutations
    <2>4. top \in Changes(a) /\ \A x \in Changes(a) : x <= top
      <3>1. Changes(a) \subseteq 0 .. Len(a) - 1
            BY <1>1
      <3>2. Max(Changes(a)) \in Changes(a) /\ \A x \in Changes(a) : x <= Max(Changes(a))
            BY <3>1, <2>1, <1>5, MaxOfBounded
      <3>3. QED BY <3>2, <2>3
    <2> HIDE DEF top
    <2>5. top \in 0 .. Len(a) - 1
          BY <2>4, <1>1
    <2>6. \A j \in 0 .. Len(a) - 1 :
             Bit(j) \in deleted <=> (j \in Changes(a) /\ a[j + 1] = NonExistent)
          BY <1>2, <2>2
    <2> HIDE DEF deleted
    <2>7. ASSUME NEW i \in 0 .. Len(a) - 1
          PROVE  /\ known(i) = changed(i)
                 /\ a[i + 1] = IF known(i) = {} THEN NonExistent ELSE value(Max(known(i)))
      <3>1. \A j \in 0 .. i : j \in 0 .. Len(a) - 1
            BY <1>0
      <3>2. known(i) = changed(i)
            BY <3>1, <2>6
      <3>3. a[i + 1] = IF changed(i) = {} THEN NonExistent ELSE a[Max(changed(i)) + 1]
        <4> HIDE DEF changed
        <4>1. changed(i) = {j \in 0 .. i : j \in Changes(a)}
              BY DEF changed
        <4>2. QED BY <4>1, LastChange
      <3>4. ASSUME changed(i) # {}
            PROVE  value(Max(changed(i))) = a[Max(changed(i)) + 1]
        <4>1. PICK t : t = Max(changed(i))
              OBVIOUS
        <4>2. changed(i) \subseteq 0 .. i /\ i \in Nat
              OBVIOUS
        <4>3. t \in changed(i)
          <5> HIDE DEF changed
          <5>1. QED BY <4>1, <4>2, <3>4, MaxOfBounded
        <4>4. t \in 0 .. Len(a) - 1
              BY <4>3, <3>1
        <4>5. value(t) = a[t + 1]
              BY <4>4, <2>6
        <4>6. QED BY <4>5, <4>1
      <3> HIDE DEF known, changed, value
      <3>5. QED BY <3>2, <3>3, <3>4
    <2>8. \A i \in 1 .. top + 1 : cell(i) = a[i]
      <3>1. SUFFICES ASSUME NEW i \in 1 .. top + 1 PROVE cell(i) = a[i]
            OBVIOUS
      <3>2. i - 1 \in 0 .. Len(a) - 1 /\ i - 1 + 1 = i
            BY <2>5, <1>0
      <3> HIDE DEF known, value
      <3>3. QED BY <3>2, <2>7
    <2>9. \A i \in top .. Len(a) - 1 : a[i + 1] = a[top + 1]
      <3>1. SUFFICES ASSUME NEW i \in top .. Len(a) - 1 PROVE a[i + 1] = a[top + 1]
            OBVIOUS
      <3>2. i \in 0 .. Len(a) - 1 /\ i \in Nat
            BY <2>5, <1>0
      <3>3. changed(i) = changed(top)
            BY <2>4, <2>5, <1>0
      <3>4. /\ a[i + 1] = IF changed(i) = {} THEN NonExistent ELSE value(Max(changed(i)))
            /\ a[top + 1] = IF changed(top) = {} THEN NonExistent ELSE value(Max(changed(top)))
        <4> HIDE DEF known, value, changed
        <4>1. QED BY <2>7, <3>2, <2>5
      <3> HIDE DEF value, changed
      <3>5. QED BY <3>3, <3>4
    <2> HIDE DEF cell
    <2>10. Restored(a) = [i \in 1 .. top + 1 |-> cell(i)]
          BY <1>5 DEF Restored, top, deleted, cell
    <2>11. Restored(a) = [i \in 1 .. top + 1 |-> a[i]]
          BY <2>8, <2>10
    <2>12. /\ Restored(a) # <<>> /\ Len(Restored(a)) = top + 1
           /\ \A i \in 1 .. top + 1 : Restored(a)[i] = a[i]
      <3>1. \A i \in 1 .. top + 1 : a[i] \in Slot
            BY <2>5, <1>0 DEF Revisions
      <3>2. Restored(a) \in [1 .. top + 1 -> Slot]
            BY <3>1, <2>11
      <3>3. Restored(a) \in Seq(Slot) /\ Len(Restored(a)) = top + 1
            BY <3>2, <2>5, SequenceOf
      <3>4. QED BY <3>3, <2>11, <2>5
    <2>13. ASSUME NEW x \in Nat PROVE At(Restored(a), x) = At(a, x)
      <3>1. CASE x <= top
            BY <3>1, <2>12, <2>1, <2>5, <1>0 DEF At
      <3>2. CASE x > top
        <4>1. At(Restored(a), x) = a[top + 1]
              BY <3>2, <2>12, <2>5 DEF At
        <4>2. PICK i \in top .. Len(a) - 1 : At(a, x) = a[i + 1]
          <5>1. CASE x < Len(a)
                BY <5>1, <3>2, <2>1, <2>5, <1>0 DEF At
          <5>2. CASE ~(x < Len(a))
            <6>1. At(a, x) = a[Len(a)] /\ Len(a) - 1 + 1 = Len(a)
                  BY <5>2, <2>1, <1>0 DEF At
            <6>2. Len(a) - 1 \in top .. Len(a) - 1
                  BY <2>5, <1>0
            <6>3. QED BY <6>1, <6>2
          <5>3. QED BY <5>1, <5>2
        <4>3. QED BY <4>1, <4>2, <2>9
      <3>3. QED BY <3>1, <3>2, <2>5
    <2>14. Latest(Restored(a)) = a[top + 1]
          BY <2>12, <2>5 DEF Latest, At
    <2>15. Latest(a) = a[Len(a) - 1 + 1]
          BY <2>1, <1>0 DEF Latest, At
    <2>16. Len(a) - 1 \in top .. Len(a) - 1
          BY <2>5, <1>0
    <2>17. QED BY <2>9, <2>13, <2>14, <2>15, <2>16
  <1>6. QED BY <1>3, <1>4, <1>5

\* A session ends up restored when its arrays are short.
LEMMA ShortEnds ==
  ASSUME NEW a \in Revisions, Len(a) < Width
  PROVE  ~NeverEnds(a)
  <1>1. Len(a) \in Nat /\ Width \in Nat
        BY ValuesAssumption DEF Revisions
  <1>2. \A i \in Changes(a) : i \in 0 .. Len(a) - 1
        BY DEF Changes
  <1>3. \A i \in Changes(a) : Bit(i) # Width - 1
        BY <1>1, <1>2, SmallBit
  <1>4. QED BY <1>3 DEF NeverEnds, Mutations

-----------------------------------------------------------------------------
\* The invariants of every session, restored or not.

\* Where device.set writes, and that the sizes are known when a commit was made.
Positions ==
    /\ phase = "run" /\ Declared > depth => revision = Top + 1 /\ span > revision
    /\ phase \notin {"open", "sent", "hung"} /\ Top > 0 => span > 1

\* Each commit took an iteration: revisions stay below maxCommitIterations.
Counted ==
    /\ synced <= Declared
    /\ \A i \in 1 .. depth : OrZero(Entry(i)) < rounds
    /\ Top <= rounds
    /\ Top = 0 \/ Top < MaxRounds
    /\ Declared > depth /\ synced = Declared => Top < rounds
    /\ phase = "sent" => Top < rounds /\ rounds < MaxRounds

\* The arrays stay next to the committed revision, or, when a CPE fault may
\* have left revisions where they were, below maxCommitIterations.
Loose(n) == "fault" \in Answers /\ n <= MaxRounds
Short == phase # "ended" => \A k \in Keys : Loose(Len(map[k])) \/ Len(map[k]) <= Top + 2

\* After a step that clears.
LEMMA ClearLevels ==
  ASSUME TypeOK', stack' = << 0 >>, depth' = 0, rets' = <<>>,
         phase' \in {"run", "done", "ended"}
  PROVE  Levels' /\ Positions' /\ Top' = 0
  <1>1. Top' = 0 /\ Declared' = 0
        BY NextTop DEF TypeOK, Declared
  <1>2. QED BY <1>1 DEF Levels, Positions, Declared

\* After a write at the revision that follows the committed one.
LEMMA WriteAtPositions ==
  ASSUME TypeOK, NEW b \in Batches, WriteAt(Top + 1, b), stack' = stack
  PROVE  Positions' /\ Top' = Top
  <1>1. Top \in Nat /\ Top' = Top
        BY EntryType, SameTop
  <1>2. revision' = Top + 1 /\ span' \in Nat /\ span' > Top + 1
        BY <1>1, WriteAtType
  <1>3. QED BY <1>1, <1>2 DEF Positions

LEMMA ScriptsLevels ==
  ASSUME TypeOK, Levels, NEW b \in Batches, NEW done \in BOOLEAN, RunScripts(b, done)
  PROVE  /\ phase = "run" /\ phase' = "run" /\ Declared = depth /\ Declared' = depth + 1
         /\ depth \in Nat
         /\ WriteAt(Top + 1, b) /\ UNCHANGED <<stack, depth, synced, rounds, caller, mark>>
         /\ Levels'
  <1>1. /\ phase = "run" /\ phase' = "run" /\ Declared = depth /\ depth \in Nat
        /\ rets' = Append(rets, done)
        /\ UNCHANGED <<stack, depth, synced, rounds, caller, mark>>
        BY DEF RunScripts, Levels, TypeOK, Declared
  <1>2. Following(Entry(Declared + 1)) = Top + 1
    <2>1. Entry(depth + 1) \in Nat \cup {Undefined}
          BY EntryType
    <2>2. QED BY <2>1, <1>1, TopEntry, EntryType
  <1>3. WriteAt(Top + 1, b)
        BY <1>2 DEF RunScripts
  <1>4. Declared' = depth' + 1
        BY <1>1 DEF Declared, TypeOK
  <1>5. Levels'
        BY <1>1, <1>4 DEF Levels
  <1>6. QED BY <1>1, <1>3, <1>4, <1>5

\* Every step keeps the levels and the positions.
LEMMA LevelsStep ==
  ASSUME TypeOK, TypeOK', Levels, Positions, [Next]_vars
  PROVE  Levels' /\ Positions'
  <1>a. Top \in Nat /\ Following(Top) = Top + 1
        BY EntryType
  <1>1. ASSUME NEW b \in Batches, Notice(b) PROVE Levels' /\ Positions'
    <2>1. /\ phase = "open" /\ phase' = "open" /\ WriteAt(Top + 1, b)
          /\ UNCHANGED <<stack, depth, rets>>
          BY <1>1, <1>a DEF Notice
    <2>2. QED BY <2>1, WriteAtPositions DEF Levels, Declared
  <1>2. ASSUME NEW b \in Batches, DeviceDone(b) PROVE Levels' /\ Positions'
    <2>1. /\ phase = "open" /\ phase' = "done" /\ WriteAt(Top + 1, b)
          /\ UNCHANGED <<stack, depth, rets>>
          BY <1>2, <1>a DEF DeviceDone
    <2>2. QED BY <2>1, WriteAtPositions DEF Levels, Declared
  <1>3. ASSUME NextTask PROVE Levels' /\ Positions'
        BY <1>3, ClearStack, ClearLevels DEF NextTask
  <1>4. ASSUME NextAfterFault PROVE Levels' /\ Positions'
        BY <1>4, ClearStack, ClearLevels DEF NextAfterFault
  <1>5. ASSUME ApplyPresets PROVE Levels' /\ Positions'
    <2>1. CASE stack' = <<0>> /\ depth' = 0 /\ rets' = <<>> /\ phase' \in {"run", "done"}
          BY <2>1, ClearLevels
    <2>2. CASE /\ phase = "done" /\ phase' = "run" /\ UNCHANGED <<map, stack, depth, rets>>
               /\ span' = (IF span <= 1 THEN 2 ELSE span)
      <3>1. Top' = Top /\ Declared' = 0 /\ depth' = 0 /\ rets' = <<>>
            BY <2>2, SameTop DEF Levels, Declared
      <3>2. span' > 1
            BY <2>2 DEF TypeOK
      <3>3. QED BY <2>2, <3>1, <3>2 DEF Levels, Positions, Declared
    <2>3. QED BY <1>5, <2>1, <2>2 DEF ApplyPresets
  <1>6. ASSUME RunPresets PROVE Levels' /\ Positions'
        BY <1>6, ClearLevels DEF RunPresets
  <1>7. ASSUME Finish PROVE Levels' /\ Positions'
    <2>1. /\ phase = "done" /\ phase' = "ended"
          /\ UNCHANGED <<map, revision, span, stack, depth, rets>> /\ Top' = Top
          BY <1>7, SameTop DEF Finish
    <2>2. QED BY <2>1 DEF Levels, Positions
  <1>8. ASSUME Terminate PROVE Levels' /\ Positions'
        BY <1>8, ClearStack, ClearLevels DEF Terminate
  <1>9. ASSUME NEW b \in Batches, NEW done \in BOOLEAN, RunScripts(b, done)
        PROVE  Levels' /\ Positions'
        BY <1>9, ScriptsLevels, WriteAtPositions
  <1>10. ASSUME ScriptFault PROVE Levels' /\ Positions'
    <2>1. /\ phase = "run" /\ phase' = "failed" /\ UNCHANGED <<map, stack, depth, rets>>
          /\ (span' = span \/ span' > span)
          BY <1>10, EntryType DEF ScriptFault, TypeOK
    <2>2. Top' = Top
          BY <2>1, SameTop
    <2>3. Top > 0 => span' > 1
          BY <2>1 DEF Positions, TypeOK
    <2>4. QED BY <2>1, <2>2, <2>3 DEF Levels, Positions
  <1>11. ASSUME LimitFault PROVE Levels' /\ Positions'
    <2>1. /\ phase = "run" /\ phase' = "failed"
          /\ UNCHANGED <<map, revision, span, stack, depth, rets>> /\ Top' = Top
          BY <1>11, SameTop DEF LimitFault
    <2>2. QED BY <2>1 DEF Levels, Positions
  <1>12. ASSUME NEW b \in Batches, Declare(b) PROVE Levels' /\ Positions'
    <2>1. /\ phase = "run" /\ phase' = "run"
          /\ UNCHANGED <<revision, span, stack, depth, rets>> /\ Top' = Top
          BY <1>12, SameTop DEF Declare, Working, Write
    <2>2. QED BY <2>1 DEF Levels, Positions, Declared
  <1>13. ASSUME NEW b \in Batches, Again(b) PROVE Levels' /\ Positions'
    <2>1. /\ phase = "run" /\ phase' = "run"
          /\ UNCHANGED <<revision, span, stack, depth, rets>> /\ Top' = Top
          BY <1>13, SameTop DEF Again, Synced, Working, Write
    <2>2. QED BY <2>1 DEF Levels, Positions, Declared
  <1>14. ASSUME Descend PROVE Levels' /\ Positions'
    <2>1. ~(Declared' > depth')
          BY <1>14, DescendLevels
    <2>2. Levels' /\ Top' = Top /\ span' = span /\ phase = "run"
          BY <1>14, DescendLevels
    <2>3. QED BY <2>1, <2>2 DEF Positions
  <1>15. ASSUME Send PROVE Levels' /\ Positions'
    <2>1. /\ phase = "run" /\ phase' = "sent" /\ Declared = depth + 1
          /\ UNCHANGED <<map, revision, span, stack, depth, rets>> /\ Top' = Top
          BY <1>15, SameTop DEF Send, Synced, Working, Levels, TypeOK, Declared
    <2>2. QED BY <2>1 DEF Levels, Positions, Declared
  <1>16. ASSUME Commit PROVE Levels' /\ Positions'
    <2>1. ~(Declared' > depth')
          BY <1>16, CommitLevels
    <2>2. Levels' /\ phase = "run" /\ Declared = depth + 1 /\ depth \in Nat /\ span' = span
          BY <1>16, CommitLevels
    <2>3. revision = Top + 1 /\ span > revision
          BY <2>2 DEF Positions
    <2>4. span' > 1
          BY <2>2, <2>3, <1>a DEF TypeOK
    <2>5. QED BY <2>1, <2>2, <2>4 DEF Positions
  <1>17. ASSUME NEW b \in Batches, Return(b) PROVE Levels' /\ Positions'
    <2>1. Levels' /\ revision' = Top' + 1 /\ span' = Top' + 2 /\ Top' \in Nat
          BY <1>17, ReturnLevels
    <2>2. \A t \in Nat : t + 2 > t + 1 /\ t + 2 > 1
          OBVIOUS
    <2>3. span' > revision' /\ span' > 1
      <3>1. Top' + 2 > Top' + 1 /\ Top' + 2 > 1
            BY <2>1, <2>2, Zenon
      <3>2. QED BY <2>1, <3>1
    <2>4. QED BY <2>1, <2>3 DEF Positions
  <1>18. ASSUME NEW b \in Batches, Response(b) PROVE Levels' /\ Positions'
    <2>1. /\ phase = "sent" /\ phase' \in {"run", "sent"} /\ WriteAt(Top + 1, b)
          /\ UNCHANGED <<stack, depth, rets>>
          BY <1>18, <1>a DEF Response
    <2>2. QED BY <2>1, WriteAtPositions DEF Levels, Declared
  <1>19. ASSUME NEW b \in Batches, InvalidName(b) PROVE Levels' /\ Positions'
    <2>1. /\ phase = "sent" /\ phase' = "run" /\ WriteAt(Top + 1, b)
          /\ UNCHANGED <<stack, depth, rets>>
          BY <1>19, <1>a DEF InvalidName
    <2>2. QED BY <2>1, WriteAtPositions DEF Levels, Declared
  <1>20. ASSUME Fault PROVE Levels' /\ Positions'
        BY <1>20, ClearStack, ClearLevels DEF Fault
  <1>21. ASSUME Reconnect PROVE Levels' /\ Positions'
    <2>1. /\ phase \in {"open", "sent"} /\ phase' \in {phase, "hung"}
          /\ UNCHANGED <<stack, depth, rets>> /\ Declared' = Declared
          BY <1>21 DEF Reconnect, Declared
    <2>2. QED BY <2>1 DEF Levels, Positions
  <1>22. CASE UNCHANGED vars
    <2>1. UNCHANGED <<revision, span, stack, depth, rets, phase>> /\ Top' = Top
          BY <1>22, SameTop DEF vars
    <2>2. QED BY <2>1 DEF Levels, Positions, Declared
  <1>23. QED
        BY <1>1, <1>2, <1>3, <1>4, <1>5, <1>6, <1>7, <1>8, <1>9, <1>10, <1>11, <1>12,
           <1>13, <1>14, <1>15, <1>16, <1>17, <1>18, <1>19, <1>20, <1>21, <1>22
        DEF Next, Over

\* A step that leaves the stack and the iterations alone.
LEMMA CountedKept ==
  ASSUME TypeOK, Counted, UNCHANGED <<stack, depth, rounds>>,
         synced' <= Declared',
         Declared' > depth' /\ synced' = Declared' => Top < rounds,
         phase' = "sent" => Top < rounds /\ rounds < MaxRounds
  PROVE  Counted'
  <1>1. Top' = Top /\ \A i : Entry(i)' = Entry(i)
        BY SameTop DEF Entry, Undefined
  <1>2. \A i \in 1 .. depth' : OrZero(Entry(i))' < rounds'
        BY <1>1 DEF Counted, OrZero, Undefined
  <1>3. QED BY <1>1, <1>2 DEF Counted

\* A step that clears.
LEMMA ClearCounted ==
  ASSUME TypeOK', stack' = << 0 >>, depth' = 0, rets' = <<>>, synced' = 0, rounds' = 0,
         phase' # "sent"
  PROVE  Counted'
  <1>1. Top' = 0 /\ Declared' = 0
        BY NextTop DEF TypeOK, Declared
  <1>2. QED BY <1>1 DEF Counted

\* Every step keeps the counts.
LEMMA CountedStep ==
  ASSUME TypeOK, TypeOK', Levels, Counted, [Next]_vars
  PROVE  Counted'
  <1>a. /\ Top \in Nat /\ Following(Top) = Top + 1 /\ synced \in Nat /\ rounds \in Nat
        /\ Declared \in Nat /\ Declared' \in Nat /\ depth \in Nat /\ MaxRounds \in Nat
    <2>1. Top \in Nat /\ Following(Top) = Top + 1
          BY EntryType
    <2>2. Declared \in Nat /\ Declared' \in Nat
          BY DEF TypeOK, Declared
    <2>3. MaxRounds \in Nat
          BY RevisionsAssumption
    <2>4. QED BY <2>1, <2>2, <2>3 DEF TypeOK
  <1>1. ASSUME NEW b \in Batches, Notice(b) \/ DeviceDone(b) PROVE Counted'
    <2>1. UNCHANGED <<stack, depth, rets, synced, rounds>> /\ phase' # "sent"
          BY <1>1 DEF Notice, DeviceDone
    <2>2. QED BY <2>1, CountedKept DEF Counted, Declared
  <1>2. ASSUME NextTask \/ NextAfterFault \/ Terminate \/ Fault PROVE Counted'
    <2>1. Clear /\ phase' # "sent"
          BY <1>2 DEF NextTask, NextAfterFault, Terminate, Fault
    <2>2. QED BY <2>1, ClearStack, ClearCounted
  <1>3. ASSUME ApplyPresets \/ RunPresets PROVE Counted'
    <2>1. CASE /\ stack' = <<0>> /\ depth' = 0 /\ rets' = <<>> /\ synced' = 0 /\ rounds' = 0
               /\ phase' # "sent"
          BY <2>1, ClearCounted
    <2>2. CASE UNCHANGED <<stack, depth, rets, synced, rounds>> /\ phase' # "sent"
          BY <2>2, CountedKept DEF Counted, Declared
    <2>3. QED BY <1>3, <2>1, <2>2 DEF ApplyPresets, RunPresets
  <1>4. ASSUME Finish \/ ScriptFault \/ LimitFault PROVE Counted'
    <2>1. UNCHANGED <<stack, depth, rets, synced, rounds>> /\ phase' # "sent"
          BY <1>4 DEF Finish, ScriptFault, LimitFault
    <2>2. QED BY <2>1, CountedKept DEF Counted, Declared
  <1>5. ASSUME NEW b \in Batches, NEW done \in BOOLEAN, RunScripts(b, done) PROVE Counted'
    <2>1. /\ phase' = "run" /\ UNCHANGED <<stack, depth, synced, rounds>>
          /\ Declared' = Declared + 1
          BY <1>5, ScriptsLevels
    <2>2. synced <= Declared
          BY DEF Counted
    <2>3. QED BY <2>1, <2>2, <1>a, CountedKept
  <1>6. ASSUME NEW b \in Batches, Declare(b) PROVE Counted'
    <2>1. /\ Top' = Top /\ \A i : Entry(i)' = Entry(i)
          /\ phase' = "run" /\ UNCHANGED <<stack, depth, rets>> /\ Declared' = Declared
          /\ synced < Declared /\ synced' = synced + 1
          /\ rounds' = IF synced = Declared - 1 THEN rounds + 1 ELSE rounds
          BY <1>6, SameTop DEF Declare, Working, Entry, Undefined, Declared, Inception
    <2>2. \A i \in 1 .. depth' : OrZero(Entry(i))' < rounds'
      <3>1. \A i \in 1 .. depth : OrZero(Entry(i)) < rounds /\ OrZero(Entry(i)) \in Nat
            BY EntryType DEF Counted
      <3>2. \A i : OrZero(Entry(i))' = OrZero(Entry(i))
            BY <2>1 DEF OrZero, Undefined
      <3>3. QED BY <3>1, <3>2, <2>1, <1>a
    <2>3. Top <= rounds /\ (Top = 0 \/ Top < MaxRounds)
          BY DEF Counted
    <2>4. Top' <= rounds' /\ (synced' = Declared' => Top' < rounds') /\ synced' <= Declared'
          BY <2>1, <2>3, <1>a
    <2>5. QED BY <2>1, <2>2, <2>3, <2>4 DEF Counted
  <1>7. ASSUME NEW b \in Batches, Again(b) PROVE Counted'
    <2>1. /\ phase' = "run" /\ UNCHANGED <<stack, depth, rets, rounds>> /\ Declared' = Declared
          /\ synced = Declared /\ Declared > depth /\ synced' \in {synced, 0}
          BY <1>7 DEF Again, Synced, Working, Declared
    <2>2. Top < rounds
          BY <2>1 DEF Counted
    <2>3. QED BY <2>1, <2>2, <1>a, CountedKept
  <1>8. ASSUME Descend PROVE Counted'
    <2>1. /\ Top' = Top /\ phase' = "run" /\ Declared = depth + 1 /\ Declared' = Declared
          /\ depth' = depth + 1 /\ \A i \in 1 .. depth + 1 : Entry(i)' = Entry(i)
          /\ UNCHANGED <<synced, rounds>>
          BY <1>8, DescendLevels
    <2>2. synced = Declared
          BY <1>8 DEF Descend, Synced
    <2>3. Top < rounds /\ \A i \in 1 .. depth : OrZero(Entry(i)) < rounds
          BY <2>1, <2>2, <1>a DEF Counted
    <2>4. OrZero(Entry(depth + 1)) = Top
          BY TopEntry
    <2>5. \A i \in 1 .. depth' : OrZero(Entry(i))' < rounds'
      <3>1. \A i \in 1 .. depth + 1 : OrZero(Entry(i))' = OrZero(Entry(i))
            BY <2>1 DEF OrZero, Undefined
      <3>2. \A i \in 1 .. depth + 1 : OrZero(Entry(i)) < rounds
        <4>1. SUFFICES ASSUME NEW i \in 1 .. depth + 1 PROVE OrZero(Entry(i)) < rounds
              OBVIOUS
        <4>2. CASE i = depth + 1
              BY <4>2, <2>3, <2>4
        <4>3. CASE i # depth + 1
              BY <4>3, <2>3, <1>a
        <4>4. QED BY <4>2, <4>3
      <3>3. QED BY <3>1, <3>2, <2>1
    <2>6. ~(Declared' > depth')
          BY <2>1, <1>a
    <2>7. QED BY <2>1, <2>5, <2>6 DEF Counted
  <1>9. ASSUME Send PROVE Counted'
    <2>1. /\ UNCHANGED <<stack, depth, rets, synced, rounds>>
          /\ synced = Declared /\ Declared > depth /\ rounds < MaxRounds
          BY <1>9 DEF Send, Synced, Working, WithinLimits
    <2>2. Top < rounds
          BY <2>1 DEF Counted
    <2>3. QED BY <2>1, <2>2, <1>a, CountedKept DEF Declared
  <1>10. ASSUME Commit PROVE Counted'
    <2>1. /\ Top' \in {Top, Top + 1} /\ phase' = "run"
          /\ Declared = depth + 1 /\ Declared' = depth /\ depth' = depth
          /\ \A i \in 1 .. depth : Entry(i)' = Entry(i)
          /\ synced = Declared /\ synced' = depth /\ rounds < MaxRounds /\ rounds' = rounds
          BY <1>10, CommitLevels
    <2>2. Top < rounds /\ \A i \in 1 .. depth : OrZero(Entry(i)) < rounds
          BY <2>1, <1>a DEF Counted
    <2>3. \A i \in 1 .. depth' : OrZero(Entry(i))' < rounds'
          BY <2>1, <2>2 DEF OrZero, Undefined
    <2>4. Top' <= rounds' /\ Top' < MaxRounds
          BY <2>1, <2>2, <1>a
    <2>5. ~(Declared' > depth') /\ synced' <= Declared'
          BY <2>1, <1>a
    <2>6. QED BY <2>1, <2>3, <2>4, <2>5 DEF Counted
  <1>11. ASSUME NEW b \in Batches, Return(b) PROVE Counted'
    <2>1. /\ Declared = depth + 1 /\ Declared' = depth
          /\ \/ depth = 0 /\ phase' = "done" /\ depth' = 0 /\ Top' = 0
             \/ /\ depth # 0 /\ phase' = "run" /\ depth' = depth - 1
                /\ Top' = OrZero(Entry(depth))
                /\ \A i \in 1 .. depth : Entry(i)' = Entry(i)
          /\ synced = Declared /\ synced' = depth /\ rounds < MaxRounds /\ rounds' = rounds
          /\ Top' \in Nat
          BY <1>11, ReturnLevels
    <2>2. \A i \in 1 .. depth : OrZero(Entry(i)) < rounds
          BY DEF Counted
    <2>3. CASE depth = 0
      <3>1. Top' = 0 /\ depth' = 0 /\ Declared' = 0 /\ synced' = 0 /\ phase' = "done"
            BY <2>1, <2>3
      <3>2. QED BY <3>1, <2>1, <1>a DEF Counted
    <2>4. CASE depth # 0
      <3>1. Top' < rounds
        <4>1. depth \in 1 .. depth
              BY <2>4, <1>a
        <4>2. QED BY <4>1, <2>1, <2>2, <2>4
      <3>2. \A i \in 1 .. depth' : OrZero(Entry(i))' < rounds'
        <4>1. \A i \in 1 .. depth - 1 : i \in 1 .. depth
              BY <1>a
        <4>2. \A i \in 1 .. depth : OrZero(Entry(i))' = OrZero(Entry(i))
              BY <2>1, <2>4 DEF OrZero, Undefined
        <4>3. depth' = depth - 1 /\ rounds' = rounds
              BY <2>1, <2>4
        <4>4. QED BY <4>1, <4>2, <4>3, <2>2
      <3>3. /\ Top' <= rounds' /\ Top' < MaxRounds /\ Top' < rounds'
            /\ synced' <= Declared'
            BY <3>1, <2>1, <1>a
      <3>4. phase' = "run"
            BY <2>1, <2>4
      <3>5. QED BY <3>2, <3>3, <3>4 DEF Counted
    <2>5. QED BY <2>3, <2>4
  <1>12. ASSUME NEW b \in Batches, Response(b) PROVE Counted'
    <2>1. phase = "sent" /\ UNCHANGED <<stack, depth, rets, synced, rounds>>
          BY <1>12 DEF Response
    <2>2. Top < rounds /\ rounds < MaxRounds /\ synced <= Declared
          BY <2>1 DEF Counted
    <2>3. QED BY <2>1, <2>2, CountedKept DEF Declared
  <1>13. ASSUME NEW b \in Batches, InvalidName(b) PROVE Counted'
    <2>1. phase = "sent" /\ UNCHANGED <<stack, depth, rets, rounds>> /\ synced' = 0
          BY <1>13 DEF InvalidName
    <2>2. Top < rounds /\ rounds < MaxRounds
          BY <2>1 DEF Counted
    <2>3. QED BY <2>1, <2>2, <1>a, CountedKept
  <1>14. ASSUME Reconnect PROVE Counted'
    <2>1. /\ phase \in {"open", "sent"} /\ phase' \in {phase, "hung"}
          /\ UNCHANGED <<stack, depth, rets, rounds>> /\ synced' = 0 /\ Declared' = Declared
          BY <1>14 DEF Reconnect, Declared
    <2>2. phase' = "sent" => Top < rounds /\ rounds < MaxRounds
          BY <2>1 DEF Counted
    <2>3. ~(Declared' > depth' /\ synced' = Declared')
          BY <2>1, <1>a
    <2>4. QED BY <2>1, <2>2, <2>3, <1>a, CountedKept
  <1>15. CASE UNCHANGED vars
    <2>1. UNCHANGED <<stack, depth, rets, synced, rounds, phase>>
          BY <1>15 DEF vars
    <2>2. QED BY <2>1, CountedKept DEF Counted, Declared
  <1>16. QED
        BY <1>1, <1>2, <1>3, <1>4, <1>5, <1>6, <1>7, <1>8, <1>9, <1>10, <1>11, <1>12,
           <1>13, <1>14, <1>15
        DEF Next, Over

\* What a step does to the data: it clears, writes after the committed
\* revision, leaves the data alone, returns from a level, or restores it.
Cleared ==
    /\ Top' = 0
    /\ map' = IF Committed THEN CollapsedMap(1) ELSE map
    /\ phase' # "ended" => \/ phase \in {"done", "failed"}
                           \/ phase = "sent" /\ "fault" \in Answers
WrittenNext(b) == Top' = Top /\ map' = Written(map, Top + 1, b)
Kept == Top' \in {Top, Top + 1} /\ map' = map
Returned(b) ==
    /\ phase = "run" /\ Declared > depth /\ Top' \in Nat
    /\ map' = Written(CollapsedMap(Top' + 1), Top' + 1, b)

LEMMA DataStep ==
  ASSUME TypeOK, TypeOK', Levels, Positions, [Next]_vars
  PROVE  /\ phase = "ended" => phase' = "ended"
         /\ \/ Cleared \/ Kept \/ Reconnect
            \/ \E b \in Batches : WrittenNext(b) \/ Returned(b)
  <1> DEFINE Shape == /\ phase = "ended" => phase' = "ended"
                      /\ \/ Cleared \/ Kept \/ Reconnect
                         \/ \E b \in Batches : WrittenNext(b) \/ Returned(b)
  <1>a. Top \in Nat /\ Following(Top) = Top + 1
        BY EntryType
  <1>1. ASSUME NEW b \in Batches,
               Notice(b) \/ DeviceDone(b) \/ Response(b) \/ InvalidName(b)
        PROVE  Shape
    <2>1. phase \in {"open", "sent"} /\ WriteAt(Top + 1, b) /\ stack' = stack
          BY <1>1, <1>a DEF Notice, DeviceDone, Response, InvalidName
    <2>2. Top' = Top /\ phase # "ended"
          BY <2>1, SameTop
    <2>3. WrittenNext(b)
          BY <2>1, <2>2 DEF WrittenNext, WriteAt
    <2>4. QED BY <2>2, <2>3
  <1>2. ASSUME NextTask \/ NextAfterFault \/ Terminate \/ Fault PROVE Shape
    <2>1. /\ Clear
          /\ phase' # "ended" => \/ phase \in {"done", "failed"}
                                 \/ phase = "sent" /\ "fault" \in Answers
          /\ phase # "ended"
          BY <1>2 DEF NextTask, NextAfterFault, Terminate, Fault
    <2>2. Top' = 0
          BY <2>1, NextTop DEF Clear, TypeOK
    <2>3. map' = IF Committed THEN CollapsedMap(1) ELSE map
          BY <2>1 DEF Clear
    <2>4. Cleared
          BY <2>1, <2>2, <2>3 DEF Cleared
    <2>5. QED BY <2>1, <2>4
  <1>3. ASSUME ApplyPresets \/ RunPresets PROVE Shape
    <2>1. phase \in {"done", "failed"}
          BY <1>3 DEF ApplyPresets, RunPresets
    <2>2. CASE stack' = <<0>> /\ map' = IF Committed THEN CollapsedMap(1) ELSE map
      <3>1. Top' = 0
            BY <2>2, NextTop DEF TypeOK
      <3>2. Cleared
            BY <2>1, <2>2, <3>1 DEF Cleared
      <3>3. QED BY <2>1, <3>2
    <2>3. CASE UNCHANGED <<map, stack>>
      <3>1. Kept
            BY <2>3, SameTop DEF Kept
      <3>2. QED BY <2>1, <3>1
    <2>4. QED BY <1>3, <2>2, <2>3 DEF ApplyPresets, RunPresets
  <1>4. ASSUME Finish \/ ScriptFault \/ LimitFault \/ Send PROVE Shape
    <2>1. phase \in {"done", "run"} /\ UNCHANGED <<map, stack>>
          BY <1>4 DEF Finish, ScriptFault, LimitFault, Send, Synced, Working
    <2>2. Kept
          BY <2>1, SameTop DEF Kept
    <2>3. QED BY <2>1, <2>2
  <1>5. ASSUME NEW b \in Batches, NEW done \in BOOLEAN, RunScripts(b, done) PROVE Shape
    <2>1. phase = "run" /\ WriteAt(Top + 1, b) /\ stack' = stack
          BY <1>5, ScriptsLevels
    <2>2. WrittenNext(b)
          BY <2>1, SameTop DEF WrittenNext, WriteAt
    <2>3. QED BY <2>1, <2>2
  <1>6. ASSUME NEW b \in Batches, Declare(b) \/ Again(b) PROVE Shape
    <2>1. phase = "run" /\ Declared > depth /\ Write(b) /\ stack' = stack
          BY <1>6 DEF Declare, Again, Synced, Working
    <2>2. revision = Top + 1
          BY <2>1 DEF Positions
    <2>3. WrittenNext(b)
          BY <2>1, <2>2, SameTop DEF WrittenNext, Write
    <2>4. QED BY <2>1, <2>3
  <1>7. ASSUME Descend \/ Commit PROVE Shape
    <2>1. phase = "run" /\ map' = map /\ Top' \in {Top, Top + 1}
          BY <1>7, DescendLevels, CommitLevels
    <2>2. QED BY <2>1 DEF Kept
  <1>8. ASSUME NEW b \in Batches, Return(b) PROVE Shape
    <2>1. /\ phase = "run" /\ Declared = depth + 1 /\ depth \in Nat /\ Top' \in Nat
          /\ map' = Written(CollapsedMap(Top' + 1), Top' + 1, b)
          BY <1>8, ReturnLevels
    <2>2. Declared > depth
          BY <2>1
    <2>3. Returned(b)
          BY <2>1, <2>2 DEF Returned
    <2>4. QED BY <2>1, <2>3
  <1>9. ASSUME Reconnect PROVE Shape
        BY <1>9 DEF Reconnect
  <1>10. CASE UNCHANGED vars
    <2>1. UNCHANGED <<map, stack, phase>>
          BY <1>10 DEF vars
    <2>2. Kept
          BY <2>1, SameTop DEF Kept
    <2>3. QED BY <2>1, <2>2
  <1>11. QED
        BY <1>1, <1>2, <1>3, <1>4, <1>5, <1>6, <1>7, <1>8, <1>9, <1>10
        DEF Next, Over

\* Every step keeps the arrays short.
LEMMA ShortStep ==
  ASSUME TypeOK, TypeOK', Levels, Positions, Counted, Short, [Next]_vars
  PROVE  Short'
  <1>1. SUFFICES ASSUME phase' # "ended", NEW k \in Keys
                 PROVE  Loose(Len(map'[k])) \/ Len(map'[k]) <= Top' + 2
        BY DEF Short
  <1> USE DEF Loose
  <1>2. /\ Top \in Nat /\ Top' \in Nat /\ Len(map[k]) \in Nat /\ Len(map'[k]) \in Nat
        /\ span \in Nat
    <2>1. Top' \in Nat
          BY NextTop DEF TypeOK
    <2>2. Top \in Nat /\ span \in Nat
          BY EntryType DEF TypeOK
    <2>3. map[k] \in Revisions /\ map'[k] \in Revisions
          BY DEF TypeOK
    <2>4. Len(map[k]) \in Nat /\ Len(map'[k]) \in Nat
          BY <2>3 DEF Revisions
    <2>5. QED BY <2>1, <2>2, <2>4
  <1>3. MaxRounds \in Nat
        BY RevisionsAssumption
  <1>4. Loose(Len(map[k])) \/ Len(map[k]) <= Top + 2
        BY <1>1, DataStep DEF Short
  <1>5. CASE Cleared
    <2>1. /\ Top' = 0 /\ map' = IF Committed THEN CollapsedMap(1) ELSE map
          /\ phase \in {"done", "failed"} \/ (phase = "sent" /\ "fault" \in Answers)
          BY <1>1, <1>5 DEF Cleared
    <2>2. CASE ~Committed
      <3>1. Top = 0 /\ map' = map
            BY <1>2, <2>1, <2>2 DEF Committed
      <3>2. QED BY <3>1, <2>1, <1>4
    <2>3. CASE Committed /\ Collapses(1)
      <3>1. Len(CollapsedMap(1)[k]) <= 1 + 1
            BY <2>3, CollapsedMapType
      <3>2. QED BY <3>1, <2>1, <2>3, <1>2
    <2>4. CASE Committed /\ ~Collapses(1)
      <3>1. map' = map /\ ~(span > 1) /\ Top > 0
            BY <2>1, <2>4 DEF CollapsedMap, Collapses, Committed
      <3>2. phase = "sent" /\ "fault" \in Answers
            BY <2>1, <3>1 DEF Positions
      <3>3. Top < rounds /\ rounds < MaxRounds /\ rounds \in Nat
            BY <3>2 DEF Counted, TypeOK
      <3>4. Top + 2 <= MaxRounds
            BY <3>3, <1>2, <1>3
      <3>5. QED BY <3>1, <3>2, <3>4, <1>2, <1>3, <1>4
    <2>5. QED BY <2>2, <2>3, <2>4
  <1>6. CASE Kept
        BY <1>2, <1>4, <1>6 DEF Kept
  <1>7. CASE Reconnect
    <2>1. Len(map'[k]) <= Len(map[k])
          BY <1>7, ReconnectType
    <2>2. Top' = Top
          BY <1>7, SameTop DEF Reconnect
    <2>3. QED BY <2>1, <2>2, <1>2, <1>3, <1>4
  <1>8. ASSUME NEW b \in Batches, WrittenNext(b)
        PROVE  Loose(Len(map'[k])) \/ Len(map'[k]) <= Top' + 2
    <2>1. map' = Written(map, Top + 1, b) /\ Top' = Top
          BY <1>8 DEF WrittenNext
    <2>2. Top + 1 \in Nat /\ Top + 1 + 1 = Top + 2
          BY <1>2
    <2>3. Len(map'[k]) = Len(map[k]) \/ Len(map'[k]) = Top + 1 + 1
      <3>1. map \in [Keys -> Revisions]
            BY DEF TypeOK
      <3>2. QED BY <3>1, <2>1, <2>2, WrittenType
    <2>4. QED BY <2>1, <2>2, <2>3, <1>4, <1>2
  <1>9. ASSUME NEW b \in Batches, Returned(b)
        PROVE  Loose(Len(map'[k])) \/ Len(map'[k]) <= Top' + 2
    <2>1. PICK u \in Nat : u = Top'
          BY <1>2
    <2>2. PICK r : r = u + 1
          OBVIOUS
    <2>3. r \in Nat
          BY <2>2
    <2>4. /\ phase = "run" /\ Declared > depth
          /\ map' = Written(CollapsedMap(r), r, b)
          BY <1>9, <2>1, <2>2 DEF Returned
    <2>5. CollapsedMap(r) \in [Keys -> Revisions]
          BY <2>3, CollapsedMapType
    <2>6. Len(map'[k]) = Len(CollapsedMap(r)[k]) \/ Len(map'[k]) = r + 1
          BY <2>3, <2>4, <2>5, WrittenType
    <2>7. Loose(Len(map'[k])) \/ Len(map'[k]) <= u + 2
      <3>1. CASE Collapses(r)
        <4>1. Len(CollapsedMap(r)[k]) <= r + 1
              BY <2>3, <3>1, CollapsedMapType
        <4>2. QED BY <4>1, <2>2, <2>6, <1>2
      <3>2. CASE ~Collapses(r)
        <4>1. CollapsedMap(r)[k] = map[k] /\ ~(span > r)
              BY <3>2 DEF CollapsedMap, Collapses
        <4>2. span > Top + 1
              BY <2>4 DEF Positions
        <4>3. Top + 2 <= r
              BY <4>1, <4>2, <2>3, <1>2
        <4>4. QED BY <4>1, <4>3, <2>2, <2>6, <1>2, <1>3, <1>4
      <3>3. QED BY <3>1, <3>2
    <2>8. QED BY <2>1, <2>7
  <1>10. QED BY <1>5, <1>6, <1>7, <1>8, <1>9, DataStep

\* The arrays that are stored: the bits of Width integers hold them.
LEMMA StoredShort ==
  ASSUME TypeOK, Levels, Counted, Short, phase \in {"open", "sent"}, NEW k \in Keys
  PROVE  \/ Loose(Len(map[k]))
         \/ Len(map[k]) <= 2
         \/ Len(map[k]) <= rounds + 1 /\ rounds + 1 <= MaxRounds
  <1>1. Top \in Nat /\ Len(map[k]) \in Nat /\ rounds \in Nat /\ MaxRounds \in Nat
        BY EntryType, RevisionsAssumption DEF TypeOK, Revisions
  <1>2. Loose(Len(map[k])) \/ Len(map[k]) <= Top + 2
        BY DEF Short
  <1>3. CASE phase = "open"
    <2>1. Top = 0
          BY <1>3 DEF Levels, Top, Entry, OrZero, Undefined
    <2>2. QED BY <2>1, <1>2
  <1>4. CASE phase = "sent"
    <2>1. Top < rounds /\ rounds < MaxRounds
          BY <1>4 DEF Counted
    <2>2. QED BY <2>1, <1>1, <1>2
  <1>5. QED BY <1>3, <1>4

\* The inductive invariant of a session, whatever the device answers.
Bounded == TypeOK /\ Levels /\ Positions /\ Counted /\ Short

LEMMA BoundedInit == Init => Bounded
  <1> SUFFICES ASSUME Init PROVE Bounded
      OBVIOUS
  <1>1. TypeOK
        BY TypeInit
  <1>2. Top = 0 /\ Declared = 0
        BY DEF Init, Top, Entry, OrZero, Undefined, Declared
  <1>3. Levels /\ Positions
        BY <1>2 DEF Init, Levels, Positions
  <1>4. Counted
        BY <1>2 DEF Init, Counted
  <1>5. Short
    <2>1. Len(<<>>) <= 2 /\ \A v \in Values : Len(<<v>>) <= 2
          OBVIOUS
    <2>2. \A k \in Keys : Len(map[k]) <= 2
          BY <2>1 DEF Init
    <2>3. QED BY <2>2, <1>2 DEF Short
  <1>6. QED BY <1>1, <1>3, <1>4, <1>5 DEF Bounded

LEMMA BoundedStep == Bounded /\ [Next]_vars => Bounded'
  <1> SUFFICES ASSUME Bounded, [Next]_vars PROVE Bounded'
      OBVIOUS
  <1>1. TypeOK /\ Levels /\ Positions /\ Counted /\ Short
        BY DEF Bounded
  <1>2. TypeOK'
        BY <1>1, TypeStep
  <1>3. QED BY <1>1, <1>2, LevelsStep, CountedStep, ShortStep DEF Bounded

\* What is restored is what was stored.
LEMMA ReconnectReads ==
  ASSUME ~Reconnects \/ (MaxRounds <= Width /\ 2 <= Width), Bounded, Reconnect, NEW k \in Keys
  PROVE  /\ \A x \in Nat : At(map'[k], x) = At(map[k], x)
         /\ Latest(map'[k]) = Latest(map[k])
  <1>1. Reconnects /\ phase \in {"open", "sent"}
        BY DEF Reconnect
  <1>2. map[k] \in Revisions /\ Len(map[k]) \in Nat
        BY DEF Bounded, TypeOK, Revisions
  <1>3. MaxRounds \in Nat /\ Width \in Nat
        BY RevisionsAssumption, ValuesAssumption
  <1>4. Len(map[k]) <= Width
    <2>1. rounds \in Nat
          BY DEF Bounded, TypeOK
    <2>2. QED BY <2>1, <1>1, <1>2, <1>3, StoredShort DEF Bounded, Loose
  <1>5. map'[k] \in {map[k], Restored(map[k])}
        BY DEF Reconnect
  <1>6. QED BY <1>2, <1>4, <1>5, RestoredReads

\* A script that is run again from its start reads what it read before, if the
\* device keeps its connection or maxCommitIterations is not more than the bits
\* of an integer (both are 32 by default).
THEOREM ReadsAlwaysRepeat ==
  ASSUME ~Reconnects \/ (MaxRounds <= Width /\ 2 <= Width)
  PROVE  Spec => RepeatableReads
  <1>1. Bounded /\ [Next]_vars => ReadsRepeat
    <2> SUFFICES ASSUME Bounded, [Next]_vars, NEW k \in Keys,
                        NEW x \in 0 .. Top, x <= Top'
                 PROVE  At(map'[k], x) = At(map[k], x)
        BY DEF ReadsRepeat
    <2>1. TypeOK /\ TypeOK' /\ Levels /\ Positions
          BY TypeStep DEF Bounded
    <2>2. Top \in Nat /\ Top' \in Nat /\ x \in Nat
          BY <2>1, EntryType, NextTop DEF TypeOK
    <2>3. map \in [Keys -> Revisions] /\ map[k] \in Revisions
          BY <2>1 DEF TypeOK
    <2>4. \A b \in Batches : b[k] \in Slot \cup {Same}
          BY DEF Batches, Slot
    <2>5. CASE Cleared
      <3>1. x < 1 /\ map' = IF Committed THEN CollapsedMap(1) ELSE map
            BY <2>2, <2>5 DEF Cleared
      <3>2. map'[k] \in {map[k], Collapsed(map[k], 1)}
            BY <3>1 DEF CollapsedMap
      <3>3. At(Collapsed(map[k], 1), x) = At(map[k], x)
            BY <2>2, <2>3, <3>1, CollapsedReads
      <3>4. QED BY <3>2, <3>3
    <2>6. CASE Kept
          BY <2>6 DEF Kept
    <2>7. CASE Reconnect
          BY <2>2, <2>7, ReconnectReads
    <2>8. ASSUME NEW b \in Batches, WrittenNext(b)
          PROVE  At(map'[k], x) = At(map[k], x)
      <3>1. map'[k] = Put(map[k], Top + 1, b[k])
            BY <2>8 DEF WrittenNext, Written
      <3>2. Top + 1 \in Nat /\ x < Top + 1
            BY <2>2
      <3>3. QED BY <3>1, <3>2, <2>2, <2>3, <2>4, PutReads
    <2>9. ASSUME NEW b \in Batches, Returned(b)
          PROVE  At(map'[k], x) = At(map[k], x)
      <3>1. PICK u \in Nat : u = Top'
            BY <2>2
      <3>2. PICK r : r = u + 1
            OBVIOUS
      <3>3. r \in Nat /\ x < r
        <4>1. x <= u
              BY <3>1
        <4>2. QED BY <4>1, <3>2, <2>2
      <3>4. map'[k] = Put(CollapsedMap(r)[k], r, b[k])
            BY <2>9, <3>1, <3>2 DEF Returned, Written
      <3>5. CollapsedMap(r)[k] \in Revisions
            BY <2>1, <3>3, CollapsedMapType
      <3>6. At(map'[k], x) = At(CollapsedMap(r)[k], x)
            BY <3>3, <3>4, <3>5, <2>2, <2>4, PutReads
      <3>7. CollapsedMap(r)[k] \in {map[k], Collapsed(map[k], r)}
            BY DEF CollapsedMap
      <3>8. QED BY <3>3, <3>6, <3>7, <2>2, <2>3, CollapsedReads
    <2>10. QED BY <2>1, <2>5, <2>6, <2>7, <2>8, <2>9, DataStep
  <1>2. QED BY <1>1, BoundedInit, BoundedStep, PTL DEF Spec, RepeatableReads

\* What is collapsed everywhere keeps its last values.
LEMMA CollapsedLatest ==
  ASSUME TypeOK, NEW r \in Nat, NEW k \in Keys
  PROVE  Latest(CollapsedMap(r)[k]) = Latest(map[k])
  <1>1. CollapsedMap(r)[k] \in {map[k], Collapsed(map[k], r)}
        BY DEF CollapsedMap
  <1>2. QED BY <1>1, CollapsedReads DEF TypeOK

\* Commits, faults and reconnections lose no data, under the same condition.
THEOREM NothingEverForgotten ==
  ASSUME ~Reconnects \/ (MaxRounds <= Width /\ 2 <= Width)
  PROVE  Spec => NothingForgotten
  <1>1. Bounded /\ [Next]_vars => LatestKept
    <2> SUFFICES ASSUME Bounded, NEW k \in Keys,
                        \/ Clear \/ Commit \/ Return([i \in Keys |-> Same])
                        \/ ApplyPresets \/ RunPresets \/ Reconnect
                 PROVE  Latest(map'[k]) = Latest(map[k])
        BY DEF LatestKept
    <2>1. TypeOK /\ map[k] \in Revisions
          BY DEF Bounded, TypeOK
    <2>2. CASE map' = map \/ map' = CollapsedMap(1)
          BY <2>1, <2>2, CollapsedLatest
    <2>3. CASE Clear \/ ApplyPresets \/ RunPresets \/ Commit
          BY <2>2, <2>3 DEF Clear, ApplyPresets, RunPresets, Commit
    <2>4. CASE Return([i \in Keys |-> Same])
      <3>1. PICK r : r = ReturnTo(IF Popped = <<>> THEN Undefined ELSE Last(Popped))
            OBVIOUS
      <3>2. [i \in Keys |-> Same] \in Batches
            BY DEF Batches
      <3>3. r \in Nat
            BY <2>1, <2>4, <3>1, <3>2, ReturnType
      <3>4. map'[k] = Put(CollapsedMap(r)[k], r, Same)
            BY <2>4, <3>1 DEF Return, Written
      <3>5. CollapsedMap(r)[k] \in Revisions
            BY <2>1, <3>3, CollapsedMapType
      <3>6. map'[k] = CollapsedMap(r)[k]
            BY <3>3, <3>4, <3>5, PutReads
      <3>7. QED BY <3>3, <3>6, <2>1, CollapsedLatest
    <2>5. CASE Reconnect
          BY <2>5, ReconnectReads
    <2>6. QED BY <2>3, <2>4, <2>5
  <1>2. QED BY <1>1, BoundedInit, BoundedStep, PTL DEF Spec, NothingForgotten

\* A session that is stored is restored, unless it is in the last iteration of
\* maxCommitIterations and these are as many as the bits of an integer (both
\* are 32 by default); after a CPE fault, unless they are as many.
THEOREM RestoredBelowLimit ==
  ASSUME ~Reconnects \/ (MaxRounds <= Width /\ 2 < Width)
  PROVE  Spec => []HangsAtLimit
  <1>1. Init => Bounded /\ HangsAtLimit
        BY BoundedInit DEF Init, HangsAtLimit
  <1>2. Bounded /\ HangsAtLimit /\ [Next]_vars => (Bounded /\ HangsAtLimit)'
    <2> SUFFICES ASSUME Bounded, HangsAtLimit, [Next]_vars PROVE HangsAtLimit'
        BY BoundedStep
    <2>1. ASSUME phase # "hung", phase' # "hung" PROVE HangsAtLimit'
          BY <2>1 DEF HangsAtLimit
    <2>2. ASSUME Reconnect PROVE HangsAtLimit'
      <3>1. /\ Reconnects /\ phase \in {"open", "sent"}
            /\ UNCHANGED rounds
            BY <2>2 DEF Reconnect
      <3>2. MaxRounds \in Nat /\ Width \in Nat /\ rounds \in Nat
            BY RevisionsAssumption, ValuesAssumption DEF Bounded, TypeOK
      <3>3. ASSUME NEW k \in Keys, NeverEnds(map[k]) PROVE HangsAtLimit'
        <4>1. map[k] \in Revisions /\ Len(map[k]) \in Nat
              BY DEF Bounded, TypeOK, Revisions
        <4>2. Width <= Len(map[k])
              BY <3>2, <3>3, <4>1, ShortEnds
        <4>3. \/ "fault" \in Answers /\ Len(map[k]) <= MaxRounds
              \/ Len(map[k]) <= rounds + 1 /\ rounds + 1 <= MaxRounds
              BY <3>1, <3>2, <4>1, <4>2, StoredShort DEF Bounded, Loose
        <4>4. QED BY <3>1, <3>2, <4>1, <4>2, <4>3 DEF HangsAtLimit
      <3>4. CASE \A k \in Keys : ~NeverEnds(map[k])
        <4>1. phase' = phase /\ phase # "hung"
              BY <2>2, <3>1, <3>4 DEF Reconnect
        <4>2. QED BY <2>1, <4>1
      <3>5. QED BY <3>3, <3>4
    <2>3. ASSUME NEW b \in Batches,
                 \/ Notice(b) \/ DeviceDone(b) \/ Declare(b) \/ Again(b) \/ Return(b)
                 \/ Response(b) \/ InvalidName(b)
          PROVE  HangsAtLimit'
      <3>1. phase # "hung" /\ phase' # "hung"
            BY <2>3 DEF Notice, DeviceDone, Declare, Again, Return, Response, InvalidName,
               Synced, Working
      <3>2. QED BY <2>1, <3>1
    <2>4. ASSUME NEW b \in Batches, NEW done \in BOOLEAN, RunScripts(b, done)
          PROVE  HangsAtLimit'
          BY <2>1, <2>4 DEF RunScripts
    <2>5. ASSUME \/ NextTask \/ NextAfterFault \/ ApplyPresets \/ RunPresets \/ Finish
                 \/ Terminate \/ Fault
          PROVE  HangsAtLimit'
          BY <2>1, <2>5
          DEF NextTask, NextAfterFault, ApplyPresets, RunPresets, Finish, Terminate, Fault
    <2>6. ASSUME ScriptFault \/ LimitFault \/ Descend \/ Send \/ Commit
          PROVE  HangsAtLimit'
      <3>1. phase # "hung" /\ phase' # "hung"
            BY <2>6 DEF ScriptFault, LimitFault, Descend, Send, Commit, Synced, Working
      <3>2. QED BY <2>1, <3>1
    <2>7. CASE UNCHANGED vars
          BY <2>7 DEF vars, HangsAtLimit
    <2>8. QED BY <2>2, <2>3, <2>4, <2>5, <2>6, <2>7 DEF Next, Over
  <1>3. QED BY <1>1, <1>2, PTL DEF Spec

-----------------------------------------------------------------------------
\* Changes show in `dirty`.

\* A change since applyPresets looked shows in a bit above the lowest, unless
\* the revision has left the integer: then a limit ends the presets before they
\* are done.
Seen ==
    /\ phase \in {"run", "done"} /\ caller = "presets" =>
          \A k \in Keys : Latest(map[k]) # mark[k] =>
              (\E b \in dirty : b >= 1) \/ Top + 1 = Width
    /\ phase = "done" /\ caller = "presets" => Width - 1 \notin dirty /\ Top = 0

\* Where a write leaves no trace.
LEMMA Traced ==
  ASSUME NEW m \in [Keys -> Revisions], NEW r \in Nat, NEW b \in Batches, NEW k \in Keys
  PROVE  \/ Written(m, r, b)[k] = m[k]
         \/ Bit(r) \in DirtyBits(m, r, b)
  <1>1. CASE Effective(m[k], r, b[k])
        BY <1>1 DEF DirtyBits
  <1>2. CASE ~Effective(m[k], r, b[k])
        BY <1>2 DEF Written, Put
  <1>3. QED BY <1>1, <1>2

\* A write at the revision that follows the committed one is seen.
LEMMA WriteSeen ==
  ASSUME 2 < Width, MaxRounds <= Width, TypeOK, Counted, Seen, NEW b \in Batches,
         phase = "run", caller = "presets", NEW k \in Keys,
         Top' = Top, mark' = mark,
         map' = Written(map, Top + 1, b), dirty' = dirty \cup DirtyBits(map, Top + 1, b),
         Latest(map'[k]) # mark'[k]
  PROVE  (\E i \in dirty' : i >= 1) \/ Top' + 1 = Width
  <1>1. Top \in Nat /\ MaxRounds \in Nat /\ Width \in Nat
        BY EntryType, RevisionsAssumption, ValuesAssumption
  <1>2. Top + 1 \in Nat /\ Top + 1 >= 1 /\ (Top + 1 < Width \/ Top + 1 = Width)
        BY <1>1 DEF Counted
  <1>3. map \in [Keys -> Revisions]
        BY DEF TypeOK
  <1>4. CASE map'[k] = map[k]
    <2>1. (\E i \in dirty : i >= 1) \/ Top + 1 = Width
          BY <1>4 DEF Seen
    <2>2. QED BY <2>1
  <1>5. CASE Bit(Top + 1) \in dirty'
    <2>1. CASE Top + 1 < Width
      <3>1. Bit(Top + 1) = Top + 1
            BY <1>2, <2>1, SmallBit
      <3>2. QED BY <3>1, <1>2, <1>5
    <2>2. CASE Top + 1 = Width
          BY <2>2
    <2>3. QED BY <1>2, <2>1, <2>2
  <1>6. QED BY <1>2, <1>3, <1>4, <1>5, Traced

\* What a level leaves to its parent is seen, too.
LEMMA ReturnSeen ==
  ASSUME 2 < Width, MaxRounds <= Width, TypeOK, TypeOK', Levels, Positions, Counted, Seen,
         NEW b \in Batches, Return(b), caller = "presets"
  PROVE  Seen'
  <1>1. /\ phase = "run" /\ Declared = depth + 1 /\ depth \in Nat /\ synced = Declared
        /\ rounds < MaxRounds /\ rounds \in Nat
        BY ReturnLevels DEF TypeOK
  <1>2. PICK u \in Nat : u = Top'
        BY ReturnLevels
  <1>3. PICK r : r = u + 1
        OBVIOUS
  <1>4. /\ map' = Written(CollapsedMap(r), r, b)
        /\ dirty' = CollapsedDirty(r) \cup DirtyBits(CollapsedMap(r), r, b)
        /\ mark' = mark /\ caller' = caller
        /\ depth = 0 => b = [k \in Keys |-> Same]
        /\ depth = 0 => u = 0
        /\ depth # 0 => phase' = "run" /\ u = OrZero(Entry(depth))
        BY <1>2, <1>3, ReturnLevels
  <1>5. /\ Top \in Nat /\ MaxRounds \in Nat /\ Width \in Nat /\ r \in Nat /\ span \in Nat
        BY <1>3, EntryType, RevisionsAssumption, ValuesAssumption DEF TypeOK
  <1>6. Top + 1 < Width
    <2>1. Top < rounds
          BY <1>1 DEF Counted
    <2>2. QED BY <2>1, <1>1, <1>5
  <1>7. r < Width /\ r >= 1 /\ Bit(r) = r
    <2>1. u < rounds \/ u = 0
      <3>1. CASE depth = 0
            BY <3>1, <1>4
      <3>2. CASE depth # 0
        <4>1. depth \in 1 .. depth
              BY <3>2, <1>1
        <4>2. QED BY <4>1, <3>2, <1>4 DEF Counted
      <3>3. QED BY <3>1, <3>2
    <2>2. rounds < Width
          BY <1>1, <1>5
    <2>3. r < Width /\ r >= 1
      <3>1. CASE u = 0
            BY <3>1, <1>3, <1>5
      <3>2. CASE u < rounds
        <4>1. u + 1 < Width /\ u + 1 >= 1
          <5>1. rounds \in Nat /\ Width \in Nat
                BY <1>1, <1>5
          <5>2. QED BY <5>1, <3>2, <2>2
        <4>2. QED BY <4>1, <1>3
      <3>3. QED BY <2>1, <3>1, <3>2
    <2>4. QED BY <2>3, <1>5, SmallBit
  <1>8. span > 1
    <2>1. revision = Top + 1 /\ span > revision
          BY <1>1 DEF Positions
    <2>2. QED BY <2>1, <1>5
  <1>9. ASSUME NEW k \in Keys, Latest(map'[k]) # mark'[k]
        PROVE  \E i \in dirty' : i >= 1
    <2>1. CollapsedMap(r) \in [Keys -> Revisions]
          BY <1>5, CollapsedMapType
    <2>2. CASE map'[k] = CollapsedMap(r)[k]
      <3>1. Latest(map[k]) # mark[k]
            BY <2>2, <1>4, <1>5, <1>9, CollapsedLatest
      <3>2. Top + 1 # Width
            BY <1>5, <1>6
      <3>3. PICK i \in dirty : i >= 1
            BY <3>1, <3>2, <1>1 DEF Seen
      <3>4. i \in CollapsedDirty(r) \/ r \in CollapsedDirty(r)
            BY <3>3, <1>7 DEF CollapsedDirty, CollapsedBits
      <3>5. QED BY <3>3, <3>4, <1>4, <1>7
    <2>3. CASE Bit(r) \in DirtyBits(CollapsedMap(r), r, b)
          BY <2>3, <1>4, <1>7
    <2>4. QED BY <2>1, <2>2, <2>3, <1>4, <1>5, Traced
  <1>10. ASSUME phase' = "done" PROVE Width - 1 \notin dirty' /\ Top' = 0
    <2>1. depth = 0 /\ u = 0 /\ r = 1
          BY <1>3, <1>4, <1>10
    <2>2. \A k \in Keys : ~Effective(CollapsedMap(r)[k], r, b[k])
          BY <2>1, <1>4 DEF Effective
    <2>3. dirty' = CollapsedBits(dirty, 1)
          BY <2>1, <2>2, <1>4, <1>8 DEF DirtyBits, CollapsedDirty, Collapses
    <2>4. dirty \subseteq 0 .. Width - 1
          BY DEF TypeOK
    <2>5. Bit(1) = 1
          BY <1>7, <2>1
    <2>6. \A i \in CollapsedBits(dirty, 1) : i <= 1
          BY <2>4, <2>5 DEF CollapsedBits
    <2>7. QED BY <2>1, <2>3, <2>6, <1>2, <1>5
  <1>11. QED BY <1>9, <1>10 DEF Seen

\* Every step keeps it.
LEMMA SeenStep ==
  ASSUME 2 < Width, MaxRounds <= Width, Bounded, Seen, [Next]_vars
  PROVE  Seen'
  <1>a. /\ TypeOK /\ TypeOK' /\ Levels /\ Positions /\ Counted
        /\ Top \in Nat /\ Following(Top) = Top + 1 /\ Width \in Nat /\ MaxRounds \in Nat
    <2>1. TypeOK /\ Levels /\ Positions /\ Counted
          BY DEF Bounded
    <2>2. TypeOK'
          BY <2>1, TypeStep
    <2>3. Top \in Nat /\ Following(Top) = Top + 1
          BY <2>1, EntryType
    <2>4. Width \in Nat /\ MaxRounds \in Nat
          BY ValuesAssumption, RevisionsAssumption
    <2>5. QED BY <2>1, <2>2, <2>3, <2>4
  <1>b. ASSUME caller' # "presets" PROVE Seen'
        BY <1>b DEF Seen
  <1>c. ASSUME phase' \notin {"run", "done"} PROVE Seen'
        BY <1>c DEF Seen
  <1>1. ASSUME NEW b \in Batches,
               Notice(b) \/ DeviceDone(b) \/ Response(b) \/ InvalidName(b)
        PROVE  Seen'
    <2>1. phase' = "open" \/ caller' # "presets"
          BY <1>1 DEF Notice, DeviceDone, Response, InvalidName
    <2>2. QED BY <2>1, <1>b, <1>c
  <1>2. ASSUME NextTask \/ NextAfterFault \/ Terminate \/ Fault \/ ApplyPresets PROVE Seen'
    <2>1. phase' = "ended" \/ caller' # "presets"
          BY <1>2 DEF NextTask, NextAfterFault, Terminate, Fault, ApplyPresets
    <2>2. QED BY <2>1, <1>b, <1>c
  <1>3. ASSUME RunPresets PROVE Seen'
    <2>1. /\ map' = IF Committed THEN CollapsedMap(1) ELSE map
          /\ mark' = [k \in Keys |-> Latest(map[k])]
          /\ dirty' = {} /\ stack' = <<0>>
          BY <1>3 DEF RunPresets
    <2>2. Top' = 0
          BY <2>1, <1>a, NextTop DEF TypeOK
    <2>3. ASSUME NEW k \in Keys PROVE Latest(map'[k]) = mark'[k]
      <3>1. Latest(CollapsedMap(1)[k]) = Latest(map[k])
            BY <1>a, CollapsedLatest
      <3>2. QED BY <2>1, <3>1
    <2>4. QED BY <2>1, <2>2, <2>3 DEF Seen
  <1>4. ASSUME Finish \/ ScriptFault \/ LimitFault \/ Send \/ Reconnect PROVE Seen'
    <2>1. phase' \notin {"run", "done"}
          BY <1>4 DEF Finish, ScriptFault, LimitFault, Send, Reconnect
    <2>2. QED BY <2>1, <1>c
  <1>5. ASSUME NEW b \in Batches, phase = "run", phase' = "run",
               Top' = Top, mark' = mark, caller' = caller,
               map' = Written(map, Top + 1, b),
               dirty' = dirty \cup DirtyBits(map, Top + 1, b)
        PROVE  Seen'
    <2>1. SUFFICES ASSUME caller = "presets", NEW k \in Keys, Latest(map'[k]) # mark'[k]
                   PROVE  (\E i \in dirty' : i >= 1) \/ Top' + 1 = Width
          BY <1>5 DEF Seen
    <2>2. QED BY <1>a, <1>5, <2>1, WriteSeen
  <1>6. ASSUME NEW b \in Batches, NEW done \in BOOLEAN, RunScripts(b, done) PROVE Seen'
    <2>1. /\ phase = "run" /\ phase' = "run" /\ WriteAt(Top + 1, b)
          /\ UNCHANGED <<stack, caller, mark>>
          BY <1>a, <1>6, ScriptsLevels
    <2>2. Top' = Top
          BY <2>1, SameTop
    <2>3. QED BY <2>1, <2>2, <1>5 DEF WriteAt
  <1>7. ASSUME NEW b \in Batches, Declare(b) \/ Again(b) PROVE Seen'
    <2>1. /\ phase = "run" /\ phase' = "run" /\ Declared > depth /\ Write(b)
          /\ UNCHANGED <<stack, caller, mark>>
          BY <1>7 DEF Declare, Again, Synced, Working
    <2>2. Top' = Top /\ revision = Top + 1
          BY <1>a, <2>1, SameTop DEF Positions
    <2>3. QED BY <2>1, <2>2, <1>5 DEF Write
  <1>8. ASSUME Descend \/ Commit PROVE Seen'
    <2>1. /\ phase = "run" /\ phase' = "run" /\ Declared = depth + 1
          /\ UNCHANGED <<map, dirty, caller, mark>>
          BY <1>a, <1>8, DescendLevels, CommitLevels
    <2>2. synced = Declared /\ rounds < MaxRounds /\ rounds \in Nat
          BY <1>a, <1>8 DEF Descend, Commit, Synced, Working, WithinLimits, TypeOK
    <2>3. Top + 1 # Width
      <3>1. Declared > depth
            BY <1>a, <2>1 DEF TypeOK
      <3>2. Top < rounds
            BY <1>a, <2>2, <3>1 DEF Counted
      <3>3. QED BY <3>2, <2>2, <1>a
    <2>4. QED BY <2>1, <2>3 DEF Seen
  <1>9. ASSUME NEW b \in Batches, Return(b) PROVE Seen'
    <2>1. CASE caller = "presets"
          BY <1>a, <1>9, <2>1, ReturnSeen
    <2>2. CASE caller # "presets"
      <3>1. caller' # "presets"
            BY <1>9, <2>2 DEF Return
      <3>2. QED BY <3>1, <1>b
    <2>3. QED BY <2>1, <2>2
  <1>10. CASE UNCHANGED vars
    <2>1. UNCHANGED <<map, dirty, phase, caller, mark>> /\ Top' = Top
          BY <1>10, SameTop DEF vars
    <2>2. QED BY <2>1 DEF Seen
  <1>11. QED
        BY <1>1, <1>2, <1>3, <1>4, <1>6, <1>7, <1>8, <1>9, <1>10
        DEF Next, Over

\* What the presets changed makes applyPresets look at them again, as long as
\* maxCommitIterations is not more than the bits of an integer.
THEOREM ChangesAlwaysDirty ==
  ASSUME 2 < Width, MaxRounds <= Width
  PROVE  Spec => []ChangesAreDirty
  <1>1. Init => Bounded /\ Seen
        BY BoundedInit DEF Init, Seen
  <1>2. Bounded /\ Seen /\ [Next]_vars => (Bounded /\ Seen)'
        BY BoundedStep, SeenStep
  <1>3. Bounded /\ Seen => ChangesAreDirty
    <2>1. SUFFICES ASSUME Seen, phase = "done", caller = "presets",
                          NEW k \in Keys, Latest(map[k]) # mark[k]
                   PROVE  MoreThanOne(dirty)
          BY DEF ChangesAreDirty
    <2>2. Top = 0 /\ Width - 1 \notin dirty
          BY <2>1 DEF Seen
    <2>3. Top + 1 # Width
          BY <2>2
    <2>4. \E b \in dirty : b >= 1
          BY <2>1, <2>3 DEF Seen
    <2>5. QED BY <2>2, <2>4 DEF MoreThanOne
  <1>4. QED BY <1>1, <1>2, <1>3, PTL DEF Spec
=============================================================================
