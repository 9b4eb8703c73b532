------------------------------ MODULE FoldFacts ------------------------------
(***************************************************************************)
(* What a fold over a finite set keeps.  FoldSet and FoldLeft of the       *)
(* community modules are recursive functions on the subsets of a set, and  *)
(* what holds of them is shown by induction on the size of these.  It says *)
(* nothing of the code: it is a tool of SessionPartsProofs.  A lemma       *)
(* cannot be about any step and any invariant, so they are the constants   *)
(* of this module, and each loop of the code takes an instance.            *)
(***************************************************************************)
EXTENDS Integers, FiniteSets, FiniteSetTheorems, WellFoundedInduction, TLAPS

CONSTANTS
    Op(_, _, _),    \* a step, of a context, an element and what there is so far
    Pick(_),        \* the element of a set that comes last
    Good(_, _, _)   \* what every step keeps, of a context, what has been folded and the result

\* MapThenFoldSet of the module Folds, with elements as they are.
Fold(z, base, S) ==
    LET iter[s \in SUBSET S] ==
          IF s = {} THEN base ELSE LET x == Pick(s) IN Op(z, x, iter[s \ {x}])
    IN  iter[S]

\* A fold over the subsets that have at most n elements.
Level(S, n) == {s \in SUBSET S : Cardinality(s) <= n}
Folds(g, z, base, S, n) ==
    g = [s \in Level(S, n) |-> IF s = {} THEN base ELSE Op(z, Pick(s), g[s \ {Pick(s)}])]

\* Without its last element a set is one level lower.
LEMMA Smaller ==
  ASSUME NEW S, IsFiniteSet(S), \A s \in SUBSET S : s # {} => Pick(s) \in s,
         NEW n \in Nat, NEW s \in Level(S, n + 1), s # {}
  PROVE  s \ {Pick(s)} \in Level(S, n)
<1>1. IsFiniteSet(s) /\ s \in SUBSET S
      BY FS_Subset DEF Level
<1>2. Pick(s) \in s
      BY <1>1
<1>3. Cardinality(s \ {Pick(s)}) = Cardinality(s) - 1 /\ Cardinality(s) \in Nat
      BY <1>1, <1>2, FS_RemoveElement, FS_CardinalityType
<1>4. Cardinality(s) <= n + 1
      BY DEF Level
<1>5. Cardinality(s \ {Pick(s)}) <= n
      BY <1>3, <1>4
<1>. QED BY <1>1, <1>5 DEF Level

\* Induction: a set of numbers has a least one.
LEMMA Least ==
  ASSUME NEW T \in SUBSET Nat, T # {}
  PROVE  \E n \in T : n = 0 \/ (n - 1 \in Nat /\ n - 1 \notin T)
<1> DEFINE R == OpToRel(<, Nat)
<1>1. PICK n \in T : \A m \in T : <<m, n>> \notin R
      BY ONLY T \subseteq Nat, T # {}, NatLessThanWellFounded, WFMin, Zenon
<1>2. \A m \in T : ~(m < n)
  <2>1. SUFFICES ASSUME NEW m \in T, m < n PROVE FALSE
        OBVIOUS
  <2>2. <<m, n>> \in R
        BY <2>1, Zenon DEF OpToRel
  <2>. QED BY <2>2, <1>1
<1>. QED BY <1>2

\* On every level there is a fold, made of the one of the level below.
LEMMA LevelsFold ==
  ASSUME NEW z, NEW base, NEW S, IsFiniteSet(S), \A s \in SUBSET S : s # {} => Pick(s) \in s
  PROVE  \A n \in Nat : \E g : Folds(g, z, base, S, n)
<1> DEFINE Bad == {n \in Nat : ~\E g : Folds(g, z, base, S, n)}
<1>1. SUFFICES ASSUME Bad # {} PROVE FALSE
      OBVIOUS
<1>2. PICK n \in Bad : n = 0 \/ (n - 1 \in Nat /\ n - 1 \notin Bad)
      BY <1>1, Least
<1>3. CASE n = 0
  <2> DEFINE g == [s \in Level(S, 0) |-> base]
  <2>1. \A s \in Level(S, 0) : s = {}
        BY FS_Subset, FS_EmptySet, FS_CardinalityType DEF Level
  <2>2. g = [s \in Level(S, 0) |-> IF s = {} THEN base ELSE Op(z, Pick(s), g[s \ {Pick(s)}])]
        BY <2>1
  <2>3. Folds(g, z, base, S, 0)
        BY <2>2 DEF Folds
  <2>. QED BY <2>3, <1>2, <1>3
<1>4. CASE n - 1 \in Nat /\ n - 1 \notin Bad
  <2>0. n = (n - 1) + 1
        OBVIOUS
  <2>1. PICK g : Folds(g, z, base, S, n - 1)
        BY <1>4
  <2> DEFINE h == [s \in Level(S, n) |-> IF s = {} THEN base ELSE Op(z, Pick(s), g[s \ {Pick(s)}])]
  <2>2. \A s \in Level(S, n) : s # {} => s \ {Pick(s)} \in Level(S, n - 1)
        BY <2>0, <1>4, Smaller
  <2>3. Level(S, n - 1) \subseteq Level(S, n)
        BY <1>4, FS_Subset, FS_CardinalityType DEF Level
  <2>4. \A t \in Level(S, n - 1) : h[t] = g[t]
    <3> SUFFICES ASSUME NEW t \in Level(S, n - 1) PROVE h[t] = g[t]
        OBVIOUS
    <3>1. h[t] = IF t = {} THEN base ELSE Op(z, Pick(t), g[t \ {Pick(t)}])
          BY <2>3
    <3>2. g[t] = IF t = {} THEN base ELSE Op(z, Pick(t), g[t \ {Pick(t)}])
          BY <2>1 DEF Folds
    <3>. QED BY <3>1, <3>2
  <2>5. \A s \in Level(S, n) : h[s] = IF s = {} THEN base ELSE Op(z, Pick(s), h[s \ {Pick(s)}])
        BY <2>2, <2>4
  <2>6. h = [s \in Level(S, n) |-> IF s = {} THEN base ELSE Op(z, Pick(s), h[s \ {Pick(s)}])]
    <3>1. h = [s \in Level(S, n) |-> h[s]]
          OBVIOUS
    <3> HIDE DEF h
    <3>. QED BY <3>1, <2>5
  <2>7. Folds(h, z, base, S, n)
        BY <2>6 DEF Folds
  <2>. QED BY <2>7
<1>. QED BY <1>2, <1>3, <1>4

\* What holds of the base, and is kept by every step, holds of the fold: so of all that the
\* code does in a loop over what a response, a declaration or a path has.
LEMMA FoldKeeps ==
  ASSUME NEW z, NEW base, NEW S, IsFiniteSet(S),
         \A s \in SUBSET S : s # {} => Pick(s) \in s,
         Good(z, {}, base),
         \A s \in SUBSET S : \A x \in S \ s : \A a : Good(z, s, a) => Good(z, s \cup {x}, Op(z, x, a))
  PROVE  Good(z, S, Fold(z, base, S))
<1> DEFINE f == CHOOSE f : f = [s \in SUBSET S |-> IF s = {} THEN base ELSE Op(z, Pick(s), f[s \ {Pick(s)}])]
<1>1. Cardinality(S) \in Nat
      BY FS_CardinalityType
<1>2. Level(S, Cardinality(S)) = SUBSET S
      BY FS_Subset DEF Level
<1>3. \E g : g = [s \in SUBSET S |-> IF s = {} THEN base ELSE Op(z, Pick(s), g[s \ {Pick(s)}])]
  <2>1. PICK g : Folds(g, z, base, S, Cardinality(S))
        BY <1>1, LevelsFold
  <2>. QED BY <2>1, <1>2 DEF Folds
<1>4. f = [s \in SUBSET S |-> IF s = {} THEN base ELSE Op(z, Pick(s), f[s \ {Pick(s)}])]
      BY <1>3
<1>5. Fold(z, base, S) = f[S]
      BY DEF Fold
<1> HIDE DEF f
<1>6. \A s \in SUBSET S : f[s] = IF s = {} THEN base ELSE Op(z, Pick(s), f[s \ {Pick(s)}])
      BY <1>4
<1> DEFINE Bad == {n \in Nat : \E s \in Level(S, n) : ~Good(z, s, f[s])}
<1>7. Bad = {}
  <2>1. SUFFICES ASSUME Bad # {} PROVE FALSE
        OBVIOUS
  <2>2. PICK n \in Bad : n = 0 \/ (n - 1 \in Nat /\ n - 1 \notin Bad)
        BY <2>1, Least
  <2>3. PICK s \in Level(S, n) : ~Good(z, s, f[s])
        BY <2>2
  <2>4. s \in SUBSET S
        BY DEF Level
  <2>5. s # {}
        BY <2>3, <2>4, <1>6
  <2>6. n # 0
        BY <2>4, <2>5, FS_Subset, FS_EmptySet, FS_CardinalityType DEF Level
  <2>7. n - 1 \in Nat /\ n = (n - 1) + 1
        BY <2>2, <2>6
  <2> DEFINE x == Pick(s)
             r == s \ {x}
  <2>8. r \in Level(S, n - 1)
        BY <2>5, <2>7, Smaller
  <2>9. Good(z, r, f[r])
        BY <2>2, <2>7, <2>8
  <2>10. f[s] = Op(z, x, f[r])
        BY <2>4, <2>5, <1>6
  <2>11. x \in S \ r /\ r \in SUBSET S /\ s = r \cup {x}
        BY <2>4, <2>5
  <2> HIDE DEF x, r
  <2>12. Good(z, r \cup {x}, Op(z, x, f[r]))
        BY <2>9, <2>11
  <2>. QED BY <2>3, <2>10, <2>11, <2>12
<1>8. S \in Level(S, Cardinality(S))
      BY <1>2
<1>9. Good(z, S, f[S])
      BY <1>1, <1>7, <1>8
<1>. QED BY <1>5, <1>9
=============================================================================
