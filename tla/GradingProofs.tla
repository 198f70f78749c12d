---------------------------- MODULE GradingProofs ----------------------------
(***************************************************************************)
(* Theorems about Grading, for any questions, replies, texts and re-runs.  *)
(***************************************************************************)
EXTENDS Grading, FiniteSetTheorems, WellFoundedInduction, TLAPS

-----------------------------------------------------------------------------
(* Numbers                                                                  *)

\* A set of naturals has a least one.
LEMMA LeastNatural ==
  ASSUME NEW S \in SUBSET Nat, S # {}
  PROVE  \E m \in S : \A k \in S : m <= k
  <1>1. IsWellFoundedOn(OpToRel(<, Nat), Nat)
    BY NatLessThanWellFounded
  <1>2. PICK m \in S : \A k \in S : <<k, m>> \notin OpToRel(<, Nat)
    BY <1>1, WFMin
  <1>3. \A k \in S : ~(k < m)
    BY <1>2 DEF OpToRel
  <1> QED BY <1>3

\* Induction over the naturals, for a set.
LEMMA SetInduction ==
  ASSUME NEW S, 0 \in S, \A n \in Nat : n \in S => n + 1 \in S
  PROVE  Nat \subseteq S
  <1> SUFFICES ASSUME Nat \ S # {} PROVE FALSE
    OBVIOUS
  <1>1. PICK m \in Nat \ S : \A k \in Nat \ S : m <= k
    BY LeastNatural
  <1>2. m # 0 /\ m - 1 \in Nat /\ m - 1 + 1 = m
    BY <1>1
  <1>3. m - 1 \in S
    BY <1>1, <1>2
  <1> QED BY <1>1, <1>2, <1>3

LEMMA MinFacts ==
  ASSUME NEW S \in SUBSET Nat, S # {}
  PROVE  Min(S) \in S /\ \A k \in S : Min(S) <= k
  BY LeastNatural DEF Min

LEMMA MaxFacts ==
  ASSUME NEW S \in SUBSET Nat, S # {}, NEW b \in Nat, \A k \in S : k <= b
  PROVE  Max(S) \in S /\ \A k \in S : k <= Max(S)
  <1> DEFINE U == {n \in Nat : \A k \in S : k <= n}
  <1>1. U \in SUBSET Nat /\ U # {}
    OBVIOUS
  <1>2. PICK u \in U : \A k \in U : u <= k
    BY <1>1, LeastNatural
  <1>3. u \in S
    <2> SUFFICES ASSUME u \notin S PROVE FALSE
      OBVIOUS
    <2>1. \A k \in S : k < u
      BY <1>2
    <2>2. u # 0
      <3>1. PICK k \in S : k < u
        BY <2>1
      <3> QED BY <3>1
    <2>3. u - 1 \in Nat /\ \A k \in S : k <= u - 1
      BY <1>2, <2>1, <2>2
    <2> QED BY <1>2, <2>3
  <1>4. \E x \in S : \A k \in S : k <= x
    BY <1>2, <1>3
  <1> QED BY <1>4 DEF Max

\* Induction over the parts of a finite set.
LEMMA PartsInduction ==
  ASSUME NEW S, IsFiniteSet(S), NEW P,
         {} \in P,
         \A T \in SUBSET S : T # {} /\ (\A x \in T : T \ {x} \in P) => T \in P
  PROVE  S \in P
  <1> DEFINE N == {n \in Nat : \A T \in SUBSET S : Cardinality(T) = n => T \in P}
  <1>0. \A T \in SUBSET S : IsFiniteSet(T) /\ Cardinality(T) \in Nat
    BY FS_Subset, FS_CardinalityType
  <1>1. 0 \in N
    BY <1>0, FS_EmptySet
  <1>2. ASSUME NEW n \in Nat, n \in N PROVE n + 1 \in N
    <2> SUFFICES ASSUME NEW T \in SUBSET S, Cardinality(T) = n + 1 PROVE T \in P
      OBVIOUS
    <2>1. T # {}
      <3>1. Cardinality({}) = 0 /\ n + 1 # 0
        BY FS_EmptySet
      <3> QED BY <3>1
    <2>2. \A x \in T : T \ {x} \in SUBSET S /\ Cardinality(T \ {x}) = n
      BY <1>0, FS_RemoveElement
    <2> QED BY <1>2, <2>1, <2>2
  <1>3. Cardinality(S) \in N
    <2> HIDE DEF N
    <2> QED BY <1>0, <1>1, <1>2, SetInduction
  <1> QED BY <1>3

-----------------------------------------------------------------------------
(* Sums                                                                     *)

Sum(f, S) == FoldFunctionOnSet(LAMBDA a, b : a + b, 0, f, S)

Pick(S) == CHOOSE x \in S : TRUE
Term(F, f, s) == IF s = {} THEN 0 ELSE f[Pick(s)] + F[s \ {Pick(s)}]
Folds(F, f, S) == F = [s \in SUBSET S |-> Term(F, f, s)]

LEMMA SumIsFold ==
  ASSUME NEW f, NEW S
  PROVE  Sum(f, S) = (CHOOSE F : Folds(F, f, S))[S]
  BY DEF Sum, FoldFunctionOnSet, MapThenFoldSet, Folds, Term, Pick

LEMMA PickIsIn ==
  ASSUME NEW S, S # {}
  PROVE  Pick(S) \in S
  BY DEF Pick

LEMMA Smaller ==
  ASSUME NEW S, IsFiniteSet(S), NEW s \in SUBSET S, NEW x \in s
  PROVE  /\ IsFiniteSet(s) /\ Cardinality(s) \in Nat /\ Cardinality(s) # 0
         /\ s \ {x} \in SUBSET S /\ IsFiniteSet(s \ {x})
         /\ Cardinality(s \ {x}) = Cardinality(s) - 1
  BY FS_Subset, FS_RemoveElement, FS_CardinalityType, FS_EmptySet

LEMMA SumExists ==
  ASSUME NEW f, NEW S, IsFiniteSet(S)
  PROVE  \E F : Folds(F, f, S)
  <1> DEFINE UpTo(F, n) == /\ F = [s \in SUBSET S |-> F[s]]
                           /\ \A s \in SUBSET S : Cardinality(s) <= n => F[s] = Term(F, f, s)
             N == {n \in Nat : \E F : UpTo(F, n)}
  <1>0. \A s \in SUBSET S : IsFiniteSet(s) /\ Cardinality(s) \in Nat /\ Cardinality(s) <= Cardinality(S)
    BY FS_Subset, FS_CardinalityType
  <1>1. 0 \in N
    <2>1. \A s \in SUBSET S : Cardinality(s) <= 0 => s = {}
      BY <1>0, FS_EmptySet
    <2>2. UpTo([s \in SUBSET S |-> 0], 0)
      BY <2>1 DEF Term
    <2> QED BY <2>2
  <1>2. ASSUME NEW n \in Nat, n \in N PROVE n + 1 \in N
    <2>1. PICK F : UpTo(F, n)
      BY <1>2
    <2> DEFINE H == [s \in SUBSET S |-> IF Cardinality(s) <= n THEN F[s] ELSE Term(F, f, s)]
    <2>2. \A s \in SUBSET S : Cardinality(s) <= n + 1 => H[s] = Term(F, f, s)
      BY <2>1
    <2>3. \A s \in SUBSET S : Cardinality(s) <= n => H[s] = F[s]
      OBVIOUS
    <2> HIDE DEF H
    <2>4. \A s \in SUBSET S : Cardinality(s) <= n + 1 => Term(H, f, s) = Term(F, f, s)
      <3> SUFFICES ASSUME NEW s \in SUBSET S, Cardinality(s) <= n + 1, s # {}
                   PROVE  H[s \ {Pick(s)}] = F[s \ {Pick(s)}]
        BY DEF Term
      <3>1. Pick(s) \in s
        BY PickIsIn
      <3>2. s \ {Pick(s)} \in SUBSET S /\ Cardinality(s \ {Pick(s)}) <= n
        BY <3>1, Smaller
      <3> QED BY <2>3, <3>2
    <2>5. H = [s \in SUBSET S |-> H[s]]
      BY DEF H
    <2>6. UpTo(H, n + 1)
      BY <2>2, <2>4, <2>5
    <2> HIDE DEF UpTo
    <2> QED BY <2>6
  <1>3. Cardinality(S) \in N
    <2> HIDE DEF N
    <2> QED BY <1>0, <1>1, <1>2, SetInduction, FS_CardinalityType
  <1>4. PICK F : UpTo(F, Cardinality(S))
    BY <1>3
  <1>5. F = [s \in SUBSET S |-> Term(F, f, s)]
    BY <1>0, <1>4
  <1> QED BY <1>5 DEF Folds

\* A fold over a set does to a part of it what the fold over the part does.
LEMMA SameFold ==
  ASSUME NEW f, NEW S, IsFiniteSet(S), NEW T \in SUBSET S,
         NEW F, Folds(F, f, S), NEW G, Folds(G, f, T)
  PROVE  F[T] = G[T]
  <1> DEFINE N == {n \in Nat : \A s \in SUBSET T : Cardinality(s) = n => F[s] = G[s]}
  <1>0. IsFiniteSet(T) /\ Cardinality(T) \in Nat
    BY FS_Subset, FS_CardinalityType
  <1>1. \A s \in SUBSET T : F[s] = Term(F, f, s) /\ G[s] = Term(G, f, s)
    BY DEF Folds
  <1>2. 0 \in N
    <2> SUFFICES ASSUME NEW s \in SUBSET T, Cardinality(s) = 0 PROVE F[s] = G[s]
      OBVIOUS
    <2>1. s = {}
      BY <1>0, FS_Subset, FS_EmptySet
    <2> QED BY <1>1, <2>1 DEF Term
  <1>3. ASSUME NEW n \in Nat, n \in N PROVE n + 1 \in N
    <2> SUFFICES ASSUME NEW s \in SUBSET T, Cardinality(s) = n + 1 PROVE F[s] = G[s]
      OBVIOUS
    <2>1. s # {}
      BY FS_EmptySet
    <2>2. Pick(s) \in s
      BY <2>1, PickIsIn
    <2>3. s \ {Pick(s)} \in SUBSET T /\ Cardinality(s \ {Pick(s)}) = n
      BY <1>0, <2>2, Smaller
    <2>4. F[s \ {Pick(s)}] = G[s \ {Pick(s)}]
      BY <1>3, <2>3
    <2> QED BY <1>1, <2>1, <2>4 DEF Term
  <1>4. Cardinality(T) \in N
    <2> HIDE DEF N
    <2> QED BY <1>0, <1>2, <1>3, SetInduction
  <1> QED BY <1>4

LEMMA SumEmpty ==
  ASSUME NEW f
  PROVE  Sum(f, {}) = 0
  <1>1. IsFiniteSet({})
    BY FS_EmptySet
  <1> DEFINE G == CHOOSE F : Folds(F, f, {})
  <1>2. Folds(G, f, {})
    BY <1>1, SumExists
  <1>3. G[{}] = Term(G, f, {})
    BY <1>2 DEF Folds
  <1> QED BY <1>3, SumIsFold DEF Term

LEMMA SumPick ==
  ASSUME NEW f, NEW S, IsFiniteSet(S), S # {}
  PROVE  Sum(f, S) = f[Pick(S)] + Sum(f, S \ {Pick(S)})
  <1> DEFINE T == S \ {Pick(S)}
             F == CHOOSE H : Folds(H, f, S)
             G == CHOOSE H : Folds(H, f, T)
  <1>1. IsFiniteSet(T) /\ T \in SUBSET S
    BY FS_Subset
  <1>2. Folds(F, f, S) /\ Folds(G, f, T)
    BY <1>1, SumExists
  <1>3. F[S] = f[Pick(S)] + F[T]
    BY <1>2 DEF Folds, Term
  <1>4. F[T] = G[T]
    <2> HIDE DEF F, G, T
    <2> QED BY <1>1, <1>2, SameFold
  <1> QED BY <1>3, <1>4, SumIsFold

LEMMA SumType ==
  ASSUME NEW f, NEW S, IsFiniteSet(S), \A x \in S : f[x] \in Nat
  PROVE  Sum(f, S) \in Nat
  <1> DEFINE P == {T \in SUBSET S : Sum(f, T) \in Nat}
  <1>1. {} \in P
    BY SumEmpty
  <1>2. ASSUME NEW T \in SUBSET S, T # {}, \A x \in T : T \ {x} \in P
        PROVE  T \in P
    <2>1. Sum(f, T) = f[Pick(T)] + Sum(f, T \ {Pick(T)}) /\ Pick(T) \in T
      BY <1>2, SumPick, PickIsIn, FS_Subset
    <2> QED BY <1>2, <2>1
  <1>3. S \in P
    <2> HIDE DEF P
    <2> QED BY <1>1, <1>2, PartsInduction
  <1> QED BY <1>3

\* A sum may begin with any of its terms.
LEMMA SumFrom ==
  ASSUME NEW f, NEW S, IsFiniteSet(S), \A x \in S : f[x] \in Nat, NEW y \in S
  PROVE  Sum(f, S) = f[y] + Sum(f, S \ {y})
  <1> DEFINE P == {T \in SUBSET S : \A x \in T : Sum(f, T) = f[x] + Sum(f, T \ {x})}
  <1>0. \A T \in SUBSET S : IsFiniteSet(T) /\ Sum(f, T) \in Nat
    BY SumType, FS_Subset
  <1>1. {} \in P
    OBVIOUS
  <1>2. ASSUME NEW T \in SUBSET S, T # {}, \A x \in T : T \ {x} \in P
        PROVE  T \in P
    <2> SUFFICES ASSUME NEW x \in T PROVE Sum(f, T) = f[x] + Sum(f, T \ {x})
      OBVIOUS
    <2> DEFINE c == Pick(T)
    <2>1. Sum(f, T) = f[c] + Sum(f, T \ {c}) /\ c \in T
      BY <1>0, <1>2, SumPick, PickIsIn
    <2> HIDE DEF c
    <2>2. CASE x # c
      <3>1. Sum(f, T \ {c}) = f[x] + Sum(f, (T \ {c}) \ {x})
        BY <1>2, <2>1, <2>2
      <3>2. Sum(f, T \ {x}) = f[c] + Sum(f, (T \ {x}) \ {c})
        BY <1>2, <2>1, <2>2
      <3>3. (T \ {c}) \ {x} = (T \ {x}) \ {c}
        OBVIOUS
      <3>4. f[x] \in Nat /\ f[c] \in Nat /\ Sum(f, (T \ {x}) \ {c}) \in Nat
        BY <1>0, <2>1
      <3> QED BY <2>1, <3>1, <3>2, <3>3, <3>4
    <2> QED BY <2>1, <2>2
  <1>3. S \in P
    <2> HIDE DEF P
    <2> QED BY <1>1, <1>2, PartsInduction
  <1> QED BY <1>3

LEMMA SumOfPart ==
  ASSUME NEW f, NEW S, IsFiniteSet(S), \A x \in S : f[x] \in Nat, NEW T \in SUBSET S
  PROVE  Sum(f, T) <= Sum(f, S)
  <1> DEFINE P == {U \in SUBSET S : T \subseteq U => Sum(f, T) <= Sum(f, U)}
  <1>0. \A U \in SUBSET S : IsFiniteSet(U) /\ Sum(f, U) \in Nat
    BY SumType, FS_Subset
  <1>1. {} \in P
    <2>1. T \subseteq {} => T = {}
      OBVIOUS
    <2> QED BY <1>0, <2>1, SumEmpty
  <1>2. ASSUME NEW U \in SUBSET S, U # {}, \A x \in U : U \ {x} \in P
        PROVE  U \in P
    <2> SUFFICES ASSUME T \subseteq U, T # U PROVE Sum(f, T) <= Sum(f, U)
      BY <1>0
    <2>1. PICK x \in U : x \notin T
      OBVIOUS
    <2>2. Sum(f, T) <= Sum(f, U \ {x})
      BY <1>2, <2>1
    <2>3. Sum(f, U) = f[x] + Sum(f, U \ {x}) /\ f[x] \in Nat
      BY <1>0, SumFrom
    <2> QED BY <1>0, <2>2, <2>3
  <1>3. S \in P
    <2> HIDE DEF P
    <2> QED BY <1>1, <1>2, PartsInduction
  <1> QED BY <1>3

LEMMA SumAtMost ==
  ASSUME NEW f, NEW S, IsFiniteSet(S), NEW b \in Nat, \A x \in S : f[x] \in 0 .. b
  PROVE  Sum(f, S) \in 0 .. (b * Cardinality(S))
  <1> DEFINE P == {T \in SUBSET S : Sum(f, T) <= b * Cardinality(T)}
  <1>0. \A T \in SUBSET S : IsFiniteSet(T) /\ Sum(f, T) \in Nat /\ Cardinality(T) \in Nat
    BY SumType, FS_Subset, FS_CardinalityType
  <1>1. {} \in P
    BY SumEmpty, FS_EmptySet
  <1>2. ASSUME NEW T \in SUBSET S, T # {}, \A x \in T : T \ {x} \in P
        PROVE  T \in P
    <2>1. PICK x \in T : TRUE
      BY <1>2
    <2>2. Sum(f, T) = f[x] + Sum(f, T \ {x}) /\ f[x] \in 0 .. b
      BY <1>0, SumFrom
    <2>3. Cardinality(T \ {x}) = Cardinality(T) - 1
      BY <1>0, FS_RemoveElement
    <2>4. b * Cardinality(T) = b + b * (Cardinality(T) - 1)
      BY <1>0
    <2>5. Sum(f, T \ {x}) <= b * (Cardinality(T) - 1) /\ Sum(f, T \ {x}) \in Nat
      BY <1>0, <1>2, <2>3
    <2>6. b * (Cardinality(T) - 1) \in Int
      BY <1>0
    <2> QED BY <1>0, <2>2, <2>4, <2>5, <2>6
  <1>3. S \in P
    <2> HIDE DEF P
    <2> QED BY <1>1, <1>2, PartsInduction
  <1> QED BY <1>0, <1>3

-----------------------------------------------------------------------------
(* What a reply is worth                                                    *)

\* Every score is a multiple of four: the mean of two is exact, and so is that of
\* such a mean and a third.
Marks == {m \in 0 .. Scale : \E k \in Nat : m = 4 * k}

LEMMA Cancel ==
  ASSUME NEW a \in Nat, NEW b \in Nat \ {0}
  PROVE  (a * b) \div b = a
  OBVIOUS

LEMMA ModuloZero ==
  ASSUME NEW a \in Nat, NEW b \in Nat \ {0}, a % b = 0
  PROVE  \E k \in Nat : a = k * b
  OBVIOUS

LEMMA MeanIsMark ==
  ASSUME NEW n \in Nat \ {0}, NEW total \in 0 .. n, Scale % (4 * n) = 0
  PROVE  Mean(total, n) \in Marks
  <1>1. PICK k \in Nat : Scale = k * (4 * n)
    <2> DEFINE b == 4 * n
    <2>1. b \in Nat \ {0} /\ Scale \in Nat /\ Scale % b = 0
      BY GradingAssumption
    <2> HIDE DEF b
    <2>2. \E k \in Nat : Scale = k * b
      BY <2>1, ModuloZero
    <2> QED BY <2>2 DEF b
  <1>2. total * Scale = (4 * (total * k)) * n
    BY <1>1
  <1>3. total * k \in Nat
    OBVIOUS
  <1>4. Mean(total, n) = 4 * (total * k)
    BY <1>2, <1>3, Cancel DEF Mean
  <1>5. total * k <= n * k
    OBVIOUS
  <1>6. n * k \in Nat /\ 4 * (n * k) = Scale
    BY <1>1
  <1> QED BY <1>3, <1>4, <1>5, <1>6 DEF Marks

LEMMA ConceptsOf ==
  ASSUME NEW q \in Questions
  PROVE  /\ q \in Seq(Names) /\ Len(q) \in Nat \ {0} /\ DOMAIN q = 1 .. Len(q)
         /\ ToSet(q) \subseteq Names /\ IsFiniteSet(ToSet(q))
         /\ Cardinality(ToSet(q)) \in 1 .. Len(q)
  <1>1. q \in Seq(Names) /\ q # <<>>
    BY GradingAssumption
  <1>2. Len(q) \in Nat \ {0} /\ DOMAIN q = 1 .. Len(q) /\ q \in [1 .. Len(q) -> Names]
    BY <1>1
  <1>3. q[1] \in ToSet(q) /\ ToSet(q) \subseteq Names
    BY <1>2 DEF ToSet
  <1>4. q \in Surjection(1 .. Len(q), ToSet(q))
    BY <1>2 DEF ToSet, Surjection
  <1>5. IsFiniteSet(1 .. Len(q)) /\ Cardinality(1 .. Len(q)) = Len(q)
    BY <1>2, FS_Interval
  <1>6. IsFiniteSet(ToSet(q)) /\ Cardinality(ToSet(q)) <= Len(q)
    BY <1>4, <1>5, FS_Surjection
  <1>7. Cardinality(ToSet(q)) \in Nat /\ Cardinality(ToSet(q)) # 0
    BY <1>3, <1>6, FS_CardinalityType, FS_EmptySet
  <1> QED BY <1>1, <1>2, <1>3, <1>6, <1>7

LEMMA ScaleFits ==
  ASSUME NEW q \in Questions, NEW n \in 1 .. Len(q)
  PROVE  Scale % (4 * (Full * n)) = 0 /\ Scale % (4 * n) = 0 /\ Full * n \in Nat \ {0}
  <1>1. Scale % (4 * Full * n) = 0
    BY GradingAssumption
  <1>2. Full \in Nat \ {0} /\ n \in Nat \ {0} /\ Scale \in Nat
    BY GradingAssumption, ConceptsOf
  <1>3. Full * n \in Nat \ {0} /\ 4 * Full * n = 4 * (Full * n)
    BY <1>2
  <1>4. PICK k \in Nat : Scale = k * (4 * (Full * n))
    <2> DEFINE b == 4 * (Full * n)
    <2>1. b \in Nat \ {0} /\ Scale % b = 0
      BY <1>1, <1>3
    <2> HIDE DEF b
    <2>2. \E k \in Nat : Scale = k * b
      BY <1>2, <2>1, ModuloZero
    <2> QED BY <2>2 DEF b
  <1>5. Scale = (k * Full) * (4 * n) /\ k * Full \in Nat
    BY <1>2, <1>4
  <1>6. ((k * Full) * (4 * n)) % (4 * n) = 0
    BY <1>2, <1>5
  <1> QED BY <1>1, <1>3, <1>5, <1>6

LEMMA RepliesAre ==
  ASSUME NEW r \in Replies
  PROVE  /\ Len(r) \in 0 .. MaxReply /\ DOMAIN r = 1 .. Len(r) /\ r \in Seq(Entries)
         /\ \A i \in DOMAIN r : r[i] \in Entries /\ r[i].covered \in 0 .. Full
  <1>1. PICK n \in 0 .. MaxReply : r \in [1 .. n -> Entries]
    BY DEF Replies
  <1>2. Len(r) = n /\ r \in Seq(Entries)
    BY <1>1, GradingAssumption
  <1> QED BY <1>1, <1>2 DEF Entries

LEMMA NamingFacts ==
  ASSUME NEW r \in Replies, NEW c
  PROVE  /\ Naming(r, c) \subseteq DOMAIN r
         /\ Naming(r, c) # {} => Min(Naming(r, c)) \in Naming(r, c)
  <1>1. Naming(r, c) \subseteq DOMAIN r /\ DOMAIN r \subseteq Nat
    BY RepliesAre DEF Naming
  <1> QED BY <1>1, MinFacts

LEMMA PlaceFacts ==
  ASSUME NEW q \in Questions, NEW c \in ToSet(q)
  PROVE  Place(q, c) \in DOMAIN q /\ q[Place(q, c)] = c
  <1> DEFINE S == {i \in DOMAIN q : q[i] = c}
  <1>1. S \in SUBSET Nat /\ S # {} /\ Len(q) \in Nat /\ \A k \in S : k <= Len(q)
    BY ConceptsOf DEF ToSet
  <1>2. Max(S) \in S
    BY <1>1, MaxFacts
  <1> QED BY <1>2 DEF Place

LEMMA AlignType ==
  ASSUME NEW q \in Questions, NEW r \in Replies
  PROVE  Align(q, r) \in [ToSet(q) -> 0 .. Full]
  <1> SUFFICES ASSUME NEW c \in ToSet(q) PROVE Align(q, r)[c] \in 0 .. Full
    BY DEF Align
  <1>1. CASE Naming(r, c) # {}
    BY <1>1, NamingFacts, RepliesAre DEF Align
  <1>2. CASE Naming(r, c) = {} /\ SameLength(q, r)
    <2>1. Place(q, c) \in DOMAIN r
      BY <1>2, PlaceFacts, ConceptsOf, RepliesAre DEF SameLength
    <2> QED BY <1>2, <2>1, RepliesAre DEF Align
  <1>3. CASE Naming(r, c) = {} /\ ~SameLength(q, r)
    BY <1>3, GradingAssumption DEF Align
  <1> QED BY <1>1, <1>2, <1>3

LEMMA WorthIsMark ==
  ASSUME NEW q \in Questions, NEW r \in Replies
  PROVE  LlmScore(Align(q, r)) \in Marks
  <1> DEFINE cov == Align(q, r)
             n == Cardinality(ToSet(q))
  <1>1. cov \in [ToSet(q) -> 0 .. Full]
    BY AlignType
  <1> HIDE DEF cov
  <1>2. n \in 1 .. Len(q) /\ IsFiniteSet(ToSet(q)) /\ Full \in Nat
    BY ConceptsOf, GradingAssumption
  <1>3. Sum(cov, DOMAIN cov) \in 0 .. (Full * n)
    BY <1>1, <1>2, SumAtMost
  <1>4. Mean(Sum(cov, DOMAIN cov), Full * n) \in Marks
    BY <1>2, <1>3, ScaleFits, MeanIsMark
  <1>5. LlmScore(cov) = Mean(Sum(cov, DOMAIN cov), Full * n)
    BY <1>1 DEF LlmScore, Sum, FoldFunction
  <1> QED BY <1>4, <1>5 DEF cov

-----------------------------------------------------------------------------
(* The median                                                               *)

LEMMA MarksAreNaturals == Marks \subseteq Nat /\ \A m \in Marks : m <= Scale
  BY GradingAssumption DEF Marks

LEMMA RunsOf ==
  ASSUME NEW s \in Seq(Marks)
  PROVE  /\ DOMAIN s = 1 .. Len(s) /\ Len(s) \in Nat
         /\ \A i \in DOMAIN s : s[i] \in Marks /\ s[i] \in Nat /\ s[i] \in ToSet(s)
         /\ \A v \in ToSet(s) : v \in Marks /\ v \in Nat
  <1>1. DOMAIN s = 1 .. Len(s) /\ Len(s) \in Nat /\ \A i \in DOMAIN s : s[i] \in Marks
    OBVIOUS
  <1>2. \A v \in ToSet(s) : \E i \in DOMAIN s : v = s[i]
    BY DEF ToSet
  <1>3. \A i \in DOMAIN s : s[i] \in ToSet(s)
    BY DEF ToSet
  <1> QED BY <1>1, <1>2, <1>3, MarksAreNaturals

LEMMA Places ==
  ASSUME NEW s \in Seq(Marks), NEW S \in SUBSET DOMAIN s
  PROVE  IsFiniteSet(S) /\ Cardinality(S) \in 0 .. Len(s)
  <1>1. IsFiniteSet(DOMAIN s) /\ Cardinality(DOMAIN s) = Len(s)
    BY RunsOf, FS_Interval
  <1> QED BY <1>1, RunsOf, FS_Subset, FS_CardinalityType

LEMMA NthFacts ==
  ASSUME NEW s \in Seq(Marks), NEW k \in 1 .. Len(s)
  PROVE  /\ Nth(s, k) \in ToSet(s)
         /\ Cardinality({i \in DOMAIN s : s[i] <= Nth(s, k)}) >= k
         /\ Cardinality({i \in DOMAIN s : s[i] < Nth(s, k)}) < k
         /\ \A v \in ToSet(s) :
              Cardinality({i \in DOMAIN s : s[i] <= v}) >= k => Nth(s, k) <= v
  <1> DEFINE UpTo(v) == {i \in DOMAIN s : s[i] <= v}
             V == {v \in ToSet(s) : Cardinality(UpTo(v)) >= k}
             Below == {i \in DOMAIN s : s[i] < Nth(s, k)}
  <1>1. V \in SUBSET Nat
    BY RunsOf
  <1>2. V # {}
    <2> DEFINE m == Max(ToSet(s))
    <2>1. ToSet(s) \in SUBSET Nat /\ ToSet(s) # {} /\ \A v \in ToSet(s) : v <= Scale
      BY RunsOf, MarksAreNaturals
    <2>2. m \in ToSet(s) /\ \A v \in ToSet(s) : v <= m
      BY <2>1, MaxFacts, GradingAssumption
    <2> HIDE DEF m
    <2>3. UpTo(m) = 1 .. Len(s)
      BY <2>2, RunsOf
    <2>4. Len(s) \in Nat /\ Cardinality(1 .. Len(s)) = Len(s)
      BY FS_Interval, RunsOf
    <2>5. Cardinality(UpTo(m)) >= k
      <3> HIDE DEF UpTo
      <3> QED BY <2>3, <2>4
    <2> QED BY <2>2, <2>5
  <1>3. Nth(s, k) \in V /\ \A v \in V : Nth(s, k) <= v
    BY <1>1, <1>2, MinFacts DEF Nth
  <1>4. Cardinality(Below) < k
    <2> DEFINE v == Nth(s, k)
               W == {w \in ToSet(s) : w < v}
               m == Max(W)
    <2>0. Cardinality(Below) \in Nat /\ IsFiniteSet(Below) /\ Below \subseteq DOMAIN s
      BY Places
    <2> HIDE DEF v
    <2> SUFFICES ASSUME Cardinality(Below) >= k PROVE FALSE
      BY <2>0
    <2>1. Below # {}
      <3>1. Cardinality({}) = 0 /\ ~(0 >= k)
        BY FS_EmptySet
      <3> QED BY <3>1
    <2>2. W \in SUBSET Nat /\ W # {} /\ \A w \in W : w <= Scale
      BY <2>1, RunsOf, MarksAreNaturals DEF v
    <2>3. m \in W /\ \A w \in W : w <= m
      BY <2>2, MaxFacts, GradingAssumption
    <2> HIDE DEF m
    <2>4. Below \subseteq UpTo(m)
      BY <2>3, RunsOf DEF v
    <2>5. UpTo(m) \in SUBSET DOMAIN s /\ IsFiniteSet(UpTo(m)) /\ Cardinality(UpTo(m)) \in Nat
      BY Places
    <2>6. Cardinality(Below) <= Cardinality(UpTo(m))
      BY <2>4, <2>5, FS_Subset
    <2>7. Cardinality(UpTo(m)) >= k
      BY <2>0, <2>5, <2>6
    <2>8. m \in V /\ m < v
      BY <2>3, <2>7
    <2>9. v <= m /\ v \in Nat /\ m \in Nat
      BY <1>1, <1>3, <2>8 DEF v
    <2> QED BY <2>8, <2>9
  <1> QED BY <1>3, <1>4

\* The median is the middle of two runs, not below half of the runs more than the one
\* and not above half of them more than the other.
LEMMA MedianFacts ==
  ASSUME NEW s \in Seq(Marks), s # <<>>
  PROVE  \E a, b \in ToSet(s) :
           /\ a <= b /\ 2 * Median(s) = a + b
           /\ 2 * Cardinality({i \in DOMAIN s : s[i] > a}) <= Len(s)
           /\ 2 * Cardinality({i \in DOMAIN s : s[i] < b}) <= Len(s)
  <1> DEFINE n == Len(s)
             UpTo(v)  == {i \in DOMAIN s : s[i] <= v}
             Above(v) == {i \in DOMAIN s : s[i] > v}
             Below(v) == {i \in DOMAIN s : s[i] < v}
  <1>0. n \in Nat \ {0}
    BY RunsOf
  <1>1. \A v \in Nat : Cardinality(Above(v)) = n - Cardinality(UpTo(v))
    <2> SUFFICES ASSUME NEW v \in Nat PROVE Cardinality(Above(v)) = n - Cardinality(UpTo(v))
      OBVIOUS
    <2>1. Above(v) \cup UpTo(v) = 1 .. n /\ Above(v) \cap UpTo(v) = {}
      BY RunsOf
    <2>2. /\ IsFiniteSet(Above(v)) /\ Cardinality(Above(v)) \in Nat
          /\ IsFiniteSet(UpTo(v)) /\ Cardinality(UpTo(v)) \in Nat
      BY Places
    <2>3. Cardinality(1 .. n) = n
      BY <1>0, FS_Interval
    <2>4. Cardinality(Above(v) \cup UpTo(v))
            = Cardinality(Above(v)) + Cardinality(UpTo(v)) - Cardinality(Above(v) \cap UpTo(v))
      BY <2>2, FS_Union
    <2>5. Cardinality(Above(v) \cap UpTo(v)) = 0
      BY <2>1, FS_EmptySet
    <2>6. Cardinality(Above(v) \cup UpTo(v)) = n
      BY <2>1, <2>3
    <2> HIDE DEF Above, UpTo, n
    <2> QED BY <1>0, <2>2, <2>4, <2>5, <2>6
  <1>2. CASE n % 2 = 1
    <2>1. PICK k \in 1 .. n : 2 * k = n + 1 /\ (n + 1) \div 2 = k
      BY <1>0, <1>2
    <2>2. Median(s) = Nth(s, k)
      BY <1>2, <2>1 DEF Median
    <2> DEFINE a == Nth(s, k)
    <2>3. a \in ToSet(s) /\ a \in Nat
      BY NthFacts, RunsOf
    <2>4. Cardinality(UpTo(a)) >= k /\ Cardinality(Below(a)) < k
      BY NthFacts
    <2>5. Cardinality(UpTo(a)) \in Nat /\ Cardinality(Below(a)) \in Nat
      BY Places
    <2> HIDE DEF a
    <2>6. 2 * Cardinality(Above(a)) <= n /\ 2 * Cardinality(Below(a)) <= n
      BY <1>0, <1>1, <2>1, <2>3, <2>4, <2>5
    <2>7. a <= a /\ 2 * Median(s) = a + a
      BY <2>2, <2>3 DEF a
    <2> QED BY <2>3, <2>6, <2>7
  <1>3. CASE n % 2 # 1
    <2>1. PICK k \in 1 .. n - 1 : 2 * k = n /\ n \div 2 = k
      BY <1>0, <1>3
    <2> DEFINE a == Nth(s, k)
               b == Nth(s, k + 1)
    <2>2. Median(s) = (a + b) \div 2
      BY <1>3, <2>1 DEF Median
    <2>0. k \in 1 .. n /\ k + 1 \in 1 .. n
      BY <1>0, <2>1
    <2>3. a \in ToSet(s) /\ b \in ToSet(s) /\ a \in Marks /\ b \in Marks
      BY <2>0, NthFacts, RunsOf
    <2>4. Cardinality(UpTo(a)) >= k /\ Cardinality(UpTo(b)) >= k + 1 /\ Cardinality(Below(b)) < k + 1
      BY <2>0, NthFacts
    <2>5. /\ Cardinality(UpTo(a)) \in Nat /\ Cardinality(UpTo(b)) \in Nat
          /\ Cardinality(Below(b)) \in Nat
      BY Places
    <2>6. a <= b
      <3>1. \A v \in ToSet(s) : Cardinality(UpTo(v)) >= k => a <= v
        BY <2>0, NthFacts
      <3>2. Cardinality(UpTo(b)) >= k
        BY <2>0, <2>4, <2>5
      <3> QED BY <2>3, <3>1, <3>2
    <2> HIDE DEF a, b
    <2>7. a \in Nat /\ Cardinality(Above(a)) = n - Cardinality(UpTo(a))
      BY <1>1, <2>3, MarksAreNaturals
    <2>8. 2 * Cardinality(Above(a)) <= n /\ 2 * Cardinality(Below(b)) <= n
      <3> HIDE DEF Above, UpTo, Below, n
      <3> QED BY <1>0, <2>1, <2>4, <2>5, <2>7
    <2>9. 2 * Median(s) = a + b
      <3>1. PICK i \in Nat, j \in Nat : a = 4 * i /\ b = 4 * j
        BY <2>3 DEF Marks
      <3> QED BY <2>2, <3>1
    <2> QED BY <2>3, <2>6, <2>8, <2>9
  <1> QED BY <1>2, <1>3

LEMMA MedianType ==
  ASSUME NEW s \in Seq(Marks), s # <<>>
  PROVE  Median(s) \in 0 .. Scale /\ \E j \in Nat : Median(s) = 2 * j
  <1>1. PICK a, b \in ToSet(s) : 2 * Median(s) = a + b
    BY MedianFacts
  <1>2. a \in Marks /\ b \in Marks
    BY RunsOf
  <1>3. Median(s) \in Int
    <2>1. Len(s) \in 1 .. Len(s) /\ Len(s) \in Nat
      BY RunsOf
    <2>2. \A k \in 1 .. Len(s) : Nth(s, k) \in Nat
      BY NthFacts, RunsOf
    <2>3. CASE Len(s) % 2 = 1
      <3>1. (Len(s) + 1) \div 2 \in 1 .. Len(s)
        BY <2>1
      <3> QED BY <2>2, <2>3, <3>1 DEF Median
    <2>4. CASE Len(s) % 2 # 1
      <3>1. Len(s) \div 2 \in 1 .. Len(s) /\ Len(s) \div 2 + 1 \in 1 .. Len(s)
        BY <2>1, <2>4
      <3>2. Nth(s, Len(s) \div 2) \in Nat /\ Nth(s, Len(s) \div 2 + 1) \in Nat
        BY <2>2, <3>1
      <3> QED BY <2>4, <3>2 DEF Median
    <2> QED BY <2>3, <2>4
  <1>4. PICK j \in Nat, k \in Nat : a = 4 * j /\ b = 4 * k
    BY <1>2 DEF Marks
  <1>5. Median(s) = 2 * (j + k) /\ j + k \in Nat
    BY <1>1, <1>3, <1>4
  <1>6. Median(s) \in 0 .. Scale
    BY <1>1, <1>2, <1>3, MarksAreNaturals, GradingAssumption
  <1> QED BY <1>5, <1>6

-----------------------------------------------------------------------------
(* What the patterns find                                                   *)

FlatStep(F, text, n) ==
  IF n = 0 THEN <<>>
  ELSE IF text[n] = "nl" THEN F[n-1] ELSE Append(F[n-1], text[n])
Flattens(F, text) == F = [n \in 0 .. Len(text) |-> FlatStep(F, text, n)]

LEMMA FlatIs ==
  ASSUME NEW text
  PROVE  FlatTo(text) = CHOOSE F : Flattens(F, text)
  BY DEF FlatTo, Flattens, FlatStep

LEMMA FlatExists ==
  ASSUME NEW text \in Seq(Tokens)
  PROVE  \E F : Flattens(F, text)
  <1> DEFINE UpTo(F, n) == /\ F = [m \in 0 .. Len(text) |-> F[m]]
                           /\ \A m \in 0 .. Len(text) : m <= n => F[m] = FlatStep(F, text, m)
             N == {n \in Nat : \E F : UpTo(F, n)}
  <1>0. Len(text) \in Nat
    OBVIOUS
  <1>1. 0 \in N
    <2>1. UpTo([m \in 0 .. Len(text) |-> <<>>], 0)
      BY DEF FlatStep
    <2> HIDE DEF UpTo
    <2> QED BY <2>1
  <1>2. ASSUME NEW n \in Nat, n \in N PROVE n + 1 \in N
    <2>1. PICK F : UpTo(F, n)
      BY <1>2
    <2> DEFINE H == [m \in 0 .. Len(text) |-> IF m <= n THEN F[m] ELSE FlatStep(F, text, m)]
    <2>2. \A m \in 0 .. Len(text) : m <= n + 1 => H[m] = FlatStep(F, text, m)
      BY <2>1
    <2>3. \A m \in 0 .. Len(text) : m <= n => H[m] = F[m]
      OBVIOUS
    <2>4. H = [m \in 0 .. Len(text) |-> H[m]]
      OBVIOUS
    <2> HIDE DEF H
    <2>5. \A m \in 0 .. Len(text) : m <= n + 1 => FlatStep(H, text, m) = FlatStep(F, text, m)
      <3> SUFFICES ASSUME NEW m \in 0 .. Len(text), m <= n + 1, m # 0
                   PROVE  H[m-1] = F[m-1]
        BY DEF FlatStep
      <3> QED BY <1>0, <2>3
    <2>6. UpTo(H, n + 1)
      BY <2>2, <2>4, <2>5
    <2> HIDE DEF UpTo
    <2> QED BY <2>6
  <1>3. Len(text) \in N
    <2> HIDE DEF N
    <2> QED BY <1>0, <1>1, <1>2, SetInduction
  <1>4. PICK F : UpTo(F, Len(text))
    BY <1>3
  <1>5. F = [m \in 0 .. Len(text) |-> FlatStep(F, text, m)]
    BY <1>4
  <1> QED BY <1>5 DEF Flattens

LEMMA FlatSteps ==
  ASSUME NEW text \in Seq(Tokens)
  PROVE  /\ FlatTo(text)[0] = <<>>
         /\ \A n \in 1 .. Len(text) :
              FlatTo(text)[n] = IF text[n] = "nl" THEN FlatTo(text)[n-1]
                                ELSE Append(FlatTo(text)[n-1], text[n])
  <1> DEFINE F == FlatTo(text)
  <1>1. Flattens(F, text)
    BY FlatIs, FlatExists
  <1> HIDE DEF F
  <1>2. \A n \in 0 .. Len(text) : F[n] = FlatStep(F, text, n)
    BY <1>1 DEF Flattens
  <1>3. Len(text) \in Nat
    OBVIOUS
  <1>4. F[0] = <<>> /\ \A n \in 1 .. Len(text) :
          F[n] = IF text[n] = "nl" THEN F[n-1] ELSE Append(F[n-1], text[n])
    BY <1>2, <1>3 DEF FlatStep
  <1> QED BY <1>4 DEF F

\* How many tokens there are in i .. j of a text, line breaks apart, and up to n.
Words(text, i, j) == {k \in i .. j : text[k] # "nl"}
Rank(text, n) == Cardinality(Words(text, 1, n))

LEMMA WordsAreFinite ==
  ASSUME NEW text, NEW i \in Int, NEW j \in Int
  PROVE  IsFiniteSet(Words(text, i, j)) /\ Cardinality(Words(text, i, j)) \in Nat
  <1>1. IsFiniteSet(i .. j) /\ Words(text, i, j) \in SUBSET (i .. j)
    BY FS_Interval DEF Words
  <1> QED BY <1>1, FS_Subset, FS_CardinalityType

\* The words up to j are those up to i and those after it.
LEMMA RankGrows ==
  ASSUME NEW text, NEW i \in Nat, NEW j \in Nat, i <= j
  PROVE  Rank(text, j) = Rank(text, i) + Cardinality(Words(text, i + 1, j))
  <1>1. /\ Words(text, 1, j) = Words(text, 1, i) \cup Words(text, i + 1, j)
        /\ Words(text, 1, i) \cap Words(text, i + 1, j) = {}
    BY DEF Words
  <1>2. /\ IsFiniteSet(Words(text, 1, i)) /\ Cardinality(Words(text, 1, i)) \in Nat
        /\ IsFiniteSet(Words(text, i + 1, j)) /\ Cardinality(Words(text, i + 1, j)) \in Nat
    BY WordsAreFinite
  <1>3. Cardinality({}) = 0
    BY FS_EmptySet
  <1> QED BY <1>1, <1>2, <1>3, FS_Union DEF Rank

LEMMA OneWord ==
  ASSUME NEW text, NEW n \in Nat
  PROVE  Cardinality(Words(text, n, n)) = IF text[n] = "nl" THEN 0 ELSE 1
  <1>1. Words(text, n, n) = IF text[n] = "nl" THEN {} ELSE {n}
    BY DEF Words
  <1> QED BY <1>1, FS_EmptySet, FS_Singleton

LEMMA RankSteps ==
  ASSUME NEW text
  PROVE  /\ Rank(text, 0) = 0
         /\ \A n \in Nat : Rank(text, n) \in Nat
         /\ \A n \in Nat \ {0} : Rank(text, n) = Rank(text, n-1) + IF text[n] = "nl" THEN 0 ELSE 1
         /\ \A i, j \in Nat : i <= j => Rank(text, i) <= Rank(text, j)
         /\ \A i, j \in Nat : i < j /\ text[j] # "nl" => Rank(text, i) < Rank(text, j)
  <1>1. Rank(text, 0) = 0
    <2>1. Words(text, 1, 0) = {}
      BY DEF Words
    <2> QED BY <2>1, FS_EmptySet DEF Rank
  <1>2. \A n \in Nat : Rank(text, n) \in Nat
    BY WordsAreFinite DEF Rank
  <1>3. \A n \in Nat \ {0} : Rank(text, n) = Rank(text, n-1) + IF text[n] = "nl" THEN 0 ELSE 1
    <2> SUFFICES ASSUME NEW n \in Nat \ {0}
                 PROVE  Rank(text, n) = Rank(text, n-1) + IF text[n] = "nl" THEN 0 ELSE 1
      OBVIOUS
    <2>1. n - 1 \in Nat /\ n - 1 <= n /\ n - 1 + 1 = n
      OBVIOUS
    <2>2. Rank(text, n) = Rank(text, n-1) + Cardinality(Words(text, n, n))
      BY <2>1, RankGrows
    <2> QED BY <2>2, OneWord
  <1>4. \A i, j \in Nat : i <= j => Rank(text, i) <= Rank(text, j)
    BY <1>2, RankGrows, WordsAreFinite
  <1>5. \A i, j \in Nat : i < j /\ text[j] # "nl" => Rank(text, i) < Rank(text, j)
    <2> SUFFICES ASSUME NEW i \in Nat, NEW j \in Nat, i < j, text[j] # "nl"
                 PROVE  Rank(text, i) < Rank(text, j)
      OBVIOUS
    <2>1. j - 1 \in Nat /\ i <= j - 1 /\ j \in Nat \ {0}
      OBVIOUS
    <2>2. Rank(text, i) <= Rank(text, j-1) /\ Rank(text, j) = Rank(text, j-1) + 1
      BY <1>3, <1>4, <2>1
    <2> QED BY <1>2, <2>1, <2>2
  <1> QED BY <1>1, <1>2, <1>3, <1>4, <1>5

\* A text without line breaks has its words in their order.
LEMMA FlatWords ==
  ASSUME NEW text \in Seq(Tokens)
  PROVE  /\ DOMAIN Flat(text) = 1 .. Rank(text, Len(text))
         /\ \A i \in DOMAIN text : text[i] # "nl" =>
              Rank(text, i) \in DOMAIN Flat(text) /\ Flat(text)[Rank(text, i)] = text[i]
         /\ \A m \in DOMAIN Flat(text) : \E i \in DOMAIN text :
              text[i] # "nl" /\ Rank(text, i) = m
  <1> DEFINE F == FlatTo(text)
             R == [n \in Nat |-> Rank(text, n)]
             Right(n) == /\ F[n] \in Seq(Tokens) /\ Len(F[n]) = R[n]
                         /\ \A i \in 1 .. n : text[i] # "nl" => F[n][R[i]] = text[i]
                         /\ \A m \in 1 .. R[n] : \E i \in 1 .. n : text[i] # "nl" /\ R[i] = m
             N == {n \in Nat : n <= Len(text) => Right(n)}
  <1>0. Len(text) \in Nat /\ DOMAIN text = 1 .. Len(text) /\ \A i \in 1 .. Len(text) : text[i] \in Tokens
    OBVIOUS
  <1>1. /\ F[0] = <<>>
        /\ \A n \in 1 .. Len(text) :
              F[n] = IF text[n] = "nl" THEN F[n-1] ELSE Append(F[n-1], text[n])
    BY FlatSteps
  <1>2. /\ R[0] = 0 /\ \A n \in Nat : R[n] \in Nat
        /\ \A n \in Nat \ {0} : R[n] = R[n-1] + IF text[n] = "nl" THEN 0 ELSE 1
        /\ \A i, j \in Nat : i <= j => R[i] <= R[j]
        /\ \A i, j \in Nat : i < j /\ text[j] # "nl" => R[i] < R[j]
    BY RankSteps
  <1> HIDE DEF F, R
  <1>3. 0 \in N
    <2>1. F[0] \in Seq(Tokens) /\ Len(F[0]) = R[0]
      BY <1>1, <1>2
    <2>2. 1 .. 0 = {} /\ 1 .. R[0] = {}
      BY <1>2
    <2>3. Right(0)
      BY <2>1, <2>2
    <2> QED BY <2>3
  <1>4. ASSUME NEW n \in Nat, n \in N PROVE n + 1 \in N
    <2> SUFFICES ASSUME n + 1 <= Len(text) PROVE Right(n + 1)
      OBVIOUS
    <2>0. n + 1 \in 1 .. Len(text) /\ n + 1 - 1 = n /\ n + 1 \in Nat \ {0}
      BY <1>0
    <2>5. /\ F[n+1] = IF text[n+1] = "nl" THEN F[n] ELSE Append(F[n], text[n+1])
          /\ R[n+1] = R[n] + IF text[n+1] = "nl" THEN 0 ELSE 1
          /\ R[n] \in Nat /\ R[n+1] \in Nat
      BY <1>1, <1>2, <2>0
    <2>1. Right(n)
      BY <1>0, <1>4
    <2>2. CASE text[n+1] = "nl"
      <3>1. F[n+1] = F[n] /\ R[n+1] = R[n]
        BY <2>2, <2>5
      <3> QED BY <2>1, <2>2, <3>1
    <2>3. CASE text[n+1] # "nl"
      <3>1. F[n+1] = Append(F[n], text[n+1]) /\ R[n+1] = R[n] + 1
        BY <2>3, <2>5
      <3>2. F[n+1] \in Seq(Tokens) /\ Len(F[n+1]) = R[n+1]
        BY <1>0, <2>0, <2>1, <3>1
      <3>3. \A i \in 1 .. n : text[i] # "nl" => R[i] \in 1 .. R[n]
        <4> SUFFICES ASSUME NEW i \in 1 .. n, text[i] # "nl" PROVE R[i] \in 1 .. R[n]
          OBVIOUS
        <4>1. R[0] < R[i] /\ R[i] <= R[n] /\ R[i] \in Nat /\ R[n] \in Nat
          BY <1>2
        <4> QED BY <1>2, <4>1
      <3>4. \A m \in 1 .. R[n] : F[n+1][m] = F[n][m]
        BY <1>0, <2>0, <2>1, <3>1
      <3>5. F[n+1][R[n+1]] = text[n+1]
        BY <1>0, <2>0, <2>1, <2>5, <3>1
      <3>6. \A i \in 1 .. n + 1 : text[i] # "nl" => F[n+1][R[i]] = text[i]
        <4> SUFFICES ASSUME NEW i \in 1 .. n + 1, text[i] # "nl" PROVE F[n+1][R[i]] = text[i]
          OBVIOUS
        <4>1. CASE i = n + 1
          BY <3>5, <4>1
        <4>2. CASE i # n + 1
          <5>1. i \in 1 .. n
            BY <4>2
          <5>2. F[n][R[i]] = text[i] /\ R[i] \in 1 .. R[n]
            BY <2>1, <3>3, <5>1
          <5> QED BY <3>4, <5>2
        <4> QED BY <4>1, <4>2
      <3>7. \A m \in 1 .. R[n+1] : \E i \in 1 .. n + 1 : text[i] # "nl" /\ R[i] = m
        <4> SUFFICES ASSUME NEW m \in 1 .. R[n+1]
                     PROVE  \E i \in 1 .. n + 1 : text[i] # "nl" /\ R[i] = m
          OBVIOUS
        <4>1. CASE m = R[n+1]
          BY <2>3, <4>1
        <4>2. CASE m # R[n+1]
          <5>1. m \in 1 .. R[n]
            BY <1>2, <3>1, <4>2
          <5> QED BY <2>1, <5>1
        <4> QED BY <4>1, <4>2
      <3> QED BY <3>2, <3>6, <3>7
    <2> QED BY <2>2, <2>3
  <1>5. Len(text) \in N
    <2> HIDE DEF N
    <2> QED BY <1>0, <1>3, <1>4, SetInduction
  <1>6. Right(Len(text))
    BY <1>5
  <1>7. Flat(text) = F[Len(text)]
    BY DEF Flat, F
  <1>8. DOMAIN Flat(text) = 1 .. R[Len(text)]
    BY <1>6, <1>7
  <1>9. \A i \in DOMAIN text : text[i] # "nl" => R[i] \in 1 .. R[Len(text)]
    <2> SUFFICES ASSUME NEW i \in 1 .. Len(text), text[i] # "nl" PROVE R[i] \in 1 .. R[Len(text)]
      BY <1>0
    <2>1. R[0] < R[i] /\ R[i] <= R[Len(text)] /\ R[i] \in Nat /\ R[Len(text)] \in Nat
      BY <1>0, <1>2
    <2> QED BY <1>2, <2>1
  <1>10. \A n \in Nat : R[n] = Rank(text, n)
    BY DEF R
  <1>11. \A i \in DOMAIN text : i \in Nat /\ Rank(text, i) = R[i]
    BY <1>0, <1>10
  <1>12. \A i \in DOMAIN text : text[i] # "nl" =>
           Rank(text, i) \in DOMAIN Flat(text) /\ Flat(text)[Rank(text, i)] = text[i]
    <2> SUFFICES ASSUME NEW i \in DOMAIN text, text[i] # "nl"
                 PROVE  R[i] \in DOMAIN Flat(text) /\ F[Len(text)][R[i]] = text[i]
      BY <1>7, <1>11
    <2> QED BY <1>0, <1>6, <1>8, <1>9
  <1>13. \A m \in DOMAIN Flat(text) : \E i \in DOMAIN text :
           text[i] # "nl" /\ Rank(text, i) = m
    <2> SUFFICES ASSUME NEW m \in 1 .. R[Len(text)]
                 PROVE  \E i \in DOMAIN text : text[i] # "nl" /\ R[i] = m
      BY <1>8, <1>11
    <2> QED BY <1>0, <1>6
  <1>14. DOMAIN Flat(text) = 1 .. Rank(text, Len(text))
    BY <1>0, <1>8, <1>10
  <1> HIDE DEF Right
  <1> QED BY <1>12, <1>13, <1>14


\* The search finds what is suspicious, and nothing else.
LEMMA SuspiciousIsFound ==
  ASSUME NEW t \in Seq(Tokens)
  PROVE  Suspicious(t) <=> Found(t) # {}
  <1> DEFINE s == Flat(t)
             R == [n \in Nat |-> Rank(t, n)]
  <1>0. Len(t) \in Nat /\ DOMAIN t = 1 .. Len(t)
    OBVIOUS
  <1>1. /\ DOMAIN s = 1 .. R[Len(t)]
        /\ \A i \in DOMAIN t : t[i] # "nl" => R[i] \in DOMAIN s /\ s[R[i]] = t[i]
        /\ \A m \in DOMAIN s : \E i \in DOMAIN t : t[i] # "nl" /\ R[i] = m
    <2>1. \A i \in DOMAIN t : R[i] = Rank(t, i)
      BY <1>0
    <2>2. R[Len(t)] = Rank(t, Len(t))
      BY <1>0
    <2> HIDE DEF R
    <2> QED BY <2>1, <2>2, FlatWords
  <1>2. /\ \A n \in Nat : R[n] \in Nat
        /\ \A i, j \in Nat : i <= j => R[i] <= R[j]
        /\ \A i, j \in Nat : i < j /\ t[j] # "nl" => R[i] < R[j]
    <2>1. \A n \in Nat : R[n] = Rank(t, n)
      OBVIOUS
    <2> HIDE DEF R
    <2> QED BY <2>1, RankSteps
  \* The words between two.
  <1>3. \A i, j \in DOMAIN t : i < j /\ t[j] # "nl" =>
          Cardinality({k \in i + 1 .. j - 1 : t[k] # "nl"}) = R[j] - R[i] - 1
    <2> SUFFICES ASSUME NEW i \in DOMAIN t, NEW j \in DOMAIN t, i < j, t[j] # "nl"
                 PROVE  Cardinality(Words(t, i + 1, j - 1)) = R[j] - R[i] - 1
      BY DEF Words
    <2>1. i \in Nat /\ j - 1 \in Nat /\ i <= j - 1 /\ j \in Nat \ {0}
      BY <1>0
    <2>2. Rank(t, j - 1) = Rank(t, i) + Cardinality(Words(t, i + 1, j - 1))
      BY <2>1, RankGrows
    <2>3. Rank(t, j) = Rank(t, j - 1) + 1
      BY <2>1, RankSteps
    <2>4. Rank(t, i) \in Nat /\ Rank(t, j) \in Nat /\ Rank(t, j - 1) \in Nat
      BY <2>1, RankSteps
    <2>5. Cardinality(Words(t, i + 1, j - 1)) \in Nat
      BY <2>1, WordsAreFinite
    <2>6. R[i] = Rank(t, i) /\ R[j] = Rank(t, j)
      BY <2>1
    <2> HIDE DEF R
    <2> QED BY <2>2, <2>3, <2>4, <2>5, <2>6
  <1> DEFINE Seen(i, j) == /\ i < j /\ t[i] = "verb" /\ t[j] = "object"
                           /\ \A k \in i .. j : t[k] # "role"
                           /\ Cardinality({k \in i + 1 .. j - 1 : t[k] # "nl"}) <= 2
             Met(p, q) == /\ p < q /\ q <= p + 3
                          /\ s[p] = "verb" /\ s[q] = "object"
                          /\ \A k \in p .. q : s[k] # "role"
  <1> HIDE DEF s, R
  <1>4. ASSUME NEW i \in DOMAIN t, NEW j \in DOMAIN t, Seen(i, j)
        PROVE  R[i] \in DOMAIN s /\ R[j] \in DOMAIN s /\ Met(R[i], R[j])
    <2>1. i \in Nat /\ j \in Nat /\ t[i] # "nl" /\ t[j] # "nl"
      BY <1>0, <1>4
    <2>2. R[i] \in Nat /\ R[j] \in Nat /\ R[i] < R[j]
      BY <1>2, <1>4, <2>1
    <2>3. R[j] <= R[i] + 3
      BY <1>3, <1>4, <2>1, <2>2
    <2>4. /\ R[i] \in DOMAIN s /\ R[j] \in DOMAIN s
          /\ s[R[i]] = "verb" /\ s[R[j]] = "object"
      BY <1>1, <1>4, <2>1
    <2>5. ASSUME NEW m \in R[i] .. R[j], s[m] = "role" PROVE FALSE
      <3>1. m \in DOMAIN s
        BY <1>0, <1>1, <1>2, <2>2, <2>4
      <3>2. PICK k \in DOMAIN t : t[k] # "nl" /\ R[k] = m
        BY <1>1, <3>1
      <3>3. t[k] = "role" /\ k \in Nat
        BY <1>0, <1>1, <2>5, <3>2
      <3>4. ~(k < i)
        BY <1>2, <2>1, <2>2, <3>2, <3>3
      <3>5. ~(j < k)
        BY <1>2, <2>1, <2>2, <3>2, <3>3
      <3>6. k \in i .. j
        BY <2>1, <3>3, <3>4, <3>5
      <3> QED BY <1>4, <3>3, <3>6
    <2> QED BY <2>2, <2>3, <2>4, <2>5
  <1>5. ASSUME NEW p \in DOMAIN s, NEW q \in DOMAIN s, Met(p, q)
        PROVE  \E i, j \in DOMAIN t : Seen(i, j)
    <2>1. PICK i \in DOMAIN t : t[i] # "nl" /\ R[i] = p
      BY <1>1
    <2>2. PICK j \in DOMAIN t : t[j] # "nl" /\ R[j] = q
      BY <1>1
    <2>3. t[i] = "verb" /\ t[j] = "object"
      BY <1>1, <1>5, <2>1, <2>2
    <2>4. i \in Nat /\ j \in Nat /\ p \in Nat /\ q \in Nat
      BY <1>0, <1>2, <2>1, <2>2
    <2>5. i < j
      <3> SUFFICES ASSUME j <= i PROVE FALSE
        BY <2>4
      <3>1. R[j] <= R[i]
        BY <1>2, <2>4
      <3> QED BY <1>5, <2>1, <2>2, <2>4, <3>1
    <2>6. Cardinality({k \in i + 1 .. j - 1 : t[k] # "nl"}) <= 2
      BY <1>3, <1>5, <2>1, <2>2, <2>4, <2>5
    <2>7. ASSUME NEW k \in i .. j, t[k] = "role" PROVE FALSE
      <3>1. k \in DOMAIN t /\ k \in Nat
        BY <1>0, <2>4
      <3>2. R[i] <= R[k] /\ R[k] <= R[j] /\ R[k] \in Nat
        BY <1>2, <2>4, <3>1
      <3>3. s[R[k]] = "role" /\ R[k] \in p .. q
        BY <1>1, <2>1, <2>2, <2>4, <2>7, <3>1, <3>2
      <3> QED BY <1>5, <3>3
    <2>8. Seen(i, j)
      BY <2>3, <2>5, <2>6, <2>7
    <2> HIDE DEF Seen
    <2> QED BY <2>8
  <1>6. Directs(t) <=> \E p, q \in DOMAIN s : Met(p, q)
    BY DEF Directs, s
  <1>7. Suspicious(t) <=> \/ \E i, j \in DOMAIN t : Seen(i, j)
                          \/ Plays(t)
    <2> DEFINE Opens == \E i \in DOMAIN t :
                 t[i] = "role" /\ (\A k \in 1 .. i - 1 : k = i - 1 => t[k] = "nl")
    <2>1. Opens <=> Plays(t)
      <3>1. \A i \in DOMAIN t :
              (\A k \in 1 .. i - 1 : k = i - 1 => t[k] = "nl") <=> (i = 1 \/ t[i-1] = "nl")
        BY <1>0
      <3> QED BY <3>1 DEF Plays
    <2>2. Suspicious(t) <=> (\E i, j \in DOMAIN t : Seen(i, j)) \/ Opens
      BY DEF Suspicious
    <2> HIDE DEF Seen, Opens
    <2> QED BY <2>1, <2>2
  <1> HIDE DEF Seen, Met
  <1>8. Suspicious(t) <=> Directs(t) \/ Plays(t)
    BY <1>4, <1>5, <1>6, <1>7
  <1>9. Found(t) # {} <=> Directs(t) \/ Plays(t)
    BY DEF Found, Kinds
  <1> QED BY <1>8, <1>9

-----------------------------------------------------------------------------
(* What a reply is read for                                                 *)

\* No two concepts of a question are called the same.
Distinct(q) == \A c, d \in ToSet(q) : KeyOf[c] = KeyOf[d] => c = d

\* A concept that one entry names is covered as that entry says, wherever it stands.
LEMMA NamedOnce ==
  ASSUME NEW q \in Questions, NEW r \in Replies, NEW c \in ToSet(q),
         Cardinality(Naming(r, c)) = 1, NEW i \in Naming(r, c)
  PROVE  Align(q, r)[c] = r[i].covered
  <1>1. Naming(r, c) \subseteq DOMAIN r /\ IsFiniteSet(DOMAIN r)
    <2>1. DOMAIN r = 1 .. Len(r) /\ Len(r) \in Int
      BY RepliesAre
    <2> QED BY <2>1, NamingFacts, FS_Interval
  <1>2. IsFiniteSet(Naming(r, c))
    BY <1>1, FS_Subset
  <1>3. PICK x : Naming(r, c) = {x}
    BY <1>2, FS_Singleton
  <1>4. Min(Naming(r, c)) = i
    BY <1>3, NamingFacts
  <1> QED BY <1>3, <1>4 DEF Align

\* A reply of another length than the question is worth no more than its entries about
\* what was asked.
LEMMA UnaskedIsWorthNothing ==
  ASSUME NEW q \in Questions, NEW r \in Replies, Distinct(q), Len(r) # Len(q)
  PROVE  Sum(Align(q, r), ToSet(q))
           <= Sum([i \in DOMAIN r |-> r[i].covered],
                  {i \in DOMAIN r : \E c \in ToSet(q) : i \in Naming(r, c)})
  <1> DEFINE C == ToSet(q)
             cov == Align(q, r)
             g == [i \in DOMAIN r |-> r[i].covered]
             Asked(T) == {i \in DOMAIN r : \E c \in T : i \in Naming(r, c)}
             P == {T \in SUBSET C : Sum(cov, T) <= Sum(g, Asked(T))}
  <1>0. /\ IsFiniteSet(C) /\ IsFiniteSet(DOMAIN r)
        /\ \A c \in C : cov[c] \in Nat
        /\ \A i \in DOMAIN r : g[i] \in Nat
    <2>1. DOMAIN r = 1 .. Len(r) /\ Len(r) \in Int /\ \A i \in DOMAIN r : g[i] \in Nat
      BY RepliesAre, GradingAssumption
    <2>2. IsFiniteSet(DOMAIN r)
      <3>1. DOMAIN r = 1 .. Len(r) /\ Len(r) \in Int
        BY RepliesAre
      <3> QED BY <3>1, FS_Interval
    <2>3. \A c \in C : cov[c] \in Nat
      <3>1. cov \in [C -> 0 .. Full] /\ Full \in Nat
        BY AlignType, GradingAssumption
      <3> HIDE DEF cov, C
      <3> QED BY <3>1
    <2> QED BY <2>1, <2>2, <2>3, ConceptsOf
  <1>1. \A T \in SUBSET C : /\ IsFiniteSet(T) /\ Sum(cov, T) \in Nat
                            /\ Asked(T) \in SUBSET DOMAIN r /\ IsFiniteSet(Asked(T))
                            /\ Sum(g, Asked(T)) \in Nat
    <2> SUFFICES ASSUME NEW T \in SUBSET C
                 PROVE  /\ IsFiniteSet(T) /\ Sum(cov, T) \in Nat
                        /\ Asked(T) \in SUBSET DOMAIN r /\ IsFiniteSet(Asked(T))
                        /\ Sum(g, Asked(T)) \in Nat
      OBVIOUS
    <2>1. IsFiniteSet(T) /\ Asked(T) \in SUBSET DOMAIN r
      BY <1>0, FS_Subset
    <2> HIDE DEF cov, g, Asked, C
    <2>2. IsFiniteSet(Asked(T))
      BY <1>0, <2>1, FS_Subset
    <2>3. (\A x \in T : cov[x] \in Nat) /\ (\A x \in Asked(T) : g[x] \in Nat)
      BY <1>0, <2>1
    <2> QED BY <2>1, <2>2, <2>3, SumType
  <1>2. {} \in P
    <2>1. Asked({}) = {}
      OBVIOUS
    <2>2. Sum(cov, {}) = 0 /\ Sum(g, {}) = 0
      BY SumEmpty
    <2> HIDE DEF Asked, cov, g
    <2> QED BY <2>1, <2>2
  <1>3. ASSUME NEW T \in SUBSET C, T # {}, \A x \in T : T \ {x} \in P
        PROVE  T \in P
    <2>1. PICK x \in T : TRUE
      BY <1>3
    <2> DEFINE U == T \ {x}
    <2>2. U \in SUBSET C /\ Sum(cov, U) <= Sum(g, Asked(U))
      BY <1>3, <2>1
    <2>3. Asked(U) \subseteq Asked(T)
      OBVIOUS
    <2>4. Naming(r, x) \subseteq Asked(T)
      BY <2>1, NamingFacts
    <2>5. Naming(r, x) \cap Asked(U) = {}
      <3> SUFFICES ASSUME NEW i \in Naming(r, x), NEW c \in U, i \in Naming(r, c) PROVE FALSE
        OBVIOUS
      <3>1. KeyOf[c] = KeyOf[x] /\ c \in C /\ x \in C /\ c # x
        BY <2>1 DEF Naming
      <3> QED BY <3>1 DEF Distinct
    <2>6. Naming(r, x) = {} => cov[x] = 0
      BY <2>1 DEF Align, SameLength
    <2>7. Naming(r, x) # {} =>
            Min(Naming(r, x)) \in Naming(r, x) /\ cov[x] = g[Min(Naming(r, x))]
      BY <2>1, NamingFacts DEF Align
    <2>8. Sum(cov, T) = cov[x] + Sum(cov, U)
      <3>1. IsFiniteSet(T) /\ x \in T /\ \A y \in T : cov[y] \in Nat
        BY <1>0, <1>1, <2>1
      <3> HIDE DEF cov, C
      <3> QED BY <3>1, SumFrom
    <2>9. cov[x] + Sum(g, Asked(U)) <= Sum(g, Asked(T))
      <3>1. /\ Asked(T) \in SUBSET DOMAIN r /\ IsFiniteSet(Asked(T))
            /\ Sum(g, Asked(T)) \in Nat /\ Sum(g, Asked(U)) \in Nat
            /\ cov[x] \in Nat /\ \A y \in Asked(T) : g[y] \in Nat
        BY <1>0, <1>1, <2>1, <2>2
      <3> HIDE DEF cov, g, Asked, U
      <3>2. CASE Naming(r, x) = {}
        <4>1. Sum(g, Asked(U)) <= Sum(g, Asked(T))
          BY <2>3, <3>1, SumOfPart
        <4> QED BY <2>6, <3>1, <3>2, <4>1
      <3>3. CASE Naming(r, x) # {}
        <4> DEFINE m == Min(Naming(r, x))
        <4>1. m \in Asked(T) /\ m \notin Asked(U) /\ cov[x] = g[m]
          BY <2>4, <2>5, <2>7, <3>3
        <4> HIDE DEF m
        <4> DEFINE B == Asked(T) \ {m}
        <4>2. Sum(g, Asked(T)) = g[m] + Sum(g, B)
          BY <3>1, <4>1, SumFrom
        <4>3. Asked(U) \subseteq B /\ IsFiniteSet(B) /\ \A y \in B : g[y] \in Nat
          BY <2>3, <3>1, <4>1, FS_Subset
        <4> HIDE DEF B
        <4>4. Sum(g, Asked(U)) <= Sum(g, B) /\ Sum(g, B) \in Nat
          BY <4>3, SumOfPart, SumType
        <4> QED BY <3>1, <4>1, <4>2, <4>4
      <3> QED BY <3>2, <3>3
    <2>10. Sum(cov, T) <= Sum(g, Asked(T))
      <3>1. cov[x] \in Nat /\ Sum(cov, U) \in Nat /\ Sum(g, Asked(U)) \in Nat
            /\ Sum(g, Asked(T)) \in Nat
        BY <1>0, <1>1, <2>1, <2>2
      <3> HIDE DEF cov, g, Asked, U
      <3> QED BY <2>2, <2>8, <2>9, <3>1
    <2> QED BY <2>10
  <1>4. C \in P
    <2> HIDE DEF P
    <2> QED BY <1>0, <1>2, <1>3, PartsInduction
  <1> QED BY <1>4

LEMMA ReplyIsRead ==
  ASSUME question \in Questions, reply \in Replies,
         reply # <<>> => coverage = Align(question, reply)
  PROVE  AnyOrderWillDo /\ UnaskedEarnsNothing
  <1>1. AnyOrderWillDo
    <2> SUFFICES ASSUME reply # <<>>,
                        \A c \in ToSet(question) : Cardinality(Naming(reply, c)) = 1,
                        NEW i \in DOMAIN reply, NEW c \in ToSet(question),
                        KeyOf[reply[i].concept] = KeyOf[c]
                 PROVE  coverage[c] = reply[i].covered
      BY DEF AnyOrderWillDo
    <2>1. i \in Naming(reply, c)
      BY DEF Naming
    <2> QED BY <2>1, NamedOnce
  <1>2. UnaskedEarnsNothing
    <2> SUFFICES ASSUME reply # <<>>, DistinctKeys, Len(reply) # Len(question)
                 PROVE  FoldFunction(LAMBDA a, b : a + b, 0, coverage)
                          <= Sum([i \in DOMAIN reply |-> reply[i].covered],
                                 {i \in DOMAIN reply : \E c \in ToSet(question) : i \in Naming(reply, c)})
      BY DEF UnaskedEarnsNothing, Sum
    <2>1. coverage = Align(question, reply) /\ DOMAIN coverage = ToSet(question)
      BY DEF Align
    <2>2. FoldFunction(LAMBDA a, b : a + b, 0, coverage) = Sum(coverage, ToSet(question))
      BY <2>1 DEF FoldFunction, Sum
    <2>3. Distinct(question)
      BY DEF Distinct, DistinctKeys
    <2> QED BY <2>1, <2>2, <2>3, UnaskedIsWorthNothing
  <1> QED BY <1>1, <1>2

-----------------------------------------------------------------------------
(* What the runs settle                                                     *)

LEMMA Widen ==
  ASSUME NEW x \in Int, NEW y \in Int, NEW k \in Nat, x <= y
  PROVE  x * k <= y * k
  OBVIOUS

\* The grade is the exact middle of the median and the embedding's score.
LEMMA Middle ==
  ASSUME NEW s \in Seq(Marks), s # <<>>, NEW det \in Marks
  PROVE  /\ Reconcile(s, det).final \in 0 .. Scale
         /\ 2 * Reconcile(s, det).final = Median(s) + det
  <1>1. PICK j \in Nat : Median(s) = 2 * j
    BY MedianType
  <1>2. PICK k \in Nat : det = 4 * k
    BY DEF Marks
  <1>3. Reconcile(s, det).final = j + 2 * k
    BY <1>1, <1>2 DEF Reconcile
  <1>4. Median(s) \in 0 .. Scale /\ det \in 0 .. Scale /\ Scale \in Nat
    BY MedianType, GradingAssumption DEF Marks
  <1> QED BY <1>1, <1>2, <1>3, <1>4

LEMMA ReconcileType ==
  ASSUME NEW s \in Seq(Marks), s # <<>>, Len(s) <= Reruns + 1, NEW det \in Marks
  PROVE  Reconcile(s, det) \in [final : 0 .. Scale, confidence : {40, 75, 90},
                                review : BOOLEAN, runs : 0 .. Reruns + 1]
  <1>1. Reconcile(s, det).final \in 0 .. Scale
    BY Middle
  <1>2. Len(s) \in 0 .. Reruns + 1
    BY RunsOf, GradingAssumption
  <1>3. Reconcile(s, det).final = (Median(s) + det) \div 2
    BY DEF Reconcile
  <1>4. Diverged(s, det) \in BOOLEAN
    BY DEF Diverged
  <1> QED BY <1>1, <1>2, <1>3, <1>4 DEF Reconcile

\* A median that is not too far leaves at most half of the runs too far, on each side.
LEMMA MedianAnchors ==
  ASSUME NEW s \in Seq(Marks), s # <<>>, NEW det \in Marks, ~Diverged(s, det)
  PROVE  /\ 2 * Cardinality({i \in DOMAIN s : (s[i] - det) * Of > Near * Scale}) <= Len(s)
         /\ 2 * Cardinality({i \in DOMAIN s : (det - s[i]) * Of > Near * Scale}) <= Len(s)
         /\ 2 * Distance(Reconcile(s, det).final, det) * Of <= Near * Scale
  <1> DEFINE high == {i \in DOMAIN s : (s[i] - det) * Of > Near * Scale}
             low  == {i \in DOMAIN s : (det - s[i]) * Of > Near * Scale}
             far  == Near * Scale
             med  == Median(s)
             fin  == Reconcile(s, det).final
  <1>1. PICK a, b \in ToSet(s) :
          /\ a <= b /\ 2 * med = a + b
          /\ 2 * Cardinality({i \in DOMAIN s : s[i] > a}) <= Len(s)
          /\ 2 * Cardinality({i \in DOMAIN s : s[i] < b}) <= Len(s)
    BY MedianFacts
  <1>2. a \in Nat /\ b \in Nat /\ med \in Nat /\ det \in Nat /\ Of \in Nat /\ far \in Nat
    <2>1. \A v \in ToSet(s) : v \in Nat
      BY RunsOf
    <2>2. Near * Scale \in Nat
      BY GradingAssumption
    <2> QED BY <2>1, <2>2, MedianType, MarksAreNaturals, GradingAssumption
  <1>3. Distance(med, det) * Of <= far
    <2>1. Distance(med, det) \in Nat
      BY <1>2 DEF Distance
    <2>2. Distance(med, det) * Of \in Nat
      BY <1>2, <2>1
    <2>3. ~(Distance(med, det) * Of > far)
      BY DEF Diverged
    <2> HIDE DEF med, far
    <2> QED BY <1>2, <2>2, <2>3
  <1>4. 2 * fin = med + det /\ fin \in Nat
    BY Middle, GradingAssumption
  <1> HIDE DEF far, med, fin
  <1>5. a <= med /\ med <= b
    BY <1>1, <1>2
  <1>6. (med - det) * Of <= far /\ (det - med) * Of <= far
    <2>1. med - det <= Distance(med, det) /\ det - med <= Distance(med, det)
          /\ Distance(med, det) \in Int
      BY <1>2 DEF Distance
    <2>2. med - det \in Int /\ det - med \in Int
      BY <1>2
    <2> DEFINE x == med - det
               y == det - med
               z == Distance(med, det)
    <2> HIDE DEF x, y, z
    <2>3. x \in Int /\ y \in Int /\ z \in Int /\ x <= z /\ y <= z /\ z * Of <= far
      BY <1>3, <2>1, <2>2 DEF x, y, z
    <2>4. x * Of <= z * Of /\ y * Of <= z * Of
      BY <1>2, <2>3, Widen
    <2>5. x * Of \in Int /\ y * Of \in Int /\ z * Of \in Int
      BY <1>2, <2>3
    <2>6. x * Of <= far /\ y * Of <= far
      BY <1>2, <2>3, <2>4, <2>5
    <2> QED BY <2>6 DEF x, y
  \* Too far above is above the median.
  <1>7. \A v \in Nat : (v - det) * Of > far => v > a
    <2> SUFFICES ASSUME NEW v \in Nat, v <= a PROVE (v - det) * Of <= far
      BY <1>2
    <2> DEFINE x == v - det
               y == med - det
    <2>1. x \in Int /\ y \in Int /\ x <= y /\ y * Of <= far
      BY <1>2, <1>5, <1>6
    <2> HIDE DEF x, y
    <2>2. x * Of <= y * Of /\ x * Of \in Int /\ y * Of \in Int
      BY <1>2, <2>1, Widen
    <2>3. x * Of <= far
      BY <1>2, <2>1, <2>2
    <2> QED BY <2>3 DEF x
  <1>8. \A v \in Nat : (det - v) * Of > far => v < b
    <2> SUFFICES ASSUME NEW v \in Nat, v >= b PROVE (det - v) * Of <= far
      BY <1>2
    <2> DEFINE x == det - v
               y == det - med
    <2>1. x \in Int /\ y \in Int /\ x <= y /\ y * Of <= far
      BY <1>2, <1>5, <1>6
    <2> HIDE DEF x, y
    <2>2. x * Of <= y * Of /\ x * Of \in Int /\ y * Of \in Int
      BY <1>2, <2>1, Widen
    <2>3. x * Of <= far
      BY <1>2, <2>1, <2>2
    <2> QED BY <2>3 DEF x
  <1>9. 2 * Cardinality(high) <= Len(s) /\ 2 * Cardinality(low) <= Len(s)
    <2> DEFINE above == {i \in DOMAIN s : s[i] > a}
               below == {i \in DOMAIN s : s[i] < b}
    <2>1. high \subseteq above /\ low \subseteq below
      BY <1>7, <1>8, RunsOf DEF far
    <2>2. /\ IsFiniteSet(above) /\ Cardinality(above) \in Nat
          /\ IsFiniteSet(below) /\ Cardinality(below) \in Nat
          /\ Cardinality(high) \in Nat /\ Cardinality(low) \in Nat
      BY Places
    <2>3. 2 * Cardinality(above) <= Len(s) /\ 2 * Cardinality(below) <= Len(s) /\ Len(s) \in Nat
      BY <1>1, RunsOf
    <2> HIDE DEF above, below, high, low
    <2>4. Cardinality(high) <= Cardinality(above) /\ Cardinality(low) <= Cardinality(below)
      BY <2>1, <2>2, FS_Subset
    <2> QED BY <2>2, <2>3, <2>4
  <1>10. 2 * Distance(fin, det) * Of <= far
    <2>1. 2 * Distance(fin, det) = Distance(med, det)
      BY <1>2, <1>4 DEF Distance
    <2> QED BY <1>3, <2>1
  <1> QED BY <1>9, <1>10 DEF far, fin

\* Runs that are all close have a median that is close, the threshold included.
LEMMA CloseRunsAgree ==
  ASSUME NEW s \in Seq(Marks), s # <<>>, NEW det \in Marks,
         \A i \in DOMAIN s : Within(s[i], det)
  PROVE  ~Diverged(s, det)
  <1> DEFINE far == Near * Scale
             med == Median(s)
  <1>1. PICK a, b \in ToSet(s) : a <= b /\ 2 * med = a + b
    BY MedianFacts
  <1>2. a \in Nat /\ b \in Nat /\ med \in Nat /\ det \in Nat /\ Of \in Nat /\ far \in Nat
    <2>1. \A v \in ToSet(s) : v \in Nat
      BY RunsOf
    <2>2. Near * Scale \in Nat
      BY GradingAssumption
    <2> QED BY <2>1, <2>2, MedianType, MarksAreNaturals, GradingAssumption
  <1>3. Within(a, det) /\ Within(b, det)
    <2>1. \A v \in ToSet(s) : \E i \in DOMAIN s : v = s[i]
      BY DEF ToSet
    <2> QED BY <2>1
  <1>4. Distance(a, det) * Of <= far /\ Distance(b, det) * Of <= far
    BY <1>3 DEF Within
  <1> HIDE DEF med, far
  <1>5. Distance(med, det) <= Distance(a, det) \/ Distance(med, det) <= Distance(b, det)
    BY <1>1, <1>2 DEF Distance
  <1>6. /\ Distance(med, det) \in Int /\ Distance(a, det) \in Int /\ Distance(b, det) \in Int
    BY <1>2 DEF Distance
  <1> DEFINE x == Distance(med, det)
             y == Distance(a, det)
             z == Distance(b, det)
  <1> HIDE DEF x, y, z
  <1>7. x \in Int /\ y \in Int /\ z \in Int /\ y * Of <= far /\ z * Of <= far
        /\ (x <= y \/ x <= z)
    BY <1>4, <1>5, <1>6 DEF x, y, z
  <1>8. x * Of \in Int /\ y * Of \in Int /\ z * Of \in Int
    BY <1>2, <1>7
  <1>9. x * Of <= y * Of \/ x * Of <= z * Of
    BY <1>2, <1>7, Widen
  <1>10. ~(x * Of > far)
    BY <1>2, <1>7, <1>8, <1>9
  <1> QED BY <1>10 DEF x, med, far, Diverged

-----------------------------------------------------------------------------
(* The inductive invariant                                                  *)

\* The grade the runs of an attempt come to.
Conclusion(s, det, found) ==
  IF found = {} THEN Reconcile(s, det)
  ELSE [Reconcile(s, det) EXCEPT !.review = TRUE, !.confidence = Min({@, 40})]

Unaided == [final |-> Deterministic, confidence |-> 0, review |-> TRUE, runs |-> 0]

\* Every run is a mark; the coverage is the reply's; the kinds found are those of every
\* text the attempt has read; a fault leaves no reply behind; and the grade is what the
\* runs and those kinds come to.
GradingIInv ==
  /\ TypeOK
  /\ runs \in Seq(Marks)
  /\ reply # <<>> => coverage = Align(question, reply)
  /\ injection = UNION {Found(t) : t \in heard}
  /\ phase = "new" => runs = <<>>
  /\ phase = "rerun" => runs # <<>> /\ More(runs)
  /\ phase = "raised" => reply = <<>>
  /\ phase = "graded" =>
       grade = IF runs = <<>> THEN Unaided ELSE Conclusion(runs, Deterministic, injection)

LEMMA DeterministicIsMark ==
  ASSUME question \in Questions, answer \in [text : Texts, near : 0 .. Len(question)]
  PROVE  Deterministic \in Marks
  <1>1. Len(question) \in 1 .. Len(question) /\ Len(question) \in Nat \ {0}
    BY ConceptsOf
  <1>2. answer.near \in 0 .. Len(question) /\ Scale % (4 * Len(question)) = 0
    BY <1>1, ScaleFits
  <1> QED BY <1>1, <1>2, MeanIsMark DEF Deterministic

LEMMA Sooner == \A c \in {40, 75, 90} : Min({c, 40}) = 40
  <1> SUFFICES ASSUME NEW c \in {40, 75, 90} PROVE Min({c, 40}) = 40
    OBVIOUS
  <1>1. Min({c, 40}) \in {c, 40} /\ \A k \in {c, 40} : Min({c, 40}) <= k
    <2>1. {c, 40} \in SUBSET Nat /\ {c, 40} # {}
      OBVIOUS
    <2> QED BY <2>1, MinFacts
  <1> QED BY <1>1

LEMMA ConclusionType ==
  ASSUME NEW s \in Seq(Marks), s # <<>>, Len(s) <= Reruns + 1, NEW det \in Marks, NEW found
  PROVE  Conclusion(s, det, found) \in [final : 0 .. Scale, confidence : {0, 40, 75, 90},
                                        review : BOOLEAN, runs : 0 .. Reruns + 1]
  <1> DEFINE R == Reconcile(s, det)
  <1>1. R \in [final : 0 .. Scale, confidence : {40, 75, 90}, review : BOOLEAN, runs : 0 .. Reruns + 1]
    BY ReconcileType
  <1> HIDE DEF R
  <1>2. Conclusion(s, det, found) = R \/ Conclusion(s, det, found) = [R EXCEPT !.review = TRUE, !.confidence = 40]
    BY <1>1, Sooner DEF Conclusion, R
  <1>3. R \in [final : 0 .. Scale, confidence : {0, 40, 75, 90}, review : BOOLEAN, runs : 0 .. Reruns + 1]
    BY <1>1
  <1>4. [R EXCEPT !.review = TRUE, !.confidence = 40]
          \in [final : 0 .. Scale, confidence : {0, 40, 75, 90}, review : BOOLEAN, runs : 0 .. Reruns + 1]
    BY <1>1
  <1> QED BY <1>2, <1>3, <1>4

LEMMA ConclusionSays ==
  ASSUME NEW s \in Seq(Marks), s # <<>>, NEW det, NEW found
  PROVE  /\ Conclusion(s, det, found).final = Reconcile(s, det).final
         /\ found = {} => Conclusion(s, det, found).review = Diverged(s, det)
         /\ found # {} => /\ Conclusion(s, det, found).review = TRUE
                          /\ Conclusion(s, det, found).confidence = 40
  <1> DEFINE c == IF Diverged(s, det) THEN 40 ELSE IF Len(s) = 1 THEN 90 ELSE 75
             f == (Median(s) + det) \div 2
             n == Len(s)
             d == Diverged(s, det)
             R == Reconcile(s, det)
  <1>1. R = [final |-> f, confidence |-> c, review |-> d, runs |-> n]
    BY DEF Reconcile
  <1>2. Min({c, 40}) = 40
    BY Sooner
  <1>3. d \in BOOLEAN
    BY DEF Diverged
  <1> HIDE DEF c, f, n, d, R
  <1>4. R \in [final : {f}, confidence : {c}, review : BOOLEAN, runs : {n}] /\ R.review = d
    BY <1>1, <1>3
  <1>5. /\ [R EXCEPT !.review = TRUE, !.confidence = 40].final = R.final
        /\ [R EXCEPT !.review = TRUE, !.confidence = 40].review = TRUE
        /\ [R EXCEPT !.review = TRUE, !.confidence = 40].confidence = 40
    BY <1>4
  <1>6. Min({R.confidence, 40}) = 40
    BY <1>2, <1>4
  <1>7. /\ found = {} => Conclusion(s, det, found) = R
        /\ found # {} =>
             Conclusion(s, det, found) = [R EXCEPT !.review = TRUE, !.confidence = Min({R.confidence, 40})]
    BY <1>4 DEF Conclusion, R
  <1>8. found # {} => Conclusion(s, det, found) = [R EXCEPT !.review = TRUE, !.confidence = 40]
    BY <1>6, <1>7
  <1> QED BY <1>4, <1>5, <1>7, <1>8 DEF R, d

LEMMA Concluded ==
  ASSUME NEW s, NEW found, Conclude(s, found)
  PROVE  phase' = "graded" /\ grade' = Conclusion(s, Deterministic, found)
  BY DEF Conclude, Conclusion

LEMMA FoundSoFar ==
  ASSUME NEW said, Echoes(said), injection = UNION {Found(t) : t \in heard}
  PROVE  injection' = UNION {Found(t) : t \in heard'}
  BY DEF Echoes

LEMMA TextsAre == \A t \in Texts \cup Evidences : t \in Seq(Tokens)
  BY GradingAssumption

LEMMA KindsFound == \A t : Found(t) \subseteq Kinds
  BY DEF Found

LEMMA ScoresAreMarks ==
  ASSUME question \in Questions, NEW score \in Scores[question]
  PROVE  score \in Marks
  BY WorthIsMark DEF Scores

LEMMA MarksType ==
  ASSUME NEW s \in Seq(Marks)
  PROVE  ToSet(s) \subseteq 0 .. Scale
  BY RunsOf DEF Marks

LEMMA EmptyIsAReply == <<>> \in Replies
  <1>1. 0 \in 0 .. MaxReply
    BY GradingAssumption
  <1>2. <<>> \in [1 .. 0 -> Entries]
    OBVIOUS
  <1> QED BY <1>1, <1>2 DEF Replies

LEMMA GradingStarts == Init => GradingIInv
  <1> SUFFICES ASSUME Init PROVE GradingIInv
    OBVIOUS
  <1>1. runs \in Seq(Marks) /\ Len(runs) = 0
    BY DEF Init
  <1>2. injection = UNION {Found(t) : t \in heard}
    BY DEF Init
  <1>3. grade \in [final : 0 .. Scale, confidence : {0, 40, 75, 90}, review : BOOLEAN,
                   runs : 0 .. Reruns + 1]
    BY GradingAssumption DEF Init, NoGrade
  <1>4. heard \subseteq Texts \cup Evidences /\ injection \subseteq Kinds
    BY KindsFound DEF Init
  <1>5. TypeOK
    <2>1. Len(runs) <= Reruns + 1 /\ ToSet(runs) \subseteq 0 .. Scale
      <3>1. Reruns \in Nat
        BY GradingAssumption
      <3>2. Len(runs) <= Reruns + 1
        BY <1>1, <3>1
      <3>3. ToSet(runs) \subseteq 0 .. Scale
        BY <1>1, MarksType
      <3> QED BY <3>2, <3>3
    <2> QED BY <1>3, <1>4, <2>1, EmptyIsAReply DEF Init, TypeOK
  <1> QED BY <1>1, <1>2, <1>5 DEF Init, GradingIInv

LEMMA GradingKeeps == GradingIInv /\ [Next]_vars => GradingIInv'
  <1> SUFFICES ASSUME GradingIInv, [Next]_vars PROVE GradingIInv'
    OBVIOUS
  <1> USE DEF GradingIInv
  <1> DEFINE GradeType == [final : 0 .. Scale, confidence : {0, 40, 75, 90}, review : BOOLEAN,
                           runs : 0 .. Reruns + 1]
  <1>1. Deterministic \in Marks
    BY DeterministicIsMark DEF TypeOK
  <1>2. UNCHANGED <<question, answer>> =>
          Deterministic' = Deterministic /\ Unaided' = Unaided
    BY DEF Deterministic, Unaided
  <1>3. \A s \in Seq(Marks) : \A found :
          s # <<>> /\ Len(s) <= Reruns + 1 => Conclusion(s, Deterministic, found) \in GradeType
    BY <1>1, ConclusionType
  <1>4. question \in Questions /\ Reruns \in Nat
    BY GradingAssumption DEF TypeOK
  <1>5. CASE vars' = vars
    BY <1>2, <1>5 DEF vars, TypeOK
  <1>6. ASSUME NEW r \in Replies, NEW said \in Evidences, First(r, said) PROVE GradingIInv'
    <2>1. LlmScore(Align(question, r)) \in Marks
      BY <1>4, WorthIsMark
    <2>2. runs' \in Seq(Marks) /\ runs' # <<>> /\ Len(runs') = 1
      BY <1>6, <2>1 DEF First
    <2>3. injection' = UNION {Found(t) : t \in heard'} /\ injection' \subseteq Kinds
      BY <1>6, FoundSoFar, KindsFound DEF First, Echoes, TypeOK
    <2>4. coverage' = Align(question', reply') /\ reply' \in Replies
          /\ coverage' \in [ToSet(question') -> 0 .. Full]
      BY <1>4, <1>6, AlignType DEF First
    <2>5. heard' \subseteq Texts \cup Evidences
      BY <1>6 DEF First, Echoes, TypeOK
    <2>6. UNCHANGED <<question, answer>>
      BY <1>6 DEF First
    <2>7. \/ phase' = "rerun" /\ More(runs') /\ grade' = grade
          \/ phase' = "graded" /\ grade' = Conclusion(runs', Deterministic, injection')
      BY <1>6, Concluded DEF First
    <2>8. grade' \in GradeType
      <3>1. 1 <= Reruns + 1
        BY <1>4
      <3>2. Conclusion(runs', Deterministic, injection') \in GradeType
        BY <1>3, <2>2, <3>1
      <3> QED BY <2>7, <3>2 DEF TypeOK
    <2>9. TypeOK'
      BY <1>4, <2>2, <2>3, <2>4, <2>5, <2>6, <2>7, <2>8, MarksType DEF TypeOK
    <2> QED BY <1>2, <2>2, <2>3, <2>4, <2>6, <2>7, <2>9
  <1>7. ASSUME NEW score \in Scores[question], NEW said \in Evidences, Rerun(score, said)
        PROVE  GradingIInv'
    <2>1. score \in Marks
      BY <1>4, ScoresAreMarks
    <2>2. runs' \in Seq(Marks) /\ runs' # <<>> /\ Len(runs') <= Reruns + 1
      BY <1>4, <1>7, <2>1 DEF Rerun, More
    <2>3. injection' = UNION {Found(t) : t \in heard'} /\ injection' \subseteq Kinds
      BY <1>7, FoundSoFar, KindsFound DEF Rerun, Echoes, TypeOK
    <2>4. reply' = <<>> /\ reply' \in Replies
      BY <1>7, EmptyIsAReply DEF Rerun
    <2>5. heard' \subseteq Texts \cup Evidences
      BY <1>7 DEF Rerun, Echoes, TypeOK
    <2>6. UNCHANGED <<question, answer, coverage>>
      BY <1>7 DEF Rerun
    <2>7. \/ phase' = "rerun" /\ More(runs') /\ grade' = grade
          \/ phase' = "graded" /\ grade' = Conclusion(runs', Deterministic, injection')
      BY <1>7, Concluded DEF Rerun
    <2>8. grade' \in GradeType
      BY <1>3, <2>2, <2>7 DEF TypeOK
    <2>9. TypeOK'
      BY <2>2, <2>3, <2>4, <2>5, <2>6, <2>7, <2>8, MarksType DEF TypeOK
    <2> QED BY <1>2, <2>2, <2>3, <2>4, <2>6, <2>7, <2>9
  <1>8. CASE FirstUnusable
    <2>1. Unaided \in GradeType
      <3>1. Deterministic \in 0 .. Scale /\ 0 \in 0 .. Reruns + 1
        BY <1>1, <1>4 DEF Marks
      <3> QED BY <3>1 DEF Unaided
    <2>2. /\ phase' = "graded" /\ grade' = Unaided /\ runs = <<>>
          /\ UNCHANGED <<question, answer, reply, coverage, runs, injection, heard>>
      BY <1>8 DEF FirstUnusable, Unaided
    <2>3. TypeOK'
      BY <2>1, <2>2 DEF TypeOK
    <2> QED BY <1>2, <2>2, <2>3
  <1>9. CASE RerunUnusable
    <2>1. /\ phase' = "graded" /\ grade' = Conclusion(runs, Deterministic, injection) /\ runs # <<>>
          /\ UNCHANGED <<question, answer, reply, coverage, runs, injection, heard>>
      BY <1>9, Concluded DEF RerunUnusable
    <2>2. grade' \in GradeType
      BY <1>3, <2>1 DEF TypeOK
    <2>3. TypeOK'
      BY <2>1, <2>2 DEF TypeOK
    <2> QED BY <1>2, <2>1, <2>3
  <1>10. CASE Raises
    <2>1. TypeOK'
      BY <1>10, EmptyIsAReply DEF Raises, TypeOK
    <2> QED BY <1>10, <2>1 DEF Raises
  <1>11. CASE Again
    <2>1. heard' \subseteq Texts \cup Evidences /\ injection' \subseteq Kinds
      BY <1>11, KindsFound DEF Again, TypeOK
    <2>2. runs' = <<>> /\ runs' \in Seq(Marks) /\ Len(runs') = 0
      BY <1>11 DEF Again
    <2>3. reply' # <<>> => FALSE
      BY <1>11 DEF Again
    <2>4. Len(runs') <= Reruns + 1
      BY <1>4, <2>2
    <2>5. ToSet(runs') \subseteq 0 .. Scale
      BY <2>2, MarksType
    <2>6. TypeOK'
      BY <1>11, <2>1, <2>4, <2>5 DEF Again, TypeOK
    <2> QED BY <1>11, <2>2, <2>3, <2>6 DEF Again
  <1> QED BY <1>5, <1>6, <1>7, <1>8, <1>9, <1>10, <1>11 DEF Next

-----------------------------------------------------------------------------
(* Theorems                                                                 *)

LEMMA InvHolds == Spec => []GradingIInv
  BY GradingStarts, GradingKeeps, PTL DEF Spec

\* A grading keeps its types, and a reply is read for what it says of the concepts that
\* were asked for, in any order, and for nothing else (align_coverage).
THEOREM RepliesAreRead == Spec => []GradingInv
  <1>1. GradingIInv => GradingInv
    <2> SUFFICES ASSUME GradingIInv PROVE GradingInv
      OBVIOUS
    <2>1. question \in Questions /\ reply \in Replies
          /\ (reply # <<>> => coverage = Align(question, reply))
      BY DEF GradingIInv, TypeOK
    <2>2. TypeOK
      BY DEF GradingIInv
    <2> QED BY <2>1, <2>2, ReplyIsRead DEF GradingInv
  <1> QED BY <1>1, InvHolds, PTL

LEMMA GradedFacts ==
  ASSUME GradingIInv, phase = "graded"
  PROVE  /\ Deterministic \in Marks
         /\ runs = <<>> => grade = Unaided
         /\ runs # <<>> =>
              /\ runs \in Seq(Marks) /\ Len(runs) <= Reruns + 1
              /\ grade = Conclusion(runs, Deterministic, injection)
              /\ grade.final = Reconcile(runs, Deterministic).final
              /\ injection = {} => grade.review = Diverged(runs, Deterministic)
              /\ injection # {} => grade.review = TRUE /\ grade.confidence = 40
  <1>1. Deterministic \in Marks
    BY DeterministicIsMark DEF GradingIInv, TypeOK
  <1>2. runs \in Seq(Marks) /\ Len(runs) <= Reruns + 1
    BY DEF GradingIInv, TypeOK
  <1>3. /\ runs = <<>> => grade = Unaided
        /\ runs # <<>> => grade = Conclusion(runs, Deterministic, injection)
    BY DEF GradingIInv
  <1>4. ASSUME runs # <<>>
        PROVE  /\ grade.final = Reconcile(runs, Deterministic).final
               /\ injection = {} => grade.review = Diverged(runs, Deterministic)
               /\ injection # {} => grade.review = TRUE /\ grade.confidence = 40
    <2> DEFINE det == Deterministic
               C == Conclusion(runs, det, injection)
    <2>1. grade = C
      BY <1>3, <1>4
    <2>2. det \in Marks
      BY <1>1
    <2> HIDE DEF det
    <2>3. /\ C.final = Reconcile(runs, det).final
          /\ injection = {} => C.review = Diverged(runs, det)
          /\ injection # {} => C.review = TRUE /\ C.confidence = 40
      BY <1>2, <1>4, ConclusionSays
    <2> HIDE DEF C
    <2> QED BY <2>1, <2>3 DEF det
  <1> QED BY <1>1, <1>2, <1>3, <1>4

\* A grade that no human looks at is anchored to the embedding's score: at least half of
\* the runs are not too far above it, at least half not too far below it, and the grade has
\* moved at most half of the threshold, whatever runs came (grade, reconcile).
THEOREM TrustAnchored == Spec => []TrustIsAnchored
  <1>1. GradingIInv => TrustIsAnchored
    <2> SUFFICES ASSUME GradingIInv, phase = "graded", ~grade.review PROVE TrustIsAnchored
      BY DEF TrustIsAnchored
    <2> DEFINE det == Deterministic
    <2>1. runs # <<>>
      BY GradedFacts DEF Unaided
    <2>2. /\ runs \in Seq(Marks) /\ det \in Marks
          /\ grade.final = Reconcile(runs, det).final /\ ~Diverged(runs, det)
      BY <2>1, GradedFacts
    <2>3. /\ 2 * Cardinality({i \in DOMAIN runs : (runs[i] - det) * Of > Near * Scale}) <= Len(runs)
          /\ 2 * Cardinality({i \in DOMAIN runs : (det - runs[i]) * Of > Near * Scale}) <= Len(runs)
          /\ 2 * Distance(grade.final, det) * Of <= Near * Scale
      <3> HIDE DEF det
      <3> QED BY <2>1, <2>2, MedianAnchors
    <2> QED BY <2>1, <2>3 DEF TrustIsAnchored
  <1> QED BY <1>1, InvHolds, PTL

LEMMA HeardIsSearched ==
  ASSUME GradingIInv
  PROVE  (\E t \in heard : Suspicious(t)) <=> injection # {}
  <1>1. \A t \in heard : Suspicious(t) <=> Found(t) # {}
    BY TextsAre, SuspiciousIsFound DEF GradingIInv, TypeOK
  <1>2. injection = UNION {Found(t) : t \in heard}
    BY DEF GradingIInv
  <1> QED BY <1>1, <1>2

\* A grade is not trusted when the answer, or anything the model said in the attempt, tries
\* to instruct the grader (grade, detect_injection).
THEOREM InjectionsAreReviewed == Spec => []NoTrustAfterInjection
  <1>1. GradingIInv => NoTrustAfterInjection
    <2> SUFFICES ASSUME GradingIInv, phase = "graded", \E t \in heard : Suspicious(t)
                 PROVE  grade.review /\ grade.confidence <= 40
      BY DEF NoTrustAfterInjection
    <2>1. injection # {}
      BY HeardIsSearched
    <2>2. CASE runs = <<>>
      <3>1. grade = Unaided
        BY <2>2, GradedFacts
      <3>2. Unaided.review = TRUE /\ Unaided.confidence = 0
        BY DEF Unaided
      <3> QED BY <3>1, <3>2
    <2>3. CASE runs # <<>>
      <3>1. grade.review = TRUE /\ grade.confidence = 40
        BY <2>1, <2>3, GradedFacts
      <3> QED BY <3>1
    <2> QED BY <2>2, <2>3
  <1> QED BY <1>1, InvHolds, PTL

\* A human is not asked without a cause: when the model answered, nothing read was
\* suspicious and every run is within the threshold, the grade is trusted (reconcile).
THEOREM ReviewsHaveACause == Spec => []NoNeedlessReview
  <1>1. GradingIInv => NoNeedlessReview
    <2> SUFFICES ASSUME GradingIInv, phase = "graded", runs # <<>>,
                        ~(\E t \in heard : Suspicious(t)),
                        \A i \in DOMAIN runs : Within(runs[i], Deterministic)
                 PROVE  ~grade.review
      BY DEF NoNeedlessReview
    <2>1. injection = {}
      BY HeardIsSearched
    <2>2. runs \in Seq(Marks) /\ Deterministic \in Marks
          /\ grade.review = Diverged(runs, Deterministic)
      BY <2>1, GradedFacts
    <2> DEFINE det == Deterministic
    <2>3. ~Diverged(runs, det)
      <3> HIDE DEF det
      <3>1. det \in Marks /\ \A i \in DOMAIN runs : Within(runs[i], det)
        BY <2>2 DEF det
      <3> QED BY <2>2, <3>1, CloseRunsAgree
    <2> QED BY <2>2, <2>3
  <1> QED BY <1>1, InvHolds, PTL

\* The recalibration sweep reproduces, at the threshold in use, every grade the model took
\* part in, and the reviews no injection caused (sweep_coverage_threshold).
THEOREM SweepAgrees == Spec => []SweepKeepsTheGrade
  <1>1. GradingIInv => SweepKeepsTheGrade
    <2> SUFFICES ASSUME GradingIInv, phase = "graded", runs # <<>>
                 PROVE  /\ Resweep(runs, answer.near).final = grade.final
                        /\ injection = {} => Resweep(runs, answer.near).review = grade.review
      BY DEF SweepKeepsTheGrade
    <2>1. Resweep(runs, answer.near) = Reconcile(runs, Deterministic)
      BY DEF Resweep, Deterministic
    <2>2. Reconcile(runs, Deterministic).review = Diverged(runs, Deterministic)
      BY DEF Reconcile
    <2> QED BY <2>1, <2>2, GradedFacts
  <1> QED BY <1>1, InvHolds, PTL

=============================================================================
