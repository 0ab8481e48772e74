---------------------------- MODULE CollectionLemmas ----------------------------
(***************************************************************************)
(* Lemmas about the numbers and collections that the models are made of:   *)
(* quotients and products, least and greatest numbers of a set, sequences  *)
(* that are written out, the elements of a sequence at some places         *)
(* (SubSequences), and SumFunctionOnSet(w, S), the sum of w[x] for the     *)
(* elements x of a finite set S.                                           *)
(*                                                                         *)
(* The induction theorems cannot be used for these, so what holds for      *)
(* every set is shown with least counterexamples, for which there are      *)
(* theorems about well-founded relations.                                  *)
(***************************************************************************)
EXTENDS SubSequences, FiniteSetsExt, FiniteSetTheorems, SequenceTheorems, TLAPS

-----------------------------------------------------------------------------
(***************************************************************************)
(* Numbers.                                                                *)
(***************************************************************************)

LEMMA QuotientBounds ==
  ASSUME NEW a \in Nat, NEW b \in Nat \ {0}
  PROVE  /\ a \div b \in Nat
         /\ b * (a \div b) <= a /\ a < b * (a \div b) + b
OBVIOUS

LEMMA Products ==
  ASSUME NEW a \in Nat, NEW b \in Nat, NEW c \in Nat, b <= c
  PROVE  a * b \in Nat /\ a * c \in Nat /\ a * b <= a * c
OBVIOUS

-----------------------------------------------------------------------------
(***************************************************************************)
(* Sets.                                                                   *)
(***************************************************************************)

\* A set of finite sets has a member of which no proper subset is a member.
LEMMA LeastSet ==
  ASSUME NEW S, IsFiniteSet(S), NEW Bad, Bad \subseteq SUBSET S, Bad # {}
  PROVE  \E T \in Bad : \A U \in SUBSET T : U # T => U \notin Bad
<1>1. IsWellFoundedOn(StrictSubsetOrdering(S), SUBSET S)
  BY FS_StrictSubsetOrderingWellFounded, FS_FiniteSubsetsOfFinite
<1>2. PICK T \in Bad : \A U \in Bad : ~(<<U, T>> \in StrictSubsetOrdering(S))
  BY <1>1, WFMin
<1>3. QED
  BY <1>2 DEF StrictSubsetOrdering

LEMMA WithoutOne ==
  ASSUME NEW T, IsFiniteSet(T), NEW x \in T
  PROVE  /\ T \ {x} \in SUBSET T /\ T \ {x} # T /\ IsFiniteSet(T \ {x})
         /\ Cardinality(T \ {x}) \in Nat /\ Cardinality(T) \in Nat
         /\ Cardinality(T) = Cardinality(T \ {x}) + 1
<1>1. IsFiniteSet(T \ {x}) /\ Cardinality(T \ {x}) = Cardinality(T) - 1
  BY FS_RemoveElement
<1>2. Cardinality(T \ {x}) \in Nat /\ Cardinality(T) \in Nat
  BY <1>1, FS_CardinalityType
<1>3. QED
  BY <1>1, <1>2

LEMMA OneMore ==
  ASSUME NEW T, IsFiniteSet(T), NEW x, x \notin T
  PROVE  IsFiniteSet(T \cup {x}) /\ Cardinality(T \cup {x}) = Cardinality(T) + 1
BY FS_AddElement

LEMMA FourMore ==
  ASSUME NEW T, IsFiniteSet(T), NEW x1, NEW x2, NEW x3, NEW x4,
         x1 \notin T, x2 \notin T, x3 \notin T, x4 \notin T,
         x1 # x2, x1 # x3, x1 # x4, x2 # x3, x2 # x4, x3 # x4
  PROVE  /\ IsFiniteSet(T \cup {x1, x2, x3, x4})
         /\ Cardinality(T \cup {x1, x2, x3, x4}) = Cardinality(T) + 4
<1>1. PICK T1, T2, T3, T4 : /\ T1 = T \cup {x1} /\ T2 = T1 \cup {x2}
                            /\ T3 = T2 \cup {x3} /\ T4 = T3 \cup {x4}
  OBVIOUS
<1>2. x2 \notin T1 /\ x3 \notin T2 /\ x4 \notin T3 /\ T4 = T \cup {x1, x2, x3, x4}
  BY <1>1
<1>3. PICK c \in Nat : c = Cardinality(T)
  BY FS_CardinalityType
<1>4. IsFiniteSet(T1) /\ Cardinality(T1) = Cardinality(T) + 1
  BY <1>1, OneMore
<1>5. IsFiniteSet(T2) /\ Cardinality(T2) = Cardinality(T1) + 1
  BY ONLY <1>1, <1>2, <1>4, OneMore
<1>6. IsFiniteSet(T3) /\ Cardinality(T3) = Cardinality(T2) + 1
  BY ONLY <1>1, <1>2, <1>5, OneMore
<1>7. IsFiniteSet(T4) /\ Cardinality(T4) = Cardinality(T3) + 1
  BY ONLY <1>1, <1>2, <1>6, OneMore
<1>8. Cardinality(T4) = (((c + 1) + 1) + 1) + 1
  BY ONLY <1>3, <1>4, <1>5, <1>6, <1>7, Zenon
<1>9. (((c + 1) + 1) + 1) + 1 = c + 4
  OBVIOUS
<1>10. QED
  BY <1>2, <1>3, <1>7, <1>8, <1>9, Zenon

LEMMA FourElements ==
  ASSUME NEW x1, NEW x2, NEW x3, NEW x4, x1 # x2, x1 # x3, x1 # x4, x2 # x3, x2 # x4, x3 # x4
  PROVE  IsFiniteSet({x1, x2, x3, x4}) /\ Cardinality({x1, x2, x3, x4}) = 4
<1>1. PICK T : T = {}
  OBVIOUS
<1>2. /\ IsFiniteSet(T) /\ Cardinality(T) = 0
      /\ x1 \notin T /\ x2 \notin T /\ x3 \notin T /\ x4 \notin T
      /\ {x1, x2, x3, x4} = T \cup {x1, x2, x3, x4}
  BY <1>1, FS_EmptySet
<1>3. /\ IsFiniteSet(T \cup {x1, x2, x3, x4})
      /\ Cardinality(T \cup {x1, x2, x3, x4}) = Cardinality(T) + 4
  BY <1>2, FourMore
<1>4. 0 + 4 = 4
  OBVIOUS
<1>5. QED
  BY <1>2, <1>3, <1>4, Zenon

-----------------------------------------------------------------------------
(***************************************************************************)
(* Least and greatest numbers.                                             *)
(***************************************************************************)

LEMMA LeastNumber ==
  ASSUME NEW I \in SUBSET Nat, I # {}
  PROVE  \E i \in I : \A j \in I : i <= j
<1>1. PICK m \in I : TRUE
  OBVIOUS
<1> DEFINE Bad == {0..i : i \in {j \in I : j <= m}}
<1>2. Bad \subseteq SUBSET (0..m) /\ Bad # {} /\ IsFiniteSet(0..m)
  <2>1. m \in Nat /\ \A j \in I : j \in Nat
    OBVIOUS
  <2>2. 0..m \in Bad
    BY <2>1
  <2>3. ASSUME NEW j \in I, j <= m
        PROVE  0..j \subseteq 0..m
    BY <2>1, <2>3
  <2>4. IsFiniteSet(0..m)
    BY <2>1, FS_Interval
  <2>5. QED
    BY <2>2, <2>3, <2>4
<1>3. PICK T \in Bad : \A U \in SUBSET T : U # T => U \notin Bad
  <2> HIDE DEF Bad
  <2>1. QED
    BY <1>2, LeastSet
<1>4. PICK i \in I : i <= m /\ T = 0..i
  OBVIOUS
<1>5. ASSUME NEW j \in I, j < i
      PROVE  FALSE
  <2>1. 0..j \in Bad
    BY <1>4, <1>5
  <2>2. 0..j \in SUBSET T /\ i \in T /\ i \notin 0..j
    BY <1>4, <1>5
  <2>3. QED
    BY <1>3, <2>1, <2>2
<1>6. QED
  BY <1>5

LEMMA GreatestNumber ==
  ASSUME NEW I \in SUBSET Nat, I # {}, NEW m \in Nat, \A i \in I : i <= m
  PROVE  \E i \in I : \A j \in I : j <= i
<1> DEFINE D == {m - i : i \in I}
<1>1. D \in SUBSET Nat /\ D # {}
  <2>1. \A i \in I : i \in Nat /\ i <= m
    OBVIOUS
  <2>2. \A i \in I : m - i \in Nat
    BY <2>1
  <2>3. QED
    BY <2>2
<1>2. PICK d \in D : \A e \in D : d <= e
  BY <1>1, LeastNumber
<1>3. PICK i \in I : d = m - i
  OBVIOUS
<1>4. ASSUME NEW j \in I
      PROVE  j <= i
  <2>1. m - i <= m - j
    BY <1>2, <1>3
  <2>2. QED
    BY <2>1
<1>5. QED
  BY <1>4

LEMMA MaxIsGreatest ==
  ASSUME NEW N \in SUBSET Nat, NEW l \in N, \A n \in N : l >= n
  PROVE  Max(N) = l
<1>1. Max(N) = CHOOSE x \in N : \A y \in N : x >= y
  BY DEF Max
<1>2. PICK m : m = CHOOSE x \in N : \A y \in N : x >= y
  OBVIOUS
<1>3. m \in N /\ \A y \in N : m >= y
  BY <1>2
<1>4. QED
  BY <1>1, <1>2, <1>3

LEMMA MinIsLeast ==
  ASSUME NEW N \in SUBSET Nat, NEW l \in N, \A n \in N : l <= n
  PROVE  Min(N) = l
<1>1. Min(N) = CHOOSE x \in N : \A y \in N : x <= y
  BY DEF Min
<1>2. PICK m : m = CHOOSE x \in N : \A y \in N : x <= y
  OBVIOUS
<1>3. m \in N /\ \A y \in N : m <= y
  BY <1>2
<1>4. QED
  BY <1>1, <1>2, <1>3

-----------------------------------------------------------------------------
(***************************************************************************)
(* Sequences that are written out.                                         *)
(***************************************************************************)

LEMMA Tuples ==
  ASSUME NEW S, NEW a \in S, NEW b \in S, NEW c \in S, NEW d \in S
  PROVE  /\ <<a>> \in Seq(S) /\ Len(<<a>>) = 1
         /\ <<a, b>> \in Seq(S) /\ Len(<<a, b>>) = 2
         /\ <<a, b, c>> \in Seq(S) /\ Len(<<a, b, c>>) = 3
         /\ <<a, b, c, d>> \in Seq(S) /\ Len(<<a, b, c, d>>) = 4
OBVIOUS

LEMMA SeqOfLength ==
  ASSUME NEW S, NEW n \in Nat, NEW f \in [1..n -> S]
  PROVE  f \in Seq(S) /\ Len(f) = n
OBVIOUS

-----------------------------------------------------------------------------
(***************************************************************************)
(* The elements of a sequence at some places.                              *)
(***************************************************************************)

\* How many numbers of I there are up to i.
RankIn(I, i) == Cardinality({k \in I : k <= i})

\* A finite set of numbers has a greatest one: the one below which are most of them.
LEMMA GreatestOfFinite ==
  ASSUME NEW I \in SUBSET Nat, I # {}, IsFiniteSet(I)
  PROVE  \E i \in I : \A j \in I : i >= j
<1> DEFINE Below(i) == {k \in I : k <= i}
<1> DEFINE C == {Cardinality(Below(i)) : i \in I}
<1>1. \A i \in I : IsFiniteSet(Below(i)) /\ Cardinality(Below(i)) \in Nat
                   /\ Cardinality(Below(i)) <= Cardinality(I)
  <2> SUFFICES ASSUME NEW i \in I
               PROVE  IsFiniteSet(Below(i)) /\ Cardinality(Below(i)) \in Nat
                        /\ Cardinality(Below(i)) <= Cardinality(I)
    OBVIOUS
  <2>1. Below(i) \subseteq I
    OBVIOUS
  <2>2. QED
    BY <2>1, FS_Subset, FS_CardinalityType
<1>2. \E m \in C : \A c \in C : c <= m
  <2>1. C \in SUBSET Nat /\ C # {} /\ \A c \in C : c <= Cardinality(I)
    BY <1>1
  <2>2. Cardinality(I) \in Nat
    BY FS_CardinalityType
  <2> HIDE DEF C
  <2>3. QED
    BY <2>1, <2>2, GreatestNumber
<1>3. PICK i \in I : \A j \in I : Cardinality(Below(j)) <= Cardinality(Below(i))
  BY <1>2
<1>4. ASSUME NEW j \in I, j > i
      PROVE  FALSE
  <2>1. i \in Nat /\ j \in Nat /\ \A k \in I : k \in Nat
    OBVIOUS
  <2>2. Below(i) \subseteq Below(j) /\ j \in Below(j) /\ j \notin Below(i)
    <3>1. \A k \in I : k <= i => k <= j
      BY <1>4, <2>1
    <3>2. j <= j /\ ~(j <= i)
      BY <1>4, <2>1
    <3>3. QED
      BY <3>1, <3>2
  <2>3. IsFiniteSet(Below(j)) /\ Cardinality(Below(j)) \in Nat /\ Cardinality(Below(i)) \in Nat
    BY <1>1
  <2>4. Cardinality(Below(j)) <= Cardinality(Below(i))
    BY <1>3
  <2> HIDE DEF Below
  <2>5. Below(i) = Below(j)
    BY <2>2, <2>3, <2>4, FS_Subset
  <2>6. QED
    BY <2>2, <2>5
<1>5. QED
  <2>1. i \in Nat /\ \A j \in I : j \in Nat
    OBVIOUS
  <2>2. QED
    BY <1>4, <2>1

LEMMA RankType ==
  ASSUME NEW I \in SUBSET Nat, IsFiniteSet(I), NEW i \in I
  PROVE  RankIn(I, i) \in 1..Cardinality(I) /\ Cardinality(I) \in Nat
<1> DEFINE J == {k \in I : k <= i}
<1>1. J \in SUBSET I /\ i \in J
  OBVIOUS
<1>2. IsFiniteSet(J) /\ Cardinality(J) <= Cardinality(I)
  BY <1>1, FS_Subset
<1>3. Cardinality(J) \in Nat /\ Cardinality(I) \in Nat
  BY <1>2, FS_CardinalityType
<1>4. Cardinality(J) # 0
  BY <1>1, <1>2, FS_EmptySet
<1>5. QED
  BY <1>2, <1>3, <1>4 DEF RankIn

LEMMA RankGrows ==
  ASSUME NEW I \in SUBSET Nat, IsFiniteSet(I), NEW i \in I, NEW j \in I, i < j
  PROVE  RankIn(I, i) < RankIn(I, j)
<1> DEFINE A == {k \in I : k <= i}
           B == {k \in I : k <= j}
<1>1. B \in SUBSET I /\ A \in SUBSET B /\ A # B
  <2>1. \A k \in I : k \in Nat
    OBVIOUS
  <2>2. B \in SUBSET I /\ j \in B /\ j \notin A
    BY <2>1
  <2>3. \A k \in I : k <= i => k <= j
    BY <2>1
  <2>4. QED
    BY <2>2, <2>3
<1>2. IsFiniteSet(B)
  BY <1>1, FS_Subset
<1>3. IsFiniteSet(A) /\ Cardinality(A) <= Cardinality(B) /\ Cardinality(A) # Cardinality(B)
  BY <1>1, <1>2, FS_Subset
<1>4. Cardinality(A) \in Nat /\ Cardinality(B) \in Nat
  BY <1>2, <1>3, FS_CardinalityType
<1>5. QED
  BY <1>3, <1>4 DEF RankIn

\* Ranks number a finite set from 1 on, and Nth() finds the number with a rank.
LEMMA NthHasRank ==
  ASSUME NEW I \in SUBSET Nat, IsFiniteSet(I), NEW n \in 1..Cardinality(I)
  PROVE  Nth(I, n) \in I /\ RankIn(I, Nth(I, n)) = n
<1> DEFINE rank == [i \in I |-> RankIn(I, i)]
           N == 1..Cardinality(I)
<1>1. Cardinality(I) \in Nat
  BY FS_CardinalityType
<1>2. rank \in [I -> N]
  BY RankType
<1>3. ASSUME NEW i \in I, NEW j \in I, rank[i] = rank[j]
      PROVE  i = j
  <2>1. RankIn(I, i) \in Nat /\ RankIn(I, j) \in Nat
    BY RankType
  <2>2. ~(i < j) /\ ~(j < i)
    BY <1>3, <2>1, RankGrows
  <2>3. QED
    BY <2>2
<1>4. IsFiniteSet(N) /\ Cardinality(N) = Cardinality(I)
  BY <1>1, FS_Interval
<1>5. rank \in Injection(I, N)
  BY <1>2, <1>3 DEF Injection, IsInjective
<1>6. rank \in Surjection(I, N)
  <2> HIDE DEF rank, N
  <2>1. QED
    BY <1>4, <1>5, FS_Injection
<1>7. \E i \in I : rank[i] = n
  BY <1>6 DEF Surjection
<1>8. \E i \in I : Cardinality({k \in I : k <= i}) = n
  BY <1>7 DEF RankIn
<1>9. QED
  BY <1>8 DEF Nth, RankIn

LEMMA RankIsNth ==
  ASSUME NEW I \in SUBSET Nat, IsFiniteSet(I), NEW i \in I
  PROVE  Nth(I, RankIn(I, i)) = i
<1> DEFINE j == Nth(I, RankIn(I, i))
<1>1. RankIn(I, i) \in 1..Cardinality(I) /\ Cardinality(I) \in Nat
  BY RankType
<1>2. j \in I /\ RankIn(I, j) = RankIn(I, i)
  BY <1>1, NthHasRank
<1>3. i \in Nat /\ j \in Nat /\ RankIn(I, i) \in Nat
  <2>1. \A k \in I : k \in Nat
    OBVIOUS
  <2>2. i \in Nat /\ j \in Nat
    BY <1>2, <2>1
  <2>3. QED
    BY <1>1, <2>2
<1>4. ~(i < j) /\ ~(j < i)
  <2> HIDE DEF j
  <2>1. QED
    BY <1>2, <1>3, RankGrows
<1>5. QED
  BY <1>3, <1>4

LEMMA NthGrows ==
  ASSUME NEW I \in SUBSET Nat, IsFiniteSet(I),
         NEW m \in 1..Cardinality(I), NEW n \in 1..Cardinality(I), m < n
  PROVE  Nth(I, m) < Nth(I, n)
<1>1. Nth(I, m) \in I /\ Nth(I, n) \in I /\ RankIn(I, Nth(I, m)) = m /\ RankIn(I, Nth(I, n)) = n
  BY NthHasRank
<1>2. Cardinality(I) \in Nat
  BY FS_CardinalityType
<1>3. Nth(I, m) \in Nat /\ Nth(I, n) \in Nat /\ m \in Nat /\ n \in Nat
  <2>1. \A k \in I : k \in Nat
    OBVIOUS
  <2>2. Nth(I, m) \in Nat /\ Nth(I, n) \in Nat
    BY <1>1, <2>1
  <2>3. QED
    BY <1>2, <2>2
<1>4. ~(Nth(I, n) < Nth(I, m)) /\ Nth(I, n) # Nth(I, m)
  BY <1>1, <1>3, RankGrows
<1>5. QED
  BY <1>3, <1>4

\* ElementsAt() is a sequence of elements of s, as many as there are places.
LEMMA ElementsAtType ==
  ASSUME NEW S, NEW s \in Seq(S), NEW I \in SUBSET (1..Len(s))
  PROVE  /\ IsFiniteSet(I) /\ Cardinality(I) \in Nat
         /\ ElementsAt(s, I) \in Seq(S) /\ Len(ElementsAt(s, I)) = Cardinality(I)
         /\ \A n \in 1..Cardinality(I) : Nth(I, n) \in I /\ ElementsAt(s, I)[n] = s[Nth(I, n)]
<1>1. Len(s) \in Nat
  OBVIOUS
<1>2. IsFiniteSet(I)
  <2>1. IsFiniteSet(1..Len(s))
    BY <1>1, FS_Interval
  <2>2. QED
    BY <2>1, FS_Subset
<1>3. Cardinality(I) \in Nat
  BY <1>2, FS_CardinalityType
<1>4. \A n \in 1..Cardinality(I) : Nth(I, n) \in I
  <2>1. I \in SUBSET Nat
    OBVIOUS
  <2>2. QED
    BY <1>2, <2>1, NthHasRank
<1>5. \A n \in 1..Cardinality(I) : s[Nth(I, n)] \in S
  <2>1. \A i \in I : s[i] \in S
    OBVIOUS
  <2>2. QED
    BY <1>4, <2>1
<1>6. QED
  BY <1>2, <1>3, <1>4, <1>5 DEF ElementsAt

\* Its elements are those at the places.
LEMMA ElementsAtHas ==
  ASSUME NEW S, NEW s \in Seq(S), NEW I \in SUBSET (1..Len(s)), NEW i \in I
  PROVE  \E n \in 1..Len(ElementsAt(s, I)) : ElementsAt(s, I)[n] = s[i]
<1> DEFINE n == RankIn(I, i)
<1>1. /\ IsFiniteSet(I) /\ Len(ElementsAt(s, I)) = Cardinality(I)
      /\ \A k \in 1..Cardinality(I) : ElementsAt(s, I)[k] = s[Nth(I, k)]
  BY ElementsAtType
<1>2. n \in 1..Cardinality(I) /\ Nth(I, n) = i
  <2>1. I \in SUBSET Nat
    OBVIOUS
  <2>2. QED
    BY <1>1, <2>1, RankType, RankIsNth
<1> HIDE DEF n
<1>3. n \in 1..Len(ElementsAt(s, I)) /\ ElementsAt(s, I)[n] = s[i]
  BY <1>1, <1>2
<1>4. QED
  BY <1>3

LEMMA ElementsAtIsFrom ==
  ASSUME NEW S, NEW s \in Seq(S), NEW I \in SUBSET (1..Len(s)),
         NEW n \in 1..Len(ElementsAt(s, I))
  PROVE  \E i \in I : ElementsAt(s, I)[n] = s[i]
<1>1. /\ Len(ElementsAt(s, I)) = Cardinality(I)
      /\ \A k \in 1..Cardinality(I) : Nth(I, k) \in I /\ ElementsAt(s, I)[k] = s[Nth(I, k)]
  BY ElementsAtType
<1>2. QED
  BY <1>1

\* The last place of s gives the last element.
LEMMA ElementsAtLast ==
  ASSUME NEW S, NEW s \in Seq(S), NEW I \in SUBSET (1..Len(s)), Len(s) \in I
  PROVE  /\ Len(ElementsAt(s, I)) \in Nat \ {0}
         /\ ElementsAt(s, I)[Len(ElementsAt(s, I))] = s[Len(s)]
<1>1. /\ IsFiniteSet(I) /\ Cardinality(I) \in Nat /\ Len(ElementsAt(s, I)) = Cardinality(I)
      /\ \A k \in 1..Cardinality(I) : ElementsAt(s, I)[k] = s[Nth(I, k)]
  BY ElementsAtType
<1>2. I \in SUBSET Nat /\ {k \in I : k <= Len(s)} = I
  <2>1. \A k \in I : k \in Nat /\ k <= Len(s)
    OBVIOUS
  <2>2. QED
    BY <2>1
<1>3. RankIn(I, Len(s)) = Cardinality(I)
  BY <1>2 DEF RankIn
<1>4. RankIn(I, Len(s)) \in 1..Cardinality(I) /\ Nth(I, RankIn(I, Len(s))) = Len(s)
  BY <1>1, <1>2, RankType, RankIsNth
<1>5. QED
  BY <1>1, <1>3, <1>4

LEMMA ElementsAtEmpty ==
  ASSUME NEW S, NEW s \in Seq(S), NEW I \in SUBSET (1..Len(s))
  PROVE  ElementsAt(s, I) = << >> <=> I = {}
<1>1. /\ IsFiniteSet(I) /\ ElementsAt(s, I) \in Seq(S)
      /\ Len(ElementsAt(s, I)) = Cardinality(I) /\ Cardinality(I) \in Nat
  BY ElementsAtType
<1>2. Cardinality(I) = 0 <=> I = {}
  BY <1>1, FS_EmptySet
<1>3. ElementsAt(s, I) = << >> <=> Len(ElementsAt(s, I)) = 0
  BY <1>1, EmptySeq
<1>4. QED
  BY <1>1, <1>2, <1>3

-----------------------------------------------------------------------------
(***************************************************************************)
(* The recursion that defines SumFunctionOnSet.                            *)
(***************************************************************************)

Some(s) == CHOOSE x \in s : TRUE

\* What the sum of s is if f gives the sums of smaller sets.
Unfolded(w, f, s) == IF s = {} THEN 0 ELSE w[Some(s)] + f[s \ {Some(s)}]

\* f gives the sums of the subsets of S.
GivesSums(f, w, S) == f = [s \in SUBSET S |-> Unfolded(w, f, s)]

LEMMA SumIsRecursion ==
  ASSUME NEW w, NEW S
  PROVE  SumFunctionOnSet(w, S) = (CHOOSE f : GivesSums(f, w, S))[S]
BY DEF SumFunctionOnSet, FoldFunctionOnSet, MapThenFoldSet, GivesSums, Unfolded, Some

LEMMA SomeIsMember ==
  ASSUME NEW s, s # {}
  PROVE  Some(s) \in s
BY DEF Some

\* Right for all subsets of at most n elements.
RightUpTo(f, w, S, n) ==
  \A s \in SUBSET S : Cardinality(s) <= n => f[s] = Unfolded(w, f, s)

\* One more round of the recursion is right for one more element.
LEMMA RecursionGoesOn ==
  ASSUME NEW S, IsFiniteSet(S), NEW w, NEW n \in Nat, NEW f, RightUpTo(f, w, S, n)
  PROVE  RightUpTo([s \in SUBSET S |-> Unfolded(w, f, s)], w, S, n + 1)
<1> DEFINE g == [s \in SUBSET S |-> Unfolded(w, f, s)]
<1> SUFFICES ASSUME NEW s \in SUBSET S, Cardinality(s) <= n + 1
             PROVE  g[s] = Unfolded(w, g, s)
  BY DEF RightUpTo
<1>1. CASE s = {}
  BY <1>1 DEF Unfolded
<1>2. CASE s # {}
  <2> DEFINE t == s \ {Some(s)}
  <2>1. IsFiniteSet(s) /\ Some(s) \in s
    BY <1>2, FS_Subset, SomeIsMember
  <2>2. t \in SUBSET S /\ Cardinality(t) <= n
    <3>1. Cardinality(t) \in Nat /\ Cardinality(s) = Cardinality(t) + 1
      BY <2>1, WithoutOne
    <3>2. QED
      BY <3>1
  <2>3. f[t] = Unfolded(w, f, t)
    BY <2>2 DEF RightUpTo
  <2>4. g[t] = f[t]
    BY <2>2, <2>3
  <2>5. g[s] = w[Some(s)] + f[t]
    BY <1>2 DEF Unfolded
  <2>6. Unfolded(w, g, s) = w[Some(s)] + g[t]
    BY <1>2 DEF Unfolded
  <2>7. QED
    BY <2>4, <2>5, <2>6
<1>3. QED
  BY <1>1, <1>2

LEMMA SumsExist ==
  ASSUME NEW S, IsFiniteSet(S), NEW w
  PROVE  \E f : GivesSums(f, w, S)
<1> DEFINE Bad == {T \in SUBSET S : ~ \E f : RightUpTo(f, w, S, Cardinality(T))}
<1>1. Bad = {}
  <2> SUFFICES ASSUME Bad # {}
               PROVE  FALSE
    OBVIOUS
  <2>1. PICK T \in Bad : \A U \in SUBSET T : U # T => U \notin Bad
    <3>1. Bad \subseteq SUBSET S
      OBVIOUS
    <3> HIDE DEF Bad
    <3>2. QED
      BY <3>1, LeastSet
  <2>2. T # {}
    <3>1. RightUpTo([s \in SUBSET S |-> 0], w, S, 0)
      <4> SUFFICES ASSUME NEW s \in SUBSET S, Cardinality(s) <= 0
                   PROVE  Unfolded(w, [r \in SUBSET S |-> 0], s) = 0
        BY DEF RightUpTo
      <4>1. IsFiniteSet(s) /\ Cardinality(s) \in Nat
        BY FS_Subset, FS_CardinalityType
      <4>2. s = {}
        BY <4>1, FS_EmptySet
      <4>3. QED
        BY <4>2 DEF Unfolded
    <3>2. QED
      BY <3>1, FS_EmptySet
  <2>3. PICK x \in T : TRUE
    BY <2>2
  <2>4. IsFiniteSet(T)
    BY FS_Subset
  <2>5. /\ T \ {x} \in SUBSET T /\ T \ {x} # T
        /\ Cardinality(T \ {x}) \in Nat /\ Cardinality(T) = Cardinality(T \ {x}) + 1
    BY <2>3, <2>4, WithoutOne
  <2>6. PICK f : RightUpTo(f, w, S, Cardinality(T \ {x}))
    BY <2>1, <2>5
  <2>7. RightUpTo([s \in SUBSET S |-> Unfolded(w, f, s)], w, S, Cardinality(T \ {x}) + 1)
    BY <2>5, <2>6, RecursionGoesOn
  <2>8. QED
    BY <2>5, <2>7
<1>2. PICK f : RightUpTo(f, w, S, Cardinality(S))
  BY <1>1
<1>3. ASSUME NEW s \in SUBSET S
      PROVE  f[s] = Unfolded(w, f, s)
  BY <1>2, FS_Subset DEF RightUpTo
<1> DEFINE g == [s \in SUBSET S |-> Unfolded(w, f, s)]
<1>4. \A s \in SUBSET S : g[s] = f[s]
  BY <1>3
<1>5. ASSUME NEW s \in SUBSET S
      PROVE  Unfolded(w, f, s) = Unfolded(w, g, s)
  <2>1. s \ {Some(s)} \in SUBSET S
    OBVIOUS
  <2>2. g[s \ {Some(s)}] = f[s \ {Some(s)}]
    BY <1>4, <2>1
  <2>3. QED
    BY <2>2 DEF Unfolded
<1>6. GivesSums(g, w, S)
  BY <1>5 DEF GivesSums
<1>7. QED
  BY <1>6

\* The sum of a set does not depend on the larger set for which the recursion is done.
LEMMA SumsAgree ==
  ASSUME NEW S, IsFiniteSet(S), NEW T \in SUBSET S, NEW w,
         NEW f, GivesSums(f, w, S), NEW g, GivesSums(g, w, T)
  PROVE  \A s \in SUBSET T : f[s] = g[s]
<1> DEFINE Bad == {s \in SUBSET T : f[s] # g[s]}
<1> SUFFICES ASSUME Bad # {}
             PROVE  FALSE
  OBVIOUS
<1>1. IsFiniteSet(T) /\ Bad \subseteq SUBSET T
  BY FS_Subset
<1>2. PICK s \in Bad : \A U \in SUBSET s : U # s => U \notin Bad
  <2> HIDE DEF Bad
  <2>1. QED
    BY <1>1, LeastSet
<1>3. f[s] = Unfolded(w, f, s) /\ g[s] = Unfolded(w, g, s)
  BY DEF GivesSums
<1>4. s # {}
  BY <1>3 DEF Unfolded
<1>5. s \ {Some(s)} \in SUBSET s /\ s \ {Some(s)} # s
  BY <1>4, SomeIsMember
<1>6. f[s \ {Some(s)}] = g[s \ {Some(s)}]
  BY <1>2, <1>5
<1>7. QED
  BY <1>3, <1>4, <1>6 DEF Unfolded

-----------------------------------------------------------------------------
(***************************************************************************)
(* What the sum is.                                                        *)
(***************************************************************************)

LEMMA SumGiven ==
  ASSUME NEW S, IsFiniteSet(S), NEW w, NEW f, GivesSums(f, w, S), NEW T \in SUBSET S
  PROVE  SumFunctionOnSet(w, T) = f[T]
<1>1. IsFiniteSet(T)
  BY FS_Subset
<1> DEFINE g == CHOOSE h : GivesSums(h, w, T)
<1>2. GivesSums(g, w, T)
  BY <1>1, SumsExist
<1>3. SumFunctionOnSet(w, T) = g[T]
  BY SumIsRecursion
<1> HIDE DEF g
<1>4. f[T] = g[T]
  BY <1>2, SumsAgree
<1>5. QED
  BY <1>3, <1>4

LEMMA SumOfEmptySet ==
  ASSUME NEW w
  PROVE  SumFunctionOnSet(w, {}) = 0
<1>1. PICK f : GivesSums(f, w, {})
  BY FS_EmptySet, SumsExist
<1>2. f[{}] = 0
  BY <1>1 DEF GivesSums, Unfolded
<1>3. QED
  BY <1>1, <1>2, FS_EmptySet, SumGiven

\* The sum loses the element that the recursion takes first.
LEMMA SumLosesSome ==
  ASSUME NEW S, IsFiniteSet(S), S # {}, NEW w
  PROVE  SumFunctionOnSet(w, S) = w[Some(S)] + SumFunctionOnSet(w, S \ {Some(S)})
<1>1. PICK f : GivesSums(f, w, S)
  BY SumsExist
<1>2. f[S] = w[Some(S)] + f[S \ {Some(S)}]
  BY <1>1 DEF GivesSums, Unfolded
<1>3. S \in SUBSET S /\ S \ {Some(S)} \in SUBSET S
  OBVIOUS
<1>4. QED
  BY <1>1, <1>2, <1>3, SumGiven

LEMMA SumIsNatural ==
  ASSUME NEW S, IsFiniteSet(S), NEW w, \A x \in S : w[x] \in Nat
  PROVE  SumFunctionOnSet(w, S) \in Nat
<1> DEFINE Bad == {T \in SUBSET S : SumFunctionOnSet(w, T) \notin Nat}
<1> SUFFICES ASSUME Bad # {}
             PROVE  FALSE
  OBVIOUS
<1>1. Bad \subseteq SUBSET S
  OBVIOUS
<1>2. PICK T \in Bad : \A U \in SUBSET T : U # T => U \notin Bad
  <2> HIDE DEF Bad
  <2>1. QED
    BY <1>1, LeastSet
<1>3. T # {}
  BY SumOfEmptySet
<1>4. IsFiniteSet(T) /\ Some(T) \in T
  BY <1>3, FS_Subset, SomeIsMember
<1>5. SumFunctionOnSet(w, T) = w[Some(T)] + SumFunctionOnSet(w, T \ {Some(T)})
  BY <1>3, <1>4, SumLosesSome
<1>6. SumFunctionOnSet(w, T \ {Some(T)}) \in Nat
  BY <1>2, <1>4
<1>7. w[Some(T)] \in Nat
  BY <1>4
<1>8. QED
  BY <1>5, <1>6, <1>7

\* It loses any element just as well.
LEMMA SumWithout ==
  ASSUME NEW S, IsFiniteSet(S), NEW w, \A y \in S : w[y] \in Nat, NEW x \in S
  PROVE  SumFunctionOnSet(w, S) = SumFunctionOnSet(w, S \ {x}) + w[x]
<1> DEFINE Bad == {T \in SUBSET S : \E y \in T :
                     SumFunctionOnSet(w, T) # SumFunctionOnSet(w, T \ {y}) + w[y]}
<1> SUFFICES ASSUME Bad # {}
             PROVE  FALSE
  OBVIOUS
<1>1. Bad \subseteq SUBSET S
  OBVIOUS
<1>2. PICK T \in Bad : \A U \in SUBSET T : U # T => U \notin Bad
  <2> HIDE DEF Bad
  <2>1. QED
    BY <1>1, LeastSet
<1>3. PICK y \in T : SumFunctionOnSet(w, T) # SumFunctionOnSet(w, T \ {y}) + w[y]
  OBVIOUS
<1> DEFINE z == Some(T)
<1>4. IsFiniteSet(T) /\ z \in T
  BY FS_Subset, SomeIsMember
<1>5. SumFunctionOnSet(w, T) = w[z] + SumFunctionOnSet(w, T \ {z})
  BY <1>4, SumLosesSome
<1>6. IsFiniteSet(T \ {z}) /\ IsFiniteSet(T \ {y}) /\ IsFiniteSet((T \ {z}) \ {y})
  BY <1>4, FS_RemoveElement
<1>7. /\ SumFunctionOnSet(w, T \ {z}) \in Nat /\ SumFunctionOnSet(w, T \ {y}) \in Nat
      /\ SumFunctionOnSet(w, (T \ {z}) \ {y}) \in Nat
  <2>1. \A U \in SUBSET T : IsFiniteSet(U) => SumFunctionOnSet(w, U) \in Nat
    BY SumIsNatural
  <2>2. QED
    BY <1>6, <2>1
<1>8. w[y] \in Nat /\ w[z] \in Nat
  BY <1>4
<1>9. y # z
  BY <1>3, <1>5, <1>7, <1>8
<1>10. T \ {z} \notin Bad /\ T \ {y} \notin Bad
  BY <1>2, <1>4
<1>11. SumFunctionOnSet(w, T \ {z}) = SumFunctionOnSet(w, (T \ {z}) \ {y}) + w[y]
  BY <1>9, <1>10
<1>12. SumFunctionOnSet(w, T \ {y}) = SumFunctionOnSet(w, (T \ {z}) \ {y}) + w[z]
  <2>1. (T \ {y}) \ {z} = (T \ {z}) \ {y}
    OBVIOUS
  <2>2. SumFunctionOnSet(w, T \ {y}) = SumFunctionOnSet(w, (T \ {y}) \ {z}) + w[z]
    BY <1>4, <1>9, <1>10
  <2>3. QED
    BY <2>1, <2>2
<1> HIDE DEF z, Bad
<1>13. SumFunctionOnSet(w, T) = SumFunctionOnSet(w, T \ {y}) + w[y]
  BY <1>5, <1>7, <1>8, <1>11, <1>12
<1>14. QED
  BY <1>3, <1>13

\* An element that is added counts once.
LEMMA SumWith ==
  ASSUME NEW S, IsFiniteSet(S), NEW w, \A y \in S : w[y] \in Nat, NEW x, w[x] \in Nat, x \notin S
  PROVE  SumFunctionOnSet(w, S \cup {x}) = SumFunctionOnSet(w, S) + w[x]
<1>1. IsFiniteSet(S \cup {x}) /\ (S \cup {x}) \ {x} = S
  BY FS_AddElement
<1>2. \A y \in S \cup {x} : w[y] \in Nat
  OBVIOUS
<1>3. QED
  BY <1>1, <1>2, SumWithout

\* A part of a set has a part of its sum.
LEMMA SumOfPart ==
  ASSUME NEW S, IsFiniteSet(S), NEW w, \A y \in S : w[y] \in Nat, NEW T \in SUBSET S
  PROVE  SumFunctionOnSet(w, T) <= SumFunctionOnSet(w, S)
<1> DEFINE Bad == {U \in SUBSET S :
                     T \subseteq U /\ ~(SumFunctionOnSet(w, T) <= SumFunctionOnSet(w, U))}
<1> SUFFICES ASSUME Bad # {}
             PROVE  FALSE
  OBVIOUS
<1>1. Bad \subseteq SUBSET S
  OBVIOUS
<1>2. PICK U \in Bad : \A V \in SUBSET U : V # U => V \notin Bad
  <2> HIDE DEF Bad
  <2>1. QED
    BY <1>1, LeastSet
<1>3. /\ IsFiniteSet(U) /\ IsFiniteSet(T)
      /\ SumFunctionOnSet(w, U) \in Nat /\ SumFunctionOnSet(w, T) \in Nat
  <2>1. IsFiniteSet(U) /\ IsFiniteSet(T)
    BY FS_Subset
  <2>2. (\A y \in U : w[y] \in Nat) /\ (\A y \in T : w[y] \in Nat)
    OBVIOUS
  <2>3. QED
    BY <2>1, <2>2, SumIsNatural
<1>4. PICK x \in U : x \notin T
  <2>1. U # T
    BY <1>3
  <2>2. QED
    BY <2>1
<1>5. SumFunctionOnSet(w, T) <= SumFunctionOnSet(w, U \ {x})
  BY <1>2, <1>4
<1>6. SumFunctionOnSet(w, U) = SumFunctionOnSet(w, U \ {x}) + w[x] /\ w[x] \in Nat
  <2>1. \A y \in U : w[y] \in Nat
    OBVIOUS
  <2>2. QED
    BY <1>3, <1>4, <2>1, SumWithout
<1>7. SumFunctionOnSet(w, U \ {x}) \in Nat
  <2>1. IsFiniteSet(U \ {x}) /\ \A y \in U \ {x} : w[y] \in Nat
    BY <1>3, FS_RemoveElement
  <2>2. QED
    BY <2>1, SumIsNatural
<1>8. QED
  BY <1>3, <1>5, <1>6, <1>7

LEMMA SumOfOne ==
  ASSUME NEW w, NEW x, w[x] \in Nat
  PROVE  SumFunctionOnSet(w, {x}) = w[x]
<1>1. {} \cup {x} = {x} /\ \A y \in {} : w[y] \in Nat
  OBVIOUS
<1>2. SumFunctionOnSet(w, {} \cup {x}) = SumFunctionOnSet(w, {}) + w[x]
  BY <1>1, FS_EmptySet, SumWith
<1>3. QED
  BY <1>1, <1>2, SumOfEmptySet

\* A sum is between the least and the greatest of its parts, times their number.
LEMMA SumBetween ==
  ASSUME NEW S, IsFiniteSet(S), NEW w, NEW a \in Nat, NEW b \in Nat, \A x \in S : w[x] \in a..b
  PROVE  /\ a * Cardinality(S) <= SumFunctionOnSet(w, S)
         /\ SumFunctionOnSet(w, S) <= b * Cardinality(S)
<1> DEFINE Between(T) == /\ a * Cardinality(T) <= SumFunctionOnSet(w, T)
                         /\ SumFunctionOnSet(w, T) <= b * Cardinality(T)
<1> DEFINE Bad == {T \in SUBSET S : ~Between(T)}
<1> SUFFICES ASSUME Bad # {}
             PROVE  FALSE
  OBVIOUS
<1>1. Bad \subseteq SUBSET S
  OBVIOUS
<1>2. PICK T \in Bad : \A U \in SUBSET T : U # T => U \notin Bad
  <2> HIDE DEF Bad
  <2>1. QED
    BY <1>1, LeastSet
<1>3. T # {}
  <2>1. Between({})
    BY SumOfEmptySet, FS_EmptySet
  <2> HIDE DEF Between
  <2>2. QED
    BY <1>2, <2>1
<1> DEFINE x == Some(T)
<1>4. IsFiniteSet(T) /\ x \in T
  BY <1>3, FS_Subset, SomeIsMember
<1>5. SumFunctionOnSet(w, T) = w[x] + SumFunctionOnSet(w, T \ {x})
  BY <1>3, <1>4, SumLosesSome
<1>6. /\ Cardinality(T) \in Nat /\ Cardinality(T \ {x}) \in Nat
      /\ Cardinality(T) = Cardinality(T \ {x}) + 1
  <2> HIDE DEF x, Bad, Between
  <2>1. IsFiniteSet(T \ {x}) /\ Cardinality(T \ {x}) = Cardinality(T) - 1
    BY <1>4, FS_RemoveElement
  <2>2. Cardinality(T) \in Nat /\ Cardinality(T \ {x}) \in Nat
    BY <1>4, <2>1, FS_CardinalityType
  <2>3. QED
    BY <2>1, <2>2
<1>7. w[x] \in a..b
  BY <1>4
<1>8. SumFunctionOnSet(w, T \ {x}) \in Nat
  <2>1. IsFiniteSet(T \ {x}) /\ \A y \in T \ {x} : w[y] \in Nat
    BY <1>4, FS_RemoveElement
  <2>2. QED
    BY <2>1, SumIsNatural
<1>9. Between(T \ {x})
  BY <1>2, <1>4
<1>10. ~Between(T)
  OBVIOUS
<1>11. ASSUME NEW n \in Nat, NEW c \in Nat
       PROVE  c * (n + 1) = c * n + c
  OBVIOUS
<1>12. /\ a * Cardinality(T) = a * Cardinality(T \ {x}) + a
       /\ b * Cardinality(T) = b * Cardinality(T \ {x}) + b
  <2> HIDE DEF x
  <2>1. QED
    BY <1>6, <1>11
<1>13. a * Cardinality(T \ {x}) \in Nat /\ b * Cardinality(T \ {x}) \in Nat
  <2> HIDE DEF x
  <2>1. QED
    BY <1>6
<1>14. QED
  <2> HIDE DEF x, Bad
  <2>1. QED
    BY <1>5, <1>7, <1>8, <1>9, <1>10, <1>12, <1>13
=============================================================================
