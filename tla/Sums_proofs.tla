------------------------------ MODULE Sums_proofs ------------------------------
(***************************************************************************)
(* What the proofs need to know of sums, and of recursion over finite sets *)
(* and sequences.  Induction is stated with sets in the place of           *)
(* predicates.                                                             *)
(***************************************************************************)
EXTENDS Sums, Integers, Sequences, FiniteSetTheorems, TLAPS

(***************************************************************************)
(* Induction.                                                              *)
(***************************************************************************)
LEMMA NatOrder ==
  \E R : IsWellFoundedOn(R, Nat) /\ \A m, n \in Nat : m < n => <<m, n>> \in R
<1>1. \A m, n \in Nat : m < n => <<m, n>> \in OpToRel(<, Nat)  BY DEF OpToRel
<1> QED  BY <1>1, NatLessThanWellFounded, Zenon

LEMMA Induction ==
  ASSUME NEW A, 0 \in A, \A n \in Nat : n \in A => n + 1 \in A
  PROVE  Nat \subseteq A
<1> SUFFICES ASSUME Nat \ A # {} PROVE FALSE  OBVIOUS
<1>1. PICK R : IsWellFoundedOn(R, Nat) /\ \A m, n \in Nat : m < n => <<m, n>> \in R
  BY NatOrder
<1>2. PICK x \in Nat \ A : \A y \in Nat \ A : <<y, x>> \notin R
  <2>1. Nat \ A \subseteq Nat  OBVIOUS
  <2> QED  BY <1>1, <2>1, WFMin
<1>3. PICK y \in Nat : x = y + 1
  <2>1. x - 1 \in Nat /\ x = (x - 1) + 1  OBVIOUS
  <2> QED  BY <2>1
<1>4. <<y, x>> \in R
  <2>1. y < x /\ x \in Nat  BY <1>3
  <2> QED  BY <1>1, <2>1
<1>5. y \in A  BY <1>2, <1>4
<1> QED  BY <1>3, <1>5

\* Over the subsets of a finite set, from the smaller to the larger.
LEMMA SubsetInduction ==
  ASSUME NEW S, IsFiniteSet(S), NEW A,
         \A T \in SUBSET S : (\A U \in SUBSET T : U # T => U \in A) => T \in A
  PROVE  SUBSET S \subseteq A
<1> DEFINE R == StrictSubsetOrdering(S)
           B == (SUBSET S) \ A
<1> SUFFICES ASSUME B # {} PROVE FALSE  OBVIOUS
<1>1. \A T, U \in SUBSET S : T \subseteq U /\ T # U => <<T, U>> \in R
  BY DEF StrictSubsetOrdering
<1>2. B \subseteq FiniteSubsetsOf(S)
  <2>1. \A T \in SUBSET S : IsFiniteSet(T)  BY FS_Subset
  <2> QED  BY <2>1 DEF FiniteSubsetsOf
<1>3. IsWellFoundedOn(R, FiniteSubsetsOf(S))  BY FS_StrictSubsetOrderingWellFounded
<1>4. \A T \in B : T \in SUBSET S  OBVIOUS
<1>5. \A T \in SUBSET S : T \notin B => T \in A  OBVIOUS
<1>6. \A T \in B : T \notin A  OBVIOUS
<1> HIDE DEF R, B
<1>7. PICK T \in B : \A U \in B : <<U, T>> \notin R
  BY <1>2, <1>3, WFMin
<1>8. \A U \in SUBSET T : U # T => U \in A
  <2> SUFFICES ASSUME NEW U \in SUBSET T, U # T PROVE U \in A  OBVIOUS
  <2>1. T \in SUBSET S /\ U \in SUBSET S /\ U \subseteq T  BY <1>4, <1>7
  <2> QED  BY <1>1, <1>5, <1>7, <2>1
<1> QED  BY <1>4, <1>6, <1>7, <1>8
-----------------------------------------------------------------------------
(***************************************************************************)
(* The recursion behind a sum.                                             *)
(***************************************************************************)
First(s) == CHOOSE y \in s : TRUE

Equation(f, s, g) == g[s] = IF s = {} THEN 0 ELSE f[First(s)] + g[s \ {First(s)}]

\* The function that adds up f over each subset of S.
IsSum(f, S, g) ==
  g = [s \in SUBSET S |-> IF s = {} THEN 0 ELSE f[First(s)] + g[s \ {First(s)}]]

LEMMA SumIs == \A f, S : SumOf(f, S) = (CHOOSE g : IsSum(f, S, g))[S]
BY DEF SumOf, MapThenSumSet, MapThenFoldSet, IsSum, First

\* f is added up for all subsets that have n members at most.
SumsUpTo(f, S, g, n) ==
  /\ DOMAIN g = SUBSET S /\ g = [s \in SUBSET S |-> g[s]]
  /\ \A s \in SUBSET S : Cardinality(s) <= n => Equation(f, s, g)

LEMMA SubsetSizes ==
  ASSUME NEW S, IsFiniteSet(S), NEW s \in SUBSET S
  PROVE  /\ IsFiniteSet(s) /\ Cardinality(s) \in Nat /\ Cardinality(s) <= Cardinality(S)
         /\ s # {} => /\ First(s) \in s
                      /\ s \ {First(s)} \in SUBSET S
                      /\ Cardinality(s \ {First(s)}) = Cardinality(s) - 1
         /\ Cardinality(s) <= 0 => s = {}
<1>1. IsFiniteSet(s) /\ Cardinality(s) \in Nat /\ Cardinality(s) <= Cardinality(S)
  BY FS_Subset, FS_CardinalityType
<1>2. s # {} => First(s) \in s  BY DEF First
<1>3. s # {} => Cardinality(s \ {First(s)}) = Cardinality(s) - 1
  BY <1>1, <1>2, FS_RemoveElement
<1> QED  BY <1>1, <1>2, <1>3, FS_EmptySet

LEMMA SumsGrow ==
  ASSUME NEW S, IsFiniteSet(S), NEW f, NEW n \in Nat, NEW g, SumsUpTo(f, S, g, n)
  PROVE  \E h : SumsUpTo(f, S, h, n + 1)
<1> DEFINE h == [s \in SUBSET S |->
                   IF s = {} THEN 0
                   ELSE IF Cardinality(s) = n + 1 THEN f[First(s)] + g[s \ {First(s)}] ELSE g[s]]
<1>1. ASSUME NEW s \in SUBSET S, Cardinality(s) <= n PROVE h[s] = g[s]
  <2>1. Equation(f, s, g)  BY <1>1 DEF SumsUpTo
  <2>2. Cardinality(s) \in Nat  BY SubsetSizes
  <2> QED  BY <1>1, <2>1, <2>2 DEF Equation
<1>2. ASSUME NEW s \in SUBSET S, Cardinality(s) <= n + 1 PROVE Equation(f, s, h)
  <2>1. CASE s = {}  BY <2>1 DEF Equation
  <2>2. CASE s # {}
    <3> DEFINE t == s \ {First(s)}
    <3>1. /\ t \in SUBSET S /\ Cardinality(t) = Cardinality(s) - 1
          /\ Cardinality(s) \in Nat
      BY <2>2, SubsetSizes
    <3>2. h[t] = g[t]
      <4> HIDE DEF t, h
      <4> QED  BY <1>1, <1>2, <3>1
    <3>3. h[s] = f[First(s)] + g[t]
      <4>1. CASE Cardinality(s) = n + 1  BY <2>2, <4>1
      <4>2. CASE Cardinality(s) # n + 1
        <5>1. Cardinality(s) <= n  BY <1>2, <3>1, <4>2
        <5>2. Equation(f, s, g)  BY <5>1 DEF SumsUpTo
        <5>3. h[s] = g[s]  BY <1>1, <5>1
        <5> HIDE DEF h
        <5> QED  BY <2>2, <5>2, <5>3 DEF Equation
      <4> QED  BY <4>1, <4>2
    <3> HIDE DEF h
    <3> QED  BY <2>2, <3>2, <3>3 DEF Equation
  <2> QED  BY <2>1, <2>2
<1>3. DOMAIN h = SUBSET S /\ h = [s \in SUBSET S |-> h[s]]  OBVIOUS
<1> HIDE DEF h
<1> QED  BY <1>2, <1>3 DEF SumsUpTo

LEMMA SumExists ==
  ASSUME NEW S, IsFiniteSet(S), NEW f
  PROVE  \E g : IsSum(f, S, g)
<1> DEFINE A == {n \in Nat : \E g : SumsUpTo(f, S, g, n)}
<1>1. 0 \in A
  <2> DEFINE g == [s \in SUBSET S |-> 0]
  <2>1. \A s \in SUBSET S : Cardinality(s) <= 0 => Equation(f, s, g)  BY SubsetSizes DEF Equation
  <2>2. SumsUpTo(f, S, g, 0)  BY <2>1 DEF SumsUpTo
  <2> QED  BY <2>2
<1>2. ASSUME NEW n \in Nat, n \in A PROVE n + 1 \in A  BY <1>2, SumsGrow
<1>3. Nat \subseteq A
  <2> HIDE DEF A
  <2> QED  BY <1>1, <1>2, Induction
<1>4. PICK g : SumsUpTo(f, S, g, Cardinality(S))  BY <1>3, FS_CardinalityType
<1>5. DOMAIN g = SUBSET S /\ g = [s \in SUBSET S |-> g[s]]  BY <1>4 DEF SumsUpTo
<1>6. \A s \in SUBSET S : Equation(f, s, g)  BY <1>4, SubsetSizes DEF SumsUpTo
<1>7. \A s \in SUBSET S : g[s] = IF s = {} THEN 0 ELSE f[First(s)] + g[s \ {First(s)}]
  BY <1>6 DEF Equation
<1> HIDE DEF A
<1>8. g = [s \in SUBSET S |-> IF s = {} THEN 0 ELSE f[First(s)] + g[s \ {First(s)}]]
  BY <1>5, <1>7
<1> QED  BY <1>8, Zenon DEF IsSum

\* There is one such function, whatever set it is taken of.
LEMMA SumUnique ==
  ASSUME NEW S, IsFiniteSet(S), NEW f, NEW g, IsSum(f, S, g), NEW T \in SUBSET S
  PROVE  SumOf(f, T) = g[T]
<1>1. IsFiniteSet(T)  BY FS_Subset
<1>2. PICK h : IsSum(f, T, h) /\ SumOf(f, T) = h[T]
  <2>1. \E h : IsSum(f, T, h)  BY <1>1, SumExists
  <2> QED  BY <2>1, SumIs, Zenon
<1>3. \A s \in SUBSET S : g[s] = IF s = {} THEN 0 ELSE f[First(s)] + g[s \ {First(s)}]
  BY Zenon DEF IsSum
<1>4. \A s \in SUBSET T : h[s] = IF s = {} THEN 0 ELSE f[First(s)] + h[s \ {First(s)}]
  BY <1>2, Zenon DEF IsSum
<1> DEFINE A == {s \in SUBSET T : g[s] = h[s]}
<1>5. ASSUME NEW s \in SUBSET T, \A u \in SUBSET s : u # s => u \in A PROVE s \in A
  <2>1. CASE s = {}  BY <1>3, <1>4, <2>1
  <2>2. CASE s # {}
    <3>1. First(s) \in s /\ s \ {First(s)} \in SUBSET s /\ s \ {First(s)} # s  BY <2>2 DEF First
    <3>2. g[s \ {First(s)}] = h[s \ {First(s)}]  BY <1>5, <3>1
    <3> QED  BY <1>3, <1>4, <2>2, <3>2
  <2> QED  BY <2>1, <2>2
<1>6. SUBSET T \subseteq A
  <2> HIDE DEF A
  <2> QED  BY <1>1, <1>5, SubsetInduction
<1> QED  BY <1>2, <1>6
-----------------------------------------------------------------------------
(***************************************************************************)
(* Sums.                                                                   *)
(***************************************************************************)
LEMMA SumOfNone == \A f : SumOf(f, {}) = 0
<1> TAKE f
<1>1. PICK g : IsSum(f, {}, g)  BY FS_EmptySet, SumExists
<1>2. SumOf(f, {}) = g[{}]  BY <1>1, FS_EmptySet, SumUnique
<1>3. g[{}] = 0  BY <1>1, Zenon DEF IsSum
<1> QED  BY <1>2, <1>3

LEMMA SumFirst ==
  ASSUME NEW S, IsFiniteSet(S), NEW f, S # {}
  PROVE  First(S) \in S /\ SumOf(f, S) = f[First(S)] + SumOf(f, S \ {First(S)})
<1>1. PICK g : IsSum(f, S, g)  BY SumExists
<1>2. \A s \in SUBSET S : g[s] = IF s = {} THEN 0 ELSE f[First(s)] + g[s \ {First(s)}]
  BY <1>1, Zenon DEF IsSum
<1>3. g[S] = f[First(S)] + g[S \ {First(S)}]  BY <1>2
<1>4. SumOf(f, S) = g[S] /\ SumOf(f, S \ {First(S)}) = g[S \ {First(S)}]  BY <1>1, SumUnique
<1> QED  BY <1>3, <1>4 DEF First

\* The order in which members are added up does not matter.
LEMMA SumRest ==
  ASSUME NEW S, IsFiniteSet(S), NEW f, \A x \in S : f[x] \in Int
  PROVE  /\ SumOf(f, S) \in Int
         /\ \A x \in S : SumOf(f, S) = f[x] + SumOf(f, S \ {x})
<1> DEFINE A == {T \in SUBSET S : SumOf(f, T) \in Int /\ \A x \in T : SumOf(f, T) = f[x] + SumOf(f, T \ {x})}
<1>1. ASSUME NEW T \in SUBSET S, \A U \in SUBSET T : U # T => U \in A PROVE T \in A
  <2>1. CASE T = {}  BY <2>1, SumOfNone
  <2>2. CASE T # {}
    <3> DEFINE y == First(T)
    <3>1. IsFiniteSet(T)  BY FS_Subset
    <3>2. y \in T /\ SumOf(f, T) = f[y] + SumOf(f, T \ {y})  BY <2>2, <3>1, SumFirst
    <3> HIDE DEF y
    <3>3. T \ {y} \in A  BY <1>1, <3>2
    <3>4. SumOf(f, T) \in Int  BY <3>2, <3>3
    <3>5. ASSUME NEW x \in T, x # y PROVE SumOf(f, T) = f[x] + SumOf(f, T \ {x})
      <4> DEFINE U == (T \ {y}) \ {x}
      <4>1. T \ {x} \in A /\ U \in A  BY <1>1, <3>5
      <4>2. U = (T \ {x}) \ {y} /\ y \in T \ {x} /\ x \in T \ {y}  BY <3>2, <3>5
      <4>3. SumOf(f, T \ {y}) = f[x] + SumOf(f, U)  BY <3>3, <4>2
      <4>4. SumOf(f, T \ {x}) = f[y] + SumOf(f, U)  BY <4>1, <4>2
      <4>5. SumOf(f, U) \in Int /\ f[x] \in Int /\ f[y] \in Int  BY <3>2, <4>1
      <4> HIDE DEF U, A
      <4> QED  BY <3>2, <4>3, <4>4, <4>5
    <3> QED  BY <3>2, <3>4, <3>5
  <2> QED  BY <2>1, <2>2
<1>2. SUBSET S \subseteq A
  <2> HIDE DEF A
  <2> QED  BY <1>1, SubsetInduction
<1> QED  BY <1>2

\* One member more.
LEMMA SumAdd ==
  ASSUME NEW T, IsFiniteSet(T), NEW x, x \notin T,
         NEW f, \A y \in T : f[y] \in Int, f[x] \in Int
  PROVE  SumOf(f, T \cup {x}) = SumOf(f, T) + f[x] /\ SumOf(f, T) \in Int
<1>1. IsFiniteSet(T) /\ IsFiniteSet(T \cup {x})  BY FS_AddElement
<1>2. SumOf(f, T) \in Int  BY <1>1, SumRest
<1>3. \A y \in T \cup {x} : f[y] \in Int  OBVIOUS
<1> DEFINE U == T \cup {x}
<1>4. x \in U /\ U \ {x} = T  OBVIOUS
<1> HIDE DEF U
<1>5. SumOf(f, U) = f[x] + SumOf(f, U \ {x})  BY <1>1, <1>3, <1>4, SumRest DEF U
<1>6. SumOf(f, U \ {x}) = SumOf(f, T)  BY <1>4, Zenon
<1>7. f[x] \in Int  BY <1>3
<1>8. SumOf(f, U) = SumOf(f, T) + f[x]  BY <1>2, <1>5, <1>6, <1>7
<1> QED  BY <1>2, <1>8 DEF U

\* Induction one member at a time.
LEMMA OneByOne ==
  ASSUME NEW S, IsFiniteSet(S), NEW A, {} \in A,
         \A T \in SUBSET S : \A x \in S \ T : T \in A => T \cup {x} \in A
  PROVE  S \in A
<1>1. ASSUME NEW T \in SUBSET S, \A U \in SUBSET T : U # T => U \in A PROVE T \in A
  <2>1. CASE T = {}  BY <2>1
  <2>2. CASE T # {}
    <3>1. PICK x : x \in T  BY <2>2
    <3>2. T \ {x} \in A /\ T = (T \ {x}) \cup {x}  BY <1>1, <3>1
    <3> QED  BY <3>1, <3>2
  <2> QED  BY <2>1, <2>2
<1>2. SUBSET S \subseteq A  BY <1>1, SubsetInduction
<1> QED  BY <1>2

\* Sums of no more, of the same, and of nothing negative.
LEMMA SumMonotone ==
  ASSUME NEW S, IsFiniteSet(S), NEW f, NEW g,
         \A x \in S : f[x] \in Int /\ g[x] \in Int /\ f[x] <= g[x]
  PROVE  SumOf(f, S) <= SumOf(g, S)
<1> DEFINE A == {T \in SUBSET S : SumOf(f, T) <= SumOf(g, T)}
<1>1. {} \in A  BY SumOfNone
<1>2. ASSUME NEW T \in SUBSET S, NEW x \in S \ T, T \in A PROVE T \cup {x} \in A
  <2>1. IsFiniteSet(T)  BY FS_Subset
  <2> QED  BY <1>2, <2>1, SumAdd
<1>3. S \in A
  <2> HIDE DEF A
  <2> QED  BY <1>1, <1>2, OneByOne
<1> QED  BY <1>3

LEMMA SumSame ==
  ASSUME NEW S, IsFiniteSet(S), NEW f, NEW g, \A x \in S : f[x] \in Int /\ f[x] = g[x]
  PROVE  SumOf(f, S) = SumOf(g, S)
<1>1. SumOf(f, S) \in Int /\ SumOf(g, S) \in Int  BY SumRest
<1>2. SumOf(f, S) <= SumOf(g, S) /\ SumOf(g, S) <= SumOf(f, S)  BY SumMonotone
<1> QED  BY <1>1, <1>2

LEMMA SumIsNat ==
  ASSUME NEW S, IsFiniteSet(S), NEW f, \A x \in S : f[x] \in Nat
  PROVE  SumOf(f, S) \in Nat
<1> DEFINE A == {T \in SUBSET S : SumOf(f, T) \in Nat}
<1>1. {} \in A  BY SumOfNone
<1>2. ASSUME NEW T \in SUBSET S, NEW x \in S \ T, T \in A PROVE T \cup {x} \in A
  <2>1. IsFiniteSet(T)  BY FS_Subset
  <2> QED  BY <1>2, <2>1, SumAdd
<1>3. S \in A
  <2> HIDE DEF A
  <2> QED  BY <1>1, <1>2, OneByOne
<1> QED  BY <1>3

\* One member's share grows, all others' stay.
LEMMA SumChange ==
  ASSUME NEW S, IsFiniteSet(S), NEW f, NEW g, NEW x \in S, NEW d \in Int,
         \A y \in S : f[y] \in Int, \A y \in S : g[y] = IF y = x THEN f[y] + d ELSE f[y]
  PROVE  SumOf(g, S) = SumOf(f, S) + d
<1>1. IsFiniteSet(S \ {x})  BY FS_Subset
<1>2. SumOf(g, S) = g[x] + SumOf(g, S \ {x}) /\ SumOf(f, S) = f[x] + SumOf(f, S \ {x})
  BY SumRest
<1>3. SumOf(g, S \ {x}) = SumOf(f, S \ {x}) /\ SumOf(f, S \ {x}) \in Int
  BY <1>1, SumSame, SumRest
<1>4. g[x] = f[x] + d /\ f[x] \in Int  OBVIOUS
<1> QED  BY <1>2, <1>3, <1>4

\* Some members' shares grow alike.
LEMMA SumPasses ==
  ASSUME NEW S, IsFiniteSet(S), NEW f, NEW g, NEW P \in SUBSET S, NEW d \in Int,
         \A x \in S : f[x] \in Int /\ g[x] = IF x \in P THEN f[x] + d ELSE f[x]
  PROVE  SumOf(g, S) = SumOf(f, S) + d * Cardinality(P)
<1> DEFINE A == {T \in SUBSET S : SumOf(g, T) = SumOf(f, T) + d * Cardinality(T \cap P)}
<1>1. {} \in A
  <2>1. Cardinality({} \cap P) = 0
    <3>1. {} \cap P = {}  OBVIOUS
    <3> QED  BY <3>1, FS_EmptySet
  <2>2. d * 0 = 0  OBVIOUS
  <2> QED  BY <2>1, <2>2, SumOfNone
<1>2. ASSUME NEW T \in SUBSET S, NEW x \in S \ T, T \in A PROVE T \cup {x} \in A
  <2>0. IsFiniteSet(T) /\ IsFiniteSet(T \cap P)  BY FS_Subset
  <2>1. \A y \in S : f[y] \in Int /\ g[y] \in Int  OBVIOUS
  <2>2. SumOf(f, T \cup {x}) = SumOf(f, T) + f[x] /\ SumOf(f, T) \in Int  BY <2>0, <2>1, SumAdd
  <2>3. SumOf(g, T \cup {x}) = SumOf(g, T) + g[x] /\ SumOf(g, T) \in Int  BY <2>0, <2>1, SumAdd
  <2>4. SumOf(g, T) = SumOf(f, T) + d * Cardinality(T \cap P)  BY <1>2
  <2> DEFINE n == Cardinality(T \cap P)
             m == Cardinality((T \cup {x}) \cap P)
  <2>5. n \in Nat /\ f[x] \in Int /\ d * n \in Int  BY <2>0, <2>1, FS_CardinalityType
  <2>6. SumOf(g, T \cup {x}) = SumOf(f, T \cup {x}) + d * m
    <3>1. CASE x \in P
      <4>1. (T \cup {x}) \cap P = (T \cap P) \cup {x} /\ x \notin T \cap P  BY <3>1
      <4>2. m = n + 1  BY <2>0, <4>1, FS_AddElement
      <4>3. d * (n + 1) = d * n + d  BY <2>5
      <4>4. g[x] = f[x] + d  BY <3>1
      <4> HIDE DEF n, m
      <4> QED  BY <2>2, <2>3, <2>4, <2>5, <4>2, <4>3, <4>4 DEF n
    <3>2. CASE x \notin P
      <4>1. (T \cup {x}) \cap P = T \cap P  BY <3>2
      <4>2. g[x] = f[x] /\ m = n  BY <3>2, <4>1
      <4> HIDE DEF n, m
      <4> QED  BY <2>2, <2>3, <2>4, <2>5, <4>2 DEF n
    <3> QED  BY <3>1, <3>2
  <2> QED  BY <2>6
<1>3. S \in A
  <2> HIDE DEF A
  <2> QED  BY <1>1, <1>2, OneByOne
<1>4. S \cap P = P  OBVIOUS
<1> QED  BY <1>3, <1>4

\* The sum of a difference.
LEMMA SumMinus ==
  ASSUME NEW S, IsFiniteSet(S), NEW f, NEW g, NEW h,
         \A x \in S : f[x] \in Int /\ g[x] \in Int /\ h[x] = f[x] - g[x]
  PROVE  SumOf(h, S) = SumOf(f, S) - SumOf(g, S)
<1> DEFINE A == {T \in SUBSET S : SumOf(h, T) = SumOf(f, T) - SumOf(g, T)}
<1>1. {} \in A  BY SumOfNone
<1>2. ASSUME NEW T \in SUBSET S, NEW x \in S \ T, T \in A PROVE T \cup {x} \in A
  <2>0. IsFiniteSet(T)  BY FS_Subset
  <2>1. /\ \A y \in S : h[y] \in Int
        /\ \A y \in S : f[y] \in Int
        /\ \A y \in S : g[y] \in Int
    OBVIOUS
  <2>2. SumOf(f, T \cup {x}) = SumOf(f, T) + f[x] /\ SumOf(f, T) \in Int  BY <2>0, <2>1, SumAdd
  <2>3. SumOf(g, T \cup {x}) = SumOf(g, T) + g[x] /\ SumOf(g, T) \in Int  BY <2>0, <2>1, SumAdd
  <2>4. SumOf(h, T \cup {x}) = SumOf(h, T) + h[x]
    <3> HIDE DEF A
    <3> QED  BY <2>0, <2>1, SumAdd
  <2>5. SumOf(h, T) = SumOf(f, T) - SumOf(g, T)  BY <1>2
  <2>6. f[x] \in Int /\ g[x] \in Int /\ h[x] = f[x] - g[x]  OBVIOUS
  <2>7. SumOf(h, T \cup {x}) = SumOf(f, T \cup {x}) - SumOf(g, T \cup {x})
    BY <2>2, <2>3, <2>4, <2>5, <2>6
  <2> QED  BY <2>7
<1>3. S \in A
  <2> HIDE DEF A
  <2> QED  BY <1>1, <1>2, OneByOne
<1> QED  BY <1>3

\* Members that have nothing can be left out.
LEMMA SumOfPart ==
  ASSUME NEW S, IsFiniteSet(S), NEW P \in SUBSET S, NEW f,
         \A x \in S : f[x] \in Int, \A x \in S \ P : f[x] = 0
  PROVE  SumOf(f, S) = SumOf(f, P)
<1> DEFINE A == {T \in SUBSET S : SumOf(f, T) = SumOf(f, T \cap P)}
<1>1. {} \in A
  <2>1. {} \cap P = {}  OBVIOUS
  <2> QED  BY <2>1
<1>2. ASSUME NEW T \in SUBSET S, NEW x \in S \ T, T \in A PROVE T \cup {x} \in A
  <2>0. IsFiniteSet(T)  BY FS_Subset
  <2>1. SumOf(f, T \cup {x}) = SumOf(f, T) + f[x] /\ SumOf(f, T) \in Int  BY <2>0, SumAdd
  <2>2. CASE x \in P
    <3> DEFINE V == T \cap P
    <3>1. (T \cup {x}) \cap P = V \cup {x} /\ V \in SUBSET S /\ x \in S \ V  BY <2>2
    <3>2. SumOf(f, T) = SumOf(f, V)  BY <1>2
    <3> HIDE DEF V, A
    <3>3. SumOf(f, V \cup {x}) = SumOf(f, V) + f[x]
      <4>1. IsFiniteSet(V)  BY <3>1, FS_Subset
      <4> QED  BY <3>1, <4>1, SumAdd
    <3>4. SumOf(f, T \cup {x}) = SumOf(f, (T \cup {x}) \cap P)
      <4>1. SumOf(f, (T \cup {x}) \cap P) = SumOf(f, V \cup {x})  BY <3>1, Zenon
      <4> QED  BY <2>1, <3>2, <3>3, <4>1
    <3> QED  BY <3>4 DEF A
  <2>3. CASE x \notin P
    <3>1. (T \cup {x}) \cap P = T \cap P  BY <2>3
    <3>2. f[x] = 0  BY <2>3
    <3>3. SumOf(f, T) = SumOf(f, T \cap P)  BY <1>2
    <3>4. SumOf(f, (T \cup {x}) \cap P) = SumOf(f, T \cap P)  BY <3>1, Zenon
    <3>5. SumOf(f, T \cup {x}) = SumOf(f, (T \cup {x}) \cap P)
      <4> HIDE DEF A
      <4> QED  BY <2>1, <3>2, <3>3, <3>4
    <3> QED  BY <3>5
  <2> QED  BY <2>2, <2>3
<1>3. S \in A
  <2> HIDE DEF A
  <2> QED  BY <1>1, <1>2, OneByOne
<1>4. S \cap P = P  OBVIOUS
<1> QED  BY <1>3, <1>4

\* Counting.
LEMMA SumOfOnes ==
  ASSUME NEW S, IsFiniteSet(S), NEW f, \A x \in S : f[x] = 1
  PROVE  SumOf(f, S) = Cardinality(S)
<1> DEFINE A == {T \in SUBSET S : SumOf(f, T) = Cardinality(T)}
<1>1. {} \in A  BY SumOfNone, FS_EmptySet
<1>2. ASSUME NEW T \in SUBSET S, NEW x \in S \ T, T \in A PROVE T \cup {x} \in A
  <2>1. f[x] \in Int /\ (\A y \in T : f[y] \in Int) /\ f[x] = 1  OBVIOUS
  <2>2. IsFiniteSet(T)  BY FS_Subset
  <2>3. SumOf(f, T \cup {x}) = SumOf(f, T) + 1
    <3> HIDE DEF A
    <3> QED  BY <2>1, <2>2, SumAdd
  <2>4. Cardinality(T \cup {x}) = Cardinality(T) + 1  BY <2>2, FS_AddElement
  <2> QED  BY <1>2, <2>3, <2>4
<1>3. S \in A
  <2> HIDE DEF A
  <2> QED  BY <1>1, <1>2, OneByOne
<1> QED  BY <1>3

\* Two disjoint sets.
LEMMA SumOfUnion ==
  ASSUME NEW S, IsFiniteSet(S), NEW P \in SUBSET S, NEW Q \in SUBSET S, P \cap Q = {},
         NEW f, \A x \in S : f[x] \in Int
  PROVE  SumOf(f, P \cup Q) = SumOf(f, P) + SumOf(f, Q)
<1> DEFINE A == {T \in SUBSET Q : SumOf(f, P \cup T) = SumOf(f, P) + SumOf(f, T)}
<1>1. SumOf(f, P) \in Int
  <2>1. IsFiniteSet(P)  BY FS_Subset
  <2> QED  BY <2>1, SumRest
<1>2. {} \in A
  <2>1. P \cup {} = P  OBVIOUS
  <2> QED  BY <1>1, <2>1, SumOfNone
<1>3. ASSUME NEW T \in SUBSET Q, NEW x \in Q \ T, T \in A PROVE T \cup {x} \in A
  <2>1. P \cup (T \cup {x}) = (P \cup T) \cup {x} /\ x \in S \ (P \cup T) /\ x \in S \ T  OBVIOUS
  <2>0. IsFiniteSet(P \cup T) /\ IsFiniteSet(T)  BY FS_Subset
  <2>2. SumOf(f, (P \cup T) \cup {x}) = SumOf(f, P \cup T) + f[x]  BY <2>0, <2>1, SumAdd
  <2>3. SumOf(f, T \cup {x}) = SumOf(f, T) + f[x] /\ SumOf(f, T) \in Int  BY <2>0, <2>1, SumAdd
  <2>4. f[x] \in Int  BY <2>1
  <2>5. SumOf(f, P \cup T) = SumOf(f, P) + SumOf(f, T)  BY <1>3
  <2>6. SumOf(f, P \cup (T \cup {x})) = SumOf(f, (P \cup T) \cup {x})  BY <2>1, Zenon
  <2>7. SumOf(f, P \cup (T \cup {x})) = SumOf(f, P) + SumOf(f, T \cup {x})
    BY <1>1, <2>2, <2>3, <2>4, <2>5, <2>6
  <2> QED  BY <2>7
<1>4. Q \in A
  <2>1. IsFiniteSet(Q)  BY FS_Subset
  <2> HIDE DEF A
  <2> QED  BY <1>2, <1>3, <2>1, OneByOne
<1> QED  BY <1>4

\* The part of a set that has an owner.
Owned(S, owner, k) == {x \in S : owner[x] = k}

\* Adding up what the parts of a set add up to.
LEMMA SumOfSums ==
  ASSUME NEW S, IsFiniteSet(S), NEW K, IsFiniteSet(K), NEW owner, \A x \in S : owner[x] \in K,
         NEW f, \A x \in S : f[x] \in Int,
         NEW g, \A k \in K : g[k] = SumOf(f, Owned(S, owner, k))
  PROVE  SumOf(g, K) = SumOf(f, S)
<1> DEFINE A == {L \in SUBSET K : SumOf(g, L) = SumOf(f, {x \in S : owner[x] \in L})}
<1>1. \A k \in K : g[k] \in Int
  <2> SUFFICES ASSUME NEW k \in K PROVE g[k] \in Int  OBVIOUS
  <2> DEFINE P == Owned(S, owner, k)
  <2>0. P \in SUBSET S  BY DEF Owned
  <2>1. IsFiniteSet(P) /\ \A x \in P : f[x] \in Int  BY <2>0, FS_Subset
  <2> HIDE DEF P
  <2>2. SumOf(f, P) \in Int  BY <2>1, SumRest
  <2> QED  BY <2>2 DEF P
<1>2. {} \in A
  <2>1. {x \in S : owner[x] \in {}} = {}  OBVIOUS
  <2> QED  BY <2>1, SumOfNone
<1>3. ASSUME NEW L \in SUBSET K, NEW k \in K \ L, L \in A PROVE L \cup {k} \in A
  <2> DEFINE P == {x \in S : owner[x] \in L}
             Q == Owned(S, owner, k)
  <2>1. {x \in S : owner[x] \in L \cup {k}} = P \cup Q /\ P \cap Q = {}  BY DEF Owned
  <2>2. P \in SUBSET S /\ Q \in SUBSET S  BY DEF Owned
  <2>3. SumOf(g, L) = SumOf(f, P) /\ g[k] = SumOf(f, Q)  BY <1>3
  <2> HIDE DEF P, Q
  <2>4. SumOf(g, L \cup {k}) = SumOf(g, L) + g[k]
    <3>1. IsFiniteSet(L)  BY FS_Subset
    <3> HIDE DEF A
    <3> QED  BY <1>1, <3>1, SumAdd
  <2>5. SumOf(f, P \cup Q) = SumOf(f, P) + SumOf(f, Q)  BY <2>1, <2>2, SumOfUnion
  <2>6. SumOf(g, L \cup {k}) = SumOf(f, P \cup Q)  BY <2>3, <2>4, <2>5
  <2> QED  BY <2>1, <2>6
<1>4. K \in A
  <2> HIDE DEF A
  <2> QED  BY <1>2, <1>3, OneByOne
<1>5. {x \in S : owner[x] \in K} = S  OBVIOUS
<1> QED  BY <1>4, <1>5
-----------------------------------------------------------------------------
(***************************************************************************)
(* Folds over sequences.  FoldLeft takes an operator; the lemmas are about *)
(* the function on the subsets of the domain that is behind it, for a step *)
(* f that keeps what is folded in a set A.                                 *)
(***************************************************************************)

\* g follows F from base on, for the subsets of at most n members.
FollowsUpTo(D, A, base, c, F, g, n) ==
  /\ g \in [SUBSET D -> A]
  /\ \A s \in SUBSET D : Cardinality(s) <= n =>
       g[s] = IF s = {} THEN base ELSE F[s][g[s \ {c[s]}]]

Follows(D, A, base, c, F, g) ==
  /\ g \in [SUBSET D -> A]
  /\ \A s \in SUBSET D : g[s] = IF s = {} THEN base ELSE F[s][g[s \ {c[s]}]]

LEMMA RecursionGrows ==
  ASSUME NEW D, IsFiniteSet(D), NEW A, NEW base \in A,
         NEW c, \A s \in SUBSET D : s # {} => c[s] \in s,
         NEW F, \A s \in SUBSET D : \A a \in A : F[s][a] \in A,
         NEW n \in Nat, NEW g, FollowsUpTo(D, A, base, c, F, g, n)
  PROVE  \E h : FollowsUpTo(D, A, base, c, F, h, n + 1)
<1> DEFINE h == [s \in SUBSET D |->
                   IF s = {} THEN base
                   ELSE IF Cardinality(s) = n + 1 THEN F[s][g[s \ {c[s]}]] ELSE g[s]]
<1>1. g \in [SUBSET D -> A]  BY DEF FollowsUpTo
<1>2. h \in [SUBSET D -> A]
  <2>1. \A s \in SUBSET D : g[s] \in A /\ F[s][g[s \ {c[s]}]] \in A
    <3>1. \A s \in SUBSET D : s \ {c[s]} \in SUBSET D  OBVIOUS
    <3> QED  BY <1>1, <3>1
  <2> QED  BY <2>1
<1>3. ASSUME NEW s \in SUBSET D, Cardinality(s) <= n PROVE h[s] = g[s]
  <2>1. g[s] = IF s = {} THEN base ELSE F[s][g[s \ {c[s]}]]  BY <1>3 DEF FollowsUpTo
  <2>2. Cardinality(s) \in Nat  BY FS_Subset, FS_CardinalityType
  <2>3. Cardinality(s) # n + 1  BY <1>3, <2>2
  <2> QED  BY <2>1, <2>3
<1>4. ASSUME NEW s \in SUBSET D, Cardinality(s) <= n + 1
      PROVE  h[s] = IF s = {} THEN base ELSE F[s][h[s \ {c[s]}]]
  <2>1. CASE s = {}  BY <2>1
  <2>2. CASE s # {}
    <3> DEFINE r == s \ {c[s]}
    <3>1. IsFiniteSet(s) /\ Cardinality(s) \in Nat /\ c[s] \in s /\ r \in SUBSET D
      BY <2>2, FS_Subset, FS_CardinalityType
    <3>2. Cardinality(r) = Cardinality(s) - 1  BY <3>1, FS_RemoveElement
    <3> HIDE DEF r
    <3>3. h[r] = g[r]
      <4> HIDE DEF h
      <4> QED  BY <1>3, <1>4, <3>1, <3>2
    <3>4. h[s] = F[s][g[r]]
      <4>1. CASE Cardinality(s) = n + 1  BY <2>2, <4>1 DEF r
      <4>2. CASE Cardinality(s) # n + 1
        <5>1. Cardinality(s) <= n  BY <1>4, <3>1, <4>2
        <5>2. g[s] = F[s][g[r]]  BY <2>2, <5>1 DEF FollowsUpTo, r
        <5>3. h[s] = g[s]  BY <1>3, <5>1
        <5> HIDE DEF h
        <5> QED  BY <5>2, <5>3
      <4> QED  BY <4>1, <4>2
    <3> HIDE DEF h
    <3> QED  BY <2>2, <3>3, <3>4 DEF r
  <2> QED  BY <2>1, <2>2
<1> HIDE DEF h
<1> QED  BY <1>2, <1>4 DEF FollowsUpTo

LEMMA Recursion ==
  ASSUME NEW D, IsFiniteSet(D), NEW A, NEW base \in A,
         NEW c, \A s \in SUBSET D : s # {} => c[s] \in s,
         NEW F, \A s \in SUBSET D : \A a \in A : F[s][a] \in A
  PROVE  \E g : Follows(D, A, base, c, F, g)
<1> DEFINE N == {n \in Nat : \E g : FollowsUpTo(D, A, base, c, F, g, n)}
<1>1. 0 \in N
  <2> DEFINE g == [s \in SUBSET D |-> base]
  <2>1. \A s \in SUBSET D : Cardinality(s) <= 0 => s = {}
    BY FS_Subset, FS_CardinalityType, FS_EmptySet
  <2>2. FollowsUpTo(D, A, base, c, F, g, 0)  BY <2>1 DEF FollowsUpTo
  <2> QED  BY <2>2
<1>2. \A n \in Nat : n \in N => n + 1 \in N  BY RecursionGrows
<1>3. Cardinality(D) \in Nat /\ \A s \in SUBSET D : Cardinality(s) <= Cardinality(D)
  BY FS_Subset, FS_CardinalityType
<1>4. Cardinality(D) \in N
  <2> HIDE DEF N
  <2> QED  BY <1>1, <1>2, <1>3, Induction
<1>5. PICK g : FollowsUpTo(D, A, base, c, F, g, Cardinality(D))  BY <1>4
<1> QED  BY <1>3, <1>5 DEF FollowsUpTo, Follows

LEMMA Initials ==
  /\ 1..0 = {}
  /\ \A k \in Nat : k # 0 => 1..k # {} /\ Max(1..k) = k /\ (1..k) \ {k} = 1..(k - 1)
  /\ \A s : IsFiniteSet(s) /\ s # {} /\ s \subseteq Int => Max(s) \in s /\ \A y \in s : Max(s) >= y
<1>1. ASSUME NEW k \in Nat, k # 0
      PROVE  1..k # {} /\ Max(1..k) = k /\ (1..k) \ {k} = 1..(k - 1)
  <2>1. k \in 1..k /\ \A y \in 1..k : k >= y  BY <1>1
  <2>2. \A m \in 1..k : (\A y \in 1..k : m >= y) => m = k  BY <2>1
  <2>3. Max(1..k) = k
    <3> HIDE <1>1
    <3> QED  BY ONLY <2>1, <2>2, Zenon DEF Max
  <2> QED  BY <1>1, <2>1, <2>3
<1>2. ASSUME NEW s, IsFiniteSet(s), s # {}, s \subseteq Int PROVE Max(s) \in s /\ \A y \in s : Max(s) >= y
  <2> DEFINE A == {T \in SUBSET s : T # {} => \E x \in T : \A y \in T : x >= y}
  <2>1. {} \in A  OBVIOUS
  <2>2. ASSUME NEW T \in SUBSET s, NEW x \in s \ T, T \in A PROVE T \cup {x} \in A
    <3> DEFINE U == T \cup {x}
    <3>1. \E z \in U : \A y \in U : z >= y
      <4>1. CASE T = {}
        <5>1. x >= x  BY <1>2
        <5> QED  BY <4>1, <5>1
      <4>2. CASE T # {}
        <5>1. PICK m \in T : \A y \in T : m >= y  BY <2>2, <4>2
        <5>2. m \in Int /\ x \in Int /\ \A y \in T : y \in Int  BY <1>2
        <5>3. CASE m >= x  BY <5>1, <5>3
        <5>4. CASE x >= m
          <6>1. \A y \in T : x >= y  BY <5>1, <5>2, <5>4
          <6>2. x >= x  BY <5>2
          <6> QED  BY <6>1, <6>2
        <5> QED  BY <5>2, <5>3, <5>4
      <4> QED  BY <4>1, <4>2
    <3> QED  BY <3>1
  <2>3. s \in A
    <3> HIDE DEF A
    <3> QED  BY <1>2, <2>1, <2>2, OneByOne
  <2>4. \E x \in s : \A y \in s : x >= y  BY <1>2, <2>3
  <2> QED  BY <2>4 DEF Max
<1>3. 1..0 = {}  OBVIOUS
<1> QED  BY <1>1, <1>2, <1>3

\* g is the function behind the fold of seq to the left by f.
Folded(f, base, seq, g) ==
  g = [s \in SUBSET DOMAIN seq |-> IF s = {} THEN base ELSE f[g[s \ {Max(s)}]][seq[Max(s)]]]

LEMMA LeftFold ==
  ASSUME NEW S, NEW seq \in Seq(S), NEW A, NEW base \in A,
         NEW f, \A a \in A : \A x \in S : f[a][x] \in A
  PROVE  \E g : Folded(f, base, seq, g) /\ \A s \in SUBSET DOMAIN seq : g[s] \in A
<1> DEFINE D == DOMAIN seq
           c == [s \in SUBSET D |-> Max(s)]
           F == [s \in SUBSET D |-> [a \in A |-> IF s = {} THEN base ELSE f[a][seq[Max(s)]]]]
<1>1. D = 1..Len(seq) /\ Len(seq) \in Nat /\ \A i \in D : seq[i] \in S  OBVIOUS
<1>2. IsFiniteSet(D) /\ D \subseteq Int
  <2>1. IsFiniteSet(1..Len(seq))  BY <1>1, FS_Interval
  <2> QED  BY <1>1, <2>1
<1> HIDE DEF D
<1>3. \A s \in SUBSET D : s # {} => Max(s) \in s  BY <1>2, FS_Subset, Initials
<1>4. \A s \in SUBSET D : \A a \in A : F[s][a] = IF s = {} THEN base ELSE f[a][seq[Max(s)]]
  OBVIOUS
<1>5. \A s \in SUBSET D : \A a \in A : F[s][a] \in A
  <2> SUFFICES ASSUME NEW s \in SUBSET D, NEW a \in A PROVE F[s][a] \in A  OBVIOUS
  <2>1. s # {} => seq[Max(s)] \in S  BY <1>1, <1>3
  <2>2. F[s][a] = IF s = {} THEN base ELSE f[a][seq[Max(s)]]  BY <1>4
  <2> HIDE DEF F
  <2> QED  BY <2>1, <2>2
<1>6. \A s \in SUBSET D : s # {} => c[s] \in s  BY <1>3
<1>7. PICK g : Follows(D, A, base, c, F, g)
  <2> HIDE DEF c, F
  <2> QED  BY <1>2, <1>5, <1>6, Recursion
<1>8. \A s \in SUBSET D : g[s] = IF s = {} THEN base ELSE f[g[s \ {Max(s)}]][seq[Max(s)]]
  <2> TAKE s \in SUBSET D
  <2>1. c[s] = Max(s)  OBVIOUS
  <2>2. s \ {Max(s)} \in SUBSET D /\ g[s \ {Max(s)}] \in A  BY <1>7 DEF Follows
  <2> HIDE DEF c, F
  <2>3. g[s] = IF s = {} THEN base ELSE F[s][g[s \ {Max(s)}]]  BY <1>7, <2>1, Zenon DEF Follows
  <2>4. F[s][g[s \ {Max(s)}]] = IF s = {} THEN base ELSE f[g[s \ {Max(s)}]][seq[Max(s)]]
    BY <1>4, <2>2, Zenon
  <2> QED  BY <2>3, <2>4, Zenon
<1>9. g = [s \in SUBSET D |-> IF s = {} THEN base ELSE f[g[s \ {Max(s)}]][seq[Max(s)]]]
  BY <1>7, <1>8 DEF Follows
<1> HIDE DEF c, F
<1> QED  BY <1>7, <1>9 DEF D, Follows, Folded

LEMMA MaxIn ==
  ASSUME NEW S, NEW seq \in Seq(S), NEW s \in SUBSET DOMAIN seq, s # {}
  PROVE  Max(s) \in s
<1>1. IsFiniteSet(1..Len(seq))  BY FS_Interval
<1>2. IsFiniteSet(s) /\ s \subseteq Int  BY <1>1, FS_Subset
<1> QED  BY <1>2, Initials

\* t[k] is what the fold made of the first k members.
Course(g, t, n) ==
  /\ t[0] = g[{}] /\ t[n] = g[1..n]
  /\ \A k \in 1..n : \E s \in SUBSET (1..n) :
       s # {} /\ Max(s) = k /\ g[s] = t[k] /\ g[s \ {Max(s)}] = t[k - 1]

LEMMA FoldCourse ==
  ASSUME NEW S, NEW seq \in Seq(S), NEW A, NEW g, g[{}] \in A,
         \A s \in SUBSET DOMAIN seq : s # {} /\ g[s \ {Max(s)}] \in A => g[s] \in A
  PROVE  \E t \in [0..Len(seq) -> A] : Course(g, t, Len(seq))
<1> DEFINE n == Len(seq)
           t == [k \in 0..n |-> g[1..k]]
           N == {k \in Nat : k <= n => g[1..k] \in A}
<1>1. n \in Nat /\ DOMAIN seq = 1..n  OBVIOUS
<1> HIDE DEF n
<1>2. ASSUME NEW k \in 1..n
      PROVE  1..k # {} /\ Max(1..k) = k /\ (1..k) \ {Max(1..k)} = 1..(k - 1)
             /\ 1..k \in SUBSET (1..n) /\ k \in 0..n /\ k - 1 \in 0..n
  <2>1. k \in Nat /\ k # 0  BY <1>1
  <2>2. 1..k \in SUBSET (1..n) /\ k \in 0..n /\ k - 1 \in 0..n  BY <1>1
  <2>3. 1..k # {} /\ Max(1..k) = k /\ (1..k) \ {k} = 1..(k - 1)  BY <2>1, Initials
  <2> QED  BY <2>2, <2>3
<1>3. 0 \in N
  <2>1. 1..0 = {}  BY Initials
  <2> QED  BY <2>1
<1>4. ASSUME NEW k \in Nat, k \in N PROVE k + 1 \in N
  <2> SUFFICES ASSUME k + 1 <= n PROVE g[1..(k + 1)] \in A  OBVIOUS
  <2> DEFINE m == k + 1
             s == 1..m
  <2>1. m \in 1..n /\ m - 1 = k  BY <1>1
  <2>2. g[1..k] \in A  BY <1>1, <1>4
  <2>3. s # {} /\ s \ {Max(s)} = 1..(m - 1) /\ s \in SUBSET DOMAIN seq
    <3> HIDE DEF m
    <3> QED  BY <1>1, <1>2, <2>1
  <2>4. g[s \ {Max(s)}] \in A
    <3> HIDE DEF s, m
    <3> QED  BY <2>1, <2>2, <2>3
  <2> HIDE DEF s, m
  <2>5. g[s] \in A  BY <2>3, <2>4
  <2> QED  BY <2>5 DEF s, m
<1>5. \A k \in Nat : k \in N
  <2> HIDE DEF N
  <2> QED  BY <1>3, <1>4, Induction
<1>6. t \in [0..n -> A]
  <2>1. \A k \in 0..n : g[1..k] \in A  BY <1>1, <1>5
  <2> QED  BY <2>1
<1>7. \A k \in 0..n : t[k] = g[1..k]  OBVIOUS
<1> HIDE DEF t
<1>8. t[0] = g[{}] /\ t[n] = g[1..n]
  <2>1. 1..0 = {} /\ 0 \in 0..n /\ n \in 0..n  BY <1>1, Initials
  <2>2. t[0] = g[1..0]  BY <1>7, <2>1
  <2> QED  BY <1>7, <2>1, <2>2
<1>9. ASSUME NEW k \in 1..n
      PROVE  \E s \in SUBSET (1..n) : s # {} /\ Max(s) = k /\ g[s] = t[k] /\ g[s \ {Max(s)}] = t[k - 1]
  <2>1. g[1..k] = t[k] /\ g[1..(k - 1)] = t[k - 1]  BY <1>2, <1>7
  <2>2. g[(1..k) \ {Max(1..k)}] = t[k - 1]  BY <1>2, <2>1
  <2> QED  BY <1>2, <2>1, <2>2
<1> QED  BY <1>6, <1>8, <1>9 DEF Course, n

\* What holds before the first member and is kept by each holds at the end.
LEMMA Steps ==
  ASSUME NEW n \in Nat, NEW I, NEW t, t[0] \in I[0],
         \A k \in 1..n : t[k - 1] \in I[k - 1] => t[k] \in I[k]
  PROVE  t[n] \in I[n]
<1> DEFINE N == {k \in Nat : k <= n => t[k] \in I[k]}
<1>1. 0 \in N  OBVIOUS
<1>2. ASSUME NEW k \in Nat, k \in N PROVE k + 1 \in N
  <2> SUFFICES ASSUME k + 1 <= n PROVE t[k + 1] \in I[k + 1]  OBVIOUS
  <2>1. t[k] \in I[k]  BY <1>2
  <2>2. k + 1 \in 1..n /\ (k + 1) - 1 = k  OBVIOUS
  <2> QED  BY <2>1, <2>2
<1>3. n \in N
  <2> HIDE DEF N
  <2> QED  BY <1>1, <1>2, Induction
<1> QED  BY <1>3

LEMMA LeastIn ==
  ASSUME NEW s, s \subseteq Nat, s # {}
  PROVE  Min(s) \in s /\ \A x \in s : Min(s) <= x
<1>1. PICK R : IsWellFoundedOn(R, Nat) /\ \A m, n \in Nat : m < n => <<m, n>> \in R
  BY NatOrder
<1>2. PICK x \in s : \A y \in s : <<y, x>> \notin R
  BY ONLY <1>1, s \subseteq Nat, s # {}, WFMin, Zenon
<1>3. \A y \in s : x <= y
  <2> SUFFICES ASSUME NEW y \in s, ~(x <= y) PROVE FALSE  OBVIOUS
  <2>1. x \in Nat /\ y \in Nat /\ y < x  OBVIOUS
  <2> QED  BY <1>1, <1>2, <2>1
<1> QED  BY <1>3 DEF Min

-----------------------------------------------------------------------------
(***************************************************************************)
(* Totals of sequences: what they are of a sequence that is longer or has  *)
(* one member changed, and of a set whose members have other names.        *)
(***************************************************************************)
\* What a function gives the members of a sequence, added up.
SeqValues(m, s) == [i \in DOMAIN s |-> m[s[i]]]
SeqTotal(m, s) == SumOf(SeqValues(m, s), DOMAIN s)

LEMMA ValuesType ==
  ASSUME NEW S, NEW m \in [S -> Nat], NEW s \in Seq(S)
  PROVE  /\ DOMAIN s = 1..Len(s) /\ Len(s) \in Nat /\ IsFiniteSet(DOMAIN s)
         /\ SeqValues(m, s) \in [DOMAIN s -> Nat] /\ SeqTotal(m, s) \in Nat
<1>1. DOMAIN s = 1..Len(s) /\ Len(s) \in Nat  OBVIOUS
<1>2. IsFiniteSet(DOMAIN s)  BY <1>1, FS_Interval
<1>3. SeqValues(m, s) \in [DOMAIN s -> Nat]  BY <1>1 DEF SeqValues
<1>4. \A i \in DOMAIN s : SeqValues(m, s)[i] \in Nat  BY <1>3
<1>5. SeqTotal(m, s) \in Nat  BY <1>2, <1>4, SumIsNat DEF SeqTotal
<1> QED  BY <1>1, <1>2, <1>3, <1>5

LEMMA TotalOfNone == \A m : SeqTotal(m, <<>>) = 0
<1>1. DOMAIN <<>> = {}  OBVIOUS
<1> QED  BY <1>1, SumOfNone DEF SeqTotal

LEMMA TotalOfZeros ==
  ASSUME NEW S, NEW m \in [S -> Nat], NEW s \in Seq(S), \A i \in DOMAIN s : m[s[i]] = 0
  PROVE  SeqTotal(m, s) = 0
<1> DEFINE f == SeqValues(m, s)
           D == DOMAIN s
<1>1. IsFiniteSet(D) /\ {} \in SUBSET D /\ (\A i \in D : f[i] \in Int) /\ \A i \in D \ {} : f[i] = 0
  BY ValuesType DEF SeqValues
<1> HIDE DEF f, D
<1>2. SumOf(f, D) = SumOf(f, {})  BY ONLY <1>1, SumOfPart
<1> QED  BY <1>2, SumOfNone DEF SeqTotal, f, D

LEMMA TotalAppend ==
  ASSUME NEW S, NEW m \in [S -> Nat], NEW s \in Seq(S), NEW x \in S
  PROVE  SeqTotal(m, Append(s, x)) = SeqTotal(m, s) + m[x]
<1> DEFINE longer == Append(s, x)
           n == Len(s) + 1
           f == SeqValues(m, longer)
<1>1. /\ longer \in Seq(S) /\ DOMAIN longer = DOMAIN s \cup {n} /\ n \notin DOMAIN s
      /\ longer[n] = x /\ \A i \in DOMAIN s : longer[i] = s[i]
  OBVIOUS
<1> HIDE DEF longer, n
<1> DEFINE g == SeqValues(m, s)
<1>2. f[n] = m[x] /\ f[n] \in Int /\ \A i \in DOMAIN s : f[i] \in Int /\ f[i] = g[i]
  BY <1>1, ValuesType DEF SeqValues
<1>3. IsFiniteSet(DOMAIN s)  BY ValuesType
<1> DEFINE D == DOMAIN s
<1>4. IsFiniteSet(D) /\ n \notin D /\ f[n] \in Int /\ (\A i \in D : f[i] \in Int) /\ \A i \in D : f[i] \in Int /\ f[i] = g[i]
  BY <1>1, <1>2, <1>3
<1> HIDE DEF D, f, g
<1>5. SumOf(f, D \cup {n}) = SumOf(f, D) + f[n]  BY ONLY <1>4, SumAdd
<1>6. SumOf(f, D) = SumOf(g, D)  BY ONLY <1>4, SumSame
<1> QED  BY <1>1, <1>2, <1>5, <1>6 DEF SeqTotal, D, f, g, longer

LEMMA TotalChange ==
  ASSUME NEW S, NEW m \in [S -> Nat], NEW s \in Seq(S), NEW i \in DOMAIN s, NEW x \in S
  PROVE  SeqTotal(m, [s EXCEPT ![i] = x]) = SeqTotal(m, s) + (m[x] - m[s[i]])
<1> DEFINE r == [s EXCEPT ![i] = x]
           f == SeqValues(m, s)
           g == SeqValues(m, r)
           d == m[x] - m[s[i]]
<1>0. m[x] \in Nat /\ m[s[i]] \in Nat  OBVIOUS
<1>1. DOMAIN r = DOMAIN s /\ \A j \in DOMAIN s : r[j] = IF j = i THEN x ELSE s[j]  OBVIOUS
<1> HIDE DEF r
<1>2. \A j \in DOMAIN s : s[j] \in S  OBVIOUS
<1>3. d \in Int /\ \A j \in DOMAIN s : f[j] \in Int /\ f[j] = m[s[j]]
  <2>1. \A j \in DOMAIN s : f[j] = m[s[j]] /\ m[s[j]] \in Nat  BY <1>2 DEF SeqValues
  <2> QED  BY <1>0, <2>1
<1>4. \A j \in DOMAIN s : g[j] = IF j = i THEN f[j] + d ELSE f[j]  BY <1>1, <1>2, <1>3 DEF SeqValues
<1>5. IsFiniteSet(DOMAIN s)  BY ValuesType
<1> DEFINE D == DOMAIN s
<1>6. /\ IsFiniteSet(D) /\ i \in D /\ d \in Int
      /\ (\A y \in D : f[y] \in Int) /\ \A y \in D : g[y] = IF y = i THEN f[y] + d ELSE f[y]
  BY <1>3, <1>4, <1>5
<1> HIDE DEF f, g, d, D
<1>7. SumOf(g, D) = SumOf(f, D) + d  BY ONLY <1>6, SumChange
<1> QED  BY <1>1, <1>7 DEF SeqTotal, f, g, d, D, r

\* The sum of the first so many grows by each next one.
LEMMA TotalSoFar ==
  ASSUME NEW S, NEW m \in [S -> Nat], NEW s \in Seq(S), NEW k \in 1..Len(s)
  PROVE  /\ SumOf(SeqValues(m, s), 1..k) = SumOf(SeqValues(m, s), 1..(k - 1)) + m[s[k]]
         /\ SumOf(SeqValues(m, s), 1..(k - 1)) \in Nat /\ m[s[k]] \in Nat
<1> DEFINE f == SeqValues(m, s)
<1>1. k \in Nat /\ k - 1 \in Nat /\ 1..k = (1..(k - 1)) \cup {k} /\ k \notin 1..(k - 1)  OBVIOUS
<1>2. \A j \in 1..k : j \in DOMAIN s  BY ValuesType
<1>3. f[k] = m[s[k]] /\ f[k] \in Nat /\ \A j \in 1..(k - 1) : f[j] \in Nat
  <2>1. f \in [DOMAIN s -> Nat]  BY ValuesType
  <2>2. k \in DOMAIN s  BY <1>1, <1>2
  <2> QED  BY <1>1, <1>2, <2>1, <2>2 DEF SeqValues
<1> DEFINE T == 1..(k - 1)
<1>4. IsFiniteSet(T) /\ k \notin T /\ f[k] \in Int /\ \A j \in T : f[j] \in Int
  <2>1. IsFiniteSet(T)  BY <1>1, FS_Interval
  <2> QED  BY <1>1, <1>3, <2>1
<1>5. \A j \in T : f[j] \in Nat  BY <1>3
<1> HIDE DEF f, T
<1>6. SumOf(f, T \cup {k}) = SumOf(f, T) + f[k]  BY <1>4, SumAdd
<1>7. SumOf(f, T) \in Nat  BY <1>4, <1>5, SumIsNat
<1> QED  BY <1>1, <1>3, <1>6, <1>7 DEF f, T

Renames(h, S, T) ==
  /\ h \in [S -> T]
  /\ \A x, y \in S : h[x] = h[y] => x = y
  /\ \A z \in T : \E x \in S : h[x] = z

KeepsValues(h, S, f, g) == \A x \in S : f[x] \in Int /\ g[h[x]] = f[x]

\* Members of a set under other names have the same sum.
LEMMA SumRenamed ==
  ASSUME NEW S, IsFiniteSet(S), NEW T, NEW h, Renames(h, S, T), NEW f, NEW g, KeepsValues(h, S, f, g)
  PROVE  SumOf(g, T) = SumOf(f, S)
<1> USE DEF Renames, KeepsValues
<1>1. h \in Surjection(S, T)  BY DEF Surjection
<1>2. IsFiniteSet(T)  BY <1>1, FS_Surjection
<1>3. ASSUME NEW z \in T PROVE g[z] = SumOf(f, Owned(S, h, z))
  <2>1. PICK x \in S : h[x] = z  OBVIOUS
  <2>2. Owned(S, h, z) = {x}  BY <2>1 DEF Owned
  <2>3. SumOf(f, {x}) = f[x] + SumOf(f, {})
    <3> DEFINE E == {x}
    <3>1. IsFiniteSet(E) /\ x \in E /\ E \ {x} = {}  BY FS_Singleton
    <3>2. \A y \in E : f[y] \in Int  OBVIOUS
    <3> HIDE DEF E
    <3>3. SumOf(f, E) = f[x] + SumOf(f, E \ {x})  BY <3>1, <3>2, SumRest
    <3> QED  BY <3>1, <3>3 DEF E
  <2>4. SumOf(f, {}) = 0 /\ f[x] \in Int /\ g[z] = f[x]  BY <2>1, SumOfNone
  <2> QED  BY <2>2, <2>3, <2>4
<1> QED  BY <1>2, <1>3, SumOfSums
=================================================================================
