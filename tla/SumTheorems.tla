---------------------------- MODULE SumTheorems ----------------------------
(***************************************************************************)
(* What SumFunctionOnSet computes.  The community modules define it by     *)
(* recursion over the subsets of a set; here it gets the equations that    *)
(* proofs about sums need.  The inductions are over sets of numbers, so    *)
(* that no operator has to be passed to a theorem.                         *)
(***************************************************************************)
EXTENDS Naturals, FiniteSets, Functions, FiniteSetTheorems, WellFoundedInduction, TLAPS

LEMMA LessIsWellFounded == IsWellFoundedOn({ss \in Nat \X Nat : ss[1] < ss[2]}, Nat)
  BY NatLessThanWellFounded DEF OpToRel

\* A set of numbers that is not empty has a least element.
LEMMA Least ==
  ASSUME NEW T, T \subseteq Nat, T # {}
  PROVE  \E n \in T : \A m \in T : n <= m
<1> DEFINE Less == {ss \in Nat \X Nat : ss[1] < ss[2]}
<1>1. IsWellFoundedOn(Less, Nat)
  BY LessIsWellFounded
<1>2. \E n \in T : \A m \in T : ~ (<<m, n>> \in Less)
  <2> HIDE DEF Less
  <2> QED BY <1>1, WFMin
<1>3. \A m, n \in Nat : m < n => <<m, n>> \in Less
  OBVIOUS
<1> HIDE DEF Less
<1>4. PICK n \in T : \A m \in T : ~ (<<m, n>> \in Less)
  BY <1>2
<1>5. \A m \in T : ~ (m < n)
  BY <1>3, <1>4
<1> QED BY <1>5

\* Induction, with a set for the property.
LEMMA SetInduction ==
  ASSUME NEW T, 0 \in T, \A n \in Nat : n \in T => n + 1 \in T
  PROVE  Nat \subseteq T
<1> SUFFICES ASSUME Nat \ T # {} PROVE FALSE
  OBVIOUS
<1>1. PICK n \in Nat \ T : \A m \in Nat \ T : n <= m
  <2>1. Nat \ T \subseteq Nat
    OBVIOUS
  <2> QED BY <2>1, Least
<1>2. n # 0 /\ n - 1 \in Nat /\ n - 1 < n
  BY <1>1
<1>3. n - 1 \in T
  BY <1>1, <1>2
<1>4. (n - 1) + 1 \in T
  BY <1>2, <1>3
<1> QED BY <1>1, <1>4

-----------------------------------------------------------------------------
(* The recursion behind SumFunctionOnSet                                     *)

Some(s) == CHOOSE x \in s : TRUE

\* What the sum of s is, given the sums of what is smaller.
SumFrom(f, g, s) == IF s = {} THEN 0 ELSE f[Some(s)] + g[s \ {Some(s)}]

IsSum(f, S, g) == g = [s \in SUBSET S |-> SumFrom(f, g, s)]

UpTo(S, n) == {s \in SUBSET S : Cardinality(s) <= n}

LEMMA SumIs ==
  ASSUME NEW f, NEW S
  PROVE  SumFunctionOnSet(f, S) = (CHOOSE g : IsSum(f, S, g))[S]
  BY DEF SumFunctionOnSet, FoldFunctionOnSet, MapThenFoldSet, IsSum, SumFrom, Some

LEMMA SomeFacts ==
  ASSUME NEW S, IsFiniteSet(S), S # {}
  PROVE  /\ Some(S) \in S
         /\ IsFiniteSet(S \ {Some(S)})
         /\ Cardinality(S) \in Nat \ {0}
         /\ Cardinality(S \ {Some(S)}) = Cardinality(S) - 1
<1>1. Some(S) \in S
  BY DEF Some
<1>2. Cardinality(S) \in Nat /\ Cardinality(S) # 0
  BY FS_CardinalityType, FS_EmptySet
<1>3. /\ IsFiniteSet(S \ {Some(S)})
      /\ Cardinality(S \ {Some(S)}) = Cardinality(S) - 1
  BY <1>1, FS_RemoveElement
<1> QED BY <1>1, <1>2, <1>3

LEMMA SumExists ==
  ASSUME NEW f, NEW S, IsFiniteSet(S)
  PROVE  \E g : IsSum(f, S, g)
<1> DEFINE Good(n, g) == g = [s \in UpTo(S, n) |-> SumFrom(f, g, s)]
           T == {n \in Nat : \E g : Good(n, g)}
<1>1. \A s \in SUBSET S : IsFiniteSet(s) /\ Cardinality(s) \in Nat
  BY FS_Subset, FS_CardinalityType
<1>2. 0 \in T
  <2>1. UpTo(S, 0) = {{}}
    BY <1>1, FS_EmptySet DEF UpTo
  <2>2. Good(0, [s \in UpTo(S, 0) |-> 0])
    BY <2>1 DEF SumFrom
  <2> QED BY <2>2
<1>3. ASSUME NEW n \in Nat, n \in T PROVE n + 1 \in T
  <2>1. PICK g : Good(n, g)
    BY <1>3
  <2> DEFINE h == [s \in UpTo(S, n + 1) |-> SumFrom(f, g, s)]
  <2>2. ASSUME NEW s \in UpTo(S, n + 1), s # {}
        PROVE  h[s \ {Some(s)}] = g[s \ {Some(s)}]
    <3> DEFINE rest == s \ {Some(s)}
    <3>1. s \in SUBSET S /\ Cardinality(s) <= n + 1
      BY DEF UpTo
    <3>2. Cardinality(rest) = Cardinality(s) - 1 /\ Cardinality(s) \in Nat
      BY <1>1, <2>2, <3>1, SomeFacts
    <3>3. rest \in UpTo(S, n) /\ rest \in UpTo(S, n + 1)
      <4>1. rest \in SUBSET S
        BY <3>1
      <4>2. Cardinality(rest) <= n /\ Cardinality(rest) <= n + 1
        BY <3>1, <3>2
      <4> QED BY <4>1, <4>2 DEF UpTo
    <3>4. g[rest] = SumFrom(f, g, rest)
      <4> HIDE DEF rest
      <4>1. [s_1 \in UpTo(S, n) |-> SumFrom(f, g, s_1)][rest] = SumFrom(f, g, rest)
        BY <3>3
      <4> QED BY <2>1, <4>1
    <3>5. h[rest] = SumFrom(f, g, rest)
      <4> HIDE DEF rest
      <4> QED BY <3>3
    <3> QED BY <3>4, <3>5
  <2>3. \A s \in UpTo(S, n + 1) : SumFrom(f, g, s) = SumFrom(f, h, s)
    <3> HIDE DEF h
    <3> QED BY <2>2 DEF SumFrom
  <2>4. Good(n + 1, h)
    BY <2>3
  <2> HIDE DEF Good, h
  <2> QED BY <2>4
<1>4. Cardinality(S) \in T
  <2> HIDE DEF T
  <2>1. Nat \subseteq T
    BY <1>2, <1>3, SetInduction
  <2> QED BY <2>1, FS_CardinalityType
<1>5. UpTo(S, Cardinality(S)) = SUBSET S
  BY FS_Subset DEF UpTo
<1>6. PICK g : Good(Cardinality(S), g)
  BY <1>4
<1>7. IsSum(f, S, g)
  BY <1>5, <1>6 DEF IsSum
<1> QED BY <1>7

\* Two tables of sums agree where they overlap.
LEMMA SumsAgree ==
  ASSUME NEW f, NEW S, IsFiniteSet(S), NEW U \in SUBSET S,
         NEW g, IsSum(f, S, g), NEW h, IsSum(f, U, h)
  PROVE  g[U] = h[U]
<1> DEFINE T == {n \in Nat : \E s \in SUBSET U : Cardinality(s) = n /\ g[s] # h[s]}
<1>1. \A s \in SUBSET U : IsFiniteSet(s) /\ Cardinality(s) \in Nat
  BY FS_Subset, FS_CardinalityType
<1>2. \A s \in SUBSET U : g[s] = SumFrom(f, g, s) /\ h[s] = SumFrom(f, h, s)
  <2>1. \A s \in SUBSET U : s \in SUBSET S
    OBVIOUS
  <2>2. \A s \in SUBSET S : g[s] = SumFrom(f, g, s)
    BY DEF IsSum
  <2>3. \A s \in SUBSET U : h[s] = SumFrom(f, h, s)
    BY DEF IsSum
  <2> QED BY <2>1, <2>2, <2>3
<1>3. ASSUME NEW n \in T, \A m \in T : n <= m PROVE FALSE
  <2>1. PICK s \in SUBSET U : Cardinality(s) = n /\ g[s] # h[s]
    OBVIOUS
  <2>2. s # {}
    BY <1>2, <2>1 DEF SumFrom
  <2>3. /\ s \ {Some(s)} \in SUBSET U
        /\ Cardinality(s \ {Some(s)}) = n - 1 /\ n \in Nat \ {0}
    BY <1>1, <2>1, <2>2, SomeFacts
  <2>4. n - 1 \notin T /\ n - 1 \in Nat
    BY <1>3, <2>3
  <2>5. g[s \ {Some(s)}] = h[s \ {Some(s)}]
    BY <2>3, <2>4
  <2> QED BY <1>2, <2>1, <2>2, <2>5 DEF SumFrom
<1>4. T = {}
  <2>1. T \subseteq Nat
    OBVIOUS
  <2> HIDE DEF T
  <2> QED BY <1>3, <2>1, Least
<1> QED BY <1>1, <1>4

-----------------------------------------------------------------------------
(* The equations                                                            *)

LEMMA SumByRecursion ==
  ASSUME NEW f, NEW S, IsFiniteSet(S)
  PROVE  SumFunctionOnSet(f, S)
           = IF S = {} THEN 0 ELSE f[Some(S)] + SumFunctionOnSet(f, S \ {Some(S)})
<1> DEFINE g == CHOOSE g_1 : IsSum(f, S, g_1)
<1>1. IsSum(f, S, g)
  BY SumExists
<1>2. SumFunctionOnSet(f, S) = g[S]
  BY SumIs
<1> HIDE DEF g
<1>3. g[S] = SumFrom(f, g, S)
  BY <1>1 DEF IsSum
<1>4. CASE S = {}
  BY <1>2, <1>3, <1>4 DEF SumFrom
<1>5. CASE S # {}
  <2> DEFINE U == S \ {Some(S)}
             h == CHOOSE g_1 : IsSum(f, U, g_1)
  <2>1. IsFiniteSet(U) /\ U \in SUBSET S
    BY <1>5, SomeFacts
  <2> HIDE DEF U
  <2>2. IsSum(f, U, h)
    BY <2>1, SumExists
  <2>3. SumFunctionOnSet(f, U) = h[U]
    BY SumIs
  <2> HIDE DEF h
  <2>4. g[U] = h[U]
    BY <1>1, <2>1, <2>2, SumsAgree
  <2> QED BY <1>2, <1>3, <1>5, <2>3, <2>4 DEF SumFrom, U
<1> QED BY <1>4, <1>5

LEMMA SumOfNothing ==
  ASSUME NEW f
  PROVE  SumFunctionOnSet(f, {}) = 0
  BY SumByRecursion, FS_EmptySet

\* The sum of numbers is a number.
LEMMA SumIsNat ==
  ASSUME NEW f, NEW S, IsFiniteSet(S), \A x \in S : f[x] \in Nat
  PROVE  SumFunctionOnSet(f, S) \in Nat
<1> DEFINE T == {n \in Nat : \A s \in SUBSET S : Cardinality(s) = n => SumFunctionOnSet(f, s) \in Nat}
<1>1. \A s \in SUBSET S : IsFiniteSet(s) /\ Cardinality(s) \in Nat
  BY FS_Subset, FS_CardinalityType
<1>2. 0 \in T
  BY <1>1, SumOfNothing, FS_EmptySet
<1>3. ASSUME NEW n \in Nat, n \in T PROVE n + 1 \in T
  <2>1. ASSUME NEW s \in SUBSET S, Cardinality(s) = n + 1
        PROVE  SumFunctionOnSet(f, s) \in Nat
    <3>1. s # {} /\ IsFiniteSet(s)
      BY <1>1, <2>1, FS_EmptySet
    <3>2. /\ Some(s) \in s /\ s \ {Some(s)} \in SUBSET S
          /\ Cardinality(s \ {Some(s)}) = n
      BY <2>1, <3>1, SomeFacts
    <3>3. SumFunctionOnSet(f, s \ {Some(s)}) \in Nat
      BY <1>3, <3>2
    <3>4. f[Some(s)] \in Nat
      BY <3>2
    <3>5. SumFunctionOnSet(f, s) = f[Some(s)] + SumFunctionOnSet(f, s \ {Some(s)})
      BY <3>1, SumByRecursion
    <3> QED BY <3>3, <3>4, <3>5
  <2> QED BY <2>1
<1>4. Nat \subseteq T
  <2> HIDE DEF T
  <2> QED BY <1>2, <1>3, SetInduction
<1> QED BY <1>1, <1>4

\* A sum can be taken apart at any of its elements.
THEOREM SumTakesApart ==
  ASSUME NEW f, NEW S, IsFiniteSet(S), \A x \in S : f[x] \in Nat, NEW a \in S
  PROVE  SumFunctionOnSet(f, S) = f[a] + SumFunctionOnSet(f, S \ {a})
<1> DEFINE T == {n \in Nat : \A s \in SUBSET S : Cardinality(s) = n =>
                   \A x \in s : SumFunctionOnSet(f, s) = f[x] + SumFunctionOnSet(f, s \ {x})}
<1>1. \A s \in SUBSET S : IsFiniteSet(s) /\ Cardinality(s) \in Nat
  BY FS_Subset, FS_CardinalityType
<1>2. 0 \in T
  BY <1>1, FS_EmptySet
<1>3. ASSUME NEW n \in Nat, n \in T PROVE n + 1 \in T
  <2>1. ASSUME NEW s \in SUBSET S, Cardinality(s) = n + 1, NEW x \in s
        PROVE  SumFunctionOnSet(f, s) = f[x] + SumFunctionOnSet(f, s \ {x})
    <3> DEFINE y == Some(s)
    <3>1. s # {} /\ IsFiniteSet(s)
      BY <1>1, <2>1
    <3>2. y \in s /\ Cardinality(s \ {y}) = n
      BY <2>1, <3>1, SomeFacts
    <3>3. SumFunctionOnSet(f, s) = f[y] + SumFunctionOnSet(f, s \ {y})
      BY <3>1, SumByRecursion
    <3> HIDE DEF y
    <3>4. CASE x = y
      BY <3>3, <3>4
    <3>5. CASE x # y
      <4>1. Cardinality(s \ {x}) = n
        <5>1. Cardinality(s \ {x}) = Cardinality(s) - 1
          BY <3>1, FS_RemoveElement
        <5> QED BY <2>1, <5>1
      <4>2. /\ s \ {x} \in SUBSET S /\ s \ {y} \in SUBSET S
            /\ x \in s \ {y} /\ y \in s \ {x}
            /\ (s \ {x}) \ {y} = (s \ {y}) \ {x}
        BY <3>2, <3>5
      <4> DEFINE rest == SumFunctionOnSet(f, (s \ {y}) \ {x})
      <4>3. SumFunctionOnSet(f, s \ {y}) = f[x] + rest
        BY <1>3, <3>2, <4>2
      <4>4. SumFunctionOnSet(f, s \ {x}) = f[y] + rest
        BY <1>3, <4>1, <4>2
      <4>5. f[x] \in Nat /\ f[y] \in Nat
        BY <3>2
      <4>6. rest \in Nat
        <5>1. (s \ {y}) \ {x} \in SUBSET S
          OBVIOUS
        <5>2. \A z \in (s \ {y}) \ {x} : f[z] \in Nat
          BY <5>1
        <5> QED BY <1>1, <5>1, <5>2, SumIsNat
      <4> HIDE DEF rest
      <4> QED BY <3>3, <4>3, <4>4, <4>5, <4>6
    <3> QED BY <3>4, <3>5
  <2> QED BY <2>1
<1>4. Nat \subseteq T
  <2> HIDE DEF T
  <2> QED BY <1>2, <1>3, SetInduction
<1>5. S \in SUBSET S /\ Cardinality(S) \in T
  BY <1>1, <1>4
<1> QED BY <1>5

\* And grows by what is added.
LEMMA SumGrows ==
  ASSUME NEW f, NEW S, IsFiniteSet(S), \A x \in S : f[x] \in Nat,
         NEW a, a \notin S, f[a] \in Nat
  PROVE  SumFunctionOnSet(f, S \cup {a}) = SumFunctionOnSet(f, S) + f[a]
<1>1. IsFiniteSet(S \cup {a}) /\ (S \cup {a}) \ {a} = S
  BY FS_AddElement
<1>2. SumFunctionOnSet(f, S \cup {a}) = f[a] + SumFunctionOnSet(f, S)
  BY <1>1, SumTakesApart
<1>3. SumFunctionOnSet(f, S) \in Nat
  BY SumIsNat
<1> QED BY <1>2, <1>3
=============================================================================
