--------------------------- MODULE MatchingProofs ---------------------------
(***************************************************************************)
(* Theorems about Matching, for any ids, prices, quantities, window, pool  *)
(* size and rule on self-matches, and any sequence of submissions and      *)
(* cancels.  The loop of cross() is followed turn by turn: what it has     *)
(* taken out of the book is the first orders by price-time priority of     *)
(* those the incoming order may meet.                                      *)
(***************************************************************************)
EXTENDS Matching, SequenceTheorems, FiniteSetTheorems, WellFoundedInduction, TLAPS

\* A nonempty set of naturals has a least element.
LEMMA LeastExists ==
  ASSUME NEW S \in SUBSET Nat, S # {}
  PROVE  \E n \in S : \A m \in S : n <= m
<1>1. PICK n \in S : \A m \in S : ~(<<m, n>> \in OpToRel(<, Nat))
  BY WFMin, NatLessThanWellFounded
<1> SUFFICES ASSUME NEW m \in S PROVE n <= m
  BY <1>1
<1>2. <<m, n>> \notin OpToRel(<, Nat)
  BY <1>1
<1>3. ~(m < n)
  BY <1>2 DEF OpToRel
<1> QED
  BY <1>3

-----------------------------------------------------------------------------
(***************************************************************************)
(* Sums over finite sets.                                                  *)
(***************************************************************************)
\* The element a fold takes first.
First(s) == CHOOSE x \in s : TRUE

\* g is the sum of f over every part of U.
Sums(g, U, f) ==
  \A s \in SUBSET U : g[s] = IF s = {} THEN 0 ELSE f[First(s)] + g[s \ {First(s)}]

\* Of the parts of a finite set with a property, one has the fewest elements.
LEMMA FewestExist ==
  ASSUME NEW U, IsFiniteSet(U), NEW B \in SUBSET (SUBSET U), B # {}
  PROVE  \E s \in B : \A t \in B : Cardinality(s) <= Cardinality(t)
<1> DEFINE Count(t) == Cardinality(t)
           N == {Count(t) : t \in B}
<1>1. \A t \in SUBSET U : Count(t) \in Nat
  BY FS_Subset, FS_CardinalityType
<1> HIDE DEF Count
<1>2. N \in SUBSET Nat /\ N # {}
  BY <1>1
<1>3. PICK n \in N : \A m \in N : n <= m
  BY <1>2, LeastExists
<1>4. PICK s \in B : n = Count(s)
  BY <1>3
<1> QED
  BY <1>3, <1>4 DEF Count

\* A part without one of its elements has one less.
LEMMA OneLess ==
  ASSUME NEW U, IsFiniteSet(U), NEW s \in SUBSET U, NEW x \in s
  PROVE  /\ s \ {x} \in SUBSET U /\ Cardinality(s) \in Nat
         /\ Cardinality(s \ {x}) = Cardinality(s) - 1
<1>1. IsFiniteSet(s)
  BY FS_Subset
<1> QED
  BY <1>1, FS_RemoveElement, FS_CardinalityType

\* There are such sums.
LEMMA SumsExist ==
  ASSUME NEW U, IsFiniteSet(U), NEW f
  PROVE  \E g : g = [s \in SUBSET U |-> g[s]] /\ Sums(g, U, f)
<1> DEFINE Count(s) == Cardinality(s)
           Value(g, s) == IF s = {} THEN 0 ELSE f[First(s)] + g[s \ {First(s)}]
           UpTo(g, n) == /\ g = [s \in SUBSET U |-> g[s]]
                         /\ \A s \in SUBSET U : Count(s) <= n => g[s] = Value(g, s)
           Bad == {n \in Nat : ~\E g : UpTo(g, n)}
<1>1. /\ \A s \in SUBSET U : Count(s) \in Nat /\ (Count(s) = 0 <=> s = {})
      /\ \A s \in SUBSET U : Count(s) <= Count(U)
      /\ Count(U) \in Nat
  BY FS_Subset, FS_CardinalityType, FS_EmptySet
<1>2. \A s \in SUBSET U : s # {} => /\ First(s) \in s /\ s \ {First(s)} \in SUBSET U
                                    /\ Count(s \ {First(s)}) = Count(s) - 1
  BY OneLess DEF First
<1> HIDE DEF Count
<1>3. Bad = {}
  <2> SUFFICES ASSUME Bad # {} PROVE FALSE
    OBVIOUS
  <2>1. PICK n \in Bad : \A m \in Bad : n <= m
    <3>1. Bad \in SUBSET Nat
      OBVIOUS
    <3> HIDE DEF Bad
    <3> QED
      BY <3>1, LeastExists
  <2>2. n \in Nat /\ ~\E g : UpTo(g, n)
    BY <2>1
  <2>3. CASE n = 0
    <3> DEFINE g == [s \in SUBSET U |-> 0]
    <3>1. g = [s \in SUBSET U |-> g[s]]
      OBVIOUS
    <3>2. \A s \in SUBSET U : Count(s) <= 0 => s = {}
      BY <1>1
    <3>3. \A s \in SUBSET U : Count(s) <= 0 => g[s] = Value(g, s)
      BY <3>2
    <3> HIDE DEF g
    <3> QED
      BY <2>2, <2>3, <3>1, <3>3
  <2>4. CASE n # 0
    <3>1. n - 1 \in Nat /\ n - 1 \notin Bad
      <4>1. n - 1 \in Nat /\ ~(n <= n - 1)
        BY <2>2, <2>4
      <4> HIDE DEF Bad
      <4> QED
        BY <2>1, <4>1
    <3>2. PICK g : UpTo(g, n - 1)
      BY <3>1
    <3> DEFINE h == [s \in SUBSET U |-> IF Count(s) = n THEN Value(g, s) ELSE g[s]]
    <3>3. h = [s \in SUBSET U |-> h[s]]
      OBVIOUS
    <3>4. \A s \in SUBSET U : Count(s) <= n => h[s] = Value(h, s)
      <4> SUFFICES ASSUME NEW s \in SUBSET U, Count(s) <= n PROVE h[s] = Value(h, s)
        OBVIOUS
      <4>1. h[s] = Value(g, s)
        <5>1. CASE Count(s) = n
          BY <5>1
        <5>2. CASE Count(s) # n
          <6>1. Count(s) <= n - 1
            BY <1>1, <2>2, <5>2
          <6>2. g[s] = Value(g, s)
            BY <3>2, <6>1
          <6>3. h[s] = g[s]
            BY <5>2
          <6> QED
            BY <6>2, <6>3
        <5> QED
          BY <5>1, <5>2
      <4>2. CASE s = {}
        BY <4>1, <4>2
      <4>3. CASE s # {}
        <5> DEFINE t == s \ {First(s)}
        <5>1. t \in SUBSET U /\ Count(t) # n
          BY <1>1, <1>2, <2>2, <4>3
        <5> HIDE DEF t
        <5>2. h[t] = g[t]
          BY <5>1
        <5> QED
          BY <4>1, <4>3, <5>2 DEF t
      <4> QED
        BY <4>2, <4>3
    <3> HIDE DEF h
    <3> QED
      BY <2>2, <3>3, <3>4
  <2> QED
    BY <2>3, <2>4
<1>4. PICK g : UpTo(g, Count(U))
  BY <1>1, <1>3
<1>5. Sums(g, U, f)
  BY <1>1, <1>4 DEF Sums
<1> QED
  BY <1>4, <1>5

\* And only one for each part.
LEMMA SumsAgree ==
  ASSUME NEW U, IsFiniteSet(U), NEW V \in SUBSET U, NEW f, NEW g, NEW h,
         Sums(g, U, f), Sums(h, V, f), NEW s \in SUBSET V
  PROVE  g[s] = h[s]
<1> DEFINE B == {t \in SUBSET V : g[t] # h[t]}
<1>1. B = {}
  <2> SUFFICES ASSUME B # {} PROVE FALSE
    OBVIOUS
  <2>1. IsFiniteSet(V) /\ B \in SUBSET (SUBSET V)
    BY FS_Subset
  <2>2. PICK t \in B : \A u \in B : Cardinality(t) <= Cardinality(u)
    <3> HIDE DEF B
    <3> QED
      BY <2>1, FewestExist
  <2>3. t # {}
    BY <2>2 DEF Sums
  <2> DEFINE x == First(t)
  <2>4. x \in t
    BY <2>3 DEF First
  <2>5. /\ t \ {x} \in SUBSET V /\ Cardinality(t) \in Nat
        /\ Cardinality(t \ {x}) = Cardinality(t) - 1
    BY <2>1, <2>2, <2>4, OneLess
  <2>6. t \ {x} \notin B
    BY <2>2, <2>5
  <2>7. g[t \ {x}] = h[t \ {x}]
    BY <2>5, <2>6
  <2>8. g[t] = f[x] + g[t \ {x}] /\ h[t] = f[x] + h[t \ {x}]
    BY <2>2, <2>3 DEF Sums
  <2> QED
    BY <2>2, <2>7, <2>8
<1> QED
  BY <1>1

\* SumOver is that sum.
LEMMA SumIs ==
  ASSUME NEW U, IsFiniteSet(U), NEW f, NEW g, Sums(g, U, f), NEW V \in SUBSET U
  PROVE  SumOver(V, f) = g[V]
<1> DEFINE Folds(h) == h = [s \in SUBSET V |->
                  IF s = {} THEN 0 ELSE f[First(s)] + h[s \ {First(s)}]]
           fold == CHOOSE h : Folds(h)
<1>1. SumOver(V, f) = fold[V]
  BY Zenon DEF SumOver, SX!SumFunctionOnSet, SX!FoldFunctionOnSet, SX!MapThenFoldSet, First
<1>2. IsFiniteSet(V)
  BY FS_Subset
<1>3. \E h : Folds(h)
  <2>1. PICK h : h = [s \in SUBSET V |-> h[s]] /\ Sums(h, V, f)
    BY <1>2, SumsExist
  <2>2. \A s \in SUBSET V : h[s] = IF s = {} THEN 0 ELSE f[First(s)] + h[s \ {First(s)}]
    BY <2>1 DEF Sums
  <2>3. Folds(h)
    BY <2>1, <2>2
  <2> QED
    BY <2>3
<1>4. Folds(fold)
  BY <1>3, Zenon
<1> HIDE DEF fold
<1>5. Sums(fold, V, f)
  BY <1>4 DEF Sums
<1>6. V \in SUBSET V
  OBVIOUS
<1> QED
  BY <1>1, <1>5, <1>6, SumsAgree

\* Nothing adds up to nothing.
LEMMA SumOfNothing ==
  ASSUME NEW f
  PROVE  SumOver({}, f) = 0
<1>1. IsFiniteSet({})
  BY FS_EmptySet
<1>2. PICK g : Sums(g, {}, f)
  BY <1>1, SumsExist
<1>3. g[{}] = 0
  BY <1>2 DEF Sums
<1>4. {} \in SUBSET {}
  OBVIOUS
<1> QED
  BY <1>1, <1>2, <1>3, <1>4, SumIs

\* A sum is that of the values over the set.
LEMMA SumsOfTheSame ==
  ASSUME NEW S, IsFiniteSet(S), NEW f, NEW h, \A x \in S : f[x] = h[x]
  PROVE  SumOver(S, f) = SumOver(S, h)
<1>1. PICK g : Sums(g, S, f)
  BY SumsExist
<1>2. \A s \in SUBSET S : s # {} => First(s) \in S
  BY DEF First
<1>3. Sums(g, S, h)
  BY <1>1, <1>2 DEF Sums
<1>4. S \in SUBSET S
  OBVIOUS
<1> QED
  BY <1>1, <1>3, <1>4, SumIs

\* Whichever element is taken out first, a sum is its value and the rest.
LEMMA AnyFirst ==
  ASSUME NEW U, IsFiniteSet(U), NEW f, \A x \in U : f[x] \in Int, NEW g, Sums(g, U, f)
  PROVE  /\ \A s \in SUBSET U : g[s] \in Int
         /\ \A s \in SUBSET U : \A x \in s : g[s] = f[x] + g[s \ {x}]
<1>1. \A s \in SUBSET U : g[s] \in Int
  <2> DEFINE B == {s \in SUBSET U : g[s] \notin Int}
  <2> SUFFICES ASSUME B # {} PROVE FALSE
    OBVIOUS
  <2>1. PICK t \in B : \A u \in B : Cardinality(t) <= Cardinality(u)
    <3>1. B \in SUBSET (SUBSET U)
      OBVIOUS
    <3> HIDE DEF B
    <3> QED
      BY <3>1, FewestExist
  <2>2. t # {}
    BY <2>1 DEF Sums
  <2> DEFINE x == First(t)
  <2>3. x \in t /\ x \in U
    BY <2>1, <2>2 DEF First
  <2>4. /\ t \ {x} \in SUBSET U /\ Cardinality(t) \in Nat
        /\ Cardinality(t \ {x}) = Cardinality(t) - 1
    BY <2>1, <2>3, OneLess
  <2>5. g[t \ {x}] \in Int
    BY <2>1, <2>4
  <2>6. g[t] = f[x] + g[t \ {x}]
    BY <2>1, <2>2 DEF Sums
  <2> QED
    BY <2>1, <2>3, <2>5, <2>6
<1>2. \A s \in SUBSET U : \A x \in s : g[s] = f[x] + g[s \ {x}]
  <2> DEFINE B == {s \in SUBSET U : \E x \in s : g[s] # f[x] + g[s \ {x}]}
  <2> SUFFICES ASSUME B # {} PROVE FALSE
    OBVIOUS
  <2>1. PICK t \in B : \A u \in B : Cardinality(t) <= Cardinality(u)
    <3>1. B \in SUBSET (SUBSET U)
      OBVIOUS
    <3> HIDE DEF B
    <3> QED
      BY <3>1, FewestExist
  <2>2. PICK x \in t : g[t] # f[x] + g[t \ {x}]
    BY <2>1
  <2> DEFINE c == First(t)
             rest == (t \ {x}) \ {c}
  <2>3. c \in t /\ c \in U /\ x \in U /\ t \in SUBSET U
    BY <2>1, <2>2 DEF First
  <2>4. g[t] = f[c] + g[t \ {c}]
    BY <2>2, <2>3 DEF Sums
  <2>5. c # x
    BY <2>2, <2>4
  <2> HIDE DEF c
  <2>6. /\ t \ {c} \in SUBSET U /\ Cardinality(t) \in Nat
        /\ Cardinality(t \ {c}) = Cardinality(t) - 1
        /\ t \ {x} \in SUBSET U /\ Cardinality(t \ {x}) = Cardinality(t) - 1
    BY <2>3, OneLess
  <2>7. t \ {c} \notin B /\ t \ {x} \notin B
    BY <2>1, <2>6, SMTT(30)
  <2>8. g[t \ {c}] = f[x] + g[(t \ {c}) \ {x}] /\ g[t \ {x}] = f[c] + g[rest]
    BY <2>3, <2>5, <2>6, <2>7
  <2>9. (t \ {c}) \ {x} = rest /\ rest \in SUBSET U
    BY <2>3
  <2>10. g[rest] \in Int /\ f[x] \in Int /\ f[c] \in Int
    BY <1>1, <2>3, <2>9
  <2>11. g[t \ {c}] = f[x] + g[rest]
    BY <2>8, <2>9
  <2>12. g[t \ {x}] = f[c] + g[rest]
    BY <2>8
  <2> HIDE DEF rest
  <2>13. g[t] = f[c] + (f[x] + g[rest]) /\ f[x] + g[t \ {x}] = f[x] + (f[c] + g[rest])
    BY <2>4, <2>11, <2>12
  <2> QED
    BY <2>2, <2>10, <2>13
<1> QED
  BY <1>1, <1>2

\* One element more.
LEMMA SumOfOneMore ==
  ASSUME NEW S, IsFiniteSet(S), NEW f, \A y \in S : f[y] \in Int, NEW x, x \notin S,
         f[x] \in Int
  PROVE  /\ SumOver(S, f) \in Int
         /\ SumOver(S \cup {x}, f) = SumOver(S, f) + f[x]
<1> DEFINE U == S \cup {x}
<1>1. IsFiniteSet(U) /\ \A y \in U : f[y] \in Int
  BY FS_AddElement
<1>2. PICK g : Sums(g, U, f)
  BY <1>1, SumsExist
<1>3. U \in SUBSET U /\ S \in SUBSET U /\ x \in U /\ U \ {x} = S
  OBVIOUS
<1> HIDE DEF U
<1>4. SumOver(U, f) = g[U] /\ SumOver(S, f) = g[S]
  BY <1>1, <1>2, <1>3, SumIs
<1>5. g[U] = f[x] + g[S] /\ g[S] \in Int
  BY <1>1, <1>2, <1>3, AnyFirst
<1> QED
  BY <1>4, <1>5 DEF U

\* The sum of one.
LEMMA SumOfOne ==
  ASSUME NEW f, NEW x, f[x] \in Int
  PROVE  SumOver({x}, f) = f[x]
<1>1. IsFiniteSet({}) /\ {} \cup {x} = {x}
  BY FS_EmptySet
<1>2. SumOver({} \cup {x}, f) = SumOver({}, f) + f[x]
  BY <1>1, SumOfOneMore
<1> QED
  BY <1>1, <1>2, SumOfNothing

\* Sums of sizes: a part adds up to no more than the whole, and to as much when
\* what it leaves out is zero.
LEMMA SumOfAPart ==
  ASSUME NEW U, IsFiniteSet(U), NEW f, \A x \in U : f[x] \in Nat, NEW S \in SUBSET U
  PROVE  /\ SumOver(S, f) \in Nat /\ SumOver(U, f) \in Nat
         /\ SumOver(S, f) <= SumOver(U, f)
         /\ (\A x \in U \ S : f[x] = 0) => SumOver(S, f) = SumOver(U, f)
<1>1. PICK g : Sums(g, U, f)
  BY SumsExist
<1>2. /\ \A s \in SUBSET U : g[s] \in Int
      /\ \A s \in SUBSET U : \A x \in s : g[s] = f[x] + g[s \ {x}]
  BY <1>1, AnyFirst
<1> DEFINE Fits(t) ==
      /\ S \subseteq t => g[S] <= g[t]
      /\ S \subseteq t /\ (\A x \in t \ S : f[x] = 0) => g[S] = g[t]
           B == {t \in SUBSET U : ~(g[t] \in Nat)}
           C == {t \in SUBSET U : ~Fits(t)}
<1>3. B = {}
  <2> SUFFICES ASSUME B # {} PROVE FALSE
    OBVIOUS
  <2>1. PICK t \in B : \A u \in B : Cardinality(t) <= Cardinality(u)
    <3>1. B \in SUBSET (SUBSET U)
      OBVIOUS
    <3> HIDE DEF B
    <3> QED
      BY <3>1, FewestExist
  <2>2. t # {}
    <3>1. t \in SUBSET U /\ g[t] \notin Nat
      BY <2>1
    <3>2. t = {} => g[t] = 0
      BY <1>1, <3>1 DEF Sums
    <3> QED
      BY <3>1, <3>2
  <2>3. PICK x \in t : TRUE
    BY <2>2
  <2>4. /\ t \ {x} \in SUBSET U /\ Cardinality(t) \in Nat
        /\ Cardinality(t \ {x}) = Cardinality(t) - 1
    BY <2>1, <2>3, OneLess
  <2>5. g[t \ {x}] \in Nat
    BY <2>1, <2>4
  <2>6. g[t] = f[x] + g[t \ {x}] /\ f[x] \in Nat
    BY <1>2, <2>1, <2>3
  <2> QED
    BY <2>1, <2>5, <2>6
<1>4. C = {}
  <2> SUFFICES ASSUME C # {} PROVE FALSE
    OBVIOUS
  <2>1. PICK t \in C : \A u \in C : Cardinality(t) <= Cardinality(u)
    <3>1. C \in SUBSET (SUBSET U)
      OBVIOUS
    <3> HIDE DEF C
    <3> QED
      BY <3>1, FewestExist
  <2>2. t \in SUBSET U /\ ~Fits(t)
    BY <2>1
  <2>3. S \subseteq t /\ t # S
    BY <1>2, <2>2
  <2>4. PICK x \in t : x \notin S
    BY <2>3
  <2> DEFINE u == t \ {x}
  <2>5. u \in SUBSET U /\ Cardinality(t) \in Nat /\ Cardinality(u) = Cardinality(t) - 1
    BY <2>2, <2>4, OneLess
  <2>6. u \notin C
    BY <2>1, <2>5
  <2>7. S \subseteq u /\ x \in U
    BY <2>2, <2>3, <2>4
  <2>8. /\ g[S] <= g[u]
        /\ (\A y \in u \ S : f[y] = 0) => g[S] = g[u]
    BY <2>5, <2>6, <2>7
  <2>9. g[t] = f[x] + g[u] /\ f[x] \in Nat /\ g[u] \in Int /\ g[S] \in Int
    BY <1>2, <2>2, <2>4, <2>5
  <2>10. (\A y \in t \ S : f[y] = 0) => f[x] = 0 /\ \A y \in u \ S : f[y] = 0
    BY <2>4
  <2> HIDE DEF u
  <2> QED
    BY <2>2, <2>8, <2>9, <2>10
<1>5. U \in SUBSET U
  OBVIOUS
<1>6. SumOver(S, f) = g[S] /\ SumOver(U, f) = g[U]
  BY <1>1, <1>5, SumIs
<1>7. g[S] \in Nat /\ g[U] \in Nat
  BY <1>3, <1>5
<1>8. Fits(U)
  BY <1>4, <1>5
<1> QED
  BY <1>6, <1>7, <1>8


\* Greater values make a greater sum.
LEMMA SumsCompare ==
  ASSUME NEW S, IsFiniteSet(S), NEW f, NEW h,
         \A x \in S : f[x] \in Int /\ h[x] \in Int /\ f[x] <= h[x]
  PROVE  SumOver(S, f) <= SumOver(S, h)
<1>1. PICK g : Sums(g, S, f)
  BY SumsExist
<1>2. PICK e : Sums(e, S, h)
  BY SumsExist
<1>3. /\ \A s \in SUBSET S : g[s] \in Int /\ e[s] \in Int
      /\ \A s \in SUBSET S : \A x \in s : g[s] = f[x] + g[s \ {x}] /\ e[s] = h[x] + e[s \ {x}]
  <2>1. /\ \A s \in SUBSET S : g[s] \in Int
        /\ \A s \in SUBSET S : \A x \in s : g[s] = f[x] + g[s \ {x}]
    BY <1>1, AnyFirst
  <2>2. /\ \A s \in SUBSET S : e[s] \in Int
        /\ \A s \in SUBSET S : \A x \in s : e[s] = h[x] + e[s \ {x}]
    BY <1>2, AnyFirst
  <2> QED
    BY <2>1, <2>2
<1> DEFINE B == {s \in SUBSET S : ~(g[s] <= e[s])}
<1>4. B = {}
  <2> SUFFICES ASSUME B # {} PROVE FALSE
    OBVIOUS
  <2>1. PICK t \in B : \A u \in B : Cardinality(t) <= Cardinality(u)
    <3>1. B \in SUBSET (SUBSET S)
      OBVIOUS
    <3> HIDE DEF B
    <3> QED
      BY <3>1, FewestExist
  <2>2. t \in SUBSET S /\ ~(g[t] <= e[t])
    BY <2>1
  <2>3. t # {}
    <3>1. t = {} => g[t] = 0 /\ e[t] = 0
      BY <1>1, <1>2, <2>2 DEF Sums
    <3> QED
      BY <2>2, <3>1
  <2>4. PICK x \in t : TRUE
    BY <2>3
  <2> DEFINE u == t \ {x}
  <2>5. u \in SUBSET S /\ ~(Cardinality(t) <= Cardinality(u))
    BY <2>2, <2>4, OneLess
  <2>6. g[u] <= e[u]
    BY <2>1, <2>5
  <2>7. g[t] = f[x] + g[u] /\ e[t] = h[x] + e[u] /\ g[u] \in Int /\ e[u] \in Int
    BY <1>3, <2>2, <2>4, <2>5
  <2>8. f[x] \in Int /\ h[x] \in Int /\ f[x] <= h[x]
    BY <2>2, <2>4
  <2> HIDE DEF u
  <2> QED
    BY <2>2, <2>6, <2>7, <2>8
<1>5. S \in SUBSET S
  OBVIOUS
<1>6. g[S] <= e[S]
  BY <1>4, <1>5
<1> QED
  BY <1>1, <1>2, <1>5, <1>6, SumIs

-----------------------------------------------------------------------------
(***************************************************************************)
(* Books in which no id rests twice, and what calls do to where orders     *)
(* rest.                                                                   *)
(***************************************************************************)
RestingOrder == [id : Ids, qty : Nat \ {0}, mine : BOOLEAN]
Books == [Sides -> [Prices -> Seq(RestingOrder)]]

\* Order x is the i-th of the queue at p.
Rests(b, x, sd, p, i) ==
  sd \in Sides /\ p \in Prices /\ i \in 1 .. Len(b[sd][p]) /\ b[sd][p][i].id = x

RestsOnce(b) ==
  \A x, sd, p, i, t, r, j : Rests(b, x, sd, p, i) /\ Rests(b, x, t, r, j) => sd = t /\ p = r /\ i = j

IsSound(b) == b \in Books /\ RestsOnce(b)

\* A queue of a book.
LEMMA QueueIs ==
  ASSUME NEW b \in Books, NEW sd \in Sides, NEW p \in Prices
  PROVE  /\ b[sd][p] \in Seq(RestingOrder) /\ Len(b[sd][p]) \in Nat
         /\ DOMAIN b[sd][p] = 1 .. Len(b[sd][p])
         /\ \A i \in 1 .. Len(b[sd][p]) :
              /\ b[sd][p][i] \in RestingOrder
              /\ b[sd][p][i].id \in Ids /\ b[sd][p][i].qty \in Nat \ {0} /\ b[sd][p][i].mine \in BOOLEAN
<1>1. b[sd][p] \in Seq(RestingOrder)
  BY DEF Books
<1>2. Len(b[sd][p]) \in Nat /\ DOMAIN b[sd][p] = 1 .. Len(b[sd][p])
  BY <1>1, LenProperties
<1>3. \A i \in 1 .. Len(b[sd][p]) : b[sd][p][i] \in RestingOrder
  BY <1>1, ElementOfSeq
<1>4. \A e \in RestingOrder : e.id \in Ids /\ e.qty \in Nat \ {0} /\ e.mine \in BOOLEAN
  BY DEF RestingOrder
<1> QED
  BY <1>1, <1>2, <1>3, <1>4

\* An order that rests is known, and where it rests is where it is found.
LEMMA RestsIsFound ==
  ASSUME NEW b, IsSound(b), NEW x, NEW sd, NEW p, NEW i, Rests(b, x, sd, p, i)
  PROVE  /\ Known(b, x) /\ x \in LiveOrders(b)
         /\ Where(b, x) = <<sd, p>> /\ Place(b, x) = i /\ Queue(b, x) = b[sd][p]
         /\ EntryOf(b, x) = b[sd][p][i] /\ QtyOf(b, x) = b[sd][p][i].qty
<1>1. sd \in Sides /\ p \in Prices /\ i \in 1 .. Len(b[sd][p]) /\ b[sd][p][i].id = x
  BY DEF Rests
<1>2. b \in Books /\ RestsOnce(b)
  BY DEF IsSound
<1>3. DOMAIN b[sd][p] = 1 .. Len(b[sd][p]) /\ b[sd][p][i].id \in Ids
  BY <1>1, <1>2, QueueIs
<1>4. IsAt(b, x, sd, p)
  BY <1>1, <1>3 DEF IsAt, IdsIn
<1>5. Known(b, x) /\ x \in LiveOrders(b)
  BY <1>1, <1>3, <1>4 DEF Known, LiveOrders
<1>6. \A t \in Sides, r \in Prices : IsAt(b, x, t, r) => \E j : Rests(b, x, t, r, j)
  BY <1>2, QueueIs DEF IsAt, IdsIn, Rests
<1>7. \A t \in Sides, r \in Prices : IsAt(b, x, t, r) => t = sd /\ r = p
  BY <1>2, <1>6 DEF RestsOnce
<1>8. Where(b, x) = <<sd, p>>
  <2>1. <<sd, p>> \in Sides \X Prices /\ IsAt(b, x, <<sd, p>>[1], <<sd, p>>[2])
    BY <1>1, <1>4
  <2>2. \A w \in Sides \X Prices : IsAt(b, x, w[1], w[2]) => w = <<sd, p>>
    BY <1>7
  <2> QED
    BY <2>1, <2>2, Zenon DEF Where
<1>9. Queue(b, x) = b[sd][p]
  BY <1>8 DEF Queue
<1>10. Place(b, x) = i
  <2>1. i \in DOMAIN Queue(b, x) /\ Queue(b, x)[i].id = x
    BY <1>1, <1>3, <1>9
  <2>2. \A j \in DOMAIN Queue(b, x) : Queue(b, x)[j].id = x => j = i
    <3> SUFFICES ASSUME NEW j \in DOMAIN Queue(b, x), Queue(b, x)[j].id = x PROVE j = i
      OBVIOUS
    <3>1. Rests(b, x, sd, p, j)
      BY <1>1, <1>3, <1>9 DEF Rests
    <3> QED
      BY <1>2, <3>1 DEF RestsOnce
  <2> QED
    BY <2>1, <2>2, Zenon DEF Place
<1> QED
  BY <1>5, <1>8, <1>9, <1>10 DEF EntryOf, QtyOf

\* A known order rests somewhere.
LEMMA KnownRests ==
  ASSUME NEW b, IsSound(b), NEW x, Known(b, x)
  PROVE  /\ x \in LiveOrders(b) /\ x \in Ids
         /\ Rests(b, x, Where(b, x)[1], Where(b, x)[2], Place(b, x))
         /\ Where(b, x)[1] \in Sides /\ Where(b, x)[2] \in Prices /\ Place(b, x) \in Nat
         /\ Where(b, x) = <<Where(b, x)[1], Where(b, x)[2]>>
         /\ EntryOf(b, x) \in RestingOrder /\ EntryOf(b, x).mine \in BOOLEAN /\ EntryOf(b, x).id = x
         /\ QtyOf(b, x) \in Nat \ {0} /\ QtyOf(b, x) = EntryOf(b, x).qty
<1>1. PICK sd \in Sides, p \in Prices : IsAt(b, x, sd, p)
  BY DEF Known
<1>2. b \in Books
  BY DEF IsSound
<1>3. PICK i \in 1 .. Len(b[sd][p]) : b[sd][p][i].id = x
  BY <1>1, <1>2, QueueIs DEF IsAt, IdsIn
<1>4. Rests(b, x, sd, p, i)
  BY <1>3 DEF Rests
<1>5. /\ x \in LiveOrders(b) /\ Where(b, x) = <<sd, p>> /\ Place(b, x) = i
      /\ EntryOf(b, x) = b[sd][p][i] /\ QtyOf(b, x) = b[sd][p][i].qty
  BY <1>4, RestsIsFound
<1>6. /\ b[sd][p][i] \in RestingOrder /\ b[sd][p][i].id \in Ids
      /\ b[sd][p][i].qty \in Nat \ {0} /\ b[sd][p][i].mine \in BOOLEAN
  BY <1>2, QueueIs
<1>7. Where(b, x)[1] = sd /\ Where(b, x)[2] = p
  BY <1>5
<1>8. i \in Nat
  BY <1>2, QueueIs
<1> QED
  BY <1>3, <1>4, <1>5, <1>6, <1>7, <1>8

\* The orders of a book, and what is known of them.
LEMMA LiveIs ==
  ASSUME NEW b, IsSound(b)
  PROVE  /\ \A x : x \in LiveOrders(b) <=> Known(b, x)
         /\ \A x : x \in LiveOrders(b) <=> \E sd, p, i : Rests(b, x, sd, p, i)
         /\ LiveOrders(b) \subseteq Ids
<1>1. \A x : Known(b, x) => x \in LiveOrders(b) /\ \E sd, p, i : Rests(b, x, sd, p, i)
  BY KnownRests
<1>2. \A x : (\E sd, p, i : Rests(b, x, sd, p, i)) => Known(b, x)
  BY RestsIsFound
<1>3. \A x : x \in LiveOrders(b) => Known(b, x) /\ x \in Ids
  BY DEF LiveOrders
<1> QED
  BY <1>1, <1>2, <1>3

\* What is not known has no quantity.
LEMMA NoQtyUnknown ==
  ASSUME NEW b, NEW x, x \notin LiveOrders(b), IsSound(b)
  PROVE  QtyOf(b, x) = 0
BY LiveIs DEF QtyOf

\* Book c is book b without order x.
Leaves(b, c, x) ==
  /\ IsSound(c)
  /\ LiveOrders(c) = LiveOrders(b) \ {x}
  /\ \A y \in LiveOrders(c) : Where(c, y) = Where(b, y) /\ EntryOf(c, y) = EntryOf(b, y)
  /\ \A y, z \in LiveOrders(c) : HasPriority(c, y, z) <=> HasPriority(b, y, z)

\* Book c is book b with n less of order x.
Shrinks(b, c, x, n) ==
  /\ IsSound(c)
  /\ LiveOrders(c) = LiveOrders(b)
  /\ \A y \in LiveOrders(b) : Where(c, y) = Where(b, y) /\ EntryOf(c, y).mine = EntryOf(b, y).mine
  /\ \A y \in LiveOrders(b) : QtyOf(c, y) = IF y = x THEN QtyOf(b, y) - n ELSE QtyOf(b, y)
  /\ \A y, z \in LiveOrders(b) : HasPriority(c, y, z) <=> HasPriority(b, y, z)

\* A sequence without the item at i.
LEMMA RemoveAtIs ==
  ASSUME NEW S, NEW q \in Seq(S), NEW i \in 1 .. Len(q)
  PROVE  /\ SX!RemoveAt(q, i) \in Seq(S)
         /\ Len(SX!RemoveAt(q, i)) = Len(q) - 1
         /\ \A k \in 1 .. Len(q) - 1 :
              SX!RemoveAt(q, i)[k] = IF k < i THEN q[k] ELSE q[k + 1]
<1> DEFINE n == Len(q)
           a == SubSeq(q, 1, i - 1)
           b == SubSeq(q, i + 1, n)
<1>1. n \in Nat /\ i - 1 \in 0 .. n /\ i \in Nat /\ i \in 1 .. n
  BY LenProperties
<1>2. \A k \in 1 .. n : q[k] \in S
  BY ElementOfSeq
<1>3. a \in Seq(S) /\ Len(a) = i - 1 /\ \A k \in 1 .. i - 1 : a[k] = q[k]
  <2>1. 1 \in Int /\ i - 1 \in Int /\ \A k \in 1 .. i - 1 : q[k] \in S
    BY <1>1, <1>2
  <2>2. /\ a \in Seq(S) /\ Len(a) = IF 1 <= i - 1 THEN i - 1 - 1 + 1 ELSE 0
        /\ \A k \in 1 .. i - 1 - 1 + 1 : a[k] = q[1 + k - 1]
    BY <2>1, SubSeqProperties
  <2> HIDE DEF a
  <2>3. i - 1 - 1 + 1 = i - 1 /\ \A k \in 1 .. i - 1 : 1 + k - 1 = k
    BY <1>1
  <2> QED
    BY <1>1, <2>2, <2>3
<1>4. /\ b \in Seq(S) /\ Len(b) = IF i + 1 <= n THEN n - (i + 1) + 1 ELSE 0
      /\ \A k \in 1 .. n - (i + 1) + 1 : b[k] = q[i + 1 + k - 1]
  <2>1. i + 1 \in Int /\ n \in Int /\ \A k \in i + 1 .. n : q[k] \in S
    BY <1>1, <1>2
  <2> QED
    BY <2>1, SubSeqProperties
<1>5. SX!RemoveAt(q, i) = a \o b
  BY DEF SX!RemoveAt
<1> HIDE DEF n, a, b
<1>6. Len(b) = n - i
  BY <1>1, <1>4
<1>7. /\ a \o b \in Seq(S) /\ Len(a \o b) = Len(a) + Len(b)
      /\ \A k \in 1 .. Len(a) + Len(b) : (a \o b)[k] = IF k <= Len(a) THEN a[k] ELSE b[k - Len(a)]
  BY <1>3, <1>4, ConcatProperties
<1>8. Len(a) + Len(b) = n - 1
  BY <1>1, <1>3, <1>6
<1>9. ASSUME NEW k \in 1 .. n - 1
      PROVE  (a \o b)[k] = IF k < i THEN q[k] ELSE q[k + 1]
  <2>1. (a \o b)[k] = IF k <= i - 1 THEN a[k] ELSE b[k - (i - 1)]
    BY <1>3, <1>7, <1>8
  <2>2. CASE k < i
    <3>1. k \in 1 .. i - 1 /\ k <= i - 1
      BY <1>1, <2>2
    <3> QED
      BY <1>3, <2>1, <2>2, <3>1
  <2>3. CASE k >= i
    <3> DEFINE h == k - (i - 1)
    <3>1. h \in 1 .. n - (i + 1) + 1 /\ i + 1 + h - 1 = k + 1 /\ ~(k <= i - 1) /\ ~(k < i)
      BY <1>1, <2>3
    <3> HIDE DEF h
    <3>2. b[h] = q[k + 1]
      BY <1>4, <3>1
    <3> QED
      BY <2>1, <3>1, <3>2 DEF h
  <2>4. k < i \/ k >= i
    BY <1>1
  <2> QED
    BY <2>2, <2>3, <2>4
<1> QED
  BY <1>5, <1>7, <1>8, <1>9 DEF n

\* Taking an order out.
LEMMA RemoveLeaves ==
  ASSUME NEW b, IsSound(b), NEW x, Known(b, x)
  PROVE  Leaves(b, Remove(b, x).book, x)
<1> DEFINE s == Where(b, x)[1]
           p == Where(b, x)[2]
           i == Place(b, x)
           q == b[s][p]
           d == SX!RemoveAt(q, i)
           c == Remove(b, x).book
           Old(t, r, j) == IF t = s /\ r = p /\ j >= i THEN j + 1 ELSE j
           New(t, r, j) == IF t = s /\ r = p /\ j > i THEN j - 1 ELSE j
<1>1. b \in Books /\ RestsOnce(b)
  BY DEF IsSound
<1>2. Rests(b, x, s, p, i) /\ s \in Sides /\ p \in Prices
  BY KnownRests
<1>3. i \in 1 .. Len(q) /\ q[i].id = x /\ q \in Seq(RestingOrder) /\ Len(q) \in Nat
  BY <1>1, <1>2, QueueIs DEF Rests
<1>4. /\ d \in Seq(RestingOrder) /\ Len(d) = Len(q) - 1
      /\ \A k \in 1 .. Len(q) - 1 : d[k] = IF k < i THEN q[k] ELSE q[k + 1]
  <2> HIDE DEF q, i
  <2> QED
    BY <1>3, RemoveAtIs
<1>5. c = [b EXCEPT ![s][p] = d]
  BY <1>2, Zenon DEF Remove, Result, WithQueue, Queue
<1> HIDE DEF c, d, s, p, i
<1>6. /\ c \in Books
      /\ \A t \in Sides, r \in Prices : c[t][r] = IF t = s /\ r = p THEN d ELSE b[t][r]
  BY <1>1, <1>2, <1>4, <1>5 DEF Books
<1>7. ASSUME NEW y, NEW t, NEW r, NEW j, Rests(c, y, t, r, j)
      PROVE  Rests(b, y, t, r, Old(t, r, j)) /\ c[t][r][j] = b[t][r][Old(t, r, j)] /\ y # x
             /\ j \in Nat
  <2>1. t \in Sides /\ r \in Prices /\ j \in 1 .. Len(c[t][r]) /\ c[t][r][j].id = y
    BY <1>7 DEF Rests
  <2>2. j \in Nat
    BY <1>6, <2>1, QueueIs
  <2>3. CASE t = s /\ r = p
    <3>1. c[t][r] = d /\ b[t][r] = q
      BY <1>6, <2>1, <2>3
    <3>2. j \in 1 .. Len(q) - 1
      BY <1>4, <2>1, <3>1
    <3>3. d[j] = q[Old(t, r, j)] /\ Old(t, r, j) \in 1 .. Len(q) /\ Old(t, r, j) # i
      <4>1. j < i \/ j >= i
        BY <1>3, <3>2
      <4> QED
        BY <1>3, <1>4, <2>3, <3>2, <4>1
    <3>4. Rests(b, y, t, r, Old(t, r, j))
      BY <2>1, <3>1, <3>3 DEF Rests
    <3>5. y # x
      <4> SUFFICES ASSUME y = x PROVE FALSE
        OBVIOUS
      <4>1. Rests(b, x, t, r, Old(t, r, j))
        BY <3>4
      <4> QED
        BY <1>1, <1>2, <3>3, <4>1 DEF RestsOnce
    <3> QED
      BY <2>2, <3>1, <3>3, <3>4, <3>5
  <2>4. CASE ~(t = s /\ r = p)
    <3>1. c[t][r] = b[t][r] /\ Old(t, r, j) = j
      BY <1>6, <2>1, <2>4
    <3>2. Rests(b, y, t, r, j)
      BY <2>1, <3>1 DEF Rests
    <3>3. y # x
      BY <1>1, <1>2, <2>4, <3>2 DEF RestsOnce
    <3> QED
      BY <2>2, <3>1, <3>2, <3>3
  <2> QED
    BY <2>3, <2>4
<1>8. ASSUME NEW y, NEW t, NEW r, NEW j, Rests(b, y, t, r, j), y # x
      PROVE  Rests(c, y, t, r, New(t, r, j))
  <2>1. t \in Sides /\ r \in Prices /\ j \in 1 .. Len(b[t][r]) /\ b[t][r][j].id = y
    BY <1>8 DEF Rests
  <2>2. CASE t = s /\ r = p
    <3>1. c[t][r] = d /\ b[t][r] = q
      BY <1>6, <2>1, <2>2
    <3>2. j \in 1 .. Len(q) /\ j # i
      BY <1>3, <1>8, <2>1, <3>1
    <3> DEFINE k == New(t, r, j)
    <3>3. k \in 1 .. Len(q) - 1 /\ d[k] = q[j]
      <4>1. CASE j > i
        <5>1. k = j - 1
          BY <2>2, <4>1
        <5> HIDE DEF k, q
        <5>2. k \in 1 .. Len(q) - 1 /\ ~(k < i) /\ k + 1 = j
          BY <1>3, <3>2, <4>1, <5>1
        <5> USE DEF q
        <5> QED
          BY <1>4, <5>2
      <4>2. CASE j < i
        <5>1. k = j /\ k \in 1 .. Len(q) - 1 /\ k < i
          BY <1>3, <2>2, <3>2, <4>2
        <5> HIDE DEF k
        <5> QED
          BY <1>4, <5>1
      <4> QED
        BY <1>3, <3>2, <4>1, <4>2
    <3> HIDE DEF k
    <3> QED
      BY <1>4, <2>1, <3>1, <3>3 DEF Rests, k
  <2>3. CASE ~(t = s /\ r = p)
    <3>1. c[t][r] = b[t][r] /\ New(t, r, j) = j
      BY <1>6, <2>1, <2>3
    <3> QED
      BY <2>1, <3>1 DEF Rests
  <2> QED
    BY <2>2, <2>3
<1>9. i \in Nat
  BY <1>3
<1>10. \A t, r : \A j, k \in Nat : /\ Old(t, r, j) \in Nat
                                   /\ Old(t, r, j) = Old(t, r, k) => j = k
                                   /\ j < k <=> Old(t, r, j) < Old(t, r, k)
  BY <1>9
<1> HIDE DEF Old, New
<1>11. IsSound(c)
  <2> SUFFICES ASSUME NEW y, NEW t, NEW r, NEW j, NEW u, NEW v, NEW k,
                      Rests(c, y, t, r, j), Rests(c, y, u, v, k)
               PROVE  t = u /\ r = v /\ j = k
    BY <1>6 DEF IsSound, RestsOnce
  <2>1. /\ Rests(b, y, t, r, Old(t, r, j)) /\ Rests(b, y, u, v, Old(u, v, k))
        /\ j \in Nat /\ k \in Nat
    BY <1>7
  <2>2. t = u /\ r = v /\ Old(t, r, j) = Old(u, v, k)
    BY <1>1, <2>1 DEF RestsOnce
  <2> QED
    BY <1>10, <2>1, <2>2
<1>12. LiveOrders(c) = LiveOrders(b) \ {x}
  <2>1. ASSUME NEW y PROVE y \in LiveOrders(c) <=> y \in LiveOrders(b) /\ y # x
    <3>1. y \in LiveOrders(c) => y \in LiveOrders(b) /\ y # x
      BY <1>7, <1>11, LiveIs
    <3>2. y \in LiveOrders(b) /\ y # x => y \in LiveOrders(c)
      BY <1>8, <1>11, LiveIs
    <3> QED
      BY <3>1, <3>2
  <2> QED
    BY <2>1
<1>13. ASSUME NEW y \in LiveOrders(c)
       PROVE  /\ Where(c, y) = Where(b, y) /\ EntryOf(c, y) = EntryOf(b, y)
              /\ Place(c, y) \in Nat
              /\ Place(b, y) = Old(Where(b, y)[1], Where(b, y)[2], Place(c, y))
  <2>1. PICK t, r, j : Rests(c, y, t, r, j)
    BY <1>11, LiveIs
  <2>2. /\ Rests(b, y, t, r, Old(t, r, j)) /\ c[t][r][j] = b[t][r][Old(t, r, j)] /\ j \in Nat
    BY <1>7, <2>1
  <2>3. Where(c, y) = <<t, r>> /\ Place(c, y) = j /\ EntryOf(c, y) = c[t][r][j]
    BY <1>11, <2>1, RestsIsFound
  <2>4. /\ Where(b, y) = <<t, r>> /\ Place(b, y) = Old(t, r, j)
        /\ EntryOf(b, y) = b[t][r][Old(t, r, j)]
    BY <2>2, RestsIsFound
  <2> QED
    BY <2>2, <2>3, <2>4
<1>14. ASSUME NEW y \in LiveOrders(c), NEW z \in LiveOrders(c)
       PROVE  HasPriority(c, y, z) <=> HasPriority(b, y, z)
  <2> DEFINE t == Where(b, y)[1]
             r == Where(b, y)[2]
  <2>1. Where(b, z)[1] = t /\ Where(b, z)[2] = r
         => (Place(c, y) < Place(c, z) <=> Place(b, y) < Place(b, z))
    BY <1>10, <1>13
  <2>2. Where(c, y) = Where(b, y) /\ Where(c, z) = Where(b, z)
    BY <1>13
  <2> QED
    BY <2>1, <2>2 DEF HasPriority
<1> QED
  BY <1>11, <1>12, <1>13, <1>14 DEF Leaves, c

\* Taking a part of an order.
LEMMA ReduceShrinks ==
  ASSUME NEW b, IsSound(b), NEW x, Known(b, x), NEW n \in Nat, n > 0, n < QtyOf(b, x)
  PROVE  Shrinks(b, Reduce(b, x, n).book, x, n)
<1> DEFINE s == Where(b, x)[1]
           p == Where(b, x)[2]
           i == Place(b, x)
           q == b[s][p]
           e == [q[i] EXCEPT !.qty = @ - n]
           d == [q EXCEPT ![i] = e]
           c == Reduce(b, x, n).book
<1>1. b \in Books /\ RestsOnce(b)
  BY DEF IsSound
<1>2. /\ Rests(b, x, s, p, i) /\ s \in Sides /\ p \in Prices
      /\ QtyOf(b, x) \in Nat \ {0} /\ QtyOf(b, x) = EntryOf(b, x).qty
  BY KnownRests
<1>3. /\ i \in 1 .. Len(q) /\ q[i].id = x /\ q \in Seq(RestingOrder) /\ Len(q) \in Nat
      /\ q[i] \in RestingOrder /\ EntryOf(b, x) = q[i]
  <2>1. i \in 1 .. Len(q) /\ q[i].id = x
    BY <1>2 DEF Rests
  <2>2. q \in Seq(RestingOrder) /\ Len(q) \in Nat /\ \A k \in 1 .. Len(q) : q[k] \in RestingOrder
    BY <1>1, <1>2, QueueIs
  <2> QED
    BY <2>1, <2>2 DEF EntryOf, Queue
<1>4. c = [b EXCEPT ![s][p] = d]
  <2>1. ~(n <= 0 \/ n > EntryOf(b, x).qty) /\ n # EntryOf(b, x).qty
    BY <1>2
  <2>2. d = [Queue(b, x) EXCEPT ![Place(b, x)].qty = @ - n]
    BY Zenon DEF Queue
  <2>3. c = WithQueue(b, x, [Queue(b, x) EXCEPT ![Place(b, x)].qty = @ - n])
    BY <2>1, Zenon DEF Reduce, Result
  <2> HIDE DEF d
  <2> QED
    BY <2>2, <2>3 DEF WithQueue
<1>5. e \in RestingOrder /\ e.id = x /\ e.mine = q[i].mine /\ e.qty = QtyOf(b, x) - n
  <2>1. \A r \in RestingOrder : /\ r.qty - n \in Nat \ {0} => [r EXCEPT !.qty = @ - n] \in RestingOrder
                                /\ [r EXCEPT !.qty = @ - n].id = r.id
                                /\ [r EXCEPT !.qty = @ - n].mine = r.mine
                                /\ [r EXCEPT !.qty = @ - n].qty = r.qty - n
    BY DEF RestingOrder
  <2> HIDE DEF q, i, s, p
  <2>2. q[i].qty = QtyOf(b, x)
    BY <1>2, <1>3
  <2>3. QtyOf(b, x) - n \in Nat \ {0}
    BY <1>2
  <2> QED
    BY <1>3, <2>1, <2>2, <2>3
<1> HIDE DEF e
<1>6. /\ d \in Seq(RestingOrder) /\ Len(d) = Len(q) /\ d[i] = e
      /\ \A k \in 1 .. Len(q) : k # i => d[k] = q[k]
  <2> HIDE DEF q, i
  <2> QED
    BY <1>3, <1>5
<1> HIDE DEF c, d, s, p, i
<1>7. /\ c \in Books
      /\ \A t \in Sides, r \in Prices : c[t][r] = IF t = s /\ r = p THEN d ELSE b[t][r]
  BY <1>1, <1>2, <1>4, <1>6 DEF Books
<1>8. \A t \in Sides, r \in Prices :
        /\ Len(c[t][r]) = Len(b[t][r])
        /\ \A j \in 1 .. Len(b[t][r]) :
             /\ c[t][r][j].id = b[t][r][j].id /\ c[t][r][j].mine = b[t][r][j].mine
             /\ c[t][r][j] = IF t = s /\ r = p /\ j = i THEN e ELSE b[t][r][j]
  BY <1>3, <1>5, <1>6, <1>7, SMTT(30)
<1>9. \A y, t, r, j : Rests(c, y, t, r, j) <=> Rests(b, y, t, r, j)
  BY <1>8, SMTT(30) DEF Rests
<1>10. IsSound(c)
  BY <1>1, <1>7, <1>9 DEF IsSound, RestsOnce
<1>11. LiveOrders(c) = LiveOrders(b)
  <2>1. \A y : y \in LiveOrders(c) <=> y \in LiveOrders(b)
    BY <1>9, <1>10, LiveIs
  <2> QED
    BY <2>1
<1>12. ASSUME NEW y \in LiveOrders(b)
       PROVE  /\ Where(c, y) = Where(b, y) /\ EntryOf(c, y).mine = EntryOf(b, y).mine
              /\ Place(c, y) = Place(b, y)
              /\ QtyOf(c, y) = IF y = x THEN QtyOf(b, y) - n ELSE QtyOf(b, y)
  <2>1. PICK t, r, j : Rests(b, y, t, r, j)
    BY LiveIs
  <2>2. Rests(c, y, t, r, j) /\ t \in Sides /\ r \in Prices /\ j \in 1 .. Len(b[t][r])
    <3>1. Rests(c, y, t, r, j)
      BY <1>9, <2>1
    <3> QED
      BY <2>1, <3>1 DEF Rests
  <2>3. /\ Where(c, y) = <<t, r>> /\ Place(c, y) = j /\ EntryOf(c, y) = c[t][r][j]
        /\ QtyOf(c, y) = c[t][r][j].qty
    BY <1>10, <2>2, RestsIsFound
  <2>4. /\ Where(b, y) = <<t, r>> /\ Place(b, y) = j /\ EntryOf(b, y) = b[t][r][j]
        /\ QtyOf(b, y) = b[t][r][j].qty
    BY <2>1, RestsIsFound
  <2>5. (t = s /\ r = p /\ j = i) <=> y = x
    <3>1. t = s /\ r = p /\ j = i => y = x
      BY <1>2, <2>1 DEF Rests
    <3>2. y = x => t = s /\ r = p /\ j = i
      BY <1>1, <1>2, <2>1 DEF RestsOnce
    <3> QED
      BY <3>1, <3>2
  <2>6. c[t][r][j] = IF t = s /\ r = p /\ j = i THEN e ELSE b[t][r][j]
    BY <1>8, <2>2
  <2>7. QtyOf(c, y) = IF y = x THEN QtyOf(b, y) - n ELSE QtyOf(b, y)
    <3>1. CASE y = x
      BY <1>5, <2>3, <2>5, <2>6, <3>1
    <3>2. CASE y # x
      BY <2>3, <2>4, <2>5, <2>6, <3>2
    <3> QED
      BY <3>1, <3>2
  <2>8. c[t][r][j].mine = b[t][r][j].mine
    BY <1>8, <2>2
  <2> QED
    BY <2>3, <2>4, <2>7, <2>8
<1>13. \A y, z \in LiveOrders(b) : HasPriority(c, y, z) <=> HasPriority(b, y, z)
  BY <1>12 DEF HasPriority
<1> QED
  BY <1>10, <1>11, <1>12, <1>13 DEF Shrinks, c

\* A finite set of integers has a greatest and a least member.
LEMMA FiniteSetsHaveEnds ==
  ASSUME NEW S, IsFiniteSet(S), S \subseteq Int, S # {}
  PROVE  /\ \E p \in S : \A r \in S : r <= p
         /\ \E p \in S : \A r \in S : r >= p
<1> DEFINE Ends(T) == /\ \E p \in T : \A r \in T : r <= p
                      /\ \E p \in T : \A r \in T : r >= p
           B == {T \in SUBSET S : T # {} /\ ~Ends(T)}
<1>1. B = {}
  <2> SUFFICES ASSUME B # {} PROVE FALSE
    OBVIOUS
  <2>1. PICK T \in B : \A U \in B : Cardinality(T) <= Cardinality(U)
    <3>1. B \in SUBSET (SUBSET S)
      OBVIOUS
    <3> HIDE DEF B
    <3> QED
      BY <3>1, FewestExist
  <2>2. T \in SUBSET S /\ T # {} /\ ~Ends(T)
    BY <2>1
  <2>3. PICK x \in T : TRUE
    BY <2>2
  <2> DEFINE U == T \ {x}
  <2>4. U \in SUBSET S /\ Cardinality(T) \in Nat /\ Cardinality(U) = Cardinality(T) - 1
    BY <2>2, <2>3, OneLess
  <2>5. U # {} => Ends(U)
    <3>1. ~(Cardinality(T) <= Cardinality(U))
      BY <2>4
    <3>2. U \notin B
      BY <2>1, <3>1
    <3> HIDE DEF U, Ends
    <3> QED
      BY <2>4, <3>2
  <2>6. x \in Int /\ T = U \cup {x} /\ \A r \in U : r \in Int
    BY <2>2, <2>3
  <2> HIDE DEF U
  <2>7. CASE U = {}
    BY <2>2, <2>6, <2>7
  <2>8. CASE U # {}
    <3>1. PICK p \in U : \A r \in U : r <= p
      BY <2>5, <2>8
    <3>2. PICK q \in U : \A r \in U : r >= q
      BY <2>5, <2>8
    <3>3. \E t \in T : \A r \in T : r <= t
      <4>1. CASE x <= p
        BY <2>6, <3>1, <4>1
      <4>2. CASE p <= x
        BY <2>6, <3>1, <4>2
      <4> QED
        BY <2>6, <4>1, <4>2
    <3>4. \E t \in T : \A r \in T : r >= t
      <4>1. CASE x >= q
        BY <2>6, <3>2, <4>1
      <4>2. CASE q >= x
        BY <2>6, <3>2, <4>2
      <4> QED
        BY <2>6, <4>1, <4>2
    <3> QED
      BY <2>2, <3>3, <3>4
  <2> QED
    BY <2>7, <2>8
<1>2. S \in SUBSET S
  OBVIOUS
<1>3. Ends(S)
  <2> HIDE DEF Ends
  <2> QED
    BY <1>1, <1>2
<1> QED
  BY <1>3

\* The best price of a side that has orders: none is better.
LEMMA BestIs ==
  ASSUME NEW b, NEW sd, HasBest(b, sd)
  PROVE  /\ Best(b, sd) \in Prices /\ Best(b, sd) \in Int /\ b[sd][Best(b, sd)] # <<>>
         /\ \A r \in Occupied(b, sd) : IF sd = "Bid" THEN r <= Best(b, sd) ELSE r >= Best(b, sd)
<1> DEFINE S == Occupied(b, sd)
<1>1. S \in SUBSET Prices /\ IsFiniteSet(S) /\ S \subseteq Int /\ S # {}
  BY InputAssumption, FS_Subset DEF Occupied, HasBest
<1>2. /\ \E p \in S : \A r \in S : r <= p
      /\ \E p \in S : \A r \in S : r >= p
  BY <1>1, FiniteSetsHaveEnds
<1>3. \E p \in S : \A r \in S : IF sd = "Bid" THEN r <= p ELSE r >= p
  BY <1>2
<1>4. Best(b, sd) \in S /\ \A r \in S : IF sd = "Bid" THEN r <= Best(b, sd) ELSE r >= Best(b, sd)
  BY <1>3, Zenon DEF Best
<1> QED
  BY <1>1, <1>4 DEF Occupied

\* The order at the front of the best price has priority over its whole side.
LEMMA FrontHasPriority ==
  ASSUME NEW b, IsSound(b), NEW sd \in Sides, HasBest(b, sd),
         NEW front, front = FrontEntry(b[sd][Best(b, sd)])
  PROVE  /\ front.id \in LiveOrders(b) /\ Known(b, front.id) /\ front.id \in Ids
         /\ Where(b, front.id) = <<sd, Best(b, sd)>> /\ EntryOf(b, front.id) = front
         /\ front.qty \in Nat \ {0} /\ front.qty = QtyOf(b, front.id) /\ front.mine \in BOOLEAN
         /\ \A y \in LiveOrders(b) : Where(b, y)[1] = sd /\ y # front.id => HasPriority(b, front.id, y)
<1> DEFINE p == Best(b, sd)
           q == b[sd][p]
           x == front.id
<1>1. p \in Prices /\ p \in Int /\ q # <<>>
  BY BestIs
<1>2. b \in Books /\ RestsOnce(b)
  BY DEF IsSound
<1>3. /\ q \in Seq(RestingOrder) /\ Len(q) \in Nat
      /\ \A i \in 1 .. Len(q) : q[i] \in RestingOrder /\ q[i].id \in Ids
           /\ q[i].qty \in Nat \ {0} /\ q[i].mine \in BOOLEAN
  BY <1>1, <1>2, QueueIs
<1>4. 1 \in 1 .. Len(q) /\ front = q[1]
  <2>1. \A z \in Seq(RestingOrder) : z # <<>> => 1 \in 1 .. Len(z) /\ Head(z) = z[1]
    BY EmptySeq, LenProperties, HeadTailProperties
  <2> HIDE DEF q
  <2>2. front = Head(q)
    BY DEF FrontEntry, q
  <2> QED
    BY <1>1, <1>3, <2>1, <2>2
<1>5. Rests(b, x, sd, p, 1)
  BY <1>1, <1>4 DEF Rests
<1>6. /\ x \in LiveOrders(b) /\ Known(b, x) /\ Where(b, x) = <<sd, p>> /\ Place(b, x) = 1
      /\ EntryOf(b, x) = q[1] /\ QtyOf(b, x) = q[1].qty
  BY <1>5, RestsIsFound
<1>7. ASSUME NEW y \in LiveOrders(b), Where(b, y)[1] = sd, y # x
      PROVE  HasPriority(b, x, y)
  <2>1. PICK t, r, j : Rests(b, y, t, r, j)
    BY LiveIs
  <2>2. Where(b, y) = <<t, r>> /\ Place(b, y) = j
    BY <2>1, RestsIsFound
  <2>3. t = sd /\ r \in Prices /\ j \in 1 .. Len(b[sd][r]) /\ r \in Int
    BY <1>7, <2>1, <2>2, InputAssumption DEF Rests
  <2>4. b[sd][r] # <<>> /\ j \in Nat
    BY <1>2, <2>3, QueueIs, EmptySeq
  <2>5. IF sd = "Bid" THEN r <= p ELSE r >= p
    BY <2>3, <2>4, BestIs DEF Occupied
  <2>6. r = p => j # 1
    <3> SUFFICES ASSUME r = p, j = 1 PROVE FALSE
      OBVIOUS
    <3> QED
      BY <1>5, <1>7, <2>1, <2>3 DEF Rests
  <2>7. r = p => 1 < j
    BY <2>3, <2>4, <2>6
  <2>8. Where(b, y)[1] = sd /\ Where(b, y)[2] = r /\ Where(b, x)[1] = sd /\ Where(b, x)[2] = p
    BY <1>6, <2>2, <2>3
  <2> HIDE DEF p, x
  <2>9. CASE r = p
    BY <1>6, <2>2, <2>7, <2>8, <2>9 DEF HasPriority
  <2>10. CASE r # p
    <3>1. IF sd = "Bid" THEN p > r ELSE p < r
      BY <1>1, <2>3, <2>5, <2>10
    <3> QED
      BY <2>8, <3>1 DEF HasPriority
  <2> QED
    BY <2>9, <2>10
<1> QED
  BY <1>3, <1>4, <1>6, <1>7

-----------------------------------------------------------------------------
(***************************************************************************)
(* A submission c to book b, and the matching m its loop has got to.       *)
(***************************************************************************)
\* A limit lets an order trade at every price that is better than one it names.
Downwards(sd, limit) ==
  \A p \in Prices, r \in limit : IF sd = "Bid" THEN p <= r => p \in limit ELSE p >= r => p \in limit

IsCall(c) ==
  /\ c.id \in Ids /\ c.side \in Sides /\ c.qty \in Nat \ {0} /\ c.mine \in BOOLEAN
  /\ c.limit \subseteq Prices /\ Downwards(c.side, c.limit)

Gone(b, m) == LiveOrders(b) \ LiveOrders(m.book)
Left(b, c, m) == LiveOrders(m.book) \cap Reached(b, c)

\* The book of m is what is left of b, where it was.
InPlace(b, m) ==
  /\ IsSound(m.book) /\ LiveOrders(m.book) \subseteq LiveOrders(b)
  /\ \A y \in LiveOrders(m.book) :
       Where(m.book, y) = Where(b, y) /\ EntryOf(m.book, y).mine = EntryOf(b, y).mine
  /\ \A y, z \in LiveOrders(m.book) : HasPriority(m.book, y, z) <=> HasPriority(b, y, z)

\* What is gone is the first of what the submission may meet.
FirstsGone(b, c, m) ==
  /\ Gone(b, m) \subseteq Reached(b, c)
  /\ \A x \in Gone(b, m), y \in Left(b, c, m) : HasPriority(b, x, y)

\* x is the next the submission meets.
IsNext(b, c, m, x) ==
  x \in Left(b, c, m) /\ \A y \in Left(b, c, m) : y # x => HasPriority(b, x, y)

LEMMA ReachedIs ==
  ASSUME NEW b, NEW c, NEW x
  PROVE  x \in Reached(b, c) <=> /\ x \in LiveOrders(b) /\ Where(b, x)[1] = Opposite(c.side)
                                 /\ Where(b, x)[2] \in c.limit
BY DEF Reached

\* Orders do not have priority over each other.
LEMMA PriorityIsOneWay ==
  ASSUME NEW b, IsSound(b), NEW x \in LiveOrders(b), NEW y \in LiveOrders(b), HasPriority(b, x, y)
  PROVE  ~HasPriority(b, y, x) /\ x # y
<1>1. /\ Where(b, x)[2] \in Int /\ Where(b, y)[2] \in Int
      /\ Place(b, x) \in Nat /\ Place(b, y) \in Nat
  BY LiveIs, KnownRests, InputAssumption
<1> DEFINE px == Where(b, x)[2]
           py == Where(b, y)[2]
           i == Place(b, x)
           j == Place(b, y)
<1>2. /\ Where(b, x)[1] = Where(b, y)[1]
      /\ (IF Where(b, x)[1] = "Bid" THEN px > py ELSE px < py) \/ (px = py /\ i < j)
  BY DEF HasPriority
<1>3. HasPriority(b, y, x) =>
        (IF Where(b, y)[1] = "Bid" THEN py > px ELSE py < px) \/ (py = px /\ j < i)
  BY DEF HasPriority
<1>4. x = y => px = py /\ i = j
  OBVIOUS
<1>5. px \in Int /\ py \in Int /\ i \in Nat /\ j \in Nat
  BY <1>1
<1> HIDE DEF px, py, i, j
<1> QED
  BY <1>2, <1>3, <1>4, <1>5

\* The front of the best level, when the limit allows its price, is next.
LEMMA FrontIsNext ==
  ASSUME NEW b, IsSound(b), NEW c, IsCall(c), NEW m, InPlace(b, m),
         NEW sd, sd = Opposite(c.side), HasBest(m.book, sd), Best(m.book, sd) \in c.limit,
         NEW front, front = FrontEntry(m.book[sd][Best(m.book, sd)])
  PROVE  /\ IsNext(b, c, m, front.id)
         /\ Known(m.book, front.id) /\ front.id \in Ids /\ front.id \in LiveOrders(b)
         /\ Where(b, front.id) = <<sd, Best(m.book, sd)>> /\ EntryOf(b, front.id).mine = front.mine
         /\ front.qty \in Nat \ {0} /\ front.qty = QtyOf(m.book, front.id) /\ front.mine \in BOOLEAN
<1> DEFINE x == front.id
           p == Best(m.book, sd)
<1>1. sd \in Sides
  BY DEF IsCall, Opposite, Sides
<1>2. IsSound(m.book) /\ LiveOrders(m.book) \subseteq LiveOrders(b)
  BY DEF InPlace
<1>3. /\ x \in LiveOrders(m.book) /\ Known(m.book, x) /\ x \in Ids
      /\ Where(m.book, x) = <<sd, p>> /\ EntryOf(m.book, x) = front
      /\ front.qty \in Nat \ {0} /\ front.qty = QtyOf(m.book, x) /\ front.mine \in BOOLEAN
      /\ \A y \in LiveOrders(m.book) :
           Where(m.book, y)[1] = sd /\ y # x => HasPriority(m.book, x, y)
  BY <1>1, <1>2, FrontHasPriority, ZenonT(40)
<1>4. \A y \in LiveOrders(m.book) :
        /\ Where(m.book, y) = Where(b, y) /\ EntryOf(m.book, y).mine = EntryOf(b, y).mine
        /\ HasPriority(m.book, x, y) <=> HasPriority(b, x, y)
  BY <1>3 DEF InPlace
<1>5. Where(b, x) = <<sd, p>> /\ EntryOf(b, x).mine = front.mine /\ x \in LiveOrders(b)
  BY <1>2, <1>3, <1>4
<1>6. x \in Reached(b, c)
  BY <1>5, ReachedIs
<1>7. \A y \in Left(b, c, m) : y \in LiveOrders(m.book) /\ Where(b, y)[1] = sd
  BY ReachedIs DEF Left
<1>8. IsNext(b, c, m, x)
  BY <1>3, <1>4, <1>6, <1>7 DEF IsNext, Left
<1> QED
  BY <1>3, <1>5, <1>8

\* When a side has no orders, none is left to meet.
LEMMA NoBestNoneLeft ==
  ASSUME NEW b, IsSound(b), NEW c, IsCall(c), NEW m, InPlace(b, m),
         NEW sd, sd = Opposite(c.side),
         ~HasBest(m.book, sd) \/ Best(m.book, sd) \notin c.limit
  PROVE  Left(b, c, m) = {}
<1> SUFFICES ASSUME NEW y \in Left(b, c, m) PROVE FALSE
  OBVIOUS
<1>1. /\ IsSound(m.book) /\ m.book \in Books /\ y \in LiveOrders(m.book)
      /\ Where(m.book, y) = Where(b, y)
  BY DEF InPlace, Left, IsSound
<1>2. Where(b, y)[1] = sd /\ Where(b, y)[2] \in c.limit
  BY ReachedIs DEF Left
<1> DEFINE r == Where(m.book, y)[2]
           p == Best(m.book, sd)
<1>3. /\ sd \in Sides /\ r \in Prices /\ r \in c.limit /\ r \in Int
      /\ Rests(m.book, y, sd, r, Place(m.book, y))
  BY <1>1, <1>2, LiveIs, KnownRests, InputAssumption
<1>4. r \in Occupied(m.book, sd)
  <2>1. Len(m.book[sd][r]) # 0
    BY <1>1, <1>3, QueueIs DEF Rests
  <2>2. Len(<<>>) = 0
    BY EmptySeq
  <2> QED
    BY <1>3, <2>1, <2>2 DEF Occupied
<1>5. HasBest(m.book, sd) /\ p \notin c.limit
  BY <1>4 DEF HasBest
<1>6. p \in Prices /\ IF sd = "Bid" THEN r <= p ELSE r >= p
  BY <1>4, <1>5, BestIs
<1> HIDE DEF r, p
<1>7. IF c.side = "Bid" THEN p <= r ELSE p >= r
  <2>1. c.side = "Bid" \/ c.side = "Ask"
    BY DEF IsCall, Sides
  <2>2. p \in Int
    BY <1>6, InputAssumption
  <2> QED
    BY <1>3, <1>6, <2>1, <2>2 DEF Opposite
<1> QED
  BY <1>3, <1>5, <1>6, <1>7 DEF IsCall, Downwards

\* Taking out what is next.
LEMMA NextIsGone ==
  ASSUME NEW b, IsSound(b), NEW c, NEW m, InPlace(b, m), FirstsGone(b, c, m),
         NEW x, IsNext(b, c, m, x), NEW d, Leaves(m.book, d.book, x)
  PROVE  /\ InPlace(b, d) /\ FirstsGone(b, c, d)
         /\ Gone(b, d) = Gone(b, m) \cup {x} /\ Left(b, c, d) = Left(b, c, m) \ {x}
         /\ x \notin Gone(b, m)
<1>1. /\ IsSound(d.book) /\ LiveOrders(d.book) = LiveOrders(m.book) \ {x}
      /\ \A y \in LiveOrders(d.book) :
           Where(d.book, y) = Where(m.book, y) /\ EntryOf(d.book, y) = EntryOf(m.book, y)
      /\ \A y, z \in LiveOrders(d.book) : HasPriority(d.book, y, z) <=> HasPriority(m.book, y, z)
  BY DEF Leaves
<1>2. /\ LiveOrders(m.book) \subseteq LiveOrders(b)
      /\ \A y \in LiveOrders(m.book) :
           Where(m.book, y) = Where(b, y) /\ EntryOf(m.book, y).mine = EntryOf(b, y).mine
      /\ \A y, z \in LiveOrders(m.book) : HasPriority(m.book, y, z) <=> HasPriority(b, y, z)
  BY DEF InPlace
<1>3. x \in Left(b, c, m) /\ \A y \in Left(b, c, m) : y # x => HasPriority(b, x, y)
  BY DEF IsNext
<1>4. x \in LiveOrders(m.book) /\ x \in Reached(b, c) /\ x \in LiveOrders(b)
  BY <1>2, <1>3 DEF Left
<1>5. Gone(b, d) = Gone(b, m) \cup {x} /\ Left(b, c, d) = Left(b, c, m) \ {x} /\ x \notin Gone(b, m)
  BY <1>1, <1>4 DEF Gone, Left
<1>6. InPlace(b, d)
  <2>1. \A y \in LiveOrders(d.book) : y \in LiveOrders(m.book)
    BY <1>1
  <2>2. LiveOrders(d.book) \subseteq LiveOrders(b)
    BY <1>1, <1>2
  <2>3. \A y \in LiveOrders(d.book) :
          Where(d.book, y) = Where(b, y) /\ EntryOf(d.book, y).mine = EntryOf(b, y).mine
    BY <1>1, <1>2, <2>1
  <2>4. \A y, z \in LiveOrders(d.book) : HasPriority(d.book, y, z) <=> HasPriority(b, y, z)
    BY <1>1, <1>2, <2>1
  <2> QED
    BY <1>1, <2>2, <2>3, <2>4 DEF InPlace
<1>7. FirstsGone(b, c, d)
  BY <1>3, <1>4, <1>5 DEF FirstsGone
<1> QED
  BY <1>5, <1>6, <1>7

\* Taking a part of an order.
LEMMA PartIsTaken ==
  ASSUME NEW b, IsSound(b), NEW c, NEW m, InPlace(b, m), FirstsGone(b, c, m),
         NEW x, NEW n, NEW d, Shrinks(m.book, d.book, x, n)
  PROVE  /\ InPlace(b, d) /\ FirstsGone(b, c, d)
         /\ Gone(b, d) = Gone(b, m) /\ Left(b, c, d) = Left(b, c, m)
<1>1. /\ IsSound(d.book) /\ LiveOrders(d.book) = LiveOrders(m.book)
      /\ \A y \in LiveOrders(m.book) :
           Where(d.book, y) = Where(m.book, y) /\ EntryOf(d.book, y).mine = EntryOf(m.book, y).mine
      /\ \A y, z \in LiveOrders(m.book) : HasPriority(d.book, y, z) <=> HasPriority(m.book, y, z)
  BY DEF Shrinks
<1>2. Gone(b, d) = Gone(b, m) /\ Left(b, c, d) = Left(b, c, m)
  BY <1>1 DEF Gone, Left
<1>3. InPlace(b, d)
  BY <1>1 DEF InPlace
<1>4. FirstsGone(b, c, d)
  BY <1>2 DEF FirstsGone
<1> QED
  BY <1>2, <1>3, <1>4

-----------------------------------------------------------------------------
(***************************************************************************)
(* The account of a matching: t[x] is what order x of the book has traded. *)
(***************************************************************************)
Trade == [resting : Ids, aggressor : Ids, price : Prices, qty : Nat \ {0}, side : Sides,
          restingMine : BOOLEAN, aggressorMine : BOOLEAN]

CountsFills(b, m, t) == \A x \in LiveOrders(b) : TradedBy(m, x) = t[x]

LeavesTheRest(b, m, t) == \A x \in LiveOrders(m.book) : QtyOf(m.book, x) = QtyOf(b, x) - t[x]

OnlyTheNextInPart(b, c, m, t) ==
  \A x \in LiveOrders(m.book) : t[x] > 0 => m.left = 0 /\ IsNext(b, c, m, x)

\* An order of ours that is out of the way of our own, when it was reached.
Prevented(b, c, x) == x \in Itself(b, c) /\ smp = "CancelResting" /\ InFront(b, c, x) < c.qty

GoneForAReason(b, c, m, t) ==
  \A x \in Gone(b, m) : \/ t[x] = QtyOf(b, x)
                        \/ t[x] = 0 /\ Prevented(b, c, x)

OnlyTradeable(b, c, t) == \A x \in LiveOrders(b) : t[x] > 0 => x \in Tradeable(b, c)

AddsUp(b, c, m, t) == SumOver(LiveOrders(b), t) = c.qty - m.left

Account(b, c, m, t) ==
  /\ t \in [LiveOrders(b) -> Nat]
  /\ CountsFills(b, m, t) /\ LeavesTheRest(b, m, t) /\ OnlyTheNextInPart(b, c, m, t)
  /\ GoneForAReason(b, c, m, t) /\ OnlyTradeable(b, c, t) /\ AddsUp(b, c, m, t)

FillsAreRight(b, c, m) ==
  \A k \in 1 .. Len(m.fills) :
    /\ m.fills[k].resting \in LiveOrders(b)
    /\ m.fills[k].price = Where(b, m.fills[k].resting)[2]
    /\ smp # "Allow" => ~(m.fills[k].restingMine /\ m.fills[k].aggressorMine)
    /\ m.fills[k].resting \in LiveOrders(m.book) => m.left = 0

FillsInOrder(b, m) ==
  \A k \in 2 .. Len(m.fills) : HasPriority(b, m.fills[k - 1].resting, m.fills[k].resting)

FillsAddUp(c, m) == SumOver(DOMAIN m.fills, Taken(m)) = c.qty - m.left

Filled(b, c, m) ==
  m.fills \in Seq(Trade) /\ FillsAreRight(b, c, m) /\ FillsInOrder(b, m) /\ FillsAddUp(c, m)

\* How far the loop is.
Progress(b, c, m, t) ==
  /\ m = Matched(m.book, m.left, m.fills) /\ m.left \in 0 .. c.qty
  /\ InPlace(b, m) /\ FirstsGone(b, c, m) /\ Account(b, c, m, t) /\ Filled(b, c, m)

\* The orders of a book are finitely many.
LEMMA LiveIsFinite ==
  ASSUME NEW b
  PROVE  IsFiniteSet(LiveOrders(b)) /\ LiveOrders(b) \subseteq Ids
BY IdsAssumption, FS_Subset DEF LiveOrders

\* One fill more, of an order that had none.
LEMMA FillAppended ==
  ASSUME NEW m, m.fills \in Seq(Trade), NEW f \in Trade, NEW d, d.fills = Append(m.fills, f),
         \A k \in 1 .. Len(m.fills) : m.fills[k].resting # f.resting
  PROVE  /\ d.fills \in Seq(Trade) /\ Len(m.fills) \in Nat /\ Len(d.fills) = Len(m.fills) + 1
         /\ d.fills[Len(d.fills)] = f /\ \A k \in 1 .. Len(m.fills) : d.fills[k] = m.fills[k]
         /\ TradedBy(d, f.resting) = f.qty
         /\ \A y : y # f.resting => TradedBy(d, y) = TradedBy(m, y)
         /\ SumOver(DOMAIN d.fills, Taken(d)) = SumOver(DOMAIN m.fills, Taken(m)) + f.qty
<1> DEFINE n == Len(m.fills)
           Of(r, y) == {k \in DOMAIN r.fills : r.fills[k].resting = y}
<1>1. /\ n \in Nat /\ DOMAIN m.fills = 1 .. n /\ d.fills \in Seq(Trade) /\ Len(d.fills) = n + 1
      /\ DOMAIN d.fills = 1 .. n + 1 /\ d.fills[n + 1] = f
      /\ \A k \in 1 .. n : d.fills[k] = m.fills[k]
  BY AppendProperties, LenProperties
<1>2. \A k \in 1 .. n : m.fills[k] \in Trade
  BY ElementOfSeq
<1>3. \A r \in Trade : r.qty \in Int
  BY DEF Trade
<1> HIDE DEF n
<1>4. /\ \A k \in 1 .. n : Taken(d)[k] = Taken(m)[k] /\ Taken(m)[k] \in Int
      /\ Taken(d)[n + 1] = f.qty /\ f.qty \in Int
  BY <1>1, <1>2, <1>3 DEF Taken
<1>5. IsFiniteSet(1 .. n)
  BY <1>1, FS_Interval
<1>6. TradedBy(d, f.resting) = f.qty
  <2>1. Of(d, f.resting) = {n + 1}
    BY <1>1
  <2>2. SumOver({n + 1}, Taken(d)) = Taken(d)[n + 1]
    BY <1>4, SumOfOne
  <2> QED
    BY <1>4, <2>1, <2>2 DEF TradedBy
<1>7. ASSUME NEW y, y # f.resting PROVE TradedBy(d, y) = TradedBy(m, y)
  <2>1. Of(d, y) = Of(m, y) /\ Of(m, y) \in SUBSET (1 .. n)
    BY <1>1, <1>7
  <2> HIDE DEF Of
  <2>2. IsFiniteSet(Of(m, y)) /\ \A k \in Of(m, y) : Taken(d)[k] = Taken(m)[k]
    BY <1>4, <1>5, <2>1, FS_Subset
  <2>3. SumOver(Of(m, y), Taken(d)) = SumOver(Of(m, y), Taken(m))
    BY <2>2, SumsOfTheSame
  <2> QED
    BY <2>1, <2>3 DEF TradedBy, Of
<1>8. SumOver(DOMAIN d.fills, Taken(d)) = SumOver(DOMAIN m.fills, Taken(m)) + f.qty
  <2>1. n + 1 \notin 1 .. n /\ DOMAIN d.fills = (1 .. n) \cup {n + 1}
    BY <1>1
  <2>2. SumOver((1 .. n) \cup {n + 1}, Taken(d)) = SumOver(1 .. n, Taken(d)) + Taken(d)[n + 1]
    <3> DEFINE P == 1 .. n
               z == n + 1
    <3>1. /\ IsFiniteSet(P) /\ z \notin P /\ Taken(d)[z] \in Int
          /\ \A k \in P : Taken(d)[k] \in Int
      BY <1>4, <1>5, <2>1
    <3> HIDE DEF P, z
    <3>2. SumOver(P \cup {z}, Taken(d)) = SumOver(P, Taken(d)) + Taken(d)[z]
      BY <3>1, SumOfOneMore
    <3> QED
      BY <3>2 DEF P, z
  <2>3. SumOver(1 .. n, Taken(d)) = SumOver(1 .. n, Taken(m))
    BY <1>4, <1>5, SumsOfTheSame
  <2> QED
    BY <1>1, <1>4, <2>1, <2>2, <2>3
<1> QED
  BY <1>1, <1>6, <1>7, <1>8 DEF n

\* What the rule on self-matches leaves to trade with is within reach.
LEMMA TradeableIs ==
  ASSUME NEW b, NEW c
  PROVE  /\ Tradeable(b, c) \subseteq Reached(b, c) /\ Reached(b, c) \subseteq LiveOrders(b)
         /\ \A x : x \in Tradeable(b, c) /\ smp # "Allow" => x \notin Itself(b, c)
         /\ \A x, y : x \in Tradeable(b, c) /\ y \in Itself(b, c) /\ smp \notin {"Allow", "CancelResting"}
                        => HasPriority(b, x, y)
BY DEF Tradeable, Reached, Itself

\* What is in front of an order, when the account says it has traded in full.
LEMMA InFrontCounts ==
  ASSUME NEW b, IsSound(b), NEW c, NEW t \in [LiveOrders(b) -> Nat], NEW x \in LiveOrders(b),
         \A y \in Tradeable(b, c) : HasPriority(b, y, x) => t[y] = QtyOf(b, y)
  PROVE  /\ InFront(b, c, x) \in Nat /\ SumOver(LiveOrders(b), t) \in Nat
         /\ InFront(b, c, x) + t[x] <= SumOver(LiveOrders(b), t)
         /\ (\A y \in LiveOrders(b) : t[y] > 0 /\ y # x => y \in Tradeable(b, c) /\ HasPriority(b, y, x))
              => InFront(b, c, x) + t[x] = SumOver(LiveOrders(b), t)
<1> DEFINE A == {y \in Tradeable(b, c) : HasPriority(b, y, x)}
           L == LiveOrders(b)
<1>1. A \subseteq L /\ IsFiniteSet(A) /\ IsFiniteSet(L) /\ x \notin A
  <2>1. A \subseteq L
    BY TradeableIs
  <2>2. x \notin A
    BY PriorityIsOneWay
  <2> QED
    BY <2>1, <2>2, LiveIsFinite, FS_Subset
<1>2. \A y \in A : Sizes(b)[y] = t[y]
  BY <1>1 DEF Sizes
<1>3. InFront(b, c, x) = SumOver(A, Sizes(b))
  BY DEF InFront
<1>4. A \cup {x} \in SUBSET L /\ A \in SUBSET L /\ \A y \in L : t[y] \in Nat /\ t[y] \in Int
  BY <1>1
<1> HIDE DEF A, L
<1>5. SumOver(A, Sizes(b)) = SumOver(A, t)
  BY <1>1, <1>2, SumsOfTheSame
<1>6. SumOver(A \cup {x}, t) = SumOver(A, t) + t[x]
  BY <1>1, <1>4, SumOfOneMore DEF L
<1>7. /\ SumOver(A, t) \in Nat /\ SumOver(L, t) \in Nat
      /\ SumOver(A \cup {x}, t) <= SumOver(L, t)
      /\ (\A y \in L \ (A \cup {x}) : t[y] = 0) => SumOver(A \cup {x}, t) = SumOver(L, t)
  BY <1>1, <1>4, SumOfAPart
<1>8. (\A y \in LiveOrders(b) : t[y] > 0 /\ y # x => y \in Tradeable(b, c) /\ HasPriority(b, y, x))
        => \A y \in L \ (A \cup {x}) : t[y] = 0
  BY <1>4 DEF A, L
<1> QED
  BY <1>3, <1>5, <1>6, <1>7, <1>8 DEF L

\* And when whatever has traded is in front of it.
LEMMA InFrontCovers ==
  ASSUME NEW b, IsSound(b), NEW c, NEW t \in [LiveOrders(b) -> Nat], NEW x \in LiveOrders(b),
         \A y \in LiveOrders(b) : t[y] <= QtyOf(b, y),
         \A y \in LiveOrders(b) : t[y] > 0 => y \in Tradeable(b, c) /\ HasPriority(b, y, x)
  PROVE  InFront(b, c, x) \in Int /\ SumOver(LiveOrders(b), t) <= InFront(b, c, x)
<1> DEFINE A == {y \in Tradeable(b, c) : HasPriority(b, y, x)}
           L == LiveOrders(b)
<1>1. A \in SUBSET L /\ IsFiniteSet(A) /\ IsFiniteSet(L)
  <2>1. A \in SUBSET L
    BY TradeableIs
  <2> QED
    BY <2>1, LiveIsFinite, FS_Subset
<1>2. \A y \in L : /\ Sizes(b)[y] = QtyOf(b, y) /\ QtyOf(b, y) \in Nat
                   /\ t[y] \in Nat /\ t[y] <= QtyOf(b, y)
  BY LiveIs, KnownRests DEF Sizes
<1>3. InFront(b, c, x) = SumOver(A, Sizes(b))
  BY DEF InFront
<1>4. \A y \in L \ A : t[y] = 0
  BY <1>2
<1> HIDE DEF A, L
<1>5. SumOver(A, t) = SumOver(L, t) /\ SumOver(A, t) \in Nat
  BY <1>1, <1>2, <1>4, SumOfAPart
<1>6. SumOver(A, t) <= SumOver(A, Sizes(b))
  <2>1. \A y \in A : t[y] \in Int /\ Sizes(b)[y] \in Int /\ t[y] <= Sizes(b)[y]
    BY <1>1, <1>2
  <2> QED
    BY <1>1, <2>1, SumsCompare
<1>7. SumOver(A, Sizes(b)) \in Nat
  <2>1. \A y \in L : Sizes(b)[y] \in Nat
    BY <1>2
  <2> QED
    BY <1>1, <2>1, SumOfAPart
<1> QED
  BY <1>3, <1>5, <1>6, <1>7 DEF L

-----------------------------------------------------------------------------
(***************************************************************************)
(* One turn of the loop.                                                   *)
(***************************************************************************)
\* What has priority over the next and may be traded with has traded in full.
LEMMA AllInFrontTraded ==
  ASSUME NEW b, IsSound(b), NEW c, NEW m, NEW t, Progress(b, c, m, t),
         NEW x, IsNext(b, c, m, x)
  PROVE  \A y \in Tradeable(b, c) : HasPriority(b, y, x) => t[y] = QtyOf(b, y)
<1> SUFFICES ASSUME NEW y \in Tradeable(b, c), HasPriority(b, y, x) PROVE t[y] = QtyOf(b, y)
  OBVIOUS
<1>1. y \in Reached(b, c) /\ y \in LiveOrders(b)
  BY TradeableIs
<1>2. x \in LiveOrders(b)
  BY TradeableIs DEF IsNext, Left
<1>3. y \notin Left(b, c, m)
  <2> SUFFICES ASSUME y \in Left(b, c, m) PROVE FALSE
    OBVIOUS
  <2>1. y # x /\ ~HasPriority(b, x, y)
    BY <1>1, <1>2, PriorityIsOneWay
  <2> QED
    BY <2>1 DEF IsNext
<1>4. y \in Gone(b, m)
  BY <1>1, <1>3 DEF Left, Gone
<1>5. t[y] = QtyOf(b, y) \/ Prevented(b, c, y)
  BY <1>4 DEF Progress, Account, GoneForAReason
<1>6. ~Prevented(b, c, y)
  BY TradeableIs DEF Prevented
<1> QED
  BY <1>5, <1>6

\* A turn that cancels an order of ours in the way of our own.
LEMMA PreventedStep ==
  ASSUME NEW b, IsSound(b), NEW c, IsCall(c), NEW m, NEW t, Progress(b, c, m, t), m.left > 0,
         NEW x, IsNext(b, c, m, x), Known(m.book, x), smp = "CancelResting", x \in Itself(b, c),
         NEW d, d = Matched(Remove(m.book, x).book, m.left, m.fills)
  PROVE  Progress(b, c, d, t) /\ LiveOrders(d.book) = LiveOrders(m.book) \ {x}
<1>1. d.book = Remove(m.book, x).book /\ d.left = m.left /\ d.fills = m.fills
  BY DEF Matched
<1>2. d = Matched(d.book, d.left, d.fills)
  BY <1>1
<1>3. InPlace(b, m) /\ FirstsGone(b, c, m) /\ IsSound(m.book) /\ m.left \in 0 .. c.qty
  BY DEF Progress, InPlace
<1>4. Leaves(m.book, d.book, x)
  BY <1>1, <1>3, RemoveLeaves
<1>5. /\ InPlace(b, d) /\ FirstsGone(b, c, d)
      /\ Gone(b, d) = Gone(b, m) \cup {x} /\ x \notin Gone(b, m)
  BY <1>3, <1>4, NextIsGone
<1>6. /\ LiveOrders(d.book) = LiveOrders(m.book) \ {x} /\ IsSound(d.book)
      /\ \A y \in LiveOrders(d.book) : EntryOf(d.book, y) = EntryOf(m.book, y)
  BY <1>4 DEF Leaves
<1>7. Account(b, c, m, t) /\ t \in [LiveOrders(b) -> Nat]
  BY DEF Progress, Account
<1>8. x \in LiveOrders(m.book) /\ x \in LiveOrders(b) /\ x \in Reached(b, c)
  BY <1>3 DEF IsNext, Left, InPlace
<1>9. c.qty \in Nat /\ m.left \in Nat /\ m.left # 0
  BY <1>3 DEF IsCall
<1>10. CountsFills(b, d, t)
  BY <1>1, <1>7 DEF Account, CountsFills, TradedBy, Taken
<1>11. LeavesTheRest(b, d, t)
  <2> SUFFICES ASSUME NEW y \in LiveOrders(d.book) PROVE QtyOf(d.book, y) = QtyOf(b, y) - t[y]
    BY DEF LeavesTheRest
  <2>1. y \in LiveOrders(m.book) /\ EntryOf(d.book, y) = EntryOf(m.book, y)
    BY <1>6
  <2>2. QtyOf(d.book, y) = QtyOf(m.book, y)
    BY <1>3, <1>6, <2>1, LiveIs DEF QtyOf
  <2> QED
    BY <1>7, <2>1, <2>2 DEF Account, LeavesTheRest
<1>12. \A y \in LiveOrders(m.book) : t[y] = 0
  <2> SUFFICES ASSUME NEW y \in LiveOrders(m.book) PROVE t[y] = 0
    OBVIOUS
  <2>1. y \in LiveOrders(b)
    BY <1>3 DEF InPlace
  <2>2. ~(t[y] > 0)
    BY <1>7, <1>9 DEF Account, OnlyTheNextInPart
  <2> QED
    BY <1>7, <2>1, <2>2
<1>13. OnlyTheNextInPart(b, c, d, t)
  BY <1>6, <1>12 DEF OnlyTheNextInPart
<1>14. InFront(b, c, x) < c.qty
  <2>1. /\ InFront(b, c, x) \in Nat /\ SumOver(LiveOrders(b), t) \in Nat
        /\ InFront(b, c, x) + t[x] <= SumOver(LiveOrders(b), t)
    BY <1>7, <1>8, AllInFrontTraded, InFrontCounts
  <2>2. SumOver(LiveOrders(b), t) = c.qty - m.left
    BY <1>7 DEF Account, AddsUp
  <2>3. t[x] = 0
    BY <1>8, <1>12
  <2> QED
    BY <1>9, <2>1, <2>2, <2>3
<1>15. GoneForAReason(b, c, d, t)
  <2>1. Prevented(b, c, x) /\ t[x] = 0
    BY <1>8, <1>12, <1>14 DEF Prevented
  <2> QED
    BY <1>5, <1>7, <2>1 DEF Account, GoneForAReason
<1>16. OnlyTradeable(b, c, t) /\ AddsUp(b, c, d, t)
  BY <1>1, <1>7 DEF Account, AddsUp
<1>17. Account(b, c, d, t)
  BY <1>7, <1>10, <1>11, <1>13, <1>15, <1>16 DEF Account
<1>18. Filled(b, c, d)
  <2>1. Filled(b, c, m)
    BY DEF Progress
  <2>2. FillsAreRight(b, c, d)
    BY <1>1, <1>6, <2>1 DEF Filled, FillsAreRight
  <2>3. FillsInOrder(b, d) /\ FillsAddUp(c, d)
    BY <1>1, <2>1 DEF Filled, FillsInOrder, FillsAddUp, Taken
  <2> QED
    BY <1>1, <2>1, <2>2, <2>3 DEF Filled
<1> QED
  BY <1>1, <1>2, <1>3, <1>5, <1>6, <1>17, <1>18 DEF Progress

\* The next may be traded with, unless the rule on self-matches says otherwise.
LEMMA NextIsTradeable ==
  ASSUME NEW b, IsSound(b), smp \in SelfMatchRules, NEW c, IsCall(c), NEW m, NEW t,
         Progress(b, c, m, t), NEW x, IsNext(b, c, m, x), smp # "Allow" => x \notin Itself(b, c)
  PROVE  x \in Tradeable(b, c)
<1>1. x \in Reached(b, c)
  BY DEF IsNext, Left
<1>2. CASE smp # "CancelIncoming"
  BY <1>1, <1>2 DEF Tradeable, SelfMatchRules
<1>3. CASE smp = "CancelIncoming"
  <2> SUFFICES ASSUME NEW y \in Itself(b, c) PROVE HasPriority(b, x, y)
    BY <1>1, <1>3 DEF Tradeable
  <2>1. y \in Reached(b, c) /\ y \in LiveOrders(b) /\ QtyOf(b, y) \in Nat \ {0}
    BY LiveIs, KnownRests DEF Itself, Reached
  <2>2. y \notin Gone(b, m)
    <3> SUFFICES ASSUME y \in Gone(b, m) PROVE FALSE
      OBVIOUS
    <3>1. t[y] = QtyOf(b, y) \/ Prevented(b, c, y)
      BY DEF Progress, Account, GoneForAReason
    <3>2. t[y] > 0
      BY <1>3, <2>1, <3>1 DEF Prevented
    <3>3. y \in Tradeable(b, c)
      BY <2>1, <3>2 DEF Progress, Account, OnlyTradeable
    <3> QED
      BY <1>3, <3>3, TradeableIs
  <2>3. y \in Left(b, c, m)
    BY <2>1, <2>2 DEF Gone, Left
  <2> QED
    BY <1>3, <2>3 DEF IsNext
<1> QED
  BY <1>2, <1>3

\* One more trade of an order that had none.
LEMMA SumOfOneTrade ==
  ASSUME NEW b, NEW t \in [LiveOrders(b) -> Nat], NEW x \in LiveOrders(b), t[x] = 0, NEW n \in Nat
  PROVE  SumOver(LiveOrders(b), [t EXCEPT ![x] = n]) = SumOver(LiveOrders(b), t) + n
<1> DEFINE L == LiveOrders(b)
           R == L \ {x}
           u == [t EXCEPT ![x] = n]
<1>1. /\ IsFiniteSet(R) /\ x \notin R /\ L = R \cup {x} /\ u[x] = n
      /\ \A y \in R : u[y] = t[y] /\ t[y] \in Int
  BY LiveIsFinite, FS_Subset
<1>2. t[x] \in Int /\ n \in Int
  OBVIOUS
<1> HIDE DEF L, R, u
<1>3. SumOver(R \cup {x}, t) = SumOver(R, t) + t[x] /\ SumOver(R, t) \in Int
  BY <1>1, <1>2, SumOfOneMore
<1>4. SumOver(R \cup {x}, u) = SumOver(R, u) + u[x]
  BY <1>1, <1>2, SumOfOneMore
<1>5. SumOver(R, u) = SumOver(R, t)
  BY <1>1, SumsOfTheSame
<1>6. SumOver(L, u) = SumOver(L, t) + n
  BY <1>1, <1>3, <1>4, <1>5
<1> QED
  BY <1>6 DEF L, u

\* A turn that trades with the next: all of it, or all that is left to trade.
LEMMA TradeStep ==
  ASSUME NEW b, IsSound(b), NEW c, IsCall(c), NEW m, NEW t, Progress(b, c, m, t), m.left > 0,
         NEW x, IsNext(b, c, m, x), x \in Tradeable(b, c),
         NEW n \in Nat \ {0}, NEW f \in Trade, f.resting = x, f.qty = n,
         f.price = Where(b, x)[2], smp # "Allow" => ~(f.restingMine /\ f.aggressorMine),
         NEW d, d = Matched(d.book, m.left - n, Append(m.fills, f)),
         \/ n = QtyOf(m.book, x) /\ n <= m.left /\ Leaves(m.book, d.book, x)
         \/ n = m.left /\ Shrinks(m.book, d.book, x, n)
  PROVE  \E u : Progress(b, c, d, u)
<1> DEFINE u == [t EXCEPT ![x] = n]
<1>1. d.left = m.left - n /\ d.fills = Append(m.fills, f)
  BY DEF Matched
<1>2. InPlace(b, m) /\ FirstsGone(b, c, m) /\ IsSound(m.book) /\ m.left \in 0 .. c.qty
  BY DEF Progress, InPlace
<1>3. Account(b, c, m, t) /\ t \in [LiveOrders(b) -> Nat] /\ Filled(b, c, m) /\ m.fills \in Seq(Trade)
  BY DEF Progress, Account, Filled
<1>4. /\ x \in LiveOrders(m.book) /\ x \in LiveOrders(b) /\ x \in Reached(b, c)
      /\ x \in Left(b, c, m) /\ LiveOrders(m.book) \subseteq LiveOrders(b)
  BY <1>2 DEF IsNext, Left, InPlace
<1>5. c.qty \in Nat /\ m.left \in Nat /\ m.left # 0 /\ n \in Nat /\ n # 0
  BY <1>2 DEF IsCall
<1>6. \A y \in LiveOrders(m.book) : t[y] = 0 /\ QtyOf(m.book, y) = QtyOf(b, y)
  <2> SUFFICES ASSUME NEW y \in LiveOrders(m.book)
               PROVE  t[y] = 0 /\ QtyOf(m.book, y) = QtyOf(b, y)
    OBVIOUS
  <2>1. y \in LiveOrders(b) /\ QtyOf(b, y) \in Nat
    BY <1>4, LiveIs, KnownRests
  <2>2. ~(t[y] > 0)
    BY <1>3, <1>5 DEF Account, OnlyTheNextInPart
  <2>3. t[y] = 0
    BY <1>3, <2>1, <2>2
  <2>4. QtyOf(m.book, y) = QtyOf(b, y) - t[y]
    BY <1>3 DEF Account, LeavesTheRest
  <2> QED
    BY <2>1, <2>3, <2>4
<1>7. u \in [LiveOrders(b) -> Nat] /\ u[x] = n /\ \A y \in LiveOrders(b) : y # x => u[y] = t[y]
  BY <1>3, <1>4
<1>8. d.left \in 0 .. c.qty /\ \A y \in LiveOrders(b) : QtyOf(b, y) \in Nat
  <2>1. n <= m.left
    BY <1>5
  <2> QED
    BY <1>1, <1>2, <1>5, <2>1, LiveIs, KnownRests
<1>9. /\ InPlace(b, d) /\ FirstsGone(b, c, d) /\ IsSound(d.book)
      /\ LiveOrders(d.book) \subseteq LiveOrders(m.book)
      /\ \A y \in Gone(b, d) : y \in Gone(b, m) \/ (y = x /\ n = QtyOf(b, x))
      /\ x \notin Gone(b, m)
      /\ x \in LiveOrders(d.book) => d.left = 0 /\ IsNext(b, c, d, x)
      /\ \A y \in LiveOrders(d.book) :
           QtyOf(d.book, y) = IF y = x THEN QtyOf(b, y) - n ELSE QtyOf(b, y)
  <2>1. CASE n = QtyOf(m.book, x) /\ n <= m.left /\ Leaves(m.book, d.book, x)
    <3>1. /\ InPlace(b, d) /\ FirstsGone(b, c, d)
          /\ Gone(b, d) = Gone(b, m) \cup {x} /\ x \notin Gone(b, m)
      BY <1>2, <2>1, NextIsGone
    <3>2. /\ LiveOrders(d.book) = LiveOrders(m.book) \ {x} /\ IsSound(d.book)
          /\ \A y \in LiveOrders(d.book) : EntryOf(d.book, y) = EntryOf(m.book, y)
      BY <2>1 DEF Leaves
    <3>3. ASSUME NEW y \in LiveOrders(d.book) PROVE y # x /\ QtyOf(d.book, y) = QtyOf(b, y)
      <4>1. y \in LiveOrders(m.book) /\ EntryOf(d.book, y) = EntryOf(m.book, y)
        BY <3>2
      <4>2. QtyOf(d.book, y) = QtyOf(m.book, y)
        BY <1>2, <3>2, <4>1, LiveIs DEF QtyOf
      <4> QED
        BY <1>6, <3>2, <4>1, <4>2
    <3>4. n = QtyOf(b, x)
      BY <1>4, <1>6, <2>1
    <3> QED
      BY <3>1, <3>2, <3>3, <3>4
  <2>2. CASE n = m.left /\ Shrinks(m.book, d.book, x, n)
    <3>1. /\ InPlace(b, d) /\ FirstsGone(b, c, d)
          /\ Gone(b, d) = Gone(b, m) /\ Left(b, c, d) = Left(b, c, m)
      BY <1>2, <2>2, PartIsTaken
    <3>2. /\ LiveOrders(d.book) = LiveOrders(m.book) /\ IsSound(d.book)
          /\ \A y \in LiveOrders(m.book) :
               QtyOf(d.book, y) = IF y = x THEN QtyOf(m.book, y) - n ELSE QtyOf(m.book, y)
      BY <2>2 DEF Shrinks
    <3>3. d.left = 0 /\ IsNext(b, c, d, x)
      BY <1>1, <1>5, <2>2, <3>1 DEF IsNext
    <3>4. x \notin Gone(b, m)
      BY <1>4 DEF Gone
    <3> QED
      BY <1>6, <3>1, <3>2, <3>3, <3>4
  <2> QED
    BY <2>1, <2>2
<1>10. \A k \in 1 .. Len(m.fills) :
         /\ m.fills[k].resting \in LiveOrders(b) /\ m.fills[k].resting \in Gone(b, m)
         /\ m.fills[k].resting # x
  BY <1>3, <1>4, <1>5 DEF Filled, FillsAreRight, Gone
<1>11. /\ d.fills \in Seq(Trade) /\ Len(m.fills) \in Nat /\ Len(d.fills) = Len(m.fills) + 1
       /\ d.fills[Len(d.fills)] = f /\ \A k \in 1 .. Len(m.fills) : d.fills[k] = m.fills[k]
       /\ TradedBy(d, x) = n
       /\ \A y : y # x => TradedBy(d, y) = TradedBy(m, y)
       /\ SumOver(DOMAIN d.fills, Taken(d)) = SumOver(DOMAIN m.fills, Taken(m)) + n
  BY <1>1, <1>3, <1>10, FillAppended, SMTT(30)
<1> HIDE DEF u
<1>12. CountsFills(b, d, u)
  BY <1>3, <1>7, <1>11 DEF Account, CountsFills
<1>13. LeavesTheRest(b, d, u)
  <2> SUFFICES ASSUME NEW y \in LiveOrders(d.book) PROVE QtyOf(d.book, y) = QtyOf(b, y) - u[y]
    BY DEF LeavesTheRest
  <2>1. y \in LiveOrders(b) /\ t[y] = 0
    BY <1>4, <1>6, <1>9
  <2> QED
    BY <1>7, <1>8, <1>9, <2>1
<1>14. OnlyTheNextInPart(b, c, d, u)
  <2> SUFFICES ASSUME NEW y \in LiveOrders(d.book), u[y] > 0 PROVE d.left = 0 /\ IsNext(b, c, d, y)
    BY DEF OnlyTheNextInPart
  <2>1. y = x
    BY <1>4, <1>6, <1>7, <1>9
  <2> QED
    BY <1>9, <2>1
<1>15. GoneForAReason(b, c, d, u)
  <2> SUFFICES ASSUME NEW y \in Gone(b, d)
               PROVE  u[y] = QtyOf(b, y) \/ (u[y] = 0 /\ Prevented(b, c, y))
    BY DEF GoneForAReason
  <2>1. y \in LiveOrders(b)
    BY DEF Gone
  <2>2. CASE y \in Gone(b, m)
    <3>1. u[y] = t[y]
      BY <1>7, <1>9, <2>1, <2>2
    <3> QED
      BY <1>3, <2>2, <3>1 DEF Account, GoneForAReason
  <2>3. CASE y = x /\ n = QtyOf(b, x)
    BY <1>7, <2>3
  <2> QED
    BY <1>9, <2>2, <2>3
<1>16. OnlyTradeable(b, c, u)
  BY <1>3, <1>7 DEF Account, OnlyTradeable
<1>17. AddsUp(b, c, d, u)
  <2>1. SumOver(LiveOrders(b), u) = SumOver(LiveOrders(b), t) + n
    BY <1>3, <1>4, <1>5, <1>6, SumOfOneTrade DEF u
  <2>2. SumOver(LiveOrders(b), t) = c.qty - m.left
    BY <1>3 DEF Account, AddsUp
  <2>3. c.qty - (m.left - n) = c.qty - m.left + n
    BY <1>5
  <2> QED
    BY <1>1, <2>1, <2>2, <2>3 DEF AddsUp
<1>18. Account(b, c, d, u)
  BY <1>7, <1>12, <1>13, <1>14, <1>15, <1>16, <1>17 DEF Account
<1>19. FillsAreRight(b, c, d)
  <2> SUFFICES ASSUME NEW k \in 1 .. Len(d.fills)
               PROVE  /\ d.fills[k].resting \in LiveOrders(b)
                      /\ d.fills[k].price = Where(b, d.fills[k].resting)[2]
                      /\ smp # "Allow" => ~(d.fills[k].restingMine /\ d.fills[k].aggressorMine)
                      /\ d.fills[k].resting \in LiveOrders(d.book) => d.left = 0
    BY DEF FillsAreRight
  <2>1. k = Len(d.fills) \/ k \in 1 .. Len(m.fills)
    BY <1>11
  <2>2. CASE k = Len(d.fills)
    <3>1. d.fills[k] = f
      BY <1>11, <2>2
    <3> QED
      BY <1>4, <1>9, <3>1
  <2>3. CASE k \in 1 .. Len(m.fills)
    <3>1. d.fills[k] = m.fills[k]
      BY <1>11, <2>3
    <3>2. m.fills[k].resting \notin LiveOrders(d.book)
      BY <1>9, <1>10, <2>3 DEF Gone
    <3> QED
      BY <1>3, <2>3, <3>1, <3>2 DEF Filled, FillsAreRight
  <2> QED
    BY <2>1, <2>2, <2>3
<1>20. FillsInOrder(b, d)
  <2> SUFFICES ASSUME NEW k \in 2 .. Len(d.fills)
               PROVE  HasPriority(b, d.fills[k - 1].resting, d.fills[k].resting)
    BY DEF FillsInOrder
  <2>1. k = Len(d.fills) \/ k \in 2 .. Len(m.fills)
    BY <1>11
  <2>2. k - 1 \in 1 .. Len(m.fills) /\ d.fills[k - 1] = m.fills[k - 1]
    BY <1>11
  <2>3. CASE k = Len(d.fills)
    <3>1. d.fills[k].resting = x
      BY <1>11, <2>3
    <3>2. m.fills[k - 1].resting \in Gone(b, m)
      BY <1>10, <2>2
    <3>3. HasPriority(b, m.fills[k - 1].resting, x)
      BY <1>2, <1>4, <3>2 DEF FirstsGone
    <3> QED
      BY <2>2, <3>1, <3>3
  <2>4. CASE k \in 2 .. Len(m.fills)
    <3>1. d.fills[k] = m.fills[k]
      BY <1>11, <2>4
    <3> QED
      BY <1>3, <2>2, <2>4, <3>1 DEF Filled, FillsInOrder
  <2> QED
    BY <2>1, <2>3, <2>4
<1>21. FillsAddUp(c, d)
  <2>1. SumOver(DOMAIN m.fills, Taken(m)) = c.qty - m.left
    BY <1>3 DEF Filled, FillsAddUp
  <2>2. c.qty - (m.left - n) = c.qty - m.left + n
    BY <1>5
  <2> QED
    BY <1>1, <1>11, <2>1, <2>2 DEF FillsAddUp
<1>22. Filled(b, c, d)
  BY <1>11, <1>19, <1>20, <1>21 DEF Filled
<1>23. d = Matched(d.book, d.left, d.fills)
  BY <1>1
<1> QED
  BY <1>8, <1>9, <1>18, <1>22, <1>23 DEF Progress

\* Why the loop ends: nothing left to trade, nothing left to trade with, or
\* the rule that cancels what is left of an order when it meets our own.
Stopped(b, c, m) ==
  \/ m.left = 0
  \/ Left(b, c, m) = {}
  \/ \E x \in Itself(b, c) : smp = "CancelIncoming" /\ IsNext(b, c, m, x)

Turn(c, m) == CrossStep(m, smp, c.id, c.side, c.limit, c.mine)

\* A turn ends the loop, ends the incoming order, or uses up the next.
LEMMA TurnIs ==
  ASSUME NEW b, IsSound(b), smp \in SelfMatchRules, NEW c, IsCall(c), NEW m, NEW t,
         Progress(b, c, m, t)
  PROVE  \/ Turn(c, m) = m /\ Stopped(b, c, m)
         \/ /\ \E u : Progress(b, c, Turn(c, m), u)
            /\ \/ Turn(c, m).left = 0
               \/ \E x \in LiveOrders(m.book) :
                    LiveOrders(Turn(c, m).book) = LiveOrders(m.book) \ {x}
<1> DEFINE other == Opposite(c.side)
           price == Best(m.book, other)
           front == FrontEntry(m.book[other][price])
           x == front.id
           n == Lesser(m.left, front.qty)
           f == [resting |-> x, aggressor |-> c.id, price |-> price, qty |-> n,
                 side |-> other, restingMine |-> front.mine, aggressorMine |-> c.mine]
<1>1. InPlace(b, m) /\ IsSound(m.book) /\ m.left \in 0 .. c.qty
      /\ m = Matched(m.book, m.left, m.fills)
  BY DEF Progress, InPlace
<1>2. /\ c.id \in Ids /\ other \in Sides /\ c.mine \in BOOLEAN /\ c.qty \in Nat
      /\ m.left \in Nat
  BY <1>1 DEF IsCall, Opposite, Sides
<1>3. CASE m.left = 0 \/ ~HasBest(m.book, other)
  <2>1. Turn(c, m) = m
    BY <1>3 DEF Turn, CrossStep
  <2>2. Stopped(b, c, m)
    BY <1>1, <1>3, NoBestNoneLeft DEF Stopped
  <2> QED
    BY <2>1, <2>2
<1>4. CASE m.left # 0 /\ HasBest(m.book, other) /\ price \notin c.limit
  <2>1. Turn(c, m) = m
    BY <1>4 DEF Turn, CrossStep
  <2>2. Stopped(b, c, m)
    BY <1>1, <1>4, NoBestNoneLeft DEF Stopped
  <2> QED
    BY <2>1, <2>2
<1>5. ASSUME m.left # 0, HasBest(m.book, other), price \in c.limit
      PROVE  \/ Turn(c, m) = m /\ Stopped(b, c, m)
             \/ /\ \E u : Progress(b, c, Turn(c, m), u)
                /\ \/ Turn(c, m).left = 0
                   \/ \E y \in LiveOrders(m.book) :
                        LiveOrders(Turn(c, m).book) = LiveOrders(m.book) \ {y}
  <2>1. /\ IsNext(b, c, m, x)
        /\ Known(m.book, x) /\ x \in Ids /\ x \in LiveOrders(b)
        /\ Where(b, x) = <<other, price>> /\ EntryOf(b, x).mine = front.mine
        /\ front.qty \in Nat \ {0} /\ front.qty = QtyOf(m.book, x) /\ front.mine \in BOOLEAN
    BY <1>1, <1>5, FrontIsNext
  <2>2. x # NoFront
    BY <2>1, IdsAssumption
  <2>3. x \in LiveOrders(m.book) /\ x \in Reached(b, c) /\ price \in Prices
    BY <1>5, <2>1 DEF IsNext, Left, IsCall
  <2>4. x \in Itself(b, c) <=> MeetsItself(front, c.mine)
    BY <2>1, <2>3 DEF Itself, MeetsItself
  <2>5. Where(b, x)[2] = price
    <3>1. \A w, p, q : w = <<p, q>> => w[2] = q
      OBVIOUS
    <3>2. Where(b, x) = <<other, price>>
      BY <2>1
    <3> HIDE DEF other, price, x
    <3> QED
      BY ONLY <3>1, <3>2, Zenon
  <2>6. CASE MeetsItself(front, c.mine) /\ smp = "CancelResting"
    <3> DEFINE d == Matched(Remove(m.book, x).book, m.left, m.fills)
    <3>1. Turn(c, m) = [m EXCEPT !.book = Remove(m.book, x).book]
      BY <1>5, <2>2, <2>6 DEF Turn, CrossStep
    <3>2. \A r : [Matched(m.book, m.left, m.fills) EXCEPT !.book = r] = Matched(r, m.left, m.fills)
      BY DEF Matched
    <3>3. Turn(c, m) = d
      BY <1>1, <3>1, <3>2, Zenon
    <3>4. m.left > 0
      BY <1>2, <1>5
    <3>5. Progress(b, c, d, t) /\ LiveOrders(d.book) = LiveOrders(m.book) \ {x}
      <4>1. x \in Itself(b, c) /\ IsNext(b, c, m, x) /\ Known(m.book, x) /\ smp = "CancelResting"
        BY <2>1, <2>4, <2>6
      <4>2. d = Matched(Remove(m.book, x).book, m.left, m.fills)
        OBVIOUS
      <4> HIDE DEF d, x
      <4> QED
        BY <3>4, <4>1, <4>2, PreventedStep
    <3> QED
      BY <2>3, <3>3, <3>5
  <2>7. CASE MeetsItself(front, c.mine) /\ smp = "CancelIncoming"
    <3>1. Turn(c, m) = m
      BY <1>5, <2>2, <2>7 DEF Turn, CrossStep
    <3>2. Stopped(b, c, m)
      BY <2>1, <2>4, <2>7 DEF Stopped
    <3> QED
      BY <3>1, <3>2
  <2>8. CASE ~MeetsItself(front, c.mine) \/ smp = "Allow"
    <3> DEFINE e == Execute(m.book, x, n).book
               d == Matched(e, m.left - n, Append(m.fills, f))
    <3>1. Turn(c, m) = TradeWith(m, front, price, c.id, c.side, c.mine)
      BY <1>5, <2>2, <2>8 DEF Turn, CrossStep
    <3>2. Turn(c, m) = d
      BY <3>1 DEF TradeWith, Take
    <3>3. smp # "Allow" => x \notin Itself(b, c)
      BY <2>4, <2>8
    <3>4. x \in Tradeable(b, c)
      BY <2>1, <3>3, NextIsTradeable
    <3>5. /\ n \in Nat \ {0} /\ n <= m.left /\ m.left > 0
          /\ n = front.qty \/ (n = m.left /\ n < front.qty)
      <4>1. front.qty \in Nat /\ front.qty # 0
        BY <2>1
      <4> HIDE DEF front
      <4> QED
        BY <1>2, <1>5, <4>1 DEF Lesser
    <3>6. /\ f \in Trade /\ f.resting = x /\ f.qty = n /\ f.price = Where(b, x)[2]
          /\ smp # "Allow" => ~(f.restingMine /\ f.aggressorMine)
      <4>1. f.resting = x /\ f.qty = n /\ f.price = price /\ f.restingMine = front.mine
            /\ f.aggressorMine = c.mine
        OBVIOUS
      <4>2. f \in Trade
        <5> HIDE DEF n, x, price, other, front
        <5> QED
          BY <1>2, <2>1, <2>3, <3>5 DEF Trade
      <4> HIDE DEF f
      <4> QED
        BY <2>5, <2>8, <4>1, <4>2 DEF MeetsItself
    <3>7. QtyOf(m.book, x) = EntryOf(m.book, x).qty
      BY <1>1, <2>1, KnownRests, ZenonT(40)
    <3>8. \/ n = QtyOf(m.book, x) /\ Leaves(m.book, e, x)
          \/ n = m.left /\ Shrinks(m.book, e, x, n)
      <4>1. CASE n = front.qty
        <5>1. n = EntryOf(m.book, x).qty /\ n \in Nat /\ n # 0
          BY <2>1, <3>5, <3>7, <4>1
        <5> HIDE DEF n, x
        <5>2. ~(n <= 0 \/ n > EntryOf(m.book, x).qty)
          BY <5>1
        <5>3. e = Remove(m.book, x).book
          BY <2>1, <5>1, <5>2 DEF Execute, Reduce
        <5>4. Leaves(m.book, e, x)
          BY <1>1, <2>1, <5>3, RemoveLeaves
        <5> QED
          BY <3>7, <5>1, <5>4
      <4>2. CASE n = m.left /\ n < front.qty
        <5>1. n \in Nat /\ n > 0 /\ n < QtyOf(m.book, x)
          BY <2>1, <3>5, <4>2
        <5> HIDE DEF n, x
        <5>2. Shrinks(m.book, e, x, n)
          BY <1>1, <2>1, <5>1, ReduceShrinks DEF Execute
        <5> QED
          BY <4>2, <5>2
      <4> QED
        BY <3>5, <4>1, <4>2
    <3>9. d = Matched(d.book, m.left - n, Append(m.fills, f)) /\ d.book = e /\ d.left = m.left - n
      BY DEF Matched
    <3> HIDE DEF d, e, f, n, x
    <3>10. \E u : Progress(b, c, d, u)
      BY <2>1, <3>4, <3>5, <3>6, <3>8, <3>9, TradeStep
    <3>11. Shrinks(m.book, e, x, n) /\ n = m.left => d.left = 0
      BY <1>2, <3>9
    <3>12. Leaves(m.book, e, x) => LiveOrders(d.book) = LiveOrders(m.book) \ {x}
      BY <3>9 DEF Leaves
    <3> QED
      BY <2>3, <3>2, <3>8, <3>10, <3>11, <3>12
  <2> QED
    BY <2>6, <2>7, <2>8 DEF SelfMatchRules
<1> QED
  BY <1>3, <1>4, <1>5

-----------------------------------------------------------------------------
(***************************************************************************)
(* The whole loop.  Every turn that does not end it takes an order out of  *)
(* the book, so the turns the book has room for are enough.                *)
(***************************************************************************)
\* g is the matching after each turn of the loop.
TurnsOf(g, b, c) ==
  /\ g[0] = Matched(b, c.qty, <<>>)
  /\ \A k \in 1 .. MaxOrders : g[k] = Turn(c, g[k - 1])

Crossed(b, c) == Cross(b, smp, c.id, c.side, c.limit, c.qty, c.mine)

\* The same for a rule of its own and the parts of a submission.
TurnsBy(g, b, rule, id, sd, limit, qty, mine) ==
  /\ g[0] = Matched(b, qty, <<>>)
  /\ \A k \in 1 .. MaxOrders : g[k] = CrossStep(g[k - 1], rule, id, sd, limit, mine)

\* The loop: a recursion whose function exists, up to each turn.
LEMMA LoopTurns ==
  ASSUME NEW b, NEW rule, NEW id, NEW sd, NEW limit, NEW qty, NEW mine
  PROVE  \E g : /\ TurnsBy(g, b, rule, id, sd, limit, qty, mine)
               /\ Cross(b, rule, id, sd, limit, qty, mine) = g[MaxOrders]
<1> DEFINE start == Matched(b, qty, <<>>)
           Step(m) == CrossStep(m, rule, id, sd, limit, mine)
           Walks(f) == f = [n \in 0 .. MaxOrders |-> IF n = 0 THEN start ELSE Step(f[n - 1])]
           after == CHOOSE f : Walks(f)
<1>1. Cross(b, rule, id, sd, limit, qty, mine) = after[MaxOrders]
  BY DEF Cross
<1> HIDE DEF start, Step
<1> USE MaxOrdersAssumption
<1> DEFINE UpTo(f, k) == /\ f = [n \in 0 .. MaxOrders |-> f[n]] /\ f[0] = start
                         /\ \A n \in 1 .. k : f[n] = Step(f[n - 1])
           Bad == {k \in 0 .. MaxOrders : ~\E f : UpTo(f, k)}
<1> HIDE DEF UpTo
<1>2. Bad = {}
  <2> SUFFICES ASSUME Bad # {} PROVE FALSE
    OBVIOUS
  <2>1. PICK k \in Bad : \A j \in Bad : k <= j
    <3>1. Bad \in SUBSET Nat
      OBVIOUS
    <3> QED
      BY <3>1, LeastExists
  <2>2. k # 0
    <3> DEFINE f == [n \in 0 .. MaxOrders |-> start]
    <3>1. f = [n \in 0 .. MaxOrders |-> f[n]] /\ f[0] = start
      OBVIOUS
    <3> HIDE DEF f
    <3>2. UpTo(f, 0)
      BY <3>1 DEF UpTo
    <3> QED
      BY <2>1, <3>2
  <2>3. k \in 1 .. MaxOrders /\ k - 1 \in 0 .. MaxOrders /\ k - 1 \notin Bad
    BY <2>1, <2>2
  <2>4. PICK f : UpTo(f, k - 1)
    BY <2>3
  <2> DEFINE g == [n \in 0 .. MaxOrders |-> IF n = k THEN Step(f[k - 1]) ELSE f[n]]
  <2>5. UpTo(g, k)
    <3>1. f[0] = start /\ \A n \in 1 .. k - 1 : f[n] = Step(f[n - 1])
      BY <2>4 DEF UpTo
    <3>2. g[k] = Step(f[k - 1]) /\ \A n \in 0 .. k - 1 : g[n] = f[n]
      BY <2>3
    <3>3. g = [n \in 0 .. MaxOrders |-> g[n]]
      OBVIOUS
    <3> HIDE DEF g
    <3>4. \A n \in 1 .. k : g[n] = Step(g[n - 1])
      <4> SUFFICES ASSUME NEW n \in 1 .. k PROVE g[n] = Step(g[n - 1])
        OBVIOUS
      <4>1. n - 1 \in 0 .. k - 1 /\ (n = k \/ n \in 1 .. k - 1)
        BY <2>3
      <4> QED
        BY <2>3, <3>1, <3>2, <4>1
    <3>5. g[0] = start
      BY <2>3, <3>1, <3>2
    <3> QED
      BY <3>3, <3>4, <3>5 DEF UpTo
  <2> QED
    BY <2>1, <2>5
<1>3. \E f : Walks(f)
  <2>1. PICK f : UpTo(f, MaxOrders)
    BY <1>2
  <2>2. f = [n \in 0 .. MaxOrders |-> f[n]]
    BY <2>1, Zenon DEF UpTo
  <2> DEFINE x(n) == IF n = 0 THEN start ELSE Step(f[n - 1])
  <2>3. \A n \in 0 .. MaxOrders : f[n] = x(n)
    <3> SUFFICES ASSUME NEW n \in 0 .. MaxOrders PROVE f[n] = x(n)
      OBVIOUS
    <3>1. f[0] = start /\ (n # 0 => n \in 1 .. MaxOrders)
      BY <2>1 DEF UpTo
    <3>2. n # 0 => f[n] = Step(f[n - 1])
      BY <2>1, <3>1, Zenon DEF UpTo
    <3> QED
      BY <3>1, <3>2
  <2> DEFINE w == [n \in 0 .. MaxOrders |-> IF n = 0 THEN start ELSE Step(f[n - 1])]
  <2>4. Walks(f)
    <3>1. w = [n \in 0 .. MaxOrders |-> w[n]] /\ \A n \in 0 .. MaxOrders : w[n] = f[n]
      BY <2>3
    <3> HIDE DEF w
    <3>2. w = f
      BY <2>2, <3>1
    <3> QED
      BY <3>2 DEF w
  <2> QED
    BY <2>4
<1>4. Walks(after)
  BY <1>3, Zenon
<1> HIDE DEF after
<1>5. after[0] = start /\ \A k \in 1 .. MaxOrders : after[k] = Step(after[k - 1])
  BY <1>4
<1> QED
  BY <1>1, <1>5 DEF TurnsBy, Step, start

\* The loop of a submission.
LEMMA CrossTurns ==
  ASSUME NEW b, NEW c
  PROVE  \E g : TurnsOf(g, b, c) /\ Crossed(b, c) = g[MaxOrders]
<1> DEFINE id == c.id
           sd == c.side
           limit == c.limit
           qty == c.qty
           mine == c.mine
<1> HIDE DEF id, sd, limit, qty, mine
<1>1. PICK g : /\ TurnsBy(g, b, smp, id, sd, limit, qty, mine)
               /\ Cross(b, smp, id, sd, limit, qty, mine) = g[MaxOrders]
  <2>1. \A r : \E g : /\ TurnsBy(g, b, r, id, sd, limit, qty, mine)
                      /\ Cross(b, r, id, sd, limit, qty, mine) = g[MaxOrders]
    BY LoopTurns
  <2> QED
    BY <2>1
<1>2. TurnsBy(g, b, smp, id, sd, limit, qty, mine) <=> TurnsOf(g, b, c)
  BY DEF TurnsOf, TurnsBy, Turn, id, sd, limit, qty, mine
<1>3. Cross(b, smp, id, sd, limit, qty, mine) = Crossed(b, c)
  BY DEF Crossed, id, sd, limit, qty, mine
<1> QED
  BY <1>1, <1>2, <1>3

\* Before the first turn nothing has traded.
LEMMA NothingTradedYet ==
  ASSUME NEW b, IsSound(b), NEW c, IsCall(c)
  PROVE  Progress(b, c, Matched(b, c.qty, <<>>), [x \in LiveOrders(b) |-> 0])
<1> DEFINE m == Matched(b, c.qty, <<>>)
           t == [x \in LiveOrders(b) |-> 0]
<1>1. m.book = b /\ m.left = c.qty /\ m.fills = <<>> /\ m = Matched(m.book, m.left, m.fills)
  BY DEF Matched
<1>2. c.qty \in Nat
  BY DEF IsCall
<1>3. m.left \in 0 .. c.qty
  BY <1>1, <1>2
<1>4. /\ t \in [LiveOrders(b) -> Nat] /\ \A x \in LiveOrders(b) : t[x] = 0
      /\ \A x \in LiveOrders(b) : QtyOf(b, x) \in Nat
  BY LiveIs, KnownRests
<1>5. <<>> \in Seq(Trade) /\ Len(<<>>) = 0 /\ DOMAIN <<>> = {}
  BY EmptySeq
<1> HIDE DEF m, t
<1>6. InPlace(b, m) /\ FirstsGone(b, c, m) /\ Gone(b, m) = {}
  BY <1>1 DEF InPlace, FirstsGone, Gone
<1>7. \A x : TradedBy(m, x) = 0
  <2> SUFFICES ASSUME NEW x PROVE TradedBy(m, x) = 0
    OBVIOUS
  <2>1. {k \in DOMAIN m.fills : m.fills[k].resting = x} = {}
    BY <1>1, <1>5
  <2> QED
    BY <2>1, SumOfNothing DEF TradedBy
<1>8. SumOver(LiveOrders(b), t) = 0
  <2>1. {} \in SUBSET LiveOrders(b) /\ IsFiniteSet(LiveOrders(b)) /\ \A x \in LiveOrders(b) : t[x] \in Nat
    BY <1>4, LiveIsFinite
  <2>2. SumOver({}, t) = SumOver(LiveOrders(b), t)
    BY <1>4, <2>1, SumOfAPart
  <2> QED
    BY <2>2, SumOfNothing
<1>9. SumOver(DOMAIN m.fills, Taken(m)) = 0
  BY <1>1, <1>5, SumOfNothing
<1>10. Account(b, c, m, t)
  <2>1. CountsFills(b, m, t) /\ LeavesTheRest(b, m, t)
    BY <1>1, <1>4, <1>7 DEF CountsFills, LeavesTheRest
  <2>2. OnlyTheNextInPart(b, c, m, t) /\ GoneForAReason(b, c, m, t) /\ OnlyTradeable(b, c, t)
    BY <1>1, <1>4, <1>6 DEF OnlyTheNextInPart, GoneForAReason, OnlyTradeable
  <2>3. AddsUp(b, c, m, t)
    BY <1>1, <1>2, <1>8 DEF AddsUp
  <2> QED
    BY <1>4, <2>1, <2>2, <2>3 DEF Account
<1>11. Filled(b, c, m)
  <2>1. FillsAreRight(b, c, m) /\ FillsInOrder(b, m)
    BY <1>1, <1>5 DEF FillsAreRight, FillsInOrder
  <2>2. FillsAddUp(c, m)
    BY <1>1, <1>2, <1>9 DEF FillsAddUp
  <2> QED
    BY <1>1, <1>5, <2>1, <2>2 DEF Filled
<1> QED
  BY <1>1, <1>3, <1>6, <1>10, <1>11 DEF Progress, m, t

\* Where the loop ends.
LEMMA LoopEnds ==
  ASSUME NEW b, IsSound(b), Cardinality(LiveOrders(b)) <= MaxOrders, smp \in SelfMatchRules,
         NEW c, IsCall(c)
  PROVE  /\ \E t : Progress(b, c, Crossed(b, c), t)
         /\ Stopped(b, c, Crossed(b, c))
<1>1. PICK g : TurnsOf(g, b, c) /\ Crossed(b, c) = g[MaxOrders]
  BY CrossTurns
<1> USE MaxOrdersAssumption
<1> DEFINE Size(m) == Cardinality(LiveOrders(m.book))
           Still(m) == Turn(c, m) = m
           Fine(k) == /\ \E t : Progress(b, c, g[k], t)
                      /\ Still(g[k]) \/ Size(g[k]) <= MaxOrders - k
           Odd == {k \in 0 .. MaxOrders : ~Fine(k)}
<1>2. \A m : Size(m) \in Nat
  BY LiveIsFinite, FS_CardinalityType
<1>3. \A m, d : \A x \in LiveOrders(m.book) :
        LiveOrders(d.book) = LiveOrders(m.book) \ {x} => Size(d) = Size(m) - 1
  <2> SUFFICES ASSUME NEW m, NEW d, NEW x \in LiveOrders(m.book),
                      LiveOrders(d.book) = LiveOrders(m.book) \ {x}
               PROVE  Size(d) = Size(m) - 1
    OBVIOUS
  <2>1. LiveOrders(m.book) \in SUBSET LiveOrders(m.book) /\ IsFiniteSet(LiveOrders(m.book))
    BY LiveIsFinite
  <2> QED
    BY <2>1, OneLess
<1>4. \A m : m.left = 0 => Still(m)
  BY DEF Turn, CrossStep
<1>5. Fine(0)
  <2>1. g[0].book = b
    BY <1>1 DEF TurnsOf, Matched
  <2>2. \E t : Progress(b, c, g[0], t)
    BY <1>1, NothingTradedYet DEF TurnsOf
  <2>3. Size(g[0]) <= MaxOrders - 0
    BY <2>1
  <2> QED
    BY <2>2, <2>3
<1>6. ASSUME NEW k \in 1 .. MaxOrders, Fine(k - 1) PROVE Fine(k)
  <2>1. g[k] = Turn(c, g[k - 1])
    BY <1>1 DEF TurnsOf
  <2>2. PICK t : Progress(b, c, g[k - 1], t)
    BY <1>6
  <2> DEFINE m == g[k - 1]
             d == g[k]
  <2>3. Still(m) \/ Size(m) <= MaxOrders - (k - 1)
    BY <1>6
  <2>4. \/ Turn(c, m) = m
        \/ /\ \E u : Progress(b, c, Turn(c, m), u)
           /\ \/ Turn(c, m).left = 0
              \/ \E x \in LiveOrders(m.book) :
                   LiveOrders(Turn(c, m).book) = LiveOrders(m.book) \ {x}
    BY <2>2, TurnIs
  <2>5. CASE Turn(c, m) = m
    BY <2>1, <2>2, <2>5
  <2>6. CASE /\ \E u : Progress(b, c, Turn(c, m), u) /\ Turn(c, m).left = 0
    BY <1>4, <2>1, <2>6
  <2>7. CASE /\ Turn(c, m) # m
             /\ \E u : Progress(b, c, Turn(c, m), u)
             /\ \E x \in LiveOrders(m.book) :
                   LiveOrders(Turn(c, m).book) = LiveOrders(m.book) \ {x}
    <3>1. Size(d) = Size(m) - 1
      BY <1>3, <2>1, <2>7
    <3>2. Size(m) <= MaxOrders - (k - 1) /\ Size(m) \in Nat
      BY <1>2, <2>3, <2>7
    <3>3. \E u : Progress(b, c, d, u)
      BY <2>1, <2>7
    <3> HIDE DEF Size, m, d
    <3>4. Size(d) <= MaxOrders - k
      BY <3>1, <3>2
    <3> QED
      BY <3>3, <3>4 DEF d
  <2> QED
    BY <2>4, <2>5, <2>6, <2>7
<1> HIDE DEF Fine
<1>7. Odd = {}
  <2> SUFFICES ASSUME Odd # {} PROVE FALSE
    OBVIOUS
  <2>1. PICK k \in Odd : \A j \in Odd : k <= j
    <3>1. Odd \in SUBSET Nat
      OBVIOUS
    <3> QED
      BY <3>1, LeastExists
  <2>2. k # 0
    BY <1>5, <2>1
  <2>3. k - 1 \in 0 .. MaxOrders /\ k - 1 \notin Odd /\ k \in 1 .. MaxOrders
    BY <2>1, <2>2
  <2> QED
    BY <1>6, <2>1, <2>3
<1> DEFINE m == g[MaxOrders]
<1>8. Fine(MaxOrders)
  BY <1>7
<1>9. PICK t : Progress(b, c, m, t)
  BY <1>8 DEF Fine
<1>10. Still(m) \/ Size(m) <= MaxOrders - MaxOrders
  BY <1>8 DEF Fine
<1>11. CASE Still(m)
  <2>1. ~\E x \in LiveOrders(m.book) : LiveOrders(Turn(c, m).book) = LiveOrders(m.book) \ {x}
    BY <1>11
  <2>2. Stopped(b, c, m) \/ Turn(c, m).left = 0
    BY <1>9, <2>1, TurnIs
  <2>3. Stopped(b, c, m)
    BY <1>11, <2>2 DEF Stopped
  <2> QED
    BY <1>1, <1>9, <2>3
<1>12. CASE Size(m) <= MaxOrders - MaxOrders
  <2>1. Size(m) = 0
    <3>1. Size(m) \in Nat
      BY <1>2
    <3> HIDE DEF Size, m
    <3> QED
      BY <1>12, <3>1
  <2>2. LiveOrders(m.book) = {}
    BY <2>1, LiveIsFinite, FS_EmptySet
  <2>3. Stopped(b, c, m)
    BY <2>2 DEF Stopped, Left
  <2> QED
    BY <1>1, <1>9, <2>3
<1> QED
  BY <1>10, <1>11, <1>12

-----------------------------------------------------------------------------
(***************************************************************************)
(* What a submission has done when its loop has ended.                     *)
(***************************************************************************)
\* Every order of the book has traded its share.
LEMMA SharesAreTraded ==
  ASSUME NEW b, IsSound(b), NEW c, IsCall(c), NEW m, NEW t, Progress(b, c, m, t),
         Stopped(b, c, m), NEW x \in LiveOrders(b)
  PROVE  t[x] = Share(b, c, x)
<1>1. /\ Account(b, c, m, t) /\ t \in [LiveOrders(b) -> Nat]
      /\ InPlace(b, m) /\ FirstsGone(b, c, m) /\ m.left \in Nat /\ c.qty \in Nat
  BY DEF Progress, Account, IsCall
<1>2. /\ \A y \in LiveOrders(b) : t[y] \in Nat /\ QtyOf(b, y) \in Nat \ {0}
      /\ \A y \in LiveOrders(b) : t[y] > 0 => y \in Tradeable(b, c)
      /\ SumOver(LiveOrders(b), t) = c.qty - m.left
  BY <1>1, LiveIs, KnownRests DEF Account, OnlyTradeable, AddsUp
<1>3. \A y \in Gone(b, m) : y \in Tradeable(b, c) => t[y] = QtyOf(b, y)
  BY <1>1, TradeableIs DEF Account, GoneForAReason, Prevented
<1>4. \A y \in LiveOrders(m.book) :
        /\ y \in LiveOrders(b) /\ t[y] <= QtyOf(b, y)
        /\ t[y] > 0 => m.left = 0 /\ IsNext(b, c, m, y)
  <2> SUFFICES ASSUME NEW y \in LiveOrders(m.book)
               PROVE  /\ y \in LiveOrders(b) /\ t[y] <= QtyOf(b, y)
                      /\ t[y] > 0 => m.left = 0 /\ IsNext(b, c, m, y)
    OBVIOUS
  <2>1. y \in LiveOrders(b) /\ QtyOf(m.book, y) \in Nat
    BY <1>1, LiveIs, KnownRests DEF InPlace
  <2>2. QtyOf(m.book, y) = QtyOf(b, y) - t[y]
    BY <1>1 DEF Account, LeavesTheRest
  <2> QED
    BY <1>1, <1>2, <2>1, <2>2 DEF Account, OnlyTheNextInPart
<1>5. \A y \in Tradeable(b, c) : y \in LiveOrders(b) /\ (y \in Gone(b, m) \/ y \in Left(b, c, m))
  BY TradeableIs DEF Gone, Left
<1>6. \A y \in LiveOrders(b) : t[y] <= QtyOf(b, y)
  <2> SUFFICES ASSUME NEW y \in LiveOrders(b) PROVE t[y] <= QtyOf(b, y)
    OBVIOUS
  <2>1. y \in LiveOrders(m.book) \/ y \in Gone(b, m)
    BY DEF Gone
  <2>2. y \in Gone(b, m) => t[y] = QtyOf(b, y) \/ t[y] = 0
    BY <1>1 DEF Account, GoneForAReason
  <2> QED
    BY <1>2, <1>4, <2>1, <2>2
<1>7. CASE x \notin Tradeable(b, c)
  <2>1. ~(t[x] > 0)
    BY <1>2, <1>7
  <2>2. t[x] = 0
    BY <1>2, <2>1
  <2> QED
    BY <1>7, <2>2 DEF Share
<1>8. CASE x \in Tradeable(b, c) /\ x \in Gone(b, m)
  <2>1. \A y \in Tradeable(b, c) : HasPriority(b, y, x) => t[y] = QtyOf(b, y)
    <3> SUFFICES ASSUME NEW y \in Tradeable(b, c), HasPriority(b, y, x) PROVE y \in Gone(b, m)
      BY <1>3
    <3>1. ~HasPriority(b, x, y)
      BY <1>5, PriorityIsOneWay
    <3>2. y \notin Left(b, c, m)
      BY <1>1, <1>8, <3>1 DEF FirstsGone
    <3> QED
      BY <1>5, <3>2
  <2>2. /\ InFront(b, c, x) \in Nat /\ SumOver(LiveOrders(b), t) \in Nat
        /\ InFront(b, c, x) + t[x] <= SumOver(LiveOrders(b), t)
    BY <1>1, <2>1, InFrontCounts
  <2>3. t[x] = QtyOf(b, x)
    BY <1>3, <1>8
  <2>4. ~(c.qty - InFront(b, c, x) <= 0) /\ ~(c.qty - InFront(b, c, x) < QtyOf(b, x))
    BY <1>1, <1>2, <2>2, <2>3
  <2>5. Lesser(c.qty - InFront(b, c, x), QtyOf(b, x)) = QtyOf(b, x)
    BY <1>1, <1>2, <2>2, <2>4 DEF Lesser
  <2> QED
    BY <1>8, <2>3, <2>4, <2>5 DEF Share
<1>9. CASE x \in Tradeable(b, c) /\ x \in Left(b, c, m) /\ t[x] > 0
  <2>1. m.left = 0 /\ IsNext(b, c, m, x)
    BY <1>4, <1>9 DEF Left
  <2>2. \A y \in LiveOrders(b) : t[y] > 0 /\ y # x => y \in Tradeable(b, c) /\ HasPriority(b, y, x)
    <3> SUFFICES ASSUME NEW y \in LiveOrders(b), t[y] > 0, y # x PROVE HasPriority(b, y, x)
      BY <1>2
    <3>1. y \notin Left(b, c, m)
      <4> SUFFICES ASSUME y \in Left(b, c, m) PROVE FALSE
        OBVIOUS
      <4>1. IsNext(b, c, m, y)
        BY <1>4 DEF Left
      <4>2. HasPriority(b, x, y) /\ HasPriority(b, y, x)
        BY <1>9, <2>1, <4>1 DEF IsNext
      <4> QED
        BY <4>2, PriorityIsOneWay
    <3>2. y \in Gone(b, m)
      BY <1>2, <1>5, <3>1
    <3> QED
      BY <1>1, <1>9, <3>2 DEF FirstsGone
  <2>3. /\ InFront(b, c, x) \in Nat
        /\ InFront(b, c, x) + t[x] = SumOver(LiveOrders(b), t)
    BY <1>1, <2>1, <2>2, AllInFrontTraded, InFrontCounts
  <2>4. c.qty - InFront(b, c, x) = t[x] /\ ~(t[x] <= 0) /\ t[x] <= QtyOf(b, x)
    BY <1>1, <1>2, <1>6, <1>9, <2>1, <2>3
  <2>5. Lesser(t[x], QtyOf(b, x)) = t[x]
    BY <2>4 DEF Lesser
  <2> QED
    BY <1>9, <2>4, <2>5 DEF Share
<1>10. CASE x \in Tradeable(b, c) /\ x \in Left(b, c, m) /\ ~(t[x] > 0)
  <2>1. t[x] = 0
    BY <1>2, <1>10
  <2>2. m.left = 0
    <3> SUFFICES ASSUME NEW y \in Itself(b, c), smp = "CancelIncoming", IsNext(b, c, m, y)
                 PROVE  FALSE
      BY <1>10 DEF Stopped
    <3>1. HasPriority(b, x, y) /\ x # y
      BY <1>10, TradeableIs
    <3>2. HasPriority(b, y, x)
      BY <1>10, <3>1 DEF IsNext
    <3>3. y \in LiveOrders(b)
      BY TradeableIs DEF Itself
    <3> QED
      BY <3>1, <3>2, <3>3, PriorityIsOneWay
  <2>3. \A y \in LiveOrders(b) : t[y] > 0 => y \in Tradeable(b, c) /\ HasPriority(b, y, x)
    <3> SUFFICES ASSUME NEW y \in LiveOrders(b), t[y] > 0 PROVE HasPriority(b, y, x)
      BY <1>2
    <3>1. CASE y \in Gone(b, m)
      BY <1>1, <1>10, <3>1 DEF FirstsGone
    <3>2. CASE y \in Left(b, c, m)
      <4>1. IsNext(b, c, m, y)
        BY <1>4, <3>2 DEF Left
      <4> QED
        BY <1>10, <4>1 DEF IsNext
    <3> QED
      BY <1>2, <1>5, <3>1, <3>2
  <2>4. InFront(b, c, x) \in Int /\ SumOver(LiveOrders(b), t) <= InFront(b, c, x)
    BY <1>1, <1>6, <2>3, InFrontCovers
  <2>5. c.qty - InFront(b, c, x) <= 0
    BY <1>1, <1>2, <2>2, <2>4
  <2> QED
    BY <2>1, <2>5 DEF Share
<1> QED
  BY <1>5, <1>7, <1>8, <1>9, <1>10

\* The fills of r are those of matching m.
SameFills(r, m) == r.fills = m.fills

LEMMA SameTrades ==
  ASSUME NEW r, NEW m, SameFills(r, m)
  PROVE  /\ \A x : TradedBy(r, x) = TradedBy(m, x)
         /\ SumOver(DOMAIN r.fills, Taken(r)) = SumOver(DOMAIN m.fills, Taken(m))
BY DEF SameFills, TradedBy, Taken

LEMMA EndsInPriceTime ==
  ASSUME NEW b, IsSound(b), NEW c, IsCall(c), NEW m, NEW t, Progress(b, c, m, t),
         Stopped(b, c, m), NEW r, SameFills(r, m)
  PROVE  PriceTime(b, c, r)
<1>1. \A x \in LiveOrders(b) : TradedBy(r, x) = Share(b, c, x)
  BY SameTrades, SharesAreTraded DEF Progress, Account, CountsFills
<1>2. m.fills \in Seq(Trade) /\ FillsAreRight(b, c, m) /\ FillsInOrder(b, m)
  BY DEF Progress, Filled
<1>3. DOMAIN m.fills = 1 .. Len(m.fills)
  BY <1>2, LenProperties
<1>4. \A k \in DOMAIN r.fills : r.fills[k].price = Where(b, r.fills[k].resting)[2]
  BY <1>2, <1>3 DEF FillsAreRight, SameFills
<1>5. \A k \in 2 .. Len(r.fills) : HasPriority(b, r.fills[k - 1].resting, r.fills[k].resting)
  BY <1>2 DEF FillsInOrder, SameFills
<1> QED
  BY <1>1, <1>4, <1>5 DEF PriceTime

\* Book d is the book of matching m, with or without the order submitted.
Follows(c, m, d) ==
  /\ LiveOrders(m.book) \subseteq LiveOrders(d) /\ LiveOrders(d) \subseteq LiveOrders(m.book) \cup {c.id}
  /\ \A x : x # c.id => QtyOf(d, x) = QtyOf(m.book, x)

LEMMA EndsApart ==
  ASSUME NEW b, IsSound(b), NEW c, IsCall(c), NEW m, NEW t, Progress(b, c, m, t),
         NEW r, SameFills(r, m), NEW d, Follows(c, m, d)
  PROVE  KeepsApart(b, c, r, d)
<1> SUFFICES ASSUME smp # "Allow"
             PROVE  /\ \A k \in DOMAIN r.fills : ~(r.fills[k].restingMine /\ r.fills[k].aggressorMine)
                    /\ \A x \in LiveOrders(b) \ LiveOrders(d) :
                         TradedBy(r, x) = 0 => InFront(b, c, x) < c.qty
  BY DEF KeepsApart
<1>1. m.fills \in Seq(Trade) /\ FillsAreRight(b, c, m)
  BY DEF Progress, Filled
<1>2. \A k \in DOMAIN r.fills : ~(r.fills[k].restingMine /\ r.fills[k].aggressorMine)
  <2>1. DOMAIN m.fills = 1 .. Len(m.fills)
    BY <1>1, LenProperties
  <2> QED
    BY <1>1, <2>1 DEF FillsAreRight, SameFills
<1>3. ASSUME NEW x \in LiveOrders(b) \ LiveOrders(d), TradedBy(r, x) = 0
      PROVE  InFront(b, c, x) < c.qty
  <2>1. x \in Gone(b, m)
    BY DEF Follows, Gone
  <2>2. t[x] = 0
    BY <1>3, SameTrades DEF Progress, Account, CountsFills
  <2>3. QtyOf(b, x) # 0
    BY LiveIs, KnownRests
  <2>4. Prevented(b, c, x)
    BY <2>1, <2>2, <2>3 DEF Progress, Account, GoneForAReason
  <2> QED
    BY <2>4 DEF Prevented
<1> QED
  BY <1>2, <1>3

LEMMA EndsConserved ==
  ASSUME NEW b, IsSound(b), NEW c, IsCall(c), NEW m, NEW t, Progress(b, c, m, t),
         NEW r, SameFills(r, m), NEW d, Follows(c, m, d), r.filled = c.qty - m.left,
         r.resting \in {0, m.left},
         r.error = "Ok" /\ c.rests => r.resting = m.left,
         r.resting > 0 => QtyOf(d, c.id) = r.resting,
         r.error # "Ok" => d = m.book
  PROVE  Conserves(b, c, r, d)
<1>1. /\ Account(b, c, m, t) /\ InPlace(b, m) /\ IsSound(m.book)
      /\ m.left \in Nat /\ c.qty \in Nat
  BY DEF Progress, InPlace, IsCall
<1>2. ASSUME NEW x \in LiveOrders(b)
      PROVE  /\ TradedBy(r, x) \in Nat /\ QtyOf(b, x) \in Nat
             /\ \/ QtyOf(m.book, x) = QtyOf(b, x) - TradedBy(r, x)
                \/ /\ x \in Gone(b, m) /\ x \in Itself(b, c) /\ smp = "CancelResting"
                   /\ QtyOf(m.book, x) = 0
  <2>1. TradedBy(r, x) = t[x] /\ t[x] \in Nat /\ QtyOf(b, x) \in Nat
    BY <1>1, SameTrades, LiveIs, KnownRests DEF Account, CountsFills
  <2>2. CASE x \in LiveOrders(m.book)
    BY <1>1, <2>1, <2>2 DEF Account, LeavesTheRest
  <2>3. CASE x \in Gone(b, m)
    <3>1. QtyOf(m.book, x) = 0
      BY <1>1, <2>3, NoQtyUnknown DEF Gone
    <3>2. t[x] = QtyOf(b, x) \/ Prevented(b, c, x)
      BY <1>1, <2>3 DEF Account, GoneForAReason
    <3>3. t[x] = QtyOf(b, x) => QtyOf(b, x) - t[x] = 0
      BY <2>1
    <3> QED
      BY <2>1, <2>3, <3>1, <3>2, <3>3 DEF Prevented
  <2> QED
    BY <2>2, <2>3 DEF Gone
<1>3. \A x \in LiveOrders(b) \ {c.id} :
        \/ QtyOf(d, x) = QtyOf(b, x) - TradedBy(r, x)
        \/ x \in LiveOrders(b) \ LiveOrders(d) /\ x \in Itself(b, c) /\ smp = "CancelResting"
  BY <1>2 DEF Follows, Gone
<1>4. LiveOrders(d) \subseteq LiveOrders(b) \cup {c.id}
  BY <1>1 DEF Follows, InPlace
<1>5. r.filled = SumOver(DOMAIN r.fills, Taken(r))
  BY SameTrades DEF Progress, Filled, FillsAddUp
<1>6. r.error = "Ok" /\ c.rests => r.filled + r.resting = c.qty
  BY <1>1
<1>7. r.error # "Ok" => QtyOf(d, c.id) <= QtyOf(b, c.id)
  <2> SUFFICES ASSUME r.error # "Ok" PROVE QtyOf(m.book, c.id) <= QtyOf(b, c.id)
    OBVIOUS
  <2>1. CASE c.id \in LiveOrders(b)
    BY <1>2, <2>1
  <2>2. CASE c.id \notin LiveOrders(b)
    <3>1. QtyOf(m.book, c.id) = 0 /\ QtyOf(b, c.id) = 0
      BY <1>1, <2>2, NoQtyUnknown DEF InPlace
    <3> QED
      BY <3>1
  <2> QED
    BY <2>1, <2>2
<1> QED
  BY <1>3, <1>4, <1>5, <1>6, <1>7 DEF Conserves

-----------------------------------------------------------------------------
(***************************************************************************)
(* What is left of a limit order joins the book.                           *)
(***************************************************************************)
\* Book c is book b with order x of quantity n.
Joins(b, c, x, n) ==
  /\ IsSound(c) /\ x \notin LiveOrders(b) /\ LiveOrders(c) = LiveOrders(b) \cup {x}
  /\ QtyOf(c, x) = n
  /\ \A y \in LiveOrders(b) : QtyOf(c, y) = QtyOf(b, y) /\ Where(c, y) = Where(b, y)

LEMMA JoinQueueJoins ==
  ASSUME NEW b, IsSound(b), NEW x \in Ids, ~Known(b, x), NEW s \in Sides, NEW p \in Prices,
         NEW n \in Nat \ {0}, NEW mine \in BOOLEAN
  PROVE  /\ Joins(b, JoinQueue(b, x, s, p, n, mine), x, n)
         /\ Where(JoinQueue(b, x, s, p, n, mine), x) = <<s, p>>
<1> DEFINE e == [id |-> x, qty |-> n, mine |-> mine]
           q == b[s][p]
           d == Append(q, e)
           z == Len(q) + 1
           c == JoinQueue(b, x, s, p, n, mine)
<1>1. b \in Books /\ RestsOnce(b)
  BY DEF IsSound
<1>2. e \in RestingOrder /\ e.id = x /\ e.qty = n
  BY DEF RestingOrder
<1>3. q \in Seq(RestingOrder) /\ Len(q) \in Nat
  BY <1>1, QueueIs
<1> HIDE DEF e
<1>4. /\ d \in Seq(RestingOrder) /\ Len(d) = z /\ d[z] = e
      /\ \A k \in 1 .. Len(q) : d[k] = q[k]
  BY <1>2, <1>3, AppendProperties
<1>5. c = [b EXCEPT ![s][p] = d]
  BY DEF JoinQueue, e
<1> HIDE DEF c, d
<1>6. /\ c \in Books
      /\ \A t \in Sides, r \in Prices : c[t][r] = IF t = s /\ r = p THEN d ELSE b[t][r]
  BY <1>1, <1>4, <1>5 DEF Books
<1>7. Rests(c, x, s, p, z) /\ c[s][p][z] = e /\ z \in 1 .. z
  BY <1>2, <1>3, <1>4, <1>6 DEF Rests
<1>8. ASSUME NEW y, NEW t, NEW r, NEW j, Rests(b, y, t, r, j)
      PROVE  Rests(c, y, t, r, j) /\ c[t][r][j] = b[t][r][j] /\ y # x
  <2>1. t \in Sides /\ r \in Prices /\ j \in 1 .. Len(b[t][r]) /\ b[t][r][j].id = y
    BY <1>8 DEF Rests
  <2>2. y # x
    BY <1>8, RestsIsFound
  <2>3. CASE t = s /\ r = p
    <3>1. c[t][r] = d /\ b[t][r] = q
      BY <1>6, <2>1, <2>3
    <3>2. j \in 1 .. Len(d) /\ d[j] = q[j]
      BY <1>3, <1>4, <2>1, <3>1
    <3> QED
      BY <2>1, <2>2, <3>1, <3>2 DEF Rests
  <2>4. CASE ~(t = s /\ r = p)
    BY <1>6, <2>1, <2>2, <2>4 DEF Rests
  <2> QED
    BY <2>3, <2>4
<1>9. ASSUME NEW y, NEW t, NEW r, NEW j, Rests(c, y, t, r, j)
      PROVE  (y = x /\ t = s /\ r = p /\ j = z) \/ Rests(b, y, t, r, j)
  <2>1. t \in Sides /\ r \in Prices /\ j \in 1 .. Len(c[t][r]) /\ c[t][r][j].id = y
    BY <1>9 DEF Rests
  <2>2. CASE t = s /\ r = p
    <3>1. c[t][r] = d /\ b[t][r] = q
      BY <1>6, <2>1, <2>2
    <3>2. j = z \/ j \in 1 .. Len(q)
      BY <1>3, <1>4, <2>1, <3>1
    <3>3. CASE j = z
      BY <1>2, <1>4, <2>1, <2>2, <3>1, <3>3
    <3>4. CASE j \in 1 .. Len(q)
      BY <1>4, <2>1, <3>1, <3>4 DEF Rests
    <3> QED
      BY <3>2, <3>3, <3>4
  <2>3. CASE ~(t = s /\ r = p)
    BY <1>6, <2>1, <2>3 DEF Rests
  <2> QED
    BY <2>2, <2>3
<1>10. IsSound(c)
  <2>1. RestsOnce(c)
    <3> SUFFICES ASSUME NEW y, NEW t, NEW r, NEW j, NEW u, NEW v, NEW k,
                        Rests(c, y, t, r, j), Rests(c, y, u, v, k)
                 PROVE  t = u /\ r = v /\ j = k
      BY DEF RestsOnce
    <3>1. /\ (y = x /\ t = s /\ r = p /\ j = z) \/ Rests(b, y, t, r, j)
          /\ (y = x /\ u = s /\ v = p /\ k = z) \/ Rests(b, y, u, v, k)
      BY <1>9
    <3>2. Rests(b, y, t, r, j) \/ Rests(b, y, u, v, k) => y # x
      BY <1>8
    <3> QED
      BY <1>1, <3>1, <3>2 DEF RestsOnce
  <2> QED
    BY <1>6, <2>1 DEF IsSound
<1>11. x \notin LiveOrders(b) /\ LiveOrders(c) = LiveOrders(b) \cup {x}
  <2>1. x \notin LiveOrders(b)
    BY LiveIs
  <2>2. \A y : y \in LiveOrders(c) <=> y = x \/ y \in LiveOrders(b)
    <3>1. \A y : y \in LiveOrders(c) => y = x \/ y \in LiveOrders(b)
      BY <1>9, <1>10, LiveIs
    <3>2. \A y : y = x \/ y \in LiveOrders(b) => y \in LiveOrders(c)
      BY <1>7, <1>8, <1>10, LiveIs
    <3> QED
      BY <3>1, <3>2
  <2> QED
    BY <2>1, <2>2
<1>12. QtyOf(c, x) = n /\ Where(c, x) = <<s, p>>
  BY <1>2, <1>7, <1>10, RestsIsFound
<1>13. \A y \in LiveOrders(b) : QtyOf(c, y) = QtyOf(b, y) /\ Where(c, y) = Where(b, y)
  <2> SUFFICES ASSUME NEW y \in LiveOrders(b)
               PROVE  QtyOf(c, y) = QtyOf(b, y) /\ Where(c, y) = Where(b, y)
    OBVIOUS
  <2>1. PICK t, r, j : Rests(b, y, t, r, j)
    BY LiveIs
  <2>2. Rests(c, y, t, r, j) /\ c[t][r][j] = b[t][r][j]
    BY <1>8, <2>1
  <2> QED
    BY <1>10, <2>1, <2>2, RestsIsFound
<1> QED
  BY <1>10, <1>11, <1>12, <1>13 DEF Joins, c

\* A book fits the pool when it holds no more orders than there are slots.
Fits(b) == IsSound(b) /\ Cardinality(LiveOrders(b)) <= MaxOrders

LEMMA AddIs ==
  ASSUME NEW b, Fits(b), NEW x \in Ids, NEW s \in Sides, NEW p, NEW n \in Nat \ {0},
         NEW mine \in BOOLEAN
  PROVE  /\ Fits(Add(b, x, s, p, n, mine).book)
         /\ Add(b, x, s, p, n, mine).err = "Ok" => Joins(b, Add(b, x, s, p, n, mine).book, x, n)
         /\ Add(b, x, s, p, n, mine).err # "Ok" => Add(b, x, s, p, n, mine).book = b
<1> DEFINE r == Add(b, x, s, p, n, mine)
           c == JoinQueue(b, x, s, p, n, mine)
<1>1. ~(n <= 0)
  OBVIOUS
<1>2. \/ r.err # "Ok" /\ r.book = b
      \/ r.err = "Ok" /\ r.book = c /\ p \in Window /\ ~Full(b) /\ ~Known(b, x)
  BY <1>1 DEF Add, Result
<1> HIDE DEF r, c
<1>3. CASE r.err # "Ok" /\ r.book = b
  BY <1>3 DEF r
<1>4. CASE r.err = "Ok" /\ r.book = c /\ p \in Window /\ ~Full(b) /\ ~Known(b, x)
  <2>1. p \in Prices /\ IsSound(b)
    BY <1>4, WindowAssumption DEF Fits
  <2>2. Joins(b, c, x, n)
    BY <1>4, <2>1, JoinQueueJoins DEF c
  <2>3. IsSound(c) /\ x \notin LiveOrders(b) /\ LiveOrders(c) = LiveOrders(b) \cup {x}
    BY <2>2 DEF Joins
  <2>4. /\ Cardinality(LiveOrders(b)) \in Nat
        /\ Cardinality(LiveOrders(b) \cup {x}) = Cardinality(LiveOrders(b)) + 1
    BY <2>3, LiveIsFinite, FS_AddElement, FS_CardinalityType
  <2>5. Cardinality(LiveOrders(c)) <= MaxOrders
    BY <1>4, <2>3, <2>4, MaxOrdersAssumption DEF Full
  <2>6. Fits(c)
    BY <2>3, <2>5 DEF Fits
  <2> QED
    BY <1>4, <2>2, <2>6 DEF r
<1> QED
  BY <1>2, <1>3, <1>4

-----------------------------------------------------------------------------
(***************************************************************************)
(* Submissions.                                                            *)
(***************************************************************************)
\* What the three properties ask of a submission, and a book to go on with.
Answers(b, c, r) ==
  Fits(r.book) /\ PriceTime(b, c, r) /\ Conserves(b, c, r, r.book) /\ KeepsApart(b, c, r, r.book)

\* A book after the loop fits the pool as the book before it does.
LEMMA CrossedFits ==
  ASSUME NEW b, Fits(b), NEW c, NEW m, NEW t, Progress(b, c, m, t)
  PROVE  Fits(m.book)
<1>1. IsSound(m.book) /\ LiveOrders(m.book) \subseteq LiveOrders(b)
  BY DEF Progress, InPlace
<1>2. /\ Cardinality(LiveOrders(m.book)) \in Nat /\ Cardinality(LiveOrders(b)) \in Nat
      /\ Cardinality(LiveOrders(m.book)) <= Cardinality(LiveOrders(b))
  BY <1>1, LiveIsFinite, FS_Subset, FS_CardinalityType
<1>3. Cardinality(LiveOrders(b)) <= MaxOrders
  BY DEF Fits
<1> QED
  BY <1>1, <1>2, <1>3, MaxOrdersAssumption DEF Fits

\* An order that is refused at the door.
LEMMA RefusedAnswers ==
  ASSUME NEW b, Fits(b), NEW c, ~(c.qty > 0), NEW r, r = Refused(b, "BadQuantity")
  PROVE  Answers(b, c, r)
<1>1. /\ r.book = b /\ r.fills = <<>> /\ r.filled = 0 /\ r.resting = 0 /\ r.error = "BadQuantity"
  BY DEF Refused, Submitted
<1>2. DOMAIN r.fills = {}
  BY <1>1, EmptySeq
<1>3. \A x : TradedBy(r, x) = 0
  <2> SUFFICES ASSUME NEW x PROVE TradedBy(r, x) = 0
    OBVIOUS
  <2>1. {k \in DOMAIN r.fills : r.fills[k].resting = x} = {}
    BY <1>2
  <2> QED
    BY <2>1, SumOfNothing DEF TradedBy
<1>4. \A x : QtyOf(b, x) \in Nat
  BY LiveIs, KnownRests, NoQtyUnknown DEF Fits
<1>5. \A x : QtyOf(b, x) = QtyOf(b, x) - TradedBy(r, x) /\ QtyOf(b, x) <= QtyOf(b, x)
  BY <1>3, <1>4
<1>6. SumOver(DOMAIN r.fills, Taken(r)) = 0
  BY <1>2, SumOfNothing
<1>7. Conserves(b, c, r, r.book)
  BY <1>1, <1>5, <1>6 DEF Conserves
<1>8. KeepsApart(b, c, r, r.book)
  BY <1>1, <1>2 DEF KeepsApart
<1> QED
  BY <1>1, <1>7, <1>8 DEF Answers, PriceTime

\* What a limit order's limit and a market order's let it trade at.
LEMMA LimitsAreDownwards ==
  /\ \A sd \in Sides, price \in Prices :
       Limit(sd, price) \subseteq Prices /\ Downwards(sd, Limit(sd, price))
  /\ \A sd \in Sides : Downwards(sd, Prices)
<1>1. \A p \in Prices : p \in Int
  BY InputAssumption
<1>2. ASSUME NEW sd \in Sides, NEW price \in Prices
      PROVE  Limit(sd, price) \subseteq Prices /\ Downwards(sd, Limit(sd, price))
  <2>1. Limit(sd, price) \subseteq Prices
    BY DEF Limit
  <2>2. \A p \in Prices, r \in Limit(sd, price) :
          IF sd = "Bid" THEN p <= r => p \in Limit(sd, price) ELSE p >= r => p \in Limit(sd, price)
    BY <1>1 DEF Limit
  <2> QED
    BY <2>1, <2>2 DEF Downwards
<1>3. \A sd \in Sides : Downwards(sd, Prices)
  BY DEF Downwards
<1> QED
  BY <1>2, <1>3

LEMMA MarketAnswers ==
  ASSUME NEW b, Fits(b), smp \in SelfMatchRules, NEW id \in Ids, NEW sd \in Sides,
         NEW qty \in Int, NEW mine \in BOOLEAN
  PROVE  Answers(b, [id |-> id, side |-> sd, limit |-> Prices, qty |-> qty, mine |-> mine, rests |-> FALSE],
                 SubmitMarket(b, smp, id, sd, qty, mine))
<1> DEFINE c == [id |-> id, side |-> sd, limit |-> Prices, qty |-> qty, mine |-> mine,
                 rests |-> FALSE]
           r == SubmitMarket(b, smp, id, sd, qty, mine)
           m == Crossed(b, c)
<1>1. /\ c.id = id /\ c.side = sd /\ c.limit = Prices /\ c.qty = qty /\ c.mine = mine
      /\ c.rests = FALSE
  OBVIOUS
<1>2. qty > 0 => r = Submitted(m.book, m.fills, qty - m.left, 0, "Ok")
  BY DEF SubmitMarket, Crossed
<1>3. ~(qty > 0) => r = Refused(b, "BadQuantity")
  BY DEF SubmitMarket
<1> HIDE DEF c, r, m
<1>4. CASE ~(qty > 0)
  BY <1>1, <1>3, <1>4, RefusedAnswers DEF c, r
<1>5. CASE qty > 0
  <2>1. /\ r.book = m.book /\ SameFills(r, m) /\ r.filled = c.qty - m.left /\ r.resting = 0
        /\ r.error = "Ok"
    BY <1>1, <1>2, <1>5 DEF Submitted, SameFills
  <2>2. IsCall(c)
    BY <1>1, <1>5, LimitsAreDownwards DEF IsCall
  <2>3. PICK t : Progress(b, c, m, t)
    BY <2>2, LoopEnds DEF Fits, m
  <2>4. Stopped(b, c, m) /\ IsSound(b)
    BY <2>2, LoopEnds DEF Fits, m
  <2>5. Follows(c, m, m.book)
    BY DEF Follows
  <2>6. PriceTime(b, c, r)
    BY <2>1, <2>2, <2>3, <2>4, EndsInPriceTime
  <2>7. KeepsApart(b, c, r, r.book)
    BY <2>1, <2>2, <2>3, <2>4, <2>5, EndsApart
  <2>8. Conserves(b, c, r, r.book)
    <3>1. /\ r.resting \in {0, m.left} /\ (r.error = "Ok" /\ c.rests => r.resting = m.left)
          /\ (r.resting > 0 => QtyOf(m.book, c.id) = r.resting) /\ (r.error # "Ok" => m.book = m.book)
      BY <1>1, <2>1
    <3> QED
      BY <2>1, <2>2, <2>3, <2>4, <2>5, <3>1, EndsConserved
  <2>9. Fits(r.book)
    BY <2>1, <2>3, CrossedFits
  <2> QED
    BY <2>6, <2>7, <2>8, <2>9 DEF Answers, c, r
<1> QED
  BY <1>4, <1>5

LEMMA LimitAnswers ==
  ASSUME NEW b, Fits(b), smp \in SelfMatchRules, NEW id \in Ids, NEW sd \in Sides,
         NEW price \in Prices, NEW qty \in Int, NEW mine \in BOOLEAN
  PROVE  Answers(b, [id |-> id, side |-> sd, limit |-> Limit(sd, price), qty |-> qty, mine |-> mine,
                     rests |-> TRUE],
                 SubmitLimit(b, smp, id, sd, price, qty, mine))
<1> DEFINE c == [id |-> id, side |-> sd, limit |-> Limit(sd, price), qty |-> qty, mine |-> mine,
                 rests |-> TRUE]
           r == SubmitLimit(b, smp, id, sd, price, qty, mine)
           m == Crossed(b, c)
           a == Add(m.book, id, sd, price, m.left, mine)
<1>1. /\ c.id = id /\ c.side = sd /\ c.limit = Limit(sd, price) /\ c.qty = qty /\ c.mine = mine
      /\ c.rests = TRUE
  OBVIOUS
<1>2. qty > 0 => r = IF m.left = 0 THEN Submitted(m.book, m.fills, qty, 0, "Ok")
                     ELSE Submitted(a.book, m.fills, qty - m.left,
                                    IF a.err = "Ok" THEN m.left ELSE 0, a.err)
  BY DEF SubmitLimit, Crossed, Remainder
<1>3. ~(qty > 0) => r = Refused(b, "BadQuantity")
  BY DEF SubmitLimit
<1> HIDE DEF c, r, m, a
<1>4. CASE ~(qty > 0)
  BY <1>1, <1>3, <1>4, RefusedAnswers DEF c, r
<1>5. CASE qty > 0
  <2>1. IsCall(c)
    BY <1>1, <1>5, LimitsAreDownwards DEF IsCall
  <2>2. PICK t : Progress(b, c, m, t)
    BY <2>1, LoopEnds DEF Fits, m
  <2>3. Stopped(b, c, m) /\ IsSound(b) /\ Fits(m.book) /\ IsSound(m.book)
    BY <2>1, <2>2, LoopEnds, CrossedFits DEF Fits, m
  <2>4. m.left \in Nat
    BY <2>1, <2>2 DEF Progress, IsCall
  <2>5. /\ Fits(r.book) /\ SameFills(r, m) /\ Follows(c, m, r.book)
        /\ r.filled = c.qty - m.left /\ r.resting \in {0, m.left}
        /\ r.error = "Ok" => r.resting = m.left
        /\ r.resting > 0 => QtyOf(r.book, c.id) = r.resting
        /\ r.error # "Ok" => r.book = m.book
    <3>1. CASE m.left = 0
      <4>1. /\ r.book = m.book /\ r.fills = m.fills /\ r.filled = qty /\ r.resting = 0
            /\ r.error = "Ok"
        BY <1>2, <1>5, <3>1 DEF Submitted
      <4>2. qty = qty - m.left
        BY <3>1
      <4> QED
        BY <1>1, <2>3, <3>1, <4>1, <4>2 DEF SameFills, Follows
    <3>2. CASE m.left # 0
      <4>1. /\ r.book = a.book /\ r.fills = m.fills /\ r.filled = qty - m.left
            /\ r.resting = (IF a.err = "Ok" THEN m.left ELSE 0) /\ r.error = a.err
        BY <1>2, <1>5, <3>2 DEF Submitted
      <4>2. /\ Fits(a.book)
            /\ a.err = "Ok" => Joins(m.book, a.book, id, m.left)
            /\ a.err # "Ok" => a.book = m.book
        BY <2>3, <2>4, <3>2, AddIs DEF a
      <4>3. ASSUME Joins(m.book, a.book, id, m.left)
            PROVE  Follows(c, m, a.book) /\ QtyOf(a.book, c.id) = m.left
        <5>1. \A x : x # id => QtyOf(a.book, x) = QtyOf(m.book, x)
          <6> SUFFICES ASSUME NEW x, x # id PROVE QtyOf(a.book, x) = QtyOf(m.book, x)
            OBVIOUS
          <6>1. x \notin LiveOrders(m.book) => QtyOf(a.book, x) = 0 /\ QtyOf(m.book, x) = 0
            BY <2>3, <4>3, NoQtyUnknown DEF Joins
          <6> QED
            BY <4>3, <6>1 DEF Joins
        <5> QED
          BY <1>1, <4>3, <5>1 DEF Joins, Follows
      <4>4. Follows(c, m, m.book)
        BY DEF Follows
      <4> QED
        BY <1>1, <4>1, <4>2, <4>3, <4>4 DEF SameFills
    <3> QED
      BY <3>1, <3>2
  <2>6. PriceTime(b, c, r)
    BY <2>1, <2>2, <2>3, <2>5, EndsInPriceTime
  <2>7. KeepsApart(b, c, r, r.book)
    BY <2>1, <2>2, <2>3, <2>5, EndsApart
  <2>8. Conserves(b, c, r, r.book)
    BY <2>1, <2>2, <2>3, <2>5, EndsConserved
  <2> QED
    BY <2>5, <2>6, <2>7, <2>8 DEF Answers, c, r
<1> QED
  BY <1>4, <1>5

\* Neither does a cancel leave a book that does not fit.
LEMMA CancelFits ==
  ASSUME NEW b, Fits(b), NEW id
  PROVE  Fits(Remove(b, id).book)
<1> DEFINE d == Remove(b, id).book
<1>1. CASE ~Known(b, id)
  BY <1>1 DEF Remove, Result
<1>2. CASE Known(b, id)
  <2>1. IsSound(d) /\ LiveOrders(d) = LiveOrders(b) \ {id}
    BY <1>2, RemoveLeaves DEF Fits, Leaves
  <2>2. /\ Cardinality(LiveOrders(d)) \in Nat /\ Cardinality(LiveOrders(b)) \in Nat
        /\ Cardinality(LiveOrders(d)) <= Cardinality(LiveOrders(b))
    BY <2>1, LiveIsFinite, FS_Subset, FS_CardinalityType
  <2>3. Cardinality(LiveOrders(b)) <= MaxOrders
    BY DEF Fits
  <2> HIDE DEF d
  <2>4. Cardinality(LiveOrders(d)) <= MaxOrders
    BY <2>2, <2>3, MaxOrdersAssumption
  <2> QED
    BY <2>1, <2>4 DEF Fits, d
<1> QED
  BY <1>1, <1>2

-----------------------------------------------------------------------------
(***************************************************************************)
(* The engine.                                                             *)
(***************************************************************************)
\* Between submissions: each order rests once, and the pool holds them all.
EngineInv == Fits(queues) /\ smp \in SelfMatchRules

\* What a step promises of the submission it makes.
StepAnswers ==
  /\ PriceTime(queues, call', result')
  /\ Conserves(queues, call', result', queues')
  /\ KeepsApart(queues, call', result', queues')

LEMMA EmptyBookFits == Fits(RefEmpty)
<1>1. RefEmpty \in Books
  BY EmptySeq DEF RefEmpty, Books
<1>2. \A sd \in Sides, p \in Prices : Len(RefEmpty[sd][p]) = 0
  BY EmptySeq DEF RefEmpty
<1>3. ~\E x, sd, p, i : Rests(RefEmpty, x, sd, p, i)
  BY <1>2 DEF Rests
<1>4. IsSound(RefEmpty)
  BY <1>1, <1>3 DEF IsSound, RestsOnce
<1>5. LiveOrders(RefEmpty) = {}
  BY <1>3, <1>4, LiveIs
<1> QED
  BY <1>4, <1>5, FS_EmptySet, MaxOrdersAssumption DEF Fits

\* Every step of the engine answers the submission, and leaves a book that fits.
LEMMA EngineStep == EngineInv /\ [Next]_vars => EngineInv' /\ (StepAnswers \/ UNCHANGED vars)
<1>0. ASSUME EngineInv, UNCHANGED vars PROVE EngineInv'
  <2>1. queues' = queues /\ smp' = smp
    BY <1>0 DEF vars
  <2>2. Fits(queues)'
    BY <1>0, <2>1 DEF EngineInv, Fits, IsSound, RestsOnce, Rests, LiveOrders, Known, IsAt, IdsIn
  <2> QED
    BY <1>0, <2>1, <2>2 DEF EngineInv
<1> SUFFICES ASSUME EngineInv, Next PROVE EngineInv' /\ StepAnswers
  BY <1>0
<1>1. Fits(queues) /\ smp \in SelfMatchRules
  BY DEF EngineInv
<1>2. ASSUME NEW c, NEW r, Answers(queues, c, r), Returns(c, r) PROVE EngineInv' /\ StepAnswers
  <2>1. call' = c /\ result' = r /\ queues' = r.book /\ smp' = smp
    BY <1>2 DEF Returns
  <2>2. Fits(queues)'
    <3>1. Fits(r.book)
      BY <1>2 DEF Answers
    <3> QED
      BY <2>1, <3>1 DEF Fits, IsSound, RestsOnce, Rests, LiveOrders, Known, IsAt, IdsIn
  <2>3. EngineInv'
    BY <1>1, <2>1, <2>2 DEF EngineInv
  <2> QED
    BY <1>2, <2>1, <2>3 DEF Answers, StepAnswers
<1>3. ASSUME NEW id \in Ids, NEW sd \in Sides, NEW price \in Prices, NEW qty \in Qtys,
             NEW mine \in BOOLEAN, DoSubmitLimit(id, sd, price, qty, mine)
      PROVE  EngineInv' /\ StepAnswers
  BY <1>1, <1>2, <1>3, LimitAnswers, InputAssumption DEF DoSubmitLimit
<1>4. ASSUME NEW id \in Ids, NEW sd \in Sides, NEW qty \in Qtys, NEW mine \in BOOLEAN,
             DoSubmitMarket(id, sd, qty, mine)
      PROVE  EngineInv' /\ StepAnswers
  BY <1>1, <1>2, <1>4, MarketAnswers, InputAssumption DEF DoSubmitMarket
<1>5. ASSUME NEW id \in Ids, DoCancel(id) PROVE EngineInv' /\ StepAnswers
  <2> DEFINE c == [NoCall EXCEPT !.id = id]
             r == Submitted(Remove(queues, id).book, <<>>, 0, 0, Remove(queues, id).err)
  <2>1. c.qty = 0 /\ c.limit = {}
    BY DEF NoCall
  <2>2. Fits(r.book)
    BY <1>1, CancelFits DEF Submitted
  <2>3. Returns(c, r)
    BY <1>5 DEF DoCancel
  <2> HIDE DEF c, r
  <2>4. Answers(queues, c, r)
    BY <2>1, <2>2 DEF Answers, PriceTime, Conserves, KeepsApart
  <2> QED
    BY <1>2, <2>3, <2>4
<1> QED
  BY <1>3, <1>4, <1>5 DEF Next

\* In every state each order rests once, and the pool holds them all.
THEOREM EngineInvHolds == Spec => []EngineInv
<1>1. Init => EngineInv
  BY EmptyBookFits DEF Init, EngineInv
<1>2. EngineInv /\ [Next]_vars => EngineInv'
  BY EngineStep
<1> QED
  BY <1>1, <1>2, PTL DEF Spec

\* Whatever the depth swept and the orders prevented on the way, every resting
\* order trades exactly its share by price-time priority, at its price, and the
\* fills come in the order of priority.
THEOREM FillsArePriceTimeHolds == Spec => FillsArePriceTime
<1>1. EngineInv /\ [Next]_vars => [PriceTime(queues, call', result')]_vars
  BY EngineStep DEF StepAnswers
<1> QED
  BY <1>1, EngineInvHolds, PTL DEF Spec, FillsArePriceTime

\* A submission changes no resting order but by its fills or by preventing a
\* self-match, what it returns adds up, and what is refused leaves nothing.
THEOREM NothingLostOrMadeHolds == Spec => NothingLostOrMade
<1>1. EngineInv /\ [Next]_vars => [Conserves(queues, call', result', queues')]_vars
  BY EngineStep DEF StepAnswers
<1> QED
  BY <1>1, EngineInvHolds, PTL DEF Spec, NothingLostOrMade

\* Our orders never trade with each other, and an order of ours is cancelled
\* only when everything in front of it was used up.
THEOREM NeverTradesWithItselfHolds == Spec => NeverTradesWithItself
<1>1. EngineInv /\ [Next]_vars => [KeepsApart(queues, call', result', queues')]_vars
  BY EngineStep DEF StepAnswers
<1> QED
  BY <1>1, EngineInvHolds, PTL DEF Spec, NeverTradesWithItself
=============================================================================
