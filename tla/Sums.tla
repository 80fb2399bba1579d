----------------------------------- MODULE Sums -----------------------------------
(***************************************************************************)
(* What a sum over a finite set of journal lines, transfers or accounts    *)
(* obeys: SumFunctionOnSet of the community modules satisfies its          *)
(* recursion equation, does not depend on the order of the terms, and      *)
(* follows a change of one term.  The induction is over the subsets of the *)
(* set, stated with a set of subsets instead of a predicate: a non-empty   *)
(* set of subsets of a finite set has a smallest element (WFMin).          *)
(***************************************************************************)
EXTENDS Functions, FiniteSetTheorems, TLAPS

\* The element the recursion of the fold takes first.
Pick(s) == CHOOSE x \in s : TRUE

\* g is the recursive function SumFunctionOnSet(f, S) is defined by.
Sums(g, f, S) ==
  g = [s \in SUBSET S |-> IF s = {} THEN 0 ELSE f[Pick(s)] + g[s \ {Pick(s)}]]

\* It is one of the set's.
LEMMA PickType == \A s : s # {} => Pick(s) \in s
BY DEF Pick

\* The sum, as the community modules define it.
LEMMA SumUnfolds ==
  ASSUME NEW f, NEW S
  PROVE  SumFunctionOnSet(f, S) = (CHOOSE g : Sums(g, f, S))[S]
BY DEF SumFunctionOnSet, FoldFunctionOnSet, MapThenFoldSet, Sums, Pick

\* What holds for a subset whenever it holds for all smaller ones holds for every
\* subset of a finite set.
LEMMA SubsetInduction ==
  ASSUME NEW S, IsFiniteSet(S), NEW C,
         \A T \in SUBSET S : (\A U \in SUBSET T : U # T => U \in C) => T \in C
  PROVE  \A T \in SUBSET S : T \in C
<1> DEFINE Bad == {T \in SUBSET S : T \notin C}
           R == StrictSubsetOrdering(S)
<1>1. SUFFICES ASSUME Bad # {} PROVE FALSE
  OBVIOUS
<1>2. IsWellFoundedOn(R, SUBSET S)
  BY FS_StrictSubsetOrderingWellFounded, FS_FiniteSubsetsOfFinite
<1>3. \E T \in Bad : \A U \in Bad : ~(<<U, T>> \in R)
  <2>1. Bad \subseteq SUBSET S
    OBVIOUS
  <2> HIDE DEF R, Bad
  <2> QED BY <1>1, <1>2, <2>1, WFMin
<1>4. PICK T \in Bad : \A U \in Bad : ~(<<U, T>> \in R)
  BY <1>3
<1>5. \A U \in SUBSET T : U # T => <<U, T>> \in R
  BY <1>4 DEF StrictSubsetOrdering
<1> HIDE DEF R
<1>6. \A U \in SUBSET T : U # T => U \in C
  <2>1. ASSUME NEW U \in SUBSET T, U # T, U \notin C
        PROVE  FALSE
    <3>1. U \in Bad
      BY <1>4, <2>1
    <3> QED BY <1>4, <1>5, <2>1, <3>1
  <2> QED BY <2>1
<1> QED BY <1>4, <1>6

\* Two such functions agree wherever both are defined.
LEMMA SumsAgree ==
  ASSUME NEW f, NEW S, IsFiniteSet(S), NEW T \in SUBSET S, NEW g, NEW h,
         Sums(g, f, S), Sums(h, f, T)
  PROVE  \A U \in SUBSET T : g[U] = h[U]
<1> DEFINE C == {U \in SUBSET T : g[U] = h[U]}
<1>1. IsFiniteSet(T)
  BY FS_Subset
<1>2. ASSUME NEW U \in SUBSET T, \A V \in SUBSET U : V # U => V \in C
      PROVE  U \in C
  <2>1. CASE U = {}
    <3>1. g[U] = 0 /\ h[U] = 0
      BY <2>1, U \in SUBSET S DEF Sums
    <3> QED BY <3>1
  <2>2. CASE U # {}
    <3> DEFINE V == U \ {Pick(U)}
    <3>1. V \in SUBSET U /\ V # U
      BY <2>2, PickType
    <3>2. g[U] = f[Pick(U)] + g[V] /\ h[U] = f[Pick(U)] + h[V]
      BY <2>2, U \in SUBSET S DEF Sums
    <3>3. g[V] = h[V]
      BY <3>1, <1>2
    <3> QED BY <3>2, <3>3
  <2> QED BY <2>1, <2>2
<1> HIDE DEF C
<1>3. \A U \in SUBSET T : U \in C
  BY <1>1, <1>2, SubsetInduction
<1> QED BY <1>3 DEF C

\* There is such a function.
LEMMA SumsExist ==
  ASSUME NEW f, NEW S, IsFiniteSet(S)
  PROVE  \E g : Sums(g, f, S)
<1> DEFINE C == {T \in SUBSET S : \E g : Sums(g, f, T)}
           Total(U) == (CHOOSE g : Sums(g, f, U))[U]
<1>1. ASSUME NEW T \in SUBSET S, \A U \in SUBSET T : U # T => U \in C
      PROVE  T \in C
  <2> DEFINE h == [s \in SUBSET T |-> IF s = {} THEN 0
                                      ELSE f[Pick(s)] + Total(s \ {Pick(s)})]
  <2>1. ASSUME NEW s \in SUBSET T, s # {}
        PROVE  s \ {Pick(s)} \in SUBSET T /\ s \ {Pick(s)} # T /\ Pick(s) \in s
    BY <2>1, PickType
  <2>2. ASSUME NEW U \in SUBSET T, U # T
        PROVE  Total(U) = h[U]
    <3> DEFINE g == CHOOSE x : Sums(x, f, U)
    <3>1. Sums(g, f, U)
      BY <1>1, <2>2
    <3>2. CASE U = {}
      BY <3>1, <3>2 DEF Sums
    <3>3. CASE U # {}
      <4> DEFINE V == U \ {Pick(U)}
                 k == CHOOSE x : Sums(x, f, V)
      <4>1. V \in SUBSET U /\ V \in SUBSET T /\ V # T
        BY <2>1, <3>3
      <4>2. Sums(k, f, V)
        BY <1>1, <4>1
      <4>3. g[V] = k[V]
        <5>1. IsFiniteSet(U)
          BY FS_Subset
        <5> HIDE DEF g, k, V
        <5> QED BY <3>1, <4>1, <4>2, <5>1, SumsAgree
      <4>4. g[U] = f[Pick(U)] + g[V]
        <5> HIDE DEF g
        <5> QED BY <3>1, <3>3 DEF Sums
      <4>5. h[U] = f[Pick(U)] + k[V]
        BY <3>3
      <4> QED BY <4>3, <4>4, <4>5
    <3> QED BY <3>2, <3>3
  <2>3. h = [s \in SUBSET T |-> IF s = {} THEN 0 ELSE f[Pick(s)] + h[s \ {Pick(s)}]]
    <3>1. ASSUME NEW s \in SUBSET T, s # {}
          PROVE  Total(s \ {Pick(s)}) = h[s \ {Pick(s)}]
      BY <3>1, <2>1, <2>2
    <3> HIDE DEF Total
    <3> QED BY <3>1
  <2>4. Sums(h, f, T)
    <3> HIDE DEF h
    <3> QED BY <2>3 DEF Sums
  <2> QED BY <2>4
<1> HIDE DEF C
<1>2. S \in C
  BY <1>1, SubsetInduction
<1> QED BY <1>2 DEF C

\* The recursion the sum over a finite set obeys.
LEMMA SumRecursion ==
  ASSUME NEW f, NEW S, IsFiniteSet(S)
  PROVE  SumFunctionOnSet(f, S) =
           IF S = {} THEN 0
           ELSE f[Pick(S)] + SumFunctionOnSet(f, S \ {Pick(S)})
<1> DEFINE g == CHOOSE x : Sums(x, f, S)
           T == S \ {Pick(S)}
           h == CHOOSE x : Sums(x, f, T)
<1>1. Sums(g, f, S) /\ SumFunctionOnSet(f, S) = g[S]
  BY SumsExist, SumUnfolds
<1>2. Sums(h, f, T) /\ SumFunctionOnSet(f, T) = h[T]
  BY SumsExist, SumUnfolds, FS_RemoveElement
<1>3. g[S] = IF S = {} THEN 0 ELSE f[Pick(S)] + g[T]
  <2> HIDE DEF g
  <2> QED BY <1>1 DEF Sums
<1>4. g[T] = h[T]
  <2> HIDE DEF g, h
  <2> QED BY <1>1, <1>2, SumsAgree
<1> QED BY <1>1, <1>2, <1>3, <1>4

\* The sum over no element.
LEMMA SumEmpty == ASSUME NEW f PROVE SumFunctionOnSet(f, {}) = 0
BY SumRecursion, FS_EmptySet

\* A sum of integers is one.
LEMMA SumType ==
  ASSUME NEW f, NEW S, IsFiniteSet(S), \A x \in S : f[x] \in Int
  PROVE  SumFunctionOnSet(f, S) \in Int
<1> DEFINE C == {T \in SUBSET S : SumFunctionOnSet(f, T) \in Int}
<1>1. ASSUME NEW T \in SUBSET S, \A U \in SUBSET T : U # T => U \in C
      PROVE  T \in C
  <2>1. IsFiniteSet(T)
    BY FS_Subset
  <2>2. CASE T = {}
    BY <2>2, SumEmpty
  <2>3. CASE T # {}
    <3>1. Pick(T) \in T /\ T \ {Pick(T)} \in C
      BY <1>1, <2>3, PickType
    <3>2. f[Pick(T)] \in Int /\ SumFunctionOnSet(f, T \ {Pick(T)}) \in Int
      BY <3>1
    <3> QED BY <2>1, <2>3, <3>2, SumRecursion
  <2> QED BY <2>2, <2>3
<1> HIDE DEF C
<1>2. S \in C
  BY <1>1, SubsetInduction
<1> QED BY <1>2 DEF C

\* It does not matter which element is counted first.
LEMMA SumRemove ==
  ASSUME NEW f, NEW S, IsFiniteSet(S), \A x \in S : f[x] \in Int
  PROVE  \A x \in S : SumFunctionOnSet(f, S) = f[x] + SumFunctionOnSet(f, S \ {x})
<1> DEFINE C == {T \in SUBSET S : \A x \in T :
                  SumFunctionOnSet(f, T) = f[x] + SumFunctionOnSet(f, T \ {x})}
<1>1. ASSUME NEW T \in SUBSET S, \A U \in SUBSET T : U # T => U \in C,
             NEW x \in T
      PROVE  SumFunctionOnSet(f, T) = f[x] + SumFunctionOnSet(f, T \ {x})
  <2> DEFINE p == Pick(T)
  <2>1. \A U \in SUBSET S : IsFiniteSet(U) /\ SumFunctionOnSet(f, U) \in Int
    BY FS_Subset, SumType
  <2>2. p \in T
    BY PickType
  <2>3. SumFunctionOnSet(f, T) = f[p] + SumFunctionOnSet(f, T \ {p})
    BY <2>1, SumRecursion
  <2>4. CASE x = p
    BY <2>3, <2>4
  <2>5. CASE x # p
    <3> HIDE DEF p
    <3>1. T \ {p} \in C /\ x \in T \ {p} /\ T \ {x} \in C /\ p \in T \ {x}
      BY <1>1, <2>2, <2>5
    <3>2. SumFunctionOnSet(f, T \ {p}) = f[x] + SumFunctionOnSet(f, (T \ {p}) \ {x})
      BY <3>1
    <3>3. SumFunctionOnSet(f, T \ {x}) = f[p] + SumFunctionOnSet(f, (T \ {x}) \ {p})
      BY <3>1
    <3>4. (T \ {p}) \ {x} = (T \ {x}) \ {p}
      OBVIOUS
    <3>5. f[p] \in Int /\ f[x] \in Int /\ SumFunctionOnSet(f, (T \ {x}) \ {p}) \in Int
      BY <2>1, <2>2
    <3>6. \A a, b, c \in Int : a + (b + c) = b + (a + c)
      OBVIOUS
    <3>7. f[p] + (f[x] + SumFunctionOnSet(f, (T \ {x}) \ {p})) =
            f[x] + (f[p] + SumFunctionOnSet(f, (T \ {x}) \ {p}))
      BY <3>5, <3>6
    <3>8. SumFunctionOnSet(f, T) = f[p] + (f[x] + SumFunctionOnSet(f, (T \ {x}) \ {p}))
      BY <2>3, <3>2, <3>4, Zenon
    <3> QED BY <3>3, <3>7, <3>8, Zenon
  <2> QED BY <2>4, <2>5
<1>2. \A T \in SUBSET S : (\A U \in SUBSET T : U # T => U \in C) => T \in C
  BY <1>1
<1> HIDE DEF C
<1>3. S \in C
  BY <1>2, SubsetInduction
<1> QED BY <1>3 DEF C

\* Functions that agree on a set have the same sum over it.
LEMMA SumEqual ==
  ASSUME NEW f, NEW g, NEW S, IsFiniteSet(S), \A x \in S : f[x] = g[x]
  PROVE  SumFunctionOnSet(f, S) = SumFunctionOnSet(g, S)
<1> DEFINE C == {T \in SUBSET S : SumFunctionOnSet(f, T) = SumFunctionOnSet(g, T)}
<1>1. ASSUME NEW T \in SUBSET S, \A U \in SUBSET T : U # T => U \in C
      PROVE  T \in C
  <2>1. IsFiniteSet(T)
    BY FS_Subset
  <2>2. CASE T = {}
    BY <2>2, SumEmpty
  <2>3. CASE T # {}
    <3>1. Pick(T) \in T /\ T \ {Pick(T)} \in C
      BY <1>1, <2>3, PickType
    <3>2. f[Pick(T)] = g[Pick(T)]
          /\ SumFunctionOnSet(f, T \ {Pick(T)}) = SumFunctionOnSet(g, T \ {Pick(T)})
      BY <3>1
    <3> QED BY <2>1, <2>3, <3>2, SumRecursion
  <2> QED BY <2>2, <2>3
<1> HIDE DEF C
<1>2. S \in C
  BY <1>1, SubsetInduction
<1> QED BY <1>2 DEF C

\* Changing one term changes the sum by as much.
LEMMA SumChange ==
  ASSUME NEW f, NEW g, NEW S, IsFiniteSet(S), NEW x \in S,
         \A y \in S : f[y] \in Int /\ g[y] \in Int,
         \A y \in S \ {x} : g[y] = f[y]
  PROVE  SumFunctionOnSet(g, S) = SumFunctionOnSet(f, S) + (g[x] - f[x])
<1>1. IsFiniteSet(S \ {x})
  BY FS_RemoveElement
<1>2. SumFunctionOnSet(f, S) = f[x] + SumFunctionOnSet(f, S \ {x})
  BY SumRemove
<1>3. SumFunctionOnSet(g, S) = g[x] + SumFunctionOnSet(g, S \ {x})
  BY SumRemove
<1>4. SumFunctionOnSet(g, S \ {x}) = SumFunctionOnSet(f, S \ {x})
  BY <1>1, SumEqual
<1>5. SumFunctionOnSet(f, S \ {x}) \in Int
  BY <1>1, SumType
<1> QED BY <1>2, <1>3, <1>4, <1>5

\* A new term is added to the sum.
LEMMA SumAdd ==
  ASSUME NEW f, NEW S, IsFiniteSet(S), NEW x, x \notin S,
         \A y \in S \cup {x} : f[y] \in Int
  PROVE  SumFunctionOnSet(f, S \cup {x}) = f[x] + SumFunctionOnSet(f, S)
<1>1. IsFiniteSet(S \cup {x}) /\ (S \cup {x}) \ {x} = S
  BY FS_AddElement
<1> QED BY <1>1, SumRemove

\* The sum of differences is the difference of the sums.
LEMMA SumMinus ==
  ASSUME NEW f, NEW g, NEW h, NEW S, IsFiniteSet(S),
         \A x \in S : f[x] \in Int /\ g[x] \in Int /\ h[x] = f[x] - g[x]
  PROVE  SumFunctionOnSet(h, S) = SumFunctionOnSet(f, S) - SumFunctionOnSet(g, S)
<1> DEFINE C == {T \in SUBSET S :
                  SumFunctionOnSet(h, T) = SumFunctionOnSet(f, T) - SumFunctionOnSet(g, T)}
<1>1. ASSUME NEW T \in SUBSET S, \A U \in SUBSET T : U # T => U \in C
      PROVE  T \in C
  <2>1. \A U \in SUBSET S : /\ IsFiniteSet(U)
                            /\ SumFunctionOnSet(f, U) \in Int
                            /\ SumFunctionOnSet(g, U) \in Int
    BY FS_Subset, SumType
  <2>2. CASE T = {}
    BY <2>2, SumEmpty
  <2>3. CASE T # {}
    <3> DEFINE p == Pick(T)
               U == T \ {p}
    <3>1. p \in T /\ U \in C
      BY <1>1, <2>3, PickType
    <3>2. f[p] \in Int /\ g[p] \in Int /\ h[p] = f[p] - g[p]
      BY <3>1
    <3>3. SumFunctionOnSet(h, U) = SumFunctionOnSet(f, U) - SumFunctionOnSet(g, U)
      BY <3>1
    <3>4. /\ SumFunctionOnSet(f, T) = f[p] + SumFunctionOnSet(f, U)
          /\ SumFunctionOnSet(g, T) = g[p] + SumFunctionOnSet(g, U)
          /\ SumFunctionOnSet(h, T) = h[p] + SumFunctionOnSet(h, U)
      BY <2>1, <2>3, SumRecursion
    <3> HIDE DEF p, U
    <3>5. SumFunctionOnSet(f, U) \in Int /\ SumFunctionOnSet(g, U) \in Int
      BY <2>1, <3>1
    <3>6. SumFunctionOnSet(h, T) = SumFunctionOnSet(f, T) - SumFunctionOnSet(g, T)
      BY <3>2, <3>3, <3>4, <3>5
    <3> QED BY <3>6
  <2> QED BY <2>2, <2>3
<1> HIDE DEF C
<1>2. S \in C
  BY <1>1, SubsetInduction
<1> QED BY <1>2 DEF C
===================================================================================
