-------------------------------- MODULE Sums --------------------------------
(***************************************************************************)
(* Facts about finite sets, and about the sums over them that the other    *)
(* modules write with SumFunctionOnSet.  Induction is over sets of sets,   *)
(* so that every lemma is first-order.                                     *)
(***************************************************************************)
EXTENDS Functions, FiniteSets, FiniteSetTheorems, TLAPS

(* A set of subsets of S that has the empty set, and with a set also what  *)
(* one more element of S makes of it, has S: induction over a finite set.  *)
LEMMA SubsetInduction ==
  ASSUME NEW S, IsFiniteSet(S), NEW G, {} \in G,
         \A T \in SUBSET S : \A x \in S \ T : T \in G => T \cup {x} \in G
  PROVE  S \in G
<1> DEFINE bad == {T \in SUBSET S : T \notin G}
           R   == StrictSubsetOrdering(S)
<1>1. IsWellFoundedOn(R, SUBSET S)
  BY FS_StrictSubsetOrderingWellFounded, FS_FiniteSubsetsOfFinite
<1>2. SUFFICES ASSUME S \notin G PROVE FALSE
  OBVIOUS
<1>3. bad \subseteq SUBSET S /\ bad # {}
  BY <1>2
<1> HIDE DEF bad
<1>4. PICK T \in bad : \A U \in bad : <<U, T>> \notin R
  <2> HIDE DEF R
  <2>1. QED BY <1>1, <1>3, WFMin
<1> USE DEF bad
<1>5. PICK x \in T : TRUE
  OBVIOUS
<1>6. T \ {x} \in SUBSET S /\ x \in S \ (T \ {x}) /\ (T \ {x}) \cup {x} = T
  OBVIOUS
<1>7. <<T \ {x}, T>> \in R
  BY <1>5, <1>6 DEF StrictSubsetOrdering
<1>8. QED
  BY <1>4, <1>6, <1>7

-----------------------------------------------------------------------------
(* The function by which SumFunctionOnSet is defined: it takes the elements *)
(* of a set in the order of CHOOSE.                                        *)
Some(s) == CHOOSE x \in s : TRUE

SumTable(f, g, S) ==
  g = [s \in SUBSET S |-> IF s = {} THEN 0 ELSE f[Some(s)] + g[s \ {Some(s)}]]

LEMMA SumIsChosen ==
  ASSUME NEW f, NEW S
  PROVE  SumFunctionOnSet(f, S) = (CHOOSE g : SumTable(f, g, S))[S]
BY DEF SumFunctionOnSet, FoldFunctionOnSet, MapThenFoldSet, SumTable, Some

LEMMA SomeElement ==
  ASSUME NEW s, s # {}
  PROVE  Some(s) \in s /\ s \ {Some(s)} # s
BY DEF Some

LEMMA SumTableAt ==
  ASSUME NEW f, NEW g, NEW S, SumTable(f, g, S), NEW s \in SUBSET S
  PROVE  g[s] = IF s = {} THEN 0 ELSE f[Some(s)] + g[s \ {Some(s)}]
BY DEF SumTable

(* There is at most one such function.                                     *)
LEMMA SumTableUnique ==
  ASSUME NEW f, NEW S, NEW T, IsFiniteSet(S), S \subseteq T,
         NEW g, SumTable(f, g, S), NEW h, SumTable(f, h, T)
  PROVE  g[S] = h[S]
<1> DEFINE bad == {s \in SUBSET S : g[s] # h[s]}
           R   == StrictSubsetOrdering(S)
<1>1. IsWellFoundedOn(R, SUBSET S)
  BY FS_StrictSubsetOrderingWellFounded, FS_FiniteSubsetsOfFinite
<1>2. SUFFICES ASSUME bad # {} PROVE FALSE
  OBVIOUS
<1>3. PICK s \in bad : \A u \in bad : <<u, s>> \notin R
  <2> HIDE DEF R
  <2>1. bad \subseteq SUBSET S OBVIOUS
  <2> HIDE DEF bad
  <2>2. QED BY <1>1, <1>2, <2>1, WFMin
<1>4. /\ g[s] = IF s = {} THEN 0 ELSE f[Some(s)] + g[s \ {Some(s)}]
      /\ h[s] = IF s = {} THEN 0 ELSE f[Some(s)] + h[s \ {Some(s)}]
  BY SumTableAt
<1>5. s # {}
  BY <1>4
<1> DEFINE u == s \ {Some(s)}
<1>6. <<u, s>> \in R /\ u \in SUBSET S
  BY <1>5, SomeElement DEF StrictSubsetOrdering
<1>7. g[u] = h[u]
  BY <1>3, <1>6
<1>8. QED
  BY <1>4, <1>5, <1>7

(* There is one.                                                           *)
LEMMA SumTableExists ==
  ASSUME NEW f, NEW S, IsFiniteSet(S)
  PROVE  \E g : SumTable(f, g, S)
<1> DEFINE good == {T \in SUBSET S : \E g : SumTable(f, g, T)}
           bad  == (SUBSET S) \ good
           R    == StrictSubsetOrdering(S)
<1>1. IsWellFoundedOn(R, SUBSET S)
  BY FS_StrictSubsetOrderingWellFounded, FS_FiniteSubsetsOfFinite
<1>2. SUFFICES ASSUME bad # {} PROVE FALSE
  OBVIOUS
<1>3. PICK T \in bad : \A u \in bad : <<u, T>> \notin R
  <2> HIDE DEF R
  <2>1. bad \subseteq SUBSET S OBVIOUS
  <2> HIDE DEF bad
  <2>2. QED BY <1>1, <1>2, <2>1, WFMin
<1> DEFINE G(u) == (CHOOSE g : SumTable(f, g, u))[u]
           h    == [s \in SUBSET T |-> IF s = {} THEN 0 ELSE f[Some(s)] + G(s \ {Some(s)})]
<1>4. ASSUME NEW u \in SUBSET T, u # T
      PROVE  SumTable(f, CHOOSE g : SumTable(f, g, u), u) /\ IsFiniteSet(u)
  <2>1. u \in SUBSET S /\ <<u, T>> \in R
    BY <1>4 DEF StrictSubsetOrdering
  <2>2. \E g : SumTable(f, g, u)
    BY <1>3, <2>1
  <2>3. QED
    BY <2>1, <2>2, FS_Subset
<1>5. ASSUME NEW u \in SUBSET T, u # T
      PROVE  h[u] = G(u)
  <2> DEFINE k == CHOOSE g : SumTable(f, g, u)
             v == u \ {Some(u)}
  <2>1. SumTable(f, k, u)
    BY <1>4, <1>5
  <2> HIDE DEF k
  <2>2. k[u] = IF u = {} THEN 0 ELSE f[Some(u)] + k[v]
    BY <2>1, SumTableAt
  <2>3. CASE u = {}
    BY <2>2, <2>3 DEF k
  <2>4. CASE u # {}
    <3>1. v \in SUBSET T /\ v # T /\ v \subseteq u
      BY <2>4, SomeElement
    <3>2. SumTable(f, CHOOSE g : SumTable(f, g, v), v) /\ IsFiniteSet(v)
      BY <1>4, <3>1
    <3>3. k[v] = G(v)
      <4> DEFINE m == CHOOSE g : SumTable(f, g, v)
      <4>1. SumTable(f, m, v) BY <3>2
      <4> HIDE DEF m
      <4>2. m[v] = k[v] BY <2>1, <3>1, <3>2, <4>1, SumTableUnique
      <4>3. QED BY <4>2 DEF m
    <3>4. QED
      BY <2>2, <2>4, <3>3 DEF k
  <2>5. QED BY <2>3, <2>4
<1>6. ASSUME NEW s \in SUBSET T
      PROVE  h[s] = IF s = {} THEN 0 ELSE f[Some(s)] + h[s \ {Some(s)}]
  <2>1. CASE s = {}
    BY <2>1
  <2>2. CASE s # {}
    <3>1. s \ {Some(s)} \in SUBSET T /\ s \ {Some(s)} # T
      BY <2>2, SomeElement
    <3>2. h[s \ {Some(s)}] = G(s \ {Some(s)})
      BY <1>5, <3>1
    <3> HIDE DEF G
    <3>3. QED BY <2>2, <3>2
  <2>3. QED BY <2>1, <2>2
<1>7. SumTable(f, h, T)
  <2>1. h = [s \in SUBSET T |-> h[s]]
    OBVIOUS
  <2> HIDE DEF h
  <2>2. QED BY <1>6, <2>1 DEF SumTable
<1>8. QED
  BY <1>7

-----------------------------------------------------------------------------
(* The sum over a finite set.                                              *)

LEMMA SumEmpty ==
  ASSUME NEW f
  PROVE  SumFunctionOnSet(f, {}) = 0
<1>1. PICK g : SumTable(f, g, {})
  BY SumTableExists, FS_EmptySet
<1> DEFINE k == CHOOSE h : SumTable(f, h, {})
<1>2. SumTable(f, k, {})
  BY <1>1
<1> HIDE DEF k
<1>3. k[{}] = 0
  BY <1>2, SumTableAt
<1>4. QED
  BY <1>3, SumIsChosen DEF k

LEMMA SumStep ==
  ASSUME NEW f, NEW S, IsFiniteSet(S), S # {}
  PROVE  SumFunctionOnSet(f, S) = f[Some(S)] + SumFunctionOnSet(f, S \ {Some(S)})
<1> DEFINE T == S \ {Some(S)}
           k == CHOOSE h : SumTable(f, h, S)
           m == CHOOSE h : SumTable(f, h, T)
<1>1. IsFiniteSet(T) /\ T \subseteq S
  BY FS_Subset
<1>2. SumTable(f, k, S) /\ SumTable(f, m, T)
  BY <1>1, SumTableExists
<1>3. SumFunctionOnSet(f, S) = k[S] /\ SumFunctionOnSet(f, T) = m[T]
  BY SumIsChosen
<1> HIDE DEF k, m
<1>4. m[T] = k[T]
  BY <1>1, <1>2, SumTableUnique
<1>5. k[S] = f[Some(S)] + k[T]
  BY <1>2, SumTableAt
<1>6. QED
  BY <1>3, <1>4, <1>5

(* The sum of integers is one, and does not depend on which element is     *)
(* taken first.                                                            *)
LEMMA SumTakesAny ==
  ASSUME NEW f, NEW S, IsFiniteSet(S), \A x \in S : f[x] \in Int
  PROVE  /\ SumFunctionOnSet(f, S) \in Int
         /\ \A y \in S : SumFunctionOnSet(f, S) = f[y] + SumFunctionOnSet(f, S \ {y})
<1> DEFINE Sum(T) == SumFunctionOnSet(f, T)
           bad == {T \in SUBSET S : ~(Sum(T) \in Int /\ \A y \in T : Sum(T) = f[y] + Sum(T \ {y}))}
           R   == StrictSubsetOrdering(S)
<1> HIDE DEF Sum
<1>1. IsWellFoundedOn(R, SUBSET S)
  BY FS_StrictSubsetOrderingWellFounded, FS_FiniteSubsetsOfFinite
<1>2. SUFFICES ASSUME bad # {} PROVE FALSE
  BY DEF Sum
<1>3. PICK T \in bad : \A u \in bad : <<u, T>> \notin R
  <2> HIDE DEF R
  <2>1. bad \subseteq SUBSET S OBVIOUS
  <2> HIDE DEF bad
  <2>2. QED BY <1>1, <1>2, <2>1, WFMin
<1>4. ASSUME NEW u \in SUBSET T, u # T
      PROVE  Sum(u) \in Int /\ \A y \in u : Sum(u) = f[y] + Sum(u \ {y})
  BY <1>3, <1>4 DEF StrictSubsetOrdering
<1>5. CASE T = {}
  BY <1>5, SumEmpty DEF Sum
<1>6. CASE T # {}
  <2> DEFINE c == Some(T)
  <2>1. c \in T /\ T \ {c} \in SUBSET T /\ T \ {c} # T
    BY <1>6, SomeElement
  <2>2. Sum(T) = f[c] + Sum(T \ {c})
    BY <1>6, FS_Subset, SumStep DEF Sum
  <2> HIDE DEF c
  <2>3. f[c] \in Int /\ Sum(T \ {c}) \in Int
    BY <1>4, <2>1
  <2>4. ASSUME NEW y \in T
        PROVE  Sum(T) = f[y] + Sum(T \ {y})
    <3>1. CASE y = c
      BY <2>2, <3>1
    <3>2. CASE y # c
      <4>1. T \ {y} \in SUBSET T /\ T \ {y} # T /\ c \in T \ {y} /\ y \in T \ {c}
        BY <2>1, <3>2
      <4> DEFINE u == (T \ {y}) \ {c}
      <4>2. (T \ {c}) \ {y} = u /\ u \in SUBSET T /\ u # T
        BY <4>1
      <4>3. Sum(T \ {c}) = f[y] + Sum((T \ {c}) \ {y}) /\ Sum(T \ {y}) = f[c] + Sum(u)
        BY <1>4, <2>1, <4>1
      <4>4. Sum(T \ {c}) = f[y] + Sum(u)
        BY <4>2, <4>3
      <4>5. Sum(u) \in Int /\ f[y] \in Int
        BY <1>4, <4>2
      <4> HIDE DEF u
      <4>6. \A a, b, d \in Int : a + (b + d) = b + (a + d)
        OBVIOUS
      <4>7. f[c] + (f[y] + Sum(u)) = f[y] + (f[c] + Sum(u))
        BY <2>3, <4>5, <4>6, Zenon
      <4>8. QED BY ONLY <2>2, <4>3, <4>4, <4>7, Zenon
    <3>3. QED BY <3>1, <3>2
  <2>5. Sum(T) \in Int
    BY <2>2, <2>3
  <2>6. QED BY <1>3, <2>4, <2>5
<1>7. QED
  BY <1>5, <1>6

(* One more element.                                                       *)
LEMMA SumAdd ==
  ASSUME NEW f, NEW S, IsFiniteSet(S), \A y \in S : f[y] \in Int, NEW x, x \notin S, f[x] \in Int
  PROVE  SumFunctionOnSet(f, S \cup {x}) = f[x] + SumFunctionOnSet(f, S)
<1>1. IsFiniteSet(S \cup {x}) /\ (S \cup {x}) \ {x} = S
  BY FS_AddElement
<1>2. QED
  BY <1>1, SumTakesAny

(* One element less.                                                       *)
LEMMA SumRemove ==
  ASSUME NEW f, NEW S, IsFiniteSet(S), \A y \in S : f[y] \in Int, NEW x \in S
  PROVE  SumFunctionOnSet(f, S) = f[x] + SumFunctionOnSet(f, S \ {x})
BY SumTakesAny

(* A sum of naturals is natural.                                           *)
LEMMA SumNat ==
  ASSUME NEW f, NEW S, IsFiniteSet(S), \A x \in S : f[x] \in Nat
  PROVE  SumFunctionOnSet(f, S) \in Nat
<1> DEFINE Sum(T) == SumFunctionOnSet(f, T)
           G == {T \in SUBSET S : Sum(T) \in Nat}
<1>1. {} \in G
  BY SumEmpty
<1>2. ASSUME NEW T \in SUBSET S, NEW x \in S \ T, T \in G
      PROVE  T \cup {x} \in G
  <2>1. Sum(T \cup {x}) = f[x] + Sum(T)
    BY <1>2, FS_Subset, SumAdd
  <2> HIDE DEF Sum
  <2>2. QED BY <1>2, <2>1
<1> HIDE DEF G
<1>3. S \in G
  BY <1>1, <1>2, SubsetInduction
<1>4. QED
  BY <1>3 DEF G

(* Only the values on the set matter.                                      *)
LEMMA SumSame ==
  ASSUME NEW f, NEW g, NEW S, IsFiniteSet(S), \A x \in S : f[x] \in Int /\ g[x] = f[x]
  PROVE  SumFunctionOnSet(g, S) = SumFunctionOnSet(f, S)
<1> DEFINE F(T) == SumFunctionOnSet(f, T)
           H(T) == SumFunctionOnSet(g, T)
           G == {T \in SUBSET S : F(T) = H(T)}
<1>1. {} \in G
  BY SumEmpty
<1>2. ASSUME NEW T \in SUBSET S, NEW x \in S \ T, T \in G
      PROVE  T \cup {x} \in G
  <2>1. F(T \cup {x}) = f[x] + F(T)
    BY <1>2, FS_Subset, SumAdd
  <2>2. H(T \cup {x}) = g[x] + H(T)
    <3>1. IsFiniteSet(T) /\ x \notin T /\ g[x] \in Int /\ \A y \in T : g[y] \in Int
      BY <1>2, FS_Subset
    <3>2. QED BY <3>1, SumAdd
  <2> HIDE DEF F, H
  <2>3. QED BY <1>2, <2>1, <2>2
<1> HIDE DEF G
<1>3. S \in G
  BY <1>1, <1>2, SubsetInduction
<1>4. QED
  BY <1>3 DEF G

(* The sum over two sets that have nothing in common.                      *)
LEMMA SumUnion ==
  ASSUME NEW f, NEW S, IsFiniteSet(S), NEW T, IsFiniteSet(T), S \cap T = {},
         \A x \in S \cup T : f[x] \in Int
  PROVE  SumFunctionOnSet(f, S \cup T) = SumFunctionOnSet(f, S) + SumFunctionOnSet(f, T)
<1> DEFINE Sum(U) == SumFunctionOnSet(f, U)
           G == {U \in SUBSET T : Sum(S \cup U) = Sum(S) + Sum(U)}
<1>0. Sum(S) \in Int
  BY SumTakesAny
<1>1. {} \in G
  <2>1. S \cup {} = S /\ Sum({}) = 0
    BY SumEmpty
  <2> HIDE DEF Sum
  <2>2. QED BY <1>0, <2>1
<1>2. ASSUME NEW U \in SUBSET T, NEW x \in T \ U, U \in G
      PROVE  U \cup {x} \in G
  <2>1. /\ IsFiniteSet(U) /\ IsFiniteSet(S \cup U) /\ x \notin S \cup U /\ f[x] \in Int
        /\ \A y \in S \cup U : f[y] \in Int
    BY <1>2, FS_Subset, FS_Union
  <2>2. Sum(U \cup {x}) = f[x] + Sum(U) /\ Sum(U) \in Int
    BY <2>1, SumAdd, SumTakesAny
  <2>3. Sum((S \cup U) \cup {x}) = f[x] + Sum(S \cup U)
    BY <2>1, SumAdd
  <2>4. (S \cup U) \cup {x} = S \cup (U \cup {x})
    OBVIOUS
  <2>5. Sum(S \cup (U \cup {x})) = f[x] + Sum(S \cup U)
    BY <2>3, <2>4
  <2>6. Sum(S \cup U) = Sum(S) + Sum(U)
    BY <1>2
  <2> HIDE DEF Sum
  <2>7. \A a, b, d \in Int : a + (b + d) = b + (a + d)
    OBVIOUS
  <2>8. f[x] + (Sum(S) + Sum(U)) = Sum(S) + (f[x] + Sum(U))
    BY <1>0, <2>1, <2>2, <2>7, Zenon
  <2>9. Sum(S \cup (U \cup {x})) = Sum(S) + Sum(U \cup {x})
    BY ONLY <2>2, <2>5, <2>6, <2>8, Zenon
  <2>10. QED BY <1>2, <2>9
<1> HIDE DEF G
<1>3. T \in G
  BY <1>1, <1>2, SubsetInduction
<1>4. QED
  BY <1>3 DEF G

(* The sum of naturals over fewer elements is not greater.                 *)
LEMMA SumSubset ==
  ASSUME NEW f, NEW S, IsFiniteSet(S), NEW T \in SUBSET S, \A x \in S : f[x] \in Nat
  PROVE  SumFunctionOnSet(f, T) <= SumFunctionOnSet(f, S)
<1> DEFINE a == SumFunctionOnSet(f, T)
           b == SumFunctionOnSet(f, S \ T)
           c == SumFunctionOnSet(f, S)
<1>1. IsFiniteSet(T) /\ IsFiniteSet(S \ T) /\ T \cap (S \ T) = {} /\ T \cup (S \ T) = S
  BY FS_Subset
<1>2. c = a + b
  BY <1>1, SumUnion
<1>3. a \in Nat /\ b \in Nat
  BY <1>1, SumNat
<1> HIDE DEF a, b, c
<1>4. a <= c
  BY <1>2, <1>3
<1>5. QED
  BY <1>4 DEF a, c

(* Greater values have a greater sum.                                      *)
LEMMA SumMonotone ==
  ASSUME NEW f, NEW g, NEW S, IsFiniteSet(S),
         \A x \in S : f[x] \in Int /\ g[x] \in Int /\ f[x] <= g[x]
  PROVE  SumFunctionOnSet(f, S) <= SumFunctionOnSet(g, S)
<1> DEFINE F(T) == SumFunctionOnSet(f, T)
           H(T) == SumFunctionOnSet(g, T)
           G == {T \in SUBSET S : F(T) <= H(T)}
<1>1. {} \in G
  BY SumEmpty
<1>2. ASSUME NEW T \in SUBSET S, NEW x \in S \ T, T \in G
      PROVE  T \cup {x} \in G
  <2>1. IsFiniteSet(T)
    BY <1>2, FS_Subset
  <2>2. F(T \cup {x}) = f[x] + F(T) /\ F(T) \in Int
    BY <1>2, <2>1, SumAdd, SumTakesAny
  <2>3. H(T \cup {x}) = g[x] + H(T) /\ H(T) \in Int
    BY <1>2, <2>1, SumAdd, SumTakesAny
  <2> HIDE DEF F, H
  <2>4. QED BY <1>2, <2>2, <2>3
<1> HIDE DEF G
<1>3. S \in G
  BY <1>1, <1>2, SubsetInduction
<1>4. QED
  BY <1>3 DEF G
=============================================================================
