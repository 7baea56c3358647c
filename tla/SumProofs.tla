----------------------------- MODULE SumProofs -----------------------------
(***************************************************************************)
(* Sums over finite sets: what SumFunctionOnSet computes, for every finite *)
(* set and every function to the integers.  The sum is a recursive         *)
(* function on the subsets of a set, which takes an element of its choice  *)
(* from each.  That such a function exists, that there is only one, and    *)
(* that the choice does not matter is shown with a least counterexample:   *)
(* the least number, or the least finite set, that does not have the       *)
(* property.                                                               *)
(***************************************************************************)
EXTENDS Integers, FiniteSets, Functions, FiniteSetTheorems, WellFoundedInduction, TLAPS

\* A set of natural numbers has a least one.
LEMMA LeastNumber ==
    ASSUME NEW B \in SUBSET Nat, B # {}
    PROVE  \E m \in B : \A n \in B : m <= n
<1> DEFINE Less == OpToRel(<, Nat)
<1>1. IsWellFoundedOn(Less, Nat)
  BY NatLessThanWellFounded, Zenon
<1>2. \A x, y \in Nat : x < y => <<x, y>> \in Less
  BY DEF OpToRel
<1> HIDE DEF Less
<1>3. PICK x \in B : \A y \in B : <<y, x>> \notin Less
  BY <1>1, WFMin
<1>4. \A y \in B : ~(y < x)
  BY <1>2, <1>3, Zenon
<1> QED
  BY <1>4

\* What takes one element from every set after another, and adds.
AddsUp(f, g, s) == IF s = {} THEN 0 ELSE LET x == CHOOSE x \in s : TRUE IN f[x] + g[s \ {x}]

IsSum(f, g, D) == g = [s \in D |-> AddsUp(f, g, s)]

Small(S, n) == {s \in SUBSET S : Cardinality(s) <= n}

\* The function that adds exists for the sets of up to n elements.
LEMMA SumOfSmall ==
    ASSUME NEW S, IsFiniteSet(S), NEW f, \A x \in S : f[x] \in Int, NEW n \in Nat
    PROVE  \E g \in [Small(S, n) -> Int] : IsSum(f, g, Small(S, n))
<1> DEFINE B == {m \in Nat : ~\E g \in [Small(S, m) -> Int] : IsSum(f, g, Small(S, m))}
<1>0. \A s \in SUBSET S : /\ IsFiniteSet(s) /\ Cardinality(s) \in Nat
                          /\ Cardinality(s) = 0 <=> s = {}
  BY FS_Subset, FS_CardinalityType, FS_EmptySet
<1>1. SUFFICES ASSUME B # {} PROVE FALSE
  OBVIOUS
<1>2. PICK m \in B : \A k \in B : m <= k
  <2>1. B \in SUBSET Nat
    OBVIOUS
  <2> HIDE DEF B
  <2> QED
    BY <1>1, <2>1, LeastNumber
<1>3. m \in Nat /\ ~\E g \in [Small(S, m) -> Int] : IsSum(f, g, Small(S, m))
  OBVIOUS
<1>4. CASE m = 0
  <2>1. Small(S, 0) = {{}}
    BY <1>0 DEF Small
  <2>2. PICK g : g = [s \in {{}} |-> 0]
    OBVIOUS
  <2>3. g \in [{{}} -> Int] /\ \A s \in {{}} : AddsUp(f, g, s) = 0
    BY <2>2 DEF AddsUp
  <2>4. IsSum(f, g, {{}})
    BY <2>2, <2>3 DEF IsSum
  <2> QED
    BY <1>3, <1>4, <2>1, <2>3, <2>4
<1>5. CASE m # 0
  <2>1. m - 1 \in Nat /\ m - 1 \notin B
    BY <1>2, <1>3, <1>5
  <2>2. PICK g \in [Small(S, m - 1) -> Int] : IsSum(f, g, Small(S, m - 1))
    BY <2>1
  <2>3. PICK h : h = [s \in Small(S, m) |-> AddsUp(f, g, s)]
    OBVIOUS
  <2>4. \A s \in Small(S, m) : s # {} =>
          LET x == CHOOSE x \in s : TRUE IN x \in s /\ x \in S /\ s \ {x} \in Small(S, m - 1)
    <3> SUFFICES ASSUME NEW s \in Small(S, m), s # {}, NEW x, x = CHOOSE y \in s : TRUE
                 PROVE  x \in s /\ x \in S /\ s \ {x} \in Small(S, m - 1)
      OBVIOUS
    <3>1. s \in SUBSET S /\ Cardinality(s) <= m
      BY DEF Small
    <3>2. x \in s /\ x \in S
      BY <3>1
    <3>3. s \ {x} \in SUBSET S /\ Cardinality(s \ {x}) = Cardinality(s) - 1
      BY <1>0, <3>1, <3>2, FS_RemoveElement
    <3>4. Cardinality(s \ {x}) <= m - 1
      BY <1>0, <1>3, <3>1, <3>3
    <3> QED
      BY <3>2, <3>3, <3>4 DEF Small
  <2>5. \A s \in Small(S, m - 1) : s \in Small(S, m)
    BY <1>0, <1>3 DEF Small
  <2>6. \A s \in Small(S, m - 1) : h[s] = g[s]
    BY <2>2, <2>3, <2>5 DEF IsSum
  <2>7. \A s \in Small(S, m) : AddsUp(f, h, s) = AddsUp(f, g, s) /\ AddsUp(f, g, s) \in Int
    <3> SUFFICES ASSUME NEW s \in Small(S, m), s # {}
                 PROVE  AddsUp(f, h, s) = AddsUp(f, g, s) /\ AddsUp(f, g, s) \in Int
      BY DEF AddsUp
    <3>1. PICK x : x = CHOOSE y \in s : TRUE
      OBVIOUS
    <3>2. x \in S /\ s \ {x} \in Small(S, m - 1)
      BY <2>4, <3>1
    <3>3. AddsUp(f, g, s) = f[x] + g[s \ {x}] /\ AddsUp(f, h, s) = f[x] + h[s \ {x}]
      BY <3>1 DEF AddsUp
    <3>4. f[x] \in Int /\ g[s \ {x}] \in Int /\ h[s \ {x}] = g[s \ {x}]
      BY <2>2, <2>6, <3>2
    <3> QED
      BY <3>3, <3>4
  <2>8. h \in [Small(S, m) -> Int] /\ IsSum(f, h, Small(S, m))
    BY <2>3, <2>7 DEF IsSum
  <2> QED
    BY <1>3, <2>8
<1> QED
  BY <1>4, <1>5


\* A non-empty set of subsets of a finite set has one that contains no other.
LEMMA LeastSet ==
    ASSUME NEW S, IsFiniteSet(S), NEW B \in SUBSET SUBSET S, B # {}
    PROVE  \E T \in B : \A U \in B : U \subseteq T => U = T
<1> DEFINE N == {Cardinality(T) : T \in B}
<1>0. \A s \in SUBSET S : IsFiniteSet(s) /\ Cardinality(s) \in Nat
  BY FS_Subset, FS_CardinalityType
<1>1. N \in SUBSET Nat /\ N # {}
  BY <1>0
<1>2. PICK m \in N : \A n \in N : m <= n
  <2> HIDE DEF N
  <2> QED
    BY <1>1, LeastNumber
<1>3. PICK T \in B : m = Cardinality(T)
  OBVIOUS
<1>4. ASSUME NEW U \in B, U \subseteq T
      PROVE  U = T
  <2>1. Cardinality(T) <= Cardinality(U)
    BY <1>2, <1>3
  <2>2. IsFiniteSet(T) /\ U \in SUBSET T /\ Cardinality(T) \in Nat /\ Cardinality(U) \in Nat
    BY <1>0, <1>4
  <2>3. Cardinality(U) <= Cardinality(T) /\ (Cardinality(T) = Cardinality(U) => T = U)
    BY <2>2, FS_Subset
  <2> QED
    BY <2>1, <2>2, <2>3
<1> QED
  BY <1>4

\* Two functions that add what is the same give the same sums.
LEMMA SumsUnique ==
    ASSUME NEW S, IsFiniteSet(S), NEW f, NEW g, NEW e, NEW h, \A x \in S : f[x] = e[x],
           \A s \in SUBSET S : g[s] = AddsUp(f, g, s),
           \A s \in SUBSET S : h[s] = AddsUp(e, h, s)
    PROVE  \A s \in SUBSET S : g[s] = h[s]
<1> DEFINE B == {s \in SUBSET S : g[s] # h[s]}
<1>1. SUFFICES ASSUME B # {} PROVE FALSE
  OBVIOUS
<1>2. PICK T \in B : \A U \in B : U \subseteq T => U = T
  <2>1. B \in SUBSET SUBSET S
    OBVIOUS
  <2> HIDE DEF B
  <2> QED
    BY <1>1, <2>1, LeastSet
<1>3. T \in SUBSET S /\ g[T] # h[T]
  OBVIOUS
<1>4. T # {}
  BY <1>3 DEF AddsUp
<1>5. PICK x : x = CHOOSE y \in T : TRUE
  OBVIOUS
<1>6. x \in T /\ x \in S /\ T \ {x} \in SUBSET S /\ T \ {x} # T
  BY <1>3, <1>4, <1>5
<1>7. g[T \ {x}] = h[T \ {x}]
  BY <1>2, <1>6
<1>8. g[T] = f[x] + g[T \ {x}] /\ h[T] = e[x] + h[T \ {x}]
  BY <1>3, <1>4, <1>5 DEF AddsUp
<1> QED
  BY <1>3, <1>6, <1>7, <1>8

\* A sum is the value, at the whole set, of a function that adds.
LEMMA SumIs ==
    ASSUME NEW S, IsFiniteSet(S), NEW f, \A x \in S : f[x] \in Int
    PROVE  \E g \in [SUBSET S -> Int] : /\ \A s \in SUBSET S : g[s] = AddsUp(f, g, s)
                                        /\ SumFunctionOnSet(f, S) = g[S]
<1>1. PICK n \in Nat : n = Cardinality(S) /\ Small(S, n) = SUBSET S
  BY FS_CardinalityType, FS_Subset DEF Small
<1>2. PICK h \in [SUBSET S -> Int] : IsSum(f, h, SUBSET S)
  <2>1. \E h \in [Small(S, n) -> Int] : IsSum(f, h, Small(S, n))
    BY SumOfSmall
  <2> QED
    BY <1>1, <2>1
<1> DEFINE G == CHOOSE g : g = [s \in SUBSET S |-> AddsUp(f, g, s)]
<1>3. SumFunctionOnSet(f, S) = G[S]
  BY DEF SumFunctionOnSet, FoldFunctionOnSet, MapThenFoldSet, AddsUp
<1>4. IsSum(f, G, SUBSET S)
  BY <1>2 DEF IsSum
<1> HIDE DEF G
<1>5. /\ \A s \in SUBSET S : G[s] = AddsUp(f, G, s)
      /\ \A s \in SUBSET S : h[s] = AddsUp(f, h, s)
  BY <1>2, <1>4 DEF IsSum
<1>6. \A s \in SUBSET S : G[s] = h[s]
  BY <1>5, SumsUnique
<1> QED
  BY <1>3, <1>5, <1>6

\* A sum of integers is an integer, and it is the same for two functions that agree on the set.
LEMMA SumSame ==
    ASSUME NEW S, IsFiniteSet(S), NEW f, NEW e, \A x \in S : f[x] \in Int /\ f[x] = e[x]
    PROVE  SumFunctionOnSet(f, S) \in Int /\ SumFunctionOnSet(f, S) = SumFunctionOnSet(e, S)
<1>1. PICK g \in [SUBSET S -> Int] : /\ \A s \in SUBSET S : g[s] = AddsUp(f, g, s)
                                     /\ SumFunctionOnSet(f, S) = g[S]
  BY SumIs
<1>2. PICK h \in [SUBSET S -> Int] : /\ \A s \in SUBSET S : h[s] = AddsUp(e, h, s)
                                     /\ SumFunctionOnSet(e, S) = h[S]
  BY SumIs
<1>3. \A s \in SUBSET S : g[s] = h[s]
  BY <1>1, <1>2, SumsUnique
<1> QED
  BY <1>1, <1>2, <1>3

\* The order does not matter: any element may be taken first.
LEMMA AnyFirst ==
    ASSUME NEW S, IsFiniteSet(S), NEW f, \A x \in S : f[x] \in Int,
           NEW g, \A s \in SUBSET S : g[s] \in Int /\ g[s] = AddsUp(f, g, s), NEW first \in S
    PROVE  g[S] = f[first] + g[S \ {first}]
<1> DEFINE B == {s \in SUBSET S : \E x \in s : g[s] # f[x] + g[s \ {x}]}
<1>1. SUFFICES ASSUME B # {} PROVE FALSE
  OBVIOUS
<1>2. PICK T \in B : \A U \in B : U \subseteq T => U = T
  <2>1. B \in SUBSET SUBSET S
    OBVIOUS
  <2> HIDE DEF B
  <2> QED
    BY <1>1, <2>1, LeastSet
<1>3. T \in SUBSET S
  OBVIOUS
<1>4. PICK x \in T : g[T] # f[x] + g[T \ {x}]
  BY <1>2
<1>5. PICK y : y = CHOOSE z \in T : TRUE
  OBVIOUS
<1>6. y \in T /\ g[T] = f[y] + g[T \ {y}]
  BY <1>3, <1>4, <1>5 DEF AddsUp
<1>7. x # y
  BY <1>4, <1>6
<1>8. /\ T \ {y} \in SUBSET S /\ T \ {y} # T /\ x \in T \ {y}
      /\ T \ {x} \in SUBSET S /\ T \ {x} # T /\ y \in T \ {x}
  BY <1>3, <1>6, <1>7
<1>9. T \ {y} \notin B /\ T \ {x} \notin B
  BY <1>2, <1>8
<1>10. g[T \ {y}] = f[x] + g[(T \ {y}) \ {x}] /\ g[T \ {x}] = f[y] + g[(T \ {x}) \ {y}]
  BY <1>8, <1>9
<1>11. PICK R \in SUBSET S : R = (T \ {y}) \ {x} /\ R = (T \ {x}) \ {y}
  BY <1>3
<1>12. g[R] \in Int /\ f[x] \in Int /\ f[y] \in Int
  BY <1>3, <1>6
<1>13. g[T] = f[y] + (f[x] + g[R]) /\ g[T \ {x}] = f[y] + g[R]
  BY <1>6, <1>10, <1>11
<1> QED
  BY <1>4, <1>12, <1>13

\* The sum over nothing is zero.
LEMMA SumEmpty ==
    ASSUME NEW f
    PROVE  SumFunctionOnSet(f, {}) = 0
<1>1. IsFiniteSet({})
  BY FS_EmptySet
<1>2. PICK g \in [SUBSET {} -> Int] : /\ \A s \in SUBSET {} : g[s] = AddsUp(f, g, s)
                                      /\ SumFunctionOnSet(f, {}) = g[{}]
  BY <1>1, SumIs
<1> QED
  BY <1>2 DEF AddsUp

\* A sum is any one summand and the sum of the others.
LEMMA SumRemove ==
    ASSUME NEW S, IsFiniteSet(S), NEW f, \A x \in S : f[x] \in Int, NEW x \in S
    PROVE  SumFunctionOnSet(f, S) = f[x] + SumFunctionOnSet(f, S \ {x})
<1>1. PICK g \in [SUBSET S -> Int] : /\ \A s \in SUBSET S : g[s] = AddsUp(f, g, s)
                                     /\ SumFunctionOnSet(f, S) = g[S]
  BY SumIs
<1>2. PICK T \in SUBSET S : T = S \ {x}
  OBVIOUS
<1>3. IsFiniteSet(T)
  BY FS_Subset
<1>4. PICK h \in [SUBSET T -> Int] : /\ \A s \in SUBSET T : h[s] = AddsUp(f, h, s)
                                     /\ SumFunctionOnSet(f, T) = h[T]
  BY <1>3, SumIs
<1>5. \A s \in SUBSET T : s \in SUBSET S
  BY <1>2
<1>6. \A s \in SUBSET T : g[s] = AddsUp(f, g, s)
  BY <1>1, <1>5
<1>7. g[T] = h[T]
  BY <1>3, <1>4, <1>6, SumsUnique
<1>8. \A s \in SUBSET S : g[s] \in Int /\ g[s] = AddsUp(f, g, s)
  BY <1>1
<1>9. g[S] = f[x] + g[S \ {x}]
  BY <1>8, AnyFirst
<1> QED
  BY <1>1, <1>2, <1>4, <1>7, <1>9

\* One more summand.
LEMMA SumAdd ==
    ASSUME NEW S, IsFiniteSet(S), NEW f, NEW x, x \notin S, \A y \in S \cup {x} : f[y] \in Int
    PROVE  SumFunctionOnSet(f, S \cup {x}) = SumFunctionOnSet(f, S) + f[x]
<1>1. PICK T : T = S \cup {x}
  OBVIOUS
<1>2. IsFiniteSet(T) /\ T \ {x} = S /\ x \in T
  BY <1>1, FS_AddElement
<1>3. SumFunctionOnSet(f, T) = f[x] + SumFunctionOnSet(f, S)
  BY <1>1, <1>2, SumRemove
<1>4. SumFunctionOnSet(f, S) \in Int /\ f[x] \in Int
  BY SumSame
<1> QED
  BY <1>1, <1>3, <1>4

\* One summand changes: the sum changes by as much.
LEMMA SumChange ==
    ASSUME NEW S, IsFiniteSet(S), NEW f, NEW e, \A y \in S : f[y] \in Int /\ e[y] \in Int,
           NEW x \in S, \A y \in S : y # x => e[y] = f[y]
    PROVE  SumFunctionOnSet(e, S) = SumFunctionOnSet(f, S) + e[x] - f[x]
<1>1. PICK T : T = S \ {x}
  OBVIOUS
<1>2. IsFiniteSet(T)
  BY <1>1, FS_RemoveElement
<1>3. SumFunctionOnSet(f, T) \in Int /\ SumFunctionOnSet(f, T) = SumFunctionOnSet(e, T)
  BY <1>1, <1>2, SumSame
<1>4. /\ SumFunctionOnSet(f, S) = f[x] + SumFunctionOnSet(f, T)
      /\ SumFunctionOnSet(e, S) = e[x] + SumFunctionOnSet(e, T)
  BY <1>1, SumRemove
<1> QED
  BY <1>3, <1>4

\* As many equal summands as a part of the set has elements; the others are zero.
LEMMA SumOfPart ==
    ASSUME NEW S, IsFiniteSet(S), NEW T \in SUBSET S, NEW c \in Nat, NEW f,
           \A x \in S : f[x] = IF x \in T THEN c ELSE 0
    PROVE  SumFunctionOnSet(f, S) = c * Cardinality(T)
<1> DEFINE B == {s \in SUBSET S : SumFunctionOnSet(f, s) # c * Cardinality(s \cap T)}
<1>0. \A s \in SUBSET S : IsFiniteSet(s) /\ IsFiniteSet(s \cap T) /\ Cardinality(s \cap T) \in Nat
  BY FS_Subset, FS_Intersection, FS_CardinalityType
<1>1. SUFFICES ASSUME B # {} PROVE FALSE
  <2>1. S \notin B /\ S \cap T = T
    BY <1>1
  <2> QED
    BY <2>1
<1>2. PICK U \in B : \A V \in B : V \subseteq U => V = U
  <2>1. B \in SUBSET SUBSET S
    OBVIOUS
  <2> HIDE DEF B
  <2> QED
    BY <1>1, <2>1, LeastSet
<1>3. U \in SUBSET S /\ SumFunctionOnSet(f, U) # c * Cardinality(U \cap T)
  OBVIOUS
<1>4. U # {}
  <2>1. {} \cap T = {} /\ c * 0 = 0
    OBVIOUS
  <2> QED
    BY <1>3, <2>1, SumEmpty, FS_EmptySet
<1>5. PICK x \in U : TRUE
  BY <1>4
<1>6. PICK V : V = U \ {x}
  OBVIOUS
<1>7. V \in SUBSET S /\ V # U /\ V \subseteq U
  BY <1>3, <1>6
<1>8. SumFunctionOnSet(f, V) = c * Cardinality(V \cap T)
  BY <1>2, <1>7
<1>9. \A y \in U : f[y] \in Int
  BY <1>3
<1>10. SumFunctionOnSet(f, U) = f[x] + SumFunctionOnSet(f, V)
  BY <1>0, <1>3, <1>6, <1>9, SumRemove
<1>11. IsFiniteSet(U \cap T) /\ Cardinality(U \cap T) \in Nat /\ Cardinality(V \cap T) \in Nat
  BY <1>0, <1>3, <1>7
<1>12. CASE x \in T
  <2>1. V \cap T = (U \cap T) \ {x} /\ x \in U \cap T
    BY <1>6, <1>12
  <2>2. Cardinality(V \cap T) = Cardinality(U \cap T) - 1
    <3>1. PICK R : R = U \cap T
      OBVIOUS
    <3>2. IsFiniteSet(R) /\ x \in R /\ V \cap T = R \ {x}
      BY <1>11, <2>1, <3>1
    <3>3. Cardinality(R \ {x}) = Cardinality(R) - 1
      BY <3>2, FS_RemoveElement
    <3> QED
      BY <3>1, <3>2, <3>3
  <2>3. PICK n \in Nat : n = Cardinality(V \cap T)
    BY <1>11
  <2>4. Cardinality(U \cap T) = n + 1
    BY <1>11, <2>2, <2>3
  <2>5. c + c * n = c * (n + 1)
    OBVIOUS
  <2>6. f[x] = c
    BY <1>3, <1>12
  <2> QED
    BY <1>3, <1>8, <1>10, <2>3, <2>4, <2>5, <2>6
<1>13. CASE x \notin T
  <2>1. V \cap T = U \cap T /\ f[x] = 0
    BY <1>3, <1>6, <1>13
  <2>2. PICK n \in Nat : n = Cardinality(U \cap T)
    BY <1>11
  <2>3. 0 + c * n = c * n
    OBVIOUS
  <2> QED
    BY <1>3, <1>8, <1>10, <2>1, <2>2, <2>3
<1> QED
  BY <1>12, <1>13

\* What is added up over one element.
LEMMA SumOfOne ==
    ASSUME NEW f, NEW x, f[x] \in Int
    PROVE  SumFunctionOnSet(f, {x}) = f[x]
<1>1. {} \cup {x} = {x} /\ IsFiniteSet({})
  BY FS_EmptySet
<1>2. SumFunctionOnSet(f, {} \cup {x}) = SumFunctionOnSet(f, {}) + f[x]
  BY <1>1, SumAdd
<1> QED
  BY <1>1, <1>2, SumEmpty

\* What is added up over two elements.
LEMMA SumOfTwo ==
    ASSUME NEW f, NEW x, NEW y, f[x] \in Int, f[y] \in Int, x # y
    PROVE  SumFunctionOnSet(f, {x, y}) = f[x] + f[y]
<1>1. {x} \cup {y} = {x, y} /\ IsFiniteSet({x})
  BY FS_Singleton
<1>2. SumFunctionOnSet(f, {x} \cup {y}) = SumFunctionOnSet(f, {x}) + f[y]
  BY <1>1, SumAdd
<1> QED
  BY <1>1, <1>2, SumOfOne

\* Three elements make a finite set.
LEMMA TripleIsFinite ==
    ASSUME NEW x, NEW y, NEW z, NEW S, S = {x, y, z}
    PROVE  IsFiniteSet(S)
<1>1. PICK T : T = {x} \cup {y}
  OBVIOUS
<1>2. IsFiniteSet({x}) /\ S = T \cup {z}
  BY <1>1, FS_Singleton
<1>3. IsFiniteSet(T)
  BY <1>1, <1>2, FS_AddElement
<1> QED
  BY <1>2, <1>3, FS_AddElement
\* A sum is that of a part and that of the rest.
LEMMA SumOfParts ==
    ASSUME NEW S, IsFiniteSet(S), NEW f, \A x \in S : f[x] \in Int, NEW T \in SUBSET S
    PROVE  /\ SumFunctionOnSet(f, T) \in Int /\ SumFunctionOnSet(f, S \ T) \in Int
           /\ SumFunctionOnSet(f, S) = SumFunctionOnSet(f, T) + SumFunctionOnSet(f, S \ T)
<1> DEFINE B == {U \in SUBSET S : SumFunctionOnSet(f, S) # SumFunctionOnSet(f, U) + SumFunctionOnSet(f, S \ U)}
<1>0. \A U \in SUBSET S : IsFiniteSet(U) /\ SumFunctionOnSet(f, U) \in Int
  <2>1. ASSUME NEW U \in SUBSET S
        PROVE  IsFiniteSet(U) /\ SumFunctionOnSet(f, U) \in Int
    <3>1. IsFiniteSet(U) /\ \A x \in U : f[x] \in Int /\ f[x] = f[x]
      BY FS_Subset
    <3> QED
      BY <3>1, SumSame
  <2> QED
    BY <2>1
<1>1. SUFFICES ASSUME B # {} PROVE FALSE
  <2>1. S \ T \in SUBSET S
    OBVIOUS
  <2> QED
    BY <2>1, <1>0
<1>2. PICK U \in B : \A V \in B : V \subseteq U => V = U
  <2>1. B \in SUBSET SUBSET S
    OBVIOUS
  <2> HIDE DEF B
  <2> QED
    BY <1>1, <2>1, LeastSet
<1>3. U \in SUBSET S /\ SumFunctionOnSet(f, S) # SumFunctionOnSet(f, U) + SumFunctionOnSet(f, S \ U)
  OBVIOUS
<1>4. CASE U = {}
  <2>1. S \ {} = S /\ S \in SUBSET S
    OBVIOUS
  <2> QED
    BY <1>0, <1>3, <1>4, <2>1, SumEmpty
<1>5. CASE U # {}
  <2>1. PICK x : x \in U
    BY <1>5
  <2>2. U \ {x} \in SUBSET S /\ U \ {x} # U /\ U \ {x} \notin B
    BY <1>2, <1>3, <2>1
  <2>3. SumFunctionOnSet(f, S) = SumFunctionOnSet(f, U \ {x}) + SumFunctionOnSet(f, S \ (U \ {x}))
    BY <2>2
  <2>4. S \ (U \ {x}) = (S \ U) \cup {x} /\ x \notin S \ U /\ S \ U \in SUBSET S /\ x \in S
    BY <1>3, <2>1
  <2>5. SumFunctionOnSet(f, (S \ U) \cup {x}) = SumFunctionOnSet(f, S \ U) + f[x]
    <3>1. IsFiniteSet(S \ U) /\ \A y \in (S \ U) \cup {x} : f[y] \in Int
      BY <1>0, <2>4
    <3> QED
      BY <3>1, <2>4, SumAdd
  <2>6. SumFunctionOnSet(f, U) = f[x] + SumFunctionOnSet(f, U \ {x})
    <3>1. IsFiniteSet(U) /\ \A y \in U : f[y] \in Int
      BY <1>0, <1>3
    <3> QED
      BY <3>1, <2>1, SumRemove
  <2>7. /\ SumFunctionOnSet(f, U) \in Int /\ SumFunctionOnSet(f, U \ {x}) \in Int
        /\ SumFunctionOnSet(f, S \ U) \in Int /\ f[x] \in Int
    BY <1>0, <1>3, <2>2, <2>4
  <2>8. SumFunctionOnSet(f, S) = SumFunctionOnSet(f, U \ {x}) + (SumFunctionOnSet(f, S \ U) + f[x])
    BY <2>3, <2>4, <2>5, Zenon
  <2>9. \A a, b, c \in Int : a + (b + c) = (c + a) + b
    OBVIOUS
  <2> QED
    BY <1>3, <2>6, <2>7, <2>8, <2>9
<1> QED
  BY <1>4, <1>5

\* Natural numbers add up to one.
LEMMA SumNatural ==
    ASSUME NEW S, IsFiniteSet(S), NEW f, \A x \in S : f[x] \in Nat
    PROVE  SumFunctionOnSet(f, S) \in Nat
<1> DEFINE B == {U \in SUBSET S : SumFunctionOnSet(f, U) \notin Nat}
<1>1. SUFFICES ASSUME B # {} PROVE FALSE
  <2>1. S \in SUBSET S
    OBVIOUS
  <2> QED
    BY <2>1
<1>2. PICK U \in B : \A V \in B : V \subseteq U => V = U
  <2>1. B \in SUBSET SUBSET S
    OBVIOUS
  <2> HIDE DEF B
  <2> QED
    BY <1>1, <2>1, LeastSet
<1>3. U \in SUBSET S /\ SumFunctionOnSet(f, U) \notin Nat
  OBVIOUS
<1>4. U # {}
  BY <1>3, SumEmpty
<1>5. PICK x : x \in U
  BY <1>4
<1>6. SumFunctionOnSet(f, U \ {x}) \in Nat
  BY <1>2, <1>3, <1>5
<1>7. SumFunctionOnSet(f, U) = f[x] + SumFunctionOnSet(f, U \ {x})
  <2>1. IsFiniteSet(U) /\ \A y \in U : f[y] \in Int
    BY <1>3, FS_Subset
  <2> QED
    BY <2>1, <1>5, SumRemove
<1>8. f[x] \in Nat
  BY <1>3, <1>5
<1> QED
  BY <1>3, <1>6, <1>7, <1>8

\* A part of a sum of natural numbers is not larger than the whole.
LEMMA SumOfSubset ==
    ASSUME NEW S, IsFiniteSet(S), NEW f, \A x \in S : f[x] \in Nat, NEW T \in SUBSET S
    PROVE  SumFunctionOnSet(f, T) <= SumFunctionOnSet(f, S)
<1>1. /\ IsFiniteSet(T) /\ \A x \in T : f[x] \in Nat
      /\ IsFiniteSet(S \ T) /\ \A x \in S \ T : f[x] \in Nat
      /\ \A x \in S : f[x] \in Int
  BY FS_Subset
<1>2. SumFunctionOnSet(f, T) \in Nat /\ SumFunctionOnSet(f, S \ T) \in Nat
  BY <1>1, SumNatural
<1>3. SumFunctionOnSet(f, S) = SumFunctionOnSet(f, T) + SumFunctionOnSet(f, S \ T)
  BY <1>1, SumOfParts
<1> QED
  BY <1>2, <1>3
=============================================================================
