----------------------------- MODULE IndexProofs -----------------------------
(***************************************************************************)
(* Proofs about the index of transactions (TransactionsIndex), the two     *)
(* sums of creations that are looked up in it (CreationLimit, ThreeMonths) *)
(* and the searches of a blockchain (Search).                              *)
(*                                                                         *)
(* LookupsStayExact: findTransactions and countTransactions answer what    *)
(* the chain says.  IndexInv says that each bitmap holds the numbers that  *)
(* belong to it and each cell of the table of days the highest number of   *)
(* its day, also after an addition that failed half way.                   *)
(* CountedTwoMonths: the sum of three months counts the creations of the   *)
(* two months before.                                                      *)
(* TwiceTheLimit: creations not dated ahead never give a month more than   *)
(* twice the limit.  Each creation keeps a receipt: when it was created,   *)
(* and that those it looked back over and itself stay within the limit.    *)
(* Of those for one month the last creation and the last one it did not    *)
(* look back over cover all.                                               *)
(* SearchesStayExact: what the searches of a blockchain answer is what the *)
(* chain says, to the moment.  A loop over the page of a lookup takes, in  *)
(* the order of the filter, what the loop over the transactions the filter *)
(* describes takes, since an order of a set is determined by the set.      *)
(***************************************************************************)
EXTENDS ThreeMonths, Search, SumProofs

-----------------------------------------------------------------------------
(* Months and days of a date, rows and cells of the table of days.         *)

\* A product of natural numbers is one.
LEMMA ProductNat ==
    ASSUME NEW a \in Nat, NEW b \in Nat
    PROVE  a * b \in Nat
OBVIOUS

\* A product grows with its factor.
LEMMA ProductMonotone ==
    ASSUME NEW a \in Nat, NEW b \in Nat, NEW c \in Nat, a <= b
    PROVE  a * c <= b * c
<1>1. PICK e \in Nat : b = a + e
  <2>1. b - a \in Nat /\ b = a + (b - a)
    OBVIOUS
  <2> QED
    BY <2>1
<1>2. b * c = a * c + e * c
  BY <1>1
<1>3. e * c \in Nat /\ a * c \in Nat
  BY ProductNat
<1> QED
  BY <1>2, <1>3

\* A date is the month and the day it is put together from.
LEMMA DateParts ==
    ASSUME NEW d \in Nat
    PROVE  /\ Month(d) \in Nat /\ Day(d) \in 0..(DaysPerMonth - 1)
           /\ d = Month(d) * DaysPerMonth + Day(d)
           /\ Month(d) * DaysPerMonth \in Nat
BY SizesAssumption, ProductNat DEF Month, Day

\* A month and a day are those of the date they make.
LEMMA DateOfParts ==
    ASSUME NEW m \in Nat, NEW e \in 0..(DaysPerMonth - 1)
    PROVE  /\ m * DaysPerMonth + e \in Nat
           /\ Month(m * DaysPerMonth + e) = m /\ Day(m * DaysPerMonth + e) = e
<1>1. PICK d \in Nat : d = m * DaysPerMonth + e
  BY ProductNat, SizesAssumption
<1>2. PICK q \in Nat : q = Month(d)
  BY DateParts
<1>3. PICK r \in 0..(DaysPerMonth - 1) : r = Day(d)
  BY DateParts
<1>4. q * DaysPerMonth + r = m * DaysPerMonth + e
  BY <1>1, <1>2, <1>3, DateParts
<1>5. q = m
  <2>1. DaysPerMonth \in Nat \ {0} /\ q * DaysPerMonth \in Nat /\ m * DaysPerMonth \in Nat
    BY SizesAssumption, ProductNat
  <2>2. CASE q < m
    <3>1. (q + 1) * DaysPerMonth <= m * DaysPerMonth
      BY <2>2, <2>1, ProductMonotone
    <3>2. (q + 1) * DaysPerMonth = q * DaysPerMonth + DaysPerMonth
      BY <2>1
    <3> QED
      BY <3>1, <3>2, <1>4, <2>1
  <2>3. CASE m < q
    <3>1. (m + 1) * DaysPerMonth <= q * DaysPerMonth
      BY <2>3, <2>1, ProductMonotone
    <3>2. (m + 1) * DaysPerMonth = m * DaysPerMonth + DaysPerMonth
      BY <2>1
    <3> QED
      BY <3>1, <3>2, <1>4, <2>1
  <2> QED
    BY <2>2, <2>3
<1>6. r = e
  <2>1. q * DaysPerMonth = m * DaysPerMonth /\ m * DaysPerMonth \in Nat /\ DaysPerMonth \in Nat
    BY <1>5, SizesAssumption, ProductNat
  <2> QED
    BY <2>1, <1>4
<1> QED
  BY <1>1, <1>2, <1>3, <1>5, <1>6

\* A later date has no earlier month.
LEMMA MonthMonotone ==
    ASSUME NEW a \in Nat, NEW b \in Nat, a <= b
    PROVE  /\ Month(a) \in Nat /\ Month(b) \in Nat
           /\ Month(a) <= Month(b)
           /\ Month(a) * DaysPerMonth <= Month(b) * DaysPerMonth
<1>1. PICK p \in Nat : p = Month(a)
  BY DateParts
<1>2. PICK q \in Nat : q = Month(b)
  BY DateParts
<1>3. PICK r \in 0..(DaysPerMonth - 1) : r = Day(a) /\ a = p * DaysPerMonth + r
  BY DateParts, <1>1
<1>4. PICK s \in 0..(DaysPerMonth - 1) : s = Day(b) /\ b = q * DaysPerMonth + s
  BY DateParts, <1>2
<1>5. DaysPerMonth \in Nat \ {0} /\ q * DaysPerMonth \in Nat /\ p * DaysPerMonth \in Nat
  BY SizesAssumption, ProductNat
<1>6. p <= q
  <2>1. SUFFICES ASSUME q + 1 <= p PROVE FALSE
    OBVIOUS
  <2>2. (q + 1) * DaysPerMonth <= p * DaysPerMonth
    BY <2>1, <1>5, ProductMonotone
  <2>3. (q + 1) * DaysPerMonth = q * DaysPerMonth + DaysPerMonth
    BY <1>5
  <2> QED
    BY <2>2, <2>3, <1>3, <1>4, <1>5
<1> QED
  BY <1>1, <1>2, <1>5, <1>6, ProductMonotone

\* A table of whole rows has as many cells as its rows have days.
LEMMA RowsCount ==
    ASSUME NEW r \in Nat, NEW table, DOMAIN table = Rows(r)
    PROVE  Cardinality(DOMAIN table) \div DaysPerMonth = r
<1>1. PICK s \in Nat : s = r * DaysPerMonth
  BY ProductNat, SizesAssumption
<1>2. Cardinality(Rows(r)) = s
  <2>1. PICK e \in Int : e = s - 1
    OBVIOUS
  <2>2. Cardinality(0..e) = IF 0 > e THEN 0 ELSE e - 0 + 1
    BY FS_Interval
  <2>3. Rows(r) = 0..e
    BY <1>1, <2>1 DEF Rows
  <2> QED
    BY <2>1, <2>2, <2>3
<1>3. 0 \in 0..(DaysPerMonth - 1)
  BY SizesAssumption
<1>4. Month(r * DaysPerMonth + 0) = r
  BY <1>3, DateOfParts
<1>5. Month(s) = r
  BY <1>1, <1>4
<1> QED
  BY <1>2, <1>5 DEF Month

-----------------------------------------------------------------------------
(* The ranks of the members of a finite set of numbers, and what Select    *)
(* and Ordered make of them.                                               *)

Rank(S, x) == Cardinality({y \in S : y < x})

\* The rank of a number is below the size of the set, and grows with the number.
LEMMA RankBounds ==
    ASSUME NEW S \in SUBSET Nat, IsFiniteSet(S)
    PROVE  /\ Cardinality(S) \in Nat
           /\ \A x \in Nat : Rank(S, x) \in Nat /\ Rank(S, x) <= Cardinality(S)
           /\ \A x \in S : Rank(S, x) \in 0..(Cardinality(S) - 1)
           /\ \A x \in S, z \in Nat : x < z => Rank(S, x) < Rank(S, z)
<1>0. \A T \in SUBSET S : IsFiniteSet(T) /\ Cardinality(T) \in Nat /\ Cardinality(T) <= Cardinality(S)
  BY FS_Subset, FS_CardinalityType
<1>1. \A x \in Nat : {y \in S : y < x} \in SUBSET S
  OBVIOUS
<1>2. ASSUME NEW x \in S, NEW z \in Nat, x < z
      PROVE  Rank(S, x) < Rank(S, z)
  <2>1. PICK A : A = {y \in S : y < x}
    OBVIOUS
  <2>2. PICK B : B = {y \in S : y < z}
    OBVIOUS
  <2>3. A \in SUBSET B /\ x \in B /\ x \notin A /\ A \in SUBSET S /\ B \in SUBSET S
    <3>1. \A y \in S : y \in Nat /\ (y < x => y < z) /\ ~(x < x)
      BY <1>2
    <3> QED
      BY <2>1, <2>2, <1>2, <3>1
  <2>4. Cardinality(A) <= Cardinality(B) /\ Cardinality(A) # Cardinality(B)
    BY <2>3, <1>0, FS_Subset
  <2>5. Cardinality(A) \in Nat /\ Cardinality(B) \in Nat
    BY <2>3, <1>0
  <2> QED
    BY <2>1, <2>2, <2>4, <2>5 DEF Rank
<1>3. ASSUME NEW x \in S
      PROVE  Rank(S, x) \in 0..(Cardinality(S) - 1)
  <2>1. PICK A : A = {y \in S : y < x}
    OBVIOUS
  <2>2. A \in SUBSET S /\ x \notin A
    BY <2>1
  <2>3. Cardinality(A) # Cardinality(S)
    BY <2>2, FS_Subset
  <2>4. Cardinality(A) \in Nat /\ Cardinality(S) \in Nat /\ Cardinality(A) <= Cardinality(S)
    BY <2>2, <1>0
  <2> QED
    BY <2>1, <2>3, <2>4 DEF Rank
<1>4. ASSUME NEW x \in Nat
      PROVE  Rank(S, x) \in Nat /\ Rank(S, x) <= Cardinality(S)
  BY <1>0, <1>1 DEF Rank
<1> QED
  BY <1>0, <1>2, <1>3, <1>4

\* Every rank below the size of a set is the rank of one of its members.
LEMMA EveryRank ==
    ASSUME NEW S \in SUBSET Nat, IsFiniteSet(S), NEW k \in 0..(Cardinality(S) - 1)
    PROVE  \E x \in S : Rank(S, x) = k
<1>1. PICK n \in Nat : n = Cardinality(S)
  BY FS_CardinalityType
<1>2. PICK T : T = 0..(n - 1)
  OBVIOUS
<1>3. IsFiniteSet(T) /\ Cardinality(T) = n
  <2>1. PICK e \in Int : e = n - 1
    OBVIOUS
  <2>2. IsFiniteSet(0..e) /\ Cardinality(0..e) = IF 0 > e THEN 0 ELSE e - 0 + 1
    BY FS_Interval
  <2> QED
    BY <2>1, <2>2, <1>2
<1>4. PICK r : r = [x \in S |-> Rank(S, x)]
  OBVIOUS
<1>5. r \in [S -> T] /\ \A x, z \in S : r[x] = r[z] => x = z
  <2>1. \A x \in S : Rank(S, x) \in T
    BY <1>1, <1>2, RankBounds
  <2>2. ASSUME NEW x \in S, NEW z \in S, Rank(S, x) = Rank(S, z)
        PROVE  x = z
    <3>1. \A a, b \in S : Rank(S, a) \in Nat /\ (a < b => Rank(S, a) < Rank(S, b))
      <4>1. \A a \in S : a \in Nat
        OBVIOUS
      <4> QED
        BY <4>1, RankBounds
    <3>2. x \in Nat /\ z \in Nat
      OBVIOUS
    <3>3. ~(x < z) /\ ~(z < x)
      <4>1. \A n1 \in Nat : ~(n1 < n1)
        OBVIOUS
      <4> QED
        BY <3>1, <2>2, <4>1
    <3> QED
      BY <3>2, <3>3
  <2> QED
    BY <1>4, <2>1, <2>2
<1>6. r \in Injection(S, T)
  BY <1>5 DEF Injection, IsInjective
<1>7. r \in Surjection(S, T)
  BY <1>6, <1>3, <1>1, FS_Injection
<1>8. \A t \in T : \E x \in S : r[x] = t
  BY <1>7 DEF Surjection
<1> QED
  BY <1>1, <1>2, <1>4, <1>8

\* Select finds the member of a rank, and members are ordered as their ranks.
LEMMA Selected ==
    ASSUME NEW S \in SUBSET Nat, IsFiniteSet(S)
    PROVE  /\ \A k \in 0..(Cardinality(S) - 1) : Select(S, k) \in S /\ Rank(S, Select(S, k)) = k
           /\ \A x \in S : Select(S, Rank(S, x)) = x
           /\ \A i, j \in 0..(Cardinality(S) - 1) : i < j => Select(S, i) < Select(S, j)
<1>1. \A k \in 0..(Cardinality(S) - 1) : Select(S, k) \in S /\ Rank(S, Select(S, k)) = k
  <2>1. TAKE k \in 0..(Cardinality(S) - 1)
  <2>2. \E x \in S : Cardinality({y \in S : y < x}) = k
    BY EveryRank DEF Rank
  <2> QED
    BY <2>2 DEF Select, Rank
<1>2. \A x, z \in S : Rank(S, x) = Rank(S, z) => x = z
  <2>1. SUFFICES ASSUME NEW x \in S, NEW z \in S, Rank(S, x) = Rank(S, z), x # z
                 PROVE  FALSE
    OBVIOUS
  <2>2. x \in Nat /\ z \in Nat
    OBVIOUS
  <2>3. x < z \/ z < x
    BY <2>1, <2>2
  <2>4. Rank(S, x) \in Nat /\ Rank(S, z) \in Nat
        /\ (x < z => Rank(S, x) < Rank(S, z)) /\ (z < x => Rank(S, z) < Rank(S, x))
    BY <2>2, RankBounds
  <2> QED
    BY <2>1, <2>3, <2>4
<1>3. \A x \in S : Rank(S, x) \in 0..(Cardinality(S) - 1)
  BY RankBounds
<1>4. \A x \in S : Select(S, Rank(S, x)) = x
  BY <1>1, <1>2, <1>3
<1>5. ASSUME NEW i \in 0..(Cardinality(S) - 1), NEW j \in 0..(Cardinality(S) - 1), i < j
      PROVE  Select(S, i) < Select(S, j)
  <2>1. PICK x \in S : x = Select(S, i) /\ Rank(S, x) = i
    BY <1>1
  <2>2. PICK z \in S : z = Select(S, j) /\ Rank(S, z) = j
    BY <1>1
  <2>3. x \in Nat /\ z \in Nat
    OBVIOUS
  <2>4. z < x => j < i
    BY <2>1, <2>2, <2>3, RankBounds
  <2>5. z # x
    BY <2>1, <2>2, <1>5
  <2>6. i \in Int /\ j \in Int
    BY FS_CardinalityType
  <2> QED
    BY <2>1, <2>2, <2>3, <2>4, <2>5, <2>6, <1>5
<1> QED
  BY <1>1, <1>4, <1>5

\* The ends of a set are its members of the first and the last rank.
LEMMA SelectedEnds ==
    ASSUME NEW S \in SUBSET Nat, IsFiniteSet(S), S # {}
    PROVE  /\ Cardinality(S) \in Nat \ {0}
           /\ Min(S) = Select(S, 0) /\ Max(S) = Select(S, Cardinality(S) - 1)
           /\ Min(S) \in S /\ Max(S) \in S /\ \A x \in S : Min(S) <= x /\ x <= Max(S)
<1>1. Cardinality(S) \in Nat \ {0}
  BY FS_CardinalityType, FS_EmptySet
<1>2. PICK n \in Nat : n = Cardinality(S) - 1
  BY <1>1
<1>3. PICK a \in S : a = Select(S, 0) /\ Rank(S, a) = 0
  <2>1. 0 \in 0..(Cardinality(S) - 1)
    BY <1>1
  <2> QED
    BY <2>1, Selected
<1>4. PICK b \in S : b = Select(S, n) /\ Rank(S, b) = n
  <2>1. n \in 0..(Cardinality(S) - 1)
    BY <1>1, <1>2
  <2> QED
    BY <2>1, Selected
<1>5. \A x \in S : x \in Nat /\ Rank(S, x) \in 0..n
  BY <1>2, RankBounds
<1>6. \A x \in S : a <= x
  <2>1. SUFFICES ASSUME NEW x \in S, x < a PROVE FALSE
    BY <1>5
  <2>2. Rank(S, x) < Rank(S, a)
    BY <2>1, <1>5, RankBounds
  <2> QED
    BY <2>2, <1>3, <1>5
<1>7. \A x \in S : x <= b
  <2>1. SUFFICES ASSUME NEW x \in S, b < x PROVE FALSE
    BY <1>5
  <2>2. Rank(S, b) < Rank(S, x)
    BY <2>1, <1>5, RankBounds
  <2> QED
    BY <2>2, <1>4, <1>5
<1>8. Min(S) \in S /\ \A y \in S : Min(S) <= y
  BY <1>6, Zenon DEF Min
<1>9. Max(S) \in S /\ \A y \in S : Max(S) >= y
  <2>1. \A x \in S : b >= x
    BY <1>7, <1>5
  <2> QED
    BY <2>1, Zenon DEF Max
<1>10. Min(S) = a /\ Max(S) = b
  <2>1. \A x, y \in Nat : (x <= y /\ y <= x => x = y) /\ (x >= y => y <= x)
    OBVIOUS
  <2>2. a \in Nat /\ b \in Nat /\ Min(S) \in Nat /\ Max(S) \in Nat
    BY <1>5, <1>8, <1>9
  <2>3. a <= Min(S) /\ Min(S) <= a /\ Max(S) <= b /\ b <= Max(S)
    BY <1>6, <1>7, <1>8, <1>9, <2>1, <2>2
  <2> QED
    BY <2>1, <2>2, <2>3
<1> QED
  BY <1>1, <1>2, <1>3, <1>4, <1>6, <1>7, <1>10

\* What is cut out of a set between two of its members keeps their order.
LEMMA SelectedPart ==
    ASSUME NEW S \in SUBSET Nat, IsFiniteSet(S),
           NEW i \in 0..(Cardinality(S) - 1), NEW j \in 0..(Cardinality(S) - 1), i <= j,
           NEW T, T = {x \in S : Select(S, i) <= x /\ x <= Select(S, j)}
    PROVE  /\ T \in SUBSET Nat /\ IsFiniteSet(T) /\ Cardinality(T) = j - i + 1
           /\ \A k \in 0..(j - i) : Select(T, k) = Select(S, i + k)
<1>0. Cardinality(S) \in Nat /\ i \in Nat /\ j \in Nat
  BY FS_CardinalityType
<1>1. PICK a \in S : a = Select(S, i) /\ Rank(S, a) = i
  BY Selected
<1>2. PICK b \in S : b = Select(S, j) /\ Rank(S, b) = j
  BY Selected
<1>3. T \in SUBSET S /\ T \in SUBSET Nat /\ IsFiniteSet(T)
  BY FS_Subset
<1>4. a <= b
  BY <1>1, <1>2, <1>0, Selected
<1>5. ASSUME NEW x \in Nat, a <= x, x <= b + 1
      PROVE  Rank(T, x) = Rank(S, x) - i
  <2>1. PICK A : A = {y \in S : y < x}
    OBVIOUS
  <2>2. PICK B : B = {y \in S : y < a}
    OBVIOUS
  <2>3. A \cap B = B /\ A \ B = {y \in T : y < x} /\ A \in SUBSET S
    <3>1. a \in Nat /\ b \in Nat /\ \A y \in S : y \in Nat
      OBVIOUS
    <3>2. \A y \in S : /\ y < a => y < x /\ ~(a <= y)
                       /\ ~(y < a) => a <= y
                       /\ y < x => y <= b
      BY <3>1, <1>5
    <3>3. T = {y \in S : a <= y /\ y <= b}
      BY <1>1, <1>2
    <3>4. \A y : y \in A \ B <=> y \in S /\ y < x /\ a <= y
      BY <2>1, <2>2, <3>2
    <3>5. \A y : (y \in T /\ y < x) <=> y \in S /\ y < x /\ a <= y
      BY <3>2, <3>3
    <3>6. A \cap B = B /\ A \in SUBSET S
      BY <2>1, <2>2, <3>2
    <3> QED
      BY <3>4, <3>5, <3>6
  <2>4. IsFiniteSet(A)
    BY <2>3, FS_Subset
  <2>5. Cardinality(A \ B) = Cardinality(A) - Cardinality(B)
    BY <2>3, <2>4, FS_Difference
  <2> QED
    BY <2>1, <2>2, <2>3, <2>5, <1>1 DEF Rank
<1>6. Rank(S, b + 1) = j + 1
  <2>1. PICK A : A = {y \in S : y < b}
    OBVIOUS
  <2>2. {y \in S : y < b + 1} = A \cup {b} /\ b \notin A /\ A \in SUBSET S
    <3>1. ~(b < b) /\ \A y \in S : y < b + 1 <=> y < b \/ y = b
      OBVIOUS
    <3> QED
      BY <2>1, <3>1
  <2>3. IsFiniteSet(A)
    BY <2>2, FS_Subset
  <2>4. Cardinality(A \cup {b}) = Cardinality(A) + 1
    BY <2>2, <2>3, FS_AddElement
  <2> QED
    BY <2>1, <2>2, <2>4, <1>2 DEF Rank
<1>7. Rank(T, b + 1) = Cardinality(T)
  <2>1. {y \in T : y < b + 1} = T
    BY <1>2, <1>3
  <2> QED
    BY <2>1 DEF Rank
<1>8. Cardinality(T) = j - i + 1
  <2>1. b + 1 \in Nat /\ a <= b + 1 /\ b + 1 <= b + 1
    BY <1>4
  <2>2. Rank(T, b + 1) = Rank(S, b + 1) - i
    BY <2>1, <1>5
  <2> QED
    BY <2>2, <1>6, <1>7, <1>0
<1>9. ASSUME NEW k \in 0..(j - i)
      PROVE  Select(T, k) = Select(S, i + k)
  <2>1. i + k \in 0..(Cardinality(S) - 1) /\ i <= i + k /\ i + k <= j /\ k \in Nat
    BY <1>0
  <2>2. PICK x \in S : x = Select(S, i + k) /\ Rank(S, x) = i + k
    BY <2>1, Selected
  <2>3. a <= x /\ x <= b
    BY <2>1, <2>2, <1>1, <1>2, <1>0, Selected
  <2>4. x \in T /\ x <= b + 1 /\ x \in Nat
    BY <2>3, <1>1, <1>2
  <2>5. Rank(T, x) = k
    BY <2>4, <2>3, <2>2, <1>5, <1>0, <2>1
  <2> QED
    BY <2>4, <2>5, <2>2, <1>3, Selected
<1> QED
  BY <1>3, <1>8, <1>9

-----------------------------------------------------------------------------
(* Pages. *)

\* The page of a set, as Page has it of the transactions a filter describes.
PageOfAll(f, S) ==
    LET all  == Ordered(S, f.direction)
        skip == (IF f.page = 0 THEN 0 ELSE f.page - 1) * f.size
    IN  IF f.size = 0 THEN all
        ELSE SubSeq(all, skip + 1, IF skip + f.size < Len(all) THEN skip + f.size ELSE Len(all))

\* A part of a sequence, element by element.
LEMMA PartOfSequence ==
    ASSUME NEW X, NEW s \in Seq(X), NEW m \in Nat, NEW e \in Nat
    PROVE  SubSeq(s, m, e) = [i \in 1..(1 + e - m) |-> s[i + m - 1]]
OBVIOUS

\* The k numbers of a page are those with the ranks from a to b.
PageRanks(f, S, n, skip, k, a, b) ==
    /\ f.size # 0
    /\ n = Cardinality(S) /\ skip = SkipEntriesCount(f) /\ skip < n
    /\ k = IF skip + f.size < n THEN f.size ELSE n - skip
    /\ a = IF f.direction = "asc" THEN skip ELSE n - skip - k
    /\ b = a + k - 1

\* The ends of a page that the code selects are those of the page cut out of the whole order.
LEMMA PageByRank ==
    ASSUME NEW S \in SUBSET Nat, IsFiniteSet(S), NEW f \in Filter,
           NEW n \in Nat, NEW skip \in Nat, NEW k \in Nat, NEW a \in Nat, NEW b \in Nat,
           PageRanks(f, S, n, skip, k, a, b)
    PROVE  /\ k >= 1 /\ a <= b /\ b <= n - 1
           /\ PageBounds(f, S) = <<Select(S, a), Select(S, b)>>
           /\ PageOfAll(f, S) = [i \in 1..k |-> Select(S, IF f.direction = "asc" THEN a + i - 1 ELSE b + 1 - i)]
<1> USE DEF PageRanks
<1>0. f.size \in Nat /\ f.page \in Nat /\ f.direction \in {"asc", "desc"}
  BY DEF Filter
<1>1. k >= 1 /\ a <= b /\ b <= n - 1 /\ skip + k <= n
  BY <1>0
<1>2. S # {}
  BY FS_EmptySet
<1>3. Min(S) = Select(S, 0) /\ Max(S) = Select(S, n - 1)
  BY <1>2, SelectedEnds
<1>4. PageBounds(f, S) = <<Select(S, a), Select(S, b)>>
  <2>1. CASE f.direction = "asc"
    <3>1. PageBounds(f, S) = <<Select(S, skip),
                               IF skip + f.size - 1 < n THEN Select(S, skip + f.size - 1) ELSE Select(S, n - 1)>>
      BY <2>1, <1>3 DEF PageBounds
    <3>2. a = skip
      BY <2>1
    <3>3. CASE skip + f.size - 1 < n
      <4>1. b = skip + f.size - 1
        BY <3>2, <3>3, <1>0
      <4> QED
        BY <3>1, <3>2, <3>3, <4>1
    <3>4. CASE ~(skip + f.size - 1 < n)
      <4>1. b = n - 1
        BY <3>2, <3>4, <1>0
      <4> QED
        BY <3>1, <3>2, <3>4, <4>1
    <3> QED
      BY <3>3, <3>4
  <2>2. CASE f.direction = "desc"
    <3>1. PageBounds(f, S) = <<IF n <= skip + f.size THEN Select(S, 0) ELSE Select(S, n - skip - f.size),
                               Select(S, n - skip - 1)>>
      BY <2>2, <1>3 DEF PageBounds
    <3>2. a = n - skip - k
      BY <2>2
    <3>5. b = n - skip - 1
      BY <3>2
    <3>3. CASE n <= skip + f.size
      <4>1. a = 0
        BY <3>2, <3>3, <1>0
      <4> QED
        BY <3>1, <3>5, <3>3, <4>1
    <3>4. CASE ~(n <= skip + f.size)
      <4>2. k = f.size
        BY <3>4, <1>0
      <4>1. a = n - skip - f.size
        BY <3>2, <4>2
      <4> QED
        BY <3>1, <3>5, <3>4, <4>1
    <3> QED
      BY <3>3, <3>4
  <2> QED
    BY <1>0, <2>1, <2>2
<1>5. PageOfAll(f, S) = [i \in 1..k |-> Select(S, IF f.direction = "asc" THEN a + i - 1 ELSE b + 1 - i)]
  <2>1. PICK all : all = Ordered(S, f.direction)
    OBVIOUS
  <2>2. all = [i \in 1..n |-> Select(S, IF f.direction = "asc" THEN i - 1 ELSE n - i)]
    BY <2>1 DEF Ordered
  <2>3. Len(all) = n
    BY <2>2
  <2>4. skip = (IF f.page = 0 THEN 0 ELSE f.page - 1) * f.size
    BY <1>0 DEF SkipEntriesCount
  <2>5. PageOfAll(f, S) = SubSeq(all, skip + 1, IF skip + f.size < Len(all) THEN skip + f.size ELSE Len(all))
    BY <2>1, <2>4 DEF PageOfAll
  <2>6. (IF skip + f.size < Len(all) THEN skip + f.size ELSE Len(all)) = skip + k
    BY <2>3, <1>0
  <2>7. PageOfAll(f, S) = SubSeq(all, skip + 1, skip + k)
    BY <2>5, <2>6
  <2>8. SubSeq(all, skip + 1, skip + k) = [i \in 1..k |-> all[skip + i]]
    <3>0. PICK X : X = {all[i] : i \in 1..n}
      OBVIOUS
    <3>1. all \in [1..n -> X]
      BY <2>2, <3>0
    <3>4. all \in Seq(X)
      BY ONLY <3>1, n \in Nat
    <3>2. SubSeq(all, skip + 1, skip + k) = [i \in 1..(1 + (skip + k) - (skip + 1)) |-> all[i + (skip + 1) - 1]]
      <4>1. skip + 1 \in Nat /\ skip + k \in Nat
        OBVIOUS
      <4> QED
        BY ONLY <3>4, <4>1, PartOfSequence
    <3>3. 1 + (skip + k) - (skip + 1) = k /\ \A i \in 1..k : i + (skip + 1) - 1 = skip + i
      OBVIOUS
    <3> QED
      BY <3>2, <3>3
  <2>9. ASSUME NEW i \in 1..k
        PROVE  all[skip + i] = Select(S, IF f.direction = "asc" THEN a + i - 1 ELSE b + 1 - i)
    <3>1. skip + i \in 1..n
      BY <1>1
    <3>2. all[skip + i] = Select(S, IF f.direction = "asc" THEN skip + i - 1 ELSE n - (skip + i))
      BY <2>2, <3>1
    <3>3. CASE f.direction = "asc"
      <4>1. a + i - 1 = skip + i - 1
        BY <3>3
      <4> QED
        BY <3>2, <3>3, <4>1
    <3>4. CASE f.direction # "asc"
      <4>1. b + 1 - i = n - (skip + i)
        BY <3>4
      <4> QED
        BY <3>2, <3>4, <4>1
    <3> QED
      BY <3>3, <3>4
  <2>10. [i \in 1..k |-> all[skip + i]]
         = [i \in 1..k |-> Select(S, IF f.direction = "asc" THEN a + i - 1 ELSE b + 1 - i)]
    BY ONLY <2>9, SMTT(30)
  <2> QED
    BY ONLY <2>7, <2>8, <2>10
<1> QED
  BY <1>1, <1>4, <1>5

\* findTransactions' way to a page gives the page, one transaction left for a page
\* of two aside.
LEMMA PageExact ==
    ASSUME NEW S \in SUBSET Nat, IsFiniteSet(S), NEW f \in Filter,
           f.size # 2 \/ f.page <= 1 \/ Cardinality(S) # 2 * f.page - 1
    PROVE  PageOf(f, S) = PageOfAll(f, S)
<1>0. f.size \in Nat /\ f.page \in Nat /\ f.direction \in {"asc", "desc"}
  BY DEF Filter
<1>1. PICK n \in Nat : n = Cardinality(S)
  BY FS_CardinalityType
<1>2. PICK skip \in Nat : skip = SkipEntriesCount(f)
  <2>1. f.page # 0 => f.page - 1 \in Nat
    BY <1>0
  <2> QED
    BY <1>0, <2>1, ProductNat DEF SkipEntriesCount
<1>3. skip = (IF f.page = 0 THEN 0 ELSE f.page - 1) * f.size
  BY <1>0, <1>2 DEF SkipEntriesCount
<1>4. S = {} <=> n = 0
  BY <1>1, FS_EmptySet
<1>5. CASE f.size = 0
  <2>1. skip = 0
    BY <1>5, <1>0, <1>3
  <2>2. PageOfAll(f, S) = Ordered(S, f.direction)
    BY <1>5 DEF PageOfAll
  <2>3. n = 0 => Ordered(S, f.direction) = <<>>
    BY <1>1 DEF Ordered
  <2>4. S = {} \/ Cardinality(S) <= SkipEntriesCount(f) <=> n = 0
    BY <2>1, <1>4, <1>2, <1>1
  <2> QED
    BY <2>2, <2>3, <2>4, <1>5 DEF PageOf
<1>6. CASE f.size # 0 /\ n <= skip
  <2>1. PageOf(f, S) = <<>>
    BY <1>6, <1>1, <1>2 DEF PageOf
  <2>2. PICK all : all = Ordered(S, f.direction)
    OBVIOUS
  <2>3. all = [i \in 1..n |-> Select(S, IF f.direction = "asc" THEN i - 1 ELSE n - i)] /\ Len(all) = n
    BY <2>2, <1>1 DEF Ordered
  <2>4. PageOfAll(f, S) = SubSeq(all, skip + 1, IF skip + f.size < Len(all) THEN skip + f.size ELSE Len(all))
    BY <2>2, <1>3, <1>6 DEF PageOfAll
  <2>5. PageOfAll(f, S) = SubSeq(all, skip + 1, n)
    BY <2>3, <2>4, <1>0, <1>6
  <2>6. SubSeq(all, skip + 1, n) = <<>>
    BY <1>6, <2>3
  <2> QED
    BY <2>1, <2>5, <2>6
<1>7. CASE f.size # 0 /\ skip < n
  <2>0. f.size # 0 /\ skip < n /\ n - skip \in Nat
    BY <1>7
  <2>1. PICK k \in Nat : k = IF skip + f.size < n THEN f.size ELSE n - skip
    <3>1. (IF skip + f.size < n THEN f.size ELSE n - skip) \in Nat
      BY <1>0, <2>0
    <3> QED
      BY <3>1
  <2>2. PICK a \in Nat : a = IF f.direction = "asc" THEN skip ELSE n - skip - k
    BY <1>0, <1>7, <2>1
  <2>3. PICK b \in Nat : b = a + k - 1
    BY <1>0, <1>7, <2>1, <2>2
  <2>4. /\ k >= 1 /\ a <= b /\ b <= n - 1
        /\ PageBounds(f, S) = <<Select(S, a), Select(S, b)>>
        /\ PageOfAll(f, S) = [i \in 1..k |-> Select(S, IF f.direction = "asc" THEN a + i - 1 ELSE b + 1 - i)]
    <3>1. PageRanks(f, S, n, skip, k, a, b)
      BY <1>1, <1>2, <2>0, <2>1, <2>2, <2>3 DEF PageRanks
    <3> QED
      BY <3>1, PageByRank
  <2>5. PICK ends : ends = <<Select(S, a), Select(S, b)>>
    OBVIOUS
  <2>6. PageOf(f, S) = CutOut(f, S, ends)
    BY <1>1, <1>2, <1>4, <1>7, <2>4, <2>5 DEF PageOf
  <2>7. PICK up \in BOOLEAN : up = (f.direction = "asc")
    OBVIOUS
  <2>8. CASE f.size = 1 \/ n = 1
    <3>1. k = 1 /\ a = b
      BY <1>0, <1>7, <2>1, <2>2, <2>3, <2>8
    <3>2. CutOut(f, S, ends) = <<IF f.direction = "asc" THEN ends[1] ELSE ends[2]>>
      BY <2>8, <1>1 DEF CutOut
    <3>3. CutOut(f, S, ends) = <<Select(S, a)>>
      BY <3>1, <3>2, <2>5
    <3>4. \A i \in 1..k : (IF f.direction = "asc" THEN a + i - 1 ELSE b + 1 - i) = a
      BY <3>1
    <3>5. PageOfAll(f, S) = [i \in 1..k |-> Select(S, a)]
      BY <2>4, <3>4
    <3>6. PageOfAll(f, S) = <<Select(S, a)>>
      BY <3>1, <3>5
    <3> QED
      BY <3>3, <3>6, <2>6
  <2>9. CASE ~(f.size = 1 \/ n = 1) /\ (f.size = 2 \/ n = 2)
    <3>1. k = 2
      <4>1. CASE f.size = 2
        <5>1. n # skip + 1
          <6>1. CASE f.page <= 1
            <7>1. skip = 0
              BY <6>1, <1>0, <1>3, <4>1
            <7> QED
              BY <7>1, <2>9
          <6>2. CASE ~(f.page <= 1)
            <7>1. skip = 2 * f.page - 2
              BY <6>2, <1>0, <1>3, <4>1
            <7> QED
              BY <7>1, <6>2, <4>1, <1>0, <1>1
          <6> QED
            BY <6>1, <6>2
        <5> QED
          BY <5>1, <4>1, <2>1, <1>7
      <4>2. CASE f.size # 2
        <5>1. n = 2 /\ f.size >= 3
          BY <4>2, <2>9, <1>0, <1>7
        <5>2. skip = 0
          <6>1. SUFFICES ASSUME f.page >= 2 PROVE FALSE
            BY <1>0, <1>3
          <6>2. PICK q \in Nat : q = f.page - 1 /\ 1 <= q
            BY <6>1, <1>0
          <6>3. 1 * f.size <= q * f.size
            BY <6>2, <1>0, ProductMonotone
          <6>4. skip = q * f.size
            BY <6>1, <6>2, <1>3, <1>0
          <6> QED
            BY <6>3, <6>4, <5>1, <1>7, <1>0
        <5> QED
          BY <5>1, <5>2, <2>1, <1>0
      <4> QED
        BY <4>1, <4>2
    <3>2. b = a + 1
      BY <3>1, <2>3
    <3>3. CutOut(f, S, ends) = IF f.direction = "asc" THEN ends ELSE <<ends[2], ends[1]>>
      BY <2>9, <1>1 DEF CutOut
    <3>4. CASE f.direction = "asc"
      <4>1. CutOut(f, S, ends) = <<Select(S, a), Select(S, b)>>
        BY <3>3, <3>4, <2>5
      <4>2. PageOfAll(f, S) = [i \in 1..2 |-> Select(S, a + i - 1)]
        BY <2>4, <3>1, <3>4
      <4>3. a + 1 - 1 = a /\ a + 2 - 1 = b
        BY <3>2
      <4>4. PageOfAll(f, S) = <<Select(S, a + 1 - 1), Select(S, a + 2 - 1)>>
        BY <4>2
      <4> QED
        BY <4>1, <4>3, <4>4, <2>6
    <3>5. CASE f.direction # "asc"
      <4>1. CutOut(f, S, ends) = <<Select(S, b), Select(S, a)>>
        BY <3>3, <3>5, <2>5
      <4>2. PageOfAll(f, S) = [i \in 1..2 |-> Select(S, b + 1 - i)]
        BY <2>4, <3>1, <3>5
      <4>3. b + 1 - 1 = b /\ b + 1 - 2 = a
        BY <3>2
      <4>4. PageOfAll(f, S) = <<Select(S, b + 1 - 1), Select(S, b + 1 - 2)>>
        BY <4>2
      <4> QED
        BY <4>1, <4>3, <4>4, <2>6
    <3> QED
      BY <3>4, <3>5
  <2>10. CASE ~(f.size = 1 \/ n = 1) /\ ~(f.size = 2 \/ n = 2)
    <3>1. PICK T : T = {x \in S : Select(S, a) <= x /\ x <= Select(S, b)}
      OBVIOUS
    <3>2. a \in 0..(n - 1) /\ b \in 0..(n - 1) /\ a <= b
      BY <2>4
    <3>3. /\ Cardinality(T) = b - a + 1
          /\ \A i \in 0..(b - a) : Select(T, i) = Select(S, a + i)
      <4>1. a \in 0..(Cardinality(S) - 1) /\ b \in 0..(Cardinality(S) - 1)
        BY <3>2, <1>1
      <4> QED
        BY ONLY <4>1, <3>1, <3>2, S \in SUBSET Nat, IsFiniteSet(S), SelectedPart, SMTT(30)
    <3>4. Cardinality(T) = k /\ b - a = k - 1
      BY <3>3, <2>3, SMTT(30)
    <3>5. CutOut(f, S, ends) = Ordered(T, f.direction)
      <4>1. CutOut(f, S, ends) = Ordered({x \in S : ends[1] <= x /\ x <= ends[2]}, f.direction)
        BY <2>10, <1>1 DEF CutOut
      <4>2. {x \in S : ends[1] <= x /\ x <= ends[2]} = T
        BY <2>5, <3>1
      <4> QED
        BY <4>1, <4>2
    <3>6. Ordered(T, f.direction) = [i \in 1..k |-> Select(T, IF f.direction = "asc" THEN i - 1 ELSE k - i)]
      BY <3>4 DEF Ordered
    <3>7. ASSUME NEW i \in 1..k
          PROVE  Select(T, IF f.direction = "asc" THEN i - 1 ELSE k - i)
                   = Select(S, IF f.direction = "asc" THEN a + i - 1 ELSE b + 1 - i)
      <4>1. i - 1 \in 0..(b - a) /\ k - i \in 0..(b - a) /\ a + (i - 1) = a + i - 1 /\ a + (k - i) = b + 1 - i
        BY <3>4, <2>3
      <4>2. Select(T, i - 1) = Select(S, a + (i - 1)) /\ Select(T, k - i) = Select(S, a + (k - i))
        BY <4>1, <3>3
      <4> QED
        BY <4>1, <4>2
    <3> QED
      BY <2>4, <2>6, <3>5, <3>6, <3>7
  <2> QED
    BY <2>8, <2>9, <2>10
<1> QED
  BY <1>5, <1>6, <1>7

-----------------------------------------------------------------------------
(* The inductive invariant of the index.                                   *)

Tx == [content : Content, date : Dates]

\* TypeOK with the number of rows named, since RowCount is computed from the table.
IndexTypes ==
    /\ chain \in Seq(Tx)
    /\ indexed \subseteq 1..Len(chain)
    /\ minNr \in 0..Len(chain) /\ maxNr \in 0..Len(chain)
    /\ minDate \in Dates \cup {NoDate} /\ maxDate \in Dates \cup {NoDate}
    /\ \E r \in Nat \ {0} : days \in [Rows(r) -> 0..Len(chain)]
    /\ balanceTx \in [Keys -> SUBSET indexed]
    /\ signedTx \in [Keys -> SUBSET indexed]
    /\ otherTx \in [Keys -> SUBSET indexed]
    /\ typeTx \in [Types -> SUBSET indexed]
    /\ otherCoinTx \in [Coins -> SUBSET indexed]

ChainSorted == \A i, j \in 1..Len(chain) : i <= j => chain[i].date <= chain[j].date

\* A bitmap holds the numbers of the index whose transactions belong to it.
BitmapsExact ==
    /\ \A k \in Keys : /\ balanceTx[k] = {n \in indexed : k \in chain[n].content.balance}
                       /\ signedTx[k] = {n \in indexed : k \in chain[n].content.signed}
                       /\ otherTx[k] = {n \in indexed : k \in chain[n].content.other}
    /\ \A t \in Types : typeTx[t] = {n \in indexed : chain[n].content.type = t}
    /\ \A c \in Coins : otherCoinTx[c] = {n \in indexed : c \in chain[n].content.coins \ {OwnCoin}}

NothingIndexed ==
    /\ minNr = 0 /\ maxNr = 0 /\ minDate = NoDate /\ maxDate = NoDate
    /\ \A c \in DOMAIN days : days[c] = 0

\* The highest number may be that of an addition that failed.
BoundsExact ==
    /\ minNr \in indexed /\ \A n \in indexed : minNr <= n
    /\ minDate = chain[minNr].date
    /\ maxNr = Len(chain)
    /\ \E m \in indexed : maxDate = chain[m].date /\ \A n \in indexed : n <= m

\* The cell of a date is its distance from the first of the first month.
CellFrom(date, first) == date - Month(first) * DaysPerMonth
CellOf(n) == CellFrom(chain[n].date, minDate)

\* A cell holds the highest of the numbers of its day.
DaysExact ==
    /\ \A n \in indexed : CellOf(n) \in DOMAIN days /\ n <= days[CellOf(n)]
    /\ \A c \in DOMAIN days : days[c] # 0 => days[c] \in indexed /\ CellOf(days[c]) = c

IndexInv ==
    /\ IndexTypes /\ ChainSorted /\ BitmapsExact
    /\ indexed = {} => NothingIndexed
    /\ indexed # {} => BoundsExact /\ DaysExact

\* RowCount is the number of rows the table has.
LEMMA RowsNamed ==
    ASSUME NEW r \in Nat \ {0}, DOMAIN days = Rows(r)
    PROVE  RowCount = r
BY RowsCount DEF RowCount

\* The typing of the inductive invariant gives the type invariant of the runs.
LEMMA TypesAreOK ==
    ASSUME IndexTypes
    PROVE  TypeOK
<1>1. PICK r \in Nat \ {0} : days \in [Rows(r) -> 0..Len(chain)]
  BY DEF IndexTypes
<1>2. RowCount = r
  BY <1>1, RowsNamed
<1> QED
  BY <1>1, <1>2 DEF IndexTypes, TypeOK, Tx

\* An index without a transaction satisfies the invariant.
LEMMA InitIndex == Init => IndexInv
<1>1. SUFFICES ASSUME Init PROVE IndexInv
  OBVIOUS
<1>2. chain = <<>> /\ Len(chain) = 0 /\ chain \in Seq(Tx)
  BY <1>1 DEF Init
<1>3. days \in [Rows(ResizeStep) -> 0..Len(chain)] /\ \A c \in DOMAIN days : days[c] = 0
  BY <1>1, <1>2 DEF Init, Empty
<1>4. ResizeStep \in Nat \ {0}
  BY SizesAssumption
<1>5. IndexTypes
  BY <1>1, <1>2, <1>3, <1>4 DEF Init, Empty, IndexTypes
<1>6. BitmapsExact
  BY <1>1 DEF Init, Empty, BitmapsExact
<1> QED
  BY <1>1, <1>2, <1>3, <1>5, <1>6 DEF IndexInv, ChainSorted, NothingIndexed, Init

\* reset restores the invariant for nothing indexed, whatever the chain holds.
LEMMA ResetIndex == IndexInv /\ Reset => IndexInv'
<1>1. SUFFICES ASSUME IndexInv, Reset PROVE IndexInv'
  OBVIOUS
<1>2. chain' = chain /\ chain \in Seq(Tx) /\ Len(chain) \in Nat
  BY <1>1 DEF Reset, IndexInv, IndexTypes
<1>3. days' \in [Rows(ResizeStep) -> 0..Len(chain)] /\ \A c \in DOMAIN days' : days'[c] = 0
  BY <1>1, <1>2 DEF Reset, Empty
<1>4. ResizeStep \in Nat \ {0}
  BY SizesAssumption
<1>5. IndexTypes'
  BY <1>1, <1>2, <1>3, <1>4 DEF Reset, Empty, IndexTypes
<1>6. BitmapsExact'
  BY <1>1 DEF Reset, Empty, BitmapsExact
<1>7. ChainSorted'
  BY <1>1, <1>2 DEF IndexInv, ChainSorted
<1>8. indexed' = {} /\ NothingIndexed'
  BY <1>1, <1>3 DEF Reset, NothingIndexed
<1> QED
  BY <1>5, <1>6, <1>7, <1>8 DEF IndexInv

\* Where a date is in the table, counted from the month of the first.
LEMMA CellInTable ==
    ASSUME NEW date \in Nat, NEW first \in Nat, first <= date,
           NEW row, row = Month(date) - Month(first)
    PROVE  /\ row \in Nat
           /\ CellFrom(date, first) \in Nat
           /\ row * DaysPerMonth + Day(date) = CellFrom(date, first)
           /\ \A rows \in Nat : row < rows => CellFrom(date, first) \in Rows(rows)
<1>1. PICK p \in Nat : p = Month(date)
  BY DateParts
<1>2. PICK q \in Nat : q = Month(first)
  BY DateParts
<1>3. q <= p
  BY <1>1, <1>2, MonthMonotone
<1>4. PICK e \in 0..(DaysPerMonth - 1) : e = Day(date) /\ date = p * DaysPerMonth + e
  BY <1>1, DateParts
<1>5. row \in Nat /\ p = q + row
  BY <1>1, <1>2, <1>3
<1>6. DaysPerMonth \in Nat \ {0} /\ p * DaysPerMonth \in Nat /\ q * DaysPerMonth \in Nat
      /\ row * DaysPerMonth \in Nat
  BY <1>5, SizesAssumption, ProductNat
<1>7. p * DaysPerMonth = q * DaysPerMonth + row * DaysPerMonth
  BY <1>5, <1>6
<1>8. CellFrom(date, first) = row * DaysPerMonth + e
  BY <1>2, <1>4, <1>6, <1>7 DEF CellFrom
<1>9. ASSUME NEW rows \in Nat, row < rows
      PROVE  CellFrom(date, first) \in Rows(rows)
  <2>1. (row + 1) * DaysPerMonth <= rows * DaysPerMonth
    BY <1>5, <1>6, <1>9, ProductMonotone
  <2>2. (row + 1) * DaysPerMonth = row * DaysPerMonth + DaysPerMonth
    BY <1>5, <1>6
  <2>3. rows * DaysPerMonth \in Nat
    BY <1>6, ProductNat
  <2> QED
    BY <2>1, <2>2, <2>3, <1>6, <1>8 DEF Rows
<1> QED
  BY <1>4, <1>5, <1>6, <1>8, <1>9

\* A table with more rows contains the cells of the smaller one.
LEMMA RowsGrow ==
    ASSUME NEW r \in Nat, NEW rows \in Nat, r <= rows
    PROVE  Rows(r) \subseteq Rows(rows)
<1>1. r * DaysPerMonth <= rows * DaysPerMonth
  BY SizesAssumption, ProductMonotone
<1>2. r * DaysPerMonth \in Nat /\ rows * DaysPerMonth \in Nat
  BY SizesAssumption, ProductNat
<1> QED
  BY <1>1, <1>2 DEF Rows

\* An addition, of the transaction that is the last of the chain, keeps the invariant,
\* whether or not it fails.
LEMMA AddIndex ==
    ASSUME IndexInv, NEW date \in Dates, NEW c \in Content,
           chain # <<>> => chain[Len(chain)].date <= date,
           AddTransactionIndices(date, c)
    PROVE  IndexInv'
<1>0. /\ chain \in Seq(Tx) /\ Len(chain) \in Nat /\ indexed \subseteq 1..Len(chain)
      /\ minNr \in 0..Len(chain) /\ maxNr \in 0..Len(chain)
      /\ minDate \in Dates \cup {NoDate} /\ maxDate \in Dates \cup {NoDate}
      /\ \A n \in 1..Len(chain) : chain[n] \in Tx /\ chain[n].date \in Dates /\ chain[n].content \in Content
  <2>1. /\ chain \in Seq(Tx) /\ indexed \subseteq 1..Len(chain)
        /\ minNr \in 0..Len(chain) /\ maxNr \in 0..Len(chain)
        /\ minDate \in Dates \cup {NoDate} /\ maxDate \in Dates \cup {NoDate}
    BY DEF IndexInv, IndexTypes
  <2>2. Len(chain) \in Nat /\ \A n \in 1..Len(chain) : chain[n] \in Tx
    BY <2>1
  <2>3. \A x \in Tx : x.date \in Dates /\ x.content \in Content
    BY DEF Tx
  <2> QED
    BY <2>1, <2>2, <2>3
<1>d. /\ \A d \in Dates : d \in Nat
      /\ NoDate = -1 /\ NoDate \notin Dates
  BY SizesAssumption DEF Dates, NoDate
<1>1. PICK nr \in Nat : nr = Len(chain) + 1
  BY <1>0
<1>2. PICK r \in Nat \ {0} : days \in [Rows(r) -> 0..Len(chain)]
  BY DEF IndexInv, IndexTypes
<1>3. RowCount = r
  BY <1>2, RowsNamed
<1>4. PICK first \in Dates : first = IF minDate = NoDate THEN date ELSE minDate
  BY <1>0
<1>5. /\ \A n \in indexed : chain[n].date <= date
      /\ \A n \in 1..Len(chain) : chain[n].date <= date
  <2>1. ASSUME NEW n \in 1..Len(chain)
        PROVE  chain[n].date <= date
    <3>1. Len(chain) \in 1..Len(chain) /\ n <= Len(chain) /\ chain # <<>>
      BY <1>0
    <3>2. chain[n].date <= chain[Len(chain)].date
      BY <3>1 DEF IndexInv, ChainSorted
    <3> QED
      BY <3>1, <3>2, <1>0, <1>d
  <2> QED
    BY <2>1, <1>0
<1>6. indexed = {} => minDate = NoDate /\ maxDate = NoDate /\ minNr = 0 /\ maxNr = 0 /\ first = date
  BY <1>4 DEF IndexInv, NothingIndexed
<1>7. indexed # {} => /\ minDate \in Dates /\ minNr \in 1..Len(chain) /\ first = minDate
                      /\ minDate = chain[minNr].date
  BY <1>0, <1>d, <1>4 DEF IndexInv, BoundsExact
<1>8. first <= date
  BY <1>5, <1>6, <1>7, <1>d
<1>9. PICK row \in Nat : row = Month(date) - Month(first)
  BY <1>8, <1>d, CellInTable
<1>10. PICK cell \in Nat : /\ cell = CellFrom(date, first)
                           /\ cell = row * DaysPerMonth + Day(date)
                           /\ \A n \in Nat : row < n => cell \in Rows(n)
  BY <1>8, <1>9, <1>d, CellInTable
<1>11. PICK rows \in Nat \ {0} : rows = IF row >= RowCount THEN RowCount + ResizeStep ELSE RowCount
  BY <1>3, SizesAssumption
<1>12. r <= rows /\ Rows(r) \subseteq Rows(rows)
  <2>1. r <= rows
    BY <1>3, <1>11, SizesAssumption
  <2> QED
    BY <2>1, RowsGrow
<1>13. /\ chain' = Append(chain, [content |-> c, date |-> date])
       /\ minNr' = IF minNr = 0 THEN nr ELSE minNr
       /\ maxNr' = IF nr > maxNr THEN nr ELSE maxNr
       /\ \/ /\ row < rows
             /\ minDate' = first
             /\ maxDate' = IF date > maxDate THEN date ELSE maxDate
             /\ days' = MarkDay(Grown(rows), cell, nr)
             /\ signedTx' = AddTo(signedTx, c.signed, nr)
             /\ balanceTx' = AddTo(balanceTx, c.balance, nr)
             /\ otherTx' = AddTo(otherTx, c.other, nr)
             /\ typeTx' = AddTo(typeTx, {c.type}, nr)
             /\ otherCoinTx' = AddTo(otherCoinTx, c.coins \ {OwnCoin}, nr)
             /\ indexed' = indexed \cup {nr}
          \/ /\ row >= rows
             /\ days' = Grown(rows)
             /\ UNCHANGED <<minDate, maxDate, bitmaps, indexed>>
  BY <1>1, <1>4, <1>9, <1>10, <1>11 DEF AddTransactionIndices
<1>14. /\ chain' \in Seq(Tx) /\ Len(chain') = nr
       /\ \A n \in 1..Len(chain) : chain'[n] = chain[n]
       /\ chain'[nr] = [content |-> c, date |-> date]
       /\ chain'[nr].content = c /\ chain'[nr].date = date
  <2>1. [content |-> c, date |-> date] \in Tx
    BY DEF Tx
  <2> QED
    BY <2>1, <1>0, <1>1, <1>13
<1>15. ChainSorted'
  <2>1. SUFFICES ASSUME NEW i \in 1..nr, NEW j \in 1..nr, i <= j
                 PROVE  chain'[i].date <= chain'[j].date
    BY <1>14 DEF ChainSorted
  <2>2. CASE j = nr
    <3>1. CASE i = nr
      BY <2>2, <3>1, <1>14, <1>d
    <3>2. CASE i # nr
      <4>1. i \in 1..Len(chain)
        BY <3>2, <1>1
      <4> QED
        BY <4>1, <2>2, <1>5, <1>14
    <3> QED
      BY <3>1, <3>2
  <2>3. CASE j # nr
    <3>1. i \in 1..Len(chain) /\ j \in 1..Len(chain)
      BY <2>1, <2>3, <1>1, <1>0
    <3> QED
      BY <3>1, <2>1, <1>14 DEF IndexInv, ChainSorted
  <2> QED
    BY <2>2, <2>3
<1>16. /\ DOMAIN Grown(rows) = Rows(rows)
       /\ \A x \in Rows(rows) : Grown(rows)[x] = IF x \in DOMAIN days THEN days[x] ELSE 0
       /\ Grown(rows) \in [Rows(rows) -> 0..Len(chain)]
  <2>1. DOMAIN days = Rows(r) /\ \A x \in Rows(r) : days[x] \in 0..Len(chain)
    BY <1>2
  <2>2. 0 \in 0..Len(chain)
    BY <1>0
  <2> QED
    BY <2>1, <2>2 DEF Grown
<1>17. \A n \in indexed : n \in 1..Len(chain) /\ chain'[n] = chain[n] /\ n # nr /\ n < nr
  BY <1>0, <1>1, <1>14
<1>18. maxNr' = nr
  BY <1>0, <1>1, <1>13
<1>19. CASE row >= rows
  <2>1. days' = Grown(rows) /\ UNCHANGED <<minDate, maxDate, bitmaps, indexed>>
    BY <1>13, <1>19
  <2>2. indexed # {}
    <3>1. SUFFICES ASSUME indexed = {} PROVE FALSE
      OBVIOUS
    <3>2. row = 0
      <4>1. first = date /\ Month(date) \in Nat
        BY <3>1, <1>6, <1>d, DateParts
      <4> QED
        BY <4>1, <1>9
    <3> QED
      BY <3>2, <1>19
  <2>3. minNr' = minNr
    BY <2>2, <1>7, <1>13
  <2>4. IndexTypes'
    <3>1. minNr' \in 0..Len(chain)' /\ maxNr' \in 0..Len(chain)' /\ indexed' \subseteq 1..Len(chain)'
      BY <2>1, <2>3, <1>0, <1>1, <1>14, <1>18
    <3>2. days' \in [Rows(rows) -> 0..Len(chain)']
      BY <2>1, <1>14, <1>16, <1>1, <1>0
    <3>3. /\ balanceTx' \in [Keys -> SUBSET indexed']
          /\ signedTx' \in [Keys -> SUBSET indexed']
          /\ otherTx' \in [Keys -> SUBSET indexed']
          /\ typeTx' \in [Types -> SUBSET indexed']
          /\ otherCoinTx' \in [Coins -> SUBSET indexed']
      BY <2>1 DEF IndexInv, IndexTypes, bitmaps
    <3> QED
      BY <2>1, <3>1, <3>2, <3>3, <1>0, <1>14 DEF IndexTypes
  <2>5. BitmapsExact'
    BY <2>1, <1>17 DEF IndexInv, BitmapsExact, bitmaps
  <2>6. BoundsExact'
    <3>1. PICK m \in indexed : maxDate = chain[m].date /\ \A n \in indexed : n <= m
      BY <2>2 DEF IndexInv, BoundsExact
    <3>2. minNr \in indexed /\ (\A n \in indexed : minNr <= n) /\ minDate = chain[minNr].date
      BY <2>2 DEF IndexInv, BoundsExact
    <3> QED
      BY <2>1, <2>3, <3>1, <3>2, <1>14, <1>17, <1>18 DEF BoundsExact
  <2>7. DaysExact'
    <3>1. /\ \A n \in indexed : CellOf(n) \in DOMAIN days /\ n <= days[CellOf(n)]
          /\ \A x \in DOMAIN days : days[x] # 0 => days[x] \in indexed /\ CellOf(days[x]) = x
      BY <2>2 DEF IndexInv, DaysExact
    <3>2. \A n \in indexed : CellOf(n)' = CellOf(n)
      BY <2>1, <1>17 DEF CellOf, CellFrom
    <3>3. \A x \in DOMAIN days : x \in DOMAIN days' /\ days'[x] = days[x]
      BY <2>1, <1>2, <1>12, <1>16
    <3>4. \A x \in DOMAIN days' : days'[x] # 0 => x \in DOMAIN days /\ days'[x] = days[x]
      BY <2>1, <1>16
    <3>5. \A n \in indexed' : CellOf(n)' \in DOMAIN days' /\ n <= days'[CellOf(n)']
      BY <2>1, <3>1, <3>2, <3>3
    <3>6. ASSUME NEW x \in DOMAIN days', days'[x] # 0
          PROVE  days'[x] \in indexed' /\ CellOf(days[x])' = x
      BY <2>1, <3>1, <3>2, <3>4, <3>6
    <3> QED
      BY <3>5, <3>6, <2>1 DEF DaysExact
  <2> QED
    BY <1>15, <2>1, <2>2, <2>4, <2>5, <2>6, <2>7 DEF IndexInv
<1>20. CASE row < rows
  <2>1. /\ minDate' = first
        /\ maxDate' = IF date > maxDate THEN date ELSE maxDate
        /\ days' = MarkDay(Grown(rows), cell, nr)
        /\ signedTx' = AddTo(signedTx, c.signed, nr)
        /\ balanceTx' = AddTo(balanceTx, c.balance, nr)
        /\ otherTx' = AddTo(otherTx, c.other, nr)
        /\ typeTx' = AddTo(typeTx, {c.type}, nr)
        /\ otherCoinTx' = AddTo(otherCoinTx, c.coins \ {OwnCoin}, nr)
        /\ indexed' = indexed \cup {nr}
    BY <1>13, <1>20, <1>9, <1>11
  <2>2. cell \in Rows(rows)
    BY <1>10, <1>20
  <2>3. /\ days' \in [Rows(rows) -> 0..nr]
        /\ days'[cell] = nr
        /\ \A x \in Rows(rows) : x # cell => days'[x] = Grown(rows)[x]
    <3>1. Grown(rows)[cell] \in 0..Len(chain) /\ nr > Grown(rows)[cell]
      BY <2>2, <1>16, <1>0, <1>1
    <3>2. days' = [Grown(rows) EXCEPT ![cell] = nr]
      BY <2>1, <2>2, <3>1, <1>16 DEF MarkDay
    <3>3. Grown(rows) \in [Rows(rows) -> 0..nr]
      BY <1>16, <1>0, <1>1
    <3> QED
      BY <3>2, <3>3, <2>2
  <2>4. /\ \A x \in DOMAIN balanceTx : balanceTx'[x] = IF x \in c.balance THEN balanceTx[x] \cup {nr} ELSE balanceTx[x]
        /\ \A x \in DOMAIN signedTx : signedTx'[x] = IF x \in c.signed THEN signedTx[x] \cup {nr} ELSE signedTx[x]
        /\ \A x \in DOMAIN otherTx : otherTx'[x] = IF x \in c.other THEN otherTx[x] \cup {nr} ELSE otherTx[x]
        /\ \A x \in DOMAIN typeTx : typeTx'[x] = IF x \in {c.type} THEN typeTx[x] \cup {nr} ELSE typeTx[x]
        /\ \A x \in DOMAIN otherCoinTx :
              otherCoinTx'[x] = IF x \in c.coins \ {OwnCoin} THEN otherCoinTx[x] \cup {nr} ELSE otherCoinTx[x]
    BY <2>1 DEF AddTo
  <2>5. /\ balanceTx' \in [Keys -> SUBSET indexed']
        /\ signedTx' \in [Keys -> SUBSET indexed']
        /\ otherTx' \in [Keys -> SUBSET indexed']
        /\ typeTx' \in [Types -> SUBSET indexed']
        /\ otherCoinTx' \in [Coins -> SUBSET indexed']
    <3>1. balanceTx' \in [Keys -> SUBSET indexed']
      BY <2>1 DEF IndexInv, IndexTypes, AddTo
    <3>2. signedTx' \in [Keys -> SUBSET indexed']
      BY <2>1 DEF IndexInv, IndexTypes, AddTo
    <3>3. otherTx' \in [Keys -> SUBSET indexed']
      BY <2>1 DEF IndexInv, IndexTypes, AddTo
    <3>4. typeTx' \in [Types -> SUBSET indexed']
      BY <2>1 DEF IndexInv, IndexTypes, AddTo
    <3>5. otherCoinTx' \in [Coins -> SUBSET indexed']
      BY <2>1 DEF IndexInv, IndexTypes, AddTo
    <3> QED
      BY <3>1, <3>2, <3>3, <3>4, <3>5
  <2>6. minNr' \in 1..nr /\ maxDate' = date
    <3>1. minNr' \in 1..nr
      BY <1>0, <1>1, <1>13
    <3>2. CASE indexed = {}
      <4>1. date > maxDate
        BY <3>2, <1>6, <1>d
      <4> QED
        BY <4>1, <3>1, <2>1
    <3>3. CASE indexed # {}
      <4>1. PICK m \in indexed : maxDate = chain[m].date
        BY <3>3 DEF IndexInv, BoundsExact
      <4>2. maxDate <= date /\ maxDate \in Nat
        BY <4>1, <1>5, <1>0, <1>d
      <4> QED
        BY <4>2, <3>1, <2>1, <1>d
    <3> QED
      BY <3>2, <3>3
  <2>7. IndexTypes'
    <3>1. minNr' \in 0..Len(chain)' /\ maxNr' \in 0..Len(chain)' /\ indexed' \subseteq 1..Len(chain)'
      BY <2>1, <2>6, <1>0, <1>1, <1>14, <1>18
    <3>2. days' \in [Rows(rows) -> 0..Len(chain)']
      BY <2>3, <1>14
    <3> QED
      BY <2>1, <2>5, <2>6, <3>1, <3>2, <1>14 DEF IndexTypes
  <2>8. BitmapsExact'
    <3>0. \A n \in indexed' : n = nr \/ (n \in indexed /\ chain'[n] = chain[n])
      BY <2>1, <1>17
    <3>9. nr \notin indexed
      BY <1>17
    <3>1. ASSUME NEW k \in Keys
          PROVE  balanceTx'[k] = {n \in indexed' : k \in chain'[n].content.balance}
      <4>1. balanceTx[k] = {n \in indexed : k \in chain[n].content.balance} /\ k \in DOMAIN balanceTx
        BY DEF IndexInv, BitmapsExact, IndexTypes
      <4>3. balanceTx'[k] = IF k \in c.balance THEN balanceTx[k] \cup {nr} ELSE balanceTx[k]
        BY <4>1, <2>4
      <4>2. ASSUME NEW n
            PROVE  n \in balanceTx'[k] <=> n \in indexed' /\ k \in chain'[n].content.balance
        <5>1. CASE n = nr
          BY <5>1, <4>1, <4>3, <2>1, <3>9, <1>14
        <5>2. CASE n # nr
          <6>1. n \in balanceTx'[k] <=> n \in balanceTx[k]
            BY <5>2, <4>3
          <6>2. n \in indexed' <=> n \in indexed
            BY <5>2, <2>1
          <6>3. n \in indexed => chain'[n] = chain[n]
            BY <1>17
          <6> QED
            BY <4>1, <6>1, <6>2, <6>3
        <5> QED
          BY <5>1, <5>2
      <4> QED
        BY <4>2
    <3>2. ASSUME NEW k \in Keys
          PROVE  signedTx'[k] = {n \in indexed' : k \in chain'[n].content.signed}
      <4>1. signedTx[k] = {n \in indexed : k \in chain[n].content.signed} /\ k \in DOMAIN signedTx
        BY DEF IndexInv, BitmapsExact, IndexTypes
      <4>3. signedTx'[k] = IF k \in c.signed THEN signedTx[k] \cup {nr} ELSE signedTx[k]
        BY <4>1, <2>4
      <4>2. ASSUME NEW n
            PROVE  n \in signedTx'[k] <=> n \in indexed' /\ k \in chain'[n].content.signed
        <5>1. CASE n = nr
          BY <5>1, <4>1, <4>3, <2>1, <3>9, <1>14
        <5>2. CASE n # nr
          <6>1. n \in signedTx'[k] <=> n \in signedTx[k]
            BY <5>2, <4>3
          <6>2. n \in indexed' <=> n \in indexed
            BY <5>2, <2>1
          <6>3. n \in indexed => chain'[n] = chain[n]
            BY <1>17
          <6> QED
            BY <4>1, <6>1, <6>2, <6>3
        <5> QED
          BY <5>1, <5>2
      <4> QED
        BY <4>2
    <3>3. ASSUME NEW k \in Keys
          PROVE  otherTx'[k] = {n \in indexed' : k \in chain'[n].content.other}
      <4>1. otherTx[k] = {n \in indexed : k \in chain[n].content.other} /\ k \in DOMAIN otherTx
        BY DEF IndexInv, BitmapsExact, IndexTypes
      <4>3. otherTx'[k] = IF k \in c.other THEN otherTx[k] \cup {nr} ELSE otherTx[k]
        BY <4>1, <2>4
      <4>2. ASSUME NEW n
            PROVE  n \in otherTx'[k] <=> n \in indexed' /\ k \in chain'[n].content.other
        <5>1. CASE n = nr
          BY <5>1, <4>1, <4>3, <2>1, <3>9, <1>14
        <5>2. CASE n # nr
          <6>1. n \in otherTx'[k] <=> n \in otherTx[k]
            BY <5>2, <4>3
          <6>2. n \in indexed' <=> n \in indexed
            BY <5>2, <2>1
          <6>3. n \in indexed => chain'[n] = chain[n]
            BY <1>17
          <6> QED
            BY <4>1, <6>1, <6>2, <6>3
        <5> QED
          BY <5>1, <5>2
      <4> QED
        BY <4>2
    <3>4. ASSUME NEW t \in Types
          PROVE  typeTx'[t] = {n \in indexed' : chain'[n].content.type = t}
      <4>1. typeTx[t] = {n \in indexed : chain[n].content.type = t} /\ t \in DOMAIN typeTx
        BY DEF IndexInv, BitmapsExact, IndexTypes
      <4>3. typeTx'[t] = IF t \in {c.type} THEN typeTx[t] \cup {nr} ELSE typeTx[t]
        BY <4>1, <2>4
      <4>2. ASSUME NEW n
            PROVE  n \in typeTx'[t] <=> n \in indexed' /\ chain'[n].content.type = t
        <5>1. CASE n = nr
          BY <5>1, <4>1, <4>3, <2>1, <3>9, <1>14
        <5>2. CASE n # nr
          <6>1. n \in typeTx'[t] <=> n \in typeTx[t]
            BY <5>2, <4>3
          <6>2. n \in indexed' <=> n \in indexed
            BY <5>2, <2>1
          <6>3. n \in indexed => chain'[n] = chain[n]
            BY <1>17
          <6> QED
            BY <4>1, <6>1, <6>2, <6>3
        <5> QED
          BY <5>1, <5>2
      <4> QED
        BY <4>2
    <3>5. ASSUME NEW k \in Coins
          PROVE  otherCoinTx'[k] = {n \in indexed' : k \in chain'[n].content.coins \ {OwnCoin}}
      <4>1. otherCoinTx[k] = {n \in indexed : k \in chain[n].content.coins \ {OwnCoin}} /\ k \in DOMAIN otherCoinTx
        BY DEF IndexInv, BitmapsExact, IndexTypes
      <4>3. otherCoinTx'[k] = IF k \in c.coins \ {OwnCoin} THEN otherCoinTx[k] \cup {nr} ELSE otherCoinTx[k]
        BY <4>1, <2>4
      <4>2. ASSUME NEW n
            PROVE  n \in otherCoinTx'[k] <=> n \in indexed' /\ k \in chain'[n].content.coins \ {OwnCoin}
        <5>1. CASE n = nr
          BY <5>1, <4>1, <4>3, <2>1, <3>9, <1>14
        <5>2. CASE n # nr
          <6>1. n \in otherCoinTx'[k] <=> n \in otherCoinTx[k]
            BY <5>2, <4>3
          <6>2. n \in indexed' <=> n \in indexed
            BY <5>2, <2>1
          <6>3. n \in indexed => chain'[n] = chain[n]
            BY <1>17
          <6> QED
            BY <4>1, <6>1, <6>2, <6>3
        <5> QED
          BY <5>1, <5>2
      <4> QED
        BY <4>2
    <3> QED
      BY <3>1, <3>2, <3>3, <3>4, <3>5 DEF BitmapsExact
  <2>9. BoundsExact'
    <3>1. minNr' \in indexed' /\ \A n \in indexed' : minNr' <= n
      <4>1. CASE indexed = {}
        BY <4>1, <2>1, <1>6, <1>13
      <4>2. CASE indexed # {}
        <5>1. minNr' = minNr /\ minNr \in indexed /\ \A n \in indexed : minNr <= n
          BY <4>2, <1>7, <1>13 DEF IndexInv, BoundsExact
        <5> QED
          BY <5>1, <2>1, <1>17
      <4> QED
        BY <4>1, <4>2
    <3>2. minDate' = chain'[minNr'].date
      <4>1. CASE indexed = {}
        BY <4>1, <2>1, <1>6, <1>13, <1>14
      <4>2. CASE indexed # {}
        BY <4>2, <2>1, <1>7, <1>13, <1>14
      <4> QED
        BY <4>1, <4>2
    <3>3. nr \in indexed' /\ maxDate' = chain'[nr].date /\ \A n \in indexed' : n <= nr
      BY <2>1, <2>6, <1>14, <1>17
    <3>4. maxNr' = Len(chain)'
      BY <1>14, <1>18
    <3> QED
      BY <3>1, <3>2, <3>3, <3>4 DEF BoundsExact
  <2>10. DaysExact'
    <3>1. CellOf(nr)' = cell
      BY <2>1, <1>10, <1>14 DEF CellOf
    <3>2. ASSUME NEW n \in indexed
          PROVE  /\ CellOf(n)' = CellOf(n) /\ CellOf(n) \in DOMAIN days /\ n <= days[CellOf(n)]
                 /\ CellOf(n) \in Rows(rows) /\ n <= days'[CellOf(n)]
      <4>1. CellOf(n)' = CellOf(n)
        BY <2>1, <1>7, <1>17 DEF CellOf
      <4>2. CellOf(n) \in DOMAIN days /\ n <= days[CellOf(n)]
        BY DEF IndexInv, DaysExact
      <4>3. CellOf(n) \in Rows(rows) /\ Grown(rows)[CellOf(n)] = days[CellOf(n)]
        BY <4>2, <1>2, <1>12, <1>16
      <4>4. n <= nr
        BY <1>17
      <4> QED
        BY <4>1, <4>2, <4>3, <4>4, <2>3
    <3>3. \A n \in indexed' : CellOf(n)' \in DOMAIN days' /\ n <= days'[CellOf(n)']
      <4>1. \A n \in indexed' : n = nr \/ n \in indexed
        BY <2>1
      <4>2. DOMAIN days' = Rows(rows) /\ nr <= nr
        BY <2>3
      <4> QED
        BY <3>1, <3>2, <4>1, <4>2, <2>2, <2>3
    <3>4. ASSUME NEW x \in DOMAIN days', days'[x] # 0
          PROVE  days'[x] \in indexed' /\ CellOf(days[x])' = x
      <4>1. CASE x = cell
        BY <4>1, <2>1, <2>3, <3>1
      <4>2. CASE x # cell
        <5>1. x \in DOMAIN days /\ days'[x] = days[x] /\ days[x] # 0
          BY <4>2, <3>4, <2>3, <1>16
        <5>2. indexed # {} => days[x] \in indexed /\ CellOf(days[x]) = x
          BY <5>1 DEF IndexInv, DaysExact
        <5>3. indexed # {}
          BY <5>1 DEF IndexInv, NothingIndexed
        <5>4. days[x] \in indexed /\ CellOf(days[x]) = x
          BY <5>2, <5>3
        <5>5. PICK n \in indexed : n = days[x]
          BY <5>4
        <5>6. CellOf(n)' = x
          BY <3>2, <5>4, <5>5
        <5>7. CellOf(days[x])' = CellOf(n)'
          BY <5>1, <5>5 DEF CellOf
        <5> QED
          BY <5>1, <5>4, <5>6, <5>7, <2>1
      <4> QED
        BY <4>1, <4>2
    <3> QED
      BY <3>3, <3>4 DEF DaysExact
  <2> QED
    BY <1>15, <2>1, <2>7, <2>8, <2>9, <2>10 DEF IndexInv
<1> QED
  BY <1>9, <1>11, <1>19, <1>20
\* What leaves the variables of the index alone keeps it.
LEMMA SameIndex == IndexInv /\ UNCHANGED vars => IndexInv'
<1> SUFFICES ASSUME IndexInv, UNCHANGED vars PROVE IndexInv'
  OBVIOUS
<1>1. UNCHANGED <<chain, indexed, minNr, maxNr, minDate, maxDate, days, balanceTx, signedTx, otherTx, typeTx, otherCoinTx>>
  BY DEF vars, bounds, bitmaps
<1>2. IndexTypes' <=> IndexTypes
  BY <1>1 DEF IndexTypes
<1>3. (ChainSorted' <=> ChainSorted) /\ (NothingIndexed' <=> NothingIndexed) /\ (BoundsExact' <=> BoundsExact)
  BY <1>1 DEF ChainSorted, NothingIndexed, BoundsExact
<1>4. BitmapsExact' <=> BitmapsExact
  BY <1>1 DEF BitmapsExact
<1>5. DaysExact' <=> DaysExact
  BY <1>1 DEF DaysExact, CellOf, CellFrom
<1> QED
  BY <1>1, <1>2, <1>3, <1>4, <1>5 DEF IndexInv

\* Every step of the index keeps the invariant.
LEMMA NextIndex == IndexInv /\ [Next]_vars => IndexInv'
<1>1. SUFFICES ASSUME IndexInv, [Next]_vars PROVE IndexInv'
  OBVIOUS
<1>2. CASE Reset
  BY <1>1, <1>2, ResetIndex
<1>3. ASSUME NEW date \in Dates, NEW c \in Contents, Add(date, c)
      PROVE  IndexInv'
  <2>1. c \in Content
    BY ContentsAssumption
  <2>2. (chain # <<>> => chain[Len(chain)].date <= date) /\ AddTransactionIndices(date, c)
    BY <1>3 DEF Add
  <2> QED
    BY <1>1, <2>1, <2>2, AddIndex
<1>4. CASE UNCHANGED vars
  BY <1>1, <1>4, SameIndex
<1> QED
  BY <1>1, <1>2, <1>3, <1>4 DEF Next

-----------------------------------------------------------------------------
(* Ranges of numbers of an interval of dates.                              *)

\* What the invariant says of an index that is not empty.
LEMMA IndexFacts ==
    ASSUME IndexInv, indexed # {}
    PROVE  /\ Len(chain) \in Nat /\ indexed \subseteq 1..Len(chain)
           /\ \A n \in indexed : n \in Nat /\ n >= 1 /\ chain[n].date \in Nat
                                 /\ chain[n].date \in Dates /\ chain[n].content \in Content
           /\ \A i, j \in indexed : chain[i].date < chain[j].date => i < j
           /\ \A i, j \in indexed : i <= j => chain[i].date <= chain[j].date
           /\ minNr \in indexed /\ maxNr = Len(chain)
           /\ \A n \in indexed : minNr <= n /\ n <= maxNr
           /\ minDate \in Nat /\ maxDate \in Nat
           /\ minDate = chain[minNr].date /\ minDate <= maxDate
           /\ \A n \in indexed : minDate <= chain[n].date /\ chain[n].date <= maxDate
           /\ \E m \in indexed : maxDate = chain[m].date
<1>1. chain \in Seq(Tx) /\ indexed \subseteq 1..Len(chain)
  BY DEF IndexInv, IndexTypes
<1>2. Len(chain) \in Nat /\ \A n \in 1..Len(chain) : chain[n] \in Tx
  BY <1>1
<1>3. \A x \in Tx : x.date \in Dates /\ x.date \in Nat /\ x.content \in Content
  BY SizesAssumption DEF Tx, Dates
<1>4. \A n \in indexed : n \in 1..Len(chain) /\ n \in Nat /\ n >= 1 /\ chain[n].date \in Nat
                         /\ chain[n].date \in Dates /\ chain[n].content \in Content
  BY <1>1, <1>2, <1>3
<1>5. \A i, j \in indexed : i <= j => chain[i].date <= chain[j].date
  BY <1>4 DEF IndexInv, ChainSorted
<1>6. \A i, j \in indexed : chain[i].date < chain[j].date => i < j
  BY <1>4, <1>5
<1>7. /\ minNr \in indexed /\ maxNr = Len(chain) /\ minDate = chain[minNr].date
      /\ \A n \in indexed : minNr <= n
  BY DEF IndexInv, BoundsExact
<1>8. PICK m \in indexed : maxDate = chain[m].date /\ \A n \in indexed : n <= m
  BY DEF IndexInv, BoundsExact
<1>9. \A n \in indexed : minDate <= chain[n].date /\ chain[n].date <= maxDate
  BY <1>5, <1>7, <1>8
<1> QED
  BY <1>1, <1>2, <1>4, <1>5, <1>6, <1>7, <1>8, <1>9

\* A cursor that moves back from a cell of the table stops at the last transaction
\* whose day is not after the cell.
LEMMA LastUpTo ==
    ASSUME IndexInv, indexed # {}, NEW x \in DOMAIN days,
           \E n \in indexed : CellOf(n) <= x
    PROVE  /\ Filled(x) \in SUBSET Nat /\ IsFiniteSet(Filled(x)) /\ Filled(x) # {}
           /\ Max(Filled(x)) \in Filled(x) /\ \A y \in Filled(x) : y <= Max(Filled(x))
           /\ days[Max(Filled(x))] \in indexed
           /\ CellOf(days[Max(Filled(x))]) = Max(Filled(x))
           /\ \A n \in indexed : CellOf(n) <= x => CellOf(n) <= Max(Filled(x))
           /\ \A n \in indexed : CellOf(n) <= x <=> n <= days[Max(Filled(x))]
<1>1. PICK r \in Nat \ {0} : days \in [Rows(r) -> 0..Len(chain)]
  BY DEF IndexInv, IndexTypes
<1>2. r * DaysPerMonth \in Nat
  BY ProductNat, SizesAssumption
<1>3. x \in Nat /\ \A y \in 0..x : y \in DOMAIN days
  BY <1>1, <1>2 DEF Rows
<1>4. DOMAIN days \subseteq Nat
  BY <1>1, <1>2 DEF Rows
<1>5. /\ \A n \in indexed : CellOf(n) \in DOMAIN days /\ n <= days[CellOf(n)]
      /\ \A y \in DOMAIN days : days[y] # 0 => days[y] \in indexed /\ CellOf(days[y]) = y
  BY DEF IndexInv, DaysExact
<1>6. \A y : y \in Filled(x) <=> y \in 0..x /\ days[y] # 0
  BY DEF Filled
<1>7. \A y \in DOMAIN days : days[y] \in Nat
  BY <1>1, IndexFacts
<1>8. ASSUME NEW n \in indexed, CellOf(n) <= x
      PROVE  CellOf(n) \in Filled(x)
  <2>1. CellOf(n) \in 0..x /\ n <= days[CellOf(n)] /\ n >= 1 /\ n \in Nat /\ days[CellOf(n)] \in Nat
    BY <1>3, <1>4, <1>5, <1>7, <1>8, IndexFacts
  <2> QED
    BY <2>1, <1>6
<1>9. Filled(x) \in SUBSET Nat /\ IsFiniteSet(Filled(x)) /\ Filled(x) # {}
  <2>1. 0 \in Int /\ x \in Int /\ Filled(x) \in SUBSET (0..x) /\ \A y \in 0..x : y \in Nat
    BY <1>3 DEF Filled
  <2>2. IsFiniteSet(0..x)
    BY <2>1, FS_Interval
  <2>3. IsFiniteSet(Filled(x))
    BY <2>1, <2>2, FS_Subset
  <2> QED
    BY <2>1, <2>3, <1>8
<1>10. PICK top \in Nat : top = Max(Filled(x)) /\ top \in Filled(x) /\ \A y \in Filled(x) : y <= top
  BY <1>9, SelectedEnds
<1>11. PICK last \in indexed : last = days[top] /\ CellOf(last) = top /\ top \in 0..x
  <2>1. top \in 0..x /\ days[top] # 0 /\ top \in DOMAIN days
    BY <1>3, <1>6, <1>10
  <2> QED
    BY <2>1, <1>5
<1>12. ASSUME NEW n \in indexed
       PROVE  CellOf(n) <= x <=> n <= last
  <2>0. PICK lo \in Nat : lo = Month(minDate) * DaysPerMonth
    BY IndexFacts, DateParts
  <2>1. /\ CellOf(n) = chain[n].date - lo /\ CellOf(last) = chain[last].date - lo
        /\ chain[n].date \in Nat /\ chain[last].date \in Nat /\ n \in Nat /\ last \in Nat
        /\ CellOf(n) \in Nat
    BY <2>0, <1>4, <1>5, IndexFacts DEF CellOf, CellFrom
  <2>2. CASE CellOf(n) <= x
    <3>1. CellOf(n) <= top
      BY <2>2, <1>8, <1>10
    <3>2. CASE CellOf(n) = top
      BY <3>2, <2>2, <1>5, <1>11
    <3>3. CASE CellOf(n) # top
      <4>1. chain[n].date < chain[last].date
        BY <3>1, <3>3, <2>1, <1>11
      <4> QED
        BY <4>1, <2>1, <2>2, IndexFacts
    <3> QED
      BY <3>2, <3>3
  <2>3. CASE n <= last
    <3>1. chain[n].date <= chain[last].date
      BY <2>3, IndexFacts
    <3> QED
      BY <3>1, <2>1, <2>3, <1>3, <1>11
  <2> QED
    BY <2>2, <2>3
<1> QED
  BY <1>8, <1>9, <1>10, <1>11, <1>12
\* Where the cursors of an interval start.
StartCell(s) == YearMonthToIndex(s) * DaysPerMonth + Day(s)
EndCell(e) ==
    IF e > maxDate THEN YearMonthToIndex(e) * DaysPerMonth + DaysPerMonth - 1 ELSE StartCell(e)

\* The range of an interval, with its two cells named.
LEMMA RangeByCells ==
    ASSUME NEW s, NEW e
    PROVE  GetTxRangeOfInterval(s, e) =
             IF Filled(EndCell(e)) = {} \/ StartCell(s) \in (Max(Filled(EndCell(e))) + 1)..EndCell(e)
             THEN <<0, 0>>
             ELSE <<IF s > minDate THEN days[Max(Filled(StartCell(s) - 1) \cup {0})] + 1 ELSE minNr,
                    days[Max(Filled(EndCell(e)))]>>
BY DEF GetTxRangeOfInterval, StartCell, EndCell

\* Inside the dates of the index a date starts at its own cell; before them, at the
\* day of the month in the first row.
LEMMA StartCells ==
    ASSUME IndexInv, indexed # {}, NEW s \in Nat
    PROVE  /\ minDate <= s /\ s <= maxDate => StartCell(s) = CellFrom(s, minDate)
           /\ s < minDate => StartCell(s) = Day(s)
<1>1. minDate \in Nat /\ maxDate \in Nat
  BY IndexFacts
<1>2. CASE minDate <= s /\ s <= maxDate
  <2>1. YearMonthToIndex(s) = Month(s) - Month(minDate)
    BY <1>1, <1>2 DEF YearMonthToIndex
  <2>2. (Month(s) - Month(minDate)) * DaysPerMonth + Day(s) = CellFrom(s, minDate)
    BY <1>1, <1>2, CellInTable
  <2> QED
    BY <1>1, <1>2, <2>1, <2>2 DEF StartCell
<1>3. CASE s < minDate
  <2>1. YearMonthToIndex(s) = 0 /\ Day(s) \in Nat
    BY <1>3, DateParts, SizesAssumption DEF YearMonthToIndex
  <2>2. 0 * DaysPerMonth = 0
    BY SizesAssumption
  <2> QED
    BY <1>1, <1>3, <2>1, <2>2 DEF StartCell
<1> QED
  BY <1>1, <1>2, <1>3

\* The cell of a date of the index is in the table, and with it its row.
LEMMA LastRow ==
    ASSUME IndexInv, indexed # {}
    PROVE  \E row \in Nat : /\ row = Month(maxDate) - Month(minDate)
                            /\ row * DaysPerMonth + DaysPerMonth - 1 \in DOMAIN days
                            /\ CellFrom(maxDate, minDate) \in DOMAIN days
                            /\ CellFrom(maxDate, minDate) <= row * DaysPerMonth + DaysPerMonth - 1
                            /\ DOMAIN days \subseteq Nat
                            /\ \A x \in DOMAIN days, y \in Nat : y <= x => y \in DOMAIN days
<1>1. minDate \in Nat /\ maxDate \in Nat /\ minDate <= maxDate
  BY IndexFacts
<1>2. PICK row \in Nat : /\ row = Month(maxDate) - Month(minDate)
                         /\ row * DaysPerMonth + Day(maxDate) = CellFrom(maxDate, minDate)
  BY <1>1, CellInTable
<1>3. PICK r \in Nat \ {0} : days \in [Rows(r) -> 0..Len(chain)]
  BY DEF IndexInv, IndexTypes
<1>4. CellFrom(maxDate, minDate) \in Rows(r)
  <2>1. PICK m \in indexed : maxDate = chain[m].date
    BY IndexFacts
  <2>2. CellOf(m) \in DOMAIN days
    BY DEF IndexInv, DaysExact
  <2> QED
    BY <2>1, <2>2, <1>3 DEF CellOf
<1>5. /\ DaysPerMonth \in Nat \ {0} /\ r * DaysPerMonth \in Nat /\ row * DaysPerMonth \in Nat
      /\ Day(maxDate) \in 0..(DaysPerMonth - 1)
  BY <1>1, SizesAssumption, ProductNat, DateParts
<1>6. row < r
  <2>1. SUFFICES ASSUME r <= row PROVE FALSE
    BY <1>3, <1>2
  <2>2. r * DaysPerMonth <= row * DaysPerMonth
    BY <2>1, <1>5, ProductMonotone
  <2> QED
    BY <2>2, <1>2, <1>4, <1>5 DEF Rows
<1>7. row * DaysPerMonth + DaysPerMonth <= r * DaysPerMonth
  <2>1. (row + 1) * DaysPerMonth <= r * DaysPerMonth
    BY <1>5, <1>6, ProductMonotone
  <2>2. (row + 1) * DaysPerMonth = row * DaysPerMonth + DaysPerMonth
    BY <1>5
  <2> QED
    BY <2>1, <2>2
<1>8. PICK top \in Nat : top = r * DaysPerMonth - 1 /\ DOMAIN days = 0..top
  <2>1. 1 * DaysPerMonth <= r * DaysPerMonth
    BY <1>3, <1>5, ProductMonotone
  <2> QED
    BY <2>1, <1>3, <1>5 DEF Rows
<1>9. DOMAIN days \subseteq Nat /\ \A x \in DOMAIN days, y \in Nat : y <= x => y \in DOMAIN days
  BY <1>8
<1>10. PICK end \in Nat : end = row * DaysPerMonth + DaysPerMonth - 1 /\ end <= top
  BY <1>5, <1>7, <1>8
<1>11. CellFrom(maxDate, minDate) <= end
  BY <1>2, <1>5, <1>10
<1>12. CellFrom(maxDate, minDate) \in DOMAIN days /\ end \in DOMAIN days
  BY <1>3, <1>4, <1>8, <1>10
<1> QED
  BY <1>2, <1>9, <1>10, <1>11, <1>12

\* The cursor of the end starts after the days up to it and before the others.
LEMMA EndCells ==
    ASSUME IndexInv, indexed # {}, NEW e \in Nat, minDate <= e
    PROVE  /\ EndCell(e) \in DOMAIN days /\ EndCell(e) \in Nat
           /\ \A n \in indexed : CellOf(n) <= EndCell(e) <=> chain[n].date <= e
           /\ \A s \in Nat : minDate <= s /\ s <= e /\ s <= maxDate => StartCell(s) <= EndCell(e)
<1>1. minDate \in Nat /\ maxDate \in Nat /\ minDate <= maxDate
  BY IndexFacts
<1>2. PICK row \in Nat : /\ row = Month(maxDate) - Month(minDate)
                         /\ row * DaysPerMonth + DaysPerMonth - 1 \in DOMAIN days
                         /\ CellFrom(maxDate, minDate) \in DOMAIN days
                         /\ CellFrom(maxDate, minDate) <= row * DaysPerMonth + DaysPerMonth - 1
                         /\ DOMAIN days \subseteq Nat
                         /\ \A x \in DOMAIN days, y \in Nat : y <= x => y \in DOMAIN days
  BY LastRow
<1>3. PICK lo \in Nat : lo = Month(minDate) * DaysPerMonth /\ lo <= minDate
  BY <1>1, DateParts, SizesAssumption
<1>4. \A d \in Nat : CellFrom(d, minDate) = d - lo
  BY <1>3 DEF CellFrom
<1>5. \A n \in indexed : /\ chain[n].date \in Nat /\ CellOf(n) = chain[n].date - lo
                         /\ chain[n].date <= maxDate
  BY <1>4, IndexFacts DEF CellOf
<1>6. \A s \in Nat : minDate <= s /\ s <= maxDate => StartCell(s) = s - lo
  BY <1>4, StartCells
<1>7. CASE e > maxDate
  <2>1. YearMonthToIndex(e) = row
    BY <1>1, <1>2, <1>7 DEF YearMonthToIndex
  <2>2. EndCell(e) = row * DaysPerMonth + DaysPerMonth - 1
    BY <1>7, <2>1 DEF EndCell
  <2>3. EndCell(e) \in DOMAIN days /\ EndCell(e) \in Nat /\ maxDate - lo <= EndCell(e)
    BY <1>1, <1>2, <1>4, <2>2
  <2> QED
    BY <2>3, <1>1, <1>3, <1>5, <1>6, <1>7
<1>8. CASE ~(e > maxDate)
  <2>1. EndCell(e) = e - lo
    BY <1>1, <1>6, <1>8 DEF EndCell
  <2>2. EndCell(e) \in Nat /\ EndCell(e) <= CellFrom(maxDate, minDate)
    BY <2>1, <1>1, <1>3, <1>4, <1>8
  <2>3. EndCell(e) \in DOMAIN days
    BY <2>2, <1>2
  <2> QED
    BY <2>1, <2>2, <2>3, <1>1, <1>3, <1>5, <1>6
<1> QED
  BY <1>7, <1>8

\* The first cursor's answer: the numbers after it are those of the days from s on.
LEMMA FirstOfInterval ==
    ASSUME IndexInv, indexed # {}, NEW s \in Nat, s <= maxDate
    PROVE  \E a \in Nat :
              /\ a = IF s > minDate THEN days[Max(Filled(StartCell(s) - 1) \cup {0})] + 1 ELSE minNr
              /\ minNr <= a
              /\ \A n \in indexed : a <= n <=> s <= chain[n].date
<1>1. minDate \in Nat /\ maxDate \in Nat /\ minDate <= maxDate /\ minNr \in indexed /\ minNr \in Nat
  BY IndexFacts
<1>2. CASE s > minDate
  <2>1. PICK lo \in Nat : lo = Month(minDate) * DaysPerMonth /\ lo <= minDate
    BY <1>1, DateParts, SizesAssumption
  <2>2. \A d \in Nat : CellFrom(d, minDate) = d - lo
    BY <2>1 DEF CellFrom
  <2>3. PICK x \in Nat : x = StartCell(s) - 1 /\ x = s - lo - 1
    BY <2>1, <2>2, <1>1, <1>2, StartCells
  <2>4. x \in DOMAIN days
    <3>1. CellFrom(maxDate, minDate) \in DOMAIN days /\ \A u \in DOMAIN days, y \in Nat : y <= u => y \in DOMAIN days
      BY LastRow
    <3>2. x <= CellFrom(maxDate, minDate)
      BY <2>1, <2>2, <2>3, <1>1
    <3> QED
      BY <3>1, <3>2
  <2>5. \A n \in indexed : /\ chain[n].date \in Nat /\ CellOf(n) = chain[n].date - lo /\ n \in Nat
                           /\ CellOf(n) <= x <=> chain[n].date < s
    <3>1. \A n \in indexed : n \in Nat /\ chain[n].date \in Nat /\ CellOf(n) = chain[n].date - lo
      BY <2>2, IndexFacts DEF CellOf
    <3>2. \A d \in Nat : d - lo <= x <=> d < s
      BY <2>3
    <3> QED
      BY <3>1, <3>2
  <2>6. minDate = chain[minNr].date
    BY IndexFacts
  <2>7. CellOf(minNr) <= x
    BY <2>5, <2>6, <1>1, <1>2
  <2>8. \E n \in indexed : CellOf(n) <= x
    BY <2>7, <1>1
  <2>9. PICK last \in indexed : /\ last = days[Max(Filled(x))]
                                /\ \A n \in indexed : CellOf(n) <= x <=> n <= last
    BY <2>4, <2>8, LastUpTo
  <2>10. Max(Filled(x) \cup {0}) = Max(Filled(x))
    <3>1. /\ Filled(x) \in SUBSET Nat /\ IsFiniteSet(Filled(x)) /\ Filled(x) # {}
          /\ Max(Filled(x)) \in Filled(x) /\ \A y \in Filled(x) : y <= Max(Filled(x))
      BY <2>4, <2>8, LastUpTo
    <3>2. Filled(x) \cup {0} \in SUBSET Nat /\ IsFiniteSet(Filled(x) \cup {0}) /\ Filled(x) \cup {0} # {}
      BY <3>1, FS_AddElement
    <3>3. Max(Filled(x) \cup {0}) \in Filled(x) \cup {0} /\ \A y \in Filled(x) \cup {0} : y <= Max(Filled(x) \cup {0})
      BY <3>2, SelectedEnds
    <3>4. PICK p \in Nat : p = Max(Filled(x)) /\ p \in Filled(x) /\ \A y \in Filled(x) : y <= p
      BY <3>1
    <3>5. PICK q \in Nat : q = Max(Filled(x) \cup {0}) /\ (q \in Filled(x) \/ q = 0) /\ p <= q
      BY <3>2, <3>3, <3>4
    <3>6. q <= p
      BY <3>4, <3>5
    <3> QED
      BY <3>4, <3>5, <3>6
  <2>11. last \in Nat /\ \A n \in indexed : n <= last <=> chain[n].date < s
    BY <2>5, <2>9
  <2>12. minNr <= last
    BY <2>7, <2>9, <1>1
  <2>13. PICK a \in Nat : a = last + 1
    BY <2>11
  <2>14. a = IF s > minDate THEN days[Max(Filled(StartCell(s) - 1) \cup {0})] + 1 ELSE minNr
    BY <1>2, <2>3, <2>9, <2>10, <2>13
  <2>15. \A n \in indexed : a <= n <=> s <= chain[n].date
    <3>1. \A n, d \in Nat : (n <= last <=> d < s) => (a <= n <=> s <= d)
      BY <2>11, <2>13
    <3>2. \A n \in indexed : n \in Nat /\ chain[n].date \in Nat
      BY <2>5
    <3> QED
      BY <3>1, <3>2, <2>11
  <2> QED
    BY <2>11, <2>12, <2>13, <2>14, <2>15, <1>1
<1>3. CASE ~(s > minDate)
  <2>1. \A n \in indexed : minNr <= n /\ minDate <= chain[n].date /\ chain[n].date \in Nat
    BY IndexFacts
  <2> QED
    BY <1>1, <1>3, <2>1
<1> QED
  BY <1>2, <1>3

\* The range of an interval holds the transactions of its days.  If the range is empty
\* there are none, except that an interval that starts inside a month before the first
\* transaction may miss those of the first month.
LEMMA RangeExact ==
    ASSUME IndexInv, indexed # {}, NEW s \in Nat, NEW e \in Nat, s <= e, s <= maxDate, minDate <= e
    PROVE  /\ \/ GetTxRangeOfInterval(s, e) = <<0, 0>>
              \/ \E a \in Nat, b \in indexed :
                    /\ GetTxRangeOfInterval(s, e) = <<a, b>> /\ minNr <= a
                    /\ \A n \in indexed : /\ a <= n <=> s <= chain[n].date
                                          /\ n <= b <=> chain[n].date <= e
           /\ \A n \in indexed :
                 /\ minDate <= s \/ Day(s) = 0 \/ Month(minDate) < Month(chain[n].date)
                 /\ s <= chain[n].date /\ chain[n].date <= e
                 => GetTxRangeOfInterval(s, e) # <<0, 0>>
<1>1. minDate \in Nat /\ maxDate \in Nat /\ minDate <= maxDate /\ minNr \in indexed
      /\ minDate = chain[minNr].date /\ minNr \in Nat
  BY IndexFacts
<1>2. PICK x \in DOMAIN days : x = EndCell(e)
  BY EndCells
<1>3. /\ x \in Nat /\ \A n \in indexed : CellOf(n) <= x <=> chain[n].date <= e
  BY <1>2, EndCells
<1>4. \E n \in indexed : CellOf(n) <= x
  BY <1>1, <1>3
<1>5. PICK b \in indexed : /\ b = days[Max(Filled(x))]
                           /\ \A n \in indexed : CellOf(n) <= x <=> n <= b
  BY <1>4, LastUpTo
<1>6. PICK top \in Nat : /\ top = Max(Filled(x)) /\ \A n \in indexed : CellOf(n) <= x => CellOf(n) <= top
  BY <1>4, LastUpTo
<1>7. Filled(x) # {}
  BY <1>4, LastUpTo
<1>8. PICK a \in Nat : /\ a = IF s > minDate THEN days[Max(Filled(StartCell(s) - 1) \cup {0})] + 1 ELSE minNr
                       /\ minNr <= a
                       /\ \A n \in indexed : a <= n <=> s <= chain[n].date
  BY FirstOfInterval
<1>9. GetTxRangeOfInterval(s, e) = IF StartCell(s) \in (top + 1)..x THEN <<0, 0>> ELSE <<a, b>>
  BY <1>2, <1>5, <1>6, <1>7, <1>8, RangeByCells
<1>10. \A n \in indexed : n <= b <=> chain[n].date <= e
  BY <1>3, <1>5
<1>11. b # 0
  BY IndexFacts
<1>12. ASSUME NEW n \in indexed,
              minDate <= s \/ Day(s) = 0 \/ Month(minDate) < Month(chain[n].date),
              s <= chain[n].date, chain[n].date <= e
       PROVE  StartCell(s) \notin (top + 1)..x
  <2>1. chain[n].date \in Nat /\ minDate <= chain[n].date /\ CellOf(n) <= top
    BY <1>3, <1>6, <1>12, IndexFacts
  <2>2. CellOf(n) = CellFrom(chain[n].date, minDate)
    BY DEF CellOf
  <2>3. CASE minDate <= s
    <3>1. PICK lo \in Nat : lo = Month(minDate) * DaysPerMonth
      BY <1>1, DateParts
    <3>2. StartCell(s) = s - lo /\ CellOf(n) = chain[n].date - lo
      BY <2>2, <2>3, <3>1, StartCells DEF CellFrom
    <3> QED
      BY <3>1, <3>2, <2>1, <1>12
  <2>4. CASE s < minDate
    <3>1. StartCell(s) = Day(s)
      BY <2>4, StartCells
    <3>2. CASE Day(s) = 0
      BY <3>1, <3>2
    <3>3. CASE Month(minDate) < Month(chain[n].date)
      <4>0. PICK d \in Nat : d = chain[n].date /\ minDate <= d
        BY <2>1
      <4>1. PICK row \in Nat : /\ row = Month(d) - Month(minDate)
                               /\ row * DaysPerMonth + Day(d) = CellOf(n)
        <5>1. Month(d) - Month(minDate) \in Nat
              /\ (Month(d) - Month(minDate)) * DaysPerMonth + Day(d) = CellFrom(d, minDate)
          BY <4>0, <1>1, CellInTable
        <5> QED
          BY <5>1, <4>0, <2>2
      <4>2. 1 <= row
        <5>1. Month(d) \in Nat /\ Month(minDate) \in Nat /\ Month(minDate) < Month(d)
          BY <3>3, <4>0, <1>1, DateParts
        <5> QED
          BY <5>1, <4>1
      <4>3. 1 * DaysPerMonth <= row * DaysPerMonth
        BY <4>2, SizesAssumption, ProductMonotone
      <4>4. /\ DaysPerMonth \in Nat /\ row * DaysPerMonth \in Nat
            /\ Day(s) \in 0..(DaysPerMonth - 1) /\ Day(d) \in 0..(DaysPerMonth - 1)
        BY SizesAssumption, ProductNat, DateParts
      <4> QED
        BY <4>1, <4>3, <4>4, <3>1, <2>1
    <3> QED
      BY <3>2, <3>3, <2>4, <1>1, <1>12
  <2> QED
    BY <2>3, <2>4, <1>1
<1>13. \A n \in indexed :
          /\ minDate <= s \/ Day(s) = 0 \/ Month(minDate) < Month(chain[n].date)
          /\ s <= chain[n].date /\ chain[n].date <= e
          => GetTxRangeOfInterval(s, e) # <<0, 0>>
  BY <1>9, <1>11, <1>12
<1> QED
  BY <1>8, <1>9, <1>10, <1>13
-----------------------------------------------------------------------------
(* Lookups.                                                                *)

\* Whether the interval and the number bounds of a filter leave a transaction.
InInterval(f, n) == f.interval = Always \/ chain[n].date \in f.interval[1]..f.interval[2]
InBounds(f, n) == f.min <= n /\ (f.max # 0 => n <= f.max)

\* Whether the first cell of its interval does not hide it.
NotHidden(f, n) ==
    \/ f.interval = Always \/ f.interval[1] >= minDate \/ Day(f.interval[1]) = 0
    \/ Month(minDate) < Month(chain[n].date)

\* The number bounds of a filter leave the numbers within them.
LEMMA BoundedExact ==
    ASSUME NEW f \in Filter, NEW a \in Nat, NEW b \in Nat, b # 0
    PROVE  /\ Bounded(f, <<a, b>>) \subseteq a..b
           /\ \A n \in Nat : n \in Bounded(f, <<a, b>>) <=> a <= n /\ n <= b /\ InBounds(f, n)
<1>1. f.min \in Nat /\ f.max \in Nat
  BY DEF Filter
<1>2. <<a, b>> # <<0, 0>> /\ <<a, b>>[1] = a /\ <<a, b>>[2] = b
  OBVIOUS
<1>3. PICK lo \in Nat : lo = IF f.min > a THEN f.min ELSE a
  BY <1>1
<1>4. PICK hi \in Nat : hi = IF f.max # 0 /\ f.max < b THEN f.max ELSE b
  BY <1>1
<1>5. Bounded(f, <<a, b>>) = lo..hi
  BY <1>2, <1>3, <1>4 DEF Bounded
<1>6. a <= lo /\ hi <= b
  BY <1>1, <1>3, <1>4
<1>7. \A n \in Nat : /\ lo <= n <=> a <= n /\ f.min <= n
                     /\ n <= hi <=> n <= b /\ (f.max # 0 => n <= f.max)
  BY <1>1, <1>3, <1>4
<1> QED
  BY <1>5, <1>6, <1>7 DEF InBounds

\* The dates between which a filter looks.
LEMMA IntervalEnds ==
    ASSUME IndexInv, indexed # {}, NEW f \in Filter
    PROVE  \E s, e \in Nat :
              /\ s = IF f.interval = Always THEN minDate ELSE f.interval[1]
              /\ e = IF f.interval = Always THEN maxDate ELSE f.interval[2]
              /\ s <= e
              /\ \A n \in indexed : InInterval(f, n) <=> s <= chain[n].date /\ chain[n].date <= e
              /\ \A n \in indexed : NotHidden(f, n) <=>
                    minDate <= s \/ Day(s) = 0 \/ Month(minDate) < Month(chain[n].date)
<1>1. minDate \in Nat /\ maxDate \in Nat /\ minDate <= maxDate
      /\ \A n \in indexed : chain[n].date \in Nat /\ minDate <= chain[n].date /\ chain[n].date <= maxDate
  BY IndexFacts
<1>2. f.interval \in {Always} \cup {i \in Dates \X Dates : i[1] <= i[2]}
  BY DEF Filter
<1>3. CASE f.interval = Always
  BY <1>1, <1>3 DEF InInterval, NotHidden
<1>4. CASE f.interval # Always
  <2>1. f.interval \in Dates \X Dates /\ f.interval[1] <= f.interval[2]
    BY <1>2, <1>4
  <2>2. PICK s \in Nat : s = f.interval[1]
    BY <2>1, SizesAssumption DEF Dates
  <2>3. PICK e \in Nat : e = f.interval[2]
    BY <2>1, SizesAssumption DEF Dates
  <2>4. s <= e
    BY <2>1, <2>2, <2>3
  <2>5. \A n \in indexed : InInterval(f, n) <=> s <= chain[n].date /\ chain[n].date <= e
    BY <1>1, <1>4, <2>2, <2>3 DEF InInterval
  <2>6. \A n \in indexed : NotHidden(f, n) <=>
           minDate <= s \/ Day(s) = 0 \/ Month(minDate) < Month(chain[n].date)
    BY <1>1, <1>4, <2>2 DEF NotHidden
  <2> QED
    BY <1>4, <2>2, <2>3, <2>4, <2>5, <2>6
<1> QED
  BY <1>3, <1>4

\* calculateTxRange leaves the numbers between the bounds of the index that are in the
\* interval and in the number bounds of the filter.
LEMMA TxRangeExact ==
    ASSUME IndexInv, indexed # {}, NEW f \in Filter
    PROVE  /\ CalculateTxRange(f) \subseteq minNr..maxNr
           /\ \A n \in indexed : n \in CalculateTxRange(f) => InInterval(f, n) /\ InBounds(f, n)
           /\ \A n \in indexed :
                 InInterval(f, n) /\ InBounds(f, n) /\ NotHidden(f, n) => n \in CalculateTxRange(f)
<1>1. /\ minDate \in Nat /\ maxDate \in Nat /\ minNr \in indexed /\ minNr \in Nat /\ minNr >= 1 /\ maxNr \in Nat
      /\ minNr <= maxNr
  BY IndexFacts
<1>2. \A n \in indexed : /\ n \in Nat /\ minNr <= n /\ n <= maxNr /\ chain[n].date \in Nat
                         /\ minDate <= chain[n].date /\ chain[n].date <= maxDate
  BY IndexFacts
<1>3. PICK s, e \in Nat :
         /\ s = IF f.interval = Always THEN minDate ELSE f.interval[1]
         /\ e = IF f.interval = Always THEN maxDate ELSE f.interval[2]
         /\ s <= e
         /\ \A n \in indexed : InInterval(f, n) <=> s <= chain[n].date /\ chain[n].date <= e
         /\ \A n \in indexed : NotHidden(f, n) <=>
               minDate <= s \/ Day(s) = 0 \/ Month(minDate) < Month(chain[n].date)
  BY IntervalEnds
<1>4. f.min \in Nat /\ f.max \in Nat
  BY DEF Filter
<1>5. PICK out \in BOOLEAN : out <=> \/ f.min # 0 /\ f.min > maxNr
                                     \/ f.max # 0 /\ f.max < minNr
                                     \/ s > maxDate \/ e < minDate
  OBVIOUS
<1>6. CalculateTxRange(f) =
        IF out THEN {}
        ELSE Bounded(f, IF s # minDate \/ e # maxDate THEN GetTxRangeOfInterval(s, e) ELSE <<minNr, maxNr>>)
  BY <1>3, <1>5 DEF CalculateTxRange
<1>7. CASE out
  <2>1. ASSUME NEW n \in indexed, InInterval(f, n), InBounds(f, n)
        PROVE  FALSE
    <3>1. s <= chain[n].date /\ chain[n].date <= e /\ f.min <= n /\ (f.max # 0 => n <= f.max)
      BY <2>1, <1>3 DEF InBounds
    <3> QED
      BY <3>1, <1>1, <1>2, <1>4, <1>5, <1>7
  <2> QED
    BY <2>1, <1>6, <1>7
<1>8. CASE ~out /\ s = minDate /\ e = maxDate
  <2>1. CalculateTxRange(f) = Bounded(f, <<minNr, maxNr>>)
    BY <1>6, <1>8
  <2>2. maxNr # 0
    BY <1>1
  <2>3. /\ Bounded(f, <<minNr, maxNr>>) \subseteq minNr..maxNr
        /\ \A n \in Nat : n \in Bounded(f, <<minNr, maxNr>>) <=> minNr <= n /\ n <= maxNr /\ InBounds(f, n)
    BY <2>2, <1>1, BoundedExact
  <2>4. \A n \in indexed : InInterval(f, n)
    BY <1>2, <1>3, <1>8
  <2> QED
    BY <2>1, <2>3, <2>4, <1>2
<1>9. CASE ~out /\ ~(s = minDate /\ e = maxDate)
  <2>1. s <= maxDate /\ minDate <= e
    BY <1>1, <1>5, <1>9
  <2>2. CalculateTxRange(f) = Bounded(f, GetTxRangeOfInterval(s, e))
    BY <1>6, <1>9
  <2>3. \A n \in indexed :
           NotHidden(f, n) /\ InInterval(f, n) => GetTxRangeOfInterval(s, e) # <<0, 0>>
    <3>1. \A n \in indexed :
             /\ minDate <= s \/ Day(s) = 0 \/ Month(minDate) < Month(chain[n].date)
             /\ s <= chain[n].date /\ chain[n].date <= e
             => GetTxRangeOfInterval(s, e) # <<0, 0>>
      BY <1>3, <2>1, RangeExact
    <3> QED
      BY <3>1, <1>3
  <2>4. CASE GetTxRangeOfInterval(s, e) = <<0, 0>>
    <3>1. CalculateTxRange(f) = {}
      BY <2>2, <2>4 DEF Bounded
    <3> QED
      BY <3>1, <2>3, <2>4
  <2>5. CASE GetTxRangeOfInterval(s, e) # <<0, 0>>
    <3>1. PICK a \in Nat, b \in indexed :
             /\ GetTxRangeOfInterval(s, e) = <<a, b>> /\ minNr <= a
             /\ \A n \in indexed : /\ a <= n <=> s <= chain[n].date
                                   /\ n <= b <=> chain[n].date <= e
      BY <1>3, <2>1, <2>5, RangeExact
    <3>2. b \in Nat /\ b # 0 /\ b <= maxNr
      <4>1. b \in Nat /\ minNr <= b /\ b <= maxNr
        BY <1>2
      <4> QED
        BY <4>1, <1>1
    <3>3. /\ CalculateTxRange(f) \subseteq a..b
          /\ \A n \in Nat : n \in CalculateTxRange(f) <=> a <= n /\ n <= b /\ InBounds(f, n)
      BY <2>2, <3>1, <3>2, BoundedExact
    <3>4. a..b \subseteq minNr..maxNr
      BY <3>1, <3>2, <1>1
    <3>5. \A n \in indexed : n \in CalculateTxRange(f) <=> InInterval(f, n) /\ InBounds(f, n)
      BY <3>1, <3>3, <1>2, <1>3
    <3> QED
      BY <3>3, <3>4, <3>5
  <2> QED
    BY <2>4, <2>5
<1> QED
  BY <1>7, <1>8, <1>9

\* What the bitmaps leave of the numbers of the index.
BySelection(f, c) ==
    /\ f.type \in {None, c.type}
    /\ f.search = "balance" => f.key \in c.balance
    /\ f.search = "involved" => Involved(c, f.key)
    /\ f.coin \in {None, OwnCoin} \cup c.coins

\* Of the numbers indexed, the intersected bitmaps leave those whose content the filter describes.
LEMMA SelectionExact ==
    ASSUME IndexInv, indexed # {}, NEW f \in Filter, NEW n \in indexed
    PROVE  n \in AggregateTransactions(f) <=> n \in CalculateTxRange(f) /\ BySelection(f, chain[n].content)
<1>1. PICK c \in Content : c = chain[n].content
  BY IndexFacts
<1>2. /\ f.search # None => f.key \in Keys
      /\ f.type \in Types \cup {None} /\ f.coin \in Coins \cup {None}
  BY DEF Filter
<1>3. f.type # None => (n \in typeTx[f.type] <=> f.type = c.type)
  <2>1. \A t \in Types : typeTx[t] = {m \in indexed : chain[m].content.type = t}
    BY DEF IndexInv, BitmapsExact
  <2> QED
    BY <2>1, <1>1, <1>2
<1>4. f.search # None => /\ n \in balanceTx[f.key] <=> f.key \in c.balance
                         /\ n \in signedTx[f.key] <=> f.key \in c.signed
                         /\ n \in otherTx[f.key] <=> f.key \in c.other
  BY <1>1, <1>2 DEF IndexInv, BitmapsExact
<1>5. /\ f.coin \notin {None, OwnCoin} => (n \in otherCoinTx[f.coin] <=> f.coin \in c.coins)
      /\ f.coin = OwnCoin => n \notin otherCoinTx[f.coin]
  <2>1. \A t \in Coins : otherCoinTx[t] = {m \in indexed : t \in chain[m].content.coins \ {OwnCoin}}
    BY DEF IndexInv, BitmapsExact
  <2> QED
    BY <2>1, <1>1, <1>2, ContentsAssumption
<1>6. "balance" # None /\ "involved" # None
  BY DEF None
<1> QED
  BY <1>1, <1>3, <1>4, <1>5, <1>6 DEF AggregateTransactions, BySelection, Involved

\* What a filter describes, in the parts the code decides one by one.
LEMMA MatchingExact ==
    ASSUME NEW f \in Filter, NEW n
    PROVE  n \in Matching(f) <=>
             n \in indexed /\ InInterval(f, n) /\ InBounds(f, n) /\ BySelection(f, chain[n].content)
BY DEF Matching, InInterval, InBounds, BySelection

\* The bitmaps hold numbers of the index only; where none is asked, the numbers
\* between its bounds have to be those of the index.
LEMMA AggregateIndexed ==
    ASSUME IndexInv, indexed # {}, NEW f \in Filter,
           \/ f.type # None \/ f.search # None \/ f.coin \notin {None, OwnCoin}
           \/ indexed = minNr..maxNr
    PROVE  AggregateTransactions(f) \subseteq indexed
<1>1. /\ f.search # None => f.key \in Keys
      /\ f.type \in Types \cup {None} /\ f.coin \in Coins \cup {None}
      /\ f.search \in {None, "balance", "involved"}
  BY DEF Filter
<1>2. /\ f.type # None => typeTx[f.type] \subseteq indexed
      /\ f.search # None => balanceTx[f.key] \cup signedTx[f.key] \cup otherTx[f.key] \subseteq indexed
      /\ f.coin \notin {None, OwnCoin} => otherCoinTx[f.coin] \subseteq indexed
  BY <1>1 DEF IndexInv, BitmapsExact
<1>3. CASE f.type # None \/ f.search # None \/ f.coin \notin {None, OwnCoin}
  BY <1>1, <1>2, <1>3 DEF AggregateTransactions
<1>4. CASE indexed = minNr..maxNr
  BY <1>4, TxRangeExact DEF AggregateTransactions
<1> QED
  BY <1>3, <1>4

\* Such a lookup aggregates what its filter describes.
LEMMA AggregateExact ==
    ASSUME IndexInv, indexed # {}, NEW f \in Filter, Exact(f)
    PROVE  AggregateTransactions(f) = Matching(f)
<1>1. AggregateTransactions(f) \subseteq indexed
  BY AggregateIndexed DEF Exact
<1>2. \A n \in indexed : NotHidden(f, n)
  BY DEF Exact, NotHidden
<1>3. ASSUME NEW n \in indexed
      PROVE  n \in AggregateTransactions(f) <=> n \in Matching(f)
  <2>1. n \in CalculateTxRange(f) <=> InInterval(f, n) /\ InBounds(f, n)
    BY <1>2, TxRangeExact
  <2> QED
    BY <2>1, SelectionExact, MatchingExact
<1>4. Matching(f) \subseteq indexed
  BY DEF Matching
<1> QED
  BY <1>1, <1>3, <1>4

\* What a filter describes is a finite set of numbers.
LEMMA MatchingFinite ==
    ASSUME IndexInv, NEW f
    PROVE  Matching(f) \in SUBSET Nat /\ IsFiniteSet(Matching(f)) /\ IsFiniteSet(indexed) /\ indexed \in SUBSET Nat
<1>1. chain \in Seq(Tx) /\ indexed \in SUBSET (1..Len(chain))
  BY DEF IndexInv, IndexTypes
<1>2. Len(chain) \in Nat /\ 1 \in Int /\ Len(chain) \in Int
  BY <1>1
<1>3. IsFiniteSet(1..Len(chain))
  BY <1>2, FS_Interval
<1>4. IsFiniteSet(indexed) /\ Matching(f) \in SUBSET indexed /\ indexed \in SUBSET Nat
  <2>1. IsFiniteSet(indexed)
    BY <1>1, <1>3, FS_Subset
  <2>2. \A n \in 1..Len(chain) : n \in Nat
    BY <1>2
  <2>3. Matching(f) \subseteq indexed
    BY DEF Matching
  <2> QED
    BY <2>1, <2>2, <2>3, <1>1
<1>5. IsFiniteSet(Matching(f))
  BY <1>4, FS_Subset
<1> QED
  BY <1>4, <1>5

\* findTransactions and countTransactions answer what the chain says.
LEMMA LookupExact ==
    ASSUME IndexInv, NEW f \in Filter, Exact(f)
    PROVE  /\ FindTransactions(f) = Page(f)
           /\ CountTransactions(f) = Cardinality(Matching(f))
<1>1. Matching(f) \in SUBSET Nat /\ IsFiniteSet(Matching(f))
  BY MatchingFinite
<1>2. PageOf(f, Matching(f)) = PageOfAll(f, Matching(f))
  BY <1>1, PageExact DEF Exact
<1>3. Page(f) = PageOfAll(f, Matching(f))
  BY DEF Page, PageOfAll
<1>4. CASE indexed = {}
  <2>1. Matching(f) = {} /\ minNr = 0 /\ maxNr = 0
    BY <1>4 DEF Matching, IndexInv, NothingIndexed
  <2>2. PageOf(f, {}) = <<>> /\ Cardinality({}) = 0
    BY FS_EmptySet DEF PageOf
  <2> QED
    BY <2>1, <2>2, <1>2, <1>3 DEF FindTransactions, CountTransactions
<1>5. CASE indexed # {}
  <2>1. ~(minNr = 0 /\ maxNr = 0)
    BY <1>5, IndexFacts
  <2>2. AggregateTransactions(f) = Matching(f)
    BY <1>5, AggregateExact
  <2> QED
    BY <2>1, <2>2, <1>2, <1>3 DEF FindTransactions, CountTransactions
<1> QED
  BY <1>4, <1>5

\* The invariant implies the property of the run.
LEMMA LookupsFromIndex == IndexInv => LookupsExact
<1>1. SUFFICES ASSUME IndexInv PROVE LookupsExact
  OBVIOUS
<1>2. TypeOK
  BY <1>1, TypesAreOK DEF IndexInv
<1>3. ASSUME NEW f \in Filters, Exact(f)
      PROVE  /\ FindTransactions(f) = Page(f)
             /\ CountTransactions(f) = Cardinality(Matching(f))
  <2>1. f \in Filter
    BY FiltersAssumption
  <2> QED
    BY <1>1, <1>3, <2>1, LookupExact
<1> QED
  BY <1>2, <1>3 DEF LookupsExact

\* Of whatever transactions are added, in the order of their dates, with additions that
\* fail and with resets in between: every lookup by findTransactions returns the page of
\* the transactions its filter describes, and countTransactions their number, for every
\* filter answered exactly.
THEOREM LookupsStayExact == Spec => []LookupsExact
<1>1. Init => IndexInv
  BY InitIndex
<1>2. IndexInv /\ [Next]_vars => IndexInv'
  BY NextIndex
<1>3. IndexInv => LookupsExact
  BY LookupsFromIndex
<1> QED
  BY <1>1, <1>2, <1>3, PTL DEF Spec
-----------------------------------------------------------------------------
(* What a lookup without pages finds.                                      *)

\* Ordering a set neither loses nor adds a member.
LEMMA OrderedAll ==
    ASSUME NEW S \in SUBSET Nat, IsFiniteSet(S), NEW direction
    PROVE  {Ordered(S, direction)[i] : i \in DOMAIN Ordered(S, direction)} = S
<1>1. PICK n \in Nat : n = Cardinality(S)
  BY FS_CardinalityType
<1>2. PICK all : all = Ordered(S, direction)
  OBVIOUS
<1>3. all = [i \in 1..n |-> Select(S, IF direction = "asc" THEN i - 1 ELSE n - i)]
  BY <1>1, <1>2 DEF Ordered
<1>4. \A k \in 0..(n - 1) : Select(S, k) \in S
  BY <1>1, Selected
<1>5. \A i \in 1..n : all[i] \in S
  <2>1. ASSUME NEW i \in 1..n
        PROVE  all[i] \in S
    <3>1. i - 1 \in 0..(n - 1) /\ n - i \in 0..(n - 1)
      OBVIOUS
    <3> QED
      BY <3>1, <1>3, <1>4
  <2> QED
    BY <2>1
<1>6. ASSUME NEW x \in S
      PROVE  \E i \in 1..n : all[i] = x
  <2>1. PICK k \in 0..(n - 1) : k = Rank(S, x) /\ Select(S, k) = x
    BY <1>1, RankBounds, Selected
  <2>2. CASE direction = "asc"
    <3>1. k + 1 \in 1..n /\ (k + 1) - 1 = k
      OBVIOUS
    <3> QED
      BY <2>1, <2>2, <3>1, <1>3
  <2>3. CASE direction # "asc"
    <3>1. n - k \in 1..n /\ n - (n - k) = k
      OBVIOUS
    <3> QED
      BY <2>1, <2>3, <3>1, <1>3
  <2> QED
    BY <2>2, <2>3
<1>7. DOMAIN all = 1..n
  BY <1>3
<1>8. {all[i] : i \in DOMAIN all} = S
  BY <1>5, <1>6, <1>7
<1> QED
  BY <1>2, <1>8

\* The numbers a filter without pages finds are those it aggregates.
LEMMA FoundAll ==
    ASSUME IndexInv, NEW f \in Filter, f.size = 0, f.page = 0,
           indexed # {} => AggregateTransactions(f) \subseteq indexed,
           NEW found, found = FindTransactions(f)
    PROVE  {found[i] : i \in DOMAIN found} = IF indexed = {} THEN {} ELSE AggregateTransactions(f)
<1>1. CASE indexed = {}
  <2>1. found = <<>>
    BY <1>1 DEF FindTransactions, IndexInv, NothingIndexed
  <2> QED
    BY <1>1, <2>1
<1>2. CASE indexed # {}
  <2>1. PICK S : S = AggregateTransactions(f)
    OBVIOUS
  <2>2. S \in SUBSET Nat /\ IsFiniteSet(S)
    <3>1. IsFiniteSet(indexed) /\ indexed \in SUBSET Nat
      BY MatchingFinite
    <3> QED
      BY <3>1, <1>2, <2>1, FS_Subset
  <2>3. found = PageOf(f, S)
    <3>1. ~(minNr = 0 /\ maxNr = 0)
      BY <1>2, IndexFacts
    <3> QED
      BY <3>1, <2>1 DEF FindTransactions
  <2>4. SkipEntriesCount(f) = 0
    BY DEF SkipEntriesCount
  <2>5. CASE S = {}
    <3>1. found = <<>>
      BY <2>3, <2>5 DEF PageOf
    <3> QED
      BY <3>1, <2>1, <2>5, <1>2
  <2>6. CASE S # {}
    <3>1. ~(Cardinality(S) <= 0)
      BY <2>2, <2>6, SelectedEnds
    <3>2. found = Ordered(S, f.direction)
      BY <2>3, <2>4, <2>6, <3>1 DEF PageOf
    <3>3. {found[i] : i \in DOMAIN found} = S
      BY <2>2, <3>2, OrderedAll
    <3> QED
      BY <3>3, <2>1, <1>2
  <2> QED
    BY <2>5, <2>6
<1> QED
  BY <1>1, <1>2

-----------------------------------------------------------------------------
(* The sum of three months.                                                *)

\* The transactions the creations are made of.
LEMMA CreationParts ==
    /\ Root \in Content /\ Registration \in Content /\ Creation \in Content
    /\ Creation.type \in Types /\ Creation.type # None
    /\ Creation.type # Root.type /\ Creation.type # Registration.type
    /\ Recipient \in Creation.balance /\ Recipient \in Keys
<1>1. Root \in Content /\ Registration \in Content /\ Creation \in Content
  BY CreationAssumption, ContentsAssumption
<1>2. Creation.type \in Types /\ Creation.balance \subseteq Keys
  BY <1>1 DEF Content
<1> QED
  BY <1>1, <1>2, CreationAssumption

\* Receiving a creation of the three months preserves the invariant.
LEMMA MonthsIndex == IndexInv /\ [MonthsNext]_vars => IndexInv'
<1>1. SUFFICES ASSUME IndexInv, [MonthsNext]_vars PROVE IndexInv'
  OBVIOUS
<1>2. CASE Begin
  <2>1. 0 \in Dates /\ Root \in Content
    BY SizesAssumption, CreationParts DEF Dates
  <2> QED
    BY <1>1, <1>2, <2>1, AddIndex DEF Begin
<1>3. ASSUME NEW date \in Received, Receive(date)
      PROVE  IndexInv'
  <2>1. date \in Dates /\ Creation \in Content
    BY ThreeMonthsAssumption, CreationParts
  <2> QED
    BY <1>1, <1>3, <2>1, AddIndex DEF Receive
<1>4. CASE UNCHANGED vars
  BY <1>1, <1>4, SameIndex
<1> QED
  BY <1>1, <1>2, <1>3, <1>4 DEF MonthsNext

\* The filter is one that is answered exactly: its interval starts on the first of a
\* month and it asks for a type.
LEMMA MonthsFilterExact ==
    ASSUME IndexInv, NEW d \in Received
    PROVE  MonthsFilter(d) \in Filter /\ Exact(MonthsFilter(d))
<1>1. d \in Nat /\ d \in Dates /\ Month(d) >= 2
  BY ThreeMonthsAssumption, SizesAssumption DEF Dates, MonthsBack
<1>2. PICK m \in Nat : m = Month(d) - 2 /\ Month(d) = m + 2
  BY <1>1, DateParts
<1>3. PICK s \in Nat : s = m * DaysPerMonth /\ Day(s) = 0
  <2>1. 0 \in 0..(DaysPerMonth - 1) /\ m * DaysPerMonth \in Nat
    BY SizesAssumption, ProductNat
  <2>2. Day(m * DaysPerMonth + 0) = 0
    BY <2>1, DateOfParts
  <2> QED
    BY <2>1, <2>2
<1>4. PICK e \in Nat : e = Month(d) * DaysPerMonth /\ e <= d
  BY <1>1, DateParts, SizesAssumption
<1>5. s <= e
  <2>1. m <= m + 2 /\ m + 2 \in Nat /\ DaysPerMonth \in Nat
    BY SizesAssumption
  <2>2. m * DaysPerMonth <= (m + 2) * DaysPerMonth
    BY <2>1, ProductMonotone
  <2> QED
    BY <2>2, <1>2, <1>3, <1>4
<1>6. s \in Dates /\ e \in Dates
  BY <1>1, <1>3, <1>4, <1>5, SizesAssumption DEF Dates
<1>7. PICK i : i = <<s, e>> /\ i \in Dates \X Dates /\ i[1] = s /\ i[2] = e /\ i[1] <= i[2]
  <2>1. <<s, e>> \in Dates \X Dates /\ <<s, e>>[1] = s /\ <<s, e>>[2] = e /\ <<s, e>>[1] <= <<s, e>>[2]
    BY <1>5, <1>6
  <2> QED
    BY <2>1
<1>8. MonthsFilter(d) = [interval |-> i,
     min |-> 0, max |-> Len(chain), type |-> Creation.type,
     search |-> "balance", key |-> Recipient, coin |-> None,
     direction |-> "desc", size |-> 0, page |-> 0]
  BY <1>2, <1>3, <1>4, <1>7 DEF MonthsFilter, MonthsBack
<1>9. Len(chain) \in Nat
  <2>1. chain \in Seq(Tx)
    BY DEF IndexInv, IndexTypes
  <2> QED
    BY <2>1
<1>10. MonthsFilter(d) \in Filter
  BY <1>7, <1>8, <1>9, CreationParts DEF Filter
<1>11. Exact(MonthsFilter(d))
  BY <1>3, <1>7, <1>8, CreationParts DEF Exact
<1> QED
  BY <1>10, <1>11

\* The comparison of calendar months, with differences modulo twelve.
LEMMA MonthsModulo ==
    ASSUME NEW d \in Nat, NEW c \in Nat, Month(c) < Month(d), Month(d) <= Month(c) + 2,
           Month(d) = Month(c) + 2 \/ CalendarMonth(d) # 0
    PROVE  CountsAmount(d, c)
<1>1. PICK m \in Nat : m = Month(d)
  BY DateParts
<1>2. PICK k \in Nat : k = Month(c)
  BY DateParts
<1>3. PICK y \in Nat, p \in 0..11 : m = 12 * y + p /\ y = m \div 12 /\ p = m % 12
  OBVIOUS
<1>4. PICK z \in Nat, q \in 0..11 : k = 12 * z + q /\ z = k \div 12 /\ q = k % 12
  OBVIOUS
<1>5. /\ Year(d) = y /\ CalendarMonth(d) = p
      /\ Year(c) = z /\ CalendarMonth(c) = q
  BY <1>1, <1>2, <1>3, <1>4 DEF Year, CalendarMonth, MonthsPerYear
<1>6. CASE y = z
  <2>1. p - q \in {1, 2}
    BY <1>1, <1>2, <1>3, <1>4, <1>6
  <2>2. (p - q) % 12 <= 2
    BY <2>1
  <2> QED
    BY <1>5, <1>6, <2>2 DEF CountsAmount, MonthsPerYear, MonthsBack
<1>7. CASE y # z
  <2>1. y - z = 1
    BY <1>1, <1>2, <1>3, <1>4, <1>7
  <2>2. p = q - 10 /\ p \in {0, 1}
    BY <1>1, <1>2, <1>3, <1>4, <1>5, <2>1
  <2>3. (q - 10) % 12 = p
    BY <2>2
  <2> QED
    BY <1>5, <2>1, <2>3 DEF CountsAmount, MonthsPerYear
<1> QED
  BY <1>6, <1>7

\* The invariant implies that creations of two months ago are counted.
LEMMA CountedFromIndex == IndexInv => CountedTwoMonthsOn
<1>1. SUFFICES ASSUME IndexInv, NEW d \in Upcoming, NEW n \in Creations
               PROVE  LET distance == Month(d) - Month(chain[n].date)
                      IN  /\ distance = MonthsBack \/ (distance = 1 /\ CalendarMonth(d) # 0) => n \in Counted(d)
                          /\ distance > MonthsBack => n \notin Counted(d)
  BY DEF CountedTwoMonthsOn
<1>2. d \in Received /\ n \in indexed /\ indexed # {} /\ chain[n].content = Creation
  BY DEF Upcoming, Creations
<1>3. PICK f \in Filter : f = MonthsFilter(d) /\ Exact(f)
  BY <1>1, <1>2, MonthsFilterExact
<1>4. /\ f.interval = <<(Month(d) - 2) * DaysPerMonth, Month(d) * DaysPerMonth>>
      /\ f.min = 0 /\ f.max = Len(chain) /\ f.type = Creation.type /\ f.search = "balance"
      /\ f.key = Recipient /\ f.coin = None /\ f.size = 0 /\ f.page = 0
  BY <1>3 DEF MonthsFilter, MonthsBack
<1>5. AggregateTransactions(f) = Matching(f)
  BY <1>1, <1>2, <1>3, AggregateExact
<1>6. PICK found : found = FindTransactions(f)
  OBVIOUS
<1>7. {found[i] : i \in DOMAIN found} = Matching(f)
  <2>1. Matching(f) \subseteq indexed
    BY DEF Matching
  <2>2. {found[i] : i \in DOMAIN found} = IF indexed = {} THEN {} ELSE AggregateTransactions(f)
    BY <1>1, <1>4, <1>5, <1>6, <2>1, FoundAll
  <2> QED
    BY <2>2, <1>2, <1>5
<1>8. Counted(d) = {j \in Matching(f) : CountsAmount(d, chain[j].date)}
  BY <1>3, <1>6, <1>7 DEF Counted
<1>9. PICK c \in Nat : c = chain[n].date
  BY <1>1, <1>2, IndexFacts
<1>10. d \in Nat /\ Month(d) \in Nat /\ Month(c) \in Nat /\ Month(d) >= 2
  <2>1. d \in Dates /\ Month(d) >= 2
    BY <1>2, ThreeMonthsAssumption DEF MonthsBack
  <2>2. d \in Nat
    BY <2>1, SizesAssumption DEF Dates
  <2> QED
    BY <2>1, <2>2, DateParts
<1>11. PICK m \in Nat : m = Month(d) - 2
  BY <1>10
<1>12. PICK k \in Nat, day \in 0..(DaysPerMonth - 1) : k = Month(c) /\ c = k * DaysPerMonth + day
  BY DateParts
<1>13. /\ DaysPerMonth \in Nat \ {0} /\ m * DaysPerMonth \in Nat /\ k * DaysPerMonth \in Nat
       /\ (m + 2) * DaysPerMonth = m * DaysPerMonth + 2 * DaysPerMonth
       /\ (k + 1) * DaysPerMonth = k * DaysPerMonth + DaysPerMonth
  BY SizesAssumption, ProductNat
<1>14. f.interval[1] = m * DaysPerMonth /\ f.interval[2] = (m + 2) * DaysPerMonth /\ f.interval # Always
  <2>1. f.interval = <<m * DaysPerMonth, (m + 2) * DaysPerMonth>>
    BY <1>4, <1>10, <1>11
  <2>2. m * DaysPerMonth # -1
    BY <1>13
  <2> QED
    BY <2>1, <2>2 DEF Always, NoDate
<1>15. ASSUME k < m + 2, m <= k, m = k \/ CalendarMonth(d) # 0
       PROVE  n \in Counted(d)
  <2>1. m * DaysPerMonth <= k * DaysPerMonth /\ (k + 1) * DaysPerMonth <= (m + 2) * DaysPerMonth
    BY <1>13, <1>15, ProductMonotone
  <2>2. m * DaysPerMonth <= c /\ c <= (m + 2) * DaysPerMonth
    BY <2>1, <1>12, <1>13
  <2>3. InInterval(f, n)
    BY <2>2, <1>9, <1>13, <1>14 DEF InInterval
  <2>4. InBounds(f, n)
    BY <1>1, <1>2, <1>4, IndexFacts DEF InBounds
  <2>5. BySelection(f, chain[n].content)
    BY <1>2, <1>4, CreationParts DEF BySelection
  <2>6. n \in Matching(f)
    BY <1>2, <2>3, <2>4, <2>5, MatchingExact
  <2>7. CountsAmount(d, c)
    <3>1. Month(c) < Month(d) /\ Month(d) <= Month(c) + 2 /\ (Month(d) = Month(c) + 2 \/ CalendarMonth(d) # 0)
      BY <1>10, <1>11, <1>12, <1>15
    <3> QED
      BY <3>1, <1>10, MonthsModulo
  <2> QED
    BY <2>6, <2>7, <1>8, <1>9
<1>16. ASSUME k < m
       PROVE  n \notin Counted(d)
  <2>1. (k + 1) * DaysPerMonth <= m * DaysPerMonth
    BY <1>13, <1>16, ProductMonotone
  <2>2. c < m * DaysPerMonth
    BY <2>1, <1>12, <1>13
  <2>3. ~InInterval(f, n)
    BY <2>2, <1>9, <1>13, <1>14 DEF InInterval
  <2> QED
    BY <2>3, <1>8, MatchingExact
<1> QED
  BY <1>9, <1>10, <1>11, <1>12, <1>15, <1>16 DEF MonthsBack

\* Whatever creations are received, in the order of their dates: one that the index
\* knows is counted by the sum of three months in the two months after its own, the
\* January after a December aside, and never beyond them.
THEOREM CountedTwoMonths == MonthsSpec => []CountedTwoMonthsOn
<1>1. Init => IndexInv
  BY InitIndex
<1>2. IndexInv /\ [MonthsNext]_vars => IndexInv'
  BY MonthsIndex
<1>3. IndexInv => CountedTwoMonthsOn
  BY CountedFromIndex
<1> QED
  BY <1>1, <1>2, <1>3, PTL DEF MonthsSpec
-----------------------------------------------------------------------------
(* The calendar.                                                           *)

\* What integer division by a unit computes.
LEMMA Quotient ==
    ASSUME NEW t \in Nat, NEW u \in Nat \ {0}
    PROVE  /\ t \div u \in Nat
           /\ \A a \in Nat : a <= t \div u <=> a * u <= t
<1>1. PICK q \in Nat, r \in 0..(u - 1) : q = t \div u /\ t = q * u + r
  <2>1. t \div u \in Nat /\ t % u \in 0..(u - 1) /\ t = (t \div u) * u + (t % u)
    BY ProductNat
  <2> QED
    BY <2>1
<1>2. ASSUME NEW a \in Nat
      PROVE  a <= q <=> a * u <= t
  <2>1. a * u \in Nat /\ q * u \in Nat
    BY ProductNat
  <2>2. CASE a <= q
    <3>1. a * u <= q * u
      BY <2>2, ProductMonotone
    <3> QED
      BY <3>1, <2>1, <2>2, <1>1
  <2>3. CASE q < a
    <3>1. (q + 1) * u <= a * u
      BY <2>3, ProductMonotone
    <3>2. (q + 1) * u = q * u + u
      OBVIOUS
    <3> QED
      BY <3>1, <3>2, <2>1, <2>3, <1>1
  <2> QED
    BY <2>2, <2>3
<1> QED
  BY <1>1, <1>2

\* The times the calendar has months for.
InCalendar(t) == t \in Nat /\ t < FirstDay[LastMonth] * UnitsPerDay

\* The month of a time is the one whose days it is in.
LEMMA MonthOfTime ==
    ASSUME NEW t, InCalendar(t)
    PROVE  \E m \in Nat, day \in Nat :
              /\ m = MonthOf(t) /\ m \in Months /\ m < LastMonth /\ m + 1 \in Months
              /\ day = t \div UnitsPerDay
              /\ FirstDay[m] <= day /\ day < FirstDay[m + 1]
              /\ FirstDay[m] * UnitsPerDay <= t /\ t < FirstDay[m + 1] * UnitsPerDay
              /\ day - FirstDay[m] \in 0..(DaysPerMonth - 1)
              /\ \A k \in Months : FirstDay[k] <= day => k <= m
<1>1. /\ LastMonth \in Nat /\ UnitsPerDay \in Nat \ {0} /\ \A k \in Months : FirstDay[k] \in Nat /\ k \in Nat
      /\ FirstDay[0] = 0 /\ 0 \in Months /\ LastMonth \in Months
      /\ \A k, n \in Months : k < n => FirstDay[k] < FirstDay[n]
      /\ \A k \in Months \ {LastMonth} : FirstDay[k + 1] - FirstDay[k] <= DaysPerMonth
  BY CalendarAssumption DEF Months
<1>2. t \in Nat /\ t < FirstDay[LastMonth] * UnitsPerDay
  BY DEF InCalendar
<1>3. PICK day \in Nat : day = t \div UnitsPerDay /\ \A a \in Nat : a <= day <=> a * UnitsPerDay <= t
  BY <1>1, <1>2, Quotient
<1>4. PICK S : S = {k \in Months : FirstDay[k] <= day}
  OBVIOUS
<1>5. S \in SUBSET Nat /\ IsFiniteSet(S) /\ S # {}
  <2>1. S \in SUBSET Months /\ Months \in SUBSET Nat
    BY <1>1, <1>4
  <2>2. IsFiniteSet(Months)
    <3>1. 0 \in Int /\ LastMonth \in Int
      BY <1>1
    <3> QED
      BY <3>1, FS_Interval DEF Months
  <2>3. 0 \in S
    BY <1>1, <1>3, <1>4
  <2> QED
    BY <2>1, <2>2, <2>3, FS_Subset
<1>6. PICK m \in Nat : m = Max(S) /\ m \in S /\ \A k \in S : k <= m
  BY <1>5, SelectedEnds
<1>7. m = MonthOf(t)
  BY <1>3, <1>4, <1>6 DEF MonthOf
<1>8. m \in Months /\ FirstDay[m] <= day /\ FirstDay[m] \in Nat
  BY <1>1, <1>4, <1>6
<1>9. m < LastMonth
  <2>1. SUFFICES ASSUME m = LastMonth PROVE FALSE
    BY <1>1, <1>8 DEF Months
  <2>2. FirstDay[LastMonth] * UnitsPerDay <= t /\ FirstDay[LastMonth] * UnitsPerDay \in Nat
    BY <2>1, <1>1, <1>3, <1>8, ProductNat
  <2> QED
    BY <2>2, <1>2
<1>10. m + 1 \in Months /\ m + 1 \in Nat
  BY <1>1, <1>9 DEF Months
<1>11. day < FirstDay[m + 1]
  <2>1. m + 1 \notin S
    BY <1>6
  <2> QED
    BY <2>1, <1>1, <1>3, <1>4, <1>10
<1>12. FirstDay[m] * UnitsPerDay <= t /\ t < FirstDay[m + 1] * UnitsPerDay
  <2>1. FirstDay[m + 1] \in Nat /\ ~(FirstDay[m + 1] <= day)
    BY <1>1, <1>10, <1>11
  <2>2. FirstDay[m + 1] * UnitsPerDay \in Nat
    BY <2>1, <1>1, ProductNat
  <2>3. ~(FirstDay[m + 1] * UnitsPerDay <= t) /\ FirstDay[m] * UnitsPerDay <= t
    BY <2>1, <1>3, <1>8
  <2> QED
    BY <2>2, <2>3, <1>2
<1>13. day - FirstDay[m] \in 0..(DaysPerMonth - 1)
  <2>1. FirstDay[m + 1] - FirstDay[m] <= DaysPerMonth /\ FirstDay[m + 1] \in Nat
    BY <1>1, <1>8, <1>9, <1>10
  <2> QED
    BY <2>1, <1>8, <1>11, SizesAssumption
<1>14. \A k \in Months : FirstDay[k] <= day => k <= m
  BY <1>4, <1>6
<1> QED
  BY <1>3, <1>7, <1>8, <1>9, <1>10, <1>11, <1>12, <1>13, <1>14

\* The date of a time is one, in the month of the time.
LEMMA DateOfTime ==
    ASSUME NEW t, InCalendar(t)
    PROVE  DateOf(t) \in Dates /\ DateOf(t) \in Nat /\ Month(DateOf(t)) = MonthOf(t)
<1>1. PICK m \in Nat, day \in Nat :
         /\ m = MonthOf(t) /\ m < LastMonth /\ day = t \div UnitsPerDay
         /\ day - FirstDay[m] \in 0..(DaysPerMonth - 1)
  BY MonthOfTime
<1>2. PICK e \in 0..(DaysPerMonth - 1) : e = day - FirstDay[m]
  BY <1>1
<1>3. DateOf(t) = m * DaysPerMonth + e
  BY <1>1, <1>2 DEF DateOf
<1>4. m * DaysPerMonth + e \in Nat /\ Month(m * DaysPerMonth + e) = m
  BY DateOfParts
<1>5. /\ LastMonth \in Nat /\ LastMonth * DaysPerMonth <= MaxDate /\ DaysPerMonth \in Nat \ {0}
      /\ LastMonth * DaysPerMonth \in Nat /\ m * DaysPerMonth \in Nat /\ MaxDate \in Nat
  BY CalendarAssumption, SizesAssumption, ProductNat
<1>6. (m + 1) * DaysPerMonth <= LastMonth * DaysPerMonth
  BY <1>1, <1>5, ProductMonotone
<1>7. (m + 1) * DaysPerMonth = m * DaysPerMonth + DaysPerMonth
  BY <1>5
<1>8. m * DaysPerMonth + e <= MaxDate
  BY <1>5, <1>6, <1>7
<1> QED
  BY <1>1, <1>3, <1>4, <1>5, <1>8 DEF Dates

\* Dates follow each other as times do.
LEMMA DatesFollow ==
    ASSUME NEW t, NEW w, InCalendar(t), InCalendar(w), t <= w
    PROVE  DateOf(t) <= DateOf(w)
<1>1. PICK m \in Nat, day \in Nat :
         /\ m = MonthOf(t) /\ m \in Months /\ m < LastMonth /\ day = t \div UnitsPerDay
         /\ FirstDay[m] <= day
         /\ day - FirstDay[m] \in 0..(DaysPerMonth - 1)
         /\ \A k \in Months : FirstDay[k] <= day => k <= m
  BY MonthOfTime
<1>2. PICK n \in Nat, late \in Nat :
         /\ n = MonthOf(w) /\ n \in Months /\ n < LastMonth /\ late = w \div UnitsPerDay
         /\ late - FirstDay[n] \in 0..(DaysPerMonth - 1)
         /\ \A k \in Months : FirstDay[k] <= late => k <= n
  BY MonthOfTime
<1>3. /\ UnitsPerDay \in Nat \ {0} /\ FirstDay[m] \in Nat /\ FirstDay[n] \in Nat
      /\ DaysPerMonth \in Nat \ {0} /\ t \in Nat /\ w \in Nat
  BY <1>1, <1>2, CalendarAssumption, SizesAssumption DEF InCalendar
<1>4. day <= late
  <2>1. day * UnitsPerDay <= t /\ day * UnitsPerDay \in Nat
    BY <1>1, <1>3, Quotient, ProductNat
  <2>2. day * UnitsPerDay <= w
    BY <2>1, <1>3
  <2> QED
    BY <2>2, <1>2, <1>3, Quotient
<1>5. m <= n
  BY <1>1, <1>2, <1>3, <1>4
<1>6. PICK d \in 0..(DaysPerMonth - 1) : d = day - FirstDay[m]
  BY <1>1
<1>7. PICK e \in 0..(DaysPerMonth - 1) : e = late - FirstDay[n]
  BY <1>2
<1>8. DateOf(t) = m * DaysPerMonth + d /\ DateOf(w) = n * DaysPerMonth + e
  BY <1>1, <1>2, <1>6, <1>7 DEF DateOf
<1>9. m * DaysPerMonth \in Nat /\ n * DaysPerMonth \in Nat
  BY <1>3, ProductNat
<1>10. CASE m = n
  BY <1>3, <1>4, <1>6, <1>7, <1>8, <1>9, <1>10
<1>11. CASE m < n
  <2>1. (m + 1) * DaysPerMonth <= n * DaysPerMonth
    BY <1>3, <1>11, ProductMonotone
  <2>2. (m + 1) * DaysPerMonth = m * DaysPerMonth + DaysPerMonth
    BY <1>3
  <2> QED
    BY <2>1, <2>2, <1>3, <1>8, <1>9
<1> QED
  BY <1>5, <1>10, <1>11

-----------------------------------------------------------------------------
(* Sums of creations for a target month.                                   *)

\* SumFor, of the creations of a given function.
SumIn(cr, target, X) ==
    SumFunctionOnSet([n \in X |-> cr[n].amount], {n \in X : cr[n].target = target})

\* SumFor, with the creations it sums over as a parameter.
LEMMA SumForIs == \A target, X : SumFor(target, X) = SumIn(creation, target, X)
BY DEF SumFor, SumIn

\* Only the amounts matter, not what other creations there are.
LEMMA SumInAs ==
    ASSUME NEW cr, NEW target, NEW X, IsFiniteSet(X), \A n \in X : cr[n].amount \in Nat,
           NEW amounts, \A n \in X : amounts[n] = cr[n].amount,
           NEW T, T = {n \in X : cr[n].target = target}
    PROVE  SumIn(cr, target, X) = SumFunctionOnSet(amounts, T) /\ SumIn(cr, target, X) \in Nat
<1>1. PICK f : f = [n \in X |-> cr[n].amount]
  OBVIOUS
<1>2. IsFiniteSet(T) /\ T \subseteq X
  BY FS_Subset
<1>3. \A n \in T : f[n] \in Int /\ f[n] = amounts[n] /\ f[n] \in Nat
  BY <1>1, <1>2
<1>4. SumFunctionOnSet(f, T) = SumFunctionOnSet(amounts, T)
  BY <1>2, <1>3, SumSame
<1>5. SumFunctionOnSet(f, T) \in Nat
  BY <1>2, <1>3, SumNatural
<1> QED
  BY <1>1, <1>4, <1>5 DEF SumIn

\* The sum depends on the creations it sums over only.
LEMMA SumInSame ==
    ASSUME NEW cr, NEW other, NEW target, NEW X, IsFiniteSet(X),
           \A n \in X : cr[n].amount \in Nat /\ other[n] = cr[n]
    PROVE  SumIn(other, target, X) = SumIn(cr, target, X)
<1>1. PICK f : f = [n \in X |-> cr[n].amount]
  OBVIOUS
<1>2. PICK T : T = {n \in X : cr[n].target = target}
  OBVIOUS
<1>3. f = [n \in X |-> other[n].amount] /\ T = {n \in X : other[n].target = target}
  BY <1>1, <1>2
<1> QED
  BY <1>1, <1>2, <1>3 DEF SumIn

\* A part sums to no more than the whole.
LEMMA SumInPart ==
    ASSUME NEW cr, NEW target, NEW X, IsFiniteSet(X), \A n \in X : cr[n].amount \in Nat,
           NEW Y \in SUBSET X
    PROVE  SumIn(cr, target, Y) <= SumIn(cr, target, X)
<1>1. PICK f : f = [n \in X |-> cr[n].amount]
  OBVIOUS
<1>2. PICK T : T = {n \in X : cr[n].target = target}
  OBVIOUS
<1>3. PICK U : U = {n \in Y : cr[n].target = target}
  OBVIOUS
<1>4. IsFiniteSet(Y) /\ (\A n \in Y : cr[n].amount \in Nat /\ f[n] = cr[n].amount) /\ \A n \in X : f[n] = cr[n].amount
  BY <1>1, FS_Subset
<1>5. SumIn(cr, target, X) = SumFunctionOnSet(f, T)
  BY <1>2, <1>4, SumInAs
<1>6. SumIn(cr, target, Y) = SumFunctionOnSet(f, U)
  BY <1>3, <1>4, SumInAs
<1>7. IsFiniteSet(T) /\ U \in SUBSET T /\ \A n \in T : f[n] \in Nat
  BY <1>2, <1>3, <1>4, FS_Subset
<1>8. SumFunctionOnSet(f, U) <= SumFunctionOnSet(f, T)
  BY <1>7, SumOfSubset
<1> QED
  BY <1>5, <1>6, <1>8

\* A sum is at most that of a part and that of what covers the rest.
LEMMA SumInCover ==
    ASSUME NEW cr, NEW target, NEW X, IsFiniteSet(X), \A n \in X : cr[n].amount \in Nat,
           NEW Y \in SUBSET X, NEW Z \in SUBSET X, X \subseteq Y \cup Z
    PROVE  SumIn(cr, target, X) <= SumIn(cr, target, Y) + SumIn(cr, target, Z)
<1>1. PICK f : f = [n \in X |-> cr[n].amount]
  OBVIOUS
<1>2. PICK T : T = {n \in X : cr[n].target = target}
  OBVIOUS
<1>3. PICK U : U = {n \in Y : cr[n].target = target}
  OBVIOUS
<1>4. PICK V : V = {n \in Z : cr[n].target = target}
  OBVIOUS
<1>5. /\ IsFiniteSet(Y) /\ IsFiniteSet(Z)
      /\ \A n \in X : f[n] = cr[n].amount /\ f[n] \in Nat
      /\ \A n \in Y : f[n] = cr[n].amount /\ cr[n].amount \in Nat
      /\ \A n \in Z : f[n] = cr[n].amount /\ cr[n].amount \in Nat
  BY <1>1, FS_Subset
<1>6. SumIn(cr, target, X) = SumFunctionOnSet(f, T)
  BY <1>2, <1>5, SumInAs
<1>7. SumIn(cr, target, Y) = SumFunctionOnSet(f, U) /\ SumFunctionOnSet(f, U) \in Nat
  <2>1. IsFiniteSet(Y) /\ (\A n \in Y : cr[n].amount \in Nat) /\ \A n \in Y : f[n] = cr[n].amount
    BY <1>5
  <2>2. SumIn(cr, target, Y) = SumFunctionOnSet(f, U) /\ SumIn(cr, target, Y) \in Nat
    BY ONLY <2>1, <1>3, SumInAs
  <2> QED
    BY <2>2
<1>8. SumIn(cr, target, Z) = SumFunctionOnSet(f, V) /\ SumFunctionOnSet(f, V) \in Nat
  <2>1. IsFiniteSet(Z) /\ (\A n \in Z : cr[n].amount \in Nat) /\ \A n \in Z : f[n] = cr[n].amount
    BY <1>5
  <2>2. SumIn(cr, target, Z) = SumFunctionOnSet(f, V) /\ SumIn(cr, target, Z) \in Nat
    BY ONLY <2>1, <1>4, SumInAs
  <2> QED
    BY <2>2
<1>9. /\ T \in SUBSET X /\ U \in SUBSET T /\ V \in SUBSET T /\ T \ U \in SUBSET V
      /\ \A n \in T : f[n] \in Int
  BY <1>2, <1>3, <1>4, <1>5
<1>10. IsFiniteSet(T)
  BY <1>9, FS_Subset
<1>11. SumFunctionOnSet(f, T) = SumFunctionOnSet(f, U) + SumFunctionOnSet(f, T \ U) /\ SumFunctionOnSet(f, T \ U) \in Int
  BY <1>9, <1>10, SumOfParts
<1>12. SumFunctionOnSet(f, T \ U) <= SumFunctionOnSet(f, V)
  <2>1. IsFiniteSet(V) /\ \A n \in V : f[n] \in Nat
    BY <1>2, <1>5, <1>9, <1>10, FS_Subset
  <2> QED
    BY <2>1, <1>9, SumOfSubset
<1> QED
  BY <1>6, <1>7, <1>8, <1>11, <1>12

\* The sum of one creation is its amount.
LEMMA SumInOne ==
    ASSUME NEW cr, NEW target, NEW x, cr[x].amount \in Nat, cr[x].target = target
    PROVE  SumIn(cr, target, {x}) = cr[x].amount
<1>1. PICK f : f = [n \in {x} |-> cr[n].amount]
  OBVIOUS
<1>2. f[x] = cr[x].amount /\ f[x] \in Int
  BY <1>1
<1>3. {n \in {x} : cr[n].target = target} = {x}
  OBVIOUS
<1> QED
  BY <1>1, <1>2, <1>3, SumOfOne DEF SumIn
-----------------------------------------------------------------------------
(* The limit per month.                                                    *)

LookedBackTo(c) == DateOf(BeforeReceived(c + MaxDelay))

\* The creations after the first month and before n from a date on.
Earlier(n, date) == {j \in AfterFirstMonth : j < n /\ date <= chain[j].date}

\* When a creation was created and received, and what its validation has found.
Receipt(n, c, t) ==
    /\ InCalendar(t) /\ chain[n].date = DateOf(t) /\ creation[n].delay = t - c /\ t - c <= MaxDelay
    /\ ValidTargetDate(c, creation[n].target)
    /\ SumFor(creation[n].target, Earlier(n, LookedBackTo(c))) + creation[n].amount <= Limit

CreationsKnown ==
    /\ DOMAIN creation \subseteq 1..Len(chain)
    /\ \A n \in 1..Len(chain) : /\ chain[n].content \in {Root, Registration, Creation}
                                /\ chain[n].content = Creation <=> n \in DOMAIN creation
    /\ \A n \in DOMAIN creation : creation[n].target \in Targets /\ creation[n].amount \in Nat

CreationInv ==
    /\ IndexInv /\ CreationsKnown
    /\ chain # <<>> => InCalendar(now) /\ chain[Len(chain)].date = DateOf(now)
    /\ \A n \in DOMAIN creation \cap indexed :
          \E c \in Times, delay \in Delays : Receipt(n, c, c + delay)

\* What is looked back over, and the times it ends and begins at.
LEMMA TimesCovered ==
    ASSUME NEW c \in Times
    PROVE  /\ Distance \in Nat /\ MaxDelay \in Nat /\ Ahead \in Nat
           /\ c \in Nat /\ InCalendar(c) /\ InCalendar(c + MaxDelay)
           /\ \E back \in Nat : /\ back = Distance * AverageMonth
                                /\ BeforeReceived(c + MaxDelay) = (c + MaxDelay) - back
           /\ InCalendar(BeforeReceived(c + MaxDelay))
<1>1. /\ Distance \in Nat /\ AverageMonth \in Nat /\ MaxDelay \in Nat /\ Ahead \in Nat /\ c \in Nat
      /\ c + MaxDelay < FirstDay[LastMonth] * UnitsPerDay
      /\ c >= Distance * AverageMonth
  BY CreationAssumption
<1>2. PICK end \in Nat : end = FirstDay[LastMonth] * UnitsPerDay
  <2>1. FirstDay[LastMonth] \in Nat /\ UnitsPerDay \in Nat
    BY CalendarAssumption DEF Months
  <2> QED
    BY <2>1, ProductNat
<1>3. PICK back \in Nat : back = Distance * AverageMonth
  BY <1>1, ProductNat
<1>4. BeforeReceived(c + MaxDelay) = (c + MaxDelay) - back
  BY <1>3 DEF BeforeReceived
<1>5. c + MaxDelay < end /\ c >= back
  BY <1>1, <1>2, <1>3
<1>6. /\ c \in Nat /\ c < end /\ c + MaxDelay \in Nat /\ c + MaxDelay < end
      /\ (c + MaxDelay) - back \in Nat /\ (c + MaxDelay) - back < end
  BY <1>1, <1>5
<1>7. InCalendar(c) /\ InCalendar(c + MaxDelay) /\ InCalendar((c + MaxDelay) - back)
  BY <1>2, <1>6 DEF InCalendar
<1> QED
  BY <1>1, <1>3, <1>4, <1>7

\* The calendar covers the times a community is founded at.
LEMMA FoundedCovered ==
    ASSUME NEW t \in Founded
    PROVE  InCalendar(t)
<1>1. t \in Nat /\ MaxDelay \in Nat /\ t + MaxDelay < FirstDay[LastMonth] * UnitsPerDay
  BY CreationAssumption
<1>2. FirstDay[LastMonth] * UnitsPerDay \in Nat
  <2>1. FirstDay[LastMonth] \in Nat /\ UnitsPerDay \in Nat
    BY CalendarAssumption DEF Months
  <2> QED
    BY <2>1, ProductNat
<1> QED
  BY <1>1, <1>2 DEF InCalendar

\* The filter of calculateCreationSum, field by field.
LEMMA CreationFilterFacts ==
    ASSUME IndexInv, NEW c \in Times, NEW f, f = CreationFilter(c + MaxDelay)
    PROVE  /\ f \in Filter
           /\ f.interval # Always /\ f.interval[1] = LookedBackTo(c) /\ f.interval[2] = DateOf(c + MaxDelay)
           /\ f.min = 0 /\ f.max = Len(chain) /\ f.type = Creation.type /\ f.search = "balance"
           /\ f.key = Recipient /\ f.coin = None /\ f.size = 0 /\ f.page = 0
<1>1. PICK s \in Dates : s = LookedBackTo(c)
  BY TimesCovered, DateOfTime DEF LookedBackTo
<1>2. PICK e \in Dates : e = DateOf(c + MaxDelay)
  BY TimesCovered, DateOfTime
<1>3. s <= e
  <2>1. BeforeReceived(c + MaxDelay) <= c + MaxDelay
    BY TimesCovered
  <2> QED
    BY <1>1, <1>2, <2>1, TimesCovered, DatesFollow DEF LookedBackTo
<1>4. s # NoDate
  BY <1>1, SizesAssumption DEF Dates, NoDate
<1>5. PICK i : i = <<s, e>> /\ i \in Dates \X Dates /\ i[1] = s /\ i[2] = e /\ i[1] <= i[2] /\ i # Always
  <2>1. /\ <<s, e>> \in Dates \X Dates /\ <<s, e>>[1] = s /\ <<s, e>>[2] = e /\ <<s, e>>[1] <= <<s, e>>[2]
        /\ <<s, e>> # <<NoDate, NoDate>>
    BY <1>3, <1>4
  <2> QED
    BY <2>1 DEF Always
<1>6. f = [interval |-> i,
     min |-> 0, max |-> Len(chain), type |-> Creation.type,
     search |-> "balance", key |-> Recipient, coin |-> None,
     direction |-> "desc", size |-> 0, page |-> 0]
  BY <1>1, <1>2, <1>5 DEF CreationFilter, LookedBackTo
<1>7. Len(chain) \in Nat
  <2>1. chain \in Seq(Tx)
    BY DEF IndexInv, IndexTypes
  <2> QED
    BY <2>1
<1>8. f \in Filter
  BY <1>5, <1>6, <1>7, CreationParts DEF Filter
<1> QED
  BY <1>1, <1>2, <1>5, <1>6, <1>8

\* The sum of a validation is over a set of creations that has those after the first
\* month from the start of its interval on, even though the interval may start inside a
\* month before the first transaction.
LEMMA SumCoversEarlier ==
    ASSUME CreationInv, NEW c \in Times, NEW target,
           chain # <<>> => now <= c + MaxDelay
    PROVE  \E X \in SUBSET (DOMAIN creation \cap indexed) :
              /\ CreationSum(c, target) = SumFor(target, X)
              /\ \A j \in AfterFirstMonth : LookedBackTo(c) <= chain[j].date => j \in X
<1>0. IndexInv /\ CreationsKnown
  BY DEF CreationInv
<1>1. PICK f \in Filter : /\ f = CreationFilter(c + MaxDelay)
                          /\ f.interval # Always /\ f.interval[1] = LookedBackTo(c)
                          /\ f.interval[2] = DateOf(c + MaxDelay)
                          /\ f.min = 0 /\ f.max = Len(chain) /\ f.type = Creation.type /\ f.search = "balance"
                          /\ f.key = Recipient /\ f.coin = None /\ f.size = 0 /\ f.page = 0
  BY <1>0, CreationFilterFacts
<1>2. indexed # {} => AggregateTransactions(f) \subseteq indexed
  BY <1>0, <1>1, AggregateIndexed, CreationParts
<1>3. PICK found : found = FindTransactions(f)
  OBVIOUS
<1>4. PICK X : X = {found[i] : i \in DOMAIN found}
  OBVIOUS
<1>5. X = IF indexed = {} THEN {} ELSE AggregateTransactions(f)
  BY <1>0, <1>1, <1>2, <1>3, <1>4, FoundAll
<1>6. CreationSum(c, target) = SumFor(target, X)
  BY <1>1, <1>3, <1>4 DEF CreationSum
<1>7. ASSUME NEW j \in X
      PROVE  j \in indexed /\ j \in DOMAIN creation
  <2>1. indexed # {} /\ j \in AggregateTransactions(f) /\ j \in indexed
    BY <1>2, <1>5
  <2>2. BySelection(f, chain[j].content)
    BY <2>1, <1>0, SelectionExact
  <2>3. chain[j].content.type = Creation.type
    BY <2>2, <1>1, CreationParts DEF BySelection
  <2>4. j \in 1..Len(chain)
    BY <2>1, <1>0, IndexFacts
  <2>5. chain[j].content = Creation
    BY <2>3, <2>4, <1>0, CreationParts DEF CreationsKnown
  <2> QED
    BY <2>1, <2>4, <2>5, <1>0 DEF CreationsKnown
<1>8. ASSUME NEW j \in AfterFirstMonth, LookedBackTo(c) <= chain[j].date
      PROVE  j \in X
  <2>1. j \in DOMAIN creation /\ j \in indexed /\ indexed # {} /\ Month(chain[j].date) > Month(minDate)
    BY DEF AfterFirstMonth
  <2>2. /\ j \in 1..Len(chain) /\ chain[j].date \in Nat /\ minDate \in Nat /\ Len(chain) \in Nat
    BY <2>1, <1>0, IndexFacts
  <2>3. chain[j].date <= DateOf(c + MaxDelay)
    <3>1. chain # <<>> /\ Len(chain) \in 1..Len(chain) /\ j <= Len(chain)
      BY <2>2
    <3>2. chain[j].date <= chain[Len(chain)].date
      BY <3>1, <2>2, <1>0 DEF IndexInv, ChainSorted
    <3>3. InCalendar(now) /\ chain[Len(chain)].date = DateOf(now) /\ now <= c + MaxDelay
      BY <3>1 DEF CreationInv
    <3>4. DateOf(now) <= DateOf(c + MaxDelay)
      BY <3>3, TimesCovered, DatesFollow
    <3>5. DateOf(now) \in Nat /\ DateOf(c + MaxDelay) \in Nat
      BY <3>3, TimesCovered, DateOfTime
    <3> QED
      BY <3>2, <3>3, <3>4, <3>5, <2>2
  <2>4. LookedBackTo(c) \in Nat /\ DateOf(c + MaxDelay) \in Nat
    BY TimesCovered, DateOfTime DEF LookedBackTo
  <2>5. InInterval(f, j)
    BY <1>1, <1>8, <2>2, <2>3, <2>4 DEF InInterval
  <2>6. InBounds(f, j)
    BY <1>1, <2>2 DEF InBounds
  <2>7. NotHidden(f, j)
    <3>1. Month(chain[j].date) \in Nat /\ Month(minDate) \in Nat
      BY <2>2, DateParts
    <3> QED
      BY <3>1, <2>1 DEF NotHidden
  <2>8. j \in CalculateTxRange(f)
    BY <2>1, <2>5, <2>6, <2>7, <1>0, TxRangeExact
  <2>9. BySelection(f, chain[j].content)
    <3>1. chain[j].content = Creation
      BY <2>1, <2>2, <1>0 DEF CreationsKnown
    <3> QED
      BY <3>1, <1>1, CreationParts DEF BySelection
  <2> QED
    BY <2>1, <2>8, <2>9, <1>0, <1>5, SelectionExact
<1> QED
  BY <1>6, <1>7, <1>8
\* What adding a transaction leaves of the earlier ones.
Extended(nr) ==
    /\ nr = Len(chain) + 1 /\ Len(chain') = nr
    /\ \A n \in 1..Len(chain) : chain'[n] = chain[n]
    /\ indexed \subseteq indexed' /\ indexed' \subseteq indexed \cup {nr}
    /\ indexed # {} => minDate' = minDate

\* Adding a transaction keeps those before it and what was indexed.
LEMMA AddExtends ==
    ASSUME IndexInv, NEW date \in Dates, NEW c \in Content,
           AddTransactionIndices(date, c), NEW nr, nr = Len(chain) + 1
    PROVE  /\ Extended(nr) /\ nr \in Nat /\ chain' # <<>>
           /\ chain'[nr].content = c /\ chain'[nr].date = date
<1>1. chain \in Seq(Tx) /\ Len(chain) \in Nat /\ nr \in Nat
  <2>1. chain \in Seq(Tx)
    BY DEF IndexInv, IndexTypes
  <2> QED
    BY <2>1
<1>2. PICK tx \in Tx : tx = [content |-> c, date |-> date]
  BY DEF Tx
<1>3. chain' = Append(chain, tx)
  BY <1>2 DEF AddTransactionIndices
<1>4. /\ Len(chain') = nr /\ chain' # <<>> /\ chain'[nr] = tx
      /\ \A n \in 1..Len(chain) : chain'[n] = chain[n]
  BY <1>1, <1>3
<1>5. indexed' = indexed \/ indexed' = indexed \cup {nr}
  BY DEF AddTransactionIndices
<1>6. indexed # {} => minDate' = minDate
  <2>1. indexed # {} => minDate # NoDate
    BY IndexFacts DEF NoDate
  <2> QED
    BY <2>1 DEF AddTransactionIndices
<1> QED
  BY <1>1, <1>2, <1>4, <1>5, <1>6 DEF Extended

\* A receipt stays what it is when transactions are added.
LEMMA ReceiptKept ==
    ASSUME IndexInv, CreationsKnown, NEW nr, Extended(nr),
           DOMAIN creation \subseteq DOMAIN creation', DOMAIN creation' \subseteq DOMAIN creation \cup {nr},
           \A j \in DOMAIN creation : creation'[j] = creation[j],
           NEW n \in DOMAIN creation \cap indexed, NEW c, NEW t, Receipt(n, c, t)
    PROVE  Receipt(n, c, t)'
<1>1. /\ indexed # {} /\ n \in indexed /\ n \in 1..Len(chain) /\ n \in Nat /\ n \in DOMAIN creation
      /\ \A j \in indexed : j \in 1..Len(chain) /\ j \in Nat /\ j < nr /\ j # nr /\ chain'[j] = chain[j]
      /\ minDate' = minDate /\ nr \in Nat
  <2>1. n \in indexed /\ indexed # {}
    OBVIOUS
  <2>2. Len(chain) \in Nat /\ indexed \subseteq 1..Len(chain)
    BY <2>1, IndexFacts
  <2> QED
    BY <2>1, <2>2 DEF Extended
<1>2. PICK date : date = LookedBackTo(c)
  OBVIOUS
<1>3. PICK X : X = Earlier(n, date)
  OBVIOUS
<1>4. X \in SUBSET indexed /\ X \in SUBSET DOMAIN creation
  BY <1>3 DEF Earlier, AfterFirstMonth
<1>5. Earlier(n, date)' = X
  <2>1. ASSUME NEW j
        PROVE  j \in AfterFirstMonth' /\ j < n <=> j \in AfterFirstMonth /\ j < n
    <3>1. j \in AfterFirstMonth /\ j < n => j \in AfterFirstMonth'
      BY <1>1 DEF AfterFirstMonth, Extended
    <3>2. j \in AfterFirstMonth' /\ j < n => j \in AfterFirstMonth
      <4>1. SUFFICES ASSUME j \in AfterFirstMonth', j < n PROVE j \in AfterFirstMonth
        OBVIOUS
      <4>2. j \in DOMAIN creation' /\ j \in indexed'
        BY <4>1 DEF AfterFirstMonth
      <4>3. j # nr
        <5>1. ~(nr < n)
          BY <1>1
        <5> QED
          BY <4>1, <5>1
      <4>4. j \in DOMAIN creation /\ j \in indexed
        BY <4>2, <4>3 DEF Extended
      <4> QED
        BY <4>1, <4>4, <1>1 DEF AfterFirstMonth
    <3> QED
      BY <3>1, <3>2
  <2>2. ASSUME NEW j
        PROVE  j \in Earlier(n, date)' <=> j \in X
    <3>1. j \in AfterFirstMonth => chain'[j] = chain[j]
      BY <1>1 DEF AfterFirstMonth
    <3> QED
      BY <2>1, <3>1, <1>3 DEF Earlier
  <2> QED
    BY <2>2
<1>6. creation'[n] = creation[n] /\ chain'[n] = chain[n]
  BY <1>1
<1>7. SumIn(creation', creation[n].target, X) = SumIn(creation, creation[n].target, X)
  <2>1. IsFiniteSet(X)
    <3>1. IsFiniteSet(indexed)
      BY MatchingFinite
    <3> QED
      BY <3>1, <1>4, FS_Subset
  <2>2. \A j \in X : creation[j].amount \in Nat /\ creation'[j] = creation[j]
    BY <1>4 DEF CreationsKnown
  <2> QED
    BY <2>1, <2>2, SumInSame
<1>8. PICK target : target = creation[n].target
  OBVIOUS
<1>9. SumFor(target, X)' = SumFor(target, X)
  BY <1>7, <1>8 DEF SumFor, SumIn
<1>10. LookedBackTo(c)' = date
  BY <1>2
<1>11. SumFor(creation[n].target, Earlier(n, LookedBackTo(c)))' = SumFor(target, X)
  BY <1>2, <1>5, <1>6, <1>8, <1>9 DEF SumFor
<1>12. /\ InCalendar(t) /\ chain[n].date = DateOf(t)
       /\ ValidTargetDate(c, target)
       /\ SumFor(target, X) + creation[n].amount <= Limit
  BY <1>2, <1>3, <1>8 DEF Receipt
<1> QED
  BY <1>6, <1>8, <1>11, <1>12 DEF Receipt
\* Adding a transaction preserves the invariant if a creation comes with its receipt.
LEMMA AddCreationInv ==
    ASSUME CreationInv, NEW at, InCalendar(at), NEW tx \in {Root, Registration, Creation},
           chain # <<>> => now <= at, AddTransactionIndices(DateOf(at), tx), now' = at,
           NEW nr, nr = Len(chain) + 1,
           DOMAIN creation' = IF tx = Creation THEN DOMAIN creation \cup {nr} ELSE DOMAIN creation,
           \A j \in DOMAIN creation : creation'[j] = creation[j],
           tx = Creation => /\ creation'[nr].target \in Targets /\ creation'[nr].amount \in Nat
                            /\ \E c \in Times, delay \in Delays : Receipt(nr, c, c + delay)'
    PROVE  CreationInv'
<1>1. IndexInv /\ CreationsKnown
  BY DEF CreationInv
<1>2. tx \in Content /\ DateOf(at) \in Dates /\ DateOf(at) \in Nat
  BY CreationParts, DateOfTime
<1>3. /\ Extended(nr) /\ nr \in Nat /\ chain' # <<>>
      /\ chain'[nr].content = tx /\ chain'[nr].date = DateOf(at)
  BY <1>1, <1>2, AddExtends
<1>4. chain # <<>> => chain[Len(chain)].date <= DateOf(at)
  <2>1. SUFFICES ASSUME chain # <<>> PROVE chain[Len(chain)].date <= DateOf(at)
    OBVIOUS
  <2>2. InCalendar(now) /\ chain[Len(chain)].date = DateOf(now) /\ now <= at
    BY <2>1 DEF CreationInv
  <2> QED
    BY <2>2, DatesFollow
<1>5. IndexInv'
  BY <1>1, <1>2, <1>4, AddIndex
<1>6. Len(chain) \in Nat /\ Len(chain') = nr /\ \A n \in 1..nr : n \in 1..Len(chain) \/ n = nr
  <2>1. chain \in Seq(Tx)
    BY <1>1 DEF IndexInv, IndexTypes
  <2> QED
    BY <2>1, <1>3 DEF Extended
<1>7. nr \notin DOMAIN creation
  BY <1>1, <1>6 DEF CreationsKnown
<1>8. CreationsKnown'
  <2>1. DOMAIN creation' \subseteq 1..nr
    BY <1>1, <1>3, <1>6 DEF CreationsKnown
  <2>2. ASSUME NEW n \in 1..nr
        PROVE  /\ chain'[n].content \in {Root, Registration, Creation}
               /\ chain'[n].content = Creation <=> n \in DOMAIN creation'
    <3>1. CASE n = nr
      BY <3>1, <1>3, <1>7
    <3>2. CASE n # nr
      <4>1. n \in 1..Len(chain) /\ chain'[n] = chain[n]
        BY <3>2, <1>3, <1>6 DEF Extended
      <4> QED
        BY <3>2, <4>1, <1>1 DEF CreationsKnown
    <3> QED
      BY <3>1, <3>2
  <2>3. \A n \in DOMAIN creation' : creation'[n].target \in Targets /\ creation'[n].amount \in Nat
    BY <1>1 DEF CreationsKnown
  <2> QED
    BY <2>1, <2>2, <2>3, <1>6 DEF CreationsKnown
<1>9. (chain # <<>> => InCalendar(now) /\ chain[Len(chain)].date = DateOf(now))'
  BY <1>3, <1>6
<1>10. ASSUME NEW n \in DOMAIN creation', n \in indexed'
       PROVE  \E c \in Times, delay \in Delays : Receipt(n, c, c + delay)'
  <2>1. CASE n = nr
    BY <2>1, <1>7, <1>10
  <2>2. CASE n # nr
    <3>1. n \in DOMAIN creation \cap indexed
      BY <2>2, <1>3, <1>10 DEF Extended
    <3>2. PICK c \in Times, delay \in Delays : Receipt(n, c, c + delay)
      BY <3>1 DEF CreationInv
    <3>3. PICK t : t = c + delay
      OBVIOUS
    <3>4. Receipt(n, c, t)
      BY <3>2, <3>3
    <3>5. Receipt(n, c, t)'
      BY <3>1, <3>4, <1>1, <1>3, ReceiptKept
    <3>6. Receipt(n, c, c + delay)'
      BY <3>3, <3>5
    <3> QED
      BY <3>6
  <2> QED
    BY <2>1, <2>2
<1> QED
  BY <1>5, <1>8, <1>9, <1>10 DEF CreationInv

\* A creation that is valid and confirmed has its receipt.
LEMMA CreateReceipt ==
    ASSUME CreationInv, NEW c \in Times, NEW at, NEW target, NEW amount \in Nat,
           chain # <<>>, now <= at, at <= c + MaxDelay, InCalendar(at),
           ValidCreation(c, target, amount), NEW nr, nr = Len(chain) + 1,
           Extended(nr), chain'[nr].date = DateOf(at),
           DOMAIN creation' = DOMAIN creation \cup {nr},
           \A j \in DOMAIN creation : creation'[j] = creation[j],
           creation'[nr] = [target |-> target, amount |-> amount, delay |-> at - c]
    PROVE  Receipt(nr, c, at)'
<1>1. IndexInv /\ CreationsKnown
  BY DEF CreationInv
<1>2. now <= c + MaxDelay
  <2>1. now \in Nat /\ at \in Nat /\ c + MaxDelay \in Nat
    BY TimesCovered DEF CreationInv, InCalendar
  <2> QED
    BY <2>1
<1>3. PICK X \in SUBSET (DOMAIN creation \cap indexed) :
         /\ CreationSum(c, target) = SumFor(target, X)
         /\ \A j \in AfterFirstMonth : LookedBackTo(c) <= chain[j].date => j \in X
  BY <1>2, SumCoversEarlier
<1>4. PICK date : date = LookedBackTo(c)
  OBVIOUS
<1>5. PICK Y : Y = Earlier(nr, date)'
  OBVIOUS
<1>6. Len(chain) \in Nat /\ nr \in Nat
  <2>1. chain \in Seq(Tx)
    BY <1>1 DEF IndexInv, IndexTypes
  <2> QED
    BY <2>1
<1>7. ASSUME NEW j \in Y
      PROVE  j \in X
  <2>1. /\ j \in DOMAIN creation' /\ j \in indexed' /\ j < nr
        /\ Month(chain'[j].date) > Month(minDate') /\ date <= chain'[j].date
    BY <1>5 DEF Earlier, AfterFirstMonth
  <2>2. j # nr
    BY <2>1, <1>6
  <2>3. j \in DOMAIN creation /\ j \in indexed /\ indexed # {} /\ minDate' = minDate
    BY <2>1, <2>2 DEF Extended
  <2>4. chain'[j] = chain[j]
    BY <2>3, <1>1 DEF Extended, CreationsKnown
  <2>5. j \in AfterFirstMonth
    BY <2>1, <2>3, <2>4 DEF AfterFirstMonth
  <2> QED
    BY <2>1, <2>4, <2>5, <1>3, <1>4
<1>8. IsFiniteSet(X) /\ IsFiniteSet(Y)
  <2>1. IsFiniteSet(indexed)
    BY <1>1, MatchingFinite
  <2>2. X \in SUBSET indexed /\ Y \in SUBSET X
    BY <1>7
  <2> QED
    BY <2>1, <2>2, FS_Subset
<1>9. /\ \A j \in X : creation[j].amount \in Nat
      /\ \A j \in Y : creation[j].amount \in Nat /\ creation'[j] = creation[j]
  BY <1>1, <1>7 DEF CreationsKnown
<1>10. SumIn(creation', target, Y) = SumIn(creation, target, Y)
  BY <1>8, <1>9, SumInSame
<1>11. SumIn(creation, target, Y) <= SumIn(creation, target, X)
  BY <1>7, <1>8, <1>9, SumInPart
<1>12. SumIn(creation, target, X) + amount <= Limit
  <2>1. SumFor(target, X) = SumIn(creation, target, X)
    BY SumForIs
  <2> QED
    BY <1>3, <2>1 DEF ValidCreation
<1>13. SumIn(creation, target, Y) \in Nat /\ SumIn(creation, target, X) \in Nat
  <2>1. PICK f : f = [j \in X |-> creation[j].amount]
    OBVIOUS
  <2>2. (\A j \in X : f[j] = creation[j].amount) /\ \A j \in Y : f[j] = creation[j].amount
    BY <2>1, <1>7
  <2>3. SumIn(creation, target, X) \in Nat
    BY <2>2, <1>8, <1>9, SumInAs
  <2>4. \A j \in Y : creation[j].amount \in Nat
    BY <1>9
  <2>5. SumIn(creation, target, Y) \in Nat
    BY <2>2, <2>4, <1>8, SumInAs
  <2> QED
    BY <2>3, <2>5
<1>14. SumIn(creation', target, Y) + amount <= Limit
  BY <1>10, <1>11, <1>12, <1>13, CreationAssumption
<1>15. creation'[nr].target = target /\ creation'[nr].amount = amount /\ creation'[nr].delay = at - c
  OBVIOUS
<1>16. SumFor(creation[nr].target, Earlier(nr, LookedBackTo(c)))' = SumIn(creation', target, Y)
  BY <1>4, <1>5, <1>15 DEF SumFor, SumIn
<1>17. ValidTargetDate(c, target)
  BY DEF ValidCreation
<1>18. at - c <= MaxDelay
  <2>1. at \in Nat /\ c \in Nat /\ MaxDelay \in Nat
    BY TimesCovered DEF InCalendar
  <2> QED
    BY <2>1
<1> QED
  BY <1>14, <1>15, <1>16, <1>17, <1>18 DEF Receipt

\* The invariant holds of an empty chain.
LEMMA CreationStart == CreationInit => CreationInv
<1>1. SUFFICES ASSUME CreationInit PROVE CreationInv
  OBVIOUS
<1>2. chain = <<>> /\ Len(chain) = 0 /\ DOMAIN creation = {} /\ IndexInv
  BY <1>1, InitIndex DEF CreationInit, Init
<1> QED
  BY <1>2 DEF CreationInv, CreationsKnown

\* Every step preserves the invariant of the creations.
LEMMA CreationStep == CreationInv /\ [CreationNext]_creationVars => CreationInv'
<1>1. SUFFICES ASSUME CreationInv, [CreationNext]_creationVars PROVE CreationInv'
  OBVIOUS
<1>2. PICK nr : nr = Len(chain) + 1
  OBVIOUS
<1>3. Root # Creation /\ Registration # Creation
  BY CreationParts
<1>4. chain \in Seq(Tx) /\ Len(chain) \in Nat
  <2>1. chain \in Seq(Tx)
    BY <1>1 DEF CreationInv, IndexInv, IndexTypes
  <2> QED
    BY <2>1
<1>5. ASSUME NEW at \in Founded, Found(at)
      PROVE  CreationInv'
  <2>1. /\ InCalendar(at) /\ chain = <<>> /\ AddTransactionIndices(DateOf(at), Root)
        /\ now' = at /\ creation' = creation
    BY <1>5, FoundedCovered DEF Found
  <2> QED
    BY <2>1, <1>1, <1>2, <1>3, AddCreationInv
<1>6. ASSUME NEW at \in Founded, Register(at)
      PROVE  CreationInv'
  <2>1. /\ InCalendar(at) /\ now <= at /\ AddTransactionIndices(DateOf(at), Registration)
        /\ now' = at /\ creation' = creation
    BY <1>6, FoundedCovered DEF Register
  <2> QED
    BY <2>1, <1>1, <1>2, <1>3, AddCreationInv
<1>7. ASSUME NEW c \in Times, NEW delay \in Delays, NEW target \in Targets, NEW amount \in Amounts,
             Create(c, c + delay, target, amount)
      PROVE  CreationInv'
  <2>1. PICK at : at = c + delay
    OBVIOUS
  <2>2. /\ 1 < Len(chain) /\ now <= at /\ at - c <= MaxDelay /\ ValidCreation(c, target, amount)
        /\ AddTransactionIndices(DateOf(at), Creation) /\ now' = at
        /\ creation' = [n \in DOMAIN creation \cup {nr} |->
                          IF n \in DOMAIN creation THEN creation[n]
                          ELSE [target |-> target, amount |-> amount, delay |-> at - c]]
    BY <2>1, <1>2, <1>7 DEF Create
  <2>3. chain # <<>> /\ amount \in Nat
    BY <2>2, <1>4, CreationAssumption
  <2>4. InCalendar(now) /\ now \in Nat
    BY <2>3, <1>1 DEF CreationInv, InCalendar
  <2>5. at \in Nat /\ at <= c + MaxDelay /\ InCalendar(at)
    <3>1. c \in Nat /\ InCalendar(c + MaxDelay) /\ MaxDelay \in Nat /\ delay \in Int
      BY TimesCovered, CreationAssumption
    <3>2. at \in Nat /\ at <= c + MaxDelay
      BY <3>1, <2>1, <2>2, <2>4
    <3>3. FirstDay[LastMonth] * UnitsPerDay \in Nat
      <4>1. FirstDay[LastMonth] \in Nat /\ UnitsPerDay \in Nat
        BY CalendarAssumption DEF Months
      <4> QED
        BY <4>1, ProductNat
    <3> QED
      BY <3>1, <3>2, <3>3 DEF InCalendar
  <2>6. IndexInv /\ CreationsKnown /\ Creation \in Content /\ DateOf(at) \in Dates
    BY <1>1, <2>5, CreationParts, DateOfTime DEF CreationInv
  <2>7. Extended(nr) /\ chain'[nr].date = DateOf(at)
    BY <2>2, <2>6, <1>2, AddExtends
  <2>8. nr \notin DOMAIN creation
    BY <2>6, <1>2, <1>4 DEF CreationsKnown
  <2>9. /\ DOMAIN creation' = DOMAIN creation \cup {nr}
        /\ \A j \in DOMAIN creation : creation'[j] = creation[j]
        /\ creation'[nr] = [target |-> target, amount |-> amount, delay |-> at - c]
    BY <2>2, <2>8
  <2>10. Receipt(nr, c, at)'
    BY <1>1, <1>2, <2>2, <2>3, <2>5, <2>7, <2>9, CreateReceipt
  <2>11. Receipt(nr, c, c + delay)'
    BY <2>1, <2>10
  <2>12. creation'[nr].target \in Targets /\ creation'[nr].amount \in Nat
    BY <2>3, <2>9
  <2> QED
    BY <1>1, <1>2, <2>2, <2>5, <2>9, <2>11, <2>12, AddCreationInv
<1>8. CASE UNCHANGED creationVars
  <2>1. UNCHANGED <<vars, now, creation>>
    BY <1>8 DEF creationVars
  <2>2. IndexInv'
    BY <1>1, <2>1, SameIndex DEF CreationInv
  <2>3. /\ chain' = chain /\ indexed' = indexed /\ minDate' = minDate /\ now' = now /\ creation' = creation
    BY <2>1 DEF vars, bounds
  <2>4. CreationsKnown'
    BY <1>1, <2>3 DEF CreationInv, CreationsKnown
  <2>5. \A n, c, t : Receipt(n, c, t)' <=> Receipt(n, c, t)
    BY <2>3 DEF Receipt, Earlier, AfterFirstMonth, SumFor
  <2> QED
    BY <1>1, <2>2, <2>3, <2>4, <2>5 DEF CreationInv
<1> QED
  BY <1>1, <1>5, <1>6, <1>7, <1>8 DEF CreationNext
\* A creation for a month is created in it or in one of the Distance months after.
LEMMA TargetTimes ==
    ASSUME NEW m \in Targets, NEW c \in Times, ValidTargetDate(c, m)
    PROVE  /\ m \in Months /\ m + Distance + 1 \in Months
           /\ FirstDay[m] \in Nat /\ FirstDay[m + Distance + 1] \in Nat
           /\ FirstDay[m] <= FirstDay[m + Distance + 1]
           /\ FirstDay[m] * UnitsPerDay <= c /\ c < FirstDay[m + Distance + 1] * UnitsPerDay
<1>1. m \in Months /\ m + Distance + 1 \in Months /\ Distance \in Nat
  BY CreationAssumption
<1>2. /\ \A k \in Months : FirstDay[k] \in Nat /\ k \in Nat
      /\ \A k, n \in Months : k <= n => FirstDay[k] <= FirstDay[n]
      /\ UnitsPerDay \in Nat \ {0} /\ LastMonth \in Nat
  <2>1. /\ \A k \in Months : FirstDay[k] \in Nat /\ k \in Nat
        /\ \A k, n \in Months : k < n => FirstDay[k] < FirstDay[n]
        /\ UnitsPerDay \in Nat \ {0} /\ LastMonth \in Nat
    BY CalendarAssumption DEF Months
  <2>2. \A k, n \in Months : k <= n => FirstDay[k] <= FirstDay[n]
    <3>1. ASSUME NEW k \in Months, NEW n \in Months, k <= n
          PROVE  FirstDay[k] <= FirstDay[n]
      <4>1. CASE k = n
        BY <4>1, <2>1
      <4>2. CASE k # n
        BY <4>2, <3>1, <2>1
      <4> QED
        BY <4>1, <4>2
    <3> QED
      BY <3>1
  <2> QED
    BY <2>1, <2>2
<1>3. InCalendar(c) /\ c \in Nat
  BY TimesCovered
<1>4. PICK k \in Nat : /\ k = MonthOf(c) /\ k \in Months /\ k + 1 \in Months
                       /\ FirstDay[k] * UnitsPerDay <= c /\ c < FirstDay[k + 1] * UnitsPerDay
  BY <1>3, MonthOfTime
<1>5. m <= k /\ k + 1 <= m + Distance + 1
  BY <1>1, <1>2, <1>4 DEF ValidTargetDate
<1>6. FirstDay[m] <= FirstDay[k] /\ FirstDay[k + 1] <= FirstDay[m + Distance + 1]
  BY <1>1, <1>2, <1>4, <1>5
<1>7. /\ FirstDay[m] \in Nat /\ FirstDay[k] \in Nat /\ FirstDay[k + 1] \in Nat
      /\ FirstDay[m + Distance + 1] \in Nat /\ UnitsPerDay \in Nat
  BY <1>1, <1>2, <1>4
<1>8. /\ FirstDay[m] * UnitsPerDay <= FirstDay[k] * UnitsPerDay
      /\ FirstDay[k + 1] * UnitsPerDay <= FirstDay[m + Distance + 1] * UnitsPerDay
  BY <1>6, <1>7, ProductMonotone
<1>9. /\ FirstDay[m] * UnitsPerDay \in Nat /\ FirstDay[k] * UnitsPerDay \in Nat
      /\ FirstDay[k + 1] * UnitsPerDay \in Nat /\ FirstDay[m + Distance + 1] * UnitsPerDay \in Nat
  BY <1>7, ProductNat
<1>10. FirstDay[m] * UnitsPerDay <= c /\ c < FirstDay[m + Distance + 1] * UnitsPerDay
  BY <1>3, <1>4, <1>8, <1>9
<1>11. FirstDay[m] <= FirstDay[m + Distance + 1]
  <2>1. m <= m + Distance + 1
    BY <1>1, <1>2
  <2> QED
    BY <2>1, <1>1, <1>2
<1> QED
  BY <1>1, <1>7, <1>10, <1>11

\* Of three creations for a month, if the third did not look back as far as the second,
\* then the second looked back over the first.
LEMMA LooksBackFarEnough ==
    ASSUME NEW m \in Targets,
           NEW c1 \in Times, NEW c2 \in Times, NEW c3 \in Times,
           ValidTargetDate(c1, m), ValidTargetDate(c2, m), ValidTargetDate(c3, m),
           NEW d1 \in (-Ahead)..MaxDelay, NEW d2 \in (-Ahead)..MaxDelay,
           InCalendar(c1 + d1), InCalendar(c2 + d2),
           DateOf(c2 + d2) < LookedBackTo(c3)
    PROVE  LookedBackTo(c2) <= DateOf(c1 + d1)
<1>1. PICK lo \in Nat : lo = FirstDay[m] * UnitsPerDay
  <2>1. FirstDay[m] \in Nat /\ UnitsPerDay \in Nat
    BY TargetTimes, CalendarAssumption
  <2> QED
    BY <2>1, ProductNat
<1>2. PICK hi \in Nat : hi = FirstDay[m + Distance + 1] * UnitsPerDay
  <2>1. FirstDay[m + Distance + 1] \in Nat /\ UnitsPerDay \in Nat
    BY TargetTimes, CalendarAssumption
  <2> QED
    BY <2>1, ProductNat
<1>3. lo <= c1 /\ c3 < hi
  BY <1>1, <1>2, TargetTimes
<1>4. /\ c1 \in Nat /\ c2 \in Nat /\ c3 \in Nat /\ MaxDelay \in Nat /\ Ahead \in Nat
  BY TimesCovered
<1>5. PICK back \in Nat : /\ back = Distance * AverageMonth
                          /\ BeforeReceived(c2 + MaxDelay) = (c2 + MaxDelay) - back
                          /\ BeforeReceived(c3 + MaxDelay) = (c3 + MaxDelay) - back
  <2>1. PICK back \in Nat : /\ back = Distance * AverageMonth
                            /\ BeforeReceived(c2 + MaxDelay) = (c2 + MaxDelay) - back
    BY TimesCovered
  <2>2. BeforeReceived(c3 + MaxDelay) = (c3 + MaxDelay) - back
    BY <2>1, TimesCovered
  <2> QED
    BY <2>1, <2>2
<1>6. InCalendar(BeforeReceived(c2 + MaxDelay)) /\ InCalendar(BeforeReceived(c3 + MaxDelay))
  BY TimesCovered
<1>7. hi - lo + 2 * (MaxDelay + Ahead) <= 2 * back
  <2>1. PICK p \in Nat : p = FirstDay[m]
    BY TargetTimes
  <2>2. PICK q \in Nat : q = FirstDay[m + Distance + 1] /\ p <= q
    BY <2>1, TargetTimes
  <2>3. PICK u \in Nat : u = UnitsPerDay
    BY CalendarAssumption
  <2>4. PICK r \in Nat : r = q - p /\ q = p + r
    <3>1. q - p \in Nat /\ q = p + (q - p)
      BY <2>2
    <3> QED
      BY <3>1
  <2>5. lo = p * u /\ hi = q * u
    BY <1>1, <1>2, <2>1, <2>2, <2>3
  <2>6. q * u = p * u + r * u
    BY <2>4
  <2>7. r * u + 2 * (MaxDelay + Ahead) <= 2 * back
    <3>1. (FirstDay[m + Distance + 1] - FirstDay[m]) * UnitsPerDay + 2 * (MaxDelay + Ahead)
             <= 2 * (Distance * AverageMonth)
      BY CreationAssumption
    <3> QED
      BY <3>1, <2>1, <2>2, <2>3, <2>4, <1>5
  <2>8. r * u \in Nat
    BY ProductNat
  <2>9. hi = lo + r * u
    BY <2>5, <2>6
  <2> QED
    BY <2>7, <2>8, <2>9, <1>4
<1>8. c2 + d2 < BeforeReceived(c3 + MaxDelay)
  <2>1. SUFFICES ASSUME BeforeReceived(c3 + MaxDelay) <= c2 + d2 PROVE FALSE
    BY <1>4, <1>6 DEF InCalendar
  <2>2. LookedBackTo(c3) <= DateOf(c2 + d2)
    BY <2>1, <1>6, DatesFollow DEF LookedBackTo
  <2>3. LookedBackTo(c3) \in Nat /\ DateOf(c2 + d2) \in Nat
    BY <1>6, DateOfTime DEF LookedBackTo
  <2> QED
    BY <2>2, <2>3
<1>9. BeforeReceived(c2 + MaxDelay) <= c1 + d1
  <2>1. c2 + d2 < (c3 + MaxDelay) - back
    BY <1>5, <1>8
  <2>2. (c2 + MaxDelay) - back <= c1 + d1
    BY <2>1, <1>3, <1>4, <1>7
  <2> QED
    BY <2>2, <1>5
<1> QED
  BY <1>6, <1>9, DatesFollow DEF LookedBackTo

\* The creations a creation has looked back over and itself do not exceed the limit.
LEMMA OnePartOfTwo ==
    ASSUME CreationInv, NEW m \in Targets, NEW z \in DOMAIN creation \cap indexed, creation[z].target = m,
           NEW c, NEW t, Receipt(z, c, t),
           NEW P, P \subseteq Earlier(z, LookedBackTo(c)) \cup {z}
    PROVE  SumIn(creation, m, P) <= Limit /\ SumIn(creation, m, P) \in Nat
<1>1. IndexInv /\ CreationsKnown
  BY DEF CreationInv
<1>2. PICK E : E = Earlier(z, LookedBackTo(c))
  OBVIOUS
<1>3. PICK X : X = E \cup {z}
  OBVIOUS
<1>4. X \in SUBSET indexed /\ E \in SUBSET X /\ {z} \in SUBSET X /\ P \in SUBSET X /\ X \subseteq DOMAIN creation
  BY <1>2, <1>3 DEF Earlier, AfterFirstMonth
<1>5. IsFiniteSet(X)
  <2>1. IsFiniteSet(indexed)
    BY <1>1, MatchingFinite
  <2> QED
    BY <2>1, <1>4, FS_Subset
<1>6. (\A n \in X : creation[n].amount \in Nat) /\ creation[z].amount \in Nat
  BY <1>1, <1>4 DEF CreationsKnown
<1>7. SumIn(creation, m, P) <= SumIn(creation, m, X)
  BY <1>4, <1>5, <1>6, SumInPart
<1>8. SumIn(creation, m, X) <= SumIn(creation, m, E) + SumIn(creation, m, {z})
  BY <1>3, <1>4, <1>5, <1>6, SumInCover
<1>9. SumIn(creation, m, {z}) = creation[z].amount
  BY <1>6, SumInOne
<1>10. SumIn(creation, m, E) + creation[z].amount <= Limit
  BY <1>2, SumForIs DEF Receipt
<1>11. /\ SumIn(creation, m, P) \in Nat /\ SumIn(creation, m, X) \in Nat /\ SumIn(creation, m, E) \in Nat
  <2>1. ASSUME NEW Y \in SUBSET X
        PROVE  SumIn(creation, m, Y) \in Nat
    <3>1. IsFiniteSet(Y) /\ \A n \in Y : creation[n].amount \in Nat
      BY <1>5, <1>6, FS_Subset
    <3>2. PICK f : f = [n \in Y |-> creation[n].amount]
      OBVIOUS
    <3>3. \A n \in Y : f[n] = creation[n].amount
      BY <3>2
    <3> QED
      BY <3>1, <3>3, SumInAs
  <2>2. X \in SUBSET X
    OBVIOUS
  <2> QED
    BY <2>1, <2>2, <1>4
<1> QED
  BY <1>6, <1>7, <1>8, <1>9, <1>10, <1>11, CreationAssumption

\* Two receipts cover every creation of a target month, so the sum is at most twice the limit.
LEMMA TwiceFromReceipts == CreationInv => AtMostTwiceTheLimit
<1>1. SUFFICES ASSUME CreationInv, NEW m \in Targets
               PROVE  SumFor(m, AfterFirstMonth \cap NotDatedAhead) <= 2 * Limit
  BY DEF AtMostTwiceTheLimit
<1>2. IndexInv /\ CreationsKnown /\ Limit \in Nat
  BY <1>1, CreationAssumption DEF CreationInv
<1>3. PICK A : A = AfterFirstMonth \cap NotDatedAhead
  OBVIOUS
<1>4. A \in SUBSET indexed /\ A \subseteq DOMAIN creation /\ indexed \in SUBSET Nat /\ IsFiniteSet(A)
      /\ \A n \in A : creation[n].amount \in Nat /\ n \in Nat
  <2>1. A \in SUBSET indexed /\ A \subseteq DOMAIN creation
    BY <1>3 DEF AfterFirstMonth
  <2>2. indexed \in SUBSET Nat /\ IsFiniteSet(indexed)
    BY <1>2, MatchingFinite
  <2> QED
    BY <2>1, <2>2, <1>2, FS_Subset DEF CreationsKnown
<1>5. PICK C : C = {n \in A : creation[n].target = m}
  OBVIOUS
<1>6. IsFiniteSet(C) /\ C \in SUBSET A /\ C \in SUBSET Nat /\ \A n \in C : creation[n].amount \in Nat
  BY <1>4, <1>5, FS_Subset
<1>7. SumFor(m, AfterFirstMonth \cap NotDatedAhead) = SumIn(creation, m, C)
  <2>1. PICK f : f = [n \in A |-> creation[n].amount]
    OBVIOUS
  <2>2. C = {n \in C : creation[n].target = m}
    BY <1>5
  <2>3. (\A n \in A : f[n] = creation[n].amount) /\ \A n \in C : f[n] = creation[n].amount
    BY <2>1, <1>6
  <2>4. SumIn(creation, m, A) = SumFunctionOnSet(f, C)
    BY <1>4, <1>5, <2>3, SumInAs
  <2>5. SumIn(creation, m, C) = SumFunctionOnSet(f, C)
    <3>1. PICK D : D = {n \in C : creation[n].target = m}
      OBVIOUS
    <3>2. SumIn(creation, m, C) = SumFunctionOnSet(f, D)
      <4>1. IsFiniteSet(C) /\ (\A n \in C : creation[n].amount \in Nat) /\ \A n \in C : f[n] = creation[n].amount
        BY <1>6, <2>3
      <4> QED
        BY ONLY <3>1, <4>1, SumInAs
    <3> QED
      BY <2>2, <3>1, <3>2
  <2> QED
    BY <2>4, <2>5, <1>3, SumForIs
<1>10. ASSUME NEW n \in C
       PROVE  \E c \in Times, delay \in (-Ahead)..MaxDelay : Receipt(n, c, c + delay)
  <2>1. n \in DOMAIN creation \cap indexed /\ creation[n].delay >= -Ahead
    BY <1>3, <1>4, <1>6 DEF NotDatedAhead
  <2>2. PICK c \in Times, delay \in Delays : Receipt(n, c, c + delay)
    BY <1>1, <2>1 DEF CreationInv
  <2>3. delay \in Int
    BY CreationAssumption
  <2>4. c \in Nat /\ Ahead \in Nat /\ MaxDelay \in Nat
    BY TimesCovered
  <2>5. creation[n].delay = (c + delay) - c /\ (c + delay) - c <= MaxDelay
    BY <2>2 DEF Receipt
  <2>6. delay \in (-Ahead)..MaxDelay
    BY <2>1, <2>3, <2>4, <2>5
  <2> QED
    BY <2>2, <2>6
<1>8. CASE C = {}
  <2>1. PICK f : f = [n \in C |-> creation[n].amount]
    OBVIOUS
  <2>2. SumIn(creation, m, C) = SumFunctionOnSet(f, {})
    BY <1>8, <2>1 DEF SumIn
  <2>3. SumFunctionOnSet(f, {}) = 0
    BY SumEmpty
  <2> QED
    BY <2>2, <2>3, <1>2, <1>7
<1>9. CASE C # {}
  <2>1. PICK z \in C : \A n \in C : n <= z
    BY <1>6, <1>9, SelectedEnds
  <2>2. \A n \in C : n \in DOMAIN creation \cap indexed /\ creation[n].target = m
    BY <1>4, <1>5
  <2>3. PICK cz \in Times, dz \in Delays : Receipt(z, cz, cz + dz)
    BY <1>1, <2>1, <2>2 DEF CreationInv
  <2>4. PICK P : P = {n \in C : n < z /\ ~(LookedBackTo(cz) <= chain[n].date)}
    OBVIOUS
  <2>5. PICK Q : Q = C \ P
    OBVIOUS
  <2>6. Q \subseteq Earlier(z, LookedBackTo(cz)) \cup {z}
    <3>1. \A n \in C : n # z => n < z
      BY <2>1, <1>6
    <3>2. \A n \in C : n \in AfterFirstMonth
      BY <1>3, <1>6
    <3> QED
      BY <3>1, <3>2, <2>4, <2>5 DEF Earlier
  <2>7. SumIn(creation, m, Q) <= Limit /\ SumIn(creation, m, Q) \in Nat
    <3>1. PICK t : t = cz + dz
      OBVIOUS
    <3> QED
      BY <3>1, <2>1, <2>2, <2>3, <2>6, <1>1, OnePartOfTwo
  <2>8. P \in SUBSET C /\ Q \in SUBSET C /\ C \subseteq P \cup Q
    BY <2>4, <2>5
  <2>9. SumIn(creation, m, C) <= SumIn(creation, m, P) + SumIn(creation, m, Q)
    BY <2>8, <1>6, SumInCover
  <2>10. SumIn(creation, m, P) <= Limit /\ SumIn(creation, m, P) \in Nat
    <3>1. CASE P = {}
      <4>1. PICK f : f = [n \in P |-> creation[n].amount]
        OBVIOUS
      <4>2. SumIn(creation, m, P) = SumFunctionOnSet(f, {})
        BY <3>1, <4>1 DEF SumIn
      <4>3. SumFunctionOnSet(f, {}) = 0
        BY SumEmpty
      <4> QED
        BY <4>2, <4>3, <1>2
    <3>2. CASE P # {}
      <4>1. PICK y \in P : \A n \in P : n <= y
        <5>1. P \in SUBSET Nat /\ IsFiniteSet(P)
          BY <2>8, <1>6, FS_Subset
        <5> QED
          BY <5>1, <3>2, SelectedEnds
      <4>2. y \in C /\ ~(LookedBackTo(cz) <= chain[y].date)
        BY <2>4, <4>1
      <4>3. PICK cy \in Times, dy \in (-Ahead)..MaxDelay : Receipt(y, cy, cy + dy)
        BY <1>10, <4>2
      <4>4. /\ InCalendar(cy + dy) /\ chain[y].date = DateOf(cy + dy) /\ ValidTargetDate(cy, m)
            /\ ValidTargetDate(cz, m)
        BY <2>1, <2>2, <2>3, <4>2, <4>3 DEF Receipt
      <4>5. DateOf(cy + dy) < LookedBackTo(cz)
        <5>1. DateOf(cy + dy) \in Nat /\ LookedBackTo(cz) \in Nat
          BY <4>4, TimesCovered, DateOfTime DEF LookedBackTo
        <5> QED
          BY <5>1, <4>2, <4>4
      <4>6. ASSUME NEW n \in P, n # y
            PROVE  n \in Earlier(y, LookedBackTo(cy))
        <5>1. n \in C /\ n < y /\ n \in AfterFirstMonth
          BY <4>1, <4>2, <4>6, <2>8, <1>3, <1>6
        <5>2. PICK cn \in Times, dn \in (-Ahead)..MaxDelay : Receipt(n, cn, cn + dn)
          BY <1>10, <5>1
        <5>3. InCalendar(cn + dn) /\ chain[n].date = DateOf(cn + dn) /\ ValidTargetDate(cn, m)
          BY <2>2, <5>1, <5>2 DEF Receipt
        <5>4. LookedBackTo(cy) <= DateOf(cn + dn)
          BY <4>4, <4>5, <5>3, LooksBackFarEnough
        <5> QED
          BY <5>1, <5>3, <5>4 DEF Earlier
      <4>7. P \subseteq Earlier(y, LookedBackTo(cy)) \cup {y}
        BY <4>6
      <4> QED
        <5>1. PICK t : t = cy + dy
          OBVIOUS
        <5> QED
          BY <5>1, <4>2, <4>3, <4>7, <2>2, <1>1, OnePartOfTwo
    <3> QED
      BY <3>1, <3>2
  <2>11. \A p, q, x \in Int : p <= Limit /\ q <= Limit /\ x <= p + q => x <= 2 * Limit
    BY <1>2
  <2>12. SumIn(creation, m, C) \in Int
    <3>1. PICK f : f = [n \in C |-> creation[n].amount]
      OBVIOUS
    <3>2. \A n \in C : f[n] = creation[n].amount
      BY <3>1
    <3>3. SumIn(creation, m, C) \in Nat
      BY <3>2, <1>6, SumInAs
    <3> QED
      BY <3>3
  <2>13. SumIn(creation, m, C) <= 2 * Limit
    BY <2>7, <2>9, <2>10, <2>11, <2>12
  <2> QED
    BY <2>13, <1>7
<1> QED
  BY <1>8, <1>9

\* Whatever creations are created, validated against the index and confirmed, also those
\* dated ahead without any bound: of the others confirmed after the first month of the
\* chain a month never gets more than twice the limit.
THEOREM TwiceTheLimit == CreationSpec => []AtMostTwiceTheLimit
<1>1. CreationInit => CreationInv
  BY CreationStart
<1>2. CreationInv /\ [CreationNext]_creationVars => CreationInv'
  BY CreationStep
<1>3. CreationInv => AtMostTwiceTheLimit
  BY TwiceFromReceipts
<1> QED
  BY <1>1, <1>2, <1>3, PTL DEF CreationSpec

\* What comes first in an order.
Precedes(m, n, direction) == IF direction = "asc" THEN m < n ELSE n < m

\* An order of a set, place by place.
LEMMA OrderedPlaces ==
    ASSUME NEW S \in SUBSET Nat, IsFiniteSet(S), NEW direction, NEW s, s = Ordered(S, direction)
    PROVE  /\ Cardinality(S) \in Nat /\ DOMAIN s = 1..Cardinality(S)
           /\ \A i \in 1..Cardinality(S) : s[i] \in S
           /\ \A x \in S : \E i \in 1..Cardinality(S) : s[i] = x
           /\ \A i, j \in 1..Cardinality(S) : i < j => Precedes(s[i], s[j], direction)
<1>1. PICK n \in Nat : n = Cardinality(S)
  BY FS_CardinalityType
<1>2. s = [i \in 1..n |-> Select(S, IF direction = "asc" THEN i - 1 ELSE n - i)]
  BY <1>1 DEF Ordered
<1>3. DOMAIN s = 1..n
  BY <1>2
<1>4. {s[i] : i \in 1..n} = S
  BY <1>3, OrderedAll
<1>5. \A i, j \in 0..(n - 1) : i < j => Select(S, i) < Select(S, j)
  BY <1>1, Selected
<1>6. ASSUME NEW i \in 1..n, NEW j \in 1..n, i < j
      PROVE  Precedes(s[i], s[j], direction)
  <2>1. /\ i - 1 \in 0..(n - 1) /\ j - 1 \in 0..(n - 1) /\ i - 1 < j - 1
        /\ n - i \in 0..(n - 1) /\ n - j \in 0..(n - 1) /\ n - j < n - i
    BY <1>6
  <2>2. Select(S, i - 1) < Select(S, j - 1) /\ Select(S, n - j) < Select(S, n - i)
    BY <2>1, <1>5
  <2>3. CASE direction = "asc"
    BY <2>2, <2>3, <1>2 DEF Precedes
  <2>4. CASE direction # "asc"
    BY <2>2, <2>4, <1>2 DEF Precedes
  <2> QED
    BY <2>3, <2>4
<1>7. (\A i \in 1..n : s[i] \in S) /\ (\A x \in S : \E i \in 1..n : s[i] = x)
  BY <1>4
<1> QED
  BY <1>1, <1>3, <1>6, <1>7

\* A set is as large as the interval of places it is enumerated along.
Along(T, s, a, b) == T = {s[i] : i \in a..b} /\ \A i, j \in a..b : s[i] = s[j] => i = j

\* The size of a set whose elements are at some places of a sequence, each at one.
LEMMA EnumeratedSize ==
    ASSUME NEW a \in Int, NEW b \in Int, NEW s, NEW T, Along(T, s, a, b),
           NEW size, size = IF a > b THEN 0 ELSE b - a + 1
    PROVE  IsFiniteSet(T) /\ Cardinality(T) = size
<1>0. T = {s[i] : i \in a..b} /\ \A i, j \in a..b : s[i] = s[j] => i = j
  BY DEF Along
<1>1. IsFiniteSet(a..b) /\ Cardinality(a..b) = IF a > b THEN 0 ELSE b - a + 1
  BY FS_Interval
<1>2. PICK g : g = [i \in a..b |-> s[i]]
  OBVIOUS
<1>3. g \in Bijection(a..b, T)
  <2>1. g \in [a..b -> T]
    BY <1>0, <1>2
  <2>2. \A i, j \in a..b : g[i] = g[j] => i = j
    BY <1>0, <1>2
  <2>3. \A t \in T : \E i \in a..b : g[i] = t
    BY <1>0, <1>2
  <2> QED
    BY <2>1, <2>2, <2>3 DEF Bijection, Injection, Surjection, IsInjective
<1>4. ExistsBijection(a..b, T)
  BY <1>3 DEF ExistsBijection
<1> QED
  BY <1>1, <1>4, FS_Bijection

\* There is one order of a set.
LEMMA OrderedOnce ==
    ASSUME NEW T \in SUBSET Nat, NEW direction, NEW n \in Nat, NEW s,
           DOMAIN s = 1..n, s = [i \in 1..n |-> s[i]],
           \A i \in 1..n : s[i] \in T,
           \A x \in T : \E i \in 1..n : s[i] = x,
           \A i, j \in 1..n : i < j => Precedes(s[i], s[j], direction)
    PROVE  IsFiniteSet(T) /\ s = Ordered(T, direction)
<1>1. \A i, j \in 1..n : s[i] = s[j] => i = j
  <2>1. ASSUME NEW i \in 1..n, NEW j \in 1..n, s[i] = s[j]
        PROVE  i = j
    <3>1. \A x \in Nat : ~(x < x)
      OBVIOUS
    <3>2. s[i] \in Nat
      OBVIOUS
    <3>3. ~(i < j) /\ ~(j < i)
      BY <2>1, <3>1, <3>2 DEF Precedes
    <3> QED
      BY <3>3
  <2> QED
    BY <2>1
<1>2. T = {s[i] : i \in 1..n}
  OBVIOUS
<1>3. IsFiniteSet(T) /\ Cardinality(T) = n
  <2>1. PICK a \in Int, b \in Int : a = 1 /\ b = n
    OBVIOUS
  <2>2. n = IF a > b THEN 0 ELSE b - a + 1
    BY <2>1
  <2>3. Along(T, s, a, b)
    BY <2>1, <1>1, <1>2 DEF Along
  <2> QED
    BY <2>2, <2>3, EnumeratedSize
<1>4. \A x \in T : Select(T, Rank(T, x)) = x
  BY <1>3, Selected
<1>5. ASSUME NEW i \in 1..n
      PROVE  Rank(T, s[i]) = IF direction = "asc" THEN i - 1 ELSE n - i
  <2>1. CASE direction = "asc"
    <3>1. {y \in T : y < s[i]} = {s[j] : j \in 1..(i - 1)}
      <4>1. ASSUME NEW j \in 1..n
            PROVE  s[j] < s[i] <=> j < i
        <5>1. s[i] \in Nat /\ s[j] \in Nat
          OBVIOUS
        <5>2. (i < j => s[i] < s[j]) /\ (j < i => s[j] < s[i])
          BY <2>1 DEF Precedes
        <5> QED
          BY <5>1, <5>2
      <4>2. \A j \in 1..n : j \in 1..(i - 1) <=> j < i
        OBVIOUS
      <4>3. 1..(i - 1) \subseteq 1..n
        OBVIOUS
      <4> QED
        BY <4>1, <4>2, <4>3, <1>2
    <3>2. \A j, k \in 1..(i - 1) : s[j] = s[k] => j = k
      BY <1>1
    <3>3. Cardinality({s[j] : j \in 1..(i - 1)}) = i - 1
      <4>1. PICK a \in Int, e \in Int : a = 1 /\ e = i - 1
        OBVIOUS
      <4>2. PICK U : U = {s[j] : j \in a..e}
        OBVIOUS
      <4>3. PICK size : size = i - 1
        OBVIOUS
      <4>4. size = IF a > e THEN 0 ELSE e - a + 1
        BY <4>1, <4>3
      <4>5. Along(U, s, a, e)
        BY <3>2, <4>1, <4>2 DEF Along
      <4>6. Cardinality(U) = size
        BY <4>4, <4>5, EnumeratedSize
      <4> QED
        BY <4>1, <4>2, <4>3, <4>6
    <3> QED
      BY <2>1, <3>1, <3>3 DEF Rank
  <2>2. CASE direction # "asc"
    <3>1. {y \in T : y < s[i]} = {s[j] : j \in (i + 1)..n}
      <4>1. ASSUME NEW j \in 1..n
            PROVE  s[j] < s[i] <=> i < j
        <5>1. s[i] \in Nat /\ s[j] \in Nat
          OBVIOUS
        <5>2. (i < j => s[j] < s[i]) /\ (j < i => s[i] < s[j])
          BY <2>2 DEF Precedes
        <5> QED
          BY <5>1, <5>2
      <4>2. \A j \in 1..n : j \in (i + 1)..n <=> i < j
        OBVIOUS
      <4>3. (i + 1)..n \subseteq 1..n
        OBVIOUS
      <4> QED
        BY <4>1, <4>2, <4>3, <1>2
    <3>2. \A j, k \in (i + 1)..n : s[j] = s[k] => j = k
      BY <1>1
    <3>3. Cardinality({s[j] : j \in (i + 1)..n}) = n - i
      <4>1. PICK a \in Int, e \in Int : a = i + 1 /\ e = n
        OBVIOUS
      <4>2. PICK U : U = {s[j] : j \in a..e}
        OBVIOUS
      <4>3. PICK size : size = n - i
        OBVIOUS
      <4>4. size = IF a > e THEN 0 ELSE e - a + 1
        BY <4>1, <4>3
      <4>5. Along(U, s, a, e)
        BY <3>2, <4>1, <4>2 DEF Along
      <4>6. Cardinality(U) = size
        BY <4>4, <4>5, EnumeratedSize
      <4> QED
        BY <4>1, <4>2, <4>3, <4>6
    <3> QED
      BY <2>2, <3>1, <3>3 DEF Rank
  <2> QED
    BY <2>1, <2>2
<1>6. \A i \in 1..n : s[i] = Select(T, IF direction = "asc" THEN i - 1 ELSE n - i)
  BY <1>4, <1>5
<1>7. s = [i \in 1..n |-> Select(T, IF direction = "asc" THEN i - 1 ELSE n - i)]
  BY <1>6
<1> QED
  BY <1>3, <1>7 DEF Ordered

\* The places of a sequence are finitely many.
LEMMA Places ==
    ASSUME NEW n \in Nat
    PROVE  /\ IsFiniteSet(1..n) /\ Cardinality(1..n) = n
           /\ \A T \in SUBSET (1..n) : IsFiniteSet(T) /\ Cardinality(T) \in 0..n
<1>1. PICK a \in Int, b \in Int : a = 1 /\ b = n
  OBVIOUS
<1>2. IsFiniteSet(a..b) /\ Cardinality(a..b) = IF a > b THEN 0 ELSE b - a + 1
  BY FS_Interval
<1>3. PICK U : U = 1..n
  OBVIOUS
<1>4. IsFiniteSet(U) /\ Cardinality(U) = n
  BY <1>1, <1>2, <1>3
<1>5. ASSUME NEW T \in SUBSET U
      PROVE  IsFiniteSet(T) /\ Cardinality(T) \in 0..n
  <2>1. IsFiniteSet(T) /\ Cardinality(T) <= Cardinality(U)
    BY <1>4, FS_Subset
  <2>2. Cardinality(T) \in Nat
    BY <2>1, FS_CardinalityType
  <2> QED
    BY <2>1, <2>2, <1>4
<1> QED
  BY <1>3, <1>4, <1>5

\* What a loop takes of a set it goes through in an order.
Chosen(S, direction, result) ==
    {n \in S : "use" \in result[n] /\ \A m \in S : "stop" \in result[m] => ~Precedes(m, n, direction)}

\* What a loop over an order of a set takes is in that order.
LEMMA TakenOrdered ==
    ASSUME NEW S \in SUBSET Nat, IsFiniteSet(S), NEW direction, NEW result
    PROVE  Taken(Ordered(S, direction), result) = Ordered(Chosen(S, direction, result), direction)
<1>1. PICK s : s = Ordered(S, direction)
  OBVIOUS
<1>2. PICK n \in Nat : n = Cardinality(S)
  BY FS_CardinalityType
<1>3. /\ DOMAIN s = 1..n
      /\ \A i \in 1..n : s[i] \in S
      /\ \A x \in S : \E i \in 1..n : s[i] = x
      /\ \A i, j \in 1..n : i < j => Precedes(s[i], s[j], direction)
  BY <1>1, <1>2, OrderedPlaces
<1>4. PICK stops : stops = {i \in 1..n : "stop" \in result[s[i]]}
  OBVIOUS
<1>5. PICK used : used = {i \in 1..n : "use" \in result[s[i]] /\ \A j \in stops : i <= j}
  OBVIOUS
<1>6. Taken(s, result) = [k \in 1..Cardinality(used) |-> s[Select(used, k - 1)]]
  BY <1>3, <1>4, <1>5 DEF Taken
<1>7. used \in SUBSET Nat /\ IsFiniteSet(used) /\ used \subseteq 1..n
  <2>1. used \subseteq 1..n
    BY <1>5
  <2> QED
    BY <2>1, Places
<1>8. PICK c \in Nat : c = Cardinality(used)
  BY <1>7, FS_CardinalityType
<1>9. PICK T : T = Chosen(S, direction, result)
  OBVIOUS
<1>10. ASSUME NEW i \in 1..n
       PROVE  i \in used <=> s[i] \in T
  <2>1. ASSUME NEW j \in 1..n
        PROVE  i <= j <=> ~Precedes(s[j], s[i], direction)
    <3>1. s[i] \in Nat /\ s[j] \in Nat
      BY <1>3
    <3>2. (i < j => Precedes(s[i], s[j], direction)) /\ (j < i => Precedes(s[j], s[i], direction))
      BY <1>3
    <3>3. Precedes(s[i], s[j], direction) => ~Precedes(s[j], s[i], direction)
      BY <3>1 DEF Precedes
    <3>4. i = j => ~Precedes(s[j], s[i], direction)
      BY <3>1 DEF Precedes
    <3> QED
      BY <3>2, <3>3, <3>4
  <2>2. (\A j \in stops : i <= j) <=> \A m \in S : "stop" \in result[m] => ~Precedes(m, s[i], direction)
    <3>1. ASSUME \A j \in stops : i <= j, NEW m \in S, "stop" \in result[m]
          PROVE  ~Precedes(m, s[i], direction)
      <4>1. PICK j \in 1..n : s[j] = m
        BY <1>3
      <4> QED
        BY <4>1, <3>1, <2>1, <1>4
    <3>2. ASSUME \A m \in S : "stop" \in result[m] => ~Precedes(m, s[i], direction), NEW j \in stops
          PROVE  i <= j
      <4>1. j \in 1..n /\ "stop" \in result[s[j]] /\ s[j] \in S
        BY <1>3, <1>4
      <4> QED
        BY <4>1, <3>2, <2>1
    <3> QED
      BY <3>1, <3>2
  <2> QED
    BY <2>2, <1>3, <1>5, <1>9 DEF Chosen
<1>11. PICK t : t = [k \in 1..c |-> s[Select(used, k - 1)]]
  OBVIOUS
<1>12. /\ \A k \in 0..(c - 1) : Select(used, k) \in used
       /\ \A i \in used : Rank(used, i) \in 0..(c - 1) /\ Select(used, Rank(used, i)) = i
       /\ \A i, j \in 0..(c - 1) : i < j => Select(used, i) < Select(used, j)
  BY <1>7, <1>8, Selected, RankBounds
<1>13. \A k \in 1..c : k - 1 \in 0..(c - 1)
  OBVIOUS
<1>14. \A k \in 1..c : t[k] \in T
  BY <1>7, <1>10, <1>11, <1>12, <1>13
<1>15. ASSUME NEW x \in T
       PROVE  \E k \in 1..c : t[k] = x
  <2>1. x \in S
    BY <1>9 DEF Chosen
  <2>2. PICK i \in 1..n : s[i] = x
    BY <2>1, <1>3
  <2>3. PICK r \in 0..(c - 1) : Select(used, r) = i
    BY <2>2, <1>10, <1>12
  <2>4. r + 1 \in 1..c /\ (r + 1) - 1 = r
    OBVIOUS
  <2> QED
    BY <2>2, <2>3, <2>4, <1>11
<1>16. ASSUME NEW k \in 1..c, NEW l \in 1..c, k < l
       PROVE  Precedes(t[k], t[l], direction)
  <2>1. k - 1 \in 0..(c - 1) /\ l - 1 \in 0..(c - 1) /\ k - 1 < l - 1
    BY <1>16
  <2>2. Select(used, k - 1) < Select(used, l - 1)
    BY <2>1, <1>12
  <2>3. Select(used, k - 1) \in 1..n /\ Select(used, l - 1) \in 1..n
    BY <2>1, <1>7, <1>12
  <2> QED
    BY <2>2, <2>3, <1>3, <1>11
<1>17. T \in SUBSET Nat
  BY <1>9 DEF Chosen
<1>18. DOMAIN t = 1..c /\ t = [k \in 1..c |-> t[k]]
  BY <1>11
<1>19. t = Ordered(T, direction)
  BY <1>14, <1>15, <1>16, <1>17, <1>18, OrderedOnce
<1> QED
  BY <1>1, <1>6, <1>8, <1>9, <1>11, <1>19

\* What a loop finds nothing about may as well be left out.
LEMMA TakenPart ==
    ASSUME NEW M \in SUBSET Nat, IsFiniteSet(M), NEW D \in SUBSET M, NEW direction,
           NEW result, NEW other,
           \A n \in M \ D : result[n] = {}, \A n \in D : result[n] = other[n]
    PROVE  Taken(Ordered(M, direction), result) = Taken(Ordered(D, direction), other)
<1>1. IsFiniteSet(D) /\ D \in SUBSET Nat
  BY FS_Subset
<1>2. Chosen(M, direction, result) = Chosen(D, direction, other)
  BY DEF Chosen
<1>3. Taken(Ordered(M, direction), result) = Ordered(Chosen(M, direction, result), direction)
  BY TakenOrdered
<1>4. Taken(Ordered(D, direction), other) = Ordered(Chosen(D, direction, other), direction)
  BY <1>1, TakenOrdered
<1> QED
  BY <1>2, <1>3, <1>4

\* A loop whose function uses everything and never stops takes everything.
LEMMA TakenAll ==
    ASSUME NEW n \in Nat, NEW s, DOMAIN s = 1..n, s = [i \in 1..n |-> s[i]], NEW result,
           \A i \in 1..n : result[s[i]] = {"use"}
    PROVE  Taken(s, result) = s
<1>1. PICK used : used = 1..n
  OBVIOUS
<1>2. {i \in 1..n : "stop" \in result[s[i]]} = {}
  OBVIOUS
<1>3. Taken(s, result) = [k \in 1..Cardinality(used) |-> s[Select(used, k - 1)]]
  <2>1. used = {i \in 1..n : "use" \in result[s[i]]
                             /\ \A j \in {i0 \in 1..n : "stop" \in result[s[i0]]} : i <= j}
    BY <1>1, <1>2
  <2> QED
    BY <2>1 DEF Taken
<1>4. used \in SUBSET Nat /\ IsFiniteSet(used) /\ Cardinality(used) = n
  BY <1>1, Places
<1>5. \A x \in used : Select(used, Rank(used, x)) = x
  BY <1>4, Selected
<1>6. ASSUME NEW k \in 1..n
      PROVE  Select(used, k - 1) = k
  <2>1. {y \in used : y < k} = 1..(k - 1)
    BY <1>1
  <2>2. Cardinality(1..(k - 1)) = k - 1
    <3>1. k - 1 \in Nat
      OBVIOUS
    <3> QED
      BY <3>1, Places
  <2>3. Rank(used, k) = k - 1
    BY <2>1, <2>2 DEF Rank
  <2> QED
    BY <2>3, <1>1, <1>5
<1> QED
  BY <1>3, <1>4, <1>6

\* What is taken is no longer than what is gone through, and nothing of nothing.
LEMMA TakenShorter ==
    ASSUME NEW n \in Nat, NEW s, DOMAIN s = 1..n, NEW result, NEW t, t = Taken(s, result)
    PROVE  \E c \in 0..n : DOMAIN t = 1..c /\ t = [k \in 1..c |-> t[k]] /\ (n = 0 => t = <<>>)
                           /\ \A k \in 1..c : \E i \in 1..n : t[k] = s[i] /\ "use" \in result[s[i]]
<1>1. PICK used : used = {i \in DOMAIN s : "use" \in result[s[i]]
                             /\ \A j \in {i0 \in DOMAIN s : "stop" \in result[s[i0]]} : i <= j}
  OBVIOUS
<1>2. t = [k \in 1..Cardinality(used) |-> s[Select(used, k - 1)]]
  BY <1>1 DEF Taken
<1>3. used \in SUBSET (1..n) /\ used \in SUBSET Nat
  BY <1>1
<1>4. PICK c \in 0..n : c = Cardinality(used) /\ IsFiniteSet(used)
  BY <1>3, Places
<1>5. \A k \in 0..(c - 1) : Select(used, k) \in used
  BY <1>3, <1>4, Selected
<1>6. ASSUME NEW k \in 1..c
      PROVE  \E i \in 1..n : t[k] = s[i] /\ "use" \in result[s[i]]
  <2>1. k - 1 \in 0..(c - 1)
    OBVIOUS
  <2>2. Select(used, k - 1) \in used
    BY <2>1, <1>5
  <2> QED
    BY <2>2, <1>1, <1>2, <1>3, <1>4
<1>7. n = 0 => t = <<>>
  BY <1>2, <1>4
<1>8. DOMAIN t = 1..c /\ t = [k \in 1..c |-> t[k]]
  BY <1>2, <1>4
<1> QED
  BY <1>6, <1>7, <1>8

-----------------------------------------------------------------------------
(* The chain that is searched.                                             *)

\* The entries of the transactions are those of the chain, in the order of the moments
\* at which they were confirmed.
EntriesKnown ==
    /\ entries \in Seq([hour : Hours, anchor : Anchors]) /\ Len(entries) = Len(chain)
    /\ \A n \in 1..Len(chain) : chain[n].content \in Contents

\* No transaction is confirmed before an earlier one.
MomentsSorted == \A i, j \in 1..Len(chain) : i <= j => ConfirmedAt(i) <= ConfirmedAt(j)

\* The invariant of the searches.
SearchInv == IndexInv /\ EntriesKnown /\ MomentsSorted

\* The day of a moment is the one it is put together from, and later ones are no earlier.
LEMMA DaysOfMoments ==
    /\ \A date \in Nat, hour \in Hours :
          /\ date * HoursPerDay + hour \in Nat /\ DayOf(date * HoursPerDay + hour) = date
    /\ \A t \in Nat : DayOf(t) \in Nat
    /\ \A t, u \in Nat : t <= u => DayOf(t) <= DayOf(u)
    /\ \A t \in AllMoments : t \in Nat /\ DayOf(t) \in Dates
<1>1. PICK h \in Nat \ {0} : h = HoursPerDay
  BY HoursAssumption
<1>2. \A t \in Nat : t \div h \in Nat /\ \A a \in Nat : a <= t \div h <=> a * h <= t
  BY Quotient
<1>3. \A t \in Nat : DayOf(t) \in Nat /\ \A a \in Nat : a <= DayOf(t) <=> a * h <= t
  BY <1>1, <1>2 DEF DayOf
<1>4. ASSUME NEW date \in Nat, NEW hour \in Hours
      PROVE  date * h + hour \in Nat /\ DayOf(date * h + hour) = date
  <2>1. hour \in Nat /\ hour < h
    BY <1>1 DEF Hours
  <2>2. PICK p \in Nat : p = date * h
    BY ProductNat
  <2>3. (date + 1) * h = p + h
    BY <2>2
  <2>4. PICK t \in Nat : t = p + hour
    BY <2>1
  <2>5. date <= DayOf(t)
    <3>1. date * h <= t
      BY <2>1, <2>2, <2>4
    <3> QED
      BY <3>1, <1>3
  <2>6. ~(date + 1 <= DayOf(t))
    <3>1. ~((date + 1) * h <= t)
      BY <2>1, <2>3, <2>4
    <3>2. date + 1 \in Nat
      OBVIOUS
    <3> QED
      BY <3>1, <3>2, <1>3
  <2>7. DayOf(t) = date
    <3>1. DayOf(t) \in Nat
      BY <1>3
    <3> QED
      BY <3>1, <2>5, <2>6
  <2> QED
    BY <2>2, <2>4, <2>7
<1>5. ASSUME NEW t \in Nat, NEW u \in Nat, t <= u
      PROVE  DayOf(t) <= DayOf(u)
  <2>1. PICK a \in Nat : a = DayOf(t)
    BY <1>3
  <2>2. PICK p \in Nat : p = a * h
    BY ProductNat
  <2>3. a * h <= t
    BY <2>1, <1>3
  <2>4. a * h <= u
    BY <2>2, <2>3, <1>5
  <2> QED
    BY <2>1, <2>4, <1>3
<1>6. ASSUME NEW t \in AllMoments
      PROVE  t \in Nat /\ DayOf(t) \in Dates
  <2>1. MaxDate \in Nat /\ h - 1 \in Hours
    BY <1>1, SizesAssumption DEF Hours
  <2>2. PICK last \in Nat : last = MaxDate * h + (h - 1) /\ DayOf(last) = MaxDate
    BY <2>1, <1>4
  <2>3. t \in Nat /\ t <= last
    <3>1. PICK p \in Nat : p = MaxDate * h
      BY <2>1, ProductNat
    <3>2. AllMoments = 0..(p + h - 1)
      BY <1>1, <3>1 DEF AllMoments
    <3> QED
      BY <3>1, <3>2, <2>2
  <2>4. DayOf(t) <= MaxDate /\ DayOf(t) \in Nat
    BY <2>2, <2>3, <1>3, <1>5
  <2> QED
    BY <2>1, <2>3, <2>4 DEF Dates
<1> QED
  BY <1>1, <1>3, <1>4, <1>5, <1>6

\* A transaction is confirmed on its day.
LEMMA ConfirmedOnDay ==
    ASSUME SearchInv, NEW n \in 1..Len(chain)
    PROVE  /\ ConfirmedAt(n) \in Nat /\ DayOf(ConfirmedAt(n)) = chain[n].date
           /\ chain[n].date \in Dates /\ chain[n].date \in Nat
           /\ chain[n].content \in Contents /\ chain[n].content \in Content
           /\ entries[n].hour \in Hours /\ entries[n].anchor \in Anchors
<1>1. chain \in Seq(Tx) /\ entries \in Seq([hour : Hours, anchor : Anchors]) /\ Len(entries) = Len(chain)
      /\ chain[n].content \in Contents
  BY DEF SearchInv, IndexInv, IndexTypes, EntriesKnown
<1>2. chain[n] \in Tx /\ entries[n] \in [hour : Hours, anchor : Anchors]
  <2>1. n \in 1..Len(entries)
    BY <1>1
  <2>2. \A X, s : s \in Seq(X) => \A i \in 1..Len(s) : s[i] \in X
    OBVIOUS
  <2> QED
    BY <2>1, <2>2, <1>1
<1>3. chain[n].date \in Dates /\ chain[n].date \in Nat /\ entries[n].hour \in Hours
      /\ entries[n].anchor \in Anchors /\ chain[n].content \in Content
  BY <1>2, SizesAssumption DEF Tx, Dates
<1>4. ConfirmedAt(n) \in Nat /\ DayOf(ConfirmedAt(n)) = chain[n].date
  BY <1>3, DaysOfMoments DEF ConfirmedAt
<1> QED
  BY <1>1, <1>3, <1>4

\* The invariant holds of an empty chain.
LEMMA SearchStart == SearchInit => SearchInv
<1>1. SUFFICES ASSUME SearchInit PROVE SearchInv
  OBVIOUS
<1>2. IndexInv
  BY <1>1, InitIndex DEF SearchInit
<1>3. chain = <<>> /\ entries = <<>>
  BY <1>1 DEF SearchInit, Init
<1>4. Len(chain) = 0 /\ Len(entries) = 0 /\ entries \in Seq([hour : Hours, anchor : Anchors])
  BY <1>3
<1>5. 1..0 = {}
  OBVIOUS
<1> QED
  BY <1>2, <1>4, <1>5 DEF SearchInv, EntriesKnown, MomentsSorted

\* A transaction that is pushed preserves it: its date is none before that of the last.
LEMMA PushSearch ==
    ASSUME SearchInv, NEW date \in Dates, NEW c \in Contents, NEW hour \in Hours, NEW anchor \in Anchors,
           Push(date, c, hour, anchor)
    PROVE  SearchInv'
<1>1. /\ chain # <<>> => ConfirmedAt(Len(chain)) <= date * HoursPerDay + hour
      /\ AddTransactionIndices(date, c)
      /\ entries' = Append(entries, [hour |-> hour, anchor |-> anchor])
  BY DEF Push
<1>2. IndexInv /\ c \in Content /\ date \in Nat
  BY ContentsAssumption, SizesAssumption DEF SearchInv, Dates
<1>3. PICK at \in Nat : at = date * HoursPerDay + hour /\ DayOf(at) = date
  BY <1>2, DaysOfMoments
<1>4. chain \in Seq(Tx) /\ Len(chain) \in Nat /\ (chain # <<>> => Len(chain) \in 1..Len(chain))
  BY <1>2 DEF IndexInv, IndexTypes
<1>5. chain # <<>> => chain[Len(chain)].date <= date
  <2>1. SUFFICES ASSUME chain # <<>> PROVE chain[Len(chain)].date <= date
    OBVIOUS
  <2>2. ConfirmedAt(Len(chain)) \in Nat /\ DayOf(ConfirmedAt(Len(chain))) = chain[Len(chain)].date
    BY <2>1, <1>4, ConfirmedOnDay
  <2>3. ConfirmedAt(Len(chain)) <= at
    BY <2>1, <1>1, <1>3
  <2> QED
    BY <2>2, <2>3, <1>3, DaysOfMoments
<1>6. IndexInv'
  BY <1>1, <1>2, <1>5, AddIndex
<1>7. PICK nr \in Nat : nr = Len(chain) + 1
  BY <1>4
<1>8. /\ Len(chain') = nr /\ chain'[nr].content = c /\ chain'[nr].date = date
      /\ \A n \in 1..Len(chain) : chain'[n] = chain[n]
  BY <1>1, <1>2, <1>7, AddExtends DEF Extended
<1>9. entries \in Seq([hour : Hours, anchor : Anchors]) /\ Len(entries) = Len(chain)
  BY DEF SearchInv, EntriesKnown
<1>10. /\ entries' \in Seq([hour : Hours, anchor : Anchors]) /\ Len(entries') = nr
       /\ entries'[nr].hour = hour /\ \A n \in 1..Len(chain) : entries'[n] = entries[n]
  <2>1. [hour |-> hour, anchor |-> anchor] \in [hour : Hours, anchor : Anchors]
    OBVIOUS
  <2> QED
    BY <2>1, <1>1, <1>7, <1>9
<1>11. \A n \in 1..nr : n \in 1..Len(chain) \/ n = nr
  BY <1>4, <1>7
<1>12. EntriesKnown'
  <2>1. \A n \in 1..nr : chain'[n].content \in Contents
    BY <1>8, <1>11, ConfirmedOnDay
  <2> QED
    BY <2>1, <1>8, <1>10 DEF EntriesKnown
<1>13. \A n \in 1..Len(chain) : ConfirmedAt(n)' = ConfirmedAt(n) /\ ConfirmedAt(n) \in Nat
  BY <1>8, <1>10, ConfirmedOnDay DEF ConfirmedAt
<1>14. ConfirmedAt(nr)' = at
  BY <1>3, <1>8, <1>10 DEF ConfirmedAt
<1>15. \A n \in 1..Len(chain) : ConfirmedAt(n) <= at
  <2>1. ASSUME NEW n \in 1..Len(chain)
        PROVE  ConfirmedAt(n) <= at
    <3>1. chain # <<>> /\ Len(chain) \in 1..Len(chain) /\ n <= Len(chain)
      BY <1>4
    <3>2. ConfirmedAt(n) <= ConfirmedAt(Len(chain))
      BY <3>1 DEF SearchInv, MomentsSorted
    <3>3. ConfirmedAt(Len(chain)) <= at /\ ConfirmedAt(Len(chain)) \in Nat /\ ConfirmedAt(n) \in Nat
      BY <3>1, <1>1, <1>3, <1>13
    <3> QED
      BY <3>2, <3>3
  <2> QED
    BY <2>1
<1>16. MomentsSorted'
  <2>1. ASSUME NEW i \in 1..nr, NEW j \in 1..nr, i <= j
        PROVE  ConfirmedAt(i)' <= ConfirmedAt(j)'
    <3>1. CASE j = nr
      <4>1. CASE i = nr
        BY <3>1, <4>1, <1>14
      <4>2. CASE i # nr
        BY <3>1, <4>2, <1>11, <1>13, <1>14, <1>15
      <4> QED
        BY <4>1, <4>2
    <3>2. CASE j # nr
      <4>1. i \in 1..Len(chain) /\ j \in 1..Len(chain)
        BY <2>1, <3>2, <1>4, <1>7
      <4>2. ConfirmedAt(i) <= ConfirmedAt(j)
        BY <2>1, <4>1 DEF SearchInv, MomentsSorted
      <4> QED
        BY <4>1, <4>2, <1>13
    <3> QED
      BY <3>1, <3>2
  <2> QED
    BY <2>1, <1>8 DEF MomentsSorted
<1> QED
  BY <1>6, <1>12, <1>16 DEF SearchInv

\* Every step preserves the invariant of the searches.
LEMMA SearchStep == SearchInv /\ [SearchNext]_searchVars => SearchInv'
<1>1. SUFFICES ASSUME SearchInv, [SearchNext]_searchVars PROVE SearchInv'
  OBVIOUS
<1>2. CASE SearchNext
  BY <1>1, <1>2, PushSearch DEF SearchNext
<1>3. CASE UNCHANGED searchVars
  <2>1. UNCHANGED vars /\ UNCHANGED <<chain, entries>>
    BY <1>3 DEF searchVars, vars
  <2>2. IndexInv'
    BY <2>1, <1>1, SameIndex DEF SearchInv
  <2> QED
    BY <2>1, <2>2, <1>1 DEF SearchInv, EntriesKnown, MomentsSorted, ConfirmedAt
<1> QED
  BY <1>1, <1>2, <1>3

-----------------------------------------------------------------------------
(* What a filter and its compact copy describe.                            *)

\* The key and the kind of search of a compact copy.
KeyOf(f) == IF f.updated # NoKey THEN f.updated ELSE f.involved
KindOf(f) == IF f.updated # NoKey THEN "balance" ELSE "involved"

\* The compact copy of a filter, field by field.
LEMMA CompactFields ==
    ASSUME NEW f \in FullFilter, NEW g, g = Compact(f)
    PROVE  /\ g.interval = IF f.interval = Always THEN Always ELSE <<DayOf(f.interval[1]), DayOf(f.interval[2])>>
           /\ g.min = f.min /\ g.max = f.max /\ g.type = f.type
           /\ g.search = IF KeyOf(f) \in Dictionary THEN KindOf(f) ELSE None
           /\ g.key = IF KeyOf(f) \in Dictionary THEN KeyOf(f) ELSE None
           /\ g.coin = f.coin /\ g.direction = f.direction /\ g.size = f.size /\ g.page = f.page
           /\ g = [interval |-> g.interval, min |-> g.min, max |-> g.max, type |-> g.type,
                   search |-> g.search, key |-> g.key, coin |-> g.coin, direction |-> g.direction,
                   size |-> g.size, page |-> g.page]
BY DEF Compact, KeyOf, KindOf

\* The interval of a filter that has one.
LEMMA IntervalOf ==
    ASSUME NEW f \in FullFilter, f.interval # Always
    PROVE  \E s, e \in Nat : /\ s = f.interval[1] /\ e = f.interval[2] /\ s <= e
                             /\ f.interval = <<s, e>>
                             /\ DayOf(s) \in Dates /\ DayOf(e) \in Dates /\ DayOf(s) <= DayOf(e)
                             /\ DayOf(s) \in Nat /\ DayOf(e) \in Nat
                             /\ <<DayOf(s), DayOf(e)>> # Always
<1>1. f.interval \in {Always} \cup {i \in AllMoments \X AllMoments : i[1] <= i[2]}
  BY DEF FullFilter
<1>2. f.interval \in AllMoments \X AllMoments /\ f.interval[1] <= f.interval[2]
  BY <1>1
<1>3. PICK s, e \in AllMoments : f.interval = <<s, e>>
  BY <1>2
<1>4. s \in Nat /\ e \in Nat /\ s <= e
  BY <1>2, <1>3, DaysOfMoments
<1>5. DayOf(s) \in Dates /\ DayOf(e) \in Dates /\ DayOf(s) <= DayOf(e) /\ DayOf(s) \in Nat /\ DayOf(e) \in Nat
  BY <1>3, <1>4, DaysOfMoments
<1>6. <<DayOf(s), DayOf(e)>> # Always
  BY <1>5 DEF Always, NoDate
<1> QED
  BY <1>3, <1>4, <1>5, <1>6

\* The compact copy is a filter of the index.
LEMMA CompactIsFilter ==
    ASSUME NEW f \in FullFilter
    PROVE  Compact(f) \in Filter
<1>1. PICK g : g = Compact(f)
  OBVIOUS
<1>2. /\ f.min \in Nat /\ f.max \in Nat /\ f.direction \in {"asc", "desc"} /\ f.type \in Types \cup {None}
      /\ f.size \in Nat /\ f.page \in Nat /\ f.coin \in Coins \cup {None}
  BY DEF FullFilter
<1>3. g.interval \in {Always} \cup {i \in Dates \X Dates : i[1] <= i[2]}
  <2>1. CASE f.interval = Always
    BY <2>1, <1>1, CompactFields
  <2>2. CASE f.interval # Always
    <3>1. PICK s, e \in Nat : /\ s = f.interval[1] /\ e = f.interval[2]
                              /\ DayOf(s) \in Dates /\ DayOf(e) \in Dates /\ DayOf(s) <= DayOf(e)
      BY <2>2, IntervalOf
    <3>2. PICK a, b \in Dates : a = DayOf(s) /\ b = DayOf(e) /\ a <= b
      BY <3>1
    <3>3. g.interval = <<a, b>>
      BY <2>2, <1>1, <3>1, <3>2, CompactFields
    <3> QED
      BY <3>2, <3>3
  <2> QED
    BY <2>1, <2>2
<1>4. Dictionary \subseteq Keys
  BY DEF Dictionary
<1>5. /\ g.search \in {None, "balance", "involved"} /\ g.key \in Keys \cup {None}
      /\ g.search # None => g.key \in Keys
  <2>1. KindOf(f) \in {"balance", "involved"}
    BY DEF KindOf
  <2> QED
    BY <2>1, <1>1, <1>4, CompactFields
<1>6. /\ g.min \in Nat /\ g.max \in Nat /\ g.direction \in {"asc", "desc"} /\ g.type \in Types \cup {None}
      /\ g.size \in Nat /\ g.page \in Nat /\ g.coin \in Coins \cup {None}
  BY <1>1, <1>2, CompactFields
<1>7. g = [interval |-> g.interval, min |-> g.min, max |-> g.max, type |-> g.type,
           search |-> g.search, key |-> g.key, coin |-> g.coin, direction |-> g.direction,
           size |-> g.size, page |-> g.page]
  BY <1>1, CompactFields
<1>8. g \in Filter
  BY <1>3, <1>5, <1>6, <1>7 DEF Filter
<1> QED
  BY <1>1, <1>8

\* A filter whose keys are known and that asks for no coin.
KeysKnown(f) == f.coin = None /\ {f.updated, f.involved} \subseteq Dictionary \cup {NoKey}

\* Whether a filter's exact time leaves a transaction.
TimeLeaves(f, n) == f.interval # Always => ConfirmedAt(n) \in f.interval[1]..f.interval[2]

\* The days of an interval hold its moments, and its months its days.
LEMMA TimeInDays ==
    ASSUME SearchInv, NEW f \in FullFilter, NEW g, g = Compact(f), NEW n \in 1..Len(chain)
    PROVE  /\ TimeLeaves(f, n) => InInterval(g, n)
           /\ f.interval # Always => (InsideInterval(n, f.interval) <=> TimeLeaves(f, n))
<1>1. CASE f.interval = Always
  BY <1>1, CompactFields DEF InInterval
<1>2. CASE f.interval # Always
  <2>1. PICK s, e \in Nat : /\ f.interval = <<s, e>>
                            /\ DayOf(s) \in Nat /\ DayOf(e) \in Nat
                            /\ s = f.interval[1] /\ e = f.interval[2]
    BY <1>2, IntervalOf
  <2>2. g.interval = <<DayOf(s), DayOf(e)>>
    BY <1>2, <2>1, CompactFields
  <2>3. PICK t \in Nat : t = ConfirmedAt(n) /\ DayOf(t) = chain[n].date /\ chain[n].date \in Nat
    BY ConfirmedOnDay
  <2>4. TimeLeaves(f, n) <=> s <= t /\ t <= e
    BY <1>2, <2>1, <2>3 DEF TimeLeaves
  <2>5. s <= t /\ t <= e => DayOf(s) <= DayOf(t) /\ DayOf(t) <= DayOf(e)
    BY <2>1, <2>3, DaysOfMoments
  <2>6. DayOf(s) <= DayOf(t) /\ DayOf(t) <= DayOf(e) =>
            Month(DayOf(s)) <= Month(DayOf(t)) /\ Month(DayOf(t)) <= Month(DayOf(e))
    BY <2>1, <2>3, MonthMonotone
  <2>7. InsideInterval(n, f.interval) <=>
            /\ Month(DayOf(s)) <= Month(DayOf(t)) /\ Month(DayOf(t)) <= Month(DayOf(e))
            /\ s <= t /\ t <= e
    BY <2>1, <2>3 DEF InsideInterval
  <2>8. DayOf(s) <= DayOf(t) /\ DayOf(t) <= DayOf(e) => InInterval(g, n)
    BY <2>1, <2>2, <2>3 DEF InInterval
  <2> QED
    BY <2>4, <2>5, <2>6, <2>7, <2>8
<1> QED
  BY <1>1, <1>2

\* A filter describes what its compact copy describes, to the moment.
LEMMA DescribedBy ==
    ASSUME SearchInv, indexed = 1..Len(chain), NEW f \in FullFilter, KeysKnown(f), NEW g, g = Compact(f)
    PROVE  /\ Describes(f) = {n \in Matching(g) : TimeLeaves(f, n)}
           /\ Matching(g) \subseteq 1..Len(chain)
<1>1. g \in Filter
  BY CompactIsFilter
<1>2. ASSUME NEW n \in 1..Len(chain)
      PROVE  n \in Matching(g) <=> InInterval(g, n) /\ InBounds(g, n) /\ BySelection(g, chain[n].content)
  BY <1>1, <1>2, MatchingExact
<1>3. Matching(g) \subseteq 1..Len(chain)
  BY DEF Matching
<1>4. ASSUME NEW n \in 1..Len(chain)
      PROVE  n \in Describes(f) <=> n \in Matching(g) /\ TimeLeaves(f, n)
  <2>1. PICK c : c = chain[n].content
    OBVIOUS
  <2>2. BySelection(g, c) <=>
            /\ f.type \in {None, c.type}
            /\ IF f.updated # NoKey THEN f.updated \in c.balance
               ELSE f.involved # NoKey => Involved(c, f.involved)
    <3>1. g.type = f.type /\ g.coin = None
      BY CompactFields DEF KeysKnown
    <3>2. NoKey \notin Dictionary
      BY SearchesAssumption DEF Dictionary
    <3>3. CASE f.updated # NoKey
      <4>1. KeyOf(f) = f.updated /\ KindOf(f) = "balance" /\ f.updated \in Dictionary
        BY <3>3 DEF KeyOf, KindOf, KeysKnown
      <4>2. g.search = "balance" /\ g.key = f.updated
        BY <4>1, CompactFields
      <4> QED
        BY <3>1, <3>3, <4>2 DEF BySelection
    <3>4. CASE f.updated = NoKey /\ f.involved # NoKey
      <4>1. KeyOf(f) = f.involved /\ KindOf(f) = "involved" /\ f.involved \in Dictionary
        BY <3>4 DEF KeyOf, KindOf, KeysKnown
      <4>2. g.search = "involved" /\ g.key = f.involved
        BY <4>1, CompactFields
      <4> QED
        BY <3>1, <3>4, <4>2 DEF BySelection
    <3>5. CASE f.updated = NoKey /\ f.involved = NoKey
      <4>1. KeyOf(f) \notin Dictionary
        BY <3>2, <3>5 DEF KeyOf
      <4>2. g.search = None /\ None # "balance" /\ None # "involved"
        BY <4>1, CompactFields DEF None
      <4> QED
        BY <3>1, <3>5, <4>2 DEF BySelection
    <3> QED
      BY <3>3, <3>4, <3>5
  <2>3. InBounds(g, n) <=> f.min <= n /\ (f.max # 0 => n <= f.max)
    <3>1. g.min = f.min /\ g.max = f.max
      BY CompactFields
    <3> QED
      BY <3>1 DEF InBounds
  <2>4. TimeLeaves(f, n) => InInterval(g, n)
    BY TimeInDays
  <2>5. n \in Describes(f) <=> /\ f.min <= n /\ (f.max # 0 => n <= f.max)
                               /\ f.type \in {None, c.type} /\ TimeLeaves(f, n)
                               /\ IF f.updated # NoKey THEN f.updated \in c.balance
                                  ELSE f.involved # NoKey => Involved(c, f.involved)
    BY <2>1 DEF Describes, TimeLeaves
  <2> QED
    BY <2>1, <2>2, <2>3, <2>4, <2>5, <1>2
<1>5. Describes(f) \subseteq 1..Len(chain)
  BY DEF Describes
<1> QED
  BY <1>3, <1>4, <1>5

-----------------------------------------------------------------------------
(* What findAll takes of a lookup.                                         *)

\* The results of the function and the interval, and of the interval alone.
LEMMA MatchesResult ==
    ASSUME SearchInv, NEW f \in FullFilter, NEW n \in 1..Len(chain)
    PROVE  /\ Matches(n, f, {"function", "interval"}) = IF TimeLeaves(f, n) THEN ResultOf(f)[n] ELSE {}
           /\ Matches(n, f, {"interval"}) = IF TimeLeaves(f, n) THEN {"use"} ELSE {}
           /\ ResultOf(f)[n] = f.function[chain[n].content]
           /\ ResultOf(f)[n] \in Results
<1>1. f.interval # Always => (InsideInterval(n, f.interval) <=> TimeLeaves(f, n))
  BY TimeInDays
<1>2. f.interval = Always => TimeLeaves(f, n)
  BY DEF TimeLeaves
<1>3. ResultOf(f)[n] = f.function[chain[n].content]
  BY DEF ResultOf
<1>4. Matches(n, f, {"function", "interval"}) =
          IF f.interval # Always => InsideInterval(n, f.interval) THEN f.function[chain[n].content] ELSE {}
  BY DEF Matches
<1>5. Matches(n, f, {"interval"}) = IF f.interval # Always => InsideInterval(n, f.interval) THEN {"use"} ELSE {}
  BY DEF Matches
<1>6. f.function \in [Contents -> Results] /\ chain[n].content \in Contents
  BY ConfirmedOnDay DEF FullFilter
<1> QED
  BY <1>1, <1>2, <1>3, <1>4, <1>5, <1>6

\* The lookup behind a search that is answered.
LEMMA LookedUp ==
    ASSUME SearchInv, indexed = 1..Len(chain), NEW f \in FullFilter, Answered(f), NEW g, g = Compact(f)
    PROVE  /\ g \in Filter /\ KeysKnown(f)
           /\ FindTransactions(g) = Page(g)
           /\ Matching(g) \in SUBSET Nat /\ IsFiniteSet(Matching(g)) /\ Matching(g) \subseteq 1..Len(chain)
           /\ Describes(f) = {n \in Matching(g) : TimeLeaves(f, n)}
           /\ Describes(f) \in SUBSET Nat /\ IsFiniteSet(Describes(f)) /\ Describes(f) \subseteq 1..Len(chain)
           /\ f.interval = Always => Describes(f) = Matching(g)
<1>1. KeysKnown(f) /\ Exact(g) /\ IndexInv
  BY DEF Answered, KeysKnown, SearchInv
<1>2. g \in Filter
  BY CompactIsFilter
<1>3. FindTransactions(g) = Page(g)
  BY <1>1, <1>2, LookupExact
<1>4. Matching(g) \in SUBSET Nat /\ IsFiniteSet(Matching(g))
  BY <1>1, MatchingFinite
<1>5. Describes(f) = {n \in Matching(g) : TimeLeaves(f, n)} /\ Matching(g) \subseteq 1..Len(chain)
  BY <1>1, DescribedBy
<1>6. Describes(f) \in SUBSET Matching(g)
  BY <1>5
<1>7. IsFiniteSet(Describes(f))
  BY <1>4, <1>6, FS_Subset
<1>8. f.interval = Always => Describes(f) = Matching(g)
  BY <1>5 DEF TimeLeaves
<1> QED
  BY <1>1, <1>2, <1>3, <1>4, <1>5, <1>6, <1>7, <1>8

\* Without pages findAll returns what the filter describes and the function uses.
LEMMA FindAllIs ==
    ASSUME SearchInv, indexed = 1..Len(chain), NEW f \in FullFilter, f.size = 0, Answered(f)
    PROVE  FindAll(f) = Wanted(f)
<1>1. PICK g : g = Compact(f)
  OBVIOUS
<1>2. PICK M : M = Matching(g)
  OBVIOUS
<1>3. PICK D : D = Describes(f)
  OBVIOUS
<1>4. /\ FindTransactions(g) = Page(g) /\ M \in SUBSET Nat /\ IsFiniteSet(M) /\ M \subseteq 1..Len(chain)
      /\ D = {n \in M : TimeLeaves(f, n)} /\ D \in SUBSET M
  BY <1>1, <1>2, <1>3, LookedUp
<1>5. g.size = 0 /\ g.direction = f.direction
  BY <1>1, CompactFields
<1>6. FindTransactions(g) = Ordered(M, f.direction)
  BY <1>2, <1>4, <1>5 DEF Page
<1>7. PICK result : result = [n \in 1..Len(chain) |-> Matches(n, f, {"function", "interval"})]
  OBVIOUS
<1>8. FindAll(f) = Taken(Ordered(M, f.direction), result)
  BY <1>1, <1>6, <1>7 DEF FindAll
<1>9. PICK other : other = ResultOf(f)
  OBVIOUS
<1>10. \A n \in M \ D : result[n] = {}
  <2>1. TAKE n \in M \ D
  <2>2. n \in 1..Len(chain) /\ ~TimeLeaves(f, n)
    BY <1>4
  <2>3. Matches(n, f, {"function", "interval"}) = {}
    BY <2>2, MatchesResult
  <2> QED
    BY <2>2, <2>3, <1>7
<1>11. \A n \in D : result[n] = other[n]
  <2>1. TAKE n \in D
  <2>2. n \in 1..Len(chain) /\ TimeLeaves(f, n)
    BY <1>4
  <2>3. Matches(n, f, {"function", "interval"}) = ResultOf(f)[n]
    BY <2>2, MatchesResult
  <2> QED
    BY <2>2, <2>3, <1>7, <1>9
<1>12. Taken(Ordered(M, f.direction), result) = Taken(Ordered(D, f.direction), other)
  BY <1>4, <1>10, <1>11, TakenPart
<1> QED
  BY <1>8, <1>12, <1>3, <1>9 DEF Wanted, Described

\* One sequence flattened is that sequence.
LEMMA FlattenOne ==
    ASSUME NEW s, NEW one, one = [i \in 1..1 |-> s]
    PROVE  FlattenSeq(one) = s
<1>1. Len(one) = 1 /\ one[1] = s
  OBVIOUS
<1>2. PICK flatten : flatten = [i \in 1..1 |-> IF i = 1 THEN one[i] ELSE flatten[i - 1] \o one[i]]
  <2>1. PICK w : w = [i \in 1..1 |-> s]
    OBVIOUS
  <2>2. w = [i \in 1..1 |-> IF i = 1 THEN one[i] ELSE w[i - 1] \o one[i]]
    <3>1. \A i \in 1..1 : i = 1
      OBVIOUS
    <3> QED
      BY <2>1, <3>1, <1>1
  <2> QED
    BY <2>2
<1>3. PICK F : F = CHOOSE fl : fl = [i \in 1..1 |-> IF i = 1 THEN one[i] ELSE fl[i - 1] \o one[i]]
  OBVIOUS
<1>4. F = [i \in 1..1 |-> IF i = 1 THEN one[i] ELSE F[i - 1] \o one[i]]
  BY <1>2, <1>3
<1>5. F[1] = s
  BY <1>1, <1>4
<1>6. FlattenSeq(one) = F[1]
  BY <1>1, <1>3 DEF FlattenSeq
<1> QED
  BY <1>5, <1>6

\* Nor does findAll page by page return anything else without pages.
LEMMA FindAllPagesIs ==
    ASSUME SearchInv, indexed = 1..Len(chain), NEW f \in FullFilter, f.size = 0, Answered(f), f.interval = Always
    PROVE  FindAllPages(f) = Wanted(f)
<1>1. PICK g : g = Compact(f)
  OBVIOUS
<1>2. PICK D : D = Describes(f)
  OBVIOUS
<1>3. FindTransactions(g) = Page(g) /\ D = Matching(g)
  BY <1>1, <1>2, LookedUp
<1>4. g.size = 0 /\ g.direction = f.direction /\ g.page = f.page /\ f.page \in Nat
  BY <1>1, CompactFields DEF FullFilter
<1>5. FindTransactions(g) = Ordered(D, f.direction)
  BY <1>3, <1>4 DEF Page
<1>6. PICK n \in Nat : n = Len(chain)
  BY DEF SearchInv, IndexInv, IndexTypes
<1>7. PICK pages : pages = [i \in 1..(n + 2) |-> FindTransactions([g EXCEPT !.page = f.page + i - 1])]
  OBVIOUS
<1>8. DOMAIN pages = 1..(n + 2) /\ pages[1] = FindTransactions(g)
  <2>1. 1 \in 1..(n + 2) /\ f.page + 1 - 1 = f.page
    BY <1>4, <1>6
  <2>2. [g EXCEPT !.page = f.page] = g
    <3>1. g = [interval |-> g.interval, min |-> g.min, max |-> g.max, type |-> g.type,
               search |-> g.search, key |-> g.key, coin |-> g.coin, direction |-> g.direction,
               size |-> g.size, page |-> g.page]
      BY <1>1, CompactFields
    <3>2. [[interval |-> g.interval, min |-> g.min, max |-> g.max, type |-> g.type,
            search |-> g.search, key |-> g.key, coin |-> g.coin, direction |-> g.direction,
            size |-> g.size, page |-> g.page] EXCEPT !.page = g.page] =
              [interval |-> g.interval, min |-> g.min, max |-> g.max, type |-> g.type,
               search |-> g.search, key |-> g.key, coin |-> g.coin, direction |-> g.direction,
               size |-> g.size, page |-> g.page]
      OBVIOUS
    <3> QED
      BY <3>1, <3>2, <1>4
  <2> QED
    BY <1>7, <2>1, <2>2
<1>9. FindAllPages(f) = ResultOfPages(f, pages)
  BY <1>1, <1>6, <1>7 DEF FindAllPages
<1>10. PICK one : one = [i \in 1..1 |-> Taken(pages[i], ResultOf(f))]
  OBVIOUS
<1>11. ResultOfPages(f, pages) = FlattenSeq(one)
  <2>1. PICK K : K = DOMAIN pages
    OBVIOUS
  <2>2. Min(K) = 1
    <3>1. 1 \in K /\ \A k \in K : 1 <= k /\ k \in Nat
      BY <1>6, <1>8, <2>1
    <3>2. \A x \in K : (\A y \in K : x <= y) => x = 1
      BY <3>1
    <3> QED
      BY <3>1, <3>2 DEF Min
  <2>3. ResultOfPages(f, pages) = FlattenSeq([i \in 1..Min(K) |-> Taken(pages[i], ResultOf(f))])
    <3>1. K = {k \in DOMAIN pages :
                  \/ f.size = 0 \/ pages[k] = <<>>
                  \/ Len(FlattenSeq([i \in 1..k |-> Taken(pages[i], ResultOf(f))])) >= f.size
                  \/ \E i \in DOMAIN pages[k] : "stop" \in ResultOf(f)[pages[k][i]]}
      BY <2>1
    <3> QED
      BY <3>1 DEF ResultOfPages
  <2> QED
    BY <1>10, <2>2, <2>3
<1>12. one = [i \in 1..1 |-> Taken(Ordered(D, f.direction), ResultOf(f))]
  <2>1. \A i \in 1..1 : i = 1
    OBVIOUS
  <2> QED
    BY <1>10, <2>1, <1>8, <1>5
<1>13. FlattenSeq(one) = Taken(Ordered(D, f.direction), ResultOf(f))
  BY <1>12, FlattenOne
<1> QED
  BY <1>2, <1>9, <1>11, <1>13 DEF Wanted, Described

\* FindAllExact.
LEMMA AllFromIndex ==
    ASSUME SearchInv, indexed = 1..Len(chain)
    PROVE  FindAllExact
<1>1. \A f \in Searches : f \in FullFilter
  BY SearchesAssumption
<1> QED
  BY <1>1, FindAllIs, FindAllPagesIs DEF FindAllExact

-----------------------------------------------------------------------------
(* Searches for one transaction.                                           *)

\* What a filter describes, in its order.
LEMMA DescribedPlaces ==
    ASSUME SearchInv, NEW f, Describes(f) \in SUBSET Nat, IsFiniteSet(Describes(f)), NEW s, s = Described(f)
    PROVE  /\ Describes(f) = {} => s = <<>>
           /\ Describes(f) # {} => s # <<>> /\ s[1] \in Describes(f)
           /\ s = <<>> <=> Describes(f) = {}
           /\ \E n \in Nat : s = [i \in 1..n |-> s[i]] /\ DOMAIN s = 1..n /\ Len(s) = n
                             /\ s \in Seq(Nat)
                             /\ \A i \in 1..n : s[i] \in Describes(f)
                             /\ (n = 0 <=> Describes(f) = {})
<1>1. PICK S : S = Describes(f)
  OBVIOUS
<1>2. PICK n \in Nat : n = Cardinality(S) /\ (n = 0 <=> S = {})
  BY <1>1, FS_CardinalityType, FS_EmptySet
<1>3. s = Ordered(S, f.direction)
  BY <1>1 DEF Described
<1>4. DOMAIN s = 1..n /\ \A i \in 1..n : s[i] \in S
  BY <1>1, <1>2, <1>3, OrderedPlaces
<1>5. s = [i \in 1..n |-> s[i]]
  BY <1>2, <1>3 DEF Ordered
<1>6. s \in Seq(Nat) /\ Len(s) = n
  <2>1. \A i \in 1..n : s[i] \in Nat
    BY <1>1, <1>4
  <2>2. PICK t : t = [i \in 1..n |-> s[i]]
    OBVIOUS
  <2>3. t \in Seq(Nat) /\ Len(t) = n
    BY <2>1, <2>2
  <2> QED
    BY <2>2, <2>3, <1>5
<1>7. n # 0 => 1 \in 1..n
  OBVIOUS
<1>8. n = 0 => s = <<>>
  BY <1>6
<1>9. s = <<>> => n = 0
  BY <1>6
<1> QED
  BY <1>1, <1>2, <1>4, <1>5, <1>6, <1>7, <1>8, <1>9

\* The page of one transaction.
LEMMA PageOfOne ==
    ASSUME SearchInv, indexed = 1..Len(chain), NEW f \in FullFilter, f.size = 1, f.page = 0,
           f.interval = Always, Answered(f)
    PROVE  FindTransactions(Compact(f)) = IF Described(f) = <<>> THEN <<>> ELSE <<Described(f)[1]>>
<1>1. PICK g : g = Compact(f)
  OBVIOUS
<1>2. FindTransactions(g) = Page(g) /\ Describes(f) = Matching(g)
      /\ Describes(f) \in SUBSET Nat /\ IsFiniteSet(Describes(f))
  BY <1>1, LookedUp
<1>3. g.size = 1 /\ g.direction = f.direction /\ g.page = 0
  BY <1>1, CompactFields
<1>4. PICK all : all = Described(f)
  OBVIOUS
<1>5. all = Ordered(Matching(g), g.direction)
  BY <1>2, <1>3, <1>4 DEF Described
<1>6. all \in Seq(Nat)
  BY <1>2, <1>4, DescribedPlaces
<1>7. Page(g) = SubSeq(all, 1, IF 1 < Len(all) THEN 1 ELSE Len(all))
  BY <1>3, <1>5 DEF Page
<1>8. Page(g) = IF all = <<>> THEN <<>> ELSE <<all[1]>>
  <2>1. CASE all = <<>>
    BY <2>1, <1>7
  <2>2. CASE all # <<>>
    <3>1. Len(all) \in Nat /\ Len(all) >= 1
      BY <2>2, <1>6
    <3>2. Page(g) = SubSeq(all, 1, 1)
      BY <3>1, <1>7
    <3>3. PICK one : one = SubSeq(all, 1, 1)
      OBVIOUS
    <3>4. one = [i \in 1..1 |-> all[1]]
      <4>1. 1 \in Nat /\ 1 + 1 - 1 = 1 /\ \A i \in 1..1 : i + 1 - 1 = 1
        OBVIOUS
      <4>2. one = [i \in 1..(1 + 1 - 1) |-> all[i + 1 - 1]]
        BY <1>6, <3>3, <4>1, PartOfSequence
      <4> QED
        BY <4>1, <4>2
    <3>5. one = <<all[1]>>
      BY <3>4
    <3> QED
      BY <3>2, <3>3, <3>5, <2>2
  <2> QED
    BY <2>1, <2>2
<1> QED
  BY <1>1, <1>2, <1>4, <1>8

\* What a loop takes of one number.
LEMMA TakenOne ==
    ASSUME NEW x, NEW result
    PROVE  /\ Taken(<<x>>, result) = IF "use" \in result[x] THEN <<x>> ELSE <<>>
           /\ Taken(<<>>, result) = <<>>
<1>1. PICK s : s = <<x>>
  OBVIOUS
<1>2. DOMAIN s = {1} /\ s[1] = x
  BY <1>1
<1>3. PICK stops : stops = {i \in DOMAIN s : "stop" \in result[s[i]]}
  OBVIOUS
<1>4. PICK used : used = {i \in DOMAIN s : "use" \in result[s[i]] /\ \A j \in stops : i <= j}
  OBVIOUS
<1>5. Taken(s, result) = [k \in 1..Cardinality(used) |-> s[Select(used, k - 1)]]
  BY <1>3, <1>4 DEF Taken
<1>6. used = IF "use" \in result[x] THEN {1} ELSE {}
  BY <1>2, <1>3, <1>4
<1>7. Cardinality({1}) = 1 /\ IsFiniteSet({1}) /\ Cardinality({}) = 0
  BY FS_Singleton, FS_EmptySet
<1>8. Select({1}, 0) = 1
  <2>1. 0 \in 0..(Cardinality({1}) - 1)
    BY <1>7
  <2>2. Select({1}, 0) \in {1}
    BY <1>7, <2>1, Selected
  <2> QED
    BY <2>2
<1>9. Taken(s, result) = IF "use" \in result[x] THEN <<x>> ELSE <<>>
  <2>1. CASE "use" \in result[x]
    <3>1. used = {1} /\ \A k \in 1..1 : k - 1 = 0
      BY <2>1, <1>6
    <3>2. Taken(s, result) = [k \in 1..1 |-> s[Select(used, k - 1)]]
      BY <3>1, <1>5, <1>7
    <3>3. \A k \in 1..1 : s[Select(used, k - 1)] = x
      BY <3>1, <1>8, <1>2
    <3>4. Taken(s, result) = [k \in 1..1 |-> x]
      BY <3>2, <3>3
    <3> QED
      BY <3>4, <2>1
  <2>2. CASE "use" \notin result[x]
    <3>1. Cardinality(used) = 0
      BY <2>2, <1>6, <1>7
    <3> QED
      BY <2>2, <3>1, <1>5
  <2> QED
    BY <2>1, <2>2
<1>10. Taken(<<>>, result) = <<>>
  <2>1. DOMAIN <<>> = {}
    OBVIOUS
  <2>2. Taken(<<>>, result) = [k \in 1..Cardinality({}) |-> <<>>[Select({}, k - 1)]]
    <3>1. {i \in DOMAIN <<>> : "use" \in result[<<>>[i]]
             /\ \A j \in {i0 \in DOMAIN <<>> : "stop" \in result[<<>>[i0]]} : i <= j} = {}
      BY <2>1
    <3> QED
      BY <3>1 DEF Taken
  <2> QED
    BY <2>2, <1>7
<1> QED
  BY <1>1, <1>9, <1>10

\* A search for one transaction looks at the first the filter describes.
LEMMA OneFound ==
    ASSUME SearchInv, indexed = 1..Len(chain), NEW f \in FullFilter, f.size = 1, f.page = 0,
           f.interval = Always, Answered(f), NEW s, s = Described(f)
    PROVE  /\ s # <<>> => s[1] \in Describes(f) /\ s[1] \in 1..Len(chain)
           /\ s = <<>> <=> Describes(f) = {}
           /\ OnlyOne(FindAll(f)) = IF s # <<>> /\ "use" \in f.function[chain[s[1]].content]
                                    THEN s[1] ELSE NotFound
<1>1. /\ Describes(f) \in SUBSET Nat /\ IsFiniteSet(Describes(f)) /\ Describes(f) \subseteq 1..Len(chain)
  BY LookedUp
<1>2. s # <<>> => s[1] \in Describes(f) /\ s[1] \in 1..Len(chain)
  BY <1>1, DescribedPlaces
<1>3. s = <<>> <=> Describes(f) = {}
  BY <1>1, DescribedPlaces
<1>4. FindTransactions(Compact(f)) = IF s = <<>> THEN <<>> ELSE <<s[1]>>
  BY PageOfOne
<1>5. PICK result : result = [n \in 1..Len(chain) |-> Matches(n, f, {"function", "interval"})]
  OBVIOUS
<1>6. PICK taken : taken = Taken(FindTransactions(Compact(f)), result)
  OBVIOUS
<1>7. FindAll(f) = IF Len(taken) > 1 THEN SubSeq(taken, 1, 1) ELSE taken
  BY <1>5, <1>6 DEF FindAll
<1>8. CASE s = <<>>
  <2>1. taken = <<>>
    BY <1>8, <1>4, <1>6, TakenOne
  <2>2. Len(taken) = 0
    BY <2>1
  <2>3. OnlyOne(FindAll(f)) = NotFound
    BY <2>2, <1>7 DEF OnlyOne
  <2> QED
    BY <1>8, <2>3, <1>2, <1>3
<1>9. CASE s # <<>>
  <2>1. PICK x : x = s[1]
    OBVIOUS
  <2>2. x \in 1..Len(chain)
    BY <1>9, <1>2, <2>1
  <2>3. result[x] = f.function[chain[x].content]
    <3>1. TimeLeaves(f, x)
      BY DEF TimeLeaves
    <3> QED
      BY <3>1, <2>2, <1>5, MatchesResult
  <2>4. taken = IF "use" \in f.function[chain[x].content] THEN <<x>> ELSE <<>>
    <3>1. taken = Taken(<<x>>, result)
      BY <1>9, <1>4, <1>6, <2>1
    <3> QED
      BY <3>1, <2>3, TakenOne
  <2>5. CASE "use" \in f.function[chain[x].content]
    <3>1. taken = <<x>> /\ Len(taken) = 1 /\ taken[1] = x
      BY <2>4, <2>5
    <3>2. OnlyOne(FindAll(f)) = x
      BY <3>1, <1>7 DEF OnlyOne
    <3> QED
      BY <3>2, <2>1, <2>5, <1>2, <1>3, <1>9
  <2>6. CASE "use" \notin f.function[chain[x].content]
    <3>1. taken = <<>> /\ Len(taken) = 0
      BY <2>4, <2>6
    <3>2. OnlyOne(FindAll(f)) = NotFound
      BY <3>1, <1>7 DEF OnlyOne
    <3> QED
      BY <3>2, <2>1, <2>6, <1>2, <1>3, <1>9
  <2> QED
    BY <2>5, <2>6
<1> QED
  BY <1>8, <1>9

\* The filters of the code that ask for one transaction.
LEMMA DefaultFilters ==
    /\ Default \in FullFilter /\ LAST_TRANSACTION \in FullFilter /\ FIRST_TRANSACTION \in FullFilter
    /\ \A k \in Dictionary : LastBalanceFor(k) \in FullFilter
<1>1. NoFunction \in [Contents -> Results]
  BY DEF NoFunction, Results
<1>2. Default \in FullFilter
  BY <1>1 DEF Default, FullFilter
<1>3. LAST_TRANSACTION \in FullFilter /\ FIRST_TRANSACTION \in FullFilter
  BY <1>1 DEF LAST_TRANSACTION, FIRST_TRANSACTION, Default, FullFilter
<1>4. \A k \in Dictionary : LastBalanceFor(k) \in FullFilter
  <2>1. \A k \in Dictionary : k \in Keys
    BY DEF Dictionary
  <2> QED
    BY <1>1, <2>1 DEF LastBalanceFor, Default, FullFilter
<1> QED
  BY <1>2, <1>3, <1>4

\* LAST_TRANSACTION describes every transaction, the last of the chain first.
LEMMA LastOfChain ==
    ASSUME SearchInv, NEW s, s = Described(LAST_TRANSACTION)
    PROVE  Len(chain) = IF s = <<>> THEN NotFound ELSE s[1]
<1>1. PICK n \in Nat : n = Len(chain)
  BY DEF SearchInv, IndexInv, IndexTypes
<1>2. PICK S : S = 1..n
  OBVIOUS
<1>3. Describes(LAST_TRANSACTION) = S
  <2>1. \A i \in 1..n : 0 <= i
    OBVIOUS
  <2>2. PICK f : f = LAST_TRANSACTION
    OBVIOUS
  <2>3. f.min = 0 /\ f.max = 0 /\ f.type = None /\ f.interval = Always /\ f.updated = NoKey /\ f.involved = NoKey
    BY <2>2 DEF LAST_TRANSACTION, Default
  <2>4. \A i \in 1..n : i \in Describes(f) <=> 0 <= i
    BY <1>1, <2>3 DEF Describes
  <2>5. Describes(f) \subseteq 1..n
    BY <1>1 DEF Describes
  <2> QED
    BY <1>2, <2>1, <2>2, <2>4, <2>5
<1>4. S \in SUBSET Nat /\ IsFiniteSet(S) /\ Cardinality(S) = n
  BY <1>2, Places
<1>5. s = Ordered(S, "desc")
  BY <1>3 DEF Described, LAST_TRANSACTION, Default
<1>6. s = [i \in 1..n |-> Select(S, n - i)]
  BY <1>4, <1>5 DEF Ordered
<1>7. CASE n = 0
  <2>1. s = <<>>
    BY <1>6, <1>7
  <2> QED
    BY <2>1, <1>1, <1>7 DEF NotFound
<1>8. CASE n # 0
  <2>1. n \in S /\ \A x \in S : x <= n
    BY <1>2, <1>8
  <2>2. Max(S) = Select(S, n - 1) /\ Max(S) \in S /\ \A x \in S : x <= Max(S)
    BY <1>4, <2>1, SelectedEnds
  <2>3. Max(S) = n
    <3>1. PICK m : m = Max(S)
      OBVIOUS
    <3>2. m \in Nat /\ m <= n /\ n <= m
      BY <3>1, <2>1, <2>2, <1>4
    <3> QED
      BY <3>1, <3>2
  <2>4. s[1] = n /\ s # <<>>
    <3>1. 1 \in 1..n
      BY <1>8
    <3>2. s[1] = Select(S, n - 1)
      BY <1>6, <3>1
    <3>3. DOMAIN s = 1..n /\ DOMAIN <<>> = {}
      BY <1>6
    <3> QED
      BY <3>1, <3>2, <3>3, <2>2, <2>3
  <2> QED
    BY <2>4, <1>1
<1> QED
  BY <1>7, <1>8

\* OneIsFirst.
LEMMA FirstFromIndex ==
    ASSUME SearchInv, indexed = 1..Len(chain)
    PROVE  OneIsFirst
<1>1. ASSUME NEW f \in FullFilter, f.size = 1, f.page = 0, f.function = NoFunction, f.interval = Always, Answered(f)
      PROVE  FindOne(f) = IF Described(f) = <<>> THEN NotFound ELSE Described(f)[1]
  <2>1. CASE IsTheSame(f, LAST_TRANSACTION)
    <3>1. f = LAST_TRANSACTION /\ FindOne(f) = Len(chain)
      BY <2>1 DEF IsTheSame, FindOne
    <3> QED
      BY <3>1, LastOfChain
  <2>2. CASE ~IsTheSame(f, LAST_TRANSACTION)
    <3>1. FindOne(f) = OnlyOne(FindAll(f))
      BY <2>2 DEF FindOne
    <3>2. PICK s : s = Described(f)
      OBVIOUS
    <3>3. /\ s # <<>> => s[1] \in 1..Len(chain)
          /\ OnlyOne(FindAll(f)) = IF s # <<>> /\ "use" \in f.function[chain[s[1]].content]
                                   THEN s[1] ELSE NotFound
      BY <1>1, <3>2, OneFound
    <3>4. s # <<>> => chain[s[1]].content \in Contents
      BY <3>3, ConfirmedOnDay
    <3>5. s # <<>> => "use" \in f.function[chain[s[1]].content]
      BY <3>4, <1>1 DEF NoFunction
    <3> QED
      BY <3>1, <3>2, <3>3, <3>5
  <2> QED
    BY <2>1, <2>2
<1>2. Searches \cup {LAST_TRANSACTION, FIRST_TRANSACTION} \cup {LastBalanceFor(k) : k \in Dictionary} \subseteq FullFilter
  BY SearchesAssumption, DefaultFilters
<1> QED
  BY <1>1, <1>2 DEF OneIsFirst

-----------------------------------------------------------------------------
(* The searches built on findAll.                                          *)

\* While no addition has failed the numbers of the index are those of its bounds.
LEMMA BoundsOfIndex ==
    ASSUME SearchInv, indexed = 1..Len(chain)
    PROVE  indexed = minNr..maxNr \/ indexed = {}
<1>1. CASE indexed # {}
  <2>1. IndexInv
    BY DEF SearchInv
  <2>2. /\ Len(chain) \in Nat /\ minNr \in indexed /\ maxNr = Len(chain) /\ \A n \in indexed : minNr <= n
    BY <2>1, <1>1, IndexFacts
  <2>3. PICK n \in Nat : n = Len(chain) /\ n >= 1
    BY <1>1, <2>2
  <2>4. 1 \in indexed
    BY <2>3
  <2>5. minNr = 1
    BY <2>2, <2>3, <2>4
  <2> QED
    BY <2>2, <2>5
<1> QED
  BY <1>1

\* The filter of isTransactionExist.
SameContent(c) == [d \in Contents |-> IF d = c THEN {"use", "stop"} ELSE {}]
AtMoment(c, time) == [Default EXCEPT !.interval = <<time, time>>, !.function = SameContent(c)]

\* Its fields; it is a filter, and not the one findOne answers with the last transaction.
LEMMA AtMomentFields ==
    ASSUME NEW c, NEW time \in AllMoments, NEW h, h = AtMoment(c, time)
    PROVE  /\ h \in FullFilter
           /\ h.min = 0 /\ h.max = 0 /\ h.involved = NoKey /\ h.updated = NoKey /\ h.direction = "desc"
           /\ h.type = None /\ h.size = 0 /\ h.page = 0 /\ h.coin = None /\ h.interval = <<time, time>>
           /\ h.interval # Always /\ h.function = SameContent(c)
           /\ ~IsTheSame(h, LAST_TRANSACTION)
<1>1. h = [min |-> 0, max |-> 0, involved |-> NoKey, updated |-> NoKey, direction |-> "desc",
           type |-> None, size |-> 0, page |-> 0, coin |-> None, interval |-> <<time, time>>,
           function |-> SameContent(c)]
  BY DEF AtMoment, Default
<1>2. SameContent(c) \in [Contents -> Results]
  BY DEF SameContent, Results
<1>3. time \in Nat
  BY DaysOfMoments
<1>4. <<time, time>> \in {i \in AllMoments \X AllMoments : i[1] <= i[2]}
  BY <1>3
<1>5. h \in FullFilter
  BY <1>1, <1>2, <1>4 DEF FullFilter
<1>6. <<time, time>> # Always
  BY <1>3 DEF Always, NoDate
<1>7. h.size # LAST_TRANSACTION.size
  BY <1>1 DEF LAST_TRANSACTION, Default
<1> QED
  BY <1>1, <1>5, <1>6, <1>7 DEF IsTheSame

\* A day before the first transaction has none.
LEMMA NothingBefore ==
    ASSUME SearchInv, NEW g, g.interval # Always, g.interval[2] < minDate
    PROVE  FindTransactions(g) = <<>>
<1>1. CalculateTxRange(g) = {}
  BY DEF CalculateTxRange
<1>2. AggregateTransactions(g) = {}
  BY <1>1 DEF AggregateTransactions
<1> QED
  BY <1>2 DEF FindTransactions, PageOf

\* The transactions of a moment with a content: found are some exactly if there is one.
LEMMA MomentFound ==
    ASSUME SearchInv, indexed = 1..Len(chain), NEW c \in Contents, NEW time \in AllMoments,
           NEW h, h = AtMoment(c, time)
    PROVE  FindOne(h) # NotFound <=> \E n \in 1..Len(chain) : chain[n].content = c /\ ConfirmedAt(n) = time
<1>1. /\ h \in FullFilter
      /\ h.min = 0 /\ h.max = 0 /\ h.involved = NoKey /\ h.updated = NoKey /\ h.direction = "desc"
      /\ h.type = None /\ h.size = 0 /\ h.page = 0 /\ h.coin = None /\ h.interval = <<time, time>>
      /\ h.interval # Always /\ h.function = SameContent(c)
      /\ ~IsTheSame(h, LAST_TRANSACTION)
  BY AtMomentFields
<1>2. time \in Nat /\ DayOf(time) \in Nat
  BY DaysOfMoments
<1>3. FindOne(h) = OnlyOne(FindAll(h))
  BY <1>1 DEF FindOne
<1>4. PICK g : g = Compact(h)
  OBVIOUS
<1>5. /\ g.interval = <<DayOf(time), DayOf(time)>> /\ g.size = 0
      /\ g.interval[1] = DayOf(time) /\ g.interval[2] = DayOf(time)
  <2>1. h.interval[1] = time /\ h.interval[2] = time
    BY <1>1
  <2>2. g.size = h.size /\ g.interval = IF h.interval = Always THEN Always ELSE <<DayOf(h.interval[1]), DayOf(h.interval[2])>>
    BY <1>1, <1>4, CompactFields
  <2>3. g.interval = <<DayOf(time), DayOf(time)>> /\ g.size = 0
    BY <1>1, <2>1, <2>2
  <2> QED
    BY <2>3
<1>6. CASE indexed # {} /\ DayOf(time) < minDate
  <2>1. g.interval # Always
    BY <1>2, <1>5 DEF Always, NoDate
  <2>2. FindTransactions(g) = <<>>
    BY <1>5, <1>6, <2>1, NothingBefore
  <2>3. FindAll(h) = <<>>
    BY <2>2, <1>1, <1>4, TakenOne DEF FindAll
  <2>4. FindOne(h) = NotFound
    BY <2>3, <1>3 DEF OnlyOne
  <2>5. ASSUME NEW n \in 1..Len(chain), ConfirmedAt(n) = time
        PROVE  FALSE
    <3>1. chain[n].date = DayOf(time)
      BY <2>5, ConfirmedOnDay
    <3>2. minDate <= chain[n].date /\ minDate \in Nat
      BY <1>6, IndexFacts DEF SearchInv
    <3> QED
      BY <3>1, <3>2, <1>2, <1>6
  <2> QED
    BY <2>4, <2>5
<1>7. CASE indexed = {} \/ ~(DayOf(time) < minDate)
  <2>1. DayOf(time) >= minDate
    <3>1. CASE indexed = {}
      <4>1. minDate = NoDate
        BY <3>1 DEF SearchInv, IndexInv, NothingIndexed
      <4> QED
        BY <4>1, <1>2 DEF NoDate
    <3>2. CASE indexed # {}
      <4>1. minDate \in Nat
        BY <3>2, IndexFacts DEF SearchInv
      <4> QED
        BY <4>1, <3>2, <1>2, <1>7
    <3> QED
      BY <3>1, <3>2
  <2>2. Answered(h)
    <3>1. Exact(g)
      BY <2>1, <1>5, BoundsOfIndex DEF Exact
    <3> QED
      BY <3>1, <1>1, <1>4 DEF Answered
  <2>3. FindAll(h) = Wanted(h)
    BY <1>1, <2>2, FindAllIs
  <2>4. PICK S : S = Describes(h)
    OBVIOUS
  <2>5. S \in SUBSET Nat /\ IsFiniteSet(S) /\ S \subseteq 1..Len(chain)
    BY <1>1, <2>2, <2>4, LookedUp
  <2>6. \A n \in 1..Len(chain) : n \in S <=> ConfirmedAt(n) = time
    <3>1. TAKE n \in 1..Len(chain)
    <3>2. n \in Describes(h) <=> 0 <= n /\ ConfirmedAt(n) \in time..time
      <4>1. h.interval[1] = time /\ h.interval[2] = time
        BY <1>1
      <4>2. n \in Describes(h) <=>
                /\ h.min <= n /\ (h.max # 0 => n <= h.max)
                /\ h.type \in {None, chain[n].content.type}
                /\ h.interval # Always => ConfirmedAt(n) \in h.interval[1]..h.interval[2]
                /\ IF h.updated # NoKey THEN h.updated \in chain[n].content.balance
                   ELSE h.involved # NoKey => Involved(chain[n].content, h.involved)
        BY DEF Describes
      <4> QED
        BY <1>1, <4>1, <4>2
    <3>3. n \in Nat /\ ConfirmedAt(n) \in Nat
      BY ConfirmedOnDay
    <3> QED
      BY <3>2, <3>3, <2>4, <1>2
  <2>7. PICK result : result = ResultOf(h)
    OBVIOUS
  <2>8. \A n \in 1..Len(chain) : result[n] = IF chain[n].content = c THEN {"use", "stop"} ELSE {}
    <3>1. TAKE n \in 1..Len(chain)
    <3>2. chain[n].content \in Contents
      BY ConfirmedOnDay
    <3> QED
      BY <3>2, <2>7, <1>1 DEF ResultOf, SameContent
  <2>9. PICK C : C = Chosen(S, "desc", result)
    OBVIOUS
  <2>10. FindAll(h) = Ordered(C, "desc")
    BY <2>3, <2>4, <2>5, <2>7, <2>9, <1>1, TakenOrdered DEF Wanted, Described
  <2>11. C \in SUBSET S /\ \A n \in C : "use" \in result[n]
    BY <2>9 DEF Chosen
  <2>12. IsFiniteSet(C) /\ C \in SUBSET Nat
    BY <2>5, <2>11, FS_Subset
  <2>13. PICK T : T = {n \in S : chain[n].content = c}
    OBVIOUS
  <2>14. T # {} => C # {}
    <3>1. SUFFICES ASSUME T # {} PROVE C # {}
      OBVIOUS
    <3>2. T \in SUBSET S /\ T \in SUBSET Nat
      BY <2>5, <2>13
    <3>3. IsFiniteSet(T)
      BY <2>5, <3>2, FS_Subset
    <3>4. PICK x : x = Max(T)
      OBVIOUS
    <3>5. x \in T /\ \A y \in T : y <= x
      BY <3>1, <3>2, <3>3, <3>4, SelectedEnds
    <3>6. x \in S /\ "use" \in result[x]
      BY <3>5, <2>13, <2>5, <2>8
    <3>7. ASSUME NEW m \in S, "stop" \in result[m]
          PROVE  ~Precedes(m, x, "desc")
      <4>1. m \in T
        BY <3>7, <2>13, <2>5, <2>8
      <4>2. m \in Nat /\ x \in Nat /\ m <= x
        BY <4>1, <3>5, <3>2
      <4> QED
        BY <4>2 DEF Precedes
    <3>8. x \in C
      BY <3>6, <3>7, <2>9 DEF Chosen
    <3> QED
      BY <3>8
  <2>15. C # {} => T # {}
    BY <2>11, <2>13, <2>5, <2>8
  <2>16. T # {} <=> \E n \in 1..Len(chain) : chain[n].content = c /\ ConfirmedAt(n) = time
    BY <2>13, <2>5, <2>6
  <2>17. OnlyOne(Ordered(C, "desc")) # NotFound <=> C # {}
    <3>1. PICK k \in Nat : k = Cardinality(C) /\ (k = 0 <=> C = {})
      BY <2>12, FS_CardinalityType, FS_EmptySet
    <3>2. PICK s : s = Ordered(C, "desc")
      OBVIOUS
    <3>3. DOMAIN s = 1..k /\ \A i \in 1..k : s[i] \in C
      BY <2>12, <3>1, <3>2, OrderedPlaces
    <3>4. Len(s) = k
      BY <3>1, <3>2, <3>3 DEF Ordered
    <3>5. \A n \in C : n # 0
      BY <2>11, <2>5
    <3>6. CASE k = 0
      BY <3>1, <3>2, <3>4, <3>6 DEF OnlyOne, NotFound
    <3>7. CASE k = 1
      <4>1. s[1] # 0
        BY <3>3, <3>5, <3>7
      <4>2. OnlyOne(s) = s[1]
        BY <3>4, <3>7 DEF OnlyOne
      <4> QED
        BY <4>1, <4>2, <3>1, <3>2, <3>7 DEF NotFound
    <3>8. CASE k > 1
      <4>1. OnlyOne(s) = -1
        BY <3>4, <3>8 DEF OnlyOne, Throws
      <4> QED
        BY <4>1, <3>1, <3>2, <3>8 DEF NotFound
    <3> QED
      BY <3>1, <3>6, <3>7, <3>8
  <2> QED
    BY <1>3, <2>10, <2>14, <2>15, <2>16, <2>17
<1> QED
  BY <1>6, <1>7

\* ExistsExact.
LEMMA ExistsFromIndex ==
    ASSUME SearchInv, indexed = 1..Len(chain)
    PROVE  ExistsExact
<1>1. ASSUME NEW c \in Contents, NEW time \in AllMoments
      PROVE  IsTransactionExist(c, time) <=>
                 \E n \in 1..Len(chain) : chain[n].content = c /\ ConfirmedAt(n) = time
  <2>1. PICK h : h = AtMoment(c, time)
    OBVIOUS
  <2>2. FindOne(h) # NotFound <=> \E n \in 1..Len(chain) : chain[n].content = c /\ ConfirmedAt(n) = time
    BY <2>1, MomentFound
  <2>3. IsTransactionExist(c, time) <=>
            /\ chain # <<>> /\ ConfirmedAt(Len(chain)) >= time
            /\ \/ ConfirmedAt(Len(chain)) = time /\ chain[Len(chain)].content = c
               \/ FindOne(h) # NotFound
    BY <2>1 DEF IsTransactionExist, AtMoment, SameContent
  <2>4. chain \in Seq(Tx)
    BY DEF SearchInv, IndexInv, IndexTypes
  <2>5. Len(chain) \in Nat /\ (chain # <<>> => Len(chain) \in 1..Len(chain))
    BY <2>4
  <2>6. \A n \in 1..Len(chain) : chain # <<>> /\ n <= Len(chain)
    BY <2>4
  <2>7. \A n \in 1..Len(chain) : ConfirmedAt(n) = time => ConfirmedAt(Len(chain)) >= time
    <3>1. SUFFICES ASSUME NEW n \in 1..Len(chain), ConfirmedAt(n) = time
                   PROVE  ConfirmedAt(Len(chain)) >= time
      OBVIOUS
    <3>2. ConfirmedAt(n) <= ConfirmedAt(Len(chain))
      BY <3>1, <2>5, <2>6 DEF SearchInv, MomentsSorted
    <3>3. ConfirmedAt(n) \in Nat /\ ConfirmedAt(Len(chain)) \in Nat
      BY <2>5, <2>6, ConfirmedOnDay
    <3> QED
      BY <3>1, <3>2, <3>3
  <2> QED
    BY <2>2, <2>3, <2>5, <2>6, <2>7
<1> QED
  BY <1>1, SearchesAssumption DEF ExistsExact

\* The result of the function findByLedgerAnchor hands to the search.
AnchorResult(f, a, n) ==
    IF "use" \notin ResultOf(f)[n] THEN ResultOf(f)[n]
    ELSE IF entries[n].anchor = a THEN {"use", "stop"} ELSE {}

\* A search for a ledger anchor is a loop over what the filter describes.
LEMMA AnchorLoop ==
    ASSUME SearchInv, indexed = 1..Len(chain), NEW f \in FullFilter, f.size = 0, Answered(f), NEW a
    PROVE  FindByLedgerAnchor(a, f) = Taken(Described(f), [n \in 1..Len(chain) |-> AnchorResult(f, a, n)])
<1>1. PICK g : g = Compact(f)
  OBVIOUS
<1>2. PICK M : M = Matching(g)
  OBVIOUS
<1>3. PICK D : D = Describes(f)
  OBVIOUS
<1>4. /\ FindTransactions(g) = Page(g) /\ M \in SUBSET Nat /\ IsFiniteSet(M) /\ M \subseteq 1..Len(chain)
      /\ D = {n \in M : TimeLeaves(f, n)} /\ D \in SUBSET M
  BY <1>1, <1>2, <1>3, LookedUp
<1>5. g.size = 0 /\ g.direction = f.direction
  BY <1>1, CompactFields
<1>6. FindTransactions(g) = Ordered(M, f.direction)
  BY <1>2, <1>4, <1>5 DEF Page
<1>7. PICK result : result = [n \in 1..Len(chain) |->
                                  IF Matches(n, f, {"interval"}) = {} THEN {} ELSE AnchorResult(f, a, n)]
  OBVIOUS
<1>8. FindByLedgerAnchor(a, f) = Taken(Ordered(M, f.direction), result)
  BY <1>1, <1>6, <1>7 DEF FindByLedgerAnchor, AnchorResult
<1>9. PICK other : other = [n \in 1..Len(chain) |-> AnchorResult(f, a, n)]
  OBVIOUS
<1>10. \A n \in M \ D : result[n] = {}
  <2>1. TAKE n \in M \ D
  <2>2. n \in 1..Len(chain) /\ ~TimeLeaves(f, n)
    BY <1>4
  <2>3. Matches(n, f, {"interval"}) = {}
    BY <2>2, MatchesResult
  <2> QED
    BY <2>2, <2>3, <1>7
<1>11. \A n \in D : result[n] = other[n]
  <2>1. TAKE n \in D
  <2>2. n \in 1..Len(chain) /\ TimeLeaves(f, n)
    BY <1>4
  <2>3. Matches(n, f, {"interval"}) = {"use"} /\ {"use"} # {}
    BY <2>2, MatchesResult
  <2> QED
    BY <2>2, <2>3, <1>7, <1>9
<1>12. Taken(Ordered(M, f.direction), result) = Taken(Ordered(D, f.direction), other)
  BY <1>4, <1>10, <1>11, TakenPart
<1> QED
  BY <1>8, <1>12, <1>3, <1>9 DEF Described

\* The places of a loop that ends with the first it uses.
AnchorFits(f, a, s) ==
    {i \in DOMAIN s : /\ entries[s[i]].anchor = a /\ "use" \in ResultOf(f)[s[i]]
                      /\ \A j \in 1..(i - 1) : ResultOf(f)[s[j]] # {"stop"}}

\* What the loop decides of each transaction, and the places it goes through.
AnchorResults(f, a, result) == \A m \in 1..Len(chain) : result[m] = AnchorResult(f, a, m)
PlacedIn(s, n) == DOMAIN s = 1..n /\ \A i \in 1..n : s[i] \in 1..Len(chain)
FirstOf(s, fits) == IF fits = {} THEN <<>> ELSE <<s[Min(fits)]>>

\* The loop takes the first place that fits.
LEMMA FirstFits ==
    ASSUME SearchInv, NEW f \in FullFilter, NEW a, NEW n \in Nat, NEW s, PlacedIn(s, n),
           NEW result, AnchorResults(f, a, result)
    PROVE  Taken(s, result) = FirstOf(s, AnchorFits(f, a, s))
<1> USE DEF PlacedIn, AnchorResults, FirstOf
<1>0. PICK fits : fits = AnchorFits(f, a, s)
  OBVIOUS
<1> SUFFICES Taken(s, result) = IF fits = {} THEN <<>> ELSE <<s[Min(fits)]>>
  BY <1>0
<1>1. PICK stops : stops = {i \in 1..n : "stop" \in result[s[i]]}
  OBVIOUS
<1>2. PICK used : used = {i \in 1..n : "use" \in result[s[i]] /\ \A j \in stops : i <= j}
  OBVIOUS
<1>3. Taken(s, result) = [k \in 1..Cardinality(used) |-> s[Select(used, k - 1)]]
  BY <1>1, <1>2 DEF Taken
<1>4. PICK R : R = [i \in 1..n |-> ResultOf(f)[s[i]]]
  OBVIOUS
<1>5. PICK A : A = {i \in 1..n : entries[s[i]].anchor = a /\ "use" \in R[i]}
  OBVIOUS
<1>6. \A i \in 1..n : R[i] = ResultOf(f)[s[i]] /\ R[i] \in SUBSET {"use", "stop"}
  <2>1. TAKE i \in 1..n
  <2>2. s[i] \in 1..Len(chain)
    OBVIOUS
  <2>3. ResultOf(f)[s[i]] \in SUBSET {"use", "stop"}
    BY <2>2, MatchesResult DEF Results
  <2> QED
    BY <2>3, <1>4
<1>7. \A i \in 1..n : result[s[i]] = IF "use" \notin R[i] THEN R[i] ELSE IF i \in A THEN {"use", "stop"} ELSE {}
  <2>1. TAKE i \in 1..n
  <2>2. s[i] \in 1..Len(chain)
    OBVIOUS
  <2>3. result[s[i]] = AnchorResult(f, a, s[i])
    BY <2>2
  <2>4. "use" \in R[i] => (entries[s[i]].anchor = a <=> i \in A)
    BY <1>5
  <2> QED
    BY <2>3, <2>4, <1>6 DEF AnchorResult
<1>8. \A i \in 1..n : "use" \in result[s[i]] <=> i \in A
  BY <1>5, <1>7
<1>9. \A i \in 1..n : i \in stops <=> R[i] = {"stop"} \/ i \in A
  <2>1. TAKE i \in 1..n
  <2>2. R[i] \in SUBSET {"use", "stop"}
    BY <1>6
  <2>3. i \in A => "use" \in R[i] /\ R[i] # {"stop"}
    BY <1>5
  <2>4. "use" \notin R[i] /\ "stop" \in R[i] <=> R[i] = {"stop"}
    BY <2>2
  <2>5. i \in stops <=> "stop" \in result[s[i]]
    BY <1>1
  <2>6. "stop" \in result[s[i]] <=> ("use" \notin R[i] /\ "stop" \in R[i]) \/ ("use" \in R[i] /\ i \in A)
    BY <1>7
  <2> QED
    BY <2>3, <2>4, <2>5, <2>6
<1>10. fits = {i \in A : \A j \in 1..(i - 1) : R[j] # {"stop"}} /\ fits \in SUBSET A /\ A \in SUBSET (1..n)
  <2>1. A \in SUBSET (1..n)
    BY <1>5
  <2>2. \A i \in 1..n : i \in fits <=> i \in A /\ \A j \in 1..(i - 1) : R[j] # {"stop"}
    <3>1. TAKE i \in 1..n
    <3>2. \A j \in 1..(i - 1) : j \in 1..n
      OBVIOUS
    <3>3. i \in fits <=> /\ entries[s[i]].anchor = a /\ "use" \in ResultOf(f)[s[i]]
                         /\ \A j \in 1..(i - 1) : ResultOf(f)[s[j]] # {"stop"}
      BY <1>0 DEF AnchorFits
    <3>4. i \in A <=> entries[s[i]].anchor = a /\ "use" \in ResultOf(f)[s[i]]
      BY <1>5, <1>6
    <3>5. (\A j \in 1..(i - 1) : ResultOf(f)[s[j]] # {"stop"}) <=> (\A j \in 1..(i - 1) : R[j] # {"stop"})
      BY <3>2, <1>6
    <3> QED
      BY <3>3, <3>4, <3>5
  <2>3. fits \in SUBSET (1..n)
    BY <1>0 DEF AnchorFits
  <2> QED
    BY <2>1, <2>2, <2>3
<1>11. used \in SUBSET (1..n) /\ \A i \in 1..n : i \in used <=> i \in A /\ \A j \in stops : i <= j
  BY <1>2, <1>8
<1>12. stops \in SUBSET (1..n)
  BY <1>1
<1>13. \A i \in used : i \in fits /\ \A j \in fits : i <= j
  <2>1. TAKE i \in used
  <2>2. i \in 1..n /\ i \in A /\ \A j \in stops : i <= j
    BY <1>11
  <2>3. ASSUME NEW j \in 1..(i - 1)
        PROVE  R[j] # {"stop"}
    <3>1. j \in 1..n /\ ~(i <= j)
      BY <2>2
    <3> QED
      BY <3>1, <2>2, <1>9
  <2>4. i \in fits
    BY <2>2, <2>3, <1>10
  <2>5. \A j \in fits : j \in stops
    BY <1>10, <1>9
  <2> QED
    BY <2>2, <2>4, <2>5
<1>14. CASE fits = {}
  <2>1. used = {}
    BY <1>13, <1>14
  <2>2. Cardinality(used) = 0
    BY <2>1, FS_EmptySet
  <2> QED
    BY <2>2, <1>3, <1>14
<1>15. CASE fits # {}
  <2>1. PICK m : m = Min(fits)
    OBVIOUS
  <2>2. fits \in SUBSET Nat /\ fits \in SUBSET (1..n)
    <3>1. \A i \in fits : i \in 1..n
      BY <1>10
    <3>2. \A i \in 1..n : i \in Nat
      OBVIOUS
    <3> QED
      BY <3>1, <3>2
  <2>3. IsFiniteSet(fits)
    BY <2>2, Places
  <2>4. m \in fits /\ \A x \in fits : m <= x
    BY <1>15, <2>1, <2>2, <2>3, SelectedEnds
  <2>5. m \in 1..n /\ m \in A /\ \A j \in 1..(m - 1) : R[j] # {"stop"}
    BY <2>4, <1>10
  <2>6. ASSUME NEW j \in stops
        PROVE  m <= j
    <3>1. SUFFICES ASSUME j < m PROVE FALSE
      BY <2>5, <1>12
    <3>2. j \in 1..n /\ j \in 1..(m - 1)
      BY <3>1, <1>12, <2>5
    <3>3. j \in A
      BY <3>2, <2>5, <1>9
    <3>4. \A i \in 1..(j - 1) : i \in 1..(m - 1)
      BY <3>2, <2>5
    <3>5. j \in fits
      BY <3>3, <3>4, <2>5, <1>10
    <3> QED
      BY <3>5, <3>2, <2>4, <2>5
  <2>7. m \in used
    BY <2>5, <2>6, <1>11
  <2>8. \A i \in used : i = m
    <3>1. TAKE i \in used
    <3>2. i \in fits /\ i <= m /\ m <= i
      BY <1>13, <2>4
    <3> QED
      BY <3>2, <2>2, <2>5
  <2>9. used = {m}
    BY <2>7, <2>8
  <2>10. Cardinality({m}) = 1 /\ IsFiniteSet({m}) /\ {m} \in SUBSET Nat
    <3>1. m \in Nat
      BY <2>5
    <3>2. Cardinality({m}) = 1 /\ IsFiniteSet({m})
      BY FS_Singleton
    <3> QED
      BY <3>1, <3>2
  <2>11. Select({m}, 0) = m
    <3>1. 0 \in 0..(Cardinality({m}) - 1)
      BY <2>10
    <3>2. Select({m}, 0) \in {m}
      BY <2>10, <3>1, Selected
    <3> QED
      BY <3>2
  <2>12. Taken(s, result) = [k \in 1..1 |-> s[m]]
    <3>1. \A k \in 1..1 : k - 1 = 0
      OBVIOUS
    <3> QED
      BY <3>1, <1>3, <2>9, <2>10, <2>11
  <2> QED
    BY <2>12, <2>1, <1>15
<1> QED
  BY <1>14, <1>15

\* AnchorFound.
LEMMA AnchorFromIndex ==
    ASSUME SearchInv, indexed = 1..Len(chain)
    PROVE  AnchorFound
<1>1. ASSUME NEW f \in FullFilter, NEW a, f.size = 0, Answered(f), NEW s, s = Described(f),
             NEW fits, fits = AnchorFits(f, a, s)
      PROVE  FindByLedgerAnchor(a, f) = IF fits = {} THEN <<>> ELSE <<s[Min(fits)]>>
  <2>1. Describes(f) \in SUBSET Nat /\ IsFiniteSet(Describes(f)) /\ Describes(f) \subseteq 1..Len(chain)
    BY <1>1, LookedUp
  <2>2. PICK n \in Nat : DOMAIN s = 1..n /\ \A i \in 1..n : s[i] \in Describes(f)
    BY <1>1, <2>1, DescribedPlaces
  <2>3. PICK result : result = [m \in 1..Len(chain) |-> AnchorResult(f, a, m)]
    OBVIOUS
  <2>4. FindByLedgerAnchor(a, f) = Taken(s, result)
    BY <1>1, <2>3, AnchorLoop
  <2>5. \A i \in 1..n : s[i] \in 1..Len(chain)
    BY <2>1, <2>2
  <2>6. Taken(s, result) = IF fits = {} THEN <<>> ELSE <<s[Min(fits)]>>
    <3>1. PlacedIn(s, n) /\ AnchorResults(f, a, result)
      BY <2>2, <2>3, <2>5 DEF PlacedIn, AnchorResults
    <3>2. Taken(s, result) = FirstOf(s, AnchorFits(f, a, s))
      BY ONLY SearchInv, f \in FullFilter, n \in Nat, <3>1, FirstFits
    <3> QED
      BY <1>1, <3>2 DEF FirstOf
  <2> QED
    BY ONLY <2>4, <2>6
<1>2. \A f \in Searches : f \in FullFilter
  BY SearchesAssumption
<1>3. ASSUME NEW f \in Searches, NEW a, f.size = 0, Answered(f)
      PROVE  FindByLedgerAnchor(a, f) = IF AnchorFits(f, a, Described(f)) = {} THEN <<>>
                                        ELSE <<Described(f)[Min(AnchorFits(f, a, Described(f)))]>>
  <2>1. PICK s : s = Described(f)
    OBVIOUS
  <2>2. PICK fits : fits = AnchorFits(f, a, s)
    OBVIOUS
  <2>3. FindByLedgerAnchor(a, f) = IF fits = {} THEN <<>> ELSE <<s[Min(fits)]>>
    BY <1>1, <1>2, <1>3, <2>1, <2>2
  <2> QED
    BY <2>1, <2>2, <2>3
<1> QED
  BY <1>3, Zenon DEF AnchorFound, AnchorFits

\* The filter of an account's transactions up to a number, and what getAddressTypeSlow
\* asks with it.
UpTo(k, max) == [Default EXCEPT !.involved = k, !.max = max]
Opens(k) == [c \in Contents |-> IF c.type = "deferred" /\ Account(c) = k THEN {"use"} ELSE {}]
LastOfType(f, type) == [f EXCEPT !.type = type, !.size = 1, !.direction = "desc"]
LastDeferred(f) ==
    [f EXCEPT !.type = "deferred", !.size = 1, !.direction = "desc",
              !.function = [c \in Contents |-> IF c.type = "deferred" /\ Account(c) = f.involved
                                               THEN {"use"} ELSE {}]]

\* A filter with another type, size, order and function.
LEMMA FilterExcept ==
    ASSUME NEW N, NEW K, NEW D, NEW T, NEW C, NEW I, NEW R, NEW F,
           F = [min : N, max : N, involved : K, updated : K, direction : D, type : T, size : N, page : N,
                coin : C, interval : I, function : R],
           NEW f \in F, NEW t \in T, NEW s \in N, NEW d \in D, NEW g \in R
    PROVE  /\ [f EXCEPT !.type = t, !.size = s, !.direction = d] \in F
           /\ [f EXCEPT !.type = t, !.size = s, !.direction = d, !.function = g] \in F
OBVIOUS

\* The fields of those filters.
LEMMA LastFilters ==
    ASSUME NEW k \in Dictionary, NEW max \in 1..MaxLen, NEW f, f = UpTo(k, max),
           NEW r, r = LastOfType(f, "register"), NEW d, d = LastDeferred(f)
    PROVE  /\ f.involved = k /\ f.max = max
           /\ r.min = 0 /\ r.max = max /\ r.involved = k /\ r.updated = NoKey /\ r.type = "register"
           /\ r.size = 1 /\ r.page = 0 /\ r.coin = None /\ r.interval = Always /\ r.function = NoFunction
           /\ d.min = 0 /\ d.max = max /\ d.involved = k /\ d.updated = NoKey /\ d.type = "deferred"
           /\ d.size = 1 /\ d.page = 0 /\ d.coin = None /\ d.interval = Always /\ d.function = Opens(k)
           /\ d.direction = "desc"
           /\ r \in FullFilter /\ d \in FullFilter
<1>1. f = [min |-> 0, max |-> max, involved |-> k, updated |-> NoKey, direction |-> "desc",
           type |-> None, size |-> 0, page |-> 0, coin |-> None, interval |-> Always,
           function |-> NoFunction]
  BY DEF UpTo, Default
<1>2. NoFunction \in [Contents -> Results] /\ Opens(k) \in [Contents -> Results]
  BY DEF NoFunction, Opens, Results
<1>3. k \in Keys /\ max \in Nat /\ "register" \in Types /\ "deferred" \in Types
  BY SearchesAssumption, SizesAssumption DEF Dictionary
<1>4. f \in FullFilter
  BY <1>1, <1>2, <1>3 DEF FullFilter
<1>5. /\ f.min = 0 /\ f.max = max /\ f.involved = k /\ f.updated = NoKey /\ f.page = 0 /\ f.coin = None
      /\ f.interval = Always /\ f.function = NoFunction
  BY <1>1
<1>6. d = [f EXCEPT !.type = "deferred", !.size = 1, !.direction = "desc", !.function = Opens(k)]
  BY <1>5 DEF LastDeferred, Opens
<1>7. r \in FullFilter /\ d \in FullFilter
  <2>1. PICK N, D, T, R : N = Nat /\ D = {"asc", "desc"} /\ T = Types \cup {None} /\ R = [Contents -> Results]
    OBVIOUS
  <2>2. PICK K, C, I : FullFilter = [min : N, max : N, involved : K, updated : K, direction : D, type : T, size : N,
                                     page : N, coin : C, interval : I, function : R]
    BY <2>1 DEF FullFilter
  <2>3. 1 \in N /\ "desc" \in D /\ "register" \in T /\ "deferred" \in T /\ Opens(k) \in R
    BY <2>1, <1>2, <1>3
  <2>4. [f EXCEPT !.type = "register", !.size = 1, !.direction = "desc"] \in FullFilter
    BY <2>2, <2>3, <1>4, FilterExcept
  <2>5. [f EXCEPT !.type = "deferred", !.size = 1, !.direction = "desc", !.function = Opens(k)] \in FullFilter
    BY <2>2, <2>3, <1>4, FilterExcept
  <2> QED
    BY <2>4, <2>5, <1>6 DEF LastOfType
<1>8. /\ r.min = 0 /\ r.max = max /\ r.involved = k /\ r.updated = NoKey /\ r.type = "register"
      /\ r.size = 1 /\ r.page = 0 /\ r.coin = None /\ r.interval = Always /\ r.function = NoFunction
  BY <1>4, <1>5 DEF LastOfType, FullFilter
<1>9. /\ d.min = 0 /\ d.max = max /\ d.involved = k /\ d.updated = NoKey /\ d.type = "deferred"
      /\ d.size = 1 /\ d.page = 0 /\ d.coin = None /\ d.interval = Always /\ d.function = Opens(k)
      /\ d.direction = "desc"
  BY <1>4, <1>5, <1>6 DEF FullFilter
<1> QED
  BY <1>5, <1>7, <1>8, <1>9

\* A filter for one type of transaction of a known account is answered.
LEMMA TypeAnswered ==
    ASSUME NEW f \in FullFilter, f.size = 1, f.type # None, f.interval = Always, f.coin = None,
           f.updated = NoKey, f.involved \in Dictionary
    PROVE  Answered(f)
<1>1. PICK g : g = Compact(f)
  OBVIOUS
<1>2. g.type # None /\ g.interval = Always /\ g.size = 1
  BY <1>1, CompactFields
<1>3. Exact(g)
  BY <1>2 DEF Exact
<1> QED
  BY <1>1, <1>3 DEF Answered

\* The transactions of a type an account is involved in, up to a number.
LEMMA InvolvedUpTo ==
    ASSUME SearchInv, NEW f, f.min = 0, f.max \in Nat \ {0}, f.type # None, f.interval = Always,
           f.updated = NoKey, f.involved # NoKey, NEW n \in 1..Len(chain)
    PROVE  n \in Describes(f) <=> /\ n <= f.max /\ chain[n].content.type = f.type
                                  /\ Involved(chain[n].content, f.involved)
<1>2. n \in Describes(f) <=>
          /\ f.min <= n /\ (f.max # 0 => n <= f.max)
          /\ f.type \in {None, chain[n].content.type}
          /\ f.interval # Always => ConfirmedAt(n) \in f.interval[1]..f.interval[2]
          /\ IF f.updated # NoKey THEN f.updated \in chain[n].content.balance
             ELSE f.involved # NoKey => Involved(chain[n].content, f.involved)
  BY DEF Describes
<1>3. 0 <= n
  OBVIOUS
<1> QED
  BY <1>2, <1>3

\* FIRST_TRANSACTION is the first of the chain.
LEMMA FirstOfChain ==
    ASSUME SearchInv, indexed = 1..Len(chain)
    PROVE  FindOne(FIRST_TRANSACTION) = IF chain = <<>> THEN NotFound ELSE 1
<1>1. PICK f : f = FIRST_TRANSACTION
  OBVIOUS
<1>2. /\ f.min = 0 /\ f.max = 0 /\ f.type = None /\ f.interval = Always /\ f.updated = NoKey /\ f.involved = NoKey
      /\ f.size = 1 /\ f.page = 0 /\ f.coin = None /\ f.function = NoFunction /\ f.direction = "asc"
  BY <1>1 DEF FIRST_TRANSACTION, Default
<1>3. f \in FullFilter
  BY <1>1, DefaultFilters
<1>4. Answered(f)
  <2>1. PICK g : g = Compact(f)
    OBVIOUS
  <2>2. g.interval = Always /\ g.size = 1
    BY <1>2, <1>3, <2>1, CompactFields
  <2>3. Exact(g)
    BY <2>2, BoundsOfIndex DEF Exact
  <2> QED
    BY <1>2, <2>1, <2>3 DEF Answered
<1>5. FindOne(f) = IF Described(f) = <<>> THEN NotFound ELSE Described(f)[1]
  BY <1>1, <1>2, <1>4, FirstFromIndex DEF OneIsFirst
<1>6. PICK n \in Nat : n = Len(chain) /\ (n = 0 <=> chain = <<>>)
  BY DEF SearchInv, IndexInv, IndexTypes
<1>7. PICK S : S = 1..n
  OBVIOUS
<1>8. Describes(f) = S
  <2>1. \A i \in 1..n : 0 <= i
    OBVIOUS
  <2>2. \A i \in 1..n : i \in Describes(f) <=> 0 <= i
    BY <1>2, <1>6 DEF Describes
  <2>3. Describes(f) \subseteq 1..n
    BY <1>6 DEF Describes
  <2> QED
    BY <1>7, <2>1, <2>2, <2>3
<1>9. S \in SUBSET Nat /\ IsFiniteSet(S) /\ Cardinality(S) = n
  BY <1>7, Places
<1>10. PICK s : s = Described(f)
  OBVIOUS
<1>11. s = [i \in 1..n |-> Select(S, i - 1)]
  BY <1>2, <1>8, <1>9, <1>10 DEF Described, Ordered
<1>12. CASE n = 0
  <2>1. s = <<>>
    BY <1>11, <1>12
  <2> QED
    BY <2>1, <1>1, <1>5, <1>6, <1>10, <1>12
<1>13. CASE n # 0
  <2>1. 1 \in S /\ \A x \in S : 1 <= x
    BY <1>7, <1>13
  <2>2. Min(S) = Select(S, 0) /\ Min(S) \in S /\ \A x \in S : Min(S) <= x
    BY <1>9, <2>1, SelectedEnds
  <2>3. Select(S, 0) = 1
    <3>1. PICK m : m = Min(S)
      OBVIOUS
    <3>2. m \in Nat /\ m <= 1 /\ 1 <= m
      BY <3>1, <2>1, <2>2, <1>9
    <3> QED
      BY <3>1, <3>2, <2>2
  <2>4. 1 \in 1..n /\ 1 - 1 = 0
    BY <1>13
  <2>5. s[1] = 1 /\ DOMAIN s = 1..n
    BY <1>11, <2>3, <2>4
  <2>6. s # <<>>
    BY <2>4, <2>5
  <2> QED
    BY <2>5, <2>6, <1>1, <1>5, <1>6, <1>10, <1>13
<1> QED
  BY <1>12, <1>13

\* A registration or a deferred transfer changes the balance of its account.
LEMMA AccountInvolved ==
    ASSUME NEW c \in Contents, c.type \in {"register", "deferred"}
    PROVE  Account(c) \in c.balance /\ Involved(c, Account(c))
<1>1. Account(c) \in c.balance
  BY AccountsAssumption
<1> QED
  BY <1>1 DEF Involved

\* The first of a descending order is the last of the chain.
LEMMA LastDescribed ==
    ASSUME SearchInv, NEW f, f.direction = "desc", Describes(f) \subseteq 1..Len(chain),
           NEW n \in Describes(f), NEW x, x = Described(f)[1]
    PROVE  n <= x
<1>1. PICK S : S = Describes(f)
  OBVIOUS
<1>2. PICK top \in Nat : top = Len(chain)
  BY DEF SearchInv, IndexInv, IndexTypes
<1>3. S \in SUBSET Nat /\ IsFiniteSet(S) /\ S # {}
  <2>1. S \in SUBSET (1..top) /\ n \in S
    BY <1>1, <1>2
  <2>2. IsFiniteSet(1..top)
    BY FS_Interval
  <2>3. IsFiniteSet(S)
    BY ONLY <2>1, <2>2, FS_Subset
  <2>4. S \in SUBSET Nat
    BY <2>1
  <2> QED
    BY <2>1, <2>3, <2>4
<1>4. PICK c \in Nat \ {0} : c = Cardinality(S)
  BY <1>3, SelectedEnds
<1>5. Max(S) = Select(S, c - 1) /\ n <= Max(S)
  BY <1>1, <1>3, <1>4, SelectedEnds
<1>6. Described(f) = [i \in 1..c |-> Select(S, c - i)]
  BY <1>1, <1>4 DEF Described, Ordered
<1>7. 1 \in 1..c
  BY <1>4
<1>8. x = Select(S, c - 1)
  BY <1>6, <1>7
<1> QED
  BY <1>5, <1>8

\* The answers about an account of the range.
LEMMA AddressAnswer ==
    ASSUME SearchInv, indexed = 1..Len(chain), chain # <<>>,
           NEW k \in Dictionary, NEW max \in 1..MaxLen, NEW f, f = UpTo(k, max)
    PROVE  /\ FindOne(LastOfType(f, "register")) # NotFound <=>
                 \E n \in 1..Len(chain) : /\ n <= max /\ chain[n].content.type = "register"
                                          /\ Involved(chain[n].content, k)
           /\ FindOne(LastDeferred(f)) # NotFound =>
                 \E n \in 1..Len(chain) : /\ n <= max /\ chain[n].content.type = "deferred"
                                          /\ Account(chain[n].content) = k
           /\ FindOne(LastDeferred(f)) = NotFound =>
                 \A n \in 1..Len(chain) :
                    n <= max /\ chain[n].content.type = "deferred" /\ Account(chain[n].content) = k =>
                        \E x \in 1..Len(chain) : /\ n < x /\ x <= max /\ chain[x].content.type = "deferred"
                                                 /\ Involved(chain[x].content, k) /\ Account(chain[x].content) # k
<1>1. PICK r : r = LastOfType(f, "register")
  OBVIOUS
<1>2. PICK d : d = LastDeferred(f)
  OBVIOUS
<1>3. r \in FullFilter /\ d \in FullFilter
  BY <1>1, <1>2, LastFilters
<1>4. /\ r.min = 0 /\ r.max = max /\ r.involved = k /\ r.updated = NoKey /\ r.type = "register"
      /\ r.size = 1 /\ r.page = 0 /\ r.coin = None /\ r.interval = Always /\ r.function = NoFunction
      /\ d.min = 0 /\ d.max = max /\ d.involved = k /\ d.updated = NoKey /\ d.type = "deferred"
      /\ d.size = 1 /\ d.page = 0 /\ d.coin = None /\ d.interval = Always /\ d.function = Opens(k)
      /\ d.direction = "desc"
  BY <1>1, <1>2, LastFilters
<1>5. "register" # None /\ "deferred" # None /\ k # NoKey /\ max \in Nat \ {0}
  BY SearchesAssumption, SizesAssumption DEF None, Dictionary
<1>6. Answered(r) /\ Answered(d)
  BY <1>3, <1>4, <1>5, TypeAnswered
<1>7. FindOne(r) = OnlyOne(FindAll(r)) /\ FindOne(d) = OnlyOne(FindAll(d))
  <2>1. LAST_TRANSACTION.type = None
    BY DEF LAST_TRANSACTION, Default
  <2>2. r # LAST_TRANSACTION /\ d # LAST_TRANSACTION
    BY <2>1, <1>4, <1>5
  <2> QED
    BY <2>2 DEF FindOne, IsTheSame
<1>8. \A n \in 1..Len(chain) :
          /\ n \in Describes(r) <=> n <= max /\ chain[n].content.type = "register" /\ Involved(chain[n].content, k)
          /\ n \in Describes(d) <=> n <= max /\ chain[n].content.type = "deferred" /\ Involved(chain[n].content, k)
  <2>1. TAKE n \in 1..Len(chain)
  <2>2. n \in Describes(r) <=> n <= max /\ chain[n].content.type = "register" /\ Involved(chain[n].content, k)
    BY <1>4, <1>5, InvolvedUpTo
  <2>3. n \in Describes(d) <=> n <= max /\ chain[n].content.type = "deferred" /\ Involved(chain[n].content, k)
    BY <1>4, <1>5, InvolvedUpTo
  <2> QED
    BY <2>2, <2>3
<1>9. \A n \in 1..Len(chain) : n # NotFound /\ chain[n].content \in Contents
  BY ConfirmedOnDay DEF NotFound
<1>10. Describes(r) \subseteq 1..Len(chain) /\ Describes(d) \subseteq 1..Len(chain)
  BY DEF Describes
<1>11. FindOne(r) # NotFound <=> Describes(r) # {}
  <2>1. PICK s : s = Described(r)
    OBVIOUS
  <2>2. /\ s # <<>> => s[1] \in Describes(r) /\ s[1] \in 1..Len(chain)
        /\ s = <<>> <=> Describes(r) = {}
        /\ OnlyOne(FindAll(r)) = IF s # <<>> /\ "use" \in r.function[chain[s[1]].content]
                                 THEN s[1] ELSE NotFound
    BY <1>3, <1>4, <1>6, <2>1, OneFound
  <2>3. s # <<>> => "use" \in r.function[chain[s[1]].content]
    BY <2>2, <1>4, <1>9 DEF NoFunction
  <2> QED
    BY <2>2, <2>3, <1>7, <1>9
<1>12. /\ FindOne(d) # NotFound =>
              \E n \in 1..Len(chain) : n <= max /\ chain[n].content.type = "deferred" /\ Account(chain[n].content) = k
       /\ FindOne(d) = NotFound =>
              \A n \in 1..Len(chain) :
                 n <= max /\ chain[n].content.type = "deferred" /\ Account(chain[n].content) = k =>
                     \E x \in 1..Len(chain) : /\ n < x /\ x <= max /\ chain[x].content.type = "deferred"
                                              /\ Involved(chain[x].content, k) /\ Account(chain[x].content) # k
  <2>1. PICK s : s = Described(d)
    OBVIOUS
  <2>2. /\ s # <<>> => s[1] \in Describes(d) /\ s[1] \in 1..Len(chain)
        /\ s = <<>> <=> Describes(d) = {}
        /\ OnlyOne(FindAll(d)) = IF s # <<>> /\ "use" \in d.function[chain[s[1]].content]
                                 THEN s[1] ELSE NotFound
    BY <1>3, <1>4, <1>6, <2>1, OneFound
  <2>3. \A c \in Contents : "use" \in d.function[c] <=> c.type = "deferred" /\ Account(c) = k
    BY <1>4 DEF Opens
  <2>4. ASSUME FindOne(d) # NotFound
        PROVE  \E n \in 1..Len(chain) : n <= max /\ chain[n].content.type = "deferred" /\ Account(chain[n].content) = k
    <3>1. s # <<>> /\ "use" \in d.function[chain[s[1]].content]
      BY <2>2, <2>4, <1>7
    <3>2. PICK x \in 1..Len(chain) : x = s[1] /\ x \in Describes(d) /\ chain[x].content \in Contents
      BY <3>1, <2>2, <1>9
    <3> QED
      BY <3>1, <3>2, <2>3, <1>8
  <2>5. ASSUME NEW n \in 1..Len(chain), n <= max, chain[n].content.type = "deferred", Account(chain[n].content) = k,
               FindOne(d) = NotFound
        PROVE  \E x \in 1..Len(chain) : /\ n < x /\ x <= max /\ chain[x].content.type = "deferred"
                                        /\ Involved(chain[x].content, k) /\ Account(chain[x].content) # k
    <3>1. PICK c \in Contents : c = chain[n].content
      BY <1>9
    <3>2. Involved(c, k) /\ c.type = "deferred" /\ Account(c) = k
      BY <2>5, <3>1, AccountInvolved
    <3>3. n \in Describes(d)
      BY <2>5, <3>1, <3>2, <1>8
    <3>4. PICK x \in 1..Len(chain) : x = s[1] /\ x \in Describes(d) /\ s # <<>> /\ chain[x].content \in Contents
      BY <3>3, <2>2, <1>9
    <3>5. PICK e \in Contents : e = chain[x].content
      BY <3>4
    <3>6. x <= max /\ e.type = "deferred" /\ Involved(e, k)
      BY <3>4, <3>5, <1>8
    <3>7. Account(e) # k
      <4>1. SUFFICES ASSUME Account(e) = k PROVE FALSE
        OBVIOUS
      <4>2. OnlyOne(FindAll(d)) = x
        BY <3>4, <3>5, <3>6, <4>1, <2>2, <2>3
      <4> QED
        BY <4>2, <2>5, <1>7, <1>9
    <3>8. n <= x
      BY <2>1, <3>3, <3>4, <1>4, <1>10, LastDescribed
    <3>9. n # x
      BY <3>1, <3>2, <3>5, <3>7
    <3> QED
      BY <3>5, <3>6, <3>7, <3>8, <3>9
  <2> QED
    BY <2>4, <2>5
<1> QED
  BY <1>1, <1>2, <1>8, <1>10, <1>11, <1>12

\* AddressInRange.
LEMMA AddressFromIndex ==
    ASSUME SearchInv, indexed = 1..Len(chain)
    PROVE  AddressInRange
<1>1. ASSUME NEW k \in Dictionary, NEW max \in 1..MaxLen, NEW f, f = UpTo(k, max)
      PROVE  AnswerInRange(GetAddressTypeSlow(f), f)
  <2> DEFINE inRange(t) == {n \in 1..Len(chain) : n <= f.max /\ chain[n].content.type = t}
             opened(t) == {n \in inRange(t) : Account(chain[n].content) = f.involved}
             others == {n \in inRange("deferred") : /\ Account(chain[n].content) # f.involved
                                                    /\ Involved(chain[n].content, f.involved)}
  <2>1. f.involved = k /\ f.max = max
    BY <1>1, LastFilters
  <2>2. PICK type : type = GetAddressTypeSlow(f)
    OBVIOUS
  <2>3. PICK reg, def : reg = FindOne(LastOfType(f, "register")) /\ def = FindOne(LastDeferred(f))
    OBVIOUS
  <2>4. PICK first : first = FindOne(FIRST_TRANSACTION)
    OBVIOUS
  <2>5. first = IF chain = <<>> THEN NotFound ELSE 1
    BY <2>4, FirstOfChain
  <2>6. type = IF first = NotFound THEN None
               ELSE IF f.involved \in chain[first].content.balance THEN "community"
               ELSE IF reg # NotFound THEN "register"
               ELSE IF def # NotFound THEN "deferred"
               ELSE None
    BY <2>2, <2>3, <2>4 DEF GetAddressTypeSlow, AddressTypeBehind, LastOfType, LastDeferred
  <2>7. None # "community" /\ None # "register" /\ None # "deferred"
    BY DEF None
  <2>8. CASE chain = <<>>
    <3>1. 1..Len(chain) = {}
      BY <2>8
    <3>2. type = None /\ opened("register") = {} /\ opened("deferred") = {}
      BY <2>5, <2>6, <2>8, <3>1
    <3> QED
      BY <3>2, <2>2, <2>7 DEF AnswerInRange
  <2>9. CASE chain # <<>>
    <3>1. /\ reg # NotFound <=> \E n \in inRange("register") : Involved(chain[n].content, k)
          /\ def # NotFound => \E n \in inRange("deferred") : Account(chain[n].content) = k
          /\ def = NotFound => \A n \in opened("deferred") : \E x \in others : n < x
      <4>1. /\ reg # NotFound <=> \E n \in 1..Len(chain) : /\ n <= max /\ chain[n].content.type = "register"
                                                           /\ Involved(chain[n].content, k)
            /\ def # NotFound => \E n \in 1..Len(chain) : /\ n <= max /\ chain[n].content.type = "deferred"
                                                          /\ Account(chain[n].content) = k
            /\ def = NotFound =>
                  \A n \in 1..Len(chain) :
                    n <= max /\ chain[n].content.type = "deferred" /\ Account(chain[n].content) = k =>
                        \E x \in 1..Len(chain) : /\ n < x /\ x <= max /\ chain[x].content.type = "deferred"
                                                 /\ Involved(chain[x].content, k) /\ Account(chain[x].content) # k
        BY <1>1, <2>3, <2>9, AddressAnswer
      <4>2. def = NotFound => \A n \in opened("deferred") : \E x \in others : n < x
        BY <4>1, <2>1
      <4> QED
        BY <4>1, <4>2, <2>1
    <3>2. first = 1 /\ first # NotFound
      BY <2>5, <2>9 DEF NotFound
    <3>3. \A n \in inRange("register") : Account(chain[n].content) = k => Involved(chain[n].content, k)
      BY ConfirmedOnDay, AccountInvolved
    <3>4. CASE k \in chain[1].content.balance
      <4>1. type = "community"
        BY <3>2, <3>4, <2>1, <2>6
      <4> QED
        BY <4>1, <3>4, <2>1, <2>2 DEF AnswerInRange
    <3>5. CASE k \notin chain[1].content.balance /\ reg # NotFound
      <4>1. type = "register"
        BY <3>2, <3>5, <2>1, <2>6
      <4> QED
        BY <4>1, <3>1, <3>5, <2>1, <2>2 DEF AnswerInRange
    <3>6. CASE k \notin chain[1].content.balance /\ reg = NotFound /\ def # NotFound
      <4>1. type = "deferred"
        BY <3>2, <3>6, <2>1, <2>6
      <4>2. opened("deferred") # {}
        BY <3>1, <3>6, <2>1
      <4> QED
        BY <4>1, <4>2, <2>2 DEF AnswerInRange
    <3>7. CASE k \notin chain[1].content.balance /\ reg = NotFound /\ def = NotFound
      <4>1. type = None
        BY <3>2, <3>7, <2>1, <2>6
      <4>2. opened("register") = {} /\ \A n \in opened("deferred") : \E x \in others : n < x
        BY <3>1, <3>3, <3>7, <2>1
      <4> QED
        BY <4>1, <4>2, <2>2, <2>7 DEF AnswerInRange
    <3> QED
      BY <3>4, <3>5, <3>6, <3>7
  <2> QED
    BY <2>8, <2>9
<1> QED
  BY <1>1 DEF AddressInRange, UpTo

\* The invariant gives the property.
LEMMA SearchesFromIndex == SearchInv => SearchesExact
BY AllFromIndex, FirstFromIndex, ExistsFromIndex, AnchorFromIndex, AddressFromIndex DEF SearchesExact

\* While no addition has failed the searches of a blockchain are exact: findAll with
\* and without pages, findOne, isTransactionExist, findByLedgerAnchor and
\* getAddressTypeSlow answer for every chain, filter, moment and function of a caller
\* what the chain itself says, whoever else has signed a transaction.
THEOREM SearchesStayExact == SearchSpec => []SearchesExact
<1>1. SearchInit => SearchInv
  BY SearchStart
<1>2. SearchInv /\ [SearchNext]_searchVars => SearchInv'
  BY SearchStep
<1>3. SearchInv => SearchesExact
  BY SearchesFromIndex
<1> QED
  BY <1>1, <1>2, <1>3, PTL DEF SearchSpec
=============================================================================
