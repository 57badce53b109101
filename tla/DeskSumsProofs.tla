-------------------------- MODULE DeskSumsProofs --------------------------
(***************************************************************************)
(* Theorems about the parts of DeskDocuments that compute: BatchSplitting, *)
(* for any rows and batches; Overtime, for any day and graces;             *)
(* FiscalPayload, for any invoice; BalanceTimeline, for any accounts and   *)
(* days; and ReceivableSummary and ReceivableReport, for any price and     *)
(* number of entries.                                                      *)
(***************************************************************************)
EXTENDS DeskDocuments, Integers, FiniteSetTheorems, WellFoundedInduction, TLAPS

(***************************************************************************)
(* Every set of natural numbers has a smallest, as in DeskProofs.          *)
(***************************************************************************)
LEMMA Smallest ==
    ASSUME NEW S \in SUBSET Nat, S # {}
    PROVE  \E n \in S : \A m \in S : n <= m
<1>. DEFINE T == {1..n : n \in S}
            R == StrictSubsetOrdering(Nat)
<1>1. IsWellFoundedOn(R, FiniteSubsetsOf(Nat))
  BY FS_StrictSubsetOrderingWellFounded
<1>2. T \subseteq FiniteSubsetsOf(Nat) /\ T # {}
  <2>1. \A n \in S : IsFiniteSet(1..n) /\ 1..n \subseteq Nat
    <3>1. \A n \in S : n \in Int /\ 1 \in Int
      OBVIOUS
    <3>. QED  BY <3>1, FS_Interval
  <2>. QED  BY <2>1 DEF FiniteSubsetsOf
<1>. HIDE DEF R, T
<1>3. PICK X \in T : \A Y \in T : <<Y, X>> \notin R
  BY <1>1, <1>2, WFMin
<1>4. PICK n \in S : X = 1..n
  BY DEF T
<1>5. ASSUME NEW m \in S, m < n PROVE FALSE
  <2>1. 1..m \subseteq 1..n /\ n \in 1..n /\ n \notin 1..m /\ 1..n \subseteq Nat
    BY <1>5
  <2>2. <<1..m, 1..n>> \in R /\ 1..m \in T
    BY <1>5, <2>1 DEF R, T, StrictSubsetOrdering
  <2>. QED  BY <1>3, <1>4, <2>2
<1>. QED  BY <1>5

(***************************************************************************)
(* BatchSplitting.  Sums: the fold takes the elements of a set in an order *)
(* that depends on the set alone, so sums over one set are compared and    *)
(* added term by term.                                                     *)
(***************************************************************************)
Sum(f) == Batches!FoldFunction(+, 0, f)

Pick(s) == CHOOSE x \in s : TRUE
Less(s) == s \ {Pick(s)}

\* What a sum of f makes of s, given the sums g of smaller sets.
Term(f, g, s) == IF s = {} THEN 0 ELSE f[Pick(s)] + g[Less(s)]

Sums(g, f, D) == g = [s \in SUBSET D |-> Term(f, g, s)]

LEMMA LessIsSmaller ==
    ASSUME NEW D, IsFiniteSet(D), NEW s \in SUBSET D, s # {}
    PROVE  /\ Pick(s) \in s /\ Less(s) \in SUBSET D
           /\ Cardinality(s) \in Nat /\ Cardinality(Less(s)) \in Nat
           /\ Cardinality(Less(s)) = Cardinality(s) - 1
<1>1. Pick(s) \in s
  BY DEF Pick
<1>2. IsFiniteSet(s)
  BY FS_Subset
<1>3. IsFiniteSet(Less(s)) /\ Cardinality(Less(s)) = Cardinality(s) - 1
  BY <1>1, <1>2, FS_RemoveElement DEF Less
<1>. QED  BY <1>1, <1>2, <1>3, FS_CardinalityType DEF Less

\* What holds of the empty set, and of a set if it does without the element the
\* fold takes first, holds of all sets.
LEMMA TakeInduction ==
    ASSUME NEW D, IsFiniteSet(D), NEW T, {} \in T,
           \A s \in SUBSET D : s # {} /\ Less(s) \in T => s \in T
    PROVE  SUBSET D \subseteq T
<1>. DEFINE Bad == {n \in Nat : \E s \in SUBSET D : Cardinality(s) = n /\ s \notin T}
<1>1. Bad = {}
  <2>. SUFFICES ASSUME Bad # {} PROVE FALSE
    OBVIOUS
  <2>1. PICK n \in Bad : \A m \in Bad : n <= m
    BY Smallest
  <2>2. PICK s \in SUBSET D : Cardinality(s) = n /\ s \notin T
    BY <2>1
  <2>3. s # {} /\ Less(s) \notin T
    BY <2>2
  <2>4. Less(s) \in SUBSET D /\ Cardinality(Less(s)) \in Nat /\ Cardinality(Less(s)) < n
    BY <2>2, <2>3, LessIsSmaller
  <2>. QED  BY <2>1, <2>3, <2>4
<1>2. \A s \in SUBSET D : Cardinality(s) \in Nat
  BY FS_Subset, FS_CardinalityType
<1>. QED  BY <1>1, <1>2

\* The function that the fold chooses exists.
LEMMA SumsExist ==
    ASSUME NEW D, IsFiniteSet(D), NEW f
    PROVE  \E g : Sums(g, f, D)
<1>. DEFINE Few(n) == {s \in SUBSET D : Cardinality(s) <= n}
            Has(n) == \E g : g = [s \in Few(n) |-> Term(f, g, s)]
            Bad == {n \in Nat : ~Has(n)}
<1>1. \A s \in SUBSET D : Cardinality(s) \in Nat /\ (Cardinality(s) = 0 => s = {}) /\ Cardinality(s) <= Cardinality(D)
  BY FS_Subset, FS_CardinalityType, FS_EmptySet
<1>2. Has(0)
  <2>. DEFINE g == [s \in Few(0) |-> 0]
  <2>1. g = [s \in Few(0) |-> Term(f, g, s)]
    BY <1>1 DEF Term
  <2>. QED  BY <2>1
<1>3. ASSUME NEW n \in Nat, n # 0, Has(n - 1) PROVE Has(n)
  <2>1. PICK g : g = [s \in Few(n - 1) |-> Term(f, g, s)]
    BY <1>3
  <2>. DEFINE h == [s \in Few(n) |-> Term(f, g, s)]
  <2>2. ASSUME NEW s \in Few(n), s # {} PROVE g[Less(s)] = h[Less(s)]
    <3>1. Less(s) \in Few(n - 1) /\ Less(s) \in Few(n)
      BY <1>3, <2>2, LessIsSmaller
    <3>. HIDE DEF Few
    <3>. QED  BY <2>1, <3>1
  <2>3. h = [s \in Few(n) |-> Term(f, h, s)]
    <3>. HIDE DEF Few
    <3>1. \A s \in Few(n) : Term(f, g, s) = Term(f, h, s)
      <4>. HIDE DEF h
      <4>. QED  BY <2>2 DEF Term
    <3>. QED  BY <3>1
  <2>. QED  BY <2>3
<1>4. Bad = {}
  <2>. SUFFICES ASSUME Bad # {} PROVE FALSE
    OBVIOUS
  <2>. HIDE DEF Has
  <2>1. PICK n \in Bad : \A m \in Bad : n <= m
    BY Smallest
  <2>2. n # 0 /\ n - 1 \in Nat /\ n - 1 \notin Bad
    BY <1>2, <2>1
  <2>. QED  BY <1>3, <2>1, <2>2
<1>5. Cardinality(D) \in Nat /\ Has(Cardinality(D))
  <2>. HIDE DEF Has
  <2>. QED  BY <1>4, FS_CardinalityType
<1>6. Few(Cardinality(D)) = SUBSET D
  BY <1>1
<1>. HIDE DEF Few
<1>. QED  BY <1>5, <1>6 DEF Sums

LEMMA SumIsOne ==
    ASSUME NEW D, IsFiniteSet(D), NEW f, DOMAIN f = D
    PROVE  \E g : Sums(g, f, D) /\ Sum(f) = g[D]
<1>. DEFINE Def(g, s) == IF s = {} THEN 0
                         ELSE LET x == CHOOSE x \in s : TRUE IN f[x] + g[s \ {x}]
            iter == CHOOSE g : g = [s \in SUBSET DOMAIN f |-> Def(g, s)]
<1>1. Sum(f) = iter[DOMAIN f]
  BY DEF Sum, Batches!FoldFunction, Batches!FoldFunctionOnSet, Batches!MapThenFoldSet
<1>2. \A g : Sums(g, f, DOMAIN f) <=> g = [s \in SUBSET DOMAIN f |-> Def(g, s)]
  BY DEF Sums, Term, Pick, Less
<1>3. iter = [s \in SUBSET DOMAIN f |-> Def(iter, s)]
  <2>. HIDE DEF Def
  <2>. QED  BY <1>2, SumsExist
<1>. HIDE DEF iter, Def
<1>. QED  BY <1>1, <1>2, <1>3

\* A sum takes one element after the other.
LEMMA SumsTake ==
    ASSUME NEW D, NEW f, NEW F, Sums(F, f, D)
    PROVE  /\ F[{}] = 0
           /\ \A s \in SUBSET D : s # {} => F[s] = f[Pick(s)] + F[Less(s)]
BY DEF Sums, Term

LEMMA SumIsInt ==
    ASSUME NEW D, IsFiniteSet(D), NEW f \in [D -> Int]
    PROVE  Sum(f) \in Int
<1>1. PICK F : Sums(F, f, D) /\ Sum(f) = F[D]
  BY SumIsOne
<1>. DEFINE T == {s \in SUBSET D : F[s] \in Int}
<1>2. {} \in T
  BY <1>1, SumsTake
<1>3. ASSUME NEW s \in SUBSET D, s # {}, Less(s) \in T PROVE s \in T
  <2>1. F[s] = f[Pick(s)] + F[Less(s)] /\ Pick(s) \in D /\ F[Less(s)] \in Int
    BY <1>1, <1>3, SumsTake, LessIsSmaller
  <2>. QED  BY <2>1
<1>. HIDE DEF T
<1>4. D \in T
  BY <1>2, <1>3, TakeInduction
<1>. QED  BY <1>1, <1>4 DEF T

LEMMA SumIsNat ==
    ASSUME NEW D, IsFiniteSet(D), NEW f \in [D -> Nat]
    PROVE  Sum(f) \in Nat
<1>1. PICK F : Sums(F, f, D) /\ Sum(f) = F[D]
  BY SumIsOne
<1>. DEFINE T == {s \in SUBSET D : F[s] \in Nat}
<1>2. {} \in T
  BY <1>1, SumsTake
<1>3. ASSUME NEW s \in SUBSET D, s # {}, Less(s) \in T PROVE s \in T
  <2>1. F[s] = f[Pick(s)] + F[Less(s)] /\ Pick(s) \in D /\ F[Less(s)] \in Nat
    BY <1>1, <1>3, SumsTake, LessIsSmaller
  <2>. QED  BY <2>1
<1>. HIDE DEF T
<1>4. D \in T
  BY <1>2, <1>3, TakeInduction
<1>. QED  BY <1>1, <1>4 DEF T

LEMMA SumGrows ==
    ASSUME NEW D, IsFiniteSet(D), NEW f \in [D -> Nat], NEW g \in [D -> Nat], \A d \in D : f[d] <= g[d]
    PROVE  Sum(f) <= Sum(g)
<1>1. PICK F : Sums(F, f, D) /\ Sum(f) = F[D]
  BY SumIsOne
<1>2. PICK G : Sums(G, g, D) /\ Sum(g) = G[D]
  BY SumIsOne
<1>. DEFINE T == {s \in SUBSET D : F[s] \in Nat /\ G[s] \in Nat /\ F[s] <= G[s]}
<1>3. {} \in T
  BY <1>1, <1>2, SumsTake
<1>4. ASSUME NEW s \in SUBSET D, s # {}, Less(s) \in T PROVE s \in T
  <2>1. /\ F[s] = f[Pick(s)] + F[Less(s)] /\ G[s] = g[Pick(s)] + G[Less(s)] /\ Pick(s) \in D
        /\ F[Less(s)] \in Nat /\ G[Less(s)] \in Nat /\ F[Less(s)] <= G[Less(s)]
    BY <1>1, <1>2, <1>4, SumsTake, LessIsSmaller
  <2>2. f[Pick(s)] \in Nat /\ g[Pick(s)] \in Nat /\ f[Pick(s)] <= g[Pick(s)]
    BY <2>1
  <2>. QED  BY <2>1, <2>2
<1>. HIDE DEF T
<1>5. D \in T
  BY <1>3, <1>4, TakeInduction
<1>. QED  BY <1>1, <1>2, <1>5 DEF T

\* A sum of sums, term by term.
LEMMA IntSumAdds ==
    ASSUME NEW D, IsFiniteSet(D), NEW f \in [D -> Int], NEW g \in [D -> Int], NEW h \in [D -> Int],
           \A d \in D : h[d] = f[d] + g[d]
    PROVE  Sum(h) = Sum(f) + Sum(g)
<1>1. PICK F : Sums(F, f, D) /\ Sum(f) = F[D]
  BY SumIsOne
<1>2. PICK G : Sums(G, g, D) /\ Sum(g) = G[D]
  BY SumIsOne
<1>3. PICK H : Sums(H, h, D) /\ Sum(h) = H[D]
  BY SumIsOne
<1>. DEFINE T == {s \in SUBSET D : F[s] \in Int /\ G[s] \in Int /\ H[s] = F[s] + G[s]}
<1>4. {} \in T
  BY <1>1, <1>2, <1>3, SumsTake
<1>5. ASSUME NEW s \in SUBSET D, s # {}, Less(s) \in T PROVE s \in T
  <2>1. /\ F[s] = f[Pick(s)] + F[Less(s)] /\ G[s] = g[Pick(s)] + G[Less(s)]
        /\ H[s] = h[Pick(s)] + H[Less(s)] /\ Pick(s) \in D
    BY <1>1, <1>2, <1>3, <1>5, SumsTake, LessIsSmaller
  <2>2. /\ f[Pick(s)] \in Int /\ g[Pick(s)] \in Int /\ h[Pick(s)] = f[Pick(s)] + g[Pick(s)]
        /\ F[Less(s)] \in Int /\ G[Less(s)] \in Int /\ H[Less(s)] = F[Less(s)] + G[Less(s)]
    BY <1>5, <2>1
  <2>. QED  BY <2>1, <2>2
<1>. HIDE DEF T
<1>6. D \in T
  BY <1>4, <1>5, TakeInduction
<1>. QED  BY <1>1, <1>2, <1>3, <1>6 DEF T

LEMMA SumAdds ==
    ASSUME NEW D, IsFiniteSet(D), NEW f \in [D -> Nat], NEW g \in [D -> Nat], NEW h \in [D -> Nat],
           \A d \in D : h[d] = f[d] + g[d]
    PROVE  Sum(h) = Sum(f) + Sum(g)
<1>1. f \in [D -> Int] /\ g \in [D -> Int] /\ h \in [D -> Int]
  OBVIOUS
<1>. QED  BY <1>1, IntSumAdds

\* The sum of a function that is 0 but in one place.
LEMMA IntSumOfOne ==
    ASSUME NEW D, IsFiniteSet(D), NEW f \in [D -> Int], NEW b \in D, \A d \in D \ {b} : f[d] = 0
    PROVE  Sum(f) = f[b]
<1>1. PICK F : Sums(F, f, D) /\ Sum(f) = F[D]
  BY SumIsOne
<1>. DEFINE T == {s \in SUBSET D : F[s] = IF b \in s THEN f[b] ELSE 0}
<1>2. {} \in T
  BY <1>1, SumsTake
<1>3. ASSUME NEW s \in SUBSET D, s # {}, Less(s) \in T PROVE s \in T
  <2>1. F[s] = f[Pick(s)] + F[Less(s)] /\ Pick(s) \in s
    BY <1>1, <1>3, SumsTake, LessIsSmaller
  <2>2. F[Less(s)] = IF b \in Less(s) THEN f[b] ELSE 0
    BY <1>3
  <2>3. CASE Pick(s) = b
    <3>1. b \notin Less(s) /\ b \in s
      BY <2>1, <2>3 DEF Less
    <3>. QED  BY <2>1, <2>2, <2>3, <3>1
  <2>4. CASE Pick(s) # b
    <3>1. (b \in Less(s) <=> b \in s) /\ f[Pick(s)] = 0
      BY <2>1, <2>4 DEF Less
    <3>. QED  BY <2>1, <2>2, <3>1
  <2>. QED  BY <2>3, <2>4
<1>. HIDE DEF T
<1>4. D \in T
  BY <1>2, <1>3, TakeInduction
<1>. QED  BY <1>1, <1>4 DEF T

LEMMA SumOfOne ==
    ASSUME NEW D, IsFiniteSet(D), NEW f \in [D -> Nat], NEW b \in D, \A d \in D \ {b} : f[d] = 0
    PROVE  Sum(f) = f[b]
<1>1. f \in [D -> Int]
  OBVIOUS
<1>. QED  BY <1>1, IntSumOfOne

\* What a sum gains by a new term.
LEMMA IntSumGains ==
    ASSUME NEW D, IsFiniteSet(D), NEW f \in [D -> Int], NEW b \in D, f[b] = 0, NEW a \in Int
    PROVE  Sum([f EXCEPT ![b] = a]) = Sum(f) + a
<1>. DEFINE g == [d \in D |-> IF d = b THEN a ELSE 0]
            h == [f EXCEPT ![b] = a]
<1>1. g \in [D -> Int] /\ h \in [D -> Int] /\ \A d \in D : h[d] = f[d] + g[d]
  OBVIOUS
<1>2. g[b] = a /\ \A d \in D \ {b} : g[d] = 0
  OBVIOUS
<1>. HIDE DEF g, h
<1>3. Sum(g) = a
  BY <1>1, <1>2, IntSumOfOne
<1>4. Sum(h) = Sum(f) + Sum(g)
  BY <1>1, IntSumAdds
<1>. QED  BY <1>3, <1>4 DEF h

LEMMA SumGains ==
    ASSUME NEW D, IsFiniteSet(D), NEW f \in [D -> Nat], NEW b \in D, f[b] = 0, NEW a \in Nat
    PROVE  Sum([f EXCEPT ![b] = a]) = Sum(f) + a
<1>1. f \in [D -> Int] /\ a \in Int
  OBVIOUS
<1>. QED  BY <1>1, IntSumGains

LEMMA SumOfTwo ==
    ASSUME NEW f \in [1..2 -> Nat]
    PROVE  Sum(f) = f[1] + f[2]
<1>. DEFINE g == [d \in 1..2 |-> IF d = 1 THEN f[1] ELSE 0]
            h == [d \in 1..2 |-> IF d = 1 THEN 0 ELSE f[2]]
<1>1. IsFiniteSet(1..2)
  <2>1. 1 \in Int /\ 2 \in Int
    OBVIOUS
  <2>. QED  BY <2>1, FS_Interval
<1>2. /\ g \in [1..2 -> Nat] /\ g[1] = f[1] /\ \A d \in (1..2) \ {1} : g[d] = 0
      /\ h \in [1..2 -> Nat] /\ h[2] = f[2] /\ \A d \in (1..2) \ {2} : h[d] = 0
      /\ \A d \in 1..2 : f[d] = g[d] + h[d]
      /\ 1 \in 1..2 /\ 2 \in 1..2
  OBVIOUS
<1>. HIDE DEF g, h
<1>3. Sum(g) = f[1] /\ Sum(h) = f[2]
  BY <1>1, <1>2, SumOfOne
<1>. QED  BY <1>1, <1>2, <1>3, SumAdds

(***************************************************************************)
(* What the rows were given.  A place that was not looked at yet has       *)
(* nothing, and what a row is given is less than it lacks.                 *)
(***************************************************************************)
RowIds == 1..Len(rows)
BatchIds == 1..Len(stock)

InputInv ==
    /\ Len(rows) \in Nat \ {0} /\ Len(stock) \in Nat
    /\ \A i \in RowIds : rows[i].qty \in Nat /\ rows[i].factor \in Nat \ {0}
    /\ \A k \in BatchIds : stock[k] \in Nat

PlaceInv ==
    /\ row \in 1..Len(rows) + 1 /\ batch \in 1..Len(stock) + 1
    /\ got \in [RowIds -> [BatchIds -> Nat]]
    /\ used \subseteq BatchIds
    /\ kept.batch \in 0..Len(stock) /\ kept.left \in Nat
    /\ kept.batch # 0 => kept.left <= stock[kept.batch]

AheadInv == \A i \in RowIds, k \in BatchIds : row < i \/ (row = i /\ batch <= k) => got[i][k] = 0

WithinInv == \A i \in RowIds : Batches!Given(i) <= Batches!Wanted(i)

ShapeInv == InputInv /\ PlaceInv /\ AheadInv /\ WithinInv

LEMMA RowsAreFinite == InputInv => IsFiniteSet(RowIds) /\ IsFiniteSet(BatchIds)
<1>. SUFFICES ASSUME InputInv PROVE IsFiniteSet(RowIds) /\ IsFiniteSet(BatchIds)
  OBVIOUS
<1>1. 1 \in Int /\ Len(rows) \in Int /\ Len(stock) \in Int
  BY DEF InputInv
<1>. QED  BY <1>1, FS_Interval DEF RowIds, BatchIds

LEMMA GivenIsSum == \A i : Batches!Given(i) = Sum(got[i]) /\ Batches!Given(i)' = Sum(got'[i])
<1>1. ASSUME NEW CONSTANT i PROVE Batches!Given(i) = Sum(got[i])
  BY DEF Sum, Batches!Given
<1>2. ASSUME NEW CONSTANT i PROVE Batches!Given(i)' = Sum(got'[i])
  BY DEF Sum, Batches!Given, Batches!FoldFunction, Batches!FoldFunctionOnSet, Batches!MapThenFoldSet
<1>. QED  BY <1>1, <1>2

LEMMA WantedIsNat == InputInv => \A i \in RowIds : Batches!Wanted(i) \in Nat
BY DEF InputInv, Batches!Wanted

LEMMA GivenIsNat == InputInv /\ PlaceInv => \A i \in RowIds : Batches!Given(i) \in Nat
<1>. SUFFICES ASSUME InputInv, PlaceInv, NEW i \in RowIds PROVE Batches!Given(i) \in Nat
  OBVIOUS
<1>1. got[i] \in [BatchIds -> Nat]
  BY DEF PlaceInv
<1>2. Sum(got[i]) \in Nat
  BY <1>1, RowsAreFinite, SumIsNat
<1>. QED  BY <1>2 DEF Sum, Batches!Given

\* What whole units of a row make.
LEMMA WholeUnits ==
    ASSUME NEW q \in Nat, NEW f \in Nat \ {0}
    PROVE  (q \div f) * f \in Nat /\ (q \div f) * f <= q /\ (f = 1 => (q \div f) * f = q)
<1>. DEFINE d == q \div f
<1>1. d \in Nat /\ f * d <= q /\ (f = 1 => d = q)
  OBVIOUS
<1>. HIDE DEF d
<1>2. d * f \in Nat /\ d * f <= q /\ (f = 1 => d * f = q)
  BY <1>1
<1>. QED  BY <1>2 DEF d

\* What is left of the batch that is looked at, as the code knows it.
Available == IF Batches!Begun THEN kept.left ELSE stock[batch]

LEMMA GiveIsFit ==
    ASSUME ShapeInv, Batches!Give
    PROVE  /\ row \in RowIds /\ batch \in BatchIds
           /\ Batches!Remainder \in Nat \ {0} /\ Available \in Nat /\ Available <= stock[batch]
           /\ stock[batch] \in Nat \ {0}
           /\ Batches!Amount \in Nat /\ Batches!Amount <= Batches!Remainder /\ Batches!Amount <= Available
           /\ rows[row].factor = 1 => Batches!Amount = Batches!Smaller(Batches!Remainder, Available)
<1>1. row \in RowIds /\ batch \in BatchIds
  BY DEF ShapeInv, InputInv, PlaceInv, Batches!Give, Batches!Open, RowIds, BatchIds
<1>2. Batches!Wanted(row) \in Nat /\ Batches!Given(row) \in Nat
  BY <1>1, WantedIsNat, GivenIsNat DEF ShapeInv
<1>3. Batches!Given(row) < Batches!Wanted(row) /\ stock[batch] # 0
  BY <1>2 DEF Batches!Give, Batches!Skipped
<1>4. Batches!Remainder \in Nat \ {0}
  BY <1>2, <1>3 DEF Batches!Remainder
<1>5. stock[batch] \in Nat \ {0}
  BY <1>1, <1>3 DEF ShapeInv, InputInv
<1>6. Available \in Nat /\ Available <= stock[batch]
  BY <1>1, <1>5 DEF ShapeInv, PlaceInv, Available, Batches!Begun, BatchIds
<1>. DEFINE q == Batches!Smaller(Batches!Remainder, Available)
            f == rows[row].factor
<1>7. q \in Nat /\ q <= Batches!Remainder /\ q <= Available
  BY <1>4, <1>6 DEF Batches!Smaller
<1>8. f \in Nat \ {0}
  BY <1>1 DEF ShapeInv, InputInv
<1>9. Batches!Amount = (q \div f) * f
  BY Zenon DEF Batches!Amount, Batches!Whole, Available
<1>. HIDE DEF q, f
<1>10. Batches!Amount \in Nat /\ Batches!Amount <= q /\ (f = 1 => Batches!Amount = q)
  BY <1>7, <1>8, <1>9, WholeUnits
<1>. QED  BY <1>1, <1>4, <1>5, <1>6, <1>7, <1>10 DEF q, f

LEMMA GiveGains ==
    ASSUME ShapeInv, Batches!Give
    PROVE  /\ got' \in [RowIds -> [BatchIds -> Nat]]
           /\ \A i \in RowIds, k \in BatchIds :
                got'[i][k] = IF i = row /\ k = batch THEN Batches!Amount ELSE got[i][k]
           /\ got[row][batch] = 0
           /\ \A i \in RowIds : Batches!Given(i)' = Batches!Given(i) + (IF i = row THEN Batches!Amount ELSE 0)
<1>. DEFINE a == Batches!Amount
<1>1. /\ row \in RowIds /\ batch \in BatchIds /\ a \in Nat
      /\ got \in [RowIds -> [BatchIds -> Nat]]
  BY GiveIsFit DEF ShapeInv, PlaceInv
<1>2. got[row][batch] = 0
  BY <1>1 DEF ShapeInv, PlaceInv, AheadInv, RowIds, BatchIds
<1>3. got' = [got EXCEPT ![row][batch] = a]
  BY DEF Batches!Give
<1>. HIDE DEF a
<1>4. PICK g : g = got'
  OBVIOUS
<1>5. /\ g \in [RowIds -> [BatchIds -> Nat]]
      /\ \A i \in RowIds \ {row} : g[i] = got[i]
      /\ g[row] = [got[row] EXCEPT ![batch] = a]
  BY <1>1, <1>3, <1>4
<1>6. \A i \in RowIds, k \in BatchIds : g[i][k] = IF i = row /\ k = batch THEN a ELSE got[i][k]
  BY <1>1, <1>5
<1>7. \A i \in RowIds : Sum(got[i]) \in Nat
  BY <1>1, RowsAreFinite, SumIsNat DEF ShapeInv
<1>8. Sum(g[row]) = Sum(got[row]) + a
  <2>1. got[row] \in [BatchIds -> Nat] /\ IsFiniteSet(BatchIds)
    BY <1>1, RowsAreFinite DEF ShapeInv
  <2>2. Sum([got[row] EXCEPT ![batch] = a]) = Sum(got[row]) + a
    BY <1>1, <1>2, <2>1, SumGains, Zenon
  <2>. QED  BY <1>5, <2>2, Zenon
<1>9. \A i \in RowIds : Sum(g[i]) = Sum(got[i]) + (IF i = row THEN a ELSE 0)
  BY <1>5, <1>7, <1>8
<1>10. \A i \in RowIds : Batches!Given(i)' = Sum(g[i]) /\ Batches!Given(i) = Sum(got[i])
  BY <1>4, GivenIsSum
<1>. QED  BY <1>2, <1>4, <1>5, <1>6, <1>9, <1>10 DEF a

LEMMA GiveKeepsShape == ShapeInv /\ Batches!Give => ShapeInv'
<1>. SUFFICES ASSUME ShapeInv, Batches!Give PROVE ShapeInv'
  OBVIOUS
<1>1. /\ rows' = rows /\ stock' = stock /\ row' = row /\ batch' = batch + 1
      /\ UNCHANGED kept \/ kept' = Batches!NoBatch \/ kept' = [batch |-> batch, left |-> Batches!Left]
      /\ used' \subseteq used \cup {batch}
  BY DEF Batches!Give, Batches!input
<1>2. /\ row \in RowIds /\ batch \in BatchIds /\ Batches!Amount \in Nat
      /\ Batches!Amount <= Batches!Remainder /\ Batches!Amount <= stock[batch] /\ stock[batch] \in Nat
  BY GiveIsFit
<1>3. InputInv' /\ RowIds' = RowIds /\ BatchIds' = BatchIds
  BY <1>1 DEF ShapeInv, InputInv, RowIds, BatchIds
<1>4. Batches!Left \in Nat /\ Batches!Left <= stock[batch]
  BY <1>2 DEF Batches!Left
<1>5. PlaceInv'
  <2>1. row' \in 1..Len(rows)' + 1 /\ batch' \in 1..Len(stock)' + 1
    BY <1>1, <1>2 DEF ShapeInv, PlaceInv, InputInv, BatchIds
  <2>2. got' \in [RowIds' -> [BatchIds' -> Nat]] /\ used' \subseteq BatchIds'
    BY <1>1, <1>2, <1>3, GiveGains DEF ShapeInv, PlaceInv
  <2>3. kept'.batch \in 0..Len(stock)' /\ kept'.left \in Nat /\ (kept'.batch # 0 => kept'.left <= stock'[kept'.batch])
    <3>1. CASE UNCHANGED kept
      BY <1>1, <3>1 DEF ShapeInv, PlaceInv
    <3>2. CASE kept' = Batches!NoBatch
      BY <1>1, <1>2, <3>2 DEF Batches!NoBatch, ShapeInv, InputInv
    <3>3. CASE kept' = [batch |-> batch, left |-> Batches!Left]
      BY <1>1, <1>2, <1>4, <3>3 DEF BatchIds, ShapeInv, InputInv
    <3>. QED  BY <1>1, <3>1, <3>2, <3>3
  <2>. QED  BY <2>1, <2>2, <2>3 DEF PlaceInv
<1>6. AheadInv'
  <2>. SUFFICES ASSUME NEW i \in RowIds, NEW k \in BatchIds, row < i \/ (row = i /\ batch + 1 <= k)
                PROVE  got'[i][k] = 0
    BY <1>1, <1>3 DEF AheadInv
  <2>1. got[i][k] = 0 /\ ~(i = row /\ k = batch)
    BY <1>2 DEF ShapeInv, AheadInv, RowIds, BatchIds
  <2>. QED  BY <2>1, GiveGains
<1>7. WithinInv'
  <2>. SUFFICES ASSUME NEW i \in RowIds PROVE Batches!Given(i)' <= Batches!Wanted(i)
    BY <1>1, <1>3 DEF WithinInv, Batches!Wanted
  <2>1. Batches!Given(i) \in Nat /\ Batches!Wanted(i) \in Nat /\ Batches!Given(i) <= Batches!Wanted(i)
    BY GivenIsNat, WantedIsNat DEF ShapeInv, WithinInv
  <2>2. CASE i = row
    BY <1>2, <2>1, <2>2, GiveGains DEF Batches!Remainder
  <2>3. CASE i # row
    BY <2>1, <2>3, GiveGains
  <2>. QED  BY <2>2, <2>3
<1>. QED  BY <1>3, <1>5, <1>6, <1>7 DEF ShapeInv

\* A step that gives nothing.
LEMMA RestKeepsShape ==
    ASSUME ShapeInv, UNCHANGED <<rows, stock, got, used, kept>>,
           \/ row' = row /\ batch' = batch
           \/ row' = row /\ batch' = batch + 1 /\ batch <= Len(stock)
           \/ row' = row + 1 /\ batch' = 1 /\ row <= Len(rows) /\ batch > Len(stock)
    PROVE  ShapeInv'
<1>1. InputInv' /\ RowIds' = RowIds /\ BatchIds' = BatchIds
  BY DEF ShapeInv, InputInv, RowIds, BatchIds
<1>2. PlaceInv'
  <2>1. row' \in 1..Len(rows) + 1 /\ batch' \in 1..Len(stock) + 1
    BY DEF ShapeInv, PlaceInv, InputInv
  <2>. QED  BY <1>1, <2>1 DEF ShapeInv, PlaceInv
<1>3. AheadInv'
  <2>. SUFFICES ASSUME NEW i \in RowIds, NEW k \in BatchIds, row' < i \/ (row' = i /\ batch' <= k)
                PROVE  got[i][k] = 0
    BY <1>1 DEF AheadInv
  <2>1. row < i \/ (row = i /\ batch <= k)
    BY DEF ShapeInv, InputInv, PlaceInv, RowIds, BatchIds
  <2>. QED  BY <2>1 DEF ShapeInv, AheadInv
<1>4. WithinInv'
  <2>1. \A i \in RowIds : Batches!Given(i)' = Batches!Given(i) /\ Batches!Wanted(i)' = Batches!Wanted(i)
    BY GivenIsSum DEF Batches!Wanted
  <2>. QED  BY <1>1, <2>1 DEF ShapeInv, WithinInv
<1>. QED  BY <1>1, <1>2, <1>3, <1>4 DEF ShapeInv

(***************************************************************************)
(* What the batches gave, when the rows are in the stock unit.  Of a batch *)
(* a row has gone past it has all, or it wants no more.  With two rows the *)
(* second finds a batch used or remembered as the first left it: the first *)
(* begins one batch without using it up, its last.                         *)
(***************************************************************************)
Full(i) == Batches!Given(i) = Batches!Wanted(i)

SingleInv ==
    /\ kept.batch = 0 /\ used = {}
    /\ \A k \in BatchIds : got[1][k] <= stock[k]
    /\ \A k \in BatchIds : row > 1 \/ batch > k => got[1][k] = stock[k] \/ Full(1)
    /\ verdict = "split" => row > 1 /\ Full(1)

\* Batches the second row has before it.
Ahead(k) == row = 1 \/ (row = 2 /\ batch <= k)

Drawn(k) == got[1][k] + got[2][k]

ThroughInv ==
    /\ \A k \in BatchIds : Drawn(k) <= stock[k]
    /\ \A k \in BatchIds : row > 1 \/ batch > k => got[1][k] = stock[k] \/ Full(1)
    /\ \A k \in BatchIds : row > 2 \/ (row = 2 /\ batch > k) => Drawn(k) = stock[k] \/ Full(2)
    /\ verdict = "split" => row > 2

MemoryInv ==
    /\ \A k \in used : Drawn(k) = stock[k]
    /\ \A k \in BatchIds : Ahead(k) /\ got[1][k] > 0 => k \in used \/ kept.batch = k
    /\ \A k \in BatchIds : Ahead(k) /\ kept.batch = k =>
          /\ kept.left = stock[k] - got[1][k]
          /\ \A j \in BatchIds : j < k /\ Ahead(j) => stock[j] = 0 \/ j \in used

FirstInv ==
    row = 1 => /\ kept.batch # 0 => Full(1)
               /\ ~Full(1) => \A j \in BatchIds : j < batch => stock[j] = 0 \/ j \in used

PairInv == ThroughInv /\ MemoryInv /\ FirstInv

ShareInv == Batches!Units => (Len(rows) = 1 => SingleInv) /\ (Len(rows) = 2 => PairInv)

\* What a row in the stock unit is given is all it lacks or all there is.
LEMMA GiveOfUnits ==
    ASSUME ShapeInv, Batches!Units, Batches!Give
    PROVE  /\ row \in RowIds /\ batch \in BatchIds /\ batch \in Nat \ {0} /\ ~Full(row)
           /\ Batches!Remainder \in Nat \ {0} /\ Available \in Nat /\ Available <= stock[batch]
           /\ stock[batch] \in Nat \ {0} /\ Batches!Amount \in Nat
           /\ Batches!Amount = IF Batches!Remainder < Available THEN Batches!Remainder ELSE Available
           /\ (Batches!Remainder <= Available) <=> Full(row)'
           /\ \A i \in RowIds \ {row} : Full(i)' <=> Full(i)
           /\ batch \notin used
<1>1. row \in RowIds /\ batch \in BatchIds /\ rows[row].factor = 1 /\ batch \in Nat \ {0}
  BY GiveIsFit DEF Batches!Units, RowIds, BatchIds
<1>2. Batches!Amount = IF Batches!Remainder < Available THEN Batches!Remainder ELSE Available
  BY <1>1, GiveIsFit DEF Batches!Smaller
<1>3. /\ Batches!Remainder \in Nat \ {0} /\ Available \in Nat /\ Available <= stock[batch]
      /\ stock[batch] \in Nat \ {0} /\ Batches!Amount \in Nat
  BY GiveIsFit
<1>4. /\ Batches!Given(row) \in Nat /\ Batches!Wanted(row) \in Nat
      /\ Batches!Given(row)' = Batches!Given(row) + Batches!Amount
      /\ \A i \in RowIds \ {row} : Batches!Given(i)' = Batches!Given(i)
  <2>1. \A i \in RowIds : Batches!Given(i) \in Nat /\ Batches!Wanted(i) \in Nat
    BY GivenIsNat, WantedIsNat DEF ShapeInv
  <2>2. row' = row
    BY DEF Batches!Give
  <2>. QED  BY <1>1, <1>3, <2>1, <2>2, GiveGains
<1>5. \A i \in RowIds : Batches!Wanted(i)' = Batches!Wanted(i)
  BY DEF Batches!Wanted, Batches!Give, Batches!input
<1>6. Batches!Remainder = Batches!Wanted(row) - Batches!Given(row)
  BY DEF Batches!Remainder
<1>7. (Batches!Remainder <= Available) <=> Full(row)'
  <2>1. Full(row)' <=> Batches!Given(row)' = Batches!Wanted(row)
    BY <1>1, <1>5 DEF Full, Batches!Give
  <2>. QED  BY <1>2, <1>4, <1>3, <1>6, <2>1
<1>8. \A i \in RowIds \ {row} : Full(i)' <=> Full(i)
  BY <1>4, <1>5 DEF Full
<1>9. batch \notin used
  BY DEF Batches!Give, Batches!Skipped
<1>10. ~Full(row)
  BY <1>4, <1>3, <1>6 DEF Full
<1>. QED  BY <1>1, <1>2, <1>3, <1>7, <1>8, <1>9, <1>10

LEMMA GiveKeepsSingle ==
    ASSUME ShapeInv, Batches!Units, Len(rows) = 1, SingleInv, Batches!Give
    PROVE  SingleInv'
<1>1. /\ row = 1 /\ 1 \in RowIds /\ batch \in BatchIds
      /\ batch \in Nat \ {0} /\ stock[batch] \in Nat /\ Batches!Remainder \in Nat
  BY GiveOfUnits DEF RowIds
<1>2. Available = stock[batch]
  BY <1>1 DEF SingleInv, Available, Batches!Begun
<1>3. /\ UNCHANGED <<rows, stock, row, used, kept, verdict>> /\ batch' = batch + 1
  BY DEF Batches!Give, Batches!Single, Batches!input
<1>4. /\ BatchIds' = BatchIds /\ Batches!Amount \in Nat /\ Batches!Amount <= stock[batch]
      /\ Batches!Amount = stock[batch] \/ Full(1)'
      /\ ~Full(1)
  BY <1>1, <1>2, <1>3, GiveOfUnits DEF BatchIds
<1>5. \A k \in BatchIds : got'[1][k] = IF k = batch THEN Batches!Amount ELSE got[1][k]
  BY <1>1, GiveGains
<1>6. \A k \in BatchIds : k \in Nat /\ stock[k] \in Nat /\ got[1][k] \in Nat
  BY <1>1 DEF ShapeInv, InputInv, PlaceInv, BatchIds
<1>7. \A k \in BatchIds : got'[1][k] <= stock[k]
  BY <1>4, <1>5, <1>6 DEF SingleInv
<1>8. ASSUME NEW k \in BatchIds, batch + 1 > k PROVE got'[1][k] = stock[k] \/ Full(1)'
  <2>1. CASE k = batch
    BY <1>4, <1>5, <2>1
  <2>2. CASE k # batch
    <3>1. batch > k
      BY <1>1, <1>6, <1>8, <2>2
    <3>. QED  BY <1>4, <1>5, <2>2, <3>1 DEF SingleInv
  <2>. QED  BY <2>1, <2>2
<1>9. verdict # "split"
  BY DEF Batches!Give, Batches!Open
<1>. QED  BY <1>1, <1>3, <1>4, <1>7, <1>8, <1>9 DEF SingleInv

\* What the code knows to be left of a batch is what is left of it.
LEMMA AvailableIsLeft ==
    ASSUME ShapeInv, Batches!Units, Len(rows) = 2, PairInv, Batches!Give
    PROVE  /\ row \in {1, 2} /\ Ahead(batch) /\ Drawn(batch) = got[1][batch]
           /\ got[1][batch] \in Nat /\ Available = stock[batch] - got[1][batch]
           /\ row = 1 => kept.batch = 0 /\ got[1][batch] = 0
           /\ kept.batch <= batch
<1>1. /\ row \in {1, 2} /\ batch \in BatchIds /\ batch \in Nat \ {0}
      /\ stock[batch] \in Nat \ {0} /\ ~Full(row) /\ batch \notin used
  BY GiveOfUnits DEF RowIds
<1>2. Ahead(batch)
  BY <1>1 DEF Ahead
<1>3. got[row][batch] = 0 /\ (row = 1 => got[2][batch] = 0) /\ got[1][batch] \in Nat /\ got[2][batch] \in Nat
  <2>1. 1 \in RowIds /\ 2 \in RowIds
    BY DEF RowIds
  <2>. QED  BY <1>1, <2>1, GiveGains DEF ShapeInv, AheadInv, PlaceInv
<1>4. row = 1 => kept.batch = 0
  BY <1>1 DEF PairInv, FirstInv
<1>5. Available = stock[batch] - got[1][batch]
  <2>1. CASE Batches!Begun
    BY <1>1, <1>2, <2>1 DEF Batches!Begun, Available, PairInv, MemoryInv
  <2>2. CASE ~Batches!Begun
    <3>1. got[1][batch] = 0
      BY <1>1, <1>2, <1>3, <2>2 DEF Batches!Begun, PairInv, MemoryInv
    <3>. QED  BY <1>1, <2>2, <3>1 DEF Available
  <2>. QED  BY <2>1, <2>2
<1>6. kept.batch <= batch
  <2>. SUFFICES ASSUME kept.batch > batch PROVE FALSE
    BY <1>1 DEF ShapeInv, PlaceInv, InputInv
  <2>1. kept.batch \in BatchIds /\ row = 2
    BY <1>1, <1>4 DEF ShapeInv, PlaceInv, InputInv, BatchIds
  <2>2. Ahead(kept.batch)
    BY <1>1, <2>1 DEF Ahead, BatchIds
  <2>3. stock[batch] = 0 \/ batch \in used
    BY <1>1, <1>2, <2>1, <2>2 DEF PairInv, MemoryInv
  <2>. QED  BY <1>1, <2>3
<1>. QED  BY <1>1, <1>2, <1>3, <1>4, <1>5, <1>6 DEF Drawn

\* What is remembered of a batch.
LEMMA GiveRemembers ==
    ASSUME ShapeInv, Batches!Units, Len(rows) = 2, PairInv, Batches!Give
    PROVE  \/ Batches!Amount = 0 /\ used' = used /\ kept' = kept
           \/ /\ Batches!Amount = Available /\ used' = used \cup {batch} /\ kept'.batch = 0
           \/ /\ Batches!Amount # 0 /\ Batches!Remainder < stock[batch] /\ used' = used
              /\ kept'.batch = batch /\ kept'.left = stock[batch] - Batches!Amount
<1>1. ~Batches!Single
  BY DEF Batches!Single
<1>2. CASE Batches!Amount = 0
  BY <1>2 DEF Batches!Give
<1>3. CASE Batches!Amount # 0 /\ Batches!UsedUp
  <2>1. used' = used \cup {batch} /\ kept' = Batches!NoBatch
    BY <1>1, <1>3 DEF Batches!Give
  <2>2. Batches!Remainder >= Available
    BY <1>3, GiveOfUnits DEF Batches!UsedUp, Available
  <2>3. Batches!Amount = Available
    BY <2>2, GiveOfUnits
  <2>. QED  BY <2>1, <2>3 DEF Batches!NoBatch
<1>4. CASE Batches!Amount # 0 /\ ~Batches!UsedUp
  <2>1. used' = used /\ kept' = [batch |-> batch, left |-> Batches!Left]
    BY <1>1, <1>4 DEF Batches!Give
  <2>2. Batches!Remainder < stock[batch]
    BY <1>4, GiveOfUnits DEF Batches!UsedUp
  <2>. QED  BY <1>4, <2>1, <2>2 DEF Batches!Left
<1>. QED  BY <1>2, <1>3, <1>4

LEMMA GiveKeepsPair ==
    ASSUME ShapeInv, Batches!Units, Len(rows) = 2, PairInv, Batches!Give
    PROVE  PairInv'
<1>. DEFINE a == Batches!Amount
            b == batch
            rem == Batches!Remainder
<1>1. /\ UNCHANGED <<rows, stock, row, verdict>> /\ batch' = b + 1 /\ BatchIds' = BatchIds /\ verdict = "open"
  BY DEF Batches!Give, Batches!input, Batches!Open, BatchIds
<1>2. /\ row \in {1, 2} /\ b \in BatchIds /\ b \in Nat \ {0} /\ ~Full(row)
      /\ rem \in Nat \ {0} /\ Available \in Nat /\ stock[b] \in Nat \ {0} /\ a \in Nat
      /\ a = IF rem < Available THEN rem ELSE Available
      /\ row = 1 => ((rem <= Available) <=> Full(1)') /\ (Full(2)' <=> Full(2))
      /\ row = 2 => ((rem <= Available) <=> Full(2)') /\ (Full(1)' <=> Full(1))
      /\ b \notin used
  <2>1. 1 \in RowIds /\ 2 \in RowIds
    BY DEF RowIds
  <2>2. row = 1 => (Full(row)' <=> Full(1)')
    BY <1>1 DEF Full
  <2>3. row = 2 => (Full(row)' <=> Full(2)')
    BY <1>1 DEF Full
  <2>. QED  BY <2>1, <2>2, <2>3, GiveOfUnits, AvailableIsLeft
<1>3. /\ Ahead(b) /\ Drawn(b) = got[1][b] /\ got[1][b] \in Nat /\ Available = stock[b] - got[1][b]
      /\ row = 1 => kept.batch = 0 /\ got[1][b] = 0
      /\ kept.batch <= b
  BY AvailableIsLeft
<1>4. \/ a = 0 /\ used' = used /\ kept' = kept
      \/ a = Available /\ used' = used \cup {b} /\ kept'.batch = 0
      \/ /\ a # 0 /\ rem < stock[b] /\ used' = used
         /\ kept'.batch = b /\ kept'.left = stock[b] - a
  BY GiveRemembers
<1>5. \A k \in BatchIds :
        /\ k \in Nat \ {0} /\ stock[k] \in Nat /\ got[1][k] \in Nat /\ got[2][k] \in Nat
        /\ got'[1][k] = IF row = 1 /\ k = b THEN a ELSE got[1][k]
        /\ got'[2][k] = IF row = 2 /\ k = b THEN a ELSE got[2][k]
  <2>1. 1 \in RowIds /\ 2 \in RowIds
    BY DEF RowIds
  <2>. QED  BY <2>1, GiveGains DEF ShapeInv, PlaceInv, InputInv, BatchIds
<1>6. kept.batch \in Nat /\ used \subseteq BatchIds
  BY DEF ShapeInv, PlaceInv, InputInv
<1>7. \A k \in BatchIds : Drawn(k)' = (IF k = b THEN got[1][b] + a ELSE Drawn(k))
  <2>. SUFFICES ASSUME NEW k \in BatchIds PROVE got'[1][k] + got'[2][k] = IF k = b THEN got[1][b] + a ELSE Drawn(k)
    BY DEF Drawn
  <2>1. got[1][b] = Drawn(b)
    BY <1>3
  <2>2. got[2][b] = 0
    BY <1>2, <1>5, <2>1 DEF Drawn
  <2>3. CASE k = b
    <3>1. row = 1 => got'[1][b] = a /\ got'[2][b] = 0 /\ got[1][b] = 0
      BY <1>2, <1>3, <1>5, <2>2
    <3>2. row = 2 => got'[1][b] = got[1][b] /\ got'[2][b] = a
      BY <1>2, <1>5
    <3>. QED  BY <1>2, <1>3, <2>3, <3>1, <3>2
  <2>4. CASE k # b
    BY <1>5, <2>4 DEF Drawn
  <2>. QED  BY <2>3, <2>4
<1>. HIDE DEF a, b, rem
<1>8. ThroughInv'
  <2>1. \A k \in BatchIds : Drawn(k)' <= stock[k]
    BY <1>2, <1>3, <1>5, <1>7 DEF PairInv, ThroughInv
  <2>2. ASSUME NEW k \in BatchIds, row > 1 \/ b + 1 > k PROVE got'[1][k] = stock[k] \/ Full(1)'
    <3>1. CASE row = 1 /\ k = b
      BY <1>2, <1>3, <1>5, <3>1
    <3>2. CASE row = 1 /\ k # b
      <4>1. b > k
        BY <1>2, <1>5, <2>2, <3>2
      <4>. QED  BY <1>2, <1>5, <3>2, <4>1 DEF PairInv, ThroughInv, b
    <3>3. CASE row = 2
      BY <1>2, <1>5, <3>3 DEF PairInv, ThroughInv
    <3>. QED  BY <1>2, <3>1, <3>2, <3>3
  <2>3. ASSUME NEW k \in BatchIds, row = 2, b + 1 > k PROVE Drawn(k)' = stock[k] \/ Full(2)'
    <3>1. CASE k = b
      BY <1>2, <1>3, <1>7, <2>3, <3>1
    <3>2. CASE k # b
      <4>1. b > k
        BY <1>2, <1>5, <2>3, <3>2
      <4>. QED  BY <1>2, <1>7, <2>3, <3>2, <4>1 DEF PairInv, ThroughInv, b
    <3>. QED  BY <3>1, <3>2
  <2>4. ~(row > 2)
    BY <1>2
  <2>. QED  BY <1>1, <2>1, <2>2, <2>3, <2>4 DEF ThroughInv
<1>9. MemoryInv'
  <2>1. ASSUME NEW k \in used' PROVE Drawn(k)' = stock[k]
    <3>1. CASE k \in used
      BY <1>2, <1>6, <1>7, <3>1 DEF PairInv, MemoryInv
    <3>2. CASE k \notin used
      <4>1. k = b /\ a = Available
        BY <1>4, <2>1, <3>2
      <4>. QED  BY <1>2, <1>3, <1>7, <4>1
    <3>. QED  BY <3>1, <3>2
  <2>2. ASSUME NEW k \in BatchIds, Ahead(k)', got'[1][k] > 0 PROVE k \in used' \/ kept'.batch = k
    <3>1. CASE row = 1 /\ k = b
      BY <1>2, <1>4, <1>5, <2>2, <3>1
    <3>2. CASE row = 1 /\ k # b
      <4>1. k \in used
        BY <1>3, <1>5, <2>2, <3>2 DEF PairInv, MemoryInv, Ahead
      <4>. QED  BY <1>4, <4>1
    <3>3. CASE row = 2
      <4>1. b + 1 <= k
        BY <1>1, <2>2, <3>3 DEF Ahead
      <4>2. Ahead(k) /\ kept.batch # k
        BY <1>2, <1>3, <1>5, <1>6, <3>3, <4>1 DEF Ahead, b
      <4>3. k \in used
        BY <1>5, <2>2, <3>3, <4>2 DEF PairInv, MemoryInv
      <4>. QED  BY <1>4, <4>3
    <3>. QED  BY <1>2, <3>1, <3>2, <3>3
  <2>3. ASSUME NEW k \in BatchIds, Ahead(k)', kept'.batch = k
        PROVE  /\ kept'.left = stock[k] - got'[1][k]
               /\ \A j \in BatchIds : j < k /\ Ahead(j)' => stock[j] = 0 \/ j \in used'
    <3>1. CASE row = 1
      <4>1. k = b /\ kept'.left = stock[b] - a
        BY <1>3, <1>4, <1>5, <2>3, <3>1
      <4>2. \A j \in BatchIds : j < b => stock[j] = 0 \/ j \in used
        BY <1>2, <3>1 DEF PairInv, FirstInv, b
      <4>. QED  BY <1>4, <1>5, <3>1, <4>1, <4>2
    <3>2. CASE row = 2
      <4>1. b + 1 <= k
        BY <1>1, <2>3, <3>2 DEF Ahead
      <4>. QED  BY <1>2, <1>3, <1>4, <1>5, <1>6, <2>3, <4>1
    <3>. QED  BY <1>2, <3>1, <3>2
  <2>. QED  BY <1>1, <2>1, <2>2, <2>3 DEF MemoryInv
<1>10. FirstInv'
  <2>. SUFFICES ASSUME row = 1 PROVE /\ kept'.batch # 0 => Full(1)'
                                     /\ ~Full(1)' => \A j \in BatchIds : j < b + 1 => stock[j] = 0 \/ j \in used'
    BY <1>1 DEF FirstInv
  <2>1. Available = stock[b] /\ kept.batch = 0
    BY <1>2, <1>3
  <2>2. kept'.batch # 0 => Full(1)'
    BY <1>2, <1>4, <2>1
  <2>3. ASSUME ~Full(1)', NEW j \in BatchIds, j < b + 1 PROVE stock[j] = 0 \/ j \in used'
    <3>1. CASE j = b
      BY <1>2, <1>4, <2>1, <2>3, <3>1
    <3>2. CASE j # b
      <4>1. j < b
        BY <1>2, <1>5, <2>3, <3>2
      <4>. QED  BY <1>2, <1>4, <4>1 DEF PairInv, FirstInv, b
    <3>. QED  BY <3>1, <3>2
  <2>. QED  BY <2>2, <2>3
<1>. QED  BY <1>8, <1>9, <1>10 DEF PairInv

\* A row that has gone past a batch has no more of it to come.
LEMMA SkipKeepsShare ==
    ASSUME ShapeInv, ShareInv, Batches!Skip
    PROVE  ShareInv'
<1>1. /\ UNCHANGED <<rows, stock, row, got, used, kept, verdict>> /\ batch' = batch + 1
      /\ row \in RowIds /\ batch \in BatchIds /\ verdict = "open"
  BY DEF Batches!Skip, Batches!input, Batches!Open, ShapeInv, InputInv, PlaceInv, RowIds, BatchIds
<1>2. stock[batch] = 0 \/ Full(row) \/ batch \in used
  <2>1. \A i \in RowIds : Batches!Given(i) \in Nat /\ Batches!Wanted(i) \in Nat
    BY GivenIsNat, WantedIsNat DEF ShapeInv
  <2>2. Batches!Given(row) <= Batches!Wanted(row)
    BY <1>1 DEF ShapeInv, WithinInv
  <2>. QED  BY <1>1, <2>1, <2>2 DEF Batches!Skip, Batches!Skipped, Full
<1>3. /\ RowIds' = RowIds /\ BatchIds' = BatchIds /\ batch \in Nat \ {0}
      /\ \A k \in BatchIds : k \in Nat \ {0} /\ stock[k] \in Nat
      /\ \A i \in RowIds, k \in BatchIds : got[i][k] \in Nat
      /\ \A i \in RowIds : Full(i)' <=> Full(i)
  <2>1. \A i \in RowIds : Full(i)' <=> Full(i)
    BY <1>1, GivenIsSum DEF Full, Batches!Wanted
  <2>2. \A k \in BatchIds : k \in Nat \ {0} /\ stock[k] \in Nat
    BY DEF ShapeInv, InputInv, BatchIds
  <2>3. \A i \in RowIds, k \in BatchIds : got[i][k] \in Nat
    BY DEF ShapeInv, PlaceInv
  <2>4. RowIds' = RowIds /\ BatchIds' = BatchIds
    BY <1>1 DEF RowIds, BatchIds
  <2>. QED  BY <1>1, <2>1, <2>2, <2>3, <2>4
<1>4. (Batches!Units)' => Batches!Units
  BY <1>1 DEF Batches!Units
<1>5. ASSUME Batches!Units, Len(rows) = 1 PROVE SingleInv'
  <2>1. row = 1 /\ 1 \in RowIds /\ SingleInv
    BY <1>1, <1>5 DEF RowIds, ShareInv
  <2>2. got[1][batch] = stock[batch] \/ Full(1)
    BY <1>1, <1>2, <1>3, <2>1 DEF SingleInv
  <2>3. \A k \in BatchIds : batch + 1 > k => k = batch \/ batch > k
    BY <1>3
  <2>4. Full(1)' <=> Full(1)
    BY <1>3, <2>1
  <2>. QED  BY <1>1, <1>3, <2>1, <2>2, <2>3, <2>4 DEF SingleInv
<1>6. ASSUME Batches!Units, Len(rows) = 2 PROVE PairInv'
  <2>1. row \in {1, 2} /\ 1 \in RowIds /\ 2 \in RowIds /\ PairInv
    BY <1>1, <1>6 DEF RowIds, ShareInv
  <2>2. (Full(1)' <=> Full(1)) /\ (Full(2)' <=> Full(2))
    BY <1>3, <2>1
  <2>3. \A k \in BatchIds : (batch + 1 > k => k = batch \/ batch > k) /\ (k < batch + 1 => k = batch \/ k < batch)
    BY <1>3
  <2>4. /\ \A k : Drawn(k)' = Drawn(k)
        /\ \A k \in BatchIds : Ahead(k)' => Ahead(k)
    <3>1. \A k : Drawn(k)' = Drawn(k)
      BY <1>1 DEF Drawn
    <3>2. \A k \in BatchIds : batch + 1 <= k => batch <= k
      BY <1>3
    <3>3. ASSUME NEW k \in BatchIds PROVE Ahead(k)' => Ahead(k)
      BY <1>1, <3>2 DEF Ahead
    <3>. QED  BY <3>1, <3>3
  <2>5. row = 1 => got[1][batch] = stock[batch] \/ Full(1)
    <3>. SUFFICES ASSUME row = 1, ~Full(1) PROVE got[1][batch] = stock[batch]
      OBVIOUS
    <3>1. got[2][batch] = 0
      BY <1>1, <2>1 DEF ShapeInv, AheadInv
    <3>2. Drawn(batch) = got[1][batch] /\ Drawn(batch) <= stock[batch]
      BY <1>1, <1>3, <2>1, <3>1 DEF Drawn, PairInv, ThroughInv
    <3>3. Drawn(batch) = stock[batch]
      BY <1>1, <1>2, <1>3, <2>1, <3>2 DEF PairInv, MemoryInv
    <3>. QED  BY <3>2, <3>3
  <2>6. row = 2 => Drawn(batch) = stock[batch] \/ Full(2)
    <3>. SUFFICES ASSUME row = 2, ~Full(2) PROVE Drawn(batch) = stock[batch]
      OBVIOUS
    <3>1. Drawn(batch) \in Nat /\ Drawn(batch) <= stock[batch]
      BY <1>1, <1>3, <2>1 DEF Drawn, PairInv, ThroughInv
    <3>. QED  BY <1>1, <1>2, <1>3, <2>1, <3>1 DEF PairInv, MemoryInv
  <2>7. ThroughInv'
    BY <1>1, <1>3, <2>1, <2>2, <2>3, <2>4, <2>5, <2>6 DEF PairInv, ThroughInv
  <2>8. MemoryInv'
    BY <1>1, <1>3, <2>1, <2>4 DEF PairInv, MemoryInv
  <2>9. FirstInv'
    BY <1>1, <1>2, <1>3, <2>1, <2>2, <2>3 DEF PairInv, FirstInv
  <2>. QED  BY <2>7, <2>8, <2>9 DEF PairInv
<1>. QED  BY <1>1, <1>4, <1>5, <1>6 DEF ShareInv

LEMMA NextRowKeepsShare ==
    ASSUME ShapeInv, ShareInv, Batches!NextRow
    PROVE  ShareInv'
<1>1. /\ UNCHANGED <<rows, stock, got, used, kept>> /\ row' = row + 1 /\ batch' = 1
      /\ row \in RowIds /\ \A k \in BatchIds : batch > k
  BY DEF Batches!NextRow, Batches!input, ShapeInv, InputInv, PlaceInv, RowIds, BatchIds
<1>2. /\ RowIds' = RowIds /\ BatchIds' = BatchIds
      /\ \A k \in BatchIds : k \in Nat \ {0}
      /\ \A i \in RowIds : Full(i)' <=> Full(i)
  <2>1. \A i \in RowIds : Full(i)' <=> Full(i)
    BY <1>1, GivenIsSum DEF Full, Batches!Wanted
  <2>. QED  BY <1>1, <2>1 DEF ShapeInv, InputInv, RowIds, BatchIds
<1>3. (Batches!Units)' => Batches!Units
  BY <1>1 DEF Batches!Units
<1>4. ASSUME Batches!Units, Len(rows) = 1 PROVE SingleInv'
  <2>1. row = 1 /\ 1 \in RowIds /\ SingleInv
    BY <1>1, <1>4 DEF RowIds, ShareInv
  <2>2. verdict' = "split" => Full(1)
    <3>1. Batches!Given(1) \in Nat /\ Batches!Given(1) <= Batches!Wanted(1) /\ Batches!Wanted(1) = rows[1].qty
          /\ rows[1].qty \in Nat
      BY <1>4, <2>1, GivenIsNat DEF ShapeInv, InputInv, WithinInv, Batches!Units, Batches!Wanted, RowIds
    <3>2. verdict' = "split" => ~(Batches!Given(1) < rows[1].qty)
      BY <1>4, <2>1 DEF Batches!NextRow, Batches!Single
    <3>. QED  BY <3>1, <3>2 DEF Full
  <2>3. Full(1)' <=> Full(1)
    BY <1>2, <2>1
  <2>4. row' > 1
    BY <1>1, <2>1
  <2>. QED  BY <1>1, <1>2, <2>1, <2>2, <2>3, <2>4 DEF SingleInv
<1>5. ASSUME Batches!Units, Len(rows) = 2 PROVE PairInv'
  <2>1. row \in {1, 2} /\ 1 \in RowIds /\ 2 \in RowIds /\ PairInv
    BY <1>1, <1>5 DEF RowIds, ShareInv
  <2>2. (Full(1)' <=> Full(1)) /\ (Full(2)' <=> Full(2))
    BY <1>2, <2>1
  <2>3. \A k : Drawn(k)' = Drawn(k)
    BY <1>1 DEF Drawn
  <2>4. \A k \in BatchIds : Ahead(k)' => Ahead(k)
    BY <1>1, <2>1 DEF Ahead
  <2>5. verdict' = "split" => row' > 2
    BY <1>1, <1>5, <2>1 DEF Batches!NextRow, Batches!Single
  <2>6. \A k \in BatchIds : ~(1 > k)
    BY <1>2
  <2>7. ThroughInv'
    <3>1. \A k \in BatchIds : got[1][k] = stock[k] \/ Full(1)
      BY <1>1, <2>1 DEF PairInv, ThroughInv
    <3>2. row' > 2 => \A k \in BatchIds : Drawn(k) = stock[k] \/ Full(2)
      BY <1>1, <2>1 DEF PairInv, ThroughInv
    <3>. QED  BY <1>1, <1>2, <2>1, <2>2, <2>3, <2>5, <2>6, <3>1, <3>2 DEF PairInv, ThroughInv
  <2>8. MemoryInv'
    BY <1>1, <1>2, <2>1, <2>3, <2>4 DEF PairInv, MemoryInv
  <2>9. FirstInv'
    BY <1>1, <2>1 DEF FirstInv
  <2>. QED  BY <2>7, <2>8, <2>9 DEF PairInv
<1>. QED  BY <1>1, <1>3, <1>4, <1>5 DEF ShareInv

BatchInv == ShapeInv /\ ShareInv

LEMMA BatchesKeep == BatchInv /\ [Batches!Next]_(Batches!vars) => BatchInv'
<1>. SUFFICES ASSUME ShapeInv, ShareInv, [Batches!Next]_(Batches!vars) PROVE ShapeInv' /\ ShareInv'
  BY DEF BatchInv
<1>1. CASE Batches!Give
  <2>1. ShapeInv'
    BY <1>1, GiveKeepsShape
  <2>2. UNCHANGED rows
    BY <1>1 DEF Batches!Give, Batches!input
  <2>3. ASSUME Batches!Units, Len(rows) = 1 PROVE SingleInv'
    BY <1>1, <2>3, GiveKeepsSingle DEF ShareInv
  <2>4. ASSUME Batches!Units, Len(rows) = 2 PROVE PairInv'
    BY <1>1, <2>4, GiveKeepsPair DEF ShareInv
  <2>. QED  BY <2>1, <2>2, <2>3, <2>4 DEF ShareInv, Batches!Units
<1>2. CASE Batches!Skip
  <2>1. UNCHANGED <<rows, stock, got, used, kept>> /\ row' = row /\ batch' = batch + 1 /\ batch <= Len(stock)
    BY <1>2 DEF Batches!Skip, Batches!input, Batches!Open
  <2>. QED  BY <1>2, <2>1, RestKeepsShape, SkipKeepsShare
<1>3. CASE Batches!NextRow
  <2>1. /\ UNCHANGED <<rows, stock, got, used, kept>> /\ row' = row + 1 /\ batch' = 1
        /\ row <= Len(rows) /\ batch > Len(stock)
    BY <1>3 DEF Batches!NextRow, Batches!input
  <2>. QED  BY <1>3, <2>1, RestKeepsShape, NextRowKeepsShare
<1>4. CASE UNCHANGED Batches!vars
  <2>1. UNCHANGED <<rows, stock, row, batch, got, used, kept, verdict>>
    BY <1>4 DEF Batches!vars
  <2>2. ShapeInv'
    BY <2>1, RestKeepsShape
  <2>3. \A i : Full(i)' <=> Full(i)
    BY <2>1, GivenIsSum DEF Full, Batches!Wanted
  <2>4. ShareInv'
    BY <2>1, <2>3 DEF ShareInv, Batches!Units, SingleInv, PairInv, ThroughInv, MemoryInv, FirstInv, Drawn, Ahead, BatchIds
  <2>. QED  BY <2>2, <2>4
<1>. QED  BY <1>1, <1>2, <1>3, <1>4 DEF Batches!Next

LEMMA TwiceIsNothing == \A n \in Int : n = n + n => n = 0
OBVIOUS

LEMMA IntSumOfNothing ==
    ASSUME NEW D, IsFiniteSet(D), NEW f \in [D -> Int], \A d \in D : f[d] = 0
    PROVE  Sum(f) = 0
<1>1. \A d \in D : f[d] = f[d] + f[d]
  OBVIOUS
<1>2. Sum(f) \in Int /\ Sum(f) = Sum(f) + Sum(f)
  BY <1>1, SumIsInt, IntSumAdds
<1>. QED  BY <1>2, TwiceIsNothing, Zenon

LEMMA SumOfNothing ==
    ASSUME NEW D, IsFiniteSet(D), NEW f \in [D -> Nat], \A d \in D : f[d] = 0
    PROVE  Sum(f) = 0
<1>1. f \in [D -> Int]
  OBVIOUS
<1>. QED  BY <1>1, IntSumOfNothing

LEMMA InitBatches == DocumentsAssumption /\ Batches!Init => BatchInv
<1>. SUFFICES ASSUME DocumentsAssumption, Batches!Init PROVE BatchInv
  OBVIOUS
<1>1. MaxQty \in Nat /\ Factors \subseteq Nat \ {0} /\ MaxRows \in Nat /\ MaxBatches \in Nat
  BY DEF DocumentsAssumption, Batches!BoundAssumption
<1>2. PICK n \in 1..MaxRows : rows \in [1..n -> Batches!Row]
  BY Zenon DEF Batches!Init, Batches!Rows
<1>3. PICK m \in 0..MaxBatches : stock \in [1..m -> 0..MaxQty]
  BY Zenon DEF Batches!Init, Batches!Read
<1>4. n \in Nat /\ Len(rows) = n /\ n # 0
  BY <1>1, <1>2
<1>5. m \in Nat /\ Len(stock) = m
  BY <1>1, <1>3
<1>6. InputInv
  <2>1. ASSUME NEW i \in 1..n PROVE rows[i].qty \in Nat /\ rows[i].factor \in Nat \ {0}
    <3>1. rows[i] \in [qty : 1..MaxQty, factor : Factors]
      BY <1>2 DEF Batches!Row
    <3>2. rows[i].qty \in 1..MaxQty /\ rows[i].factor \in Factors
      BY <3>1
    <3>3. rows[i].factor \in Nat \ {0}
      BY <1>1, <3>2, Zenon
    <3>. QED  BY <1>1, <3>2, <3>3
  <2>2. \A k \in 1..m : stock[k] \in Nat
    BY <1>1, <1>3
  <2>. QED  BY <1>4, <1>5, <2>1, <2>2 DEF InputInv, RowIds, BatchIds
<1>7. /\ row = 1 /\ batch = 1 /\ used = {} /\ kept.batch = 0 /\ kept.left = 0 /\ verdict # "split"
      /\ got = [i \in RowIds |-> [k \in BatchIds |-> 0]]
  BY DEF Batches!Init, Batches!NoBatch, RowIds, BatchIds
<1>8. PlaceInv
  BY <1>4, <1>5, <1>7 DEF PlaceInv
<1>9. \A i \in RowIds, k \in BatchIds : got[i][k] = 0
  BY <1>7
<1>10. WithinInv
  <2>. SUFFICES ASSUME NEW i \in RowIds PROVE Batches!Given(i) <= Batches!Wanted(i)
    BY DEF WithinInv
  <2>1. got[i] \in [BatchIds -> Nat] /\ \A k \in BatchIds : got[i][k] = 0
    BY <1>7, <1>9
  <2>2. Sum(got[i]) = 0
    BY <1>6, <2>1, RowsAreFinite, SumOfNothing
  <2>. QED  BY <1>6, <2>2, GivenIsSum, WantedIsNat
<1>11. ShapeInv
  BY <1>6, <1>8, <1>9, <1>10 DEF ShapeInv, AheadInv
<1>12. \A k \in BatchIds : k \in Nat \ {0} /\ stock[k] \in Nat
  BY <1>6 DEF InputInv, BatchIds
<1>13. Len(rows) = 1 => SingleInv
  <2>. SUFFICES ASSUME Len(rows) = 1 PROVE SingleInv
    OBVIOUS
  <2>1. 1 \in RowIds
    BY DEF RowIds
  <2>. QED  BY <1>7, <1>9, <1>12, <2>1 DEF SingleInv
<1>14. Len(rows) = 2 => PairInv
  <2>. SUFFICES ASSUME Len(rows) = 2 PROVE PairInv
    OBVIOUS
  <2>1. \A k \in BatchIds : got[1][k] = 0 /\ got[2][k] = 0
    BY <1>9 DEF RowIds
  <2>. QED  BY <1>7, <1>12, <2>1 DEF PairInv, ThroughInv, MemoryInv, FirstInv, Drawn
<1>. QED  BY <1>11, <1>13, <1>14 DEF BatchInv, ShareInv

\* What one or two rows in the stock unit got in the end.
LEMMA InvFitsRows == BatchInv => Batches!RowsFit
<1>. SUFFICES ASSUME ShapeInv, ShareInv PROVE Batches!RowsFit
  BY DEF BatchInv
<1>1. \A i \in RowIds : /\ Batches!Given(i) \in Nat /\ Batches!Wanted(i) \in Nat
                        /\ Batches!Given(i) <= Batches!Wanted(i) /\ Batches!Given(i) = Sum(got[i])
                        /\ got[i] \in [BatchIds -> Nat]
  BY GivenIsNat, WantedIsNat, GivenIsSum DEF ShapeInv, WithinInv, PlaceInv
<1>. DEFINE held == [k \in BatchIds |-> stock[k]]
<1>3. held \in [BatchIds -> Nat] /\ \A k \in BatchIds : held[k] = stock[k] /\ stock[k] \in Nat
  BY DEF ShapeInv, InputInv
<1>4. Batches!InStock = Sum(held) /\ Sum(held) \in Nat
  <2>1. Batches!InStock = Sum(held)
    BY DEF Batches!InStock, Sum, BatchIds
  <2>. QED  BY <1>3, <2>1, RowsAreFinite, SumIsNat DEF ShapeInv
<1>. HIDE DEF held
<1>5. ASSUME Batches!Units, Len(rows) = 1
      PROVE  /\ \A k \in BatchIds : Batches!Drawn(k) <= stock[k]
             /\ verdict = "split" => Batches!Total = Batches!Asked /\ Batches!Asked <= Batches!InStock
             /\ Batches!Asked \in Nat
  <2>1. SingleInv /\ RowIds = {1} /\ RowIds = 1..1 /\ IsFiniteSet(RowIds) /\ IsFiniteSet(BatchIds)
    BY <1>5, RowsAreFinite DEF ShareInv, RowIds, ShapeInv
  <2>2. ASSUME NEW k \in BatchIds PROVE Batches!Drawn(k) = got[1][k]
    <3>. DEFINE f == [i \in RowIds |-> got[i][k]]
    <3>1. Batches!Drawn(k) = Sum(f)
      BY DEF Batches!Drawn, Sum, RowIds
    <3>2. f \in [RowIds -> Nat] /\ 1 \in RowIds /\ f[1] = got[1][k] /\ RowIds \ {1} = {}
      BY <1>1, <2>1
    <3>. HIDE DEF f
    <3>. QED  BY <2>1, <3>1, <3>2, SumOfOne
  <2>3. Batches!Total = Batches!Given(1) /\ Batches!Asked = Batches!Wanted(1)
    <3>. DEFINE f == [i \in RowIds |-> Batches!Given(i)]
                g == [i \in RowIds |-> Batches!Wanted(i)]
    <3>1. Batches!Total = Sum(f) /\ Batches!Asked = Sum(g)
      BY DEF Batches!Total, Batches!Asked, Sum, RowIds
    <3>2. /\ f \in [RowIds -> Nat] /\ g \in [RowIds -> Nat] /\ 1 \in RowIds
          /\ f[1] = Batches!Given(1) /\ g[1] = Batches!Wanted(1) /\ RowIds \ {1} = {}
      BY <1>1, <2>1
    <3>. HIDE DEF f, g
    <3>. QED  BY <2>1, <3>1, <3>2, SumOfOne
  <2>4. \A k \in BatchIds : got[1][k] <= held[k]
    BY <1>3, <2>1 DEF SingleInv
  <2>5. Sum(got[1]) <= Sum(held)
    BY <1>1, <1>3, <2>1, <2>4, SumGrows
  <2>. QED  BY <1>1, <1>4, <2>1, <2>2, <2>3, <2>5 DEF SingleInv, Full
<1>6. ASSUME Batches!Units, Len(rows) = 2
      PROVE  /\ \A k \in BatchIds : Batches!Drawn(k) <= stock[k]
             /\ verdict = "split" => \/ Batches!Total = Batches!Asked /\ Batches!Asked <= Batches!InStock
                                     \/ Batches!Total = Batches!InStock /\ Batches!InStock <= Batches!Asked
             /\ Batches!Asked \in Nat
  <2>1. PairInv /\ 1 \in RowIds /\ 2 \in RowIds /\ RowIds = 1..2 /\ IsFiniteSet(BatchIds)
    BY <1>6, RowsAreFinite DEF ShareInv, RowIds, ShapeInv
  <2>2. ASSUME NEW k \in BatchIds PROVE Batches!Drawn(k) = Drawn(k)
    <3>. DEFINE f == [i \in RowIds |-> got[i][k]]
    <3>1. Batches!Drawn(k) = Sum(f)
      BY DEF Batches!Drawn, Sum, RowIds
    <3>2. f \in [1..2 -> Nat] /\ f[1] = got[1][k] /\ f[2] = got[2][k]
      BY <1>1, <2>1
    <3>. HIDE DEF f
    <3>. QED  BY <3>1, <3>2, SumOfTwo DEF Drawn
  <2>3. Batches!Total = Batches!Given(1) + Batches!Given(2) /\ Batches!Asked = Batches!Wanted(1) + Batches!Wanted(2)
    <3>. DEFINE f == [i \in RowIds |-> Batches!Given(i)]
                g == [i \in RowIds |-> Batches!Wanted(i)]
    <3>1. Batches!Total = Sum(f) /\ Batches!Asked = Sum(g)
      BY DEF Batches!Total, Batches!Asked, Sum, RowIds
    <3>2. /\ f \in [1..2 -> Nat] /\ g \in [1..2 -> Nat]
          /\ f[1] = Batches!Given(1) /\ g[1] = Batches!Wanted(1)
          /\ f[2] = Batches!Given(2) /\ g[2] = Batches!Wanted(2)
      BY <1>1, <2>1
    <3>. HIDE DEF f, g
    <3>. QED  BY <3>1, <3>2, SumOfTwo
  <2>. DEFINE both == [k \in BatchIds |-> Drawn(k)]
  <2>4. both \in [BatchIds -> Nat] /\ \A k \in BatchIds : both[k] = got[1][k] + got[2][k] /\ both[k] <= held[k]
    <3>1. \A k \in BatchIds : got[1][k] \in Nat /\ got[2][k] \in Nat
      BY <1>1, <2>1
    <3>. QED  BY <1>3, <2>1, <3>1 DEF Drawn, PairInv, ThroughInv
  <2>5. \A k \in BatchIds : both[k] = Drawn(k)
    OBVIOUS
  <2>. HIDE DEF both
  <2>6. Sum(both) = Batches!Total
    BY <1>1, <2>1, <2>3, <2>4, SumAdds
  <2>7. Sum(both) <= Sum(held)
    BY <1>3, <2>1, <2>4, SumGrows
  <2>8. /\ Batches!Total \in Nat /\ Batches!Asked \in Nat /\ Batches!Total <= Batches!Asked
        /\ Full(1) /\ Full(2) => Batches!Total = Batches!Asked
    BY <1>1, <2>1, <2>3 DEF Full
  <2>9. ASSUME verdict = "split", ~(Full(1) /\ Full(2)) PROVE Batches!Total = Batches!InStock
    <3>1. row > 2 /\ row > 1
      BY <2>1, <2>9 DEF PairInv, ThroughInv, ShapeInv, PlaceInv, InputInv
    <3>2. \A k \in BatchIds : Drawn(k) = stock[k]
      <4>. SUFFICES ASSUME NEW k \in BatchIds, Drawn(k) # stock[k] PROVE FALSE
        OBVIOUS
      <4>1. Full(2) /\ got[1][k] = stock[k]
        BY <2>1, <2>9, <3>1 DEF PairInv, ThroughInv
      <4>2. got[1][k] \in Nat /\ got[2][k] \in Nat /\ Drawn(k) <= stock[k] /\ stock[k] \in Nat
        BY <1>1, <1>3, <2>1 DEF PairInv, ThroughInv
      <4>. QED  BY <4>1, <4>2 DEF Drawn
    <3>3. both = held
      BY <1>3, <2>4, <2>5, <3>2
    <3>. QED  BY <1>4, <2>6, <3>3
  <2>10. \A k \in BatchIds : Batches!Drawn(k) <= stock[k]
    BY <2>1, <2>2 DEF PairInv, ThroughInv
  <2>. QED  BY <1>4, <2>6, <2>7, <2>8, <2>9, <2>10
<1>7. Len(rows) <= 2 => Len(rows) = 1 \/ Len(rows) = 2
  <2>1. Len(rows) \in Nat \ {0}
    BY DEF ShapeInv, InputInv
  <2>2. \A n \in Nat \ {0} : n <= 2 => n = 1 \/ n = 2
    OBVIOUS
  <2>. QED  BY <2>1, <2>2, Zenon
<1>8. \A i \in RowIds : Batches!Given(i) <= Batches!Wanted(i)
  BY <1>1
<1>9. ASSUME Batches!Units, Len(rows) <= 2
      PROVE  /\ \A k \in BatchIds : Batches!Drawn(k) <= stock[k]
             /\ verdict = "split" => Batches!Total = Batches!Smaller(Batches!Asked, Batches!InStock)
             /\ verdict = "split" /\ Batches!Single => Batches!Total = Batches!Asked
  <2>1. CASE Len(rows) = 1
    BY <1>4, <1>5, <1>9, <2>1 DEF Batches!Smaller
  <2>2. CASE Len(rows) = 2
    BY <1>4, <1>6, <1>9, <2>2 DEF Batches!Smaller, Batches!Single
  <2>. QED  BY <1>7, <1>9, <2>1, <2>2
<1>. QED  BY <1>8, <1>9 DEF Batches!RowsFit, RowIds, BatchIds

(***************************************************************************)
(* Overtime.  A stay that overlaps its shift is within a day, from the     *)
(* earlier start to the later end, so nothing is lost modulo a day; what a *)
(* grace adds is at most the grace, also where it runs over midnight.      *)
(***************************************************************************)
From(c, in, start, late) == IF in < start \/ (late # -1 /\ in <= (start + late) % c) THEN start ELSE in
To(c, out, end, early) == IF out > end \/ (early # -1 /\ out >= (end - early) % c) THEN end ELSE out
Above(n) == IF n > 0 THEN n ELSE 0

\* A stay is counted from the shift's start, if it was there, and otherwise at
\* most the grace too early; and to the shift's end likewise.
LEMMA CountedFrom ==
    ASSUME NEW c \in Nat \ {0}, NEW in \in 0..c - 1, NEW start \in 0..c - 1, NEW late \in -1..c - 1
    PROVE  /\ From(c, in, start, late) \in {start, in} /\ start <= From(c, in, start, late)
           /\ in < start => From(c, in, start, late) = start
           /\ in <= From(c, in, start, late) + Above(late)
<1>. DEFINE x == start + late
<1>1. x \in Int /\ -c <= x /\ x < 2 * c
  OBVIOUS
<1>. HIDE DEF x
<1>2. x % c = IF x < 0 THEN x + c ELSE IF x < c THEN x ELSE x - c
  <2>1. /\ 0 <= x /\ x < c => x % c = x
        /\ c <= x /\ x < 2 * c => x % c = x - c
        /\ x < 0 /\ -c <= x => x % c = x + c
    BY <1>1
  <2>. QED  BY <1>1, <2>1
<1>. QED  BY <1>2 DEF From, Above, x

LEMMA CountedTo ==
    ASSUME NEW c \in Nat \ {0}, NEW out \in 0..c - 1, NEW end \in 0..c - 1, NEW early \in -1..c - 1
    PROVE  /\ To(c, out, end, early) \in {end, out} /\ To(c, out, end, early) <= end
           /\ out > end => To(c, out, end, early) = end
           /\ To(c, out, end, early) <= out + Above(early)
<1>. DEFINE x == end - early
<1>1. x \in Int /\ -c <= x /\ x < 2 * c
  OBVIOUS
<1>. HIDE DEF x
<1>2. x % c = IF x < 0 THEN x + c ELSE IF x < c THEN x ELSE x - c
  <2>1. /\ 0 <= x /\ x < c => x % c = x
        /\ c <= x /\ x < 2 * c => x % c = x - c
        /\ x < 0 /\ -c <= x => x % c = x + c
    BY <1>1
  <2>. QED  BY <1>1, <2>1
<1>. QED  BY <1>2 DEF To, Above, x

Span(s, e) == IF e > s THEN e - s ELSE s - e

\* What a stay that overlaps its shift is split into: all of it, with the graces
\* at most, and all within a day.
LEMMA StayIsAllOfIt ==
    ASSUME NEW c \in Nat \ {0}, NEW in \in 0..c - 1, NEW out \in 0..c - 1,
           NEW start \in 0..c - 1, NEW end \in 0..c - 1, NEW late \in -1..c - 1, NEW early \in -1..c - 1,
           in < out, start < end, in < end, start < out,
           NEW working, working = Span(From(c, in, start, late), To(c, out, end, early)),
           NEW excess, excess = Above(start - in) + Above(out - end)
    PROVE  /\ working \in Nat /\ excess \in Nat /\ working + excess < c
           /\ working + excess >= out - in
           /\ working + excess <= out - in + Above(late) + Above(early)
<1>. DEFINE s == From(c, in, start, late)
            e == To(c, out, end, early)
<1>1. s \in {start, in} /\ start <= s /\ (in < start => s = start) /\ in <= s + Above(late)
  BY CountedFrom
<1>2. e \in {end, out} /\ e <= end /\ (out > end => e = end) /\ e <= out + Above(early)
  BY CountedTo
<1>. HIDE DEF s, e
<1>3. Above(late) \in Nat /\ Above(early) \in Nat /\ Above(start - in) \in Nat /\ Above(out - end) \in Nat
  BY DEF Above
<1>4. working = e - s /\ s < e
  BY <1>1, <1>2 DEF Span, s, e
<1>. QED  BY <1>1, <1>2, <1>3, <1>4 DEF Above

\* Its terms are those of the attendance.
Shares(a) ==
    /\ Time!Working = Span(From(Clock, a.in, a.start, a.late), To(Clock, a.out, a.end, a.early))
    /\ Time!Excess = Above(a.start - a.in) + Above(a.out - a.end)
    /\ Time!Eligible = IF a.holiday THEN Time!Working ELSE Above(Time!Working - a.threshold)

LEMMA AttendanceShares == Shares(attendance)
BY Zenon DEF Shares, Span, From, To, Above, Time!Working, Time!Excess, Time!Eligible, Time!Positive,
    Time!ShiftStart, Time!ShiftEnd, Time!NoGrace

Split(a) ==
    IF ~a.present THEN Time!Hours(0, 0, 0)
    ELSE IF a.approval THEN Time!Hours(Time!Working, 0, (Time!Eligible + Time!Excess) % Clock)
    ELSE Time!Hours(Time!Working, Time!Eligible, Time!Excess)

TimeInv ==
    /\ attendance \in Time!Attendance /\ Time!Legal(attendance)
    /\ hours # Time!Unset => hours = Split(attendance)

LEMMA InvSplitsStay == DocumentsAssumption /\ TimeInv => Time!StayIsSplit
<1>. SUFFICES ASSUME DocumentsAssumption, TimeInv,
                     NEW a, a = attendance, hours # Time!Unset, a.present, ~a.night,
                     a.in < a.end, a.start < a.out, a.start < a.end
              PROVE  /\ hours.working + Time!Excess >= a.out - a.in
                     /\ hours.working + Time!Excess <= a.out - a.in + Time!Allowed(a.late) + Time!Allowed(a.early)
                     /\ hours.overtime + hours.excess = Time!Eligible + Time!Excess
  BY Zenon DEF Time!StayIsSplit
<1>1. /\ Clock \in Nat \ {0} /\ a.in \in 0..Clock - 1 /\ a.out \in 0..Clock - 1
      /\ a.start \in 0..Clock - 1 /\ a.end \in 0..Clock - 1 /\ a.threshold \in 0..Clock - 1
      /\ a.late \in -1..Clock - 1 /\ a.early \in -1..Clock - 1 /\ a.in < a.out
  <2>1. a \in Time!Attendance /\ Time!Legal(a)
    BY DEF TimeInv
  <2>2. Clock \in Nat \ {0} /\ Grace \subseteq 0..Clock - 1
    BY DEF DocumentsAssumption, Time!TimeAssumption
  <2>3. /\ a.in \in 0..Clock - 1 /\ a.out \in 0..Clock - 1 /\ a.start \in 0..Clock - 1
        /\ a.end \in 0..Clock - 1 /\ a.threshold \in 0..Clock - 1
        /\ a.late \in Grace \cup {-1} /\ a.early \in Grace \cup {-1}
    BY <2>1 DEF Time!Attendance, Time!Time, Time!NoGrace
  <2>4. ASSUME NEW g \in Grace \cup {-1} PROVE g \in -1..Clock - 1
    <3>1. CASE g \in Grace
      <4>1. g \in 0..Clock - 1
        BY <2>2, <3>1
      <4>. QED  BY <2>2, <4>1
    <3>2. CASE g = -1
      BY <2>2, <3>2
    <3>. QED  BY <3>1, <3>2
  <2>5. a.late \in -1..Clock - 1 /\ a.early \in -1..Clock - 1
    BY <2>3, <2>4, Zenon
  <2>6. a.in < a.out
    BY <2>1, Zenon DEF Time!Legal
  <2>. QED  BY <2>2, <2>3, <2>5, <2>6
<1>2. /\ Time!Working \in Nat /\ Time!Excess \in Nat /\ Time!Working + Time!Excess < Clock
      /\ Time!Working + Time!Excess >= a.out - a.in
      /\ Time!Working + Time!Excess <= a.out - a.in + Above(a.late) + Above(a.early)
  <2>1. PICK i, o, s, e, l, y, w, x :
           /\ i = a.in /\ o = a.out /\ s = a.start /\ e = a.end /\ l = a.late /\ y = a.early
           /\ w = Time!Working /\ x = Time!Excess
    OBVIOUS
  <2>2. w = Span(From(Clock, i, s, l), To(Clock, o, e, y)) /\ x = Above(s - i) + Above(o - e)
    BY <2>1, AttendanceShares DEF Shares
  <2>3. /\ Clock \in Nat \ {0} /\ i \in 0..Clock - 1 /\ o \in 0..Clock - 1
        /\ s \in 0..Clock - 1 /\ e \in 0..Clock - 1
        /\ l \in -1..Clock - 1 /\ y \in -1..Clock - 1
        /\ i < o /\ s < e /\ i < e /\ s < o
    BY <1>1, <2>1
  <2>4. /\ w \in Nat /\ x \in Nat /\ w + x < Clock /\ w + x >= o - i
        /\ w + x <= o - i + Above(l) + Above(y)
    BY ONLY <2>2, <2>3, StayIsAllOfIt
  <2>. QED  BY <2>1, <2>4
<1>3. Time!Eligible \in Nat /\ Time!Eligible <= Time!Working
  BY <1>1, <1>2, AttendanceShares DEF Shares, Above
<1>4. Above(a.late) = Time!Allowed(a.late) /\ Above(a.early) = Time!Allowed(a.early)
  BY <1>1 DEF Above, Time!Allowed, Time!NoGrace
<1>5. (Time!Eligible + Time!Excess) % Clock = Time!Eligible + Time!Excess
  BY <1>1, <1>2, <1>3
<1>6. CASE a.approval
  <2>1. hours.working = Time!Working /\ hours.overtime = 0 /\ hours.excess = (Time!Eligible + Time!Excess) % Clock
    BY <1>6 DEF TimeInv, Split, Time!Hours
  <2>. QED  BY <1>2, <1>3, <1>4, <1>5, <2>1
<1>7. CASE ~a.approval
  <2>1. hours.working = Time!Working /\ hours.overtime = Time!Eligible /\ hours.excess = Time!Excess
    BY <1>7 DEF TimeInv, Split, Time!Hours
  <2>. QED  BY <1>2, <1>3, <1>4, <2>1
<1>. QED  BY <1>6, <1>7

LEMMA InitTime == part = "time" /\ DocumentsInit => TimeInv
BY DEF DocumentsInit, Time!Init, TimeInv

LEMMA ProcessSplits == TimeInv /\ Time!Next => TimeInv'
<1>. SUFFICES ASSUME TimeInv, Time!Next PROVE TimeInv'
  OBVIOUS
<1>1. attendance' = attendance /\ hours' = Split(attendance)
  BY Zenon DEF Time!Next, Time!Process, Split
<1>2. Split(attendance)' = Split(attendance)
  BY <1>1 DEF Split, Time!Working, Time!Excess, Time!Eligible, Time!ShiftStart, Time!ShiftEnd
<1>. QED  BY <1>1, <1>2, Zenon DEF TimeInv, Time!Unset

LEMMA TimeKeeps == TimeInv /\ [Time!Next]_(Time!vars) => TimeInv'
<1>1. TimeInv /\ UNCHANGED Time!vars => TimeInv'
  <2>. SUFFICES ASSUME TimeInv, attendance' = attendance, hours' = hours PROVE TimeInv'
    BY DEF Time!vars
  <2>1. Split(attendance)' = Split(attendance)
    BY DEF Split, Time!Working, Time!Excess, Time!Eligible, Time!ShiftStart, Time!ShiftEnd
  <2>. QED  BY <2>1, Zenon DEF TimeInv, Time!Unset
<1>. QED  BY <1>1, ProcessSplits

(***************************************************************************)
(* What is divided is divided without a rest.                              *)
(***************************************************************************)
\* No row is given more than it asks for, one or two rows in the stock unit get
\* all there is for them and draw on no batch for more than it holds, of any
\* number of batches (batch_splitting); every part of a stay counts once, in a day
\* of any length, with any graces (process_overtime).
THEOREM SharesAreWhole == DocumentsSpec => []SharesFit
<1>. DEFINE I == (part = "batches" => BatchInv) /\ (part = "time" => TimeInv)
<1>1. DocumentsInit => I
  BY DocumentsAssumption, InitBatches, InitTime DEF DocumentsInit
<1>2. I /\ [DocumentsNext]_documentVars => I'
  <2>. SUFFICES ASSUME I, [DocumentsNext]_documentVars PROVE I'
    OBVIOUS
  <2>1. part' = part
    BY DEF DocumentsNext, documentVars
  <2>2. CASE part = "batches"
    <3>1. [Batches!Next]_(Batches!vars)
      BY <2>2 DEF DocumentsNext, documentVars, batchVars, Batches!vars
    <3>. QED  BY <2>1, <2>2, <3>1, BatchesKeep
  <2>3. CASE part = "time"
    <3>1. [Time!Next]_(Time!vars)
      BY <2>3 DEF DocumentsNext, documentVars, timeVars, Time!vars
    <3>. QED  BY <2>1, <2>3, <3>1, TimeKeeps
  <2>. QED  BY <2>1, <2>2, <2>3
<1>3. I => SharesFit
  BY DocumentsAssumption, InvFitsRows, InvSplitsStay DEF SharesFit
<1>. QED  BY <1>1, <1>2, <1>3, PTL DEF DocumentsSpec

(***************************************************************************)
(* Payloads.  Sums of several terms are compared term by term.             *)
(***************************************************************************)
\* A sum of products.
LEMMA Distributes == \A a, b, c \in Nat : a * b \in Nat /\ a * (b + c) = a * b + a * c
OBVIOUS

\* A multiple of a sum.
LEMMA SumScales ==
    ASSUME NEW D, IsFiniteSet(D), NEW f \in [D -> Nat], NEW c \in Nat,
           NEW h \in [D -> Nat], \A d \in D : h[d] = c * f[d]
    PROVE  Sum(h) = c * Sum(f)
<1>1. PICK F : Sums(F, f, D) /\ Sum(f) = F[D]
  BY SumIsOne
<1>2. PICK H : Sums(H, h, D) /\ Sum(h) = H[D]
  BY SumIsOne
<1>. DEFINE T == {s \in SUBSET D : F[s] \in Nat /\ H[s] = c * F[s]}
<1>3. {} \in T
  BY <1>1, <1>2, SumsTake
<1>4. ASSUME NEW s \in SUBSET D, s # {}, Less(s) \in T PROVE s \in T
  <2>1. /\ F[s] = f[Pick(s)] + F[Less(s)] /\ H[s] = h[Pick(s)] + H[Less(s)] /\ Pick(s) \in D
    BY <1>1, <1>2, <1>4, SumsTake, LessIsSmaller
  <2>2. /\ f[Pick(s)] \in Nat /\ h[Pick(s)] = c * f[Pick(s)]
        /\ F[Less(s)] \in Nat /\ H[Less(s)] = c * F[Less(s)]
    BY <1>4, <2>1
  <2>3. c * (f[Pick(s)] + F[Less(s)]) = c * f[Pick(s)] + c * F[Less(s)]
    BY <2>2, Distributes
  <2>. QED  BY <2>1, <2>2, <2>3
<1>. HIDE DEF T
<1>5. D \in T
  BY <1>3, <1>4, TakeInduction
<1>. QED  BY <1>1, <1>2, <1>5 DEF T

\* The sum of ones counts.
LEMMA SumCounts ==
    ASSUME NEW D, IsFiniteSet(D), NEW f \in [D -> Nat], \A d \in D : f[d] = 1
    PROVE  Sum(f) = Cardinality(D)
<1>1. PICK F : Sums(F, f, D) /\ Sum(f) = F[D]
  BY SumIsOne
<1>. DEFINE T == {s \in SUBSET D : F[s] = Cardinality(s)}
<1>2. {} \in T
  BY <1>1, SumsTake, FS_EmptySet
<1>3. ASSUME NEW s \in SUBSET D, s # {}, Less(s) \in T PROVE s \in T
  <2>1. /\ F[s] = f[Pick(s)] + F[Less(s)] /\ Pick(s) \in D
        /\ Cardinality(s) \in Nat /\ Cardinality(Less(s)) = Cardinality(s) - 1
    BY <1>1, <1>3, SumsTake, LessIsSmaller
  <2>2. f[Pick(s)] = 1 /\ F[Less(s)] = Cardinality(Less(s))
    BY <1>3, <2>1
  <2>. QED  BY <2>1, <2>2
<1>. HIDE DEF T
<1>4. D \in T
  BY <1>2, <1>3, TakeInduction
<1>. QED  BY <1>1, <1>4 DEF T

\* A sum over a set is one over more, of which the others are nothing.
LEMMA IntSumOfPart ==
    ASSUME NEW D, IsFiniteSet(D), NEW E \in SUBSET D, NEW f \in [D -> Int], NEW g \in [E -> Int],
           \A d \in D : f[d] = IF d \in E THEN g[d] ELSE 0
    PROVE  Sum(f) = Sum(g)
<1>. DEFINE Only(s) == [d \in D |-> IF d \in s THEN f[d] ELSE 0]
<1>1. IsFiniteSet(E)
  BY FS_Subset
<1>2. PICK G : Sums(G, g, E) /\ Sum(g) = G[E]
  BY <1>1, SumIsOne
<1>. DEFINE T == {s \in SUBSET E : Sum(Only(s)) = G[s] /\ G[s] \in Int}
<1>3. {} \in T
  <2>1. Only({}) \in [D -> Int] /\ \A d \in D : Only({})[d] = 0
    OBVIOUS
  <2>2. Sum(Only({})) = 0
    <3>. HIDE DEF Only
    <3>. QED  BY <2>1, IntSumOfNothing
  <2>. QED  BY <1>2, <2>2, SumsTake
<1>4. ASSUME NEW s \in SUBSET E, s # {}, Less(s) \in T PROVE s \in T
  <2>1. Pick(s) \in s /\ G[s] = g[Pick(s)] + G[Less(s)]
    BY <1>1, <1>2, <1>4, SumsTake, LessIsSmaller
  <2>2. Sum(Only(Less(s))) = G[Less(s)] /\ G[Less(s)] \in Int
    BY <1>4
  <2>3. Pick(s) \in D /\ Pick(s) \in E /\ g[Pick(s)] = f[Pick(s)] /\ f[Pick(s)] \in Int
    BY <2>1
  <2>4. PICK o : o = Only(Less(s))
    OBVIOUS
  <2>5. PICK p, a : p = Pick(s) /\ a = f[p]
    OBVIOUS
  <2>6. o \in [D -> Int] /\ o[p] = 0 /\ Only(s) = [o EXCEPT ![p] = a] /\ p \in D /\ a \in Int
    BY <2>1, <2>3, <2>4, <2>5 DEF Less
  <2>. HIDE DEF Only, T
  <2>7. Sum([o EXCEPT ![p] = a]) = Sum(o) + a
    <3>1. IsFiniteSet(D) /\ o \in [D -> Int] /\ p \in D /\ o[p] = 0 /\ a \in Int
      BY <2>6
    <3>. QED  BY ONLY <3>1, IntSumGains
  <2>8. Sum(Only(s)) = Sum(o) + a
    BY <2>6, <2>7, ZenonT(60)
  <2>9. Sum(Only(s)) = G[s] /\ G[s] \in Int
    BY <2>1, <2>2, <2>3, <2>4, <2>5, <2>8
  <2>. QED  BY <1>4, <2>9 DEF T
<1>5. E \in T
  <2>. HIDE DEF T
  <2>. QED  BY <1>1, <1>3, <1>4, TakeInduction
<1>6. Only(E) = f
  OBVIOUS
<1>. HIDE DEF Only
<1>. QED  BY <1>2, <1>5, <1>6

LEMMA SumOfPart ==
    ASSUME NEW D, IsFiniteSet(D), NEW E \in SUBSET D, NEW f \in [D -> Nat], NEW g \in [E -> Nat],
           \A d \in D : f[d] = IF d \in E THEN g[d] ELSE 0
    PROVE  Sum(f) = Sum(g)
<1>1. f \in [D -> Int] /\ g \in [E -> Int]
  OBVIOUS
<1>. QED  BY <1>1, IntSumOfPart

LEMMA Division ==
    ASSUME NEW n \in Nat, NEW d \in Nat \ {0}
    PROVE  n \div d \in Nat /\ d * (n \div d) <= n /\ n < d * (n \div d) + d
OBVIOUS

LEMMA RoundedIsNear ==
    ASSUME NEW n \in Nat, NEW d \in Nat \ {0}
    PROVE  /\ Payloads!Rounded(n, d) \in Nat
           /\ 2 * d * Payloads!Rounded(n, d) <= 2 * n + d /\ 2 * n < 2 * d * Payloads!Rounded(n, d) + d
<1>1. 2 * n + d \in Nat /\ 2 * d \in Nat \ {0}
  OBVIOUS
<1>2. PICK m, e : m = 2 * n + d /\ e = 2 * d
  OBVIOUS
<1>3. m \div e \in Nat /\ e * (m \div e) <= m /\ m < e * (m \div e) + e
  BY <1>1, <1>2, Division
<1>4. Payloads!Rounded(n, d) = m \div e
  BY <1>2 DEF Payloads!Rounded
<1>5. PICK r : r = Payloads!Rounded(n, d)
  OBVIOUS
<1>6. r \in Nat /\ e * r <= 2 * n + d /\ 2 * n + d < e * r + 2 * d
  BY <1>2, <1>3, <1>4, <1>5
<1>7. e * r = 2 * d * r /\ e * r \in Nat
  BY <1>2, <1>6
<1>. QED  BY <1>5, <1>6, <1>7

\* To hundredths, and of what has the VAT in it.
LEMMA RoundedHundredths ==
    ASSUME NEW n \in Nat
    PROVE  /\ Payloads!Rounded(n, 100) \in Nat
           /\ 200 * Payloads!Rounded(n, 100) <= 2 * n + 100 /\ 2 * n < 200 * Payloads!Rounded(n, 100) + 100
BY RoundedIsNear

LEMMA RoundedOutOfVat ==
    ASSUME NEW n \in Nat
    PROVE  /\ Payloads!Rounded(n, 118) \in Nat
           /\ 236 * Payloads!Rounded(n, 118) <= 2 * n + 118 /\ 2 * n < 236 * Payloads!Rounded(n, 118) + 118
BY RoundedIsNear

\* What a price for one comes to for all.
LEMMA UnitsComeTo ==
    ASSUME NEW v \in Nat, NEW q \in Nat \ {0}
    PROVE  /\ Payloads!Rounded(v, q) * q \in Nat
           /\ 2 * (Payloads!Rounded(v, q) * q) <= 2 * v + q /\ 2 * v < 2 * (Payloads!Rounded(v, q) * q) + q
<1>1. PICK r : r = Payloads!Rounded(v, q)
  OBVIOUS
<1>2. r \in Nat /\ 2 * q * r <= 2 * v + q /\ 2 * v < 2 * q * r + q
  BY <1>1, RoundedIsNear
<1>3. 2 * q * r = 2 * (r * q) /\ r * q \in Nat
  BY <1>2
<1>. QED  BY <1>1, <1>2, <1>3

\* A product, as one number.
Times(a, b) == a * b

\* Numbers for the members of a set.
Numbers(D) == [D -> Nat]

\* A multiple of f, f and g added, and both.
Scaled(c, f, D) == [x \in D |-> Times(c, f[x])]
Added(f, g, D) == [x \in D |-> f[x] + g[x]]
Mixed(a, f, b, g, D) == Added(Scaled(a, f, D), Scaled(b, g, D), D)

LEMMA TimesIsNat == \A a, b \in Nat : Times(a, b) \in Nat
BY DEF Times

LEMMA ScaledIs ==
    ASSUME NEW D, IsFiniteSet(D), NEW f \in Numbers(D), NEW c \in Nat
    PROVE  /\ Scaled(c, f, D) \in Numbers(D)
           /\ \A x \in D : Scaled(c, f, D)[x] = Times(c, f[x])
           /\ Sum(Scaled(c, f, D)) = Times(c, Sum(f))
<1>1. /\ Scaled(c, f, D) \in Numbers(D)
      /\ \A x \in D : Scaled(c, f, D)[x] = Times(c, f[x])
  BY TimesIsNat DEF Scaled, Numbers
<1>2. \A x \in D : Scaled(c, f, D)[x] = c * f[x]
  BY <1>1 DEF Times
<1>3. Sum(Scaled(c, f, D)) = c * Sum(f)
  BY <1>1, <1>2, SumScales DEF Numbers
<1>. QED  BY <1>1, <1>3 DEF Times

LEMMA AddedIs ==
    ASSUME NEW D, IsFiniteSet(D), NEW f \in Numbers(D), NEW g \in Numbers(D)
    PROVE  /\ Added(f, g, D) \in Numbers(D) /\ \A x \in D : Added(f, g, D)[x] = f[x] + g[x]
           /\ Sum(Added(f, g, D)) = Sum(f) + Sum(g)
<1>1. /\ Added(f, g, D) \in Numbers(D) /\ \A x \in D : Added(f, g, D)[x] = f[x] + g[x]
  BY DEF Added, Numbers
<1>2. Sum(Added(f, g, D)) = Sum(f) + Sum(g)
  BY <1>1, SumAdds DEF Numbers
<1>. QED  BY <1>1, <1>2

LEMMA MixedIs ==
    ASSUME NEW D, IsFiniteSet(D), NEW f \in Numbers(D), NEW g \in Numbers(D),
           NEW a \in Nat, NEW b \in Nat
    PROVE  /\ Mixed(a, f, b, g, D) \in Numbers(D)
           /\ \A x \in D : Mixed(a, f, b, g, D)[x] = Times(a, f[x]) + Times(b, g[x])
           /\ Sum(Mixed(a, f, b, g, D)) = Times(a, Sum(f)) + Times(b, Sum(g))
<1>1. PICK u, v, h : u = Scaled(a, f, D) /\ v = Scaled(b, g, D) /\ h = Added(u, v, D)
  OBVIOUS
<1>2. /\ u \in Numbers(D) /\ \A x \in D : u[x] = Times(a, f[x])
      /\ Sum(u) = Times(a, Sum(f))
  BY <1>1, ScaledIs
<1>3. /\ v \in Numbers(D) /\ \A x \in D : v[x] = Times(b, g[x])
      /\ Sum(v) = Times(b, Sum(g))
  BY <1>1, ScaledIs
<1>4. h = Mixed(a, f, b, g, D)
  BY <1>1 DEF Mixed
<1>5. /\ h \in Numbers(D) /\ \A x \in D : h[x] = u[x] + v[x]
      /\ Sum(h) = Sum(u) + Sum(v)
  BY <1>1, <1>2, <1>3, AddedIs
<1>. QED  BY <1>2, <1>3, <1>4, <1>5

\* Sums are compared term by term, multiplied by numbers and with a number added
\* for each term.
Compared(D, a, f, b, g, c, h, d, k, e, l, r) ==
    \A x \in D : a * f[x] + b * g[x] <= c * h[x] + d * k[x] + e * l[x] + r

LEMMA SumsCompareTermwise ==
    ASSUME NEW D, NEW a, NEW f, NEW b, NEW g, NEW c, NEW h, NEW d, NEW k, NEW e, NEW l, NEW r,
           Compared(D, a, f, b, g, c, h, d, k, e, l, r), IsFiniteSet(D),
           f \in Numbers(D), g \in Numbers(D), h \in Numbers(D), k \in Numbers(D), l \in Numbers(D),
           a \in Nat, b \in Nat, c \in Nat, d \in Nat, e \in Nat, r \in Nat
    PROVE  a * Sum(f) + b * Sum(g) <= c * Sum(h) + d * Sum(k) + e * Sum(l) + r * Cardinality(D)
<1>1. PICK o, lhs, cd, er, rhs :
        /\ o = [x \in D |-> 1]
        /\ lhs = Mixed(a, f, b, g, D)
        /\ cd = Mixed(c, h, d, k, D)
        /\ er = Mixed(e, l, r, o, D)
        /\ rhs = Added(cd, er, D)
  OBVIOUS
<1>2. o \in Numbers(D) /\ \A x \in D : o[x] = 1
  BY ONLY <1>1 DEF Numbers
<1>3. Sum(o) = Cardinality(D)
  BY ONLY IsFiniteSet(D), <1>2, SumCounts DEF Numbers
<1>4. l \in Numbers(D) /\ o \in Numbers(D)
  BY ONLY l \in Numbers(D), <1>2
<1>5. /\ lhs \in Numbers(D) /\ \A x \in D : lhs[x] = Times(a, f[x]) + Times(b, g[x])
      /\ Sum(lhs) = Times(a, Sum(f)) + Times(b, Sum(g))
  <2>. DEFINE m == Mixed(a, f, b, g, D)
  <2>1. /\ m \in Numbers(D) /\ \A x \in D : m[x] = Times(a, f[x]) + Times(b, g[x])
        /\ Sum(m) = Times(a, Sum(f)) + Times(b, Sum(g))
    BY ONLY IsFiniteSet(D), f \in Numbers(D), g \in Numbers(D), a \in Nat, b \in Nat, MixedIs
  <2>2. lhs = m
    BY ONLY <1>1
  <2>. QED  BY ONLY <2>1, <2>2
<1>6. /\ cd \in Numbers(D) /\ \A x \in D : cd[x] = Times(c, h[x]) + Times(d, k[x])
      /\ Sum(cd) = Times(c, Sum(h)) + Times(d, Sum(k))
  <2>. DEFINE m == Mixed(c, h, d, k, D)
  <2>1. /\ m \in Numbers(D) /\ \A x \in D : m[x] = Times(c, h[x]) + Times(d, k[x])
        /\ Sum(m) = Times(c, Sum(h)) + Times(d, Sum(k))
    BY ONLY IsFiniteSet(D), h \in Numbers(D), k \in Numbers(D), c \in Nat, d \in Nat, MixedIs
  <2>2. cd = m
    BY ONLY <1>1
  <2>. QED  BY ONLY <2>1, <2>2
<1>7. /\ er \in Numbers(D) /\ \A x \in D : er[x] = Times(e, l[x]) + Times(r, o[x])
      /\ Sum(er) = Times(e, Sum(l)) + Times(r, Sum(o))
  <2>. DEFINE m == Mixed(e, l, r, o, D)
  <2>1. /\ m \in Numbers(D) /\ \A x \in D : m[x] = Times(e, l[x]) + Times(r, o[x])
        /\ Sum(m) = Times(e, Sum(l)) + Times(r, Sum(o))
    BY ONLY IsFiniteSet(D), <1>4, e \in Nat, r \in Nat, MixedIs
  <2>2. er = m
    BY ONLY <1>1
  <2>. QED  BY ONLY <2>1, <2>2
<1>8. /\ rhs \in Numbers(D) /\ \A x \in D : rhs[x] = cd[x] + er[x]
      /\ Sum(rhs) = Sum(cd) + Sum(er)
  BY ONLY IsFiniteSet(D), <1>1, <1>6, <1>7, AddedIs
<1>10. ASSUME NEW x \in D PROVE lhs[x] <= rhs[x]
  <2>1. f[x] \in Nat /\ g[x] \in Nat /\ h[x] \in Nat /\ k[x] \in Nat /\ l[x] \in Nat
    BY DEF Numbers
  <2>2. /\ Times(a, f[x]) \in Nat /\ Times(b, g[x]) \in Nat /\ Times(c, h[x]) \in Nat
        /\ Times(d, k[x]) \in Nat /\ Times(e, l[x]) \in Nat
    BY <2>1, TimesIsNat
  <2>3. Times(r, o[x]) = r
    BY <1>2 DEF Times
  <2>4. /\ lhs[x] = Times(a, f[x]) + Times(b, g[x])
        /\ rhs[x] = (Times(c, h[x]) + Times(d, k[x])) + (Times(e, l[x]) + r)
    BY ONLY x \in D, <1>5, <1>6, <1>7, <1>8, <2>3
  <2>5. Times(a, f[x]) + Times(b, g[x]) <= Times(c, h[x]) + Times(d, k[x]) + Times(e, l[x]) + r
    BY DEF Times, Compared
  <2>. QED  BY ONLY <2>2, <2>4, <2>5, r \in Nat
<1>11. Sum(lhs) <= Sum(rhs)
  BY ONLY IsFiniteSet(D), <1>5, <1>8, <1>10, SumGrows DEF Numbers
<1>12. Sum(h) \in Nat /\ Sum(k) \in Nat /\ Sum(l) \in Nat /\ Sum(o) \in Nat
  BY ONLY IsFiniteSet(D), h \in Numbers(D), k \in Numbers(D), l \in Numbers(D), <1>2, SumIsNat DEF Numbers
<1>13. /\ Times(c, Sum(h)) \in Nat /\ Times(d, Sum(k)) \in Nat /\ Times(e, Sum(l)) \in Nat
       /\ Times(r, Sum(o)) \in Nat
  BY ONLY <1>12, c \in Nat, d \in Nat, e \in Nat, r \in Nat, TimesIsNat
<1>14. Times(a, Sum(f)) + Times(b, Sum(g))
         <= Times(c, Sum(h)) + Times(d, Sum(k)) + Times(e, Sum(l)) + Times(r, Sum(o))
  BY ONLY <1>5, <1>6, <1>7, <1>8, <1>11, <1>13
<1>. QED  BY ONLY <1>3, <1>14 DEF Times

\* The invoice that a payload is made of.
InvoiceIsOne == invoice \in Payloads!Invoice /\ provider \in Payloads!Provider

\* Simplify's prices for one cost a row half its quantity at most.
Extra(i) == IF provider = "Simplify" THEN invoice.rows[i].qty ELSE 0

\* A row's numbers, in the standard rows only.
StandardNet(i) == IF i \in Payloads!Standard THEN Payloads!Net(i) ELSE 0
StandardVat(i) == IF i \in Payloads!Standard THEN Payloads!Amount(i) - Payloads!Net(i) ELSE 0

LEMMA RowsOfInvoice ==
    ASSUME InvoiceIsOne
    PROVE  /\ Payloads!Rows = 1..Len(invoice.rows) /\ Len(invoice.rows) \in Nat /\ Len(invoice.rows) >= 1
           /\ IsFiniteSet(Payloads!Rows) /\ Cardinality(Payloads!Rows) = Len(invoice.rows)
           /\ Payloads!Standard \in SUBSET Payloads!Rows
           /\ \A i \in Payloads!Rows : invoice.rows[i].rate \in Nat /\ invoice.rows[i].qty \in Nat \ {0}
           /\ invoice.off \in BOOLEAN /\ invoice.foreign \in BOOLEAN /\ invoice.taxed \in BOOLEAN
           /\ invoice.inclusive \in BOOLEAN /\ invoice.vat \in BOOLEAN
<1>1. /\ invoice.rows \in UNION {[1..n -> Payloads!Row] : n \in 1..MaxLines}
      /\ invoice.off \in BOOLEAN /\ invoice.foreign \in BOOLEAN /\ invoice.taxed \in BOOLEAN
      /\ invoice.inclusive \in BOOLEAN /\ invoice.vat \in BOOLEAN
  BY DEF InvoiceIsOne, Payloads!Invoice
<1>2. PICK m \in 1..MaxLines : invoice.rows \in [1..m -> Payloads!Row]
  BY <1>1
<1>3. m \in Nat /\ invoice.rows \in Seq(Payloads!Row)
  BY <1>2, DocumentsAssumption DEF DocumentsAssumption, Payloads!AmountAssumption
<1>4. Len(invoice.rows) = m /\ Payloads!Rows = 1..m /\ m >= 1
  BY <1>1, <1>2, <1>3 DEF Payloads!Rows
<1>5. IsFiniteSet(1..m) /\ Cardinality(1..m) = m
  BY <1>3, FS_Interval
<1>6. ASSUME NEW i \in 1..m
      PROVE  invoice.rows[i].rate \in Nat /\ invoice.rows[i].qty \in Nat \ {0}
  <2>1. invoice.rows[i] \in Payloads!Row
    BY <1>2
  <2>. QED  BY <2>1, DocumentsAssumption DEF DocumentsAssumption, Payloads!Row, Payloads!AmountAssumption
<1>7. Payloads!Standard \in SUBSET Payloads!Rows
  BY DEF Payloads!Standard
<1>. QED  BY <1>1, <1>3, <1>4, <1>5, <1>6, <1>7

LEMMA AmountOfRow ==
    ASSUME InvoiceIsOne, NEW i \in Payloads!Rows
    PROVE  /\ Payloads!Amount(i) \in Nat /\ Payloads!Share(i) \in Nat /\ Extra(i) \in Nat
           /\ invoice.off => /\ 10 * Payloads!Share(i) <= Payloads!Amount(i)
                             /\ Payloads!Amount(i) < 10 * Payloads!Share(i) + 10
           /\ ~invoice.off => Payloads!Share(i) = 0
           /\ ~(invoice.foreign /\ invoice.off) => Payloads!ShareShown(i) = Payloads!Share(i)
           /\ Payloads!ShareShown(i) \in Nat
<1>1. invoice.rows[i].rate \in Nat /\ invoice.rows[i].qty \in Nat /\ invoice.off \in BOOLEAN
  BY RowsOfInvoice
<1>2. Payloads!Amount(i) \in Nat /\ Extra(i) \in Nat
  BY <1>1 DEF Payloads!Amount, Extra
<1>3. /\ Payloads!Amount(i) \div 10 \in Nat /\ 10 * (Payloads!Amount(i) \div 10) <= Payloads!Amount(i)
      /\ Payloads!Amount(i) < 10 * (Payloads!Amount(i) \div 10) + 10
  BY <1>2, Division
<1>4. Payloads!Share(i) = IF invoice.off THEN Payloads!Amount(i) \div 10 ELSE 0
  BY DEF Payloads!Share
<1>5. Payloads!Share(i) \in Nat
  BY <1>3, <1>4
<1>6. Payloads!Share(i) \div 2 \in Nat
  BY <1>5, Division
<1>7. /\ ~(invoice.foreign /\ invoice.off) => Payloads!ShareShown(i) = Payloads!Share(i)
      /\ Payloads!ShareShown(i) \in Nat
  <2>1. CASE invoice.off
    BY <1>5, <1>6, <2>1 DEF Payloads!ShareShown
  <2>2. CASE ~invoice.off
    <3>1. Payloads!Share(i) = 0 /\ 0 \div 2 = 0
      BY <1>4, <2>2
    <3>. QED  BY <2>2, <3>1 DEF Payloads!ShareShown
  <2>. QED  BY <2>1, <2>2
<1>. QED  BY <1>2, <1>3, <1>4, <1>5, <1>7

\* What the net is of the amount: without the VAT in a standard row's price.
LEMMA NetOfRow ==
    ASSUME InvoiceIsOne, NEW i \in Payloads!Rows
    PROVE  /\ Payloads!Net(i) \in Nat
           /\ i \in Payloads!Standard /\ Payloads!Included =>
                /\ 236 * (Payloads!Net(i) + Payloads!Share(i)) <= 200 * Payloads!Amount(i) + 118
                /\ 200 * Payloads!Amount(i) < 236 * (Payloads!Net(i) + Payloads!Share(i)) + 118
           /\ ~(i \in Payloads!Standard /\ Payloads!Included) =>
                Payloads!Net(i) + Payloads!Share(i) = Payloads!Amount(i)
<1>1. PICK a, s, n, m, r : /\ a = Payloads!Amount(i) /\ s = Payloads!Share(i) /\ n = Payloads!Net(i)
                           /\ m = a * 100 /\ r = Payloads!Rounded(m, 118)
  OBVIOUS
<1>2. a \in Nat /\ s \in Nat /\ 10 * s <= a
  BY <1>1, AmountOfRow
<1>3. m = a * 100 /\ m \in Nat
  BY <1>1, <1>2
<1>4. r \in Nat /\ 236 * r <= 2 * m + 118 /\ 2 * m < 236 * r + 118
  <2>1. r = Payloads!Rounded(m, 118) /\ m \in Nat
    BY <1>1, <1>3
  <2>. QED  BY ONLY <2>1, RoundedOutOfVat
<1>5. n = (IF i \in Payloads!Standard /\ Payloads!Included THEN r ELSE a) - s
  BY <1>1 DEF Payloads!Net
<1>6. r - s \in Nat /\ a - s \in Nat
  BY <1>2, <1>3, <1>4
<1>. QED  BY <1>1, <1>2, <1>3, <1>4, <1>5, <1>6

\* What a line is of the amount: VAT is added where the net and the discount make
\* the amount.
LEMMA LineOfRow ==
    ASSUME InvoiceIsOne, NEW i \in Payloads!Rows
    PROVE  /\ Payloads!VatAmount(i) \in Nat /\ Payloads!Line(i) \in Nat
           /\ 2 * Payloads!Line(i) <= 2 * Payloads!VatAmount(i) + Extra(i)
           /\ 2 * Payloads!VatAmount(i) <= 2 * Payloads!Line(i) + Extra(i)
           /\ i \in Payloads!Standard /\ Payloads!Exclusive(i) =>
                /\ 200 * Payloads!VatAmount(i) <= 236 * Payloads!Amount(i) + 100
                /\ 236 * Payloads!Amount(i) < 200 * Payloads!VatAmount(i) + 100
           /\ ~(i \in Payloads!Standard /\ Payloads!Exclusive(i)) =>
                Payloads!VatAmount(i) = Payloads!Amount(i)
<1>1. PICK a, v, l, q, m, r :
        /\ a = Payloads!Amount(i) /\ v = Payloads!VatAmount(i) /\ l = Payloads!Line(i)
        /\ q = invoice.rows[i].qty /\ m = a * 118 /\ r = Payloads!Rounded(m, 100)
  OBVIOUS
<1>2. a \in Nat /\ q \in Nat \ {0}
  BY <1>1, AmountOfRow, RowsOfInvoice
<1>3. m = a * 118 /\ m \in Nat
  BY <1>1, <1>2
<1>4. r \in Nat /\ 200 * r <= 2 * m + 100 /\ 2 * m < 200 * r + 100
  <2>1. r = Payloads!Rounded(m, 100) /\ m \in Nat
    BY <1>1, <1>3
  <2>. QED  BY ONLY <2>1, RoundedHundredths
<1>5. v = IF i \in Payloads!Standard /\ Payloads!Exclusive(i) THEN r ELSE a
  BY <1>1 DEF Payloads!VatAmount
<1>6. v \in Nat
  BY <1>2, <1>4, <1>5
<1>7. l \in Nat /\ 2 * l <= 2 * v + Extra(i) /\ 2 * v <= 2 * l + Extra(i)
  <2>1. CASE provider = "Simplify"
    <3>1. l = Payloads!Rounded(v, q) * q /\ Extra(i) = q
      BY <1>1, <2>1 DEF Payloads!Line, Payloads!UnitPrice, Extra
    <3>2. l \in Nat /\ 2 * l <= 2 * v + q /\ 2 * v < 2 * l + q
      BY <1>2, <1>6, <3>1, UnitsComeTo
    <3>. QED  BY <1>2, <1>6, <3>1, <3>2
  <2>2. CASE provider # "Simplify"
    <3>1. l = v /\ Extra(i) = 0
      BY <1>1, <2>2 DEF Payloads!Line, Extra
    <3>. QED  BY <1>6, <3>1
  <2>. QED  BY <2>1, <2>2
<1>. QED  BY <1>1, <1>2, <1>3, <1>4, <1>5, <1>6, <1>7

\* The VAT in a line, as DIRM is told it.
LEMMA LineVatOfRow ==
    ASSUME InvoiceIsOne, provider = "DIRM", invoice.vat, NEW i \in Payloads!Rows
    PROVE  /\ Payloads!LineVat(i) \in Nat
           /\ i \in Payloads!Standard =>
                /\ 236 * Payloads!LineVat(i) <= 36 * Payloads!Line(i) + 118
                /\ 36 * Payloads!Line(i) < 236 * Payloads!LineVat(i) + 118
           /\ i \notin Payloads!Standard => Payloads!LineVat(i) = 0
<1>1. PICK l, m, r : l = Payloads!Line(i) /\ m = l * 18 /\ r = Payloads!Rounded(m, 118)
  OBVIOUS
<1>2. l \in Nat /\ m = l * 18 /\ m \in Nat
  BY <1>1, LineOfRow
<1>3. r \in Nat /\ 236 * r <= 2 * m + 118 /\ 2 * m < 236 * r + 118
  <2>1. r = Payloads!Rounded(m, 118) /\ m \in Nat
    BY <1>1, <1>2
  <2>. QED  BY ONLY <2>1, RoundedOutOfVat
<1>4. Payloads!LineVat(i) = IF i \in Payloads!Standard THEN r ELSE 0
  BY <1>1 DEF Payloads!LineVat
<1>. QED  BY <1>1, <1>2, <1>3, <1>4

\* The amount, net and share of a row are told apart by three questions of it:
\* whether it is standard, whether VAT is in its price, and whether VAT is added.
LEMMA RowIsCharged ==
    ASSUME InvoiceIsOne, NEW i \in Payloads!Rows, ~(invoice.foreign /\ invoice.off), ~Payloads!MissesVat
    PROVE  /\ Payloads!Included /\ ~invoice.off => 2 * Payloads!Amount(i) <= 2 * Payloads!Line(i) + Extra(i)
           /\ invoice.taxed /\ ~(Payloads!Included /\ ~invoice.off) =>
                100 * Payloads!Net(i) + 18 * StandardNet(i)
                  <= 100 * Payloads!Line(i) + 50 * Extra(i) + 50
           /\ ~invoice.taxed => 2 * Payloads!Net(i) <= 2 * Payloads!Line(i) + Extra(i)
<1>1. PICK a, s, n, v, l, x, z :
        /\ a = Payloads!Amount(i) /\ s = Payloads!Share(i) /\ n = Payloads!Net(i)
        /\ v = Payloads!VatAmount(i) /\ l = Payloads!Line(i) /\ x = Extra(i) /\ z = StandardNet(i)
  OBVIOUS
<1>2. /\ a \in Nat /\ s \in Nat /\ x \in Nat /\ n \in Nat /\ v \in Nat /\ l \in Nat
      /\ 2 * v <= 2 * l + x
  BY <1>1, AmountOfRow, NetOfRow, LineOfRow
<1>3. z = IF i \in Payloads!Standard THEN n ELSE 0
  BY <1>1 DEF StandardNet
<1>4. Payloads!Exclusive(i) <=> n + s = a /\ ~Payloads!Missed(i)
  BY <1>1, AmountOfRow DEF Payloads!Exclusive
<1>8. Payloads!Missed(i) => invoice.off /\ s >= 1 /\ a >= 10
  <2>1. Payloads!Missed(i) => s # 0
    BY <1>1 DEF Payloads!Missed
  <2>2. /\ invoice.off => 10 * s <= a
        /\ ~invoice.off => s = 0
    BY <1>1, AmountOfRow
  <2>. QED  BY <1>2, <2>1, <2>2
<1>9. CASE i \in Payloads!Standard /\ n + s = a /\ Payloads!Missed(i)
  <2>1. v = a /\ invoice.off /\ a >= 10
    BY <1>1, <1>4, <1>8, <1>9, LineOfRow
  <2>2. invoice.taxed => Payloads!Included
    BY <1>9 DEF Payloads!MissesVat, Payloads!Included
  <2>3. Payloads!Included => 236 * (n + s) <= 200 * a + 118
    BY <1>1, <1>9, NetOfRow
  <2>4. ~invoice.taxed
    BY <1>2, <1>9, <2>1, <2>2, <2>3
  <2>5. 2 * n <= 2 * l + x
    BY <1>2, <1>9, <2>1
  <2>. QED  BY <1>1, <2>1, <2>4, <2>5
<1>5. CASE i \in Payloads!Standard /\ n + s = a /\ ~Payloads!Missed(i)
  <2>1. 200 * v <= 236 * a + 100 /\ 236 * a < 200 * v + 100
    BY <1>1, <1>4, <1>5, LineOfRow
  <2>2. n <= a /\ a <= v /\ z = n
    BY <1>2, <1>3, <1>5, <2>1
  <2>3. 2 * a <= 2 * l + x /\ 2 * n <= 2 * l + x
    BY <1>2, <2>2
  <2>4. 100 * n + 18 * z <= 100 * l + 50 * x + 50
    BY <1>2, <2>1, <2>2
  <2>. QED  BY <1>1, <2>3, <2>4
<1>6. CASE i \in Payloads!Standard /\ n + s # a
  <2>1. v = a /\ z = n
    BY <1>1, <1>3, <1>4, <1>6, LineOfRow
  <2>2. Payloads!Included
    BY <1>1, <1>6, NetOfRow
  <2>3. invoice.taxed
    BY <2>2 DEF Payloads!Included
  <2>4. 236 * (n + s) <= 200 * a + 118 /\ 200 * a < 236 * (n + s) + 118
    BY <1>1, <1>6, <2>2, NetOfRow
  <2>5. invoice.off => 10 * s <= a /\ a < 10 * s + 10
    BY <1>1, AmountOfRow
  <2>6. ASSUME invoice.off PROVE 118 * n <= 100 * a + 50
    <3>1. CASE s = 0
      BY <1>2, <1>6, <2>4, <2>5, <2>6, <3>1
    <3>2. CASE s # 0
      BY <1>2, <2>4, <3>2
    <3>. QED  BY <3>1, <3>2
  <2>7. invoice.off => 100 * n + 18 * z <= 100 * l + 50 * x + 50
    BY <1>2, <2>1, <2>6
  <2>8. 2 * a <= 2 * l + x
    BY <1>2, <2>1
  <2>. QED  BY <1>1, <2>2, <2>3, <2>7, <2>8
<1>7. CASE i \notin Payloads!Standard
  <2>1. v = a /\ z = 0 /\ n + s = a
    BY <1>1, <1>3, <1>7, LineOfRow, NetOfRow
  <2>2. 2 * a <= 2 * l + x /\ 2 * n <= 2 * l + x /\ 100 * n + 18 * z <= 100 * l + 50 * x + 50
    BY <1>2, <2>1
  <2>. QED  BY <1>1, <2>2
<1>. QED  BY <1>5, <1>6, <1>7, <1>9

LEMMA RowIsNoMore ==
    ASSUME InvoiceIsOne, NEW i \in Payloads!Rows, ~invoice.off
    PROVE  /\ Payloads!Included => 2 * Payloads!Line(i) <= 2 * Payloads!Amount(i) + Extra(i) + 2
           /\ ~Payloads!Included =>
                100 * Payloads!Line(i) <= 100 * Payloads!Net(i) + 18 * StandardNet(i) + 50 * Extra(i) + 50
<1>1. PICK a, n, v, l, x, z :
        /\ a = Payloads!Amount(i) /\ n = Payloads!Net(i)
        /\ v = Payloads!VatAmount(i) /\ l = Payloads!Line(i) /\ x = Extra(i) /\ z = StandardNet(i)
  OBVIOUS
<1>2. /\ a \in Nat /\ x \in Nat /\ n \in Nat /\ v \in Nat /\ l \in Nat
      /\ 2 * l <= 2 * v + x /\ Payloads!Share(i) = 0
  BY <1>1, AmountOfRow, NetOfRow, LineOfRow
<1>3. z = IF i \in Payloads!Standard THEN n ELSE 0
  BY <1>1 DEF StandardNet
<1>4. Payloads!Exclusive(i) <=> n = a
  BY <1>1, <1>2, AmountOfRow DEF Payloads!Exclusive, Payloads!Missed
<1>5. CASE i \in Payloads!Standard /\ n = a
  <2>1. 200 * v <= 236 * a + 100 /\ z = a
    BY <1>1, <1>3, <1>4, <1>5, LineOfRow
  <2>2. 100 * l <= 100 * n + 18 * z + 50 * x + 50
    BY <1>2, <1>5, <2>1
  <2>3. ASSUME Payloads!Included PROVE 236 * a <= 200 * a + 118
    <3>1. 236 * (n + Payloads!Share(i)) <= 200 * a + 118
      BY <1>1, <1>5, <2>3, NetOfRow, ZenonT(60)
    <3>. QED  BY <1>2, <1>5, <3>1
  <2>4. Payloads!Included => v <= a + 1
    BY <1>2, <2>1, <2>3
  <2>. QED  BY <1>1, <1>2, <2>2, <2>4
<1>6. CASE ~(i \in Payloads!Standard /\ n = a)
  <2>1. v = a
    BY <1>1, <1>4, <1>6, LineOfRow
  <2>2. 2 * l <= 2 * a + x + 2
    BY <1>2, <2>1
  <2>3. ASSUME ~Payloads!Included PROVE n = a /\ z = 0
    BY <1>1, <1>2, <1>3, <1>6, <2>3, NetOfRow
  <2>4. ~Payloads!Included => 100 * l <= 100 * n + 18 * z + 50 * x + 50
    BY <1>2, <2>1, <2>3
  <2>. QED  BY <1>1, <2>2, <2>4
<1>. QED  BY <1>5, <1>6

LEMMA RowVatIsCharged ==
    ASSUME InvoiceIsOne, NEW i \in Payloads!Rows, ~invoice.off, provider = "DIRM", invoice.vat
    PROVE  /\ StandardNet(i) \in Nat /\ StandardVat(i) \in Nat
           /\ Payloads!Included => /\ Payloads!LineVat(i) <= StandardVat(i) + 1
                                   /\ StandardVat(i) <= Payloads!LineVat(i) + 1
           /\ ~Payloads!Included => /\ 11800 * Payloads!LineVat(i) <= 2124 * StandardNet(i) + 6800
                                    /\ 2124 * StandardNet(i) <= 11800 * Payloads!LineVat(i) + 6800
<1>1. PICK a, n, v, l, z, d, t :
        /\ a = Payloads!Amount(i) /\ n = Payloads!Net(i) /\ v = Payloads!VatAmount(i) /\ l = Payloads!Line(i)
        /\ z = StandardNet(i) /\ d = StandardVat(i) /\ t = Payloads!LineVat(i)
  OBVIOUS
<1>2. a \in Nat /\ n \in Nat /\ v \in Nat /\ l \in Nat /\ t \in Nat /\ Payloads!Share(i) = 0
  BY <1>1, AmountOfRow, NetOfRow, LineOfRow, LineVatOfRow
<1>3. l = v
  BY <1>1 DEF Payloads!Line
<1>4. Payloads!Exclusive(i) <=> n = a
  BY <1>1, <1>2, AmountOfRow DEF Payloads!Exclusive, Payloads!Missed
<1>5. CASE i \notin Payloads!Standard
  <2>1. z = 0 /\ d = 0 /\ t = 0
    BY <1>1, <1>5, LineVatOfRow DEF StandardNet, StandardVat
  <2>. QED  BY <1>1, <2>1
<1>6. CASE i \in Payloads!Standard
  <2>1. z = n /\ d = a - n /\ 236 * t <= 36 * l + 118 /\ 36 * l < 236 * t + 118
    BY <1>1, <1>6, LineVatOfRow DEF StandardNet, StandardVat
  <2>2. CASE Payloads!Included
    <3>1. 236 * n <= 200 * a + 118 /\ 200 * a < 236 * n + 118
      BY <1>1, <1>2, <1>6, <2>2, NetOfRow
    <3>2. d \in Nat
      BY <1>2, <2>1, <3>1
    <3>3. CASE n = a
      <4>1. 200 * v <= 236 * a + 100
        BY <1>1, <1>4, <1>6, <3>3, LineOfRow
      <4>2. d = 0 /\ a <= 3 /\ v <= 4
        BY <1>2, <2>1, <3>1, <3>3, <4>1
      <4>3. t <= 1
        BY <1>2, <1>3, <2>1, <4>2
      <4>. QED  BY <1>1, <1>2, <2>1, <2>2, <4>2, <4>3
    <3>4. CASE n # a
      <4>1. v = a
        BY <1>1, <1>4, <3>4, LineOfRow
      <4>2. t <= d + 1 /\ d <= t + 1
        BY <1>2, <1>3, <2>1, <3>1, <4>1
      <4>. QED  BY <1>1, <1>2, <2>1, <2>2, <3>2, <4>2
    <3>. QED  BY <3>3, <3>4
  <2>3. CASE ~Payloads!Included
    <3>1. n = a
      BY <1>1, <1>2, <2>3, NetOfRow
    <3>2. 200 * v <= 236 * a + 100 /\ 236 * a < 200 * v + 100
      BY <1>1, <1>4, <1>6, <3>1, LineOfRow
    <3>3. 11800 * t <= 2124 * z + 6800 /\ 2124 * z <= 11800 * t + 6800
      BY <1>2, <1>3, <2>1, <3>1, <3>2
    <3>4. d = 0
      BY <1>2, <2>1, <3>1
    <3>. QED  BY <1>1, <1>2, <2>1, <2>3, <3>3, <3>4
  <2>. QED  BY <2>2, <2>3
<1>. QED  BY <1>5, <1>6

LEMMA TotalIsSum == \A f : Payloads!Total(f) = Sum(f)
BY DEF Payloads!Total, Sum, Payloads!FoldFunction, Payloads!FoldFunctionOnSet, Payloads!MapThenFoldSet,
    Batches!FoldFunction, Batches!FoldFunctionOnSet, Batches!MapThenFoldSet

\* The sums over an invoice's rows that its payload and its totals are made of.
Amounts == [i \in Payloads!Rows |-> Payloads!Amount(i)]
Nets == [i \in Payloads!Rows |-> Payloads!Net(i)]
StandardNets == [i \in Payloads!Rows |-> StandardNet(i)]
StandardVats == [i \in Payloads!Rows |-> StandardVat(i)]
DeclaredLines == [i \in Payloads!Rows |-> Payloads!Line(i)]
Extras == [i \in Payloads!Rows |-> Extra(i)]
LineVats == [i \in Payloads!Rows |-> Payloads!LineVat(i)]
Nothings == [i \in Payloads!Rows |-> 0]

LEMMA SumsOfInvoice ==
    ASSUME InvoiceIsOne
    PROVE  /\ Amounts \in [Payloads!Rows -> Nat] /\ Nets \in [Payloads!Rows -> Nat]
           /\ StandardNets \in [Payloads!Rows -> Nat] /\ DeclaredLines \in [Payloads!Rows -> Nat]
           /\ Extras \in [Payloads!Rows -> Nat] /\ Nothings \in [Payloads!Rows -> Nat]
           /\ Sum(Amounts) \in Nat /\ Sum(Nets) \in Nat /\ Sum(StandardNets) \in Nat
           /\ Sum(DeclaredLines) \in Nat /\ Sum(Extras) \in Nat /\ Sum(Nothings) = 0
<1>1. ASSUME NEW i \in Payloads!Rows
      PROVE  /\ Payloads!Amount(i) \in Nat /\ Payloads!Net(i) \in Nat /\ StandardNet(i) \in Nat
             /\ Payloads!Line(i) \in Nat /\ Extra(i) \in Nat
  BY AmountOfRow, NetOfRow, LineOfRow DEF StandardNet
<1>2. /\ Amounts \in [Payloads!Rows -> Nat] /\ Nets \in [Payloads!Rows -> Nat]
      /\ StandardNets \in [Payloads!Rows -> Nat] /\ DeclaredLines \in [Payloads!Rows -> Nat]
      /\ Extras \in [Payloads!Rows -> Nat] /\ Nothings \in [Payloads!Rows -> Nat]
      /\ \A i \in Payloads!Rows : Nothings[i] = 0
  BY <1>1 DEF Amounts, Nets, StandardNets, DeclaredLines, Extras, Nothings
<1>3. /\ Sum(Amounts) \in Nat /\ Sum(Nets) \in Nat /\ Sum(StandardNets) \in Nat
      /\ Sum(DeclaredLines) \in Nat /\ Sum(Extras) \in Nat
  BY <1>2, RowsOfInvoice, SumIsNat
<1>4. Sum(Nothings) = 0
  BY <1>2, RowsOfInvoice, SumOfNothing
<1>. QED  BY <1>2, <1>3, <1>4

\* What is summed over the standard rows only.
LEMMA StandardSums ==
    ASSUME InvoiceIsOne
    PROVE  /\ Payloads!Total([i \in Payloads!Standard |-> Payloads!Net(i)]) = Sum(StandardNets)
           /\ (\A i \in Payloads!Rows : StandardVat(i) \in Nat) =>
                /\ StandardVats \in [Payloads!Rows -> Nat]
                /\ Payloads!Total([i \in Payloads!Standard |-> Payloads!Amount(i) - Payloads!Net(i)])
                     = Sum(StandardVats)
<1>1. IsFiniteSet(Payloads!Rows) /\ Payloads!Standard \in SUBSET Payloads!Rows
  BY RowsOfInvoice
<1>2. PICK g : g = [i \in Payloads!Standard |-> Payloads!Net(i)]
  OBVIOUS
<1>3. g \in [Payloads!Standard -> Nat]
  BY <1>1, <1>2, NetOfRow
<1>4. \A i \in Payloads!Rows : StandardNets[i] = IF i \in Payloads!Standard THEN g[i] ELSE 0
  BY <1>2 DEF StandardNets, StandardNet
<1>5. Sum(StandardNets) = Sum(g)
  BY ONLY <1>1, <1>3, <1>4, InvoiceIsOne, SumsOfInvoice, SumOfPart
<1>6. ASSUME \A i \in Payloads!Rows : StandardVat(i) \in Nat
      PROVE  /\ StandardVats \in [Payloads!Rows -> Nat]
             /\ Payloads!Total([i \in Payloads!Standard |-> Payloads!Amount(i) - Payloads!Net(i)])
                  = Sum(StandardVats)
  <2>1. PICK h : h = [i \in Payloads!Standard |-> Payloads!Amount(i) - Payloads!Net(i)]
    OBVIOUS
  <2>2. \A i \in Payloads!Standard : h[i] = StandardVat(i)
    BY <2>1 DEF StandardVat
  <2>3. h \in [Payloads!Standard -> Nat]
    BY <1>1, <1>6, <2>1, <2>2
  <2>4. \A i \in Payloads!Rows : StandardVats[i] = IF i \in Payloads!Standard THEN h[i] ELSE 0
    BY <2>2 DEF StandardVats, StandardVat
  <2>5. StandardVats \in [Payloads!Rows -> Nat]
    BY <1>6 DEF StandardVats
  <2>6. Sum(StandardVats) = Sum(h)
    BY ONLY <1>1, <2>3, <2>4, <2>5, SumOfPart
  <2>. QED  BY <2>1, <2>5, <2>6, TotalIsSum
<1>. QED  BY <1>2, <1>5, <1>6, TotalIsSum

\* What the invoice charges, and the slack.
LEMMA ChargedIs ==
    ASSUME InvoiceIsOne
    PROVE  /\ Payloads!Charged \in Nat
           /\ Payloads!Included /\ ~invoice.off => Payloads!Charged = Sum(Amounts)
           /\ ~(Payloads!Included /\ ~invoice.off) /\ invoice.taxed =>
                /\ 200 * Payloads!Charged <= 200 * Sum(Nets) + 36 * Sum(StandardNets) + 100
                /\ 200 * Sum(Nets) + 36 * Sum(StandardNets) <= 200 * Payloads!Charged + 100
           /\ ~invoice.taxed => Payloads!Charged = Sum(Nets)
           /\ Payloads!Slack = Len(invoice.rows) + Sum(Extras)
           /\ Payloads!Sent.total = Sum(DeclaredLines)
<1>1. Payloads!Total(Amounts) = Sum(Amounts) /\ Payloads!Total(Nets) = Sum(Nets)
  BY TotalIsSum
<1>2. PICK z, m, r : z = Sum(StandardNets) /\ m = 18 * z /\ r = Payloads!Rounded(m, 100)
  OBVIOUS
<1>3. z \in Nat /\ m = 18 * z /\ m \in Nat /\ Sum(Nets) \in Nat /\ Sum(Amounts) \in Nat
  BY <1>2, SumsOfInvoice
<1>4. r \in Nat /\ 200 * r <= 2 * m + 100 /\ 2 * m < 200 * r + 100
  <2>1. r = Payloads!Rounded(m, 100) /\ m \in Nat
    BY <1>2, <1>3
  <2>. QED  BY ONLY <2>1, RoundedHundredths
<1>5. Payloads!Charged = IF Payloads!Included /\ ~invoice.off THEN Sum(Amounts)
                         ELSE Sum(Nets) + (IF invoice.taxed THEN r ELSE 0)
  BY <1>1, <1>2, StandardSums DEF Payloads!Charged, Amounts, Nets
<1>6. Payloads!Included => invoice.taxed
  BY DEF Payloads!Included
<1>7. Payloads!Slack = Len(invoice.rows) + Sum(Extras)
  <2>1. CASE provider = "Simplify"
    <3>1. Extras = [i \in Payloads!Rows |-> invoice.rows[i].qty]
      BY <2>1 DEF Extras, Extra
    <3>. QED  BY <2>1, <3>1, TotalIsSum DEF Payloads!Slack
  <2>2. CASE provider # "Simplify"
    <3>1. \A i \in Payloads!Rows : Extras[i] = 0
      BY <2>2 DEF Extras, Extra
    <3>2. Sum(Extras) = 0
      BY <3>1, RowsOfInvoice, SumsOfInvoice, SumOfNothing
    <3>. QED  BY <2>2, <3>2 DEF Payloads!Slack
  <2>. QED  BY <2>1, <2>2
<1>8. Payloads!Sent.total = Sum(DeclaredLines)
  BY TotalIsSum DEF Payloads!Sent, DeclaredLines
<1>9. PICK c, e, a : c = Payloads!Charged /\ e = Sum(Nets) /\ a = Sum(Amounts)
  OBVIOUS
<1>10. ASSUME ~(Payloads!Included /\ ~invoice.off), invoice.taxed
       PROVE  /\ c \in Nat /\ 200 * c <= 200 * e + 36 * z + 100
              /\ 200 * e + 36 * z <= 200 * c + 100
  <2>1. c = e + r
    BY <1>5, <1>9, <1>10
  <2>. QED  BY ONLY <1>3, <1>4, <1>9, <2>1
<1>11. /\ Payloads!Included /\ ~invoice.off => c = a
       /\ ~invoice.taxed => c = e
  <2>1. ASSUME ~invoice.taxed PROVE c = e + 0
    BY <1>5, <1>6, <1>9, <2>1
  <2>. QED  BY <1>3, <1>5, <1>9, <2>1
<1>12. c \in Nat
  BY <1>3, <1>6, <1>9, <1>10, <1>11
<1>. QED  BY <1>2, <1>7, <1>8, <1>9, <1>10, <1>11, <1>12

\* TRA is told of all that is charged, unless a discount is in a foreign currency
\* or makes a row's sum miss its amount.
LEMMA NoLessIsDeclared ==
    ASSUME InvoiceIsOne, ~(invoice.foreign /\ invoice.off), ~Payloads!MissesVat
    PROVE  Payloads!Sent.total + Payloads!Slack >= Payloads!Charged
<1>1. PICK n, a, e, l, x, z, c :
        /\ n = Len(invoice.rows) /\ a = Sum(Amounts) /\ e = Sum(Nets) /\ l = Sum(DeclaredLines)
        /\ x = Sum(Extras) /\ z = Sum(StandardNets) /\ c = Payloads!Charged
  OBVIOUS
<1>2. n \in Nat /\ n >= 1 /\ a \in Nat /\ e \in Nat /\ l \in Nat /\ x \in Nat /\ z \in Nat /\ c \in Nat
  BY <1>1, RowsOfInvoice, SumsOfInvoice, ChargedIs
<1>0. Payloads!Slack = n + x /\ Payloads!Sent.total = l /\ Payloads!Charged = c
  BY <1>1, ChargedIs
<1>3. CASE Payloads!Included /\ ~invoice.off
  <2>1. 2 * a <= 2 * l + x
    <3>1. Compared(Payloads!Rows, 2, Amounts, 0, Nothings,
                   2, DeclaredLines, 1, Extras, 0, Nothings, 0)
      BY <1>3, RowIsCharged, SumsOfInvoice DEF Amounts, DeclaredLines, Extras, Nothings, Compared
    <3>2. /\ IsFiniteSet(Payloads!Rows)
          /\ Amounts \in Numbers(Payloads!Rows) /\ Extras \in Numbers(Payloads!Rows)
          /\ DeclaredLines \in Numbers(Payloads!Rows) /\ Nothings \in Numbers(Payloads!Rows)
      BY RowsOfInvoice, SumsOfInvoice DEF Numbers
    <3>3. 2 * Sum(Amounts) + 0 * Sum(Nothings)
            <= 2 * Sum(DeclaredLines) + 1 * Sum(Extras) + 0 * Sum(Nothings) + 0 * Cardinality(Payloads!Rows)
      BY ONLY <3>1, <3>2, SumsCompareTermwise
    <3>4. Sum(Nothings) = 0 /\ Cardinality(Payloads!Rows) = n
      BY <1>1, RowsOfInvoice, SumsOfInvoice
    <3>. QED  BY ONLY <1>1, <1>2, <3>3, <3>4, SMTT(60)
  <2>2. c = a
    BY <1>1, <1>3, ChargedIs
  <2>3. l + (n + x) >= c
    BY ONLY <1>2, <2>1, <2>2
  <2>. QED  BY ONLY <1>0, <2>3
<1>4. CASE ~(Payloads!Included /\ ~invoice.off) /\ invoice.taxed
  <2>1. 100 * e + 18 * z <= 100 * l + 50 * x + 50 * n
    <3>1. Compared(Payloads!Rows, 100, Nets, 18, StandardNets,
                   100, DeclaredLines, 50, Extras, 0, Nothings, 50)
      BY <1>4, RowIsCharged, SumsOfInvoice DEF Nets, StandardNets, DeclaredLines, Extras, Nothings, Compared
    <3>2. /\ IsFiniteSet(Payloads!Rows)
          /\ Extras \in Numbers(Payloads!Rows) /\ DeclaredLines \in Numbers(Payloads!Rows)
          /\ Nets \in Numbers(Payloads!Rows) /\ Nothings \in Numbers(Payloads!Rows) /\ StandardNets \in Numbers(Payloads!Rows)
      BY RowsOfInvoice, SumsOfInvoice DEF Numbers
    <3>3. 100 * Sum(Nets) + 18 * Sum(StandardNets)
            <= 100 * Sum(DeclaredLines) + 50 * Sum(Extras) + 0 * Sum(Nothings) + 50 * Cardinality(Payloads!Rows)
      BY ONLY <3>1, <3>2, SumsCompareTermwise
    <3>4. Sum(Nothings) = 0 /\ Cardinality(Payloads!Rows) = n
      BY <1>1, RowsOfInvoice, SumsOfInvoice
    <3>. QED  BY ONLY <1>1, <1>2, <3>3, <3>4, SMTT(60)
  <2>2. 200 * c <= 200 * e + 36 * z + 100
    BY <1>1, <1>4, ChargedIs
  <2>3. l + (n + x) >= c
    BY ONLY <1>2, <2>1, <2>2
  <2>. QED  BY ONLY <1>0, <2>3
<1>5. CASE ~invoice.taxed
  <2>1. 2 * e <= 2 * l + x
    <3>1. Compared(Payloads!Rows, 2, Nets, 0, Nothings,
                   2, DeclaredLines, 1, Extras, 0, Nothings, 0)
      BY <1>5, RowIsCharged, SumsOfInvoice DEF Nets, DeclaredLines, Extras, Nothings, Compared
    <3>2. /\ IsFiniteSet(Payloads!Rows)
          /\ Extras \in Numbers(Payloads!Rows) /\ DeclaredLines \in Numbers(Payloads!Rows)
          /\ Nets \in Numbers(Payloads!Rows) /\ Nothings \in Numbers(Payloads!Rows)
      BY RowsOfInvoice, SumsOfInvoice DEF Numbers
    <3>3. 2 * Sum(Nets) + 0 * Sum(Nothings)
            <= 2 * Sum(DeclaredLines) + 1 * Sum(Extras) + 0 * Sum(Nothings) + 0 * Cardinality(Payloads!Rows)
      BY ONLY <3>1, <3>2, SumsCompareTermwise
    <3>4. Sum(Nothings) = 0 /\ Cardinality(Payloads!Rows) = n
      BY <1>1, RowsOfInvoice, SumsOfInvoice
    <3>. QED  BY ONLY <1>1, <1>2, <3>3, <3>4, SMTT(60)
  <2>2. c = e
    BY <1>1, <1>5, ChargedIs
  <2>3. l + (n + x) >= c
    BY ONLY <1>2, <2>1, <2>2
  <2>. QED  BY ONLY <1>0, <2>3
<1>. QED  BY <1>3, <1>4, <1>5 DEF Payloads!Included

\* And of no more, where there is no discount and VAT is charged.
LEMMA NoMoreIsDeclared ==
    ASSUME InvoiceIsOne, ~invoice.off, invoice.taxed
    PROVE  Payloads!Sent.total <= Payloads!Charged + Payloads!Slack
<1>1. PICK n, a, e, l, x, z, c :
        /\ n = Len(invoice.rows) /\ a = Sum(Amounts) /\ e = Sum(Nets) /\ l = Sum(DeclaredLines)
        /\ x = Sum(Extras) /\ z = Sum(StandardNets) /\ c = Payloads!Charged
  OBVIOUS
<1>2. n \in Nat /\ n >= 1 /\ a \in Nat /\ e \in Nat /\ l \in Nat /\ x \in Nat /\ z \in Nat /\ c \in Nat
  BY <1>1, RowsOfInvoice, SumsOfInvoice, ChargedIs
<1>0. Payloads!Slack = n + x /\ Payloads!Sent.total = l /\ Payloads!Charged = c
  BY <1>1, ChargedIs
<1>3. CASE Payloads!Included
  <2>1. 2 * l <= 2 * a + x + 2 * n
    <3>1. Compared(Payloads!Rows, 2, DeclaredLines, 0, Nothings,
                   2, Amounts, 1, Extras, 0, Nothings, 2)
      BY <1>3, RowIsNoMore, SumsOfInvoice DEF Amounts, DeclaredLines, Extras, Nothings, Compared
    <3>2. /\ IsFiniteSet(Payloads!Rows)
          /\ Amounts \in Numbers(Payloads!Rows) /\ Extras \in Numbers(Payloads!Rows)
          /\ DeclaredLines \in Numbers(Payloads!Rows) /\ Nothings \in Numbers(Payloads!Rows)
      BY RowsOfInvoice, SumsOfInvoice DEF Numbers
    <3>3. 2 * Sum(DeclaredLines) + 0 * Sum(Nothings)
            <= 2 * Sum(Amounts) + 1 * Sum(Extras) + 0 * Sum(Nothings) + 2 * Cardinality(Payloads!Rows)
      BY ONLY <3>1, <3>2, SumsCompareTermwise
    <3>4. Sum(Nothings) = 0 /\ Cardinality(Payloads!Rows) = n
      BY <1>1, RowsOfInvoice, SumsOfInvoice
    <3>. QED  BY ONLY <1>1, <1>2, <3>3, <3>4, SMTT(60)
  <2>2. c = a
    BY <1>1, <1>3, ChargedIs
  <2>3. l <= c + (n + x)
    BY ONLY <1>2, <2>1, <2>2
  <2>. QED  BY ONLY <1>0, <2>3
<1>4. CASE ~Payloads!Included
  <2>1. 100 * l <= 100 * e + 18 * z + 50 * x + 50 * n
    <3>1. Compared(Payloads!Rows, 100, DeclaredLines, 0, Nothings,
                   100, Nets, 18, StandardNets, 50, Extras, 50)
      BY <1>4, RowIsNoMore, SumsOfInvoice DEF Nets, StandardNets, DeclaredLines, Extras, Nothings, Compared
    <3>2. /\ IsFiniteSet(Payloads!Rows)
          /\ Extras \in Numbers(Payloads!Rows) /\ DeclaredLines \in Numbers(Payloads!Rows)
          /\ Nets \in Numbers(Payloads!Rows) /\ Nothings \in Numbers(Payloads!Rows) /\ StandardNets \in Numbers(Payloads!Rows)
      BY RowsOfInvoice, SumsOfInvoice DEF Numbers
    <3>3. 100 * Sum(DeclaredLines) + 0 * Sum(Nothings)
            <= 100 * Sum(Nets) + 18 * Sum(StandardNets) + 50 * Sum(Extras) + 50 * Cardinality(Payloads!Rows)
      BY ONLY <3>1, <3>2, SumsCompareTermwise
    <3>4. Sum(Nothings) = 0 /\ Cardinality(Payloads!Rows) = n
      BY <1>1, RowsOfInvoice, SumsOfInvoice
    <3>. QED  BY ONLY <1>1, <1>2, <3>3, <3>4, SMTT(60)
  <2>2. 200 * e + 36 * z <= 200 * c + 100
    BY <1>1, <1>4, ChargedIs
  <2>3. l <= c + (n + x)
    BY ONLY <1>2, <2>1, <2>2
  <2>. QED  BY ONLY <1>0, <2>3
<1>. QED  BY <1>3, <1>4

\* DIRM is told the VAT that is charged.
LEMMA VatIsDeclared ==
    ASSUME InvoiceIsOne, ~invoice.off, invoice.taxed, provider = "DIRM", invoice.vat
    PROVE  Payloads!Distance(Payloads!Sent.vat, Payloads!VatCharged) <= Payloads!Slack
<1>1. PICK n, t, d, z, w :
        /\ n = Len(invoice.rows) /\ t = Sum(LineVats) /\ d = Sum(StandardVats)
        /\ z = Sum(StandardNets) /\ w = Payloads!VatCharged
  OBVIOUS
<1>2. /\ LineVats \in [Payloads!Rows -> Nat] /\ StandardVats \in [Payloads!Rows -> Nat]
      /\ \A i \in Payloads!Rows : LineVats[i] = Payloads!LineVat(i) /\ StandardVats[i] = StandardVat(i)
  BY LineVatOfRow, RowVatIsCharged DEF LineVats, StandardVats
<1>3. t \in Nat /\ d \in Nat /\ z \in Nat /\ n \in Nat /\ n >= 1 /\ Cardinality(Payloads!Rows) = n
  BY <1>1, <1>2, RowsOfInvoice, SumIsNat, SumsOfInvoice
<1>4. Payloads!Sent.vat = t /\ Payloads!Slack >= n /\ Payloads!Slack \in Nat
  <2>1. Payloads!Slack = n + Sum(Extras) /\ Sum(Extras) \in Nat
    BY <1>1, ChargedIs, SumsOfInvoice
  <2>. QED  BY <1>1, <1>3, <2>1, TotalIsSum DEF Payloads!Sent, LineVats
<1>5. CASE Payloads!Included
  <2>1. w = d
    <3>1. \A i \in Payloads!Rows : StandardVat(i) \in Nat
      BY RowVatIsCharged
    <3>. QED  BY <1>1, <1>5, <3>1, StandardSums DEF Payloads!VatCharged
  <2>2. t <= d + n
    <3>1. Compared(Payloads!Rows, 1, LineVats, 0, Nothings,
                   1, StandardVats, 0, Nothings, 0, Nothings, 1)
      BY <1>2, <1>5, RowVatIsCharged, SumsOfInvoice DEF Compared
    <3>2. /\ IsFiniteSet(Payloads!Rows)
          /\ LineVats \in Numbers(Payloads!Rows) /\ Nothings \in Numbers(Payloads!Rows)
          /\ StandardVats \in Numbers(Payloads!Rows)
      BY <1>2, RowsOfInvoice, SumsOfInvoice DEF Numbers
    <3>3. 1 * Sum(LineVats) + 0 * Sum(Nothings)
            <= 1 * Sum(StandardVats) + 0 * Sum(Nothings) + 0 * Sum(Nothings) + 1 * Cardinality(Payloads!Rows)
      BY ONLY <3>1, <3>2, SumsCompareTermwise
    <3>4. Sum(Nothings) = 0
      BY SumsOfInvoice
    <3>. QED  BY ONLY <1>1, <1>3, <3>3, <3>4, SMTT(60)
  <2>3. d <= t + n
    <3>1. Compared(Payloads!Rows, 1, StandardVats, 0, Nothings,
                   1, LineVats, 0, Nothings, 0, Nothings, 1)
      BY <1>2, <1>5, RowVatIsCharged, SumsOfInvoice DEF Compared
    <3>2. /\ IsFiniteSet(Payloads!Rows)
          /\ LineVats \in Numbers(Payloads!Rows) /\ Nothings \in Numbers(Payloads!Rows)
          /\ StandardVats \in Numbers(Payloads!Rows)
      BY <1>2, RowsOfInvoice, SumsOfInvoice DEF Numbers
    <3>3. 1 * Sum(StandardVats) + 0 * Sum(Nothings)
            <= 1 * Sum(LineVats) + 0 * Sum(Nothings) + 0 * Sum(Nothings) + 1 * Cardinality(Payloads!Rows)
      BY ONLY <3>1, <3>2, SumsCompareTermwise
    <3>4. Sum(Nothings) = 0
      BY SumsOfInvoice
    <3>. QED  BY ONLY <1>1, <1>3, <3>3, <3>4, SMTT(60)
  <2>4. Payloads!Distance(t, w) <= n
    BY ONLY <1>3, <2>1, <2>2, <2>3 DEF Payloads!Distance
  <2>5. Payloads!Distance(t, w) \in Nat
    BY ONLY <1>3, <2>1 DEF Payloads!Distance
  <2>. QED  BY ONLY <1>1, <1>3, <1>4, <2>4, <2>5
<1>6. CASE ~Payloads!Included
  <2>1. w \in Nat /\ 200 * w <= 36 * z + 100 /\ 36 * z < 200 * w + 100
    <3>1. PICK m : m = 18 * z
      OBVIOUS
    <3>2. w = Payloads!Rounded(m, 100) /\ m \in Nat
      BY <1>1, <1>3, <1>6, <3>1, StandardSums DEF Payloads!VatCharged
    <3>3. w \in Nat /\ 200 * w <= 2 * m + 100 /\ 2 * m < 200 * w + 100
      BY <3>2, RoundedHundredths
    <3>. QED  BY ONLY <1>3, <3>1, <3>3
  <2>2. 11800 * t <= 2124 * z + 6800 * n
    <3>1. Compared(Payloads!Rows, 11800, LineVats, 0, Nothings,
                   2124, StandardNets, 0, Nothings, 0, Nothings, 6800)
      BY <1>2, <1>6, RowVatIsCharged, SumsOfInvoice DEF StandardNets, Compared
    <3>2. /\ IsFiniteSet(Payloads!Rows)
          /\ LineVats \in Numbers(Payloads!Rows) /\ Nothings \in Numbers(Payloads!Rows)
          /\ StandardNets \in Numbers(Payloads!Rows)
      BY <1>2, RowsOfInvoice, SumsOfInvoice DEF Numbers
    <3>3. 11800 * Sum(LineVats) + 0 * Sum(Nothings)
            <= 2124 * Sum(StandardNets) + 0 * Sum(Nothings) + 0 * Sum(Nothings)
               + 6800 * Cardinality(Payloads!Rows)
      BY ONLY <3>1, <3>2, SumsCompareTermwise
    <3>4. Sum(Nothings) = 0
      BY SumsOfInvoice
    <3>. QED  BY ONLY <1>1, <1>3, <3>3, <3>4, SMTT(60)
  <2>3. 2124 * z <= 11800 * t + 6800 * n
    <3>1. Compared(Payloads!Rows, 2124, StandardNets, 0, Nothings,
                   11800, LineVats, 0, Nothings, 0, Nothings, 6800)
      BY <1>2, <1>6, RowVatIsCharged, SumsOfInvoice DEF StandardNets, Compared
    <3>2. /\ IsFiniteSet(Payloads!Rows)
          /\ LineVats \in Numbers(Payloads!Rows) /\ Nothings \in Numbers(Payloads!Rows)
          /\ StandardNets \in Numbers(Payloads!Rows)
      BY <1>2, RowsOfInvoice, SumsOfInvoice DEF Numbers
    <3>3. 2124 * Sum(StandardNets) + 0 * Sum(Nothings)
            <= 11800 * Sum(LineVats) + 0 * Sum(Nothings) + 0 * Sum(Nothings)
               + 6800 * Cardinality(Payloads!Rows)
      BY ONLY <3>1, <3>2, SumsCompareTermwise
    <3>4. Sum(Nothings) = 0
      BY SumsOfInvoice
    <3>. QED  BY ONLY <1>1, <1>3, <3>3, <3>4, SMTT(60)
  <2>4. t <= w + n
    BY <1>3, <2>1, <2>2
  <2>5. w <= t + n
    BY <1>3, <2>1, <2>3
  <2>6. Payloads!Distance(t, w) <= n
    BY ONLY <1>3, <2>1, <2>4, <2>5 DEF Payloads!Distance
  <2>7. Payloads!Distance(t, w) \in Nat
    BY ONLY <1>3, <2>1 DEF Payloads!Distance
  <2>. QED  BY ONLY <1>1, <1>3, <1>4, <2>6, <2>7
<1>. QED  BY <1>5, <1>6

(***************************************************************************)
(* The payload is what is made of the invoice, once and for all.           *)
(***************************************************************************)
PayloadInv ==
    /\ InvoiceIsOne
    /\ payload.state \in {"none", "refused"} \/ (payload = Payloads!Sent /\ Payloads!Reconciled)

LEMMA InitPayload == part = "payloads" /\ DocumentsInit => PayloadInv
BY DEF DocumentsInit, Payloads!Init, PayloadInv, InvoiceIsOne, Payloads!NoPayload

LEMMA SameInvoiceSameSent ==
    ASSUME invoice' = invoice, provider' = provider
    PROVE  /\ Payloads!Sent' = Payloads!Sent /\ (Payloads!Reconciled <=> Payloads!Reconciled')
           /\ (InvoiceIsOne => InvoiceIsOne')
<1>1. /\ Payloads!Rows' = Payloads!Rows /\ Payloads!Standard' = Payloads!Standard
      /\ Payloads!Included' = Payloads!Included
  BY DEF Payloads!Rows, Payloads!Standard, Payloads!Included
<1>2. \A i : Payloads!Amount(i)' = Payloads!Amount(i)
  BY DEF Payloads!Amount
<1>3. \A i : Payloads!Share(i)' = Payloads!Share(i)
  BY <1>2 DEF Payloads!Share
<1>4. \A i : Payloads!ShareShown(i)' = Payloads!ShareShown(i)
  BY <1>3 DEF Payloads!ShareShown
<1>5. \A i : Payloads!Net(i)' = Payloads!Net(i)
  BY <1>1, <1>2, <1>3 DEF Payloads!Net
<1>6. \A i : Payloads!VatAmount(i)' = Payloads!VatAmount(i)
  BY <1>1, <1>2, <1>3, <1>4, <1>5 DEF Payloads!VatAmount, Payloads!Exclusive, Payloads!Missed
<1>7. \A i : Payloads!Line(i)' = Payloads!Line(i)
  BY <1>6 DEF Payloads!Line, Payloads!UnitPrice
<1>8. \A i : Payloads!LineVat(i)' = Payloads!LineVat(i)
  BY <1>1, <1>7 DEF Payloads!LineVat
<1>9. Payloads!Sent' = Payloads!Sent
  BY <1>1, <1>7, <1>8 DEF Payloads!Sent
<1>10. Payloads!Charged' = Payloads!Charged
  BY <1>1, <1>2, <1>5 DEF Payloads!Charged
<1>11. (Payloads!Reconciled <=> Payloads!Reconciled')
  BY <1>9, <1>10 DEF Payloads!Reconciled, Payloads!RoundedTotal
<1>. QED  BY <1>9, <1>11 DEF InvoiceIsOne

LEMMA PayloadKeeps == PayloadInv /\ [Payloads!Next]_(Payloads!vars) => PayloadInv'
<1>. SUFFICES ASSUME PayloadInv, [Payloads!Next]_(Payloads!vars) PROVE PayloadInv'
  OBVIOUS
<1>1. invoice' = invoice /\ provider' = provider
  BY DEF Payloads!Next, Payloads!Send, Payloads!Refuse, Payloads!vars
<1>2. /\ Payloads!Sent' = Payloads!Sent /\ (Payloads!Reconciled <=> Payloads!Reconciled')
      /\ InvoiceIsOne'
  BY <1>1, SameInvoiceSameSent DEF PayloadInv
<1>3. CASE Payloads!Send
  BY <1>2, <1>3 DEF Payloads!Send, PayloadInv
<1>4. CASE Payloads!Refuse
  BY <1>2, <1>4 DEF Payloads!Refuse, Payloads!Refusal, PayloadInv
<1>5. CASE UNCHANGED Payloads!vars
  BY <1>2, <1>5 DEF Payloads!vars, PayloadInv
<1>. QED  BY <1>3, <1>4, <1>5 DEF Payloads!Next

LEMMA InvDeclaresCharged == PayloadInv => Payloads!DeclaredIsCharged
<1>. SUFFICES ASSUME InvoiceIsOne, payload = Payloads!Sent, Payloads!Reconciled
              PROVE  Payloads!DeclaredIsCharged
  BY DEF PayloadInv, Payloads!DeclaredIsCharged
<1>1. (invoice.foreign /\ invoice.off) \/ Payloads!MissesVat \/ payload.total + Payloads!Slack >= Payloads!Charged
  BY NoLessIsDeclared
<1>2. ~invoice.off /\ invoice.taxed => payload.total <= Payloads!Charged + Payloads!Slack
  BY NoMoreIsDeclared
<1>3. ~invoice.off /\ invoice.taxed /\ provider = "DIRM" /\ invoice.vat =>
          Payloads!Distance(payload.vat, Payloads!VatCharged) <= Payloads!Slack
  BY VatIsDeclared
<1>4. provider = "Pergamon" => Payloads!Distance(payload.total, Payloads!RoundedTotal) <= 5
  BY DEF Payloads!Reconciled
<1>. QED  BY <1>1, <1>2, <1>3, <1>4 DEF Payloads!DeclaredIsCharged

\* Of any invoice, with any prices and quantities and any number of rows, each of
\* the five payloads tells TRA what is charged: no less but for rounding, unless a
\* discount is in a foreign currency or makes the sum of doubles miss the amount
\* of a row that VAT is charged on top of, and no more where there is no discount
\* and VAT is charged; DIRM's VAT is the one charged, and Pergamon's total the one
\* to be paid (get_payload of the five providers).
THEOREM PayloadsDeclareCharges == DocumentsSpec => []DeclaredIsCharged
<1>. DEFINE I == part = "payloads" => PayloadInv
<1>1. DocumentsInit => I
  BY InitPayload
<1>2. I /\ [DocumentsNext]_documentVars => I'
  <2>. SUFFICES ASSUME I, [DocumentsNext]_documentVars PROVE I'
    OBVIOUS
  <2>1. part' = part
    BY DEF DocumentsNext, documentVars
  <2>2. CASE part = "payloads"
    <3>1. [Payloads!Next]_(Payloads!vars)
      BY <2>2 DEF DocumentsNext, documentVars, payloadVars, Payloads!vars
    <3>. QED  BY <2>1, <2>2, <3>1, PayloadKeeps
  <2>. QED  BY <2>1, <2>2
<1>3. I => DeclaredIsCharged
  BY InvDeclaresCharged DEF DeclaredIsCharged
<1>. QED  BY <1>1, <1>2, <1>3, PTL DEF DocumentsSpec

(***************************************************************************)
(* BalanceTimeline.                                                        *)
(***************************************************************************)
LEMMA LineTotalIsSum == \A f : Chart!Total(f) = Sum(f)
BY DEF Chart!Total, Sum, Chart!FoldFunction, Chart!FoldFunctionOnSet, Chart!MapThenFoldSet,
    Batches!FoldFunction, Batches!FoldFunctionOnSet, Batches!MapThenFoldSet

LEMMA ChartRange == Chart!RangeAssumption
BY DocumentsAssumption DEF DocumentsAssumption

\* Sums of sums may be taken in either order.
LEMMA SumsTurn ==
    ASSUME NEW D, IsFiniteSet(D), NEW E, IsFiniteSet(E), NEW f \in [D -> [E -> Int]]
    PROVE  Sum([d \in D |-> Sum(f[d])]) = Sum([e \in E |-> Sum([d \in D |-> f[d][e]])])
<1>. DEFINE line == [d \in D |-> Sum(f[d])]
            column(e) == [d \in D |-> f[d][e]]
            Part(e) == CHOOSE h : Sums(h, column(e), D) /\ Sum(column(e)) = h[D]
            across(s) == [e \in E |-> Part(e)[s]]
<1>1. PICK R : Sums(R, line, D) /\ Sum(line) = R[D]
  BY SumIsOne
<1>2. \A e \in E : Sums(Part(e), column(e), D) /\ Sum(column(e)) = Part(e)[D]
  BY SumIsOne
<1>. DEFINE T == {s \in SUBSET D : across(s) \in [E -> Int] /\ R[s] = Sum(across(s))}
<1>. HIDE DEF Part
<1>3. {} \in T
  <2>1. \A e \in E : Part(e)[{}] = 0
    BY <1>2, SumsTake
  <2>2. across({}) \in [E -> Int] /\ \A e \in E : across({})[e] = 0
    BY <2>1
  <2>3. R[{}] = 0
    BY <1>1, SumsTake
  <2>4. Sum(across({})) = 0
    <3>. HIDE DEF across
    <3>. QED  BY <2>2, IntSumOfNothing
  <2>. QED  BY <2>2, <2>3, <2>4
<1>4. ASSUME NEW s \in SUBSET D, s # {}, Less(s) \in T PROVE s \in T
  <2>1. Pick(s) \in D /\ f[Pick(s)] \in [E -> Int]
    BY <1>4, LessIsSmaller
  <2>2. R[s] = Sum(f[Pick(s)]) + R[Less(s)]
    BY <1>1, <1>4, <2>1, SumsTake
  <2>3. \A e \in E : Part(e)[s] = f[Pick(s)][e] + Part(e)[Less(s)]
    <3>1. \A e \in E : Part(e)[s] = column(e)[Pick(s)] + Part(e)[Less(s)]
      <4>. HIDE DEF column
      <4>. QED  BY <1>2, <1>4, SumsTake
    <3>. QED  BY <2>1, <3>1
  <2>4. across(Less(s)) \in [E -> Int] /\ R[Less(s)] = Sum(across(Less(s)))
    BY <1>4
  <2>5. across(s) \in [E -> Int] /\ \A e \in E : across(s)[e] = f[Pick(s)][e] + across(Less(s))[e]
    <3>1. \A e \in E : across(Less(s))[e] \in Int /\ f[Pick(s)][e] \in Int
      BY <2>1, <2>4
    <3>2. \A e \in E : across(Less(s))[e] = Part(e)[Less(s)]
      OBVIOUS
    <3>3. \A e \in E : Part(e)[s] \in Int
      BY <2>3, <3>1, <3>2
    <3>. QED  BY <2>3, <3>2, <3>3
  <2>. HIDE DEF across
  <2>6. Sum(across(s)) = Sum(f[Pick(s)]) + Sum(across(Less(s)))
    BY <2>1, <2>4, <2>5, IntSumAdds
  <2>. QED  BY <1>4, <2>2, <2>4, <2>5, <2>6
<1>5. D \in T
  <2>. HIDE DEF T
  <2>. QED  BY <1>3, <1>4, TakeInduction
<1>6. across(D) = [e \in E |-> Sum(column(e))]
  BY <1>2
<1>. QED  BY <1>1, <1>5, <1>6

\* Of finitely many numbers one is the largest.
LEMMA MostExists ==
    ASSUME NEW D, IsFiniteSet(D), NEW f \in [D -> Int]
    PROVE  \A d \in D : f[d] <= Chart!Max({0} \cup {f[e] : e \in D})
<1>. DEFINE V(s) == {0} \cup {f[e] : e \in s}
            T == {s \in SUBSET D : \E m \in V(s) : \A x \in V(s) : m >= x}
<1>1. {} \in T
  OBVIOUS
<1>2. ASSUME NEW s \in SUBSET D, s # {}, Less(s) \in T PROVE s \in T
  <2>1. PICK m \in V(Less(s)) : \A x \in V(Less(s)) : m >= x
    BY <1>2
  <2>2. Pick(s) \in s /\ Less(s) = s \ {Pick(s)} /\ f[Pick(s)] \in Int
    BY <1>2, LessIsSmaller DEF Less
  <2>3. V(s) = V(Less(s)) \cup {f[Pick(s)]}
    BY <2>2
  <2>4. V(s) \subseteq Int
    OBVIOUS
  <2>. HIDE DEF V
  <2>5. CASE m >= f[Pick(s)]
    BY <2>1, <2>3, <2>5, <1>2
  <2>6. CASE ~(m >= f[Pick(s)])
    <3>1. \A x \in V(s) : f[Pick(s)] >= x
      BY <2>1, <2>2, <2>3, <2>4, <2>6
    <3>. QED  BY <2>3, <3>1, <1>2
  <2>. QED  BY <2>5, <2>6
<1>3. D \in T
  <2>. HIDE DEF T
  <2>. QED  BY <1>1, <1>2, TakeInduction
<1>4. PICK m \in V(D) : \A x \in V(D) : m >= x
  BY <1>3
<1>5. V(D) \subseteq Int
  OBVIOUS
<1>6. \A x \in V(D) : Chart!Max(V(D)) >= x /\ Chart!Max(V(D)) \in V(D)
  <2>. HIDE DEF V
  <2>. QED  BY <1>4 DEF Chart!Max
<1>7. \A d \in D : f[d] \in V(D)
  OBVIOUS
<1>. HIDE DEF V
<1>8. \A d \in D : f[d] <= Chart!Max(V(D))
  BY <1>5, <1>6, <1>7
<1>. QED  BY <1>8 DEF V

(***************************************************************************)
(* What is looked at of an account until a day, of those whose line the    *)
(* chart gets right.  The days come in order, so what a line shows of a    *)
(* day is the sum of what is looked at until then.                         *)
(***************************************************************************)
Looked(a, d) == [c \in 1..d |-> IF <<c, a>> \in sums THEN 0 ELSE posted[c][a]]

DayOrder ==
    \A p \in sums, d \in Chart!Dates, a \in Chart!Accounts :
        d > p[1] /\ posted[d][a] # 0 => <<d, a>> \in sums

LineShows(a) ==
    /\ running[a] = Sum(Looked(a, filters.to))
    /\ \A d \in Chart!Dates : chart[d][a] = Sum(Looked(a, d))

ChartInv ==
    /\ Chart!TypeOK /\ filters.from <= filters.to
    /\ DayOrder
    /\ \A a \in Chart!Accounts : Chart!Known(a) => LineShows(a)

LEMMA ChartDays ==
    ASSUME Chart!TypeOK, filters.from <= filters.to
    PROVE  /\ filters.from \in Nat \ {0} /\ filters.to \in Nat /\ filters.to \in Chart!Dates
           /\ filters.from \in Chart!Dates
           /\ \A d \in Chart!Dates : d \in Nat /\ filters.from <= d /\ d <= filters.to /\ 1..d \subseteq Chart!Day
           /\ \A d \in 1..filters.to : d \in Chart!Day
           /\ \A c, d \in Nat : c <= d => 1..c \in SUBSET (1..d)
           /\ IsFiniteSet(Chart!Accounts)
           /\ \A d \in Nat : IsFiniteSet(1..d)
<1>1. /\ filters.from \in 1..Days /\ filters.to \in 1..Days /\ Days \in Nat
  BY ChartRange DEF Chart!TypeOK, Chart!Filters, Chart!Day, Chart!RangeAssumption
<1>2. \A d \in Nat : IsFiniteSet(1..d)
  <2>1. \A d \in Nat : d \in Int /\ 1 \in Int
    OBVIOUS
  <2>. QED  BY <2>1, FS_Interval
<1>3. IsFiniteSet(Chart!Accounts)
  <2>1. IsFiniteSet(Account) /\ Chart!Accounts \in SUBSET Account
    <3>1. Chart!IsFiniteSet(Account)
      BY ChartRange DEF Chart!RangeAssumption
    <3>2. IsFiniteSet(Account)
      BY <3>1 DEF Chart!IsFiniteSet, IsFiniteSet
    <3>. QED  BY <3>2 DEF Chart!Accounts
  <2>. HIDE DEF Chart!Accounts
  <2>. QED  BY ONLY <2>1, FS_Subset
<1>. QED  BY <1>1, <1>2, <1>3 DEF Chart!Dates, Chart!Day

\* What is looked at is a sum of numbers.
LEMMA LookedType ==
    ASSUME Chart!TypeOK, filters.from <= filters.to, NEW a \in Chart!Accounts
    PROVE  /\ \A d \in Chart!Day : posted[d][a] \in Int
           /\ \A d \in Chart!Dates : Looked(a, d) \in [1..d -> Int]
<1>1. a \in Account
  BY DEF Chart!Accounts
<1>2. \A d \in Chart!Day : posted[d][a] \in Int
  BY <1>1, ChartRange DEF Chart!TypeOK, Chart!RangeAssumption
<1>3. \A d \in Chart!Dates : 1..d \subseteq Chart!Day
  BY ChartDays
<1>. QED  BY <1>2, <1>3 DEF Looked

\* A point is the sum of all that is looked at if nothing after it is.
LEMMA PointIsAll ==
    ASSUME Chart!TypeOK, filters.from <= filters.to, NEW a \in Chart!Accounts, NEW d \in Chart!Dates,
           \A c \in Chart!Dates : c > d /\ posted[c][a] # 0 => <<c, a>> \in sums
    PROVE  Sum(Looked(a, filters.to)) = Sum(Looked(a, d))
<1>. DEFINE to == filters.to
<1>1. /\ to \in Nat /\ d \in Nat /\ d <= to /\ filters.from \in Nat /\ filters.from <= d
      /\ IsFiniteSet(1..to) /\ 1..d \in SUBSET (1..to) /\ to \in Chart!Dates
  BY ChartDays
<1>2. Looked(a, to) \in [1..to -> Int] /\ Looked(a, d) \in [1..d -> Int]
  BY <1>1, LookedType
<1>3. \A c \in 1..to : Looked(a, to)[c] = IF c \in 1..d THEN Looked(a, d)[c] ELSE 0
  <2>1. \A c \in 1..to : c \notin 1..d => c \in Chart!Dates /\ c > d
    BY <1>1 DEF Chart!Dates
  <2>. QED  BY <1>1, <2>1 DEF Looked
<1>. DEFINE all == 1..to
            some == 1..d
            f == Looked(a, to)
            g == Looked(a, d)
<1>4. /\ IsFiniteSet(all) /\ some \in SUBSET all /\ f \in [all -> Int] /\ g \in [some -> Int]
      /\ \A c \in all : f[c] = IF c \in some THEN g[c] ELSE 0
  BY <1>1, <1>2, <1>3, Zenon
<1>5. Sum(f) = Sum(g)
  <2>. HIDE DEF all, some, f, g
  <2>. QED  BY ONLY <1>4, IntSumOfPart
<1>. QED  BY <1>5

LEMMA BalanceIsSum ==
    \A a, d : /\ Chart!BalanceOn(a, d) = Sum([c \in 1..d |-> posted[c][a]])
BY LineTotalIsSum DEF Chart!BalanceOn

LEMMA InitChart == Chart!Init => ChartInv
<1>. SUFFICES ASSUME Chart!Init PROVE ChartInv
  OBVIOUS
<1>0. filters \in Chart!Filters /\ filters.from <= filters.to
  BY DEF Chart!Init
<1>1. \A a \in Chart!Accounts : Chart!Opening(a) \in Int
  <2>. SUFFICES ASSUME NEW a \in Chart!Accounts PROVE Chart!Opening(a) \in Int
    OBVIOUS
  <2>1. /\ filters.from \in Nat /\ IsFiniteSet(1..filters.from) /\ 1..filters.from \subseteq Chart!Day
    <3>1. filters.from \in 1..Days /\ Days \in Nat /\ 1 \in Int /\ filters.from \in Int
      BY <1>0, ChartRange DEF Chart!Filters, Chart!Day, Chart!RangeAssumption
    <3>2. IsFiniteSet(1..filters.from)
      BY <3>1, FS_Interval
    <3>. QED  BY <3>1, <3>2 DEF Chart!Day
  <2>2. \A d \in Chart!Day : posted[d][a] \in Int
    BY ChartRange DEF Chart!Init, Chart!RangeAssumption, Chart!Accounts
  <2>. DEFINE f == [c \in 1..filters.from |-> posted[c][a]]
  <2>3. f \in [1..filters.from -> Int]
    BY <2>1, <2>2
  <2>. HIDE DEF f
  <2>4. Sum(f) \in Int
    BY <2>1, <2>3, SumIsInt
  <2>. QED  BY <2>4, BalanceIsSum DEF f, Chart!Opening
<1>2. running \in [Chart!Accounts -> Int]
  BY <1>1 DEF Chart!Init
<1>3. Chart!TypeOK
  BY <1>0, <1>2 DEF Chart!Init, Chart!TypeOK
<1>4. DayOrder
  BY DEF Chart!Init, DayOrder
<1>5. ASSUME NEW a \in Chart!Accounts, Chart!Known(a) PROVE LineShows(a)
  <2>. DEFINE open == [c \in 1..filters.from |-> posted[c][a]]
  <2>1. \A d \in Chart!Dates : Sum(Looked(a, d)) = Sum(open)
    <3>. SUFFICES ASSUME NEW d \in Chart!Dates PROVE Sum(Looked(a, d)) = Sum(open)
      OBVIOUS
    <3>1. /\ d \in Nat /\ filters.from \in Nat \ {0} /\ filters.from <= d /\ d <= filters.to
          /\ IsFiniteSet(1..d) /\ 1..filters.from \in SUBSET (1..d) /\ 1..d \subseteq Chart!Day
          /\ filters.to \in Nat
      BY <1>0, <1>3, ChartDays
    <3>2. Looked(a, d) \in [1..d -> Int] /\ open \in [1..filters.from -> Int]
      BY <1>0, <1>3, <3>1, LookedType
    <3>3. posted[filters.from][a] = 0
      BY <1>5 DEF Chart!Known
    <3>4. ASSUME NEW c \in 1..d
          PROVE  Looked(a, d)[c] = IF c \in 1..filters.from THEN open[c] ELSE 0
      <4>1. <<c, a>> \in sums <=> c \in Chart!Dates /\ posted[c][a] # 0
        BY DEF Chart!Init
      <4>2. c \in Chart!Dates <=> filters.from <= c
        BY <3>1, <3>4 DEF Chart!Dates
      <4>3. Looked(a, d)[c] = IF <<c, a>> \in sums THEN 0 ELSE posted[c][a]
        BY DEF Looked
      <4>. QED  BY <3>1, <3>3, <4>1, <4>2, <4>3
    <3>. DEFINE all == 1..d
                some == 1..filters.from
                f == Looked(a, d)
    <3>5. /\ IsFiniteSet(all) /\ some \in SUBSET all /\ f \in [all -> Int] /\ open \in [some -> Int]
          /\ \A c \in all : f[c] = IF c \in some THEN open[c] ELSE 0
      <4>. HIDE DEF open
      <4>. QED  BY <3>1, <3>2, <3>4, Zenon
    <3>6. Sum(f) = Sum(open)
      <4>. HIDE DEF all, some, f, open
      <4>. QED  BY ONLY <3>5, IntSumOfPart
    <3>. QED  BY <3>6
  <2>2. running[a] = Sum(open) /\ \A d \in Chart!Dates : chart[d][a] = Sum(open)
    BY BalanceIsSum DEF Chart!Init, Chart!Opening
  <2>3. filters.to \in Chart!Dates
    BY <1>0, <1>3, ChartDays
  <2>. HIDE DEF open
  <2>. QED  BY <2>1, <2>2, <2>3 DEF LineShows
<1>. QED  BY <1>0, <1>3, <1>4, <1>5 DEF ChartInv

LEMMA MoveKeeps ==
    ASSUME ChartInv, NEW day \in Chart!Dates, NEW moved \in Chart!Accounts, Chart!Move(day, moved)
    PROVE  ChartInv'
<1>1. /\ Chart!TypeOK /\ filters.from <= filters.to /\ DayOrder
      /\ \A a \in Chart!Accounts : Chart!Known(a) => LineShows(a)
  BY DEF ChartInv
<1>2. /\ UNCHANGED <<posted, account, filters>>
      /\ Chart!Dates' = Chart!Dates /\ Chart!Accounts' = Chart!Accounts /\ Chart!Day' = Chart!Day
      /\ \A a : Chart!Known(a)' = Chart!Known(a)
  BY DEF Chart!Move, Chart!Dates, Chart!Accounts, Chart!Day, Chart!Known
<1>3. /\ <<day, moved>> \in sums /\ sums' = sums \ {<<day, moved>>}
      /\ \A p \in sums : day <= p[1]
      /\ running' = [running EXCEPT ![moved] = @ + Chart!Net(day, moved)]
      /\ chart' = [c \in Chart!Dates |-> IF c \in Chart!Onwards(day) THEN [chart[c] EXCEPT ![moved] = running'[moved]]
                                         ELSE chart[c]]
  BY DEF Chart!Move
<1>4. posted[day][moved] \in Int /\ day \in Nat /\ day \in Chart!Day
  <2>1. day \in Nat /\ day \in Chart!Day
    BY <1>1, ChartDays
  <2>. QED  BY <1>1, <2>1, LookedType
<1>5. Chart!TypeOK'
  <2>1. Chart!Net(day, moved) \in Int
    BY <1>4 DEF Chart!Net
  <2>2. running' \in [Chart!Accounts -> Int]
    BY <1>1, <1>3, <2>1 DEF Chart!TypeOK
  <2>3. chart' \in [Chart!Dates -> [Chart!Accounts -> Int]]
    BY <1>1, <1>3, <2>2 DEF Chart!TypeOK
  <2>. QED  BY <1>1, <1>2, <1>3, <2>2, <2>3 DEF Chart!TypeOK
<1>6. DayOrder'
  <2>. SUFFICES ASSUME NEW p \in sums', NEW d \in Chart!Dates, NEW a \in Chart!Accounts,
                       d > p[1], posted[d][a] # 0
                PROVE  <<d, a>> \in sums'
    BY <1>2 DEF DayOrder
  <2>1. p \in sums /\ <<d, a>> \in sums /\ day <= p[1]
    BY <1>1, <1>3 DEF DayOrder
  <2>2. p[1] \in Chart!Dates
    BY <1>1, <2>1 DEF Chart!TypeOK
  <2>3. p[1] \in Nat /\ d \in Nat
    BY <1>1, <2>2, ChartDays
  <2>4. d # day
    BY <1>4, <2>1, <2>3
  <2>. QED  BY <1>3, <2>1, <2>4
<1>7. ASSUME NEW a \in Chart!Accounts, Chart!Known(a), a # moved PROVE LineShows(a)'
  <2>1. \A d : Looked(a, d)' = Looked(a, d)
    BY <1>2, <1>3, <1>7 DEF Looked
  <2>2. running'[a] = running[a] /\ \A d \in Chart!Dates : chart'[d][a] = chart[d][a]
    BY <1>1, <1>3, <1>7 DEF Chart!TypeOK
  <2>3. ASSUME NEW d PROVE Sum(Looked(a, d))' = Sum(Looked(a, d))
    <3>1. Looked(a, d)' = Looked(a, d)
      BY <2>1
    <3>. QED  BY <3>1 DEF Sum, Batches!FoldFunction, Batches!FoldFunctionOnSet, Batches!MapThenFoldSet
  <2>. QED  BY <1>1, <1>2, <1>7, <2>2, <2>3 DEF LineShows
<1>8. ASSUME Chart!Known(moved) PROVE LineShows(moved)'
  <2>. DEFINE more == posted[day][moved]
  <2>1. running'[moved] = Sum(Looked(moved, filters.to)) + more
    <3>1. Chart!Net(day, moved) = more
      BY <1>4, <1>8 DEF Chart!Net, Chart!Known
    <3>. QED  BY <1>1, <1>3, <1>8, <3>1 DEF LineShows, Chart!TypeOK
  <2>2. ASSUME NEW d \in Chart!Dates, day <= d
        PROVE  Sum(Looked(moved, d))' = Sum(Looked(moved, filters.to)) + more
    <3>1. Sum(Looked(moved, filters.to)) = Sum(Looked(moved, d))
      <4>1. \A c \in Chart!Dates : c > d /\ posted[c][moved] # 0 => <<c, moved>> \in sums
        <5>1. \A c \in Chart!Dates : c > d => c > day
          <6>1. d \in Nat /\ \A c \in Chart!Dates : c \in Nat
            BY <1>1, ChartDays
          <6>. QED  BY <1>4, <2>2, <6>1
        <5>2. <<day, moved>>[1] = day
          OBVIOUS
        <5>. QED  BY <1>1, <1>3, <5>1, <5>2 DEF DayOrder
      <4>. QED  BY <1>1, <4>1, PointIsAll
    <3>2. d \in Nat /\ IsFiniteSet(1..d) /\ day \in 1..d
      <4>1. d \in Nat /\ IsFiniteSet(1..d) /\ day \in Nat \ {0}
        BY <1>1, ChartDays
      <4>. QED  BY <2>2, <4>1
    <3>3. Looked(moved, d) \in [1..d -> Int] /\ Looked(moved, d)[day] = 0
      BY <1>1, <1>3, <3>2, LookedType DEF Looked
    <3>4. Looked(moved, d)' = [Looked(moved, d) EXCEPT ![day] = more]
      BY <1>2, <1>3, <3>2 DEF Looked
    <3>5. Sum([Looked(moved, d) EXCEPT ![day] = more]) = Sum(Looked(moved, d)) + more
      BY <1>4, <3>2, <3>3, IntSumGains, ZenonT(60)
    <3>6. Sum(Looked(moved, d))' = Sum(Looked(moved, d)')
      BY DEF Sum, Batches!FoldFunction, Batches!FoldFunctionOnSet, Batches!MapThenFoldSet
    <3>. QED  BY <3>1, <3>4, <3>5, <3>6
  <2>3. ASSUME NEW d \in Chart!Dates, ~(day <= d)
        PROVE  Sum(Looked(moved, d))' = Sum(Looked(moved, d))
    <3>1. d \in Nat
      BY <1>1, ChartDays
    <3>2. Looked(moved, d)' = Looked(moved, d)
      BY <1>2, <1>3, <1>4, <2>3, <3>1 DEF Looked
    <3>. QED  BY <3>2 DEF Sum, Batches!FoldFunction, Batches!FoldFunctionOnSet, Batches!MapThenFoldSet
  <2>4. \A d \in Chart!Dates : day <= d <=> d \in Chart!Onwards(day)
    <3>1. \A d \in Chart!Dates : d \in Nat
      BY <1>1, ChartDays
    <3>. QED  BY <1>4, <3>1 DEF Chart!Onwards
  <2>5. \A d \in Chart!Dates : chart'[d][moved] = IF day <= d THEN running'[moved] ELSE chart[d][moved]
    BY <1>1, <1>3, <2>4 DEF Chart!TypeOK
  <2>6. filters.to \in Chart!Dates /\ day <= filters.to
    BY <1>1, ChartDays
  <2>7. \A d \in Chart!Dates : chart[d][moved] = Sum(Looked(moved, d))
    BY <1>1, <1>8 DEF LineShows
  <2>8. running'[moved] = Sum(Looked(moved, filters.to))'
    BY <1>2, <2>1, <2>2, <2>6
  <2>9. \A d \in Chart!Dates : chart'[d][moved] = Sum(Looked(moved, d))'
    BY <2>1, <2>2, <2>3, <2>5, <2>7
  <2>. HIDE DEF more
  <2>. QED  BY <1>2, <2>8, <2>9 DEF LineShows
<1>. QED  BY <1>1, <1>2, <1>5, <1>6, <1>7, <1>8 DEF ChartInv

LEMMA ChartKeeps == ChartInv /\ [Chart!Next]_(Chart!vars) => ChartInv'
<1>. SUFFICES ASSUME ChartInv, [Chart!Next]_(Chart!vars) PROVE ChartInv'
  OBVIOUS
<1>1. CASE Chart!Next
  BY <1>1, MoveKeeps DEF Chart!Next
<1>2. CASE UNCHANGED Chart!vars
  <2>. USE DEF Chart!vars, Chart!Dates, Chart!Accounts, Chart!Day
  <2>1. Chart!TypeOK' = Chart!TypeOK /\ filters' = filters
    BY <1>2 DEF Chart!TypeOK
  <2>2. DayOrder' = DayOrder
    BY <1>2 DEF DayOrder
  <2>3. \A a : Chart!Known(a)' = Chart!Known(a) /\ LineShows(a)' = LineShows(a)
    BY <1>2 DEF Chart!Known, LineShows, Looked, Sum, Batches!FoldFunction, Batches!FoldFunctionOnSet, Batches!MapThenFoldSet
  <2>4. Chart!Accounts' = Chart!Accounts
    BY <1>2
  <2>. QED  BY <2>1, <2>2, <2>3, <2>4 DEF ChartInv
<1>. QED  BY <1>1, <1>2

LEMMA InvShowsBalances == ChartInv => Chart!LinesAreBalances
<1>. SUFFICES ASSUME ChartInv, sums = {} PROVE Chart!LinesAreBalances
  BY DEF Chart!LinesAreBalances
<1>1. /\ Chart!TypeOK /\ filters.from <= filters.to
      /\ \A a \in Chart!Accounts : Chart!Known(a) => LineShows(a)
  BY DEF ChartInv
<1>2. \A a \in Chart!Accounts : Chart!Known(a) => \A d \in Chart!Dates : chart[d][a] = Chart!BalanceOn(a, d)
  <2>1. \A a, d : Looked(a, d) = [c \in 1..d |-> posted[c][a]]
    BY DEF Looked
  <2>. QED  BY <1>1, <2>1, BalanceIsSum DEF LineShows
<1>. DEFINE to == filters.to
<1>3. /\ to \in Chart!Dates /\ to \in Nat /\ IsFiniteSet(1..to) /\ IsFiniteSet(Chart!Accounts)
      /\ chart[to] \in [Chart!Accounts -> Int]
  BY <1>1, ChartDays DEF Chart!TypeOK
<1>4. ASSUME \A a \in Chart!Accounts : Chart!Known(a)
      PROVE  /\ Chart!TotalBalance = Chart!Total([d \in 1..to |-> Chart!Total([a \in Chart!Accounts |-> posted[d][a]])])
             /\ \A a \in Chart!Accounts : Chart!BalanceOn(a, to) <= Chart!Highest
  <2>1. \A a \in Chart!Accounts : chart[to][a] = Chart!BalanceOn(a, to)
    BY <1>2, <1>3, <1>4
  <2>. DEFINE f == [d \in 1..to |-> [a \in Chart!Accounts |-> posted[d][a]]]
  <2>2. f \in [1..to -> [Chart!Accounts -> Int]]
    <3>1. \A a \in Chart!Accounts, d \in 1..to : posted[d][a] \in Int
      BY <1>1, LookedType, ChartDays
    <3>. QED  BY <3>1
  <2>3. \A d \in 1..to, a \in Chart!Accounts : f[d][a] = posted[d][a]
    OBVIOUS
  <2>4. \A d \in 1..to : f[d] = [a \in Chart!Accounts |-> posted[d][a]]
    OBVIOUS
  <2>. HIDE DEF f
  <2>5. Sum([d \in 1..to |-> Sum(f[d])]) = Sum([a \in Chart!Accounts |-> Sum([d \in 1..to |-> f[d][a]])])
    <3>. DEFINE days == 1..to
                all == Chart!Accounts
    <3>1. IsFiniteSet(days) /\ IsFiniteSet(all) /\ f \in [days -> [all -> Int]]
      BY <1>3, <2>2
    <3>2. Sum([d \in days |-> Sum(f[d])]) = Sum([a \in all |-> Sum([d \in days |-> f[d][a]])])
      <4>. HIDE DEF days, all
      <4>. QED  BY ONLY <3>1, SumsTurn
    <3>. QED  BY <3>2
  <2>6. [a \in Chart!Accounts |-> Sum([d \in 1..to |-> f[d][a]])] = chart[to]
    <3>1. \A a \in Chart!Accounts : [d \in 1..to |-> f[d][a]] = [d \in 1..to |-> posted[d][a]]
      BY <2>3
    <3>2. \A a \in Chart!Accounts : Sum([d \in 1..to |-> f[d][a]]) = chart[to][a]
      BY <2>1, <3>1, BalanceIsSum
    <3>. QED  BY <1>3, <3>2
  <2>7. Chart!TotalBalance = Sum(chart[to])
    BY LineTotalIsSum DEF Chart!TotalBalance, Chart!Latest
  <2>8. Chart!Total([d \in 1..to |-> Chart!Total([a \in Chart!Accounts |-> posted[d][a]])])
        = Sum([d \in 1..to |-> Sum(f[d])])
    <3>1. \A g : Chart!Total(g) = Sum(g)
      BY LineTotalIsSum
    <3>2. \A d \in 1..to : Chart!Total([a \in Chart!Accounts |-> posted[d][a]]) = Sum(f[d])
      BY <2>4, <3>1
    <3>. HIDE DEF to
    <3>. QED  BY <3>1, <3>2
  <2>9. \A a \in Chart!Accounts : chart[to][a] <= Chart!Highest
    <3>. DEFINE last == chart[to]
    <3>1. Chart!Highest = Chart!Max({0} \cup {last[a] : a \in Chart!Accounts})
      BY DEF Chart!Highest, Chart!Latest
    <3>2. last \in [Chart!Accounts -> Int]
      BY <1>3
    <3>. HIDE DEF last
    <3>3. \A a \in Chart!Accounts : last[a] <= Chart!Max({0} \cup {last[e] : e \in Chart!Accounts})
      BY <1>3, <3>2, MostExists
    <3>. QED  BY <3>1, <3>3 DEF last
  <2>. QED  BY <2>1, <2>5, <2>6, <2>7, <2>8, <2>9
<1>. QED  BY <1>2, <1>4 DEF Chart!LinesAreBalances

\* For any accounts, days and amounts, once the sums of the days are looked at the
\* chart shows of every account that starts from its balance what it holds at the
\* end of each day; the total of the last day is all that was ever posted, and no
\* balance is above the highest (get_account_balances).
THEOREM ChartShowsBalances == DocumentsSpec => [](part = "chart" => Chart!LinesAreBalances)
<1>. DEFINE I == part = "chart" => ChartInv
<1>1. DocumentsInit => I
  BY InitChart DEF DocumentsInit
<1>2. I /\ [DocumentsNext]_documentVars => I'
  <2>. SUFFICES ASSUME I, [DocumentsNext]_documentVars PROVE I'
    OBVIOUS
  <2>1. part' = part
    BY DEF DocumentsNext, documentVars
  <2>2. CASE part = "chart"
    <3>1. [Chart!Next]_(Chart!vars)
      BY <2>2 DEF DocumentsNext, documentVars, chartVars, Chart!vars
    <3>. QED  BY <2>1, <2>2, <3>1, ChartKeeps
  <2>. QED  BY <2>1, <2>2
<1>3. I => (part = "chart" => Chart!LinesAreBalances)
  BY InvShowsBalances
<1>. QED  BY <1>1, <1>2, <1>3, PTL DEF DocumentsSpec

(***************************************************************************)
(* ReceivableSummary.                                                      *)
(***************************************************************************)
LEMMA RowTotalIsSum == \A f : Summary!Sum(f) = Sum(f)
BY DEF Summary!Sum, Sum, Summary!FoldFunction, Summary!FoldFunctionOnSet, Summary!MapThenFoldSet,
    Batches!FoldFunction, Batches!FoldFunctionOnSet, Batches!MapThenFoldSet

LEMMA SummaryData == Summary!SummaryAssumption
BY DocumentsAssumption DEF DocumentsAssumption

(***************************************************************************)
(* ReceivableSummary.  What the report reads, that a row for each entry is *)
(* what the entry stands for, and that each entry with a place is counted  *)
(* once.                                                                   *)
(***************************************************************************)
BalancesInv ==
    /\ IsFiniteSet(balances) /\ balances \subseteq Summary!Entry
    /\ \A e \in balances : Summary!Legal(e)
    /\ Summary!Legible(balances)
    /\ returnOf \in {"invoice", Summary!Nothing}
    /\ \A e \in balances : e.voucher = "return" /\ e.against = "invoice" => returnOf = "invoice"

\* What an entry that is looked at adds to the rows.
Stands(e) == IF Summary!IsReceivable(e) THEN Summary!Outstanding(e) ELSE 0
LookedUp == [e \in Summary!Till |-> IF e \in todo THEN 0 ELSE Stands(e)]

Shows == [i \in DOMAIN summary |-> summary[i].outstanding]

SummaryInv ==
    /\ BalancesInv
    /\ todo \subseteq Summary!Till
    /\ summary \in Seq(Summary!Row)
    /\ Sum(Shows) = Sum(LookedUp)
    /\ \A i \in DOMAIN total : todo = {} /\ total[i].outstanding = Sum(Shows)

LEMMA TillIsFinite ==
    ASSUME BalancesInv
    PROVE  IsFiniteSet(Summary!Till) /\ Summary!Till \subseteq balances /\ \A e \in balances : e.amount \in Int
<1>1. Summary!Till \in SUBSET balances
  BY DEF Summary!Till
<1>2. IsFiniteSet(Summary!Till)
  BY <1>1, FS_Subset DEF BalancesInv
<1>3. \A e \in balances : e.amount \in Int
  BY SummaryData DEF BalancesInv, Summary!Entry, Summary!Amount, Summary!SummaryAssumption
<1>. QED  BY <1>1, <1>2, <1>3

(***************************************************************************)
(* A row: the entry's own amount, and what is against it.                  *)
(***************************************************************************)
Own(e) == IF Summary!IsReceivable(e) /\ ~Summary!Alone(e.voucher) THEN e.amount ELSE 0

Weighs(e, f) == IF Summary!IsReceivable(e) /\ f \in Summary!Against(e) THEN f.amount ELSE 0

Weight(e) == [f \in Summary!Till |-> Weighs(e, f)]

LEMMA AgainstTill == \A e : Summary!Against(e) \in SUBSET Summary!Till
BY DEF Summary!Against, Summary!Till

LEMMA SumOfAmounts ==
    ASSUME BalancesInv, NEW S \in SUBSET Summary!Till
    PROVE  /\ Summary!SumOf(S) \in Int
           /\ Summary!SumOf(S) = Sum([f \in Summary!Till |-> IF f \in S THEN f.amount ELSE 0])
<1>. DEFINE D == Summary!Till
            g == [f \in S |-> f.amount]
            h == [f \in D |-> IF f \in S THEN f.amount ELSE 0]
<1>1. IsFiniteSet(D) /\ S \in SUBSET D /\ \A f \in D : f.amount \in Int
  BY TillIsFinite
<1>2. IsFiniteSet(S)
  BY <1>1, FS_Subset
<1>. HIDE DEF D
<1>3. g \in [S -> Int] /\ h \in [D -> Int] /\ \A f \in D : h[f] = IF f \in S THEN g[f] ELSE 0
  BY <1>1
<1>4. Summary!SumOf(S) = Sum(g)
  BY RowTotalIsSum DEF Summary!SumOf
<1>. HIDE DEF g, h
<1>5. Sum(h) = Sum(g)
  BY ONLY <1>1, <1>3, IntSumOfPart
<1>6. Sum(g) \in Int
  BY ONLY <1>2, <1>3, SumIsInt
<1>. QED  BY <1>4, <1>5, <1>6 DEF D, h

LEMMA RowIsWeight ==
    ASSUME BalancesInv, NEW e \in Summary!Till
    PROVE  /\ Weight(e) \in [Summary!Till -> Int] /\ Own(e) \in Int
           /\ Sum(Weight(e)) \in Int
           /\ Stands(e) = Own(e) + Sum(Weight(e))
<1>. DEFINE D == Summary!Till
            P == {f \in Summary!Against(e) : ~Summary!IsReturn(f.voucher)}
            C == {f \in Summary!Against(e) : Summary!IsReturn(f.voucher)}
            p == [f \in D |-> IF f \in P THEN f.amount ELSE 0]
            c == [f \in D |-> IF f \in C THEN f.amount ELSE 0]
            w == [f \in D |-> IF f \in Summary!Against(e) THEN f.amount ELSE 0]
<1>1. IsFiniteSet(D) /\ e.amount \in Int /\ \A f \in D : f.amount \in Int
  BY TillIsFinite
<1>2. P \in SUBSET D /\ C \in SUBSET D
  BY AgainstTill
<1>3. p \in [D -> Int] /\ c \in [D -> Int] /\ w \in [D -> Int]
  BY <1>1
<1>4. \A f \in D : w[f] = p[f] + c[f]
  BY <1>1
<1>5. /\ Summary!SumOf(P) = Sum(p) /\ Summary!SumOf(P) \in Int
      /\ Summary!SumOf(C) = Sum(c) /\ Summary!SumOf(C) \in Int
  <2>. HIDE DEF P, C
  <2>. QED  BY <1>2, SumOfAmounts
<1>6. Sum(w) = Sum(p) + Sum(c)
  <2>. HIDE DEF D, p, c, w
  <2>. QED  BY ONLY <1>1, <1>3, <1>4, IntSumAdds
<1>7. Summary!Outstanding(e)
      = (IF Summary!Alone(e.voucher) THEN 0 ELSE e.amount) - (0 - Summary!SumOf(P)) - (0 - Summary!SumOf(C))
  BY DEF Summary!Outstanding, Summary!Payments, Summary!Credits
<1>8. CASE Summary!IsReceivable(e)
  <2>1. Weight(e) = w
    BY <1>8 DEF Weight, Weighs
  <2>. HIDE DEF D, P, C, p, c, w
  <2>2. Stands(e) = (IF Summary!Alone(e.voucher) THEN 0 ELSE e.amount) + Sum(w)
    BY <1>1, <1>5, <1>6, <1>7, <1>8 DEF Stands
  <2>. QED  BY <1>1, <1>3, <1>5, <1>6, <1>8, <2>1, <2>2 DEF Own, D
<1>9. CASE ~Summary!IsReceivable(e)
  <2>1. Weight(e) \in [D -> Int] /\ \A f \in D : Weight(e)[f] = 0
    BY <1>9 DEF Weight, Weighs
  <2>2. Sum(Weight(e)) = 0
    <3>1. PICK v : v = Weight(e)
      OBVIOUS
    <3>. HIDE DEF D
    <3>. QED  BY <1>1, <2>1, <3>1, IntSumOfNothing
  <2>. QED  BY <1>9, <2>1, <2>2 DEF Own, Stands
<1>. QED  BY <1>8, <1>9

(***************************************************************************)
(* Each entry that has its place is counted once: as a row of its own, or  *)
(* against one.                                                            *)
(***************************************************************************)
Alone1(f) == Own(f) = f.amount /\ \A e \in Summary!Till : Weighs(e, f) = 0

Against1(f) ==
    /\ Own(f) = 0
    /\ \E e \in Summary!Till : Weighs(e, f) = f.amount /\ \A d \in Summary!Till \ {e} : Weighs(d, f) = 0

LEMMA OnePayment ==
    ASSUME BalancesInv,
           Cardinality({f \in Summary!Till : f.voucher = "payment" /\ Summary!IsReceivable(f)}) = 1
    PROVE  \E e \in Summary!Till :
              /\ e.voucher = "payment" /\ Summary!IsReceivable(e)
              /\ \A d \in Summary!Till : d.voucher = "payment" /\ Summary!IsReceivable(d) => d = e
<1>. DEFINE P == {f \in Summary!Till : f.voucher = "payment" /\ Summary!IsReceivable(f)}
<1>1. IsFiniteSet(P)
  BY TillIsFinite, FS_Subset
<1>2. PICK e : P = {e}
  <2>. HIDE DEF P
  <2>1. Summary!Cardinality(P) = Cardinality(P)
    BY DEF Summary!Cardinality, Cardinality
  <2>. QED  BY <1>1, FS_Singleton DEF P
<1>. QED  BY <1>2

LEMMA CountedOnce ==
    ASSUME BalancesInv, NEW f \in Summary!Till, Summary!Placed(f)
    PROVE  Alone1(f) \/ Against1(f)
<1>. USE DEF Summary!Voucher, Summary!Nothing
<1>1. /\ f \in balances /\ ~f.late /\ \A e \in Summary!Till : e \in balances /\ ~e.late
      /\ \A e \in balances : e \in Summary!Entry /\ Summary!Legal(e)
      /\ f.amount \in Int
  BY TillIsFinite DEF Summary!Till, BalancesInv
<1>2. \A e, d \in balances : e # d /\ e.voucher = d.voucher => e.against # d.against /\ e.late = d.late
  BY DEF BalancesInv, Summary!Legible
<1>3. \A v : v \in Summary!FutureVouchers <=> \E e \in balances : e.voucher = v /\ e.late
  BY DEF Summary!FutureVouchers
<1>4. \A e \in Summary!Till : e.voucher \notin Summary!FutureVouchers
  BY <1>1, <1>2, <1>3
<1>5. \A e : f \in Summary!Against(e) <=> f.against = e.voucher /\ (f # e \/ Summary!Alone(f.voucher))
  BY <1>1 DEF Summary!Against
<1>6. \A e \in balances : e.voucher \in Summary!Voucher /\ e.against \in Summary!Voucher \cup {"order", Summary!Nothing}
  BY <1>1 DEF Summary!Entry
<1>7. \A v : Summary!Alone(v) <=> v = "return" /\ returnOf = "nothing"
  BY DEF Summary!Alone, Summary!IsReturn
<1>8. \A e : Summary!IsReceivable(e) <=>
               \/ e.against \in {"nothing", "order"}
               \/ e.against = e.voucher /\ (e.amount > 0 \/ Summary!Alone(e.voucher))
               \/ e.against \in Summary!FutureVouchers
  BY DEF Summary!IsReceivable
<1>9. ASSUME Summary!IsReceivable(f), ~Summary!Alone(f.voucher),
             \A e \in Summary!Till : Summary!IsReceivable(e) => f \notin Summary!Against(e)
      PROVE  Alone1(f)
  BY <1>9 DEF Alone1, Own, Weighs
<1>10. ASSUME Summary!IsReceivable(f) => Summary!Alone(f.voucher),
              NEW e \in Summary!Till, Summary!IsReceivable(e), f \in Summary!Against(e),
              \A d \in Summary!Till : Summary!IsReceivable(d) /\ f \in Summary!Against(d) => d = e
       PROVE  Against1(f)
  BY <1>10 DEF Against1, Own, Weighs
<1>11. CASE f.against \in {"nothing", "order"}
  <2>1. f.voucher # "return"
    BY <1>1, <1>11 DEF Summary!Legal
  <2>2. \A e \in Summary!Till : f \notin Summary!Against(e)
    BY <1>1, <1>5, <1>6, <1>11
  <2>. QED  BY <1>7, <1>8, <1>9, <1>11, <2>1, <2>2
<1>12. CASE f.against = "invoice"
  <2>1. f.voucher = "return" => ~Summary!Alone("return")
    BY <1>1, <1>7, <1>12 DEF BalancesInv
  <2>2. PICK e \in balances : e.voucher = "invoice"
    BY <1>1, <1>12 DEF BalancesInv, Summary!Legible
  <2>3. /\ \A d \in balances : d.voucher = "invoice" => d.against = "invoice" /\ d.amount = Price /\ Price > 0
        /\ \A d \in balances : d.voucher = "invoice" => d = e
    <3>1. \A d \in balances : d.voucher = "invoice" => d.against = "invoice" /\ d.amount = Price
      BY <1>1 DEF Summary!Legal
    <3>2. Price > 0
      BY SummaryData DEF Summary!SummaryAssumption
    <3>. QED  BY <1>2, <2>2, <3>1, <3>2
  <2>4. CASE e.late
    <3>1. \A d \in Summary!Till : d.voucher # "invoice"
      BY <1>1, <2>3, <2>4
    <3>2. Summary!IsReceivable(f)
      BY <1>3, <1>8, <1>12, <2>2, <2>4
    <3>3. ~Summary!Alone(f.voucher)
      BY <1>7, <2>1
    <3>4. \A d \in Summary!Till : f \notin Summary!Against(d)
      BY <1>5, <1>12, <3>1
    <3>. QED  BY <1>9, <3>2, <3>3, <3>4
  <2>5. CASE ~e.late /\ f # e
    <3>1. e \in Summary!Till /\ Summary!IsReceivable(e) /\ f \in Summary!Against(e)
      BY <1>5, <1>8, <1>12, <2>2, <2>3, <2>5 DEF Summary!Till
    <3>2. ~Summary!IsReceivable(f)
      <4>1. f.voucher # "invoice"
        BY <1>1, <2>3, <2>5
      <4>2. "invoice" \notin Summary!FutureVouchers
        BY <1>4, <2>2, <3>1
      <4>. QED  BY <1>8, <1>12, <4>1, <4>2
    <3>3. \A d \in Summary!Till : Summary!IsReceivable(d) /\ f \in Summary!Against(d) => d = e
      BY <1>1, <1>5, <1>12, <2>3
    <3>. QED  BY <1>10, <3>1, <3>2, <3>3
  <2>6. CASE f = e
    <3>1. Summary!IsReceivable(f) /\ ~Summary!Alone(f.voucher)
      BY <1>7, <1>8, <1>12, <2>2, <2>3, <2>6
    <3>2. \A d \in Summary!Till : f \notin Summary!Against(d)
      BY <1>1, <1>5, <1>12, <2>3, <2>6, <3>1
    <3>. QED  BY <1>9, <3>1, <3>2
  <2>. QED  BY <2>4, <2>5, <2>6
<1>13. CASE f.against = "later"
  <2>1. f.voucher = "payment"
    BY <1>1, <1>13 DEF Summary!Legal
  <2>2. PICK e \in balances : e.voucher = "later"
    BY <1>1, <1>13 DEF BalancesInv, Summary!Legible
  <2>3. \A d \in balances : d.voucher = "later" => d.late
    BY <1>1 DEF Summary!Legal
  <2>4. Summary!IsReceivable(f) /\ ~Summary!Alone(f.voucher)
    BY <1>3, <1>7, <1>8, <1>13, <2>1, <2>2, <2>3
  <2>5. \A d \in Summary!Till : f \notin Summary!Against(d)
    BY <1>1, <1>5, <1>13, <2>3
  <2>. QED  BY <1>9, <2>4, <2>5
<1>14. CASE f.against = "return"
  <2>1. Summary!Alone("return")
    BY <1>7, <1>14 DEF Summary!Placed
  <2>2. PICK e \in balances : e.voucher = "return"
    BY <1>1, <1>14 DEF BalancesInv, Summary!Legible
  <2>3. \A d \in balances : d.voucher = "return" => d.against = "return"
    <3>1. \A d \in balances : d.voucher = "return" => d.against \in {"invoice", "return"}
      BY <1>1 DEF Summary!Legal
    <3>. QED  BY <1>7, <2>1, <3>1 DEF BalancesInv
  <2>4. \A d \in balances : d.voucher = "return" => d = e
    BY <1>2, <2>2, <2>3
  <2>5. CASE e.late
    <3>1. Summary!IsReceivable(f)
      BY <1>3, <1>8, <1>14, <2>2, <2>5
    <3>2. f.voucher # "return"
      BY <1>1, <2>4, <2>5
    <3>3. \A d \in Summary!Till : f \notin Summary!Against(d)
      BY <1>1, <1>5, <1>14, <2>4, <2>5
    <3>. QED  BY <1>7, <1>9, <3>1, <3>2, <3>3
  <2>6. CASE ~e.late
    <3>1. e \in Summary!Till /\ Summary!IsReceivable(e)
      BY <1>8, <2>1, <2>2, <2>3, <2>6 DEF Summary!Till
    <3>2. f \in Summary!Against(e)
      <4>1. f = e => Summary!Alone(f.voucher)
        BY <2>1, <2>2
      <4>. QED  BY <1>5, <1>14, <2>2, <4>1
    <3>3. Summary!IsReceivable(f) => Summary!Alone(f.voucher)
      <4>1. "return" \notin Summary!FutureVouchers
        BY <1>4, <2>2, <3>1
      <4>2. Summary!IsReceivable(f) => f.against = f.voucher
        BY <1>8, <1>14, <4>1
      <4>. QED  BY <1>14, <2>1, <4>2
    <3>4. \A d \in Summary!Till : Summary!IsReceivable(d) /\ f \in Summary!Against(d) => d = e
      BY <1>1, <1>5, <1>14, <2>4
    <3>. QED  BY <1>10, <3>1, <3>2, <3>3, <3>4
  <2>. QED  BY <2>5, <2>6
<1>15. CASE f.against = "payment"
  <2>1. PICK e \in Summary!Till :
              /\ e.voucher = "payment" /\ Summary!IsReceivable(e)
              /\ \A d \in Summary!Till : d.voucher = "payment" /\ Summary!IsReceivable(d) => d = e
    <3>1. Summary!Cardinality({d \in Summary!Till : d.voucher = "payment" /\ Summary!IsReceivable(d)}) = 1
      BY <1>15 DEF Summary!Placed
    <3>2. \A S : Summary!Cardinality(S) = Cardinality(S)
      BY DEF Summary!Cardinality, Cardinality
    <3>. QED  BY <3>1, <3>2, OnePayment
  <2>2. f.voucher = "journal"
    BY <1>1, <1>15 DEF Summary!Legal
  <2>3. f # e /\ f \in Summary!Against(e)
    BY <1>5, <1>15, <2>1, <2>2
  <2>4. ~Summary!IsReceivable(f)
    <3>1. "payment" \notin Summary!FutureVouchers
      BY <1>4, <2>1
    <3>. QED  BY <1>8, <1>15, <2>2, <3>1
  <2>5. \A d \in Summary!Till : Summary!IsReceivable(d) /\ f \in Summary!Against(d) => d = e
    BY <1>5, <1>15, <2>1
  <2>. QED  BY <1>10, <2>1, <2>3, <2>4, <2>5
<1>16. f.against # "journal"
  BY <1>1, <1>6 DEF Summary!Legal
<1>. QED  BY <1>1, <1>6, <1>11, <1>12, <1>13, <1>14, <1>15, <1>16

(***************************************************************************)
(* All rows.                                                               *)
(***************************************************************************)
LEMMA EachIsCounted ==
    ASSUME BalancesInv, NEW f \in Summary!Till, Summary!Placed(f)
    PROVE  Own(f) + Sum([e \in Summary!Till |-> Weighs(e, f)]) = f.amount
<1>. DEFINE D == Summary!Till
            w == [e \in D |-> Weighs(e, f)]
<1>1. IsFiniteSet(D) /\ f.amount \in Int /\ f \in D
  BY TillIsFinite
<1>2. w \in [D -> Int]
  BY <1>1 DEF Weighs
<1>3. CASE Alone1(f)
  <2>1. Own(f) = f.amount /\ \A e \in D : w[e] = 0
    BY <1>3 DEF Alone1
  <2>2. Sum(w) = 0
    <3>. HIDE DEF D, w
    <3>. QED  BY ONLY <1>1, <1>2, <2>1, IntSumOfNothing
  <2>. QED  BY <1>1, <2>1, <2>2
<1>4. CASE Against1(f)
  <2>1. PICK e \in D : w[e] = f.amount /\ \A d \in D \ {e} : w[d] = 0
    BY <1>4 DEF Against1
  <2>2. Sum(w) = w[e]
    <3>. HIDE DEF D, w
    <3>. QED  BY ONLY <1>1, <1>2, <2>1, IntSumOfOne
  <2>3. Own(f) = 0
    BY <1>4 DEF Against1
  <2>. QED  BY <1>1, <2>1, <2>2, <2>3
<1>. QED  BY <1>3, <1>4, CountedOnce

LEMMA AllIsBalance ==
    ASSUME BalancesInv, \A f \in Summary!Till : Summary!Placed(f)
    PROVE  Sum([e \in Summary!Till |-> Stands(e)]) = Summary!SumOf(Summary!Till)
<1>. DEFINE D == Summary!Till
            all == [e \in D |-> Stands(e)]
            own == [e \in D |-> Own(e)]
            W == [e \in D |-> Weight(e)]
            weights == [e \in D |-> Sum(W[e])]
            placed == [f \in D |-> Sum([e \in D |-> W[e][f]])]
            amount == [f \in D |-> f.amount]
<1>1. IsFiniteSet(D) /\ \A f \in D : f.amount \in Int
  BY TillIsFinite
<1>2. \A e \in D : /\ Weight(e) \in [D -> Int] /\ Own(e) \in Int /\ Sum(Weight(e)) \in Int
                   /\ Stands(e) = Own(e) + Sum(Weight(e))
  BY RowIsWeight
<1>3. \A f \in D : Own(f) + Sum([e \in D |-> Weighs(e, f)]) = f.amount
  BY EachIsCounted
<1>4. Summary!SumOf(D) = Sum(amount)
  BY RowTotalIsSum DEF Summary!SumOf
<1>5. \A f, e \in D : W[e][f] = Weighs(e, f)
  BY DEF Weight
<1>. HIDE DEF D
<1>6. all \in [D -> Int] /\ own \in [D -> Int] /\ weights \in [D -> Int] /\ \A e \in D : all[e] = own[e] + weights[e]
  BY <1>2
<1>7. W \in [D -> [D -> Int]]
  BY <1>2
<1>8. amount \in [D -> Int]
  BY <1>1
<1>9. \A f \in D : placed[f] = Sum([e \in D |-> Weighs(e, f)])
  <2>. SUFFICES ASSUME NEW f \in D PROVE placed[f] = Sum([e \in D |-> Weighs(e, f)])
    OBVIOUS
  <2>1. [e \in D |-> W[e][f]] = [e \in D |-> Weighs(e, f)]
    BY <1>5
  <2>2. placed[f] = Sum([e \in D |-> W[e][f]])
    OBVIOUS
  <2>. QED  BY <2>1, <2>2, Zenon
<1>10. placed \in [D -> Int]
  <2>1. \A f \in D : placed[f] \in Int
    <3>. SUFFICES ASSUME NEW f \in D PROVE placed[f] \in Int
      OBVIOUS
    <3>1. [e \in D |-> W[e][f]] \in [D -> Int]
      <4>. HIDE DEF W
      <4>. QED  BY <1>7
    <3>2. Sum([e \in D |-> W[e][f]]) \in Int
      BY <1>1, <3>1, SumIsInt
    <3>. QED  BY <3>2
  <2>. QED  BY <2>1
<1>11. \A f \in D : amount[f] = own[f] + placed[f]
  <2>. SUFFICES ASSUME NEW f \in D PROVE amount[f] = own[f] + placed[f]
    OBVIOUS
  <2>1. amount[f] = f.amount /\ own[f] = Own(f)
    OBVIOUS
  <2>. HIDE DEF amount, own, placed
  <2>. QED  BY <1>3, <1>9, <2>1
<1>12. Sum(weights) = Sum(placed)
  <2>. HIDE DEF W
  <2>. QED  BY ONLY <1>1, <1>7, SumsTurn
<1>. HIDE DEF all, own, weights, placed, amount
<1>13. Sum(all) = Sum(own) + Sum(weights)
  BY ONLY <1>1, <1>6, IntSumAdds
<1>14. Sum(amount) = Sum(own) + Sum(placed)
  BY ONLY <1>1, <1>6, <1>8, <1>10, <1>11, IntSumAdds
<1>15. Sum(all) = Sum(amount)
  BY <1>12, <1>13, <1>14
<1>. QED  BY <1>4, <1>15 DEF all, D

(***************************************************************************)
(* Sequences.  What a sum gains by one more.                               *)
(***************************************************************************)
LEMMA SumOneMore ==
    ASSUME NEW D, IsFiniteSet(D), NEW E \in SUBSET D, NEW b \in D, b \notin E, E \cup {b} = D,
           NEW g \in [D -> Int], NEW f \in [E -> Int], \A d \in E : g[d] = f[d]
    PROVE  Sum(g) = Sum(f) + g[b]
<1>1. PICK o : o = [d \in D |-> IF d \in E THEN f[d] ELSE 0]
  OBVIOUS
<1>2. o \in [D -> Int] /\ o[b] = 0 /\ \A d \in D : o[d] = IF d \in E THEN f[d] ELSE 0
  BY <1>1
<1>3. PICK a : a = g[b]
  OBVIOUS
<1>4. a \in Int /\ g = [o EXCEPT ![b] = a]
  BY <1>1, <1>3
<1>5. Sum(o) = Sum(f)
  BY <1>2, IntSumOfPart
<1>6. Sum([o EXCEPT ![b] = a]) = Sum(o) + a
  <2>1. IsFiniteSet(D) /\ o \in [D -> Int] /\ b \in D /\ o[b] = 0 /\ a \in Int
    BY <1>2, <1>4
  <2>. QED  BY ONLY <2>1, IntSumGains
<1>. QED  BY <1>3, <1>4, <1>5, <1>6

LEMMA SumAppends ==
    ASSUME NEW n \in Nat, NEW f \in [1..n -> Int], NEW g \in [1..(n + 1) -> Int],
           \A i \in 1..n : g[i] = f[i]
    PROVE  Sum(g) = Sum(f) + g[n + 1]
<1>1. PICK D, E, b : D = 1..(n + 1) /\ E = 1..n /\ b = n + 1
  OBVIOUS
<1>2. E \in SUBSET D /\ b \in D /\ b \notin E /\ E \cup {b} = D
  BY <1>1
<1>3. g \in [D -> Int] /\ f \in [E -> Int] /\ \A d \in E : g[d] = f[d]
  BY <1>1
<1>4. IsFiniteSet(D)
  <2>1. n + 1 \in Int /\ 1 \in Int
    OBVIOUS
  <2>. QED  BY <1>1, <2>1, FS_Interval
<1>5. Sum(g) = Sum(f) + g[b]
  BY ONLY <1>2, <1>3, <1>4, SumOneMore
<1>. QED  BY <1>1, <1>5

(***************************************************************************)
(* The steps.                                                              *)
(***************************************************************************)
LEMMA StandsIsInt ==
    ASSUME BalancesInv, NEW e \in Summary!Till
    PROVE  Stands(e) \in Int
BY RowIsWeight

LEMMA RowType ==
    ASSUME BalancesInv, NEW e \in Summary!Till
    PROVE  Summary!Outstanding(e) \in Int /\ Summary!Credits(e) \in Int /\ Summary!PaidOf(e) \in Int
<1>. DEFINE P == {f \in Summary!Against(e) : ~Summary!IsReturn(f.voucher)}
            C == {f \in Summary!Against(e) : Summary!IsReturn(f.voucher)}
<1>1. e.amount \in Int
  BY TillIsFinite
<1>2. P \in SUBSET Summary!Till /\ C \in SUBSET Summary!Till
  BY AgainstTill
<1>3. Summary!SumOf(P) \in Int /\ Summary!SumOf(C) \in Int
  <2>. HIDE DEF P, C
  <2>. QED  BY <1>2, SumOfAmounts
<1>4. Summary!Payments(e) \in Int /\ Summary!Credits(e) \in Int
  <2>1. Summary!Payments(e) = 0 - Summary!SumOf(P) /\ Summary!Credits(e) = 0 - Summary!SumOf(C)
    BY DEF Summary!Payments, Summary!Credits
  <2>. HIDE DEF P, C
  <2>. QED  BY <1>3, <2>1
<1>. QED  BY <1>1, <1>4 DEF Summary!Outstanding, Summary!PaidOf

LEMMA LookKeeps == SummaryInv /\ Summary!Look => SummaryInv'
<1>. SUFFICES ASSUME SummaryInv, Summary!Look PROVE SummaryInv'
  OBVIOUS
<1>. DEFINE e == CHOOSE f \in todo : TRUE
<1>1. /\ BalancesInv /\ todo \subseteq Summary!Till /\ summary \in Seq(Summary!Row)
      /\ Sum(Shows) = Sum(LookedUp)
      /\ \A i \in DOMAIN total : todo = {} /\ total[i].outstanding = Sum(Shows)
  BY DEF SummaryInv
<1>2. /\ todo # {} /\ todo' = todo \ {e}
      /\ summary' = IF ~Summary!IsReceivable(e) \/ Summary!Outstanding(e) = 0 THEN summary
                    ELSE Append(summary, [voucher |-> e.voucher, outstanding |-> Summary!Outstanding(e),
                                          credit |-> Summary!Credits(e), paid |-> Summary!PaidOf(e)])
      /\ UNCHANGED <<balances, returnOf, total>>
  BY DEF Summary!Look
<1>3. e \in todo /\ e \in Summary!Till /\ e \in balances
  <2>1. e \in todo
    BY <1>2
  <2>. HIDE DEF e
  <2>. QED  BY <1>1, <2>1, TillIsFinite
<1>. HIDE DEF e
<1>4. /\ BalancesInv' /\ Summary!Till' = Summary!Till
      /\ \A d : Stands(d)' = Stands(d)
  <2>0. UNCHANGED <<balances, returnOf>>
    BY <1>2
  <2>1. BalancesInv'
    BY <1>1, <2>0, SMTT(60) DEF BalancesInv, Summary!Legible, Summary!Legal, Summary!Nothing
  <2>2. Summary!Till' = Summary!Till
    BY ONLY <2>0 DEF Summary!Till
  <2>3. ASSUME NEW d PROVE Stands(d)' = Stands(d)
    BY ONLY <2>0 DEF Stands, Summary!IsReceivable, Summary!FutureVouchers, Summary!Alone, Summary!IsReturn,
                Summary!Outstanding, Summary!Payments, Summary!Credits, Summary!Against, Summary!SumOf, Summary!Sum,
                Summary!FoldFunction, Summary!FoldFunctionOnSet, Summary!MapThenFoldSet
  <2>. QED  BY <2>1, <2>2, <2>3
<1>5. IsFiniteSet(Summary!Till) /\ \A d \in Summary!Till : Stands(d) \in Int
  BY <1>1, TillIsFinite, StandsIsInt
<1>6. LookedUp \in [Summary!Till -> Int] /\ LookedUp[e] = 0 /\ LookedUp' = [LookedUp EXCEPT ![e] = Stands(e)]
  <2>1. LookedUp \in [Summary!Till -> Int] /\ LookedUp[e] = 0
    BY <1>3, <1>5 DEF LookedUp
  <2>2. LookedUp' = [d \in Summary!Till |-> IF d \in todo \ {e} THEN 0 ELSE Stands(d)]
    BY <1>2, <1>4 DEF LookedUp
  <2>. QED  BY <1>3, <2>1, <2>2 DEF LookedUp
<1>7. Sum(LookedUp') = Sum(LookedUp) + Stands(e)
  <2>. DEFINE D == Summary!Till
              f == LookedUp
              a == Stands(e)
  <2>1. IsFiniteSet(D) /\ f \in [D -> Int] /\ e \in D /\ f[e] = 0 /\ a \in Int
    BY <1>3, <1>5, <1>6
  <2>2. Sum([f EXCEPT ![e] = a]) = Sum(f) + a
    <3>. HIDE DEF D, f, a
    <3>. QED  BY ONLY <2>1, IntSumGains
  <2>. QED  BY <1>6, <2>2
<1>8. summary' \in Seq(Summary!Row) /\ Sum(Shows') = Sum(Shows) + Stands(e)
  <2>1. Len(summary) \in Nat /\ DOMAIN summary = 1..Len(summary) /\ Shows \in [1..Len(summary) -> Int]
    <3>1. Len(summary) \in Nat /\ DOMAIN summary = 1..Len(summary)
      BY <1>1
    <3>2. \A i \in 1..Len(summary) : summary[i].outstanding \in Int
      <4>1. \A i \in 1..Len(summary) : summary[i] \in Summary!Row
        BY <1>1
      <4>. QED  BY <4>1 DEF Summary!Row
    <3>. QED  BY <3>1, <3>2 DEF Shows
  <2>2. IsFiniteSet(1..Len(summary))
    <3>1. 1 \in Int /\ Len(summary) \in Int
      BY <2>1
    <3>. QED  BY <3>1, FS_Interval
  <2>3. Sum(Shows) \in Int
    BY <2>1, <2>2, SumIsInt
  <2>4. CASE ~Summary!IsReceivable(e) \/ Summary!Outstanding(e) = 0
    <3>1. Stands(e) = 0 /\ summary' = summary
      BY <1>2, <2>4 DEF Stands
    <3>2. Shows' = Shows
      BY <3>1 DEF Shows
    <3>. QED  BY <1>1, <2>3, <3>1, <3>2
  <2>5. CASE Summary!IsReceivable(e) /\ Summary!Outstanding(e) # 0
    <3>. DEFINE r == [voucher |-> e.voucher, outstanding |-> Summary!Outstanding(e),
                      credit |-> Summary!Credits(e), paid |-> Summary!PaidOf(e)]
    <3>1. summary' = Append(summary, r) /\ r.outstanding = Stands(e)
      BY <1>2, <2>5 DEF Stands
    <3>2. r \in Summary!Row
      <4>1. e.voucher \in Summary!Voucher
        BY <1>1, <1>3 DEF BalancesInv, Summary!Entry
      <4>. QED  BY <1>1, <1>3, <4>1, RowType DEF Summary!Row
    <3>. HIDE DEF r
    <3>3. summary' \in Seq(Summary!Row)
      BY <1>1, <3>1, <3>2
    <3>. DEFINE n == Len(summary)
    <3>4. /\ n \in Nat /\ DOMAIN summary' = 1..(n + 1) /\ summary'[n + 1] = r
          /\ \A i \in 1..n : summary'[i] = summary[i]
      BY <1>1, <3>1, <3>2
    <3>5. /\ Shows' \in [1..(n + 1) -> Int] /\ Shows'[n + 1] = Stands(e)
          /\ \A i \in 1..n : Shows'[i] = Shows[i]
      <4>1. Shows' = [i \in 1..(n + 1) |-> summary'[i].outstanding]
        BY <3>4 DEF Shows
      <4>2. \A i \in 1..(n + 1) : summary'[i].outstanding \in Int
        <5>1. \A i \in 1..(n + 1) : summary'[i] \in Summary!Row
          BY <3>3, <3>4
        <5>. QED  BY <5>1 DEF Summary!Row
      <4>3. n + 1 \in 1..(n + 1) /\ \A i \in 1..n : i \in 1..(n + 1)
        BY <3>4
      <4>4. \A i \in 1..n : Shows[i] = summary[i].outstanding
        BY <2>1 DEF Shows
      <4>. HIDE DEF n
      <4>. QED  BY <3>1, <3>4, <4>1, <4>2, <4>3, <4>4
    <3>6. Sum(Shows') = Sum(Shows) + Shows'[n + 1]
      <4>1. PICK f, g : f = Shows /\ g = Shows'
        OBVIOUS
      <4>2. n \in Nat /\ f \in [1..n -> Int] /\ g \in [1..(n + 1) -> Int] /\ \A i \in 1..n : g[i] = f[i]
        BY <2>1, <3>4, <3>5, <4>1
      <4>3. Sum(g) = Sum(f) + g[n + 1]
        <5>. HIDE DEF n
        <5>. QED  BY ONLY <4>2, SumAppends
      <4>. QED  BY <4>1, <4>3
    <3>. QED  BY <3>3, <3>5, <3>6
  <2>. QED  BY <2>4, <2>5
<1>9. Sum(Shows)' = Sum(Shows') /\ Sum(LookedUp)' = Sum(LookedUp')
  BY DEF Sum, Batches!FoldFunction, Batches!FoldFunctionOnSet, Batches!MapThenFoldSet
<1>10. Sum(Shows)' = Sum(LookedUp)'
  BY <1>1, <1>7, <1>8, <1>9
<1>11. DOMAIN total = {} /\ total' = total
  BY <1>1, <1>2
<1>. QED  BY <1>1, <1>2, <1>4, <1>8, <1>10, <1>11 DEF SummaryInv

LEMMA TotalKeeps == SummaryInv /\ Summary!Total => SummaryInv'
<1>. SUFFICES ASSUME SummaryInv, Summary!Total PROVE SummaryInv'
  OBVIOUS
<1>1. /\ BalancesInv /\ todo \subseteq Summary!Till /\ summary \in Seq(Summary!Row)
      /\ Sum(Shows) = Sum(LookedUp)
  BY DEF SummaryInv
<1>2. /\ todo = {} /\ UNCHANGED <<balances, returnOf, todo, summary>>
      /\ DOMAIN total' = {1} /\ total'[1].outstanding = Summary!Sum(Shows)
  BY DEF Summary!Total, Shows
<1>3. BalancesInv' /\ Summary!Till' = Summary!Till
  BY <1>1, <1>2 DEF BalancesInv, Summary!Legible, Summary!Legal, Summary!Nothing, Summary!Till
<1>4. Shows' = Shows
  BY <1>2 DEF Shows
<1>5. Sum(Shows)' = Sum(Shows) /\ Summary!Sum(Shows) = Sum(Shows)
  BY <1>4, RowTotalIsSum DEF Sum, Batches!FoldFunction, Batches!FoldFunctionOnSet, Batches!MapThenFoldSet
<1>6. LookedUp' = LookedUp
  <2>1. ASSUME NEW d PROVE Stands(d)' = Stands(d)
    BY <1>2 DEF Stands, Summary!IsReceivable, Summary!FutureVouchers, Summary!Alone, Summary!IsReturn,
                Summary!Outstanding, Summary!Payments, Summary!Credits, Summary!Against, Summary!SumOf, Summary!Sum,
                Summary!FoldFunction, Summary!FoldFunctionOnSet, Summary!MapThenFoldSet
  <2>. QED  BY <1>2, <1>3, <2>1 DEF LookedUp
<1>7. Sum(LookedUp)' = Sum(LookedUp)
  BY <1>6 DEF Sum, Batches!FoldFunction, Batches!FoldFunctionOnSet, Batches!MapThenFoldSet
<1>. QED  BY <1>1, <1>2, <1>3, <1>5, <1>7 DEF SummaryInv

LEMMA SummaryKeeps == SummaryInv /\ [Summary!Next]_(Summary!vars) => SummaryInv'
<1>. SUFFICES ASSUME SummaryInv, UNCHANGED Summary!vars PROVE SummaryInv'
  BY LookKeeps, TotalKeeps DEF Summary!Next
<1>1. UNCHANGED <<balances, returnOf, todo, summary, total>>
  BY DEF Summary!vars
<1>2. BalancesInv' = BalancesInv /\ Summary!Till' = Summary!Till
  BY <1>1 DEF BalancesInv, Summary!Legible, Summary!Legal, Summary!Nothing, Summary!Till
<1>3. Sum(Shows)' = Sum(Shows)
  BY <1>1 DEF Shows, Sum, Batches!FoldFunction, Batches!FoldFunctionOnSet, Batches!MapThenFoldSet
<1>4. LookedUp' = LookedUp
  <2>1. ASSUME NEW d PROVE Stands(d)' = Stands(d)
    BY <1>1 DEF Stands, Summary!IsReceivable, Summary!FutureVouchers, Summary!Alone, Summary!IsReturn,
                Summary!Outstanding, Summary!Payments, Summary!Credits, Summary!Against, Summary!SumOf, Summary!Sum,
                Summary!FoldFunction, Summary!FoldFunctionOnSet, Summary!MapThenFoldSet
  <2>. QED  BY <1>1, <1>2, <2>1 DEF LookedUp
<1>5. Sum(LookedUp)' = Sum(LookedUp)
  BY <1>4 DEF Sum, Batches!FoldFunction, Batches!FoldFunctionOnSet, Batches!MapThenFoldSet
<1>. QED  BY <1>1, <1>2, <1>3, <1>5 DEF SummaryInv

\* The ledger is finite: invoices say what they are, and the others are listed.
LEMMA LedgersAreFinite ==
    \A l \in Summary!Ledgers :
        IsFiniteSet(l) /\ \A e \in l : e \in Summary!Entry /\ Summary!Legal(e)
<1>. SUFFICES ASSUME NEW l \in Summary!Ledgers
              PROVE  IsFiniteSet(l) /\ \A e \in l : e \in Summary!Entry /\ Summary!Legal(e)
  OBVIOUS
<1>. DEFINE more == {e \in Summary!Entry : Summary!Legal(e) /\ ~Summary!Own(e)}
<1>1. PICK own \in Summary!Invoices, others \in Summary!Others : l = own \cup others
  BY DEF Summary!Ledgers
<1>2. PICK n \in 0..MaxOthers : others \in {Summary!Range(s) : s \in [1..n -> more]}
  BY <1>1, Zenon DEF Summary!Others
<1>3. n \in Int /\ 1 \in Int
  <2>1. MaxOthers \in Nat
    BY SummaryData DEF Summary!SummaryAssumption
  <2>2. \A m \in 0..MaxOthers : m \in Int
    BY <2>1
  <2>. QED  BY <1>2, <2>2
<1>4. PICK s \in [1..n -> more] : others = Summary!Range(s)
  BY <1>2
<1>5. others = {s[i] : i \in 1..n} /\ others \subseteq more
  BY <1>4 DEF Summary!Range
<1>6. IsFiniteSet(others)
  <2>1. s \in Surjection(1..n, others)
    BY <1>5, <1>4 DEF Surjection
  <2>2. IsFiniteSet(1..n)
    BY <1>3, FS_Interval
  <2>. QED  BY <2>1, <2>2, FS_Surjection
<1>7. IsFiniteSet(own)
  <2>. DEFINE inv(b) == [voucher |-> "invoice", against |-> "invoice", amount |-> Price, late |-> b]
              lat == [voucher |-> "later", against |-> "later", amount |-> Price, late |-> TRUE]
              few == {inv(TRUE), inv(FALSE), lat}
  <2>1. own \in SUBSET few
    <3>1. ASSUME NEW e \in own PROVE e \in few
      <4>1. e \in Summary!Entry /\ Summary!Legal(e) /\ Summary!Own(e)
        BY <1>1 DEF Summary!Invoices
      <4>2. /\ e = [voucher |-> e.voucher, against |-> e.against, amount |-> e.amount, late |-> e.late]
            /\ e.late \in BOOLEAN
        BY <4>1 DEF Summary!Entry
      <4>3. \/ e.voucher = "invoice" /\ e.against = "invoice" /\ e.amount = Price
            \/ e.voucher = "later" /\ e.against = "later" /\ e.amount = Price /\ e.late
        BY <4>1 DEF Summary!Legal, Summary!Own
      <4>. QED  BY <4>2, <4>3
    <3>. QED  BY <3>1
  <2>2. IsFiniteSet(few)
    <3>. HIDE DEF inv, lat
    <3>1. IsFiniteSet({inv(TRUE)})
      BY FS_Singleton
    <3>2. IsFiniteSet({inv(TRUE)} \cup {inv(FALSE)})
      BY <3>1, FS_AddElement
    <3>3. IsFiniteSet(({inv(TRUE)} \cup {inv(FALSE)}) \cup {lat})
      BY <3>2, FS_AddElement
    <3>4. few = ({inv(TRUE)} \cup {inv(FALSE)}) \cup {lat}
      OBVIOUS
    <3>. QED  BY <3>3, <3>4
  <2>. HIDE DEF few
  <2>. QED  BY <2>1, <2>2, FS_Subset
<1>8. IsFiniteSet(own \cup others)
  BY <1>6, <1>7, FS_Union
<1>9. \A e \in l : e \in Summary!Entry /\ Summary!Legal(e)
  BY <1>1, <1>5 DEF Summary!Invoices
<1>. QED  BY <1>1, <1>8, <1>9

LEMMA InitSummary == Summary!Init => SummaryInv
<1>. SUFFICES ASSUME Summary!Init PROVE SummaryInv
  OBVIOUS
<1>1. BalancesInv
  <2>1. balances \in Summary!Ledgers /\ Summary!Legible(balances)
    BY DEF Summary!Init
  <2>. QED  BY <2>1, LedgersAreFinite DEF Summary!Init, BalancesInv
<1>2. todo = Summary!Till /\ summary = <<>> /\ total = <<>>
  BY DEF Summary!Init, Summary!Till
<1>3. Sum(LookedUp) = 0
  <2>. DEFINE D == Summary!Till
              f == LookedUp
  <2>1. IsFiniteSet(D) /\ f \in [D -> Int] /\ \A d \in D : f[d] = 0
    BY <1>1, <1>2, TillIsFinite DEF LookedUp
  <2>2. Sum(f) = 0
    <3>. HIDE DEF D, f
    <3>. QED  BY ONLY <2>1, IntSumOfNothing
  <2>. QED  BY <2>2
<1>4. Sum(Shows) = 0
  <2>. DEFINE D == {}
              f == Shows
  <2>1. IsFiniteSet(D) /\ f \in [D -> Int] /\ \A d \in D : f[d] = 0
    BY <1>2, FS_EmptySet DEF Shows
  <2>2. Sum(f) = 0
    <3>. HIDE DEF D, f
    <3>. QED  BY ONLY <2>1, IntSumOfNothing
  <2>. QED  BY <2>2
<1>. QED  BY <1>1, <1>2, <1>3, <1>4 DEF SummaryInv

LEMMA InvIsBalance == SummaryInv => Summary!RowsAreBalance
<1>. SUFFICES ASSUME SummaryInv, todo = {}, \A e \in Summary!Till : Summary!Placed(e)
              PROVE  /\ Summary!Sum(Shows) = Summary!SumOf(Summary!Till)
                     /\ \A i \in DOMAIN total : total[i].outstanding = Summary!SumOf(Summary!Till)
  BY DEF Summary!RowsAreBalance, Shows
<1>1. BalancesInv /\ Sum(Shows) = Sum(LookedUp) /\ \A i \in DOMAIN total : total[i].outstanding = Sum(Shows)
  BY DEF SummaryInv
<1>2. LookedUp = [e \in Summary!Till |-> Stands(e)]
  BY DEF LookedUp
<1>3. Sum(LookedUp) = Summary!SumOf(Summary!Till)
  BY <1>1, <1>2, AllIsBalance
<1>4. Summary!Sum(Shows) = Sum(Shows)
  BY RowTotalIsSum
<1>. QED  BY <1>1, <1>3, <1>4

\* Of any ledger, of any length, whose entries up to the report's day all have a
\* place, the rows come to the sum of those entries, and so does the customer's
\* line in the summary (get_receivables_data, prepare_row, get_data).
THEOREM RowsAreOutstanding == DocumentsSpec => [](part = "summary" => Summary!RowsAreBalance)
<1>. DEFINE I == part = "summary" => SummaryInv
<1>1. DocumentsInit => I
  BY InitSummary DEF DocumentsInit
<1>2. I /\ [DocumentsNext]_documentVars => I'
  <2>. SUFFICES ASSUME I, [DocumentsNext]_documentVars PROVE I'
    OBVIOUS
  <2>1. part' = part
    BY DEF DocumentsNext, documentVars
  <2>2. CASE part = "summary"
    <3>1. [Summary!Next]_(Summary!vars)
      BY <2>2 DEF DocumentsNext, documentVars, summaryVars, Summary!vars
    <3>. QED  BY <2>1, <2>2, <3>1, SummaryKeeps
  <2>. QED  BY <2>1, <2>2
<1>3. I => (part = "summary" => Summary!RowsAreBalance)
  BY InvIsBalance
<1>. QED  BY <1>1, <1>2, <1>3, PTL DEF DocumentsSpec

(***************************************************************************)
(* ReceivableReport.  Numbers from 0 on, as in DeskProofs, and sums of     *)
(* sequences.                                                              *)
(***************************************************************************)
LEMMA Inductive ==
    ASSUME NEW S \in SUBSET Nat, 0 \in S, \A n \in S : n + 1 \in S
    PROVE  S = Nat
<1>. DEFINE Bad == Nat \ S
<1>. SUFFICES ASSUME Bad # {} PROVE FALSE
  OBVIOUS
<1>1. PICK n \in Bad : \A m \in Bad : n <= m
  BY Smallest
<1>2. n # 0 /\ n - 1 \in Nat /\ n - 1 \notin Bad
  BY <1>1
<1>3. n - 1 + 1 = n
  OBVIOUS
<1>. QED  BY <1>2, <1>3

LEMMA SeqSum ==
    ASSUME NEW s \in Seq(Int)
    PROVE  /\ Sum(s) \in Int
           /\ Len(s) = 0 => Sum(s) = 0
           /\ \A x \in Int : Sum(Append(s, x)) = Sum(s) + x
<1>1. PICK n \in Nat : n = Len(s) /\ s \in [1..n -> Int]
  OBVIOUS
<1>2. IsFiniteSet(1..n)
  <2>1. n \in Int /\ 1 \in Int
    OBVIOUS
  <2>. QED  BY <2>1, FS_Interval
<1>3. Sum(s) \in Int
  BY <1>1, <1>2, SumIsInt
<1>4. ASSUME Len(s) = 0 PROVE Sum(s) = 0
  <2>1. s \in [1..0 -> Int] /\ \A d \in 1..0 : s[d] = 0
    BY <1>1, <1>4
  <2>2. IsFiniteSet(1..0)
    BY <1>1, <1>2, <1>4
  <2>. QED  BY <2>1, <2>2, IntSumOfNothing
<1>5. ASSUME NEW x \in Int PROVE Sum(Append(s, x)) = Sum(s) + x
  <2>1. PICK g : g = Append(s, x)
    OBVIOUS
  <2>2. g \in [1..(n + 1) -> Int] /\ g[n + 1] = x /\ \A i \in 1..n : g[i] = s[i]
    <3>1. g \in Seq(Int) /\ Len(g) = n + 1
      BY <1>1, <2>1
    <3>2. g[n + 1] = x /\ \A i \in 1..n : g[i] = s[i]
      BY <1>1, <2>1
    <3>. QED  BY <1>1, <3>1, <3>2
  <2>. QED  BY <1>1, <2>1, <2>2, SumAppends
<1>. QED  BY <1>3, <1>4, <1>5

(***************************************************************************)
(* Folds.                                                                  *)
(***************************************************************************)
FoldTerm(g, base, step, s, n) == IF n = 0 THEN base ELSE step[<<g[n - 1], s[n]>>]

Follows(g, base, step, s, S) ==
    g \in [0..Len(s) -> S] /\ \A n \in 0..Len(s) : g[n] = FoldTerm(g, base, step, s, n)

LEMMA FoldExists ==
    ASSUME NEW S, NEW E, NEW s \in Seq(E), NEW base \in S, NEW step \in [S \X E -> S]
    PROVE  \E g : Follows(g, base, step, s, S)
<1>. DEFINE Is(g, m) == g \in [0..m -> S] /\ \A n \in 0..m : g[n] = FoldTerm(g, base, step, s, n)
            Q == {m \in Nat : m <= Len(s) => \E g : Is(g, m)}
<1>1. 0 \in Q
  <2>1. Is([n \in 0..0 |-> base], 0)
    BY DEF FoldTerm
  <2>. QED  BY <2>1
<1>2. ASSUME NEW m \in Q PROVE m + 1 \in Q
  <2>. SUFFICES ASSUME m + 1 <= Len(s) PROVE \E g : Is(g, m + 1)
    OBVIOUS
  <2>1. m \in Nat /\ m <= Len(s) /\ m + 1 \in 1..Len(s) /\ s[m + 1] \in E
    OBVIOUS
  <2>2. PICK g : Is(g, m)
    BY <2>1
  <2>. DEFINE x == step[<<g[m], s[m + 1]>>]
              h == [n \in 0..(m + 1) |-> IF n <= m THEN g[n] ELSE x]
  <2>3. x \in S
    BY <2>1, <2>2
  <2>4. h \in [0..(m + 1) -> S] /\ h[m + 1] = x /\ \A n \in 0..m : h[n] = g[n]
    BY <2>1, <2>2, <2>3
  <2>. HIDE DEF h
  <2>5. ASSUME NEW n \in 0..(m + 1) PROVE h[n] = FoldTerm(h, base, step, s, n)
    <3>1. CASE n = m + 1
      <4>1. n - 1 = m /\ n # 0 /\ h[m] = g[m]
        BY <2>1, <2>4, <3>1
      <4>. QED  BY <2>4, <3>1, <4>1 DEF FoldTerm
    <3>2. CASE n = 0
      <4>1. 0 \in 0..m /\ h[0] = g[0]
        BY <2>1, <2>4
      <4>. QED  BY <2>2, <3>2, <4>1 DEF FoldTerm
    <3>3. CASE n # 0 /\ n # m + 1
      <4>1. n \in 0..m /\ n - 1 \in 0..m /\ h[n] = g[n] /\ h[n - 1] = g[n - 1]
        BY <2>1, <2>4, <3>3
      <4>. QED  BY <2>2, <3>3, <4>1 DEF FoldTerm
    <3>. QED  BY <3>1, <3>2, <3>3
  <2>. QED  BY <2>4, <2>5
<1>. HIDE DEF Is
<1>3. Q = Nat
  <2>1. Q \in SUBSET Nat
    OBVIOUS
  <2>. QED  BY <1>1, <1>2, <2>1, Inductive
<1>4. PICK g : Is(g, Len(s))
  <2>1. Len(s) \in Nat /\ Len(s) <= Len(s)
    OBVIOUS
  <2>. QED  BY <1>3, <2>1
<1>. QED  BY <1>4 DEF Is, Follows

(***************************************************************************)
(* Payment terms.                                                          *)
(***************************************************************************)
Rests == [paid : Int, credit : Int, rows : Seq(Int)]
Terms == [invoiced : Nat, paid : Nat]

LEMMA AllocatedType ==
    ASSUME NEW acc \in Rests, NEW t \in Terms
    PROVE  Report!Allocated(acc, t) \in Rests
<1>1. Report!Allocated(acc, t).rows \in Seq(Int)
  BY DEF Rests, Terms, Report!Allocated, Report!Smaller
<1>. QED  BY <1>1 DEF Rests, Terms, Report!Allocated, Report!Smaller

LEMMA AllocatedFolds ==
    ASSUME NEW s \in Seq(Terms), NEW base \in Rests
    PROVE  \E g : /\ Report!Folded(Report!Allocated, base, s) = g[Len(s)]
                  /\ g[0] = base /\ \A n \in 1..Len(s) : g[n] = Report!Allocated(g[n - 1], s[n])
<1>. DEFINE g == CHOOSE g : g = [n \in 0..Len(s) |-> IF n = 0 THEN base ELSE Report!Allocated(g[n - 1], s[n])]
            step == [x \in Rests \X Terms |-> Report!Allocated(x[1], x[2])]
<1>1. Report!Folded(Report!Allocated, base, s) = g[Len(s)]
  BY DEF Report!Folded
<1>2. step \in [Rests \X Terms -> Rests] /\ \A x \in Rests, t \in Terms : step[<<x, t>>] = Report!Allocated(x, t)
  BY AllocatedType
<1>. HIDE DEF step
<1>3. PICK f : Follows(f, base, step, s, Rests)
  BY <1>2, FoldExists
<1>4. \A n \in 0..Len(s) : FoldTerm(f, base, step, s, n) = IF n = 0 THEN base ELSE Report!Allocated(f[n - 1], s[n])
  <2>. SUFFICES ASSUME NEW n \in 0..Len(s)
                PROVE  FoldTerm(f, base, step, s, n) = IF n = 0 THEN base ELSE Report!Allocated(f[n - 1], s[n])
    OBVIOUS
  <2>1. CASE n = 0
    BY <2>1 DEF FoldTerm
  <2>2. CASE n # 0
    <3>1. PICK x, e : x = f[n - 1] /\ e = s[n]
      OBVIOUS
    <3>2. x \in Rests /\ e \in Terms
      BY <1>3, <2>2, <3>1 DEF Follows
    <3>3. step[<<x, e>>] = Report!Allocated(x, e)
      BY <1>2, <3>2
    <3>. QED  BY <2>2, <3>1, <3>3 DEF FoldTerm
  <2>. QED  BY <2>1, <2>2
<1>5. f = [n \in 0..Len(s) |-> IF n = 0 THEN base ELSE Report!Allocated(f[n - 1], s[n])]
  <2>1. f = [n \in 0..Len(s) |-> FoldTerm(f, base, step, s, n)]
    BY <1>3 DEF Follows
  <2>. QED  BY <1>4, <2>1, Zenon
<1>6. g = [n \in 0..Len(s) |-> IF n = 0 THEN base ELSE Report!Allocated(g[n - 1], s[n])]
  BY <1>5, Zenon
<1>. HIDE DEF g
<1>7. g[0] = base /\ \A n \in 1..Len(s) : g[n] = Report!Allocated(g[n - 1], s[n])
  <2>1. 0 \in 0..Len(s) /\ \A n \in 1..Len(s) : n \in 0..Len(s) /\ n # 0
    OBVIOUS
  <2>. QED  BY ONLY <1>6, <2>1, Zenon
<1>. QED  BY <1>1, <1>7

LEMMA AllocatedGives ==
    ASSUME NEW acc \in Rests, NEW t \in Terms, t.paid <= t.invoiced
    PROVE  LET a == Report!Allocated(acc, t)
           IN /\ a \in Rests
              /\ Sum(a.rows) - a.paid - a.credit
                 = Sum(acc.rows) - acc.paid - acc.credit + t.invoiced - t.paid
              /\ acc.credit >= 0 => a.credit >= 0
              /\ t.paid = 0 \/ acc.paid >= 0 => a.paid >= 0
<1>. DEFINE open == t.invoiced - t.paid
            settled == IF t.paid = 0 THEN Report!Smaller(acc.paid, open) ELSE 0
            credit == Report!Smaller(acc.credit, open - settled)
            rest == open - settled - credit
            a == Report!Allocated(acc, t)
<1>1. /\ acc.paid \in Int /\ acc.credit \in Int /\ acc.rows \in Seq(Int)
      /\ t.invoiced \in Nat /\ t.paid \in Nat /\ open \in Nat
  BY DEF Rests, Terms
<1>2. /\ settled \in Int /\ settled <= open
      /\ t.paid = 0 \/ acc.paid >= 0 => acc.paid - settled >= 0
  BY <1>1 DEF Report!Smaller
<1>3. /\ credit \in Int /\ rest \in Int /\ rest >= 0
      /\ acc.credit >= 0 => acc.credit - credit >= 0
  BY <1>1, <1>2 DEF Report!Smaller
<1>4. /\ a.paid = acc.paid - settled /\ a.credit = acc.credit - credit
      /\ a.rows = IF rest > 0 THEN Append(acc.rows, rest) ELSE acc.rows
  BY DEF Report!Allocated
<1>5. a \in Rests
  BY AllocatedType
<1>. HIDE DEF a, settled, credit
<1>6. Sum(a.rows) = Sum(acc.rows) + rest /\ Sum(acc.rows) \in Int
  <2>1. /\ Sum(acc.rows) \in Int
        /\ \A x \in Int : Sum(Append(acc.rows, x)) = Sum(acc.rows) + x
    BY <1>1, SeqSum
  <2>2. CASE rest > 0
    <3>. HIDE DEF rest
    <3>. QED  BY <1>3, <1>4, <2>1, <2>2
  <2>3. CASE ~(rest > 0)
    <3>1. rest = 0
      BY <1>3, <2>3
    <3>. HIDE DEF rest
    <3>. QED  BY <1>4, <2>1, <2>3, <3>1
  <2>. QED  BY <2>2, <2>3
<1>7. Sum(a.rows) - a.paid - a.credit = Sum(acc.rows) - acc.paid - acc.credit + t.invoiced - t.paid
  <2>. DEFINE x == Sum(a.rows)
              y == Sum(acc.rows)
  <2>1. x = y + rest /\ y \in Int
    BY <1>6
  <2>. HIDE DEF x, y
  <2>2. PICK ap \in Int, ac \in Int, ti \in Int, tp \in Int :
           ap = acc.paid /\ ac = acc.credit /\ ti = t.invoiced /\ tp = t.paid
    BY <1>1
  <2>3. rest = ti - tp - settled - credit /\ a.paid = ap - settled /\ a.credit = ac - credit
    BY <1>4, <2>2
  <2>4. settled \in Int /\ credit \in Int
    BY <1>2, <1>3
  <2>. HIDE DEF rest
  <2>5. x - (ap - settled) - (ac - credit) = y - ap - ac + ti - tp
    BY ONLY ap \in Int, ac \in Int, ti \in Int, tp \in Int, <2>1, <2>3, <2>4
  <2>6. x - a.paid - a.credit = y - acc.paid - acc.credit + t.invoiced - t.paid
    BY <2>2, <2>3, <2>5
  <2>. QED  BY <2>6 DEF x, y
<1>8. /\ acc.credit >= 0 => a.credit >= 0
      /\ t.paid = 0 \/ acc.paid >= 0 => a.paid >= 0
  BY <1>2, <1>3, <1>4
<1>. QED  BY <1>5, <1>7, <1>8 DEF a

LEMMA IntSumOfTwo ==
    ASSUME NEW f \in [1..2 -> Int]
    PROVE  Sum(f) = f[1] + f[2]
<1>1. PICK g : g = [i \in 1..1 |-> f[i]]
  OBVIOUS
<1>2. PICK h : h = [i \in 1..0 |-> 0]
  OBVIOUS
<1>3. h \in Seq(Int) /\ Len(h) = 0 /\ h \in [1..0 -> Int] /\ g \in [1..1 -> Int] /\ g[1] = f[1]
  BY <1>1, <1>2
<1>4. Sum(h) = 0
  BY <1>3, SeqSum
<1>5. Sum(g) = Sum(h) + g[0 + 1]
  <2>1. h \in [1..0 -> Int] /\ g \in [1..(0 + 1) -> Int] /\ \A i \in 1..0 : g[i] = h[i]
    BY <1>3
  <2>. QED  BY <2>1, SumAppends
<1>6. Sum(f) = Sum(g) + f[1 + 1]
  <2>1. f \in [1..(1 + 1) -> Int] /\ \A i \in 1..1 : f[i] = g[i]
    BY <1>1
  <2>. QED  BY <1>3, <2>1, SumAppends
<1>. QED  BY <1>3, <1>4, <1>5, <1>6

LEMMA ReportSumIsSum == \A f : Report!Sum(f) = Sum(f)
BY DEF Report!Sum, Sum, Report!FoldFunction, Report!FoldFunctionOnSet, Report!MapThenFoldSet,
       Batches!FoldFunction, Batches!FoldFunctionOnSet, Batches!MapThenFoldSet

(***************************************************************************)
(* What the report reads.                                                  *)
(***************************************************************************)
TwoTerms(ts) ==
    /\ ts \in Seq(Terms) /\ Len(ts) = 2
    /\ ts[1].invoiced + ts[2].invoiced = Price
    /\ ts[1].paid <= ts[1].invoiced /\ ts[2].paid <= ts[2].invoiced

ReportData ==
    /\ Price \in Nat \ {0}
    /\ ledger \in Seq(Report!Entry) /\ Len(ledger) >= 1
    /\ ledger[1] = Report!Sale(ledger[1].late)
    /\ \A i \in 2..Len(ledger) : Report!Legal(ledger[i])
    /\ asked.future \in BOOLEAN /\ asked.returns \in {"invoice", Report!Nothing}
    /\ asked.terms = <<>> \/ TwoTerms(asked.terms)

\* The schedule knows of payments after the report's day, and has no term left
\* they could be taken from.
Later(line) ==
    /\ asked.terms # <<>> /\ Report!Scheduled > line.paid
    /\ \A i \in DOMAIN asked.terms : asked.terms[i].paid > 0

LEMMA ScheduledIs ==
    ASSUME TwoTerms(asked.terms)
    PROVE  Report!Scheduled = asked.terms[1].paid + asked.terms[2].paid
<1>. DEFINE f == [i \in DOMAIN asked.terms |-> asked.terms[i].paid]
<1>1. f \in [1..2 -> Int] /\ f[1] = asked.terms[1].paid /\ f[2] = asked.terms[2].paid
  <2>1. DOMAIN asked.terms = 1..2 /\ asked.terms[1] \in Terms /\ asked.terms[2] \in Terms
    BY DEF TwoTerms
  <2>2. asked.terms[1].paid \in Int /\ asked.terms[2].paid \in Int
    BY <2>1 DEF Terms
  <2>3. \A i \in 1..2 : asked.terms[i].paid \in Int
    BY <2>2
  <2>. QED  BY <2>1, <2>3
<1>2. Report!Scheduled = Sum(f)
  BY ReportSumIsSum DEF Report!Scheduled
<1>. HIDE DEF f
<1>. QED  BY <1>1, <1>2, IntSumOfTwo

LEMMA SplitComesTo ==
    ASSUME TwoTerms(asked.terms), Price \in Nat, NEW line \in Report!Row
    PROVE  /\ Report!Split(line) \in Seq(Int)
           /\ line.invoiced = Price /\ line.credit >= 0 /\ ~Later(line)
                => Sum(Report!Split(line)) = Report!Outstanding(line)
<1>. DEFINE base == Report!Unallocated(line)
            t == asked.terms[1]
            u == asked.terms[2]
            end == Report!Folded(Report!Allocated, base, asked.terms)
<1>1. /\ t \in Terms /\ u \in Terms /\ t.paid <= t.invoiced /\ u.paid <= u.invoiced
      /\ t.invoiced + u.invoiced = Price
  BY DEF TwoTerms
<1>2. PICK ti \in Nat, tp \in Nat, ui \in Nat, up \in Nat :
         /\ ti = t.invoiced /\ tp = t.paid /\ ui = u.invoiced /\ up = u.paid
         /\ ti + ui = Price /\ tp <= ti /\ up <= ui
  <2>. HIDE DEF t, u
  <2>. QED  BY <1>1 DEF Terms
<1>3. PICK invoiced \in Int, settled \in Int, credit \in Int :
         invoiced = line.invoiced /\ settled = line.paid /\ credit = line.credit
  BY DEF Report!Row
<1>4. Report!Scheduled = tp + up
  BY <1>2, ScheduledIs
<1>5. base = [paid |-> settled - (tp + up), credit |-> credit, rows |-> <<>>]
  BY <1>3, <1>4 DEF Report!Unallocated
<1>6. base \in Rests
  <2>1. settled - (tp + up) \in Int /\ <<>> \in Seq(Int)
    OBVIOUS
  <2>. QED  BY <1>5, <2>1 DEF Rests
<1>7. PICK mid : mid = Report!Allocated(base, t) /\ end = Report!Allocated(mid, u)
  <2>1. asked.terms \in Seq(Terms) /\ Len(asked.terms) = 2
    BY DEF TwoTerms
  <2>2. PICK g : /\ Report!Folded(Report!Allocated, base, asked.terms) = g[Len(asked.terms)]
                 /\ g[0] = base
                 /\ \A n \in 1..Len(asked.terms) : g[n] = Report!Allocated(g[n - 1], asked.terms[n])
    <3>. HIDE DEF base
    <3>. QED  BY <1>6, <2>1, AllocatedFolds
  <2>3. g[1] = Report!Allocated(g[0], asked.terms[1]) /\ g[2] = Report!Allocated(g[1], asked.terms[2])
    <3>1. 1 \in 1..Len(asked.terms) /\ 2 \in 1..Len(asked.terms) /\ 1 - 1 = 0 /\ 2 - 1 = 1
      BY <2>1
    <3>. QED  BY <2>2, <3>1
  <2>. QED  BY <2>1, <2>2, <2>3
<1>8. Report!Split(line) = end.rows \o (IF end.paid > 0 \/ end.credit > 0 THEN <<0 - end.paid - end.credit>> ELSE <<>>)
  BY DEF Report!Split, Report!Outstanding
<1>. HIDE DEF end, base, t, u
<1>9. /\ mid \in Rests
      /\ Sum(mid.rows) - mid.paid - mid.credit = Sum(base.rows) - base.paid - base.credit + ti - tp
      /\ base.credit >= 0 => mid.credit >= 0
      /\ tp = 0 \/ base.paid >= 0 => mid.paid >= 0
  BY <1>1, <1>2, <1>6, <1>7, AllocatedGives
<1>10. /\ end \in Rests
       /\ Sum(end.rows) - end.paid - end.credit = Sum(mid.rows) - mid.paid - mid.credit + ui - up
       /\ mid.credit >= 0 => end.credit >= 0
       /\ up = 0 \/ mid.paid >= 0 => end.paid >= 0
  BY <1>1, <1>2, <1>7, <1>9, AllocatedGives
<1>11. base.paid = settled - (tp + up) /\ base.credit = credit /\ Sum(base.rows) = 0
  <2>1. <<>> \in Seq(Int) /\ Len(<<>>) = 0
    OBVIOUS
  <2>. QED  BY <1>5, <2>1, SeqSum
<1>12. PICK mp \in Int, mc \in Int, mr \in Int : mp = mid.paid /\ mc = mid.credit /\ mr = Sum(mid.rows)
  BY <1>9, SeqSum DEF Rests
<1>13. PICK ep \in Int, ec \in Int, es \in Seq(Int), er \in Int :
          ep = end.paid /\ ec = end.credit /\ es = end.rows /\ er = Sum(es)
  BY <1>10, SeqSum DEF Rests
<1>14. /\ er - ep - ec = mr - mp - mc + ui - up
       /\ mr - mp - mc = 0 - (settled - (tp + up)) - credit + ti - tp
       /\ credit >= 0 => mc >= 0
       /\ mc >= 0 => ec >= 0
       /\ tp = 0 \/ settled - (tp + up) >= 0 => mp >= 0
       /\ up = 0 \/ mp >= 0 => ep >= 0
  BY <1>9, <1>10, <1>11, <1>12, <1>13
<1>15. er - ep - ec = Price - settled - credit
  <2>1. /\ er \in Int /\ ep \in Int /\ ec \in Int /\ mr \in Int /\ mp \in Int /\ mc \in Int
        /\ Price \in Nat /\ settled \in Int /\ credit \in Int /\ ti \in Nat /\ tp \in Nat /\ ui \in Nat /\ up \in Nat
    OBVIOUS
  <2>2. er - ep - ec = mr - mp - mc + ui - up /\ ti + ui = Price
    BY <1>2, <1>14
  <2>3. mr - mp - mc = 0 - (settled - (tp + up)) - credit + ti - tp
    BY <1>14
  <2>. QED  BY ONLY <2>1, <2>2, <2>3
<1>16. PICK x \in Int : x = 0 - ep - ec
  <2>1. 0 - ep - ec \in Int
    OBVIOUS
  <2>. QED  BY <2>1, Zenon
<1>17. Report!Split(line) = IF ep > 0 \/ ec > 0 THEN Append(es, x) ELSE es
  <2>1. es \o <<x>> = Append(es, x) /\ es \o <<>> = es
    OBVIOUS
  <2>2. Report!Split(line) = es \o (IF ep > 0 \/ ec > 0 THEN <<x>> ELSE <<>>)
    BY <1>8, <1>13, <1>16
  <2>. QED  BY <2>1, <2>2
<1>18. ASSUME line.invoiced = Price, line.credit >= 0, ~Later(line)
       PROVE  Sum(Report!Split(line)) = Report!Outstanding(line)
  <2>1. tp = 0 \/ up = 0 \/ settled - (tp + up) >= 0
    <3>1. DOMAIN asked.terms = 1..2 /\ asked.terms # <<>>
      BY DEF TwoTerms
    <3>2. ~(tp + up > settled /\ tp > 0 /\ up > 0)
      BY <1>2, <1>3, <1>4, <1>18, <3>1 DEF Later, t, u
    <3>. QED  BY <3>2
  <2>2. ec >= 0 /\ ep >= 0
    BY <1>3, <1>14, <1>18, <2>1
  <2>3. Sum(Append(es, x)) = er + x
    BY <1>13, SeqSum
  <2>4. Sum(Report!Split(line)) = er - ep - ec
    <3>1. CASE ep > 0 \/ ec > 0
      <4>1. Report!Split(line) = Append(es, x)
        BY <1>17, <3>1
      <4>2. er + x = er - ep - ec
        BY <1>16
      <4>. QED  BY <2>3, <4>1, <4>2
    <3>2. CASE ~(ep > 0 \/ ec > 0)
      <4>1. er = er - ep - ec
        BY <2>2, <3>2
      <4>2. Report!Split(line) = es
        BY <1>17, <3>2
      <4>. QED  BY <1>13, <4>1, <4>2
    <3>. QED  BY <3>1, <3>2
  <2>5. Report!Outstanding(line) = Price - settled - credit
    BY <1>3, <1>18 DEF Report!Outstanding
  <2>. QED  BY <1>15, <2>4, <2>5
<1>19. Report!Split(line) \in Seq(Int)
  <2>1. Append(es, x) \in Seq(Int)
    OBVIOUS
  <2>. QED  BY <1>17, <2>1
<1>. QED  BY <1>18, <1>19

(***************************************************************************)
(* Later payments.                                                         *)
(***************************************************************************)
Given == [outstanding : Int, remaining : Int, amount : Int, left : Seq(Nat)]

LEMMA IsGiven ==
    \A o, r, m \in Int, l \in Seq(Nat) :
        [outstanding |-> o, remaining |-> r, amount |-> m, left |-> l] \in Given
BY DEF Given

LEMMA GivenType ==
    ASSUME NEW acc \in Given, NEW f \in Nat
    PROVE  /\ Report!AllocatedFuture(acc, f) \in Given
           /\ Len(Report!AllocatedFuture(acc, f).left) = Len(acc.left) + 1
<1>. DEFINE a == Report!AllocatedFuture(acc, f)
<1>1. PICK o \in Int, r \in Int, m \in Int, l \in Seq(Nat) :
         acc = [outstanding |-> o, remaining |-> r, amount |-> m, left |-> l]
  BY DEF Given
<1>2. CASE r <= 0 \/ f = 0
  <2>1. a = [outstanding |-> o, remaining |-> r, amount |-> m, left |-> Append(l, f)]
    BY <1>1, <1>2 DEF Report!AllocatedFuture
  <2>2. Append(l, f) \in Seq(Nat) /\ Len(Append(l, f)) = Len(l) + 1
    OBVIOUS
  <2>3. a \in Given
    BY <2>1, <2>2, IsGiven
  <2>4. a.left = Append(l, f) /\ acc.left = l
    BY <1>1, <2>1
  <2>. QED  BY <2>2, <2>3, <2>4
<1>3. CASE ~(r <= 0 \/ f = 0) /\ f > o
  <2>1. a = [outstanding |-> o, remaining |-> 0, amount |-> o, left |-> Append(l, f - o)]
    BY <1>1, <1>3 DEF Report!AllocatedFuture
  <2>2. Append(l, f - o) \in Seq(Nat) /\ Len(Append(l, f - o)) = Len(l) + 1
    <3>1. f - o \in Nat
      BY <1>3
    <3>. QED  BY <3>1
  <2>3. a \in Given
    <3>1. PICK q : q = Append(l, f - o)
      OBVIOUS
    <3>2. q \in Seq(Nat)
      BY <2>2, <3>1
    <3>3. [outstanding |-> o, remaining |-> 0, amount |-> o, left |-> q] \in Given
      <4>1. 0 \in Int
        OBVIOUS
      <4>. QED  BY <3>2, <4>1, IsGiven, Zenon
    <3>. QED  BY <2>1, <3>1, <3>3
  <2>4. a.left = Append(l, f - o) /\ acc.left = l
    BY <1>1, <2>1
  <2>. QED  BY <2>2, <2>3, <2>4
<1>4. CASE ~(r <= 0 \/ f = 0) /\ ~(f > o)
  <2>1. a = [outstanding |-> o, remaining |-> o - m - f, amount |-> m + f, left |-> Append(l, 0)]
    BY <1>1, <1>4 DEF Report!AllocatedFuture
  <2>2. Append(l, 0) \in Seq(Nat) /\ Len(Append(l, 0)) = Len(l) + 1
    OBVIOUS
  <2>3. o - m - f \in Int /\ m + f \in Int
    OBVIOUS
  <2>4. a \in Given
    BY <2>1, <2>2, <2>3, IsGiven
  <2>5. a.left = Append(l, 0) /\ acc.left = l
    BY <1>1, <2>1
  <2>. QED  BY <2>2, <2>4, <2>5
<1>. QED  BY <1>2, <1>3, <1>4

LEMMA GivenFolds ==
    ASSUME NEW s \in Seq(Nat), NEW base \in Given
    PROVE  \E g : /\ Report!Folded(Report!AllocatedFuture, base, s) = g[Len(s)]
                  /\ g[0] = base /\ \A n \in 1..Len(s) : g[n] = Report!AllocatedFuture(g[n - 1], s[n])
<1>. DEFINE g == CHOOSE g : g = [n \in 0..Len(s) |-> IF n = 0 THEN base ELSE Report!AllocatedFuture(g[n - 1], s[n])]
            step == [x \in Given \X Nat |-> Report!AllocatedFuture(x[1], x[2])]
<1>1. Report!Folded(Report!AllocatedFuture, base, s) = g[Len(s)]
  BY DEF Report!Folded
<1>2. step \in [Given \X Nat -> Given] /\ \A x \in Given, e \in Nat : step[<<x, e>>] = Report!AllocatedFuture(x, e)
  BY GivenType
<1>. HIDE DEF step
<1>3. PICK f : Follows(f, base, step, s, Given)
  BY <1>2, FoldExists
<1>4. \A n \in 0..Len(s) : FoldTerm(f, base, step, s, n) = IF n = 0 THEN base ELSE Report!AllocatedFuture(f[n - 1], s[n])
  <2>. SUFFICES ASSUME NEW n \in 0..Len(s)
                PROVE  FoldTerm(f, base, step, s, n) = IF n = 0 THEN base ELSE Report!AllocatedFuture(f[n - 1], s[n])
    OBVIOUS
  <2>1. CASE n = 0
    BY <2>1 DEF FoldTerm
  <2>2. CASE n # 0
    <3>1. PICK x, e : x = f[n - 1] /\ e = s[n]
      OBVIOUS
    <3>2. x \in Given /\ e \in Nat
      BY <1>3, <2>2, <3>1 DEF Follows
    <3>3. step[<<x, e>>] = Report!AllocatedFuture(x, e)
      BY <1>2, <3>2
    <3>. QED  BY <2>2, <3>1, <3>3 DEF FoldTerm
  <2>. QED  BY <2>1, <2>2
<1>5. f = [n \in 0..Len(s) |-> IF n = 0 THEN base ELSE Report!AllocatedFuture(f[n - 1], s[n])]
  <2>1. f = [n \in 0..Len(s) |-> FoldTerm(f, base, step, s, n)]
    BY <1>3 DEF Follows
  <2>. QED  BY <1>4, <2>1, Zenon
<1>6. g = [n \in 0..Len(s) |-> IF n = 0 THEN base ELSE Report!AllocatedFuture(g[n - 1], s[n])]
  BY <1>5, Zenon
<1>. HIDE DEF g
<1>7. g[0] = base /\ \A n \in 1..Len(s) : g[n] = Report!AllocatedFuture(g[n - 1], s[n])
  <2>1. 0 \in 0..Len(s) /\ \A n \in 1..Len(s) : n \in 0..Len(s) /\ n # 0
    OBVIOUS
  <2>. QED  BY ONLY <1>6, <2>1, Zenon
<1>. QED  BY <1>1, <1>7

\* What one row is given, and what is left.
GivenTo(o, fs) ==
    Report!Folded(Report!AllocatedFuture,
                  [outstanding |-> o, remaining |-> o, amount |-> 0, left |-> <<>>], fs)

LEMMA GivenOne ==
    ASSUME NEW o \in Int, NEW fs \in Seq(Nat)
    PROVE  LET end == GivenTo(o, fs)
           IN /\ end \in Given /\ Len(end.left) = Len(fs)
              /\ Len(fs) = 0 => end.amount = 0
              /\ Len(fs) = 1 =>
                    \/ end.amount = 0 /\ end.left[1] = fs[1]
                    \/ fs[1] > o /\ o > 0 /\ end.amount = o
                    \/ fs[1] <= o /\ end.amount = fs[1] /\ end.left[1] = 0
<1>. DEFINE base == [outstanding |-> o, remaining |-> o, amount |-> 0, left |-> <<>>]
<1>1. base \in Given /\ Len(base.left) = 0 /\ base.amount = 0 /\ base.left = <<>>
  <2>1. <<>> \in Seq(Nat) /\ Len(<<>>) = 0
    OBVIOUS
  <2>. QED  BY <2>1 DEF Given
<1>2. PICK end : end = GivenTo(o, fs)
  OBVIOUS
<1>3. PICK g : /\ end = g[Len(fs)]
               /\ g[0] = base /\ \A n \in 1..Len(fs) : g[n] = Report!AllocatedFuture(g[n - 1], fs[n])
  <2>1. end = Report!Folded(Report!AllocatedFuture, base, fs)
    BY <1>2 DEF GivenTo
  <2>. HIDE DEF base
  <2>2. base \in Given
    BY <1>1
  <2>3. PICK g : /\ Report!Folded(Report!AllocatedFuture, base, fs) = g[Len(fs)]
                 /\ g[0] = base /\ \A n \in 1..Len(fs) : g[n] = Report!AllocatedFuture(g[n - 1], fs[n])
    BY ONLY fs \in Seq(Nat), <2>2, GivenFolds
  <2>. QED  BY <2>1, <2>3
<1>4. end \in Given /\ Len(end.left) = Len(fs)
  <2>. DEFINE Q == {n \in Nat : n <= Len(fs) => g[n] \in Given /\ Len(g[n].left) = n}
  <2>1. 0 \in Q
    BY <1>1, <1>3
  <2>2. ASSUME NEW n \in Q PROVE n + 1 \in Q
    <3>. SUFFICES ASSUME n + 1 <= Len(fs) PROVE g[n + 1] \in Given /\ Len(g[n + 1].left) = n + 1
      OBVIOUS
    <3>1. n \in Nat /\ n + 1 \in 1..Len(fs) /\ (n + 1) - 1 = n /\ fs[n + 1] \in Nat
      OBVIOUS
    <3>2. g[n + 1] = Report!AllocatedFuture(g[n], fs[n + 1])
      BY <1>3, <3>1
    <3>3. g[n] \in Given /\ Len(g[n].left) = n
      BY <3>1
    <3>. QED  BY <3>1, <3>2, <3>3, GivenType
  <2>3. Q = Nat
    <3>1. Q \in SUBSET Nat
      OBVIOUS
    <3>. HIDE DEF Q
    <3>. QED  BY <2>1, <2>2, <3>1, Inductive
  <2>4. Len(fs) \in Nat /\ Len(fs) <= Len(fs)
    OBVIOUS
  <2>. QED  BY <1>3, <2>3, <2>4
<1>5. Len(fs) = 0 => end.amount = 0
  BY <1>1, <1>3
<1>6. ASSUME Len(fs) = 1
      PROVE  \/ end.amount = 0 /\ end.left[1] = fs[1]
             \/ fs[1] > o /\ o > 0 /\ end.amount = o
             \/ fs[1] <= o /\ end.amount = fs[1] /\ end.left[1] = 0
  <2>1. end = Report!AllocatedFuture(base, fs[1]) /\ fs[1] \in Nat
    <3>1. 1 \in 1..Len(fs) /\ 1 - 1 = 0
      BY <1>6
    <3>2. end = g[1] /\ g[1] = Report!AllocatedFuture(g[0], fs[1])
      BY <1>3, <1>6, <3>1
    <3>3. fs[1] \in Nat
      BY <3>1
    <3>. QED  BY <1>3, <3>2, <3>3
  <2>2. PICK f \in Nat : f = fs[1]
    BY <2>1
  <2>3. \A x : Append(<<>>, x)[1] = x
    OBVIOUS
  <2>4. CASE o <= 0 \/ f = 0
    <3>1. end = [outstanding |-> o, remaining |-> o, amount |-> 0, left |-> Append(<<>>, f)]
      BY <2>1, <2>2, <2>4 DEF Report!AllocatedFuture
    <3>. QED  BY <2>2, <2>3, <3>1
  <2>5. CASE ~(o <= 0 \/ f = 0) /\ f > o
    <3>1. end = [outstanding |-> o, remaining |-> 0, amount |-> o, left |-> Append(<<>>, f - o)]
      BY <2>1, <2>2, <2>5 DEF Report!AllocatedFuture
    <3>. QED  BY <2>2, <2>5, <3>1
  <2>6. CASE ~(o <= 0 \/ f = 0) /\ ~(f > o)
    <3>1. end = [outstanding |-> o, remaining |-> o - 0 - f, amount |-> 0 + f, left |-> Append(<<>>, 0)]
      BY <2>1, <2>2, <2>6 DEF Report!AllocatedFuture
    <3>. QED  BY <2>2, <2>3, <2>6, <3>1
  <2>. QED  BY <2>4, <2>5, <2>6
<1>. QED  BY <1>2, <1>4, <1>5, <1>6

(***************************************************************************)
(* Rows.                                                                   *)
(***************************************************************************)
DataRows == [outstanding : Int, future : Int]
RowsAndRest == [data : Seq(DataRows), future : Seq(Nat)]

OutstandingOf(d) == [i \in DOMAIN d |-> d[i].outstanding]

\* FutureFits of rows and what is left of later payments.
Fits(d, f) ==
    /\ Len(f) = 0 => \A i \in DOMAIN d : d[i].future = 0
    /\ Len(f) = 1 =>
          \A i \in DOMAIN d : d[i].future > 0 =>
              /\ d[i].future <= d[i].outstanding
              /\ \A j \in i + 1..Len(d) : d[j].future > 0 => d[i].future = d[i].outstanding
              /\ f[1] > 0 => d[i].future = d[i].outstanding

LEMMA OneMoreRow ==
    ASSUME NEW d \in Seq(DataRows), NEW f, NEW o \in Int, NEW a \in Int
    PROVE  LET e == Append(d, [outstanding |-> o, future |-> a])
           IN /\ e \in Seq(DataRows)
              /\ Sum(OutstandingOf(e)) = Sum(OutstandingOf(d)) + o
              /\ Sum(OutstandingOf(d)) \in Int
<1>1. PICK n \in Nat : n = Len(d)
  OBVIOUS
<1>2. PICK r : r = [outstanding |-> o, future |-> a]
  OBVIOUS
<1>3. r \in DataRows /\ r.outstanding = o
  BY <1>2 DEF DataRows
<1>4. PICK e : e = Append(d, r)
  OBVIOUS
<1>5. /\ e \in Seq(DataRows) /\ Len(e) = n + 1 /\ e[n + 1] = r
      /\ \A i \in 1..n : e[i] = d[i]
  BY <1>1, <1>3, <1>4
<1>6. PICK F : F = OutstandingOf(d)
  OBVIOUS
<1>7. PICK G : G = OutstandingOf(e)
  OBVIOUS
<1>8. F \in [1..n -> Int]
  <2>1. DOMAIN d = 1..n /\ \A i \in 1..n : d[i] \in DataRows
    BY <1>1
  <2>2. \A i \in 1..n : d[i].outstanding \in Int
    BY <2>1 DEF DataRows
  <2>. QED  BY <1>6, <2>1, <2>2 DEF OutstandingOf
<1>9. G \in [1..(n + 1) -> Int]
  <2>1. DOMAIN e = 1..(n + 1) /\ \A i \in 1..(n + 1) : e[i] \in DataRows
    BY <1>5
  <2>2. \A i \in 1..(n + 1) : e[i].outstanding \in Int
    BY <2>1 DEF DataRows
  <2>. QED  BY <1>7, <2>1, <2>2 DEF OutstandingOf
<1>10. \A i \in 1..n : G[i] = F[i]
  BY <1>1, <1>5, <1>6, <1>7 DEF OutstandingOf
<1>11. G[n + 1] = o
  BY <1>1, <1>3, <1>5, <1>7 DEF OutstandingOf
<1>12. Sum(G) = Sum(F) + G[n + 1]
  BY <1>8, <1>9, <1>10, SumAppends
<1>13. Sum(F) \in Int
  <2>1. IsFiniteSet(1..n)
    <3>1. n \in Int /\ 1 \in Int
      OBVIOUS
    <3>. QED  BY <3>1, FS_Interval
  <2>. QED  BY <1>8, <2>1, SumIsInt
<1>. QED  BY <1>2, <1>4, <1>5, <1>6, <1>7, <1>11, <1>12, <1>13

LEMMA OneMoreFits ==
    ASSUME NEW d \in Seq(DataRows), NEW o \in Int, NEW a \in Int, NEW f \in Seq(Nat), NEW g \in Seq(Nat),
           Len(g) = Len(f), Fits(d, f),
           Len(f) = 0 => a = 0,
           Len(f) = 1 => \/ a = 0 /\ g[1] = f[1]
                         \/ f[1] > o /\ o > 0 /\ a = o
                         \/ f[1] <= o /\ a = f[1] /\ g[1] = 0
    PROVE  Fits(Append(d, [outstanding |-> o, future |-> a]), g)
<1>1. PICK n \in Nat : n = Len(d)
  OBVIOUS
<1>2. PICK r : r = [outstanding |-> o, future |-> a]
  OBVIOUS
<1>3. r \in DataRows /\ r.outstanding = o /\ r.future = a
  BY <1>2 DEF DataRows
<1>4. PICK e : e = Append(d, r)
  OBVIOUS
<1>5. /\ e \in Seq(DataRows) /\ Len(e) = n + 1 /\ e[n + 1] = r
      /\ \A i \in 1..n : e[i] = d[i]
      /\ DOMAIN e = 1..(n + 1) /\ DOMAIN d = 1..n
  BY <1>1, <1>3, <1>4
<1>6. ASSUME Len(g) = 0 PROVE \A i \in DOMAIN e : e[i].future = 0
  <2>1. ASSUME NEW i \in 1..(n + 1) PROVE e[i].future = 0
    <3>1. CASE i = n + 1
      BY <1>3, <1>5, <1>6, <3>1
    <3>2. CASE i # n + 1
      <4>1. i \in 1..n
        BY <3>2
      <4>. QED  BY <1>5, <1>6, <4>1 DEF Fits
    <3>. QED  BY <3>1, <3>2
  <2>. QED  BY <1>5, <2>1
<1>7. ASSUME Len(g) = 1, NEW i \in DOMAIN e, e[i].future > 0
      PROVE  /\ e[i].future <= e[i].outstanding
             /\ \A j \in i + 1..Len(e) : e[j].future > 0 => e[i].future = e[i].outstanding
             /\ g[1] > 0 => e[i].future = e[i].outstanding
  <2>0. f[1] \in Nat /\ g[1] \in Nat
    <3>1. 1 \in 1..Len(f) /\ 1 \in 1..Len(g)
      BY <1>7
    <3>. QED  BY <3>1
  <2>1. PICK x \in Nat, y \in Nat : x = f[1] /\ y = g[1]
    BY <2>0
  <2>2. \/ a = 0 /\ y = x
        \/ x > o /\ o > 0 /\ a = o
        \/ x <= o /\ a = x /\ y = 0
    BY <1>7, <2>1
  <2>3. CASE i = n + 1
    <3>1. e[i].future = a /\ e[i].outstanding = o
      BY <1>3, <1>5, <2>3
    <3>2. a > 0 /\ a <= o /\ (y > 0 => a = o)
      BY <1>7, <2>2, <3>1
    <3>3. \A j \in i + 1..Len(e) : FALSE
      BY <1>5, <2>3
    <3>. QED  BY <2>1, <3>1, <3>2, <3>3
  <2>4. CASE i # n + 1
    <3>1. i \in 1..n /\ e[i] = d[i] /\ i \in DOMAIN d
      BY <1>5, <2>4
    <3>2. /\ d[i].future > 0
          /\ d[i].future <= d[i].outstanding
          /\ \A j \in i + 1..Len(d) : d[j].future > 0 => d[i].future = d[i].outstanding
          /\ x > 0 => d[i].future = d[i].outstanding
      BY <1>7, <2>1, <3>1 DEF Fits
    <3>3. ASSUME NEW j \in i + 1..Len(e), e[j].future > 0 PROVE d[i].future = d[i].outstanding
      <4>1. CASE j = n + 1
        <5>1. a > 0
          BY <1>3, <1>5, <3>3, <4>1
        <5>2. x > 0
          BY <2>2, <5>1
        <5>. QED  BY <3>2, <5>2
      <4>2. CASE j # n + 1
        <5>1. j \in i + 1..Len(d) /\ j \in 1..n
          BY <1>1, <1>5, <3>1, <4>2
        <5>2. d[j].future > 0
          BY <1>5, <3>3, <5>1
        <5>. QED  BY <3>2, <5>1, <5>2
      <4>. QED  BY <4>1, <4>2
    <3>4. y > 0 => d[i].future = d[i].outstanding
      <4>1. y > 0 => x > 0
        BY <2>2
      <4>. QED  BY <3>2, <4>1
    <3>. QED  BY <2>1, <3>1, <3>2, <3>3, <3>4
  <2>. QED  BY <2>3, <2>4
<1>8. Fits(e, g)
  BY <1>6, <1>7 DEF Fits
<1>. QED  BY <1>2, <1>4, <1>8

LEMMA AppendedGives ==
    ASSUME NEW acc \in RowsAndRest, NEW o \in Int
    PROVE  LET b == Report!Appended(acc, o)
           IN /\ b \in RowsAndRest /\ Len(b.future) = Len(acc.future)
              /\ Sum(OutstandingOf(b.data)) = Sum(OutstandingOf(acc.data)) + o
              /\ Sum(OutstandingOf(acc.data)) \in Int
              /\ Fits(acc.data, acc.future) => Fits(b.data, b.future)
<1>1. PICK d \in Seq(DataRows), f \in Seq(Nat) : acc = [data |-> d, future |-> f]
  BY DEF RowsAndRest
<1>2. PICK end : end = GivenTo(o, f)
  OBVIOUS
<1>3. Report!Appended(acc, o) =
         [data |-> Append(d, [outstanding |-> o, future |-> end.amount]), future |-> end.left]
  BY <1>1, <1>2 DEF Report!Appended, GivenTo
<1>4. /\ end \in Given /\ Len(end.left) = Len(f)
      /\ Len(f) = 0 => end.amount = 0
      /\ Len(f) = 1 =>
            \/ end.amount = 0 /\ end.left[1] = f[1]
            \/ f[1] > o /\ o > 0 /\ end.amount = o
            \/ f[1] <= o /\ end.amount = f[1] /\ end.left[1] = 0
  BY <1>2, GivenOne
<1>5. PICK a \in Int, g \in Seq(Nat) : a = end.amount /\ g = end.left
  BY <1>4 DEF Given
<1>6. PICK e : e = Append(d, [outstanding |-> o, future |-> a])
  OBVIOUS
<1>7. /\ e \in Seq(DataRows)
      /\ Sum(OutstandingOf(e)) = Sum(OutstandingOf(d)) + o
      /\ Sum(OutstandingOf(d)) \in Int
  BY <1>6, OneMoreRow
<1>8. Fits(d, f) => Fits(e, g)
  BY <1>4, <1>5, <1>6, OneMoreFits
<1>9. Report!Appended(acc, o) = [data |-> e, future |-> g]
  BY <1>3, <1>5, <1>6
<1>10. [data |-> e, future |-> g] \in RowsAndRest
  BY <1>7 DEF RowsAndRest
<1>. QED  BY <1>1, <1>4, <1>5, <1>7, <1>8, <1>9, <1>10

LEMMA AppendedType ==
    ASSUME NEW acc \in RowsAndRest, NEW o \in Int
    PROVE  Report!Appended(acc, o) \in RowsAndRest
BY AppendedGives

LEMMA AppendedFolds ==
    ASSUME NEW s \in Seq(Int), NEW base \in RowsAndRest
    PROVE  \E g : /\ Report!Folded(Report!Appended, base, s) = g[Len(s)]
                  /\ g[0] = base /\ \A n \in 1..Len(s) : g[n] = Report!Appended(g[n - 1], s[n])
<1>. DEFINE g == CHOOSE g : g = [n \in 0..Len(s) |-> IF n = 0 THEN base ELSE Report!Appended(g[n - 1], s[n])]
            step == [x \in RowsAndRest \X Int |-> Report!Appended(x[1], x[2])]
<1>1. Report!Folded(Report!Appended, base, s) = g[Len(s)]
  BY DEF Report!Folded
<1>2. step \in [RowsAndRest \X Int -> RowsAndRest] /\ \A x \in RowsAndRest, e \in Int : step[<<x, e>>] = Report!Appended(x, e)
  BY AppendedType
<1>. HIDE DEF step
<1>3. PICK f : Follows(f, base, step, s, RowsAndRest)
  BY <1>2, FoldExists
<1>4. \A n \in 0..Len(s) : FoldTerm(f, base, step, s, n) = IF n = 0 THEN base ELSE Report!Appended(f[n - 1], s[n])
  <2>. SUFFICES ASSUME NEW n \in 0..Len(s)
                PROVE  FoldTerm(f, base, step, s, n) = IF n = 0 THEN base ELSE Report!Appended(f[n - 1], s[n])
    OBVIOUS
  <2>1. CASE n = 0
    BY <2>1 DEF FoldTerm
  <2>2. CASE n # 0
    <3>1. PICK x, e : x = f[n - 1] /\ e = s[n]
      OBVIOUS
    <3>2. x \in RowsAndRest /\ e \in Int
      BY <1>3, <2>2, <3>1 DEF Follows
    <3>3. step[<<x, e>>] = Report!Appended(x, e)
      BY <1>2, <3>2
    <3>. QED  BY <2>2, <3>1, <3>3 DEF FoldTerm
  <2>. QED  BY <2>1, <2>2
<1>5. f = [n \in 0..Len(s) |-> IF n = 0 THEN base ELSE Report!Appended(f[n - 1], s[n])]
  <2>1. f = [n \in 0..Len(s) |-> FoldTerm(f, base, step, s, n)]
    BY <1>3 DEF Follows
  <2>. QED  BY <1>4, <2>1, Zenon
<1>6. g = [n \in 0..Len(s) |-> IF n = 0 THEN base ELSE Report!Appended(g[n - 1], s[n])]
  BY <1>5, Zenon
<1>. HIDE DEF g
<1>7. g[0] = base /\ \A n \in 1..Len(s) : g[n] = Report!Appended(g[n - 1], s[n])
  <2>1. 0 \in 0..Len(s) /\ \A n \in 1..Len(s) : n \in 0..Len(s) /\ n # 0
    OBVIOUS
  <2>. QED  BY ONLY <1>6, <2>1, Zenon
<1>. QED  BY <1>1, <1>7


(***************************************************************************)
(* What was read, and what was shown.                                      *)
(***************************************************************************)
ChosenAmounts(k) == [i \in 1..k |-> IF Report!Chosen(ledger[i]) THEN ledger[i].amount ELSE 0]

Out(v) == Report!Outstanding(balance[v])

ReadVouchers(k) == {ledger[i].voucher : i \in {j \in 1..k : Report!Chosen(ledger[j])}}

\* What the rows of the vouchers in S lack.
Part(v, S) == IF v \in S THEN Out(v) ELSE 0
AllOf(S) == Part("invoice", S) + Part("return", S) + Part("payment", S) + Part("journal", S)

Read == IF at <= Len(ledger) THEN at - 1 ELSE Len(ledger)
Done == IF at <= Len(ledger) THEN 0 ELSE at - Len(ledger) - 1

BalanceInv ==
    /\ balance \in [Report!Voucher -> Report!Row] /\ at \in 1..(2 * Len(ledger) + 1)
    /\ \A v \in Report!Voucher : v \notin Report!Vouchers => Out(v) = 0
    /\ balance["invoice"].credit >= 0
    /\ Report!Chosen(ledger[1]) => balance["invoice"].invoiced = IF at > 1 THEN Price ELSE 0
    /\ Out("invoice") + Out("return") + Out("payment") + Out("journal") = Sum(ChosenAmounts(Read))

DataInv ==
    /\ data \in Seq(DataRows) /\ future \in Seq(Nat) /\ Fits(data, future)
    /\ at <= Len(ledger) => data = <<>>
    /\ ~Later(balance["invoice"]) => Sum(OutstandingOf(data)) = AllOf(ReadVouchers(Done))

ReportInv == ReportData /\ BalanceInv /\ DataInv

LEMMA EntryOf ==
    ASSUME ReportData, NEW i \in 1..Len(ledger)
    PROVE  /\ ledger[i] \in Report!Entry /\ ledger[i].voucher \in Report!Voucher
           /\ ledger[i].amount \in Int /\ Report!Chosen(ledger[i]) \in BOOLEAN
           /\ i = 1 => /\ ledger[i].voucher = "invoice" /\ ledger[i].against = "invoice"
                       /\ ledger[i].amount = Price
           /\ i # 1 => ledger[i].voucher # "invoice" /\ Report!Legal(ledger[i])
<1>1. ledger[i] \in Report!Entry
  BY DEF ReportData
<1>2. ledger[i].voucher \in Report!Voucher /\ ledger[i].amount \in Int /\ ledger[i].late \in BOOLEAN
  BY <1>1 DEF Report!Entry, Report!Amount, ReportData
<1>3. i = 1 => /\ ledger[i].voucher = "invoice" /\ ledger[i].against = "invoice"
               /\ ledger[i].amount = Price
  <2>1. \A x : /\ Report!Sale(x).voucher = "invoice" /\ Report!Sale(x).against = "invoice"
               /\ Report!Sale(x).amount = Price
    BY DEF Report!Sale
  <2>. QED  BY <2>1 DEF ReportData
<1>4. i # 1 => ledger[i].voucher # "invoice" /\ Report!Legal(ledger[i])
  <2>1. i # 1 => Report!Legal(ledger[i])
    BY DEF ReportData
  <2>. QED  BY <2>1 DEF Report!Legal
<1>5. Report!Chosen(ledger[i]) \in BOOLEAN
  BY DEF Report!Chosen
<1>. QED  BY <1>1, <1>2, <1>3, <1>4, <1>5

LEMMA TargetOf ==
    ASSUME ReportData, NEW i \in 1..Len(ledger), Report!Chosen(ledger[i])
    PROVE  /\ Report!Target(ledger[i]) \in Report!Vouchers /\ Report!Target(ledger[i]) \in Report!Voucher
           /\ ledger[i].voucher \in Report!Vouchers
           /\ Report!Target(ledger[i]) = "invoice" /\ i # 1 => Report!Original(ledger[i]) = "invoice"
<1>1. DOMAIN ledger = 1..Len(ledger)
  BY DEF ReportData
<1>2. ledger[i].voucher \in Report!Vouchers
  BY <1>1 DEF Report!Vouchers
<1>3. Report!Vouchers \subseteq Report!Voucher
  BY <1>1, EntryOf DEF Report!Vouchers
<1>. QED  BY <1>2, <1>3, EntryOf DEF Report!Target

LEMMA UpdatedGives ==
    ASSUME ReportData, NEW i \in 1..Len(ledger), NEW line \in Report!Row
    PROVE  LET q == Report!Updated(line, ledger[i])
           IN /\ q \in Report!Row
              /\ Report!Outstanding(q) = Report!Outstanding(line) + ledger[i].amount
              /\ line.credit >= 0 => q.credit >= 0
              /\ i = 1 => q.invoiced = line.invoiced + Price
              /\ i # 1 /\ Report!Original(ledger[i]) = "invoice" => q.invoiced = line.invoiced
<1>1. PICK n \in Int, p \in Int, c \in Int : line = [invoiced |-> n, paid |-> p, credit |-> c]
  BY DEF Report!Row
<1>2. PICK a \in Int : a = ledger[i].amount
  BY EntryOf
<1>3. PICK v, w : v = ledger[i].voucher /\ w = ledger[i].against
  OBVIOUS
<1>4. PICK q : q = Report!Updated(line, ledger[i])
  OBVIOUS
<1>5. Price \in Nat \ {0}
  BY DEF ReportData
<1>6. \A x, y, z \in Int : [invoiced |-> x, paid |-> y, credit |-> z] \in Report!Row
  BY DEF Report!Row
<1>7. CASE a > 0 /\ ~(~Report!IsInvoice(v) /\ w # Report!Nothing)
  <2>1. q = [invoiced |-> n + a, paid |-> p, credit |-> c]
    BY <1>1, <1>2, <1>3, <1>4, <1>7 DEF Report!Updated
  <2>2. n + a \in Int
    OBVIOUS
  <2>3. q \in Report!Row
    BY <1>6, <2>1, <2>2
  <2>4. ~(i # 1 /\ Report!Original(ledger[i]) = "invoice")
    <3>1. ASSUME i # 1 PROVE Report!Original(ledger[i]) # "invoice"
      <4>1. v # "invoice" /\ Report!Legal(ledger[i])
        BY <1>3, <3>1, EntryOf
      <4>2. ~(v = "return")
        BY <1>2, <1>3, <1>7, <4>1 DEF Report!Legal
      <4>3. w = Report!Nothing
        BY <1>7, <4>1, <4>2 DEF Report!IsInvoice
      <4>. QED  BY <1>3, <4>3 DEF Report!Original, Report!Nothing
    <3>. QED  BY <3>1
  <2>5. Report!Outstanding(q) = Report!Outstanding(line) + a
    BY <1>1, <2>1 DEF Report!Outstanding
  <2>6. i = 1 => a = Price
    BY <1>2, EntryOf
  <2>. QED  BY <1>1, <1>2, <1>4, <2>1, <2>3, <2>4, <2>5, <2>6
<1>8. CASE ~(a > 0 /\ ~(~Report!IsInvoice(v) /\ w # Report!Nothing)) /\ a < 0 /\ Report!IsInvoice(v)
  <2>1. q = [invoiced |-> n, paid |-> p, credit |-> c - a]
    BY <1>1, <1>2, <1>3, <1>4, <1>8 DEF Report!Updated
  <2>2. c - a \in Int /\ (c >= 0 => c - a >= 0)
    BY <1>8
  <2>3. q \in Report!Row
    BY <1>6, <2>1, <2>2
  <2>4. i # 1
    BY <1>2, <1>5, <1>8, EntryOf
  <2>5. Report!Outstanding(q) = Report!Outstanding(line) + a
    BY <1>1, <2>1 DEF Report!Outstanding
  <2>. QED  BY <1>1, <1>2, <1>4, <2>1, <2>2, <2>3, <2>4, <2>5
<1>9. CASE /\ ~(a > 0 /\ ~(~Report!IsInvoice(v) /\ w # Report!Nothing))
           /\ ~(a < 0 /\ Report!IsInvoice(v))
  <2>1. q = [invoiced |-> n, paid |-> p - a, credit |-> c]
    BY <1>1, <1>2, <1>3, <1>4, <1>9 DEF Report!Updated
  <2>2. p - a \in Int
    OBVIOUS
  <2>3. q \in Report!Row
    BY <1>6, <2>1, <2>2
  <2>4. i # 1
    <3>1. i = 1 => a = Price /\ v = "invoice"
      BY <1>2, <1>3, EntryOf
    <3>. QED  BY <1>5, <1>9, <3>1 DEF Report!IsInvoice
  <2>5. Report!Outstanding(q) = Report!Outstanding(line) + a
    BY <1>1, <2>1 DEF Report!Outstanding
  <2>. QED  BY <1>1, <1>2, <1>4, <2>1, <2>3, <2>4, <2>5
<1>. QED  BY <1>7, <1>8, <1>9

LEMMA SameData ==
    ASSUME UNCHANGED <<ledger, asked>>
    PROVE  /\ ReportData' <=> ReportData
           /\ \A e : Report!Chosen(e)' <=> Report!Chosen(e)
           /\ Report!Vouchers' = Report!Vouchers
           /\ \A k : ChosenAmounts(k)' = ChosenAmounts(k) /\ Sum(ChosenAmounts(k))' = Sum(ChosenAmounts(k))
           /\ \A k : ReadVouchers(k)' = ReadVouchers(k)
           /\ \A line : Later(line)' <=> Later(line)
<1>1. ReportData' <=> ReportData
  BY DEF ReportData, TwoTerms, Report!Legal, Report!Nothing, Report!Sale
<1>2. \A e : Report!Chosen(e)' <=> Report!Chosen(e)
  BY DEF Report!Chosen
<1>3. Report!Vouchers' = Report!Vouchers
  BY DEF Report!Vouchers, Report!Chosen
<1>4. \A k : ChosenAmounts(k)' = ChosenAmounts(k)
  BY DEF ChosenAmounts, Report!Chosen
<1>5. \A k : Sum(ChosenAmounts(k))' = Sum(ChosenAmounts(k))
  <2>. SUFFICES ASSUME NEW k PROVE Sum(ChosenAmounts(k))' = Sum(ChosenAmounts(k))
    OBVIOUS
  <2>1. ChosenAmounts(k)' = ChosenAmounts(k)
    BY <1>4
  <2>2. Sum(ChosenAmounts(k))' = Sum(ChosenAmounts(k)')
    BY DEF Sum, Batches!FoldFunction, Batches!FoldFunctionOnSet, Batches!MapThenFoldSet
  <2>. QED  BY <2>1, <2>2
<1>6. \A k : ReadVouchers(k)' = ReadVouchers(k)
  BY DEF ReadVouchers, Report!Chosen
<1>7. \A line : Later(line)' <=> Later(line)
  <2>1. Report!Scheduled' = Report!Scheduled
    BY DEF Report!Scheduled, Report!Sum, Report!FoldFunction, Report!FoldFunctionOnSet, Report!MapThenFoldSet
  <2>. QED  BY <2>1 DEF Later
<1>. QED  BY <1>1, <1>2, <1>3, <1>4, <1>5, <1>6, <1>7

LEMMA AmountsStep ==
    ASSUME ReportData, NEW i \in 1..Len(ledger)
    PROVE  /\ Sum(ChosenAmounts(i)) = Sum(ChosenAmounts(i - 1))
                                + IF Report!Chosen(ledger[i]) THEN ledger[i].amount ELSE 0
           /\ Sum(ChosenAmounts(i - 1)) \in Int
<1>1. PICK n \in Nat : n = i - 1
  OBVIOUS
<1>2. n + 1 = i /\ \A j \in 1..(n + 1) : j \in 1..Len(ledger)
  BY <1>1
<1>3. \A j \in 1..(n + 1) : (IF Report!Chosen(ledger[j]) THEN ledger[j].amount ELSE 0) \in Int
  BY <1>2, EntryOf
<1>4. PICK f : f = ChosenAmounts(n)
  OBVIOUS
<1>5. PICK g : g = ChosenAmounts(n + 1)
  OBVIOUS
<1>6. f \in [1..n -> Int]
  BY <1>3, <1>4 DEF ChosenAmounts
<1>7. g \in [1..(n + 1) -> Int] /\ (\A j \in 1..n : g[j] = f[j])
      /\ g[n + 1] = IF Report!Chosen(ledger[n + 1]) THEN ledger[n + 1].amount ELSE 0
  BY <1>3, <1>4, <1>5 DEF ChosenAmounts
<1>8. Sum(g) = Sum(f) + g[n + 1]
  BY <1>6, <1>7, SumAppends
<1>9. Sum(f) \in Int
  <2>1. IsFiniteSet(1..n)
    <3>1. n \in Int /\ 1 \in Int
      OBVIOUS
    <3>. QED  BY <3>1, FS_Interval
  <2>. QED  BY <1>6, <2>1, SumIsInt
<1>10. ChosenAmounts(i - 1) = f /\ ChosenAmounts(i) = g
  BY <1>1, <1>2, <1>4, <1>5
<1>. QED  BY <1>2, <1>7, <1>8, <1>9, <1>10

LEMMA NothingShown == Sum(OutstandingOf(<<>>)) = 0
<1>1. PICK D, f : D = DOMAIN <<>> /\ f = [i \in D |-> <<>>[i].outstanding]
  OBVIOUS
<1>2. D = {} /\ f \in [D -> Int] /\ \A d \in D : f[d] = 0
  BY <1>1
<1>3. IsFiniteSet(D)
  BY <1>2, FS_EmptySet
<1>4. Sum(f) = 0
  BY <1>2, <1>3, IntSumOfNothing
<1>. QED  BY <1>1, <1>4 DEF OutstandingOf

LEMMA OutIsInt ==
    ASSUME balance \in [Report!Voucher -> Report!Row]
    PROVE  /\ \A v \in Report!Voucher : balance[v] \in Report!Row /\ Out(v) \in Int
           /\ AllOf({}) = 0
           /\ "invoice" \in Report!Voucher /\ "return" \in Report!Voucher
           /\ "payment" \in Report!Voucher /\ "journal" \in Report!Voucher
<1>1. \A v \in Report!Voucher : balance[v] \in Report!Row /\ Out(v) \in Int
  BY DEF Out, Report!Outstanding, Report!Row
<1>. QED  BY <1>1 DEF AllOf, Part, Report!Voucher

LEMMA UpdateKeeps == ReportInv /\ Report!UpdateBalance => ReportInv'
<1>. SUFFICES ASSUME ReportInv, Report!UpdateBalance PROVE ReportInv'
  OBVIOUS
<1>1. ReportData /\ BalanceInv /\ DataInv
  BY DEF ReportInv
<1>2. PICK n \in Nat : n = Len(ledger) /\ n >= 1
  BY <1>1 DEF ReportData
<1>3. PICK i \in 1..n : i = at
  BY <1>1, <1>2 DEF BalanceInv, Report!UpdateBalance
<1>4. /\ at' = i + 1 /\ data = <<>>
      /\ UNCHANGED <<ledger, asked, data, future>>
  BY <1>1, <1>2, <1>3 DEF Report!UpdateBalance, DataInv
<1>5. /\ balance \in [Report!Voucher -> Report!Row]
      /\ \A v \in Report!Voucher : v \notin Report!Vouchers => Out(v) = 0
      /\ balance["invoice"].credit >= 0
      /\ Report!Chosen(ledger[1]) => balance["invoice"].invoiced = IF i > 1 THEN Price ELSE 0
      /\ Out("invoice") + Out("return") + Out("payment") + Out("journal") = Sum(ChosenAmounts(i - 1))
  BY <1>1, <1>2, <1>3 DEF BalanceInv, Read
<1>6. PICK a \in Int, t \in Report!Voucher :
         /\ balance' \in [Report!Voucher -> Report!Row]
         /\ \A v \in Report!Voucher : Out(v)' = IF v = t THEN Out(v) + a ELSE Out(v)
         /\ a = IF Report!Chosen(ledger[i]) THEN ledger[i].amount ELSE 0
         /\ t \in Report!Vouchers \/ a = 0
         /\ balance'["invoice"].credit >= 0
         /\ Report!Chosen(ledger[1]) => balance'["invoice"].invoiced = Price
  <2>1. CASE ~Report!Chosen(ledger[i])
    <3>1. balance' = balance
      BY <1>3, <2>1 DEF Report!UpdateBalance
    <3>2. \A v \in Report!Voucher : Out(v) \in Int /\ Out(v)' = Out(v)
      BY <1>5, <3>1, OutIsInt DEF Out, Report!Outstanding
    <3>3. Report!Chosen(ledger[1]) => i > 1
      BY <2>1
    <3>4. "invoice" \in Report!Voucher /\ 0 \in Int
      BY DEF Report!Voucher
    <3>5. \A v \in Report!Voucher : Out(v)' = IF v = "invoice" THEN Out(v) + 0 ELSE Out(v)
      BY <3>2
    <3>6. /\ balance' \in [Report!Voucher -> Report!Row] /\ balance'["invoice"].credit >= 0
          /\ Report!Chosen(ledger[1]) => balance'["invoice"].invoiced = Price
      BY <1>5, <3>1, <3>3
    <3>. QED  BY <2>1, <3>4, <3>5, <3>6
  <2>2. CASE Report!Chosen(ledger[i])
    <3>1. PICK t : t = Report!Target(ledger[i])
      OBVIOUS
    <3>2. PICK a \in Int : a = ledger[i].amount
      BY <1>1, <1>2, EntryOf
    <3>3. PICK q : q = Report!Updated(balance[t], ledger[i])
      OBVIOUS
    <3>4. t \in Report!Voucher /\ t \in Report!Vouchers /\ (t = "invoice" /\ i # 1 => Report!Original(ledger[i]) = "invoice")
      BY <1>1, <1>2, <2>2, <3>1, TargetOf
    <3>5. /\ q \in Report!Row
          /\ Report!Outstanding(q) = Report!Outstanding(balance[t]) + a
          /\ balance[t].credit >= 0 => q.credit >= 0
          /\ i = 1 => q.invoiced = balance[t].invoiced + Price
          /\ i # 1 /\ t = "invoice" => q.invoiced = balance[t].invoiced
      BY <1>1, <1>2, <1>5, <3>2, <3>3, <3>4, UpdatedGives
    <3>6. balance' = [balance EXCEPT ![t] = q]
      BY <1>3, <2>2, <3>1, <3>3 DEF Report!UpdateBalance
    <3>7. /\ balance' \in [Report!Voucher -> Report!Row] /\ balance'[t] = q
          /\ \A v \in Report!Voucher : v # t => balance'[v] = balance[v]
      BY <1>5, <3>4, <3>5, <3>6
    <3>8. ASSUME NEW v \in Report!Voucher PROVE Out(v)' = IF v = t THEN Out(v) + a ELSE Out(v)
      BY <3>5, <3>7 DEF Out, Report!Outstanding
    <3>9. "invoice" \in Report!Voucher
      BY DEF Report!Voucher
    <3>10. balance'["invoice"].credit >= 0
      BY <1>5, <3>5, <3>7, <3>9
    <3>11. ASSUME Report!Chosen(ledger[1]) PROVE balance'["invoice"].invoiced = Price
      <4>1. CASE i = 1
        <5>1. t = "invoice"
          <6>1. ledger[i].voucher = "invoice" /\ ledger[i].against = "invoice"
            BY <1>1, <1>2, <4>1, EntryOf
          <6>2. ledger[i].voucher \in Report!Vouchers
            BY <1>1, <1>2, <2>2, TargetOf
          <6>. QED  BY <3>1, <6>1, <6>2 DEF Report!Target, Report!Original
        <5>2. Price \in Int
          BY <1>1 DEF ReportData
        <5>. QED  BY <1>5, <3>5, <3>7, <3>11, <4>1, <5>1, <5>2
      <4>2. CASE i # 1
        <5>1. i > 1
          BY <4>2
        <5>. QED  BY <1>5, <3>5, <3>7, <3>9, <3>11, <4>2, <5>1
      <4>. QED  BY <4>1, <4>2
    <3>. QED  BY <2>2, <3>2, <3>4, <3>7, <3>8, <3>10, <3>11
  <2>. QED  BY <2>1, <2>2
<1>7. /\ ReportData' /\ Report!Vouchers' = Report!Vouchers /\ Sum(ChosenAmounts(i))' = Sum(ChosenAmounts(i))
      /\ Report!Chosen(ledger[1])' <=> Report!Chosen(ledger[1])
  <2>1. Report!Chosen(ledger[1])' <=> Report!Chosen(ledger[1])
    BY <1>4 DEF Report!Chosen
  <2>. QED  BY <1>1, <1>4, <2>1, SameData
<1>8. (Out("invoice") + Out("return") + Out("payment") + Out("journal"))' = Sum(ChosenAmounts(i))
  <2>1. Sum(ChosenAmounts(i)) = Sum(ChosenAmounts(i - 1)) + a
    BY <1>1, <1>2, <1>6, AmountsStep
  <2>2. PICK w \in Int, x \in Int, y \in Int, z \in Int :
           w = Out("invoice") /\ x = Out("return") /\ y = Out("payment") /\ z = Out("journal")
    BY <1>5, OutIsInt
  <2>3. /\ Out("invoice")' = IF "invoice" = t THEN w + a ELSE w
        /\ Out("return")' = IF "return" = t THEN x + a ELSE x
        /\ Out("payment")' = IF "payment" = t THEN y + a ELSE y
        /\ Out("journal")' = IF "journal" = t THEN z + a ELSE z
    BY <1>5, <1>6, <2>2, OutIsInt
  <2>4. Sum(ChosenAmounts(i - 1)) = w + x + y + z
    BY <1>5, <2>2
  <2>5. t = "invoice" \/ t = "return" \/ t = "payment" \/ t = "journal"
    BY <1>6 DEF Report!Voucher
  <2>6. CASE t = "invoice"
    BY <2>1, <2>3, <2>4, <2>6
  <2>7. CASE t = "return"
    BY <2>1, <2>3, <2>4, <2>7
  <2>8. CASE t = "payment"
    BY <2>1, <2>3, <2>4, <2>8
  <2>9. CASE t = "journal"
    BY <2>1, <2>3, <2>4, <2>9
  <2>. QED  BY <2>5, <2>6, <2>7, <2>8, <2>9
<1>9. Len(ledger)' = n /\ at' \in 1..(2 * n + 1) /\ at' > 1 /\ Read' = i /\ Done' = 0
  BY <1>2, <1>3, <1>4 DEF Read, Done
<1>10. BalanceInv'
  <2>1. Sum(ChosenAmounts(Read))' = Sum(ChosenAmounts(i))'
    BY <1>9 DEF Sum, Batches!FoldFunction, Batches!FoldFunctionOnSet, Batches!MapThenFoldSet, ChosenAmounts
  <2>2. \A v \in Report!Voucher : v \notin Report!Vouchers => Out(v)' = 0
    BY <1>5, <1>6, OutIsInt
  <2>3. (\A v \in Report!Voucher : v \notin Report!Vouchers => Out(v) = 0)'
    BY <1>7, <2>2
  <2>. QED  BY <1>2, <1>6, <1>7, <1>8, <1>9, <2>1, <2>3 DEF BalanceInv
<1>11. DataInv'
  <2>1. ReadVouchers(Done)' = {}
    BY <1>9 DEF ReadVouchers
  <2>2. AllOf(ReadVouchers(Done))' = 0
    BY <2>1 DEF AllOf, Part
  <2>3. data' = <<>> /\ Sum(OutstandingOf(data))' = 0
    <3>1. data' = <<>>
      BY <1>4
    <3>2. Sum(OutstandingOf(data))' = Sum(OutstandingOf(data'))
      BY DEF Sum, Batches!FoldFunction, Batches!FoldFunctionOnSet, Batches!MapThenFoldSet, OutstandingOf
    <3>. QED  BY <3>1, <3>2, NothingShown
  <2>4. data \in Seq(DataRows) /\ future \in Seq(Nat) /\ Fits(data, future)
    BY <1>1 DEF DataInv
  <2>5. (data \in Seq(DataRows) /\ future \in Seq(Nat) /\ Fits(data, future))'
    BY <1>4, <2>4 DEF Fits
  <2>. QED  BY <2>2, <2>3, <2>5 DEF DataInv
<1>. QED  BY <1>7, <1>10, <1>11 DEF ReportInv

LEMMA SumOfSingle ==
    ASSUME NEW x \in Int
    PROVE  /\ <<x>> \in Seq(Int) /\ Sum(<<x>>) = x
           /\ <<>> \in Seq(Int) /\ Len(<<>>) = 0 /\ Sum(<<>>) = 0
<1>1. PICK s : s = <<>>
  OBVIOUS
<1>2. s \in Seq(Int) /\ Len(s) = 0
  BY <1>1
<1>3. Sum(s) = 0 /\ Sum(Append(s, x)) = Sum(s) + x
  BY <1>2, SeqSum
<1>4. Append(s, x) = <<x>> /\ <<x>> \in Seq(Int)
  BY <1>1
<1>. QED  BY <1>1, <1>2, <1>3, <1>4

LEMMA ShownComesTo ==
    ASSUME ReportData, NEW v \in Report!Voucher,
           balance \in [Report!Voucher -> Report!Row]
    PROVE  /\ Report!Shown(v) \in Seq(Int)
           /\ v # "invoice" => Report!Shown(v) = IF Out(v) = 0 THEN <<>> ELSE <<Out(v)>>
           /\ v = "invoice" /\ balance[v].invoiced = Price /\ balance[v].credit >= 0 /\ ~Later(balance[v])
                => Sum(Report!Shown(v)) = Out(v)
<1>1. PICK line \in Report!Row : line = balance[v]
  OBVIOUS
<1>2. PICK x \in Int : x = Out(v) /\ x = Report!Outstanding(line)
  BY <1>1 DEF Out, Report!Outstanding, Report!Row
<1>3. /\ <<x>> \in Seq(Int) /\ Sum(<<x>>) = x
      /\ <<>> \in Seq(Int) /\ Sum(<<>>) = 0
  BY SumOfSingle
<1>4. CASE x = 0
  <2>1. Report!Shown(v) = <<>>
    BY <1>1, <1>2, <1>4 DEF Report!Shown
  <2>. QED  BY <1>2, <1>3, <1>4, <2>1
<1>5. CASE x # 0 /\ v = "invoice" /\ asked.terms # <<>>
  <2>1. Report!Shown(v) = Report!Split(line)
    BY <1>1, <1>2, <1>5 DEF Report!Shown
  <2>2. TwoTerms(asked.terms) /\ Price \in Nat
    BY <1>5 DEF ReportData
  <2>3. /\ Report!Split(line) \in Seq(Int)
        /\ line.invoiced = Price /\ line.credit >= 0 /\ ~Later(line)
             => Sum(Report!Split(line)) = Report!Outstanding(line)
    BY <2>2, SplitComesTo
  <2>. QED  BY <1>1, <1>2, <1>5, <2>1, <2>3
<1>6. CASE x # 0 /\ ~(v = "invoice" /\ asked.terms # <<>>)
  <2>1. Report!Shown(v) = <<x>>
    BY <1>1, <1>2, <1>6 DEF Report!Shown
  <2>. QED  BY <1>2, <1>3, <1>6, <2>1
<1>. QED  BY <1>4, <1>5, <1>6

LEMMA RowsAdded ==
    ASSUME NEW s \in Seq(Int), NEW base \in RowsAndRest
    PROVE  LET end == Report!Folded(Report!Appended, base, s)
           IN /\ end \in RowsAndRest /\ Len(end.future) = Len(base.future)
              /\ Sum(OutstandingOf(end.data)) = Sum(OutstandingOf(base.data)) + Sum(s)
              /\ Fits(base.data, base.future) => Fits(end.data, end.future)
<1>1. PICK g : /\ Report!Folded(Report!Appended, base, s) = g[Len(s)]
               /\ g[0] = base /\ \A n \in 1..Len(s) : g[n] = Report!Appended(g[n - 1], s[n])
  BY AppendedFolds
<1>2. PICK N \in Nat : N = Len(s) /\ s \in [1..N -> Int]
  OBVIOUS
<1>. DEFINE First(n) == [i \in 1..n |-> s[i]]
            Good(n) == /\ g[n] \in RowsAndRest /\ Len(g[n].future) = Len(base.future)
                       /\ Sum(OutstandingOf(g[n].data)) = Sum(OutstandingOf(base.data)) + Sum(First(n))
                       /\ Fits(base.data, base.future) => Fits(g[n].data, g[n].future)
            Q == {n \in Nat : n <= N => Good(n)}
<1>3. PICK b \in Int : b = Sum(OutstandingOf(base.data))
  <2>1. 0 \in Int
    OBVIOUS
  <2>. QED  BY <2>1, AppendedGives
<1>4. \A n \in Nat : n <= N => First(n) \in [1..n -> Int] /\ Sum(First(n)) \in Int
  <2>. SUFFICES ASSUME NEW n \in Nat, n <= N PROVE First(n) \in [1..n -> Int] /\ Sum(First(n)) \in Int
    OBVIOUS
  <2>1. First(n) \in [1..n -> Int]
    BY <1>2
  <2>2. IsFiniteSet(1..n)
    <3>1. n \in Int /\ 1 \in Int
      OBVIOUS
    <3>. QED  BY <3>1, FS_Interval
  <2>. HIDE DEF First
  <2>. QED  BY <2>1, <2>2, SumIsInt
<1>5. 0 \in Q
  <2>1. PICK f : f = First(0)
    OBVIOUS
  <2>2. f \in Seq(Int) /\ Len(f) = 0
    BY <2>1
  <2>3. Sum(f) = 0
    BY <2>2, SeqSum
  <2>4. Good(0)
    <3>. HIDE DEF First
    <3>. QED  BY <1>1, <1>3, <2>1, <2>3
  <2>. HIDE DEF Good
  <2>. QED  BY <2>4
<1>6. ASSUME NEW n \in Q PROVE n + 1 \in Q
  <2>. SUFFICES ASSUME n + 1 <= N PROVE Good(n + 1)
    OBVIOUS
  <2>1. n \in Nat /\ n <= N /\ n + 1 \in 1..N /\ (n + 1) - 1 = n /\ n + 1 \in Nat
    OBVIOUS
  <2>2. PICK x \in Int : x = s[n + 1]
    BY <1>2, <2>1
  <2>3. g[n + 1] = Report!Appended(g[n], x)
    BY <1>1, <1>2, <2>1, <2>2
  <2>4. Good(n)
    <3>. HIDE DEF Good
    <3>. QED  BY <2>1
  <2>5. Sum(First(n + 1)) = Sum(First(n)) + x
    <3>1. First(n) \in [1..n -> Int] /\ First(n + 1) \in [1..(n + 1) -> Int]
      BY <1>4, <2>1
    <3>2. (\A i \in 1..n : First(n + 1)[i] = First(n)[i]) /\ First(n + 1)[n + 1] = x
      BY <2>1, <2>2
    <3>. HIDE DEF First
    <3>. QED  BY <2>1, <3>1, <3>2, SumAppends
  <2>6. Sum(First(n)) \in Int
    BY <1>4, <2>1
  <2>. HIDE DEF First
  <2>7. PICK a : a = g[n]
    OBVIOUS
  <2>8. PICK e : e = g[n + 1]
    OBVIOUS
  <2>9. a \in RowsAndRest /\ e = Report!Appended(a, x)
    BY <2>3, <2>4, <2>7, <2>8
  <2>10. /\ e \in RowsAndRest /\ Len(e.future) = Len(a.future)
         /\ Sum(OutstandingOf(e.data)) = Sum(OutstandingOf(a.data)) + x
         /\ Fits(a.data, a.future) => Fits(e.data, e.future)
    BY <2>9, AppendedGives
  <2>11. Sum(OutstandingOf(a.data)) = b + Sum(First(n))
    BY <1>3, <2>4, <2>7
  <2>12. Sum(OutstandingOf(e.data)) = b + Sum(First(n + 1))
    BY <2>5, <2>6, <2>10, <2>11
  <2>. QED  BY <1>3, <2>4, <2>7, <2>8, <2>10, <2>12
<1>7. Q = Nat
  <2>1. Q \in SUBSET Nat
    OBVIOUS
  <2>. HIDE DEF Q
  <2>. QED  BY <1>5, <1>6, <2>1, Inductive
<1>8. Good(N)
  <2>1. N \in Nat /\ N <= N
    OBVIOUS
  <2>. HIDE DEF Good
  <2>. QED  BY <1>7, <2>1
<1>9. First(N) = s
  BY <1>2
<1>. HIDE DEF First
<1>. QED  BY <1>1, <1>2, <1>8, <1>9

LEMMA FirstOf ==
    ASSUME ReportData, NEW i \in 1..Len(ledger)
    PROVE  /\ Report!First(i) => /\ Report!Chosen(ledger[i])
                                 /\ ledger[i].voucher \notin ReadVouchers(i - 1)
                                 /\ ReadVouchers(i) = ReadVouchers(i - 1) \cup {ledger[i].voucher}
           /\ ~Report!First(i) => ReadVouchers(i) = ReadVouchers(i - 1)
<1>1. PICK n \in Nat : n = Len(ledger) /\ i \in 1..n
  OBVIOUS
<1>2. PICK C : C = {j \in 1..n : Report!Chosen(ledger[j])}
  OBVIOUS
<1>3. PICK V : V = [j \in 1..n |-> ledger[j].voucher]
  OBVIOUS
<1>4. ASSUME NEW k \in 0..n PROVE ReadVouchers(k) = {V[j] : j \in {m \in 1..k : m \in C}}
  <2>1. \A j \in 1..k : (Report!Chosen(ledger[j]) <=> j \in C) /\ ledger[j].voucher = V[j]
    BY <1>2, <1>3
  <2>. QED  BY <2>1 DEF ReadVouchers
<1>5. Report!First(i) <=> i \in C /\ \A j \in 1..i - 1 : j \in C => V[j] # V[i]
  <2>1. \A j \in 1..i - 1 : (Report!Chosen(ledger[j]) <=> j \in C) /\ ledger[j].voucher = V[j]
    BY <1>1, <1>2, <1>3
  <2>2. (Report!Chosen(ledger[i]) <=> i \in C) /\ ledger[i].voucher = V[i]
    BY <1>1, <1>2, <1>3
  <2>. QED  BY <2>1, <2>2 DEF Report!First
<1>6. i - 1 \in 0..n /\ i \in 0..n
  BY <1>1
<1>7. PICK A : A = ReadVouchers(i - 1)
  OBVIOUS
<1>8. PICK B : B = ReadVouchers(i)
  OBVIOUS
<1>9. A = {V[j] : j \in {m \in 1..(i - 1) : m \in C}} /\ B = {V[j] : j \in {m \in 1..i : m \in C}}
  BY <1>4, <1>6, <1>7, <1>8
<1>10. \A j : j \in 1..i <=> j \in 1..(i - 1) \/ j = i
  BY <1>1
<1>11. B = A \cup (IF i \in C THEN {V[i]} ELSE {})
  BY <1>9, <1>10
<1>12. V[i] \in A <=> \E j \in 1..(i - 1) : j \in C /\ V[j] = V[i]
  BY <1>9
<1>13. ledger[i].voucher = V[i] /\ (Report!Chosen(ledger[i]) <=> i \in C)
  BY <1>1, <1>2, <1>3
<1>. QED  BY <1>5, <1>7, <1>8, <1>11, <1>12, <1>13

LEMMA AllOfMore ==
    ASSUME balance \in [Report!Voucher -> Report!Row],
           NEW S, NEW v \in Report!Voucher, v \notin S
    PROVE  AllOf(S \cup {v}) = AllOf(S) + Out(v)
<1>1. PICK w \in Int, x \in Int, y \in Int, z \in Int :
         w = Out("invoice") /\ x = Out("return") /\ y = Out("payment") /\ z = Out("journal")
  BY OutIsInt
<1>2. v = "invoice" \/ v = "return" \/ v = "payment" \/ v = "journal"
  BY DEF Report!Voucher
<1>3. CASE v = "invoice"
  BY <1>1, <1>3 DEF AllOf, Part
<1>4. CASE v = "return"
  BY <1>1, <1>4 DEF AllOf, Part
<1>5. CASE v = "payment"
  BY <1>1, <1>5 DEF AllOf, Part
<1>6. CASE v = "journal"
  BY <1>1, <1>6 DEF AllOf, Part
<1>. QED  BY <1>2, <1>3, <1>4, <1>5, <1>6

LEMMA AllOfIsInt ==
    ASSUME balance \in [Report!Voucher -> Report!Row], NEW S
    PROVE  AllOf(S) \in Int
<1>1. PICK w \in Int, x \in Int, y \in Int, z \in Int :
         w = Out("invoice") /\ x = Out("return") /\ y = Out("payment") /\ z = Out("journal")
  BY OutIsInt
<1>. QED  BY <1>1 DEF AllOf, Part

\* What an entry adds to the rows shown.
LEMMA RowsOf ==
    ASSUME ReportData, BalanceInv, NEW i \in 1..Len(ledger), at = i + Len(ledger)
    PROVE  LET v == ledger[i].voucher
               lines == IF Report!First(i) THEN Report!Shown(v) ELSE <<>>
           IN /\ lines \in Seq(Int)
              /\ v # "invoice" => lines = <<>> \/ \E o \in Int : lines = <<o>>
              /\ ~Later(balance["invoice"]) =>
                    AllOf(ReadVouchers(i)) = AllOf(ReadVouchers(i - 1)) + Sum(lines)
<1>1. PICK v \in Report!Voucher : v = ledger[i].voucher
  BY EntryOf
<1>2. PICK lines : lines = IF Report!First(i) THEN Report!Shown(v) ELSE <<>>
  OBVIOUS
<1>3. balance \in [Report!Voucher -> Report!Row] /\ balance["invoice"].credit >= 0
  BY DEF BalanceInv
<1>4. /\ Report!Shown(v) \in Seq(Int)
      /\ v # "invoice" => Report!Shown(v) = IF Out(v) = 0 THEN <<>> ELSE <<Out(v)>>
      /\ v = "invoice" /\ balance[v].invoiced = Price /\ balance[v].credit >= 0 /\ ~Later(balance[v])
                => Sum(Report!Shown(v)) = Out(v)
  BY <1>3, ShownComesTo
<1>5. PICK x \in Int : x = Out(v)
  BY <1>3, OutIsInt
<1>6. /\ <<x>> \in Seq(Int) /\ Sum(<<x>>) = x
      /\ <<>> \in Seq(Int) /\ Sum(<<>>) = 0
  BY SumOfSingle
<1>7. v = "invoice" => i = 1
  BY <1>1, EntryOf
<1>8. AllOf(ReadVouchers(i - 1)) \in Int
  BY <1>3, AllOfIsInt
<1>9. CASE ~Report!First(i)
  <2>1. lines = <<>> /\ ReadVouchers(i) = ReadVouchers(i - 1)
    BY <1>2, <1>9, FirstOf
  <2>2. AllOf(ReadVouchers(i)) = AllOf(ReadVouchers(i - 1)) + Sum(lines)
    BY <1>6, <1>8, <2>1
  <2>. QED  BY <1>1, <1>2, <1>6, <2>1, <2>2
<1>10. CASE Report!First(i)
  <2>1. lines = Report!Shown(v)
    BY <1>2, <1>10
  <2>2. /\ Report!Chosen(ledger[i]) /\ v \notin ReadVouchers(i - 1)
        /\ ReadVouchers(i) = ReadVouchers(i - 1) \cup {v}
    BY <1>1, <1>10, FirstOf
  <2>3. AllOf(ReadVouchers(i)) = AllOf(ReadVouchers(i - 1)) + x
    BY <1>3, <1>5, <2>2, AllOfMore
  <2>4. v # "invoice" => (lines = <<>> \/ lines = <<x>>) /\ Sum(lines) = x
    BY <1>4, <1>5, <1>6, <2>1
  <2>5. ASSUME v = "invoice", ~Later(balance["invoice"]) PROVE Sum(lines) = x
    <3>1. i = 1 /\ Report!Chosen(ledger[1])
      BY <1>7, <2>2, <2>5
    <3>2. at > 1
      <4>1. Len(ledger) \in Nat /\ Len(ledger) >= 1
        BY DEF ReportData
      <4>. QED  BY <4>1
    <3>3. balance[v].invoiced = Price
      BY <2>5, <3>1, <3>2 DEF BalanceInv
    <3>. QED  BY <1>3, <1>4, <1>5, <2>1, <2>5, <3>3
  <2>6. v # "invoice" => lines = <<>> \/ \E o \in Int : lines = <<o>>
    BY <2>4
  <2>7. ~Later(balance["invoice"]) => Sum(lines) = x
    BY <2>4, <2>5
  <2>. QED  BY <1>1, <1>2, <1>4, <2>1, <2>3, <2>6, <2>7
<1>. QED  BY <1>9, <1>10

LEMMA RowsOfOthers ==
    ASSUME NEW d \in Seq(DataRows), NEW f \in Seq(Nat), Fits(d, f),
           NEW lines, lines = <<>> \/ \E o \in Int : lines = <<o>>
    PROVE  LET e == d \o [j \in DOMAIN lines |-> [outstanding |-> lines[j], future |-> 0]]
           IN /\ e \in Seq(DataRows) /\ Fits(e, f)
              /\ Sum(OutstandingOf(e)) = Sum(OutstandingOf(d)) + Sum(lines)
<1>. DEFINE more == [j \in DOMAIN lines |-> [outstanding |-> lines[j], future |-> 0]]
<1>1. CASE lines = <<>>
  <2>1. more = <<>>
    BY <1>1
  <2>. HIDE DEF more
  <2>2. d \o more = d
    BY <2>1
  <2>3. Sum(lines) = 0 /\ Sum(OutstandingOf(d)) \in Int
    <3>1. 0 \in Int
      OBVIOUS
    <3>. QED  BY <1>1, <3>1, SumOfSingle, OneMoreRow
  <2>4. Sum(OutstandingOf(d)) = Sum(OutstandingOf(d)) + Sum(lines)
    BY <2>3
  <2>. QED  BY <2>2, <2>4 DEF more
<1>2. ASSUME NEW o \in Int, lines = <<o>>
      PROVE  /\ d \o more \in Seq(DataRows) /\ Fits(d \o more, f)
             /\ Sum(OutstandingOf(d \o more)) = Sum(OutstandingOf(d)) + Sum(lines)
  <2>1. PICK r : r = [outstanding |-> o, future |-> 0]
    OBVIOUS
  <2>2. more = <<r>>
    BY <1>2, <2>1
  <2>. HIDE DEF more
  <2>3. PICK e : e = Append(d, r)
    OBVIOUS
  <2>4. d \o more = e
    BY <2>2, <2>3
  <2>5. 0 \in Int /\ 0 \in Nat
    OBVIOUS
  <2>6. e \in Seq(DataRows) /\ Sum(OutstandingOf(e)) = Sum(OutstandingOf(d)) + o
    BY <2>1, <2>3, <2>5, OneMoreRow
  <2>7. Fits(e, f)
    <3>1. Len(f) = 0 => 0 = 0
      OBVIOUS
    <3>2. Len(f) = Len(f) /\ 0 = 0 /\ f[1] = f[1]
      OBVIOUS
    <3>. QED  BY <2>1, <2>3, <2>5, <3>1, <3>2, OneMoreFits
  <2>8. Sum(lines) = o
    BY <1>2, SumOfSingle
  <2>. QED  BY <2>4, <2>6, <2>7, <2>8
<1>. QED  BY <1>1, <1>2

LEMMA BuildKeeps == ReportInv /\ Report!BuildData => ReportInv'
<1>. SUFFICES ASSUME ReportInv, Report!BuildData PROVE ReportInv'
  OBVIOUS
<1>1. ReportData /\ BalanceInv /\ DataInv
  BY DEF ReportInv
<1>2. PICK n \in Nat : n = Len(ledger) /\ n >= 1
  BY <1>1 DEF ReportData
<1>3. PICK i \in 1..n : at = i + n
  <2>1. at \in n + 1..2 * n
    BY <1>2 DEF Report!BuildData
  <2>2. at - n \in 1..n /\ at = at - n + n
    BY <2>1
  <2>. QED  BY <2>2
<1>4. PICK v : v = ledger[i].voucher
  OBVIOUS
<1>5. PICK lines : lines = IF Report!First(i) THEN Report!Shown(v) ELSE <<>>
  OBVIOUS
<1>6. i \in 1..Len(ledger) /\ at = i + Len(ledger) /\ at - Len(ledger) = i
  BY <1>2, <1>3
<1>7. /\ lines \in Seq(Int)
      /\ v # "invoice" => lines = <<>> \/ \E o \in Int : lines = <<o>>
      /\ ~Later(balance["invoice"]) => AllOf(ReadVouchers(i)) = AllOf(ReadVouchers(i - 1)) + Sum(lines)
  BY <1>1, <1>4, <1>5, <1>6, RowsOf
<1>8. data \in Seq(DataRows) /\ future \in Seq(Nat) /\ Fits(data, future)
  BY <1>1 DEF DataInv
<1>9. PICK end : /\ end = IF v = "invoice"
                          THEN Report!Folded(Report!Appended, [data |-> data, future |-> future], lines)
                          ELSE [data |-> data \o [j \in DOMAIN lines |-> [outstanding |-> lines[j], future |-> 0]],
                                future |-> future]
                 /\ data' = end.data /\ future' = end.future
  BY <1>4, <1>5, <1>6 DEF Report!BuildData
<1>10. at' = at + 1 /\ UNCHANGED <<ledger, asked, balance>>
  BY DEF Report!BuildData
<1>11. /\ data' \in Seq(DataRows) /\ future' \in Seq(Nat) /\ Fits(data', future')
       /\ Sum(OutstandingOf(data')) = Sum(OutstandingOf(data)) + Sum(lines)
  <2>1. CASE v = "invoice"
    <3>1. PICK base : base = [data |-> data, future |-> future]
      OBVIOUS
    <3>2. base \in RowsAndRest /\ base.data = data /\ base.future = future
      BY <1>8, <3>1 DEF RowsAndRest
    <3>3. end = Report!Folded(Report!Appended, base, lines)
      BY <1>9, <2>1, <3>1
    <3>4. /\ end \in RowsAndRest
          /\ Sum(OutstandingOf(end.data)) = Sum(OutstandingOf(base.data)) + Sum(lines)
          /\ Fits(base.data, base.future) => Fits(end.data, end.future)
      BY <1>7, <3>2, <3>3, RowsAdded
    <3>5. end.data \in Seq(DataRows) /\ end.future \in Seq(Nat)
      BY <3>4 DEF RowsAndRest
    <3>. QED  BY <1>8, <1>9, <3>2, <3>4, <3>5
  <2>2. CASE v # "invoice"
    <3>1. PICK e : e = data \o [j \in DOMAIN lines |-> [outstanding |-> lines[j], future |-> 0]]
      OBVIOUS
    <3>2. data' = e /\ future' = future
      BY <1>9, <2>2, <3>1
    <3>3. e \in Seq(DataRows) /\ Fits(e, future) /\ Sum(OutstandingOf(e)) = Sum(OutstandingOf(data)) + Sum(lines)
      BY <1>7, <1>8, <2>2, <3>1, RowsOfOthers
    <3>. QED  BY <1>8, <3>2, <3>3
  <2>. QED  BY <2>1, <2>2
<1>12. /\ ReportData' /\ Report!Vouchers' = Report!Vouchers
       /\ \A k : Sum(ChosenAmounts(k))' = Sum(ChosenAmounts(k)) /\ ReadVouchers(k)' = ReadVouchers(k)
       /\ \A line : Later(line)' <=> Later(line)
       /\ Report!Chosen(ledger[1])' <=> Report!Chosen(ledger[1])
  <2>1. UNCHANGED <<ledger, asked>>
    BY <1>10
  <2>2. Report!Chosen(ledger[1])' <=> Report!Chosen(ledger[1])
    BY <1>10 DEF Report!Chosen
  <2>. QED  BY <1>1, <2>1, <2>2, SameData
<1>13. /\ at' \in 1..(2 * n + 1) /\ at' = i + 1 + n /\ at > n /\ at' > n
       /\ Read = n /\ Done = i - 1 /\ Read' = n /\ Done' = i
  <2>1. at > n /\ at + 1 > n /\ ~(at <= n) /\ ~(at + 1 <= n) /\ at + 1 \in 1..(2 * n + 1)
    BY <1>3
  <2>2. at - n - 1 = i - 1 /\ at + 1 - n - 1 = i /\ at + 1 = i + 1 + n
    BY <1>3
  <2>. QED  BY <1>2, <1>10, <2>1, <2>2 DEF Read, Done
<1>14. BalanceInv'
  <2>1. /\ balance \in [Report!Voucher -> Report!Row]
        /\ \A w \in Report!Voucher : w \notin Report!Vouchers => Out(w) = 0
        /\ balance["invoice"].credit >= 0
        /\ Report!Chosen(ledger[1]) => balance["invoice"].invoiced = Price
        /\ Out("invoice") + Out("return") + Out("payment") + Out("journal") = Sum(ChosenAmounts(n))
    BY <1>1, <1>2, <1>3, <1>13 DEF BalanceInv
  <2>2. Sum(ChosenAmounts(Read))' = Sum(ChosenAmounts(n))'
    BY <1>13 DEF Sum, Batches!FoldFunction, Batches!FoldFunctionOnSet, Batches!MapThenFoldSet, ChosenAmounts
  <2>3. \A w : Out(w)' = Out(w)
    BY <1>10 DEF Out, Report!Outstanding
  <2>4. at' \in 1..(2 * Len(ledger') + 1) /\ at' > 1
    BY <1>2, <1>3, <1>10, <1>13
  <2>. QED  BY <1>10, <1>12, <2>1, <2>2, <2>3, <2>4 DEF BalanceInv
<1>15. DataInv'
  <2>1. (data \in Seq(DataRows) /\ future \in Seq(Nat) /\ Fits(data, future))'
    BY <1>11 DEF Fits
  <2>2. (at <= Len(ledger) => data = <<>>)'
    BY <1>2, <1>3, <1>10, <1>13
  <2>3. ASSUME ~Later(balance["invoice"])' PROVE (Sum(OutstandingOf(data)) = AllOf(ReadVouchers(Done)))'
    <3>1. ~Later(balance["invoice"])
      <4>1. Later(balance["invoice"])' <=> Later(balance["invoice"])
        <5>1. Report!Scheduled' = Report!Scheduled
          BY <1>10 DEF Report!Scheduled, Report!Sum, Report!FoldFunction, Report!FoldFunctionOnSet, Report!MapThenFoldSet
        <5>. QED  BY <1>10, <5>1 DEF Later
      <4>. QED  BY <2>3, <4>1
    <3>2. Sum(OutstandingOf(data)) = AllOf(ReadVouchers(i - 1))
      BY <1>1, <1>13, <3>1 DEF DataInv
    <3>3. Sum(OutstandingOf(data')) = AllOf(ReadVouchers(i))
      BY <1>7, <1>11, <3>1, <3>2
    <3>4. AllOf(ReadVouchers(Done))' = AllOf(ReadVouchers(i))
      <4>1. \A w : Out(w)' = Out(w)
        BY <1>10 DEF Out, Report!Outstanding
      <4>2. ReadVouchers(Done)' = ReadVouchers(i)'
        BY <1>13 DEF ReadVouchers
      <4>3. ReadVouchers(Done)' = ReadVouchers(i)
        BY <1>12, <4>2
      <4>. QED  BY <4>1, <4>3 DEF AllOf, Part
    <3>5. Sum(OutstandingOf(data))' = Sum(OutstandingOf(data'))
      BY DEF Sum, Batches!FoldFunction, Batches!FoldFunctionOnSet, Batches!MapThenFoldSet, OutstandingOf
    <3>. QED  BY <3>3, <3>4, <3>5
  <2>. QED  BY <2>1, <2>2, <2>3 DEF DataInv
<1>. QED  BY <1>12, <1>14, <1>15 DEF ReportInv

LEMMA ReportKeeps == ReportInv /\ Report!Next => ReportInv'
BY UpdateKeeps, BuildKeeps DEF Report!Next

LEMMA ReportStutters == ReportInv /\ UNCHANGED reportVars => ReportInv'
<1>. SUFFICES ASSUME ReportInv, UNCHANGED reportVars PROVE ReportInv'
  OBVIOUS
<1>1. UNCHANGED <<ledger, asked>> /\ UNCHANGED <<balance, at, data, future>>
  BY DEF reportVars
<1>2. /\ ReportData' /\ Report!Vouchers' = Report!Vouchers
      /\ \A k : Sum(ChosenAmounts(k))' = Sum(ChosenAmounts(k)) /\ ReadVouchers(k)' = ReadVouchers(k)
      /\ \A line : Later(line)' <=> Later(line)
      /\ Report!Chosen(ledger[1])' <=> Report!Chosen(ledger[1])
  <2>1. Report!Chosen(ledger[1])' <=> Report!Chosen(ledger[1])
    BY <1>1 DEF Report!Chosen
  <2>. QED  BY <1>1, <2>1, SameData DEF ReportInv
<1>3. \A v : Out(v)' = Out(v)
  BY <1>1 DEF Out, Report!Outstanding
<1>4. Read' = Read /\ Done' = Done
  BY <1>1 DEF Read, Done
<1>5. BalanceInv'
  <2>1. BalanceInv
    BY DEF ReportInv
  <2>2. Sum(ChosenAmounts(Read))' = Sum(ChosenAmounts(Read))
    <3>1. Sum(ChosenAmounts(Read))' = Sum(ChosenAmounts(Read)')
      BY DEF Sum, Batches!FoldFunction, Batches!FoldFunctionOnSet, Batches!MapThenFoldSet
    <3>2. ChosenAmounts(Read)' = ChosenAmounts(Read)
      BY <1>1, <1>4 DEF ChosenAmounts, Report!Chosen
    <3>. QED  BY <3>1, <3>2
  <2>. QED  BY <1>1, <1>2, <1>3, <2>1, <2>2 DEF BalanceInv
<1>6. DataInv'
  <2>1. DataInv
    BY DEF ReportInv
  <2>2. (data \in Seq(DataRows) /\ future \in Seq(Nat) /\ Fits(data, future))'
    BY <1>1, <2>1 DEF DataInv, Fits
  <2>3. (at <= Len(ledger) => data = <<>>)'
    BY <1>1, <2>1 DEF DataInv
  <2>4. Later(balance["invoice"])' <=> Later(balance["invoice"])
    <3>1. Report!Scheduled' = Report!Scheduled
      BY <1>1 DEF Report!Scheduled, Report!Sum, Report!FoldFunction, Report!FoldFunctionOnSet, Report!MapThenFoldSet
    <3>. QED  BY <1>1, <3>1 DEF Later
  <2>5. AllOf(ReadVouchers(Done))' = AllOf(ReadVouchers(Done))
    <3>1. ReadVouchers(Done)' = ReadVouchers(Done)
      BY <1>1, <1>4 DEF ReadVouchers, Report!Chosen
    <3>. QED  BY <1>3, <3>1 DEF AllOf, Part
  <2>6. Sum(OutstandingOf(data))' = Sum(OutstandingOf(data))
    <3>1. Sum(OutstandingOf(data))' = Sum(OutstandingOf(data)')
      BY DEF Sum, Batches!FoldFunction, Batches!FoldFunctionOnSet, Batches!MapThenFoldSet
    <3>2. OutstandingOf(data)' = OutstandingOf(data)
      BY <1>1 DEF OutstandingOf
    <3>. QED  BY <3>1, <3>2
  <2>. QED  BY <2>1, <2>2, <2>3, <2>4, <2>5, <2>6 DEF DataInv
<1>. QED  BY <1>2, <1>5, <1>6 DEF ReportInv

LEMMA InitData == Report!PriceAssumption /\ Report!Init => ReportData
<1>. SUFFICES ASSUME Report!PriceAssumption, Report!Init PROVE ReportData
  OBVIOUS
<1>1. Price \in Nat \ {0}
  BY DEF Report!PriceAssumption
<1>. DEFINE L == {e \in Report!Entry : Report!Legal(e)}
<1>2. PICK late \in BOOLEAN, more \in Report!UpTo(MaxEntries, L) :
         ledger = <<Report!Sale(late)>> \o more
  BY DEF Report!Init
<1>3. PICK m \in 0..MaxEntries : more \in [1..m -> L]
  BY <1>2 DEF Report!UpTo
<1>4. m \in Nat
  BY <1>3 DEF Report!PriceAssumption
<1>5. PICK s : s = Report!Sale(late)
  OBVIOUS
<1>6. s \in Report!Entry
  <2>1. Price \in Report!Amount
    BY <1>1 DEF Report!Amount
  <2>. QED  BY <1>5, <2>1 DEF Report!Entry, Report!Sale, Report!Voucher
<1>7. more \in Seq(Report!Entry) /\ Len(more) = m /\ \A j \in 1..m : more[j] \in L
  <2>1. \A j \in 1..m : more[j] \in L
    BY <1>3
  <2>2. more \in Seq(L) /\ Len(more) = m
    <3>. HIDE DEF L
    <3>. QED  BY <1>3, <1>4
  <2>. QED  BY <2>1, <2>2
<1>. HIDE DEF L
<1>8. /\ ledger \in Seq(Report!Entry) /\ Len(ledger) = m + 1 /\ ledger[1] = s
      /\ \A j \in 2..Len(ledger) : ledger[j] = more[j - 1] /\ j - 1 \in 1..m
  <2>1. ledger = <<s>> \o more
    BY <1>2, <1>5
  <2>. QED  BY <1>4, <1>6, <1>7, <2>1
<1>9. ledger[1] = Report!Sale(ledger[1].late)
  <2>1. s.late = late
    BY <1>5 DEF Report!Sale
  <2>. QED  BY <1>5, <1>8, <2>1
<1>10. \A j \in 2..Len(ledger) : Report!Legal(ledger[j])
  <2>1. \A e \in L : Report!Legal(e)
    BY DEF L
  <2>. QED  BY <1>7, <1>8, <2>1
<1>11. asked.future \in BOOLEAN /\ asked.returns \in {"invoice", Report!Nothing} /\ (asked.terms = <<>> \/ TwoTerms(asked.terms))
  <2>. DEFINE P(ts) == ts # <<>> =>
                     /\ ts[1].invoiced + ts[2].invoiced = Price
                     /\ \A i \in 1..2 : ts[i].paid <= ts[i].invoiced
                     /\ ts[1].paid >= ts[2].paid
  <2>1. asked \in [future : BOOLEAN, returns : {"invoice", Report!Nothing}, terms : {ts \in Report!Terms : P(ts)}]
    BY DEF Report!Init
  <2>2. PICK ts : ts = asked.terms
    OBVIOUS
  <2>3. ts \in Report!Terms /\ P(ts)
    <3>. HIDE DEF P
    <3>. QED  BY <2>1, <2>2
  <2>4. ASSUME ts # <<>> PROVE TwoTerms(ts)
    <3>1. PICK t \in Report!Term, u \in Report!Term : ts = <<t, u>>
      BY <2>3, <2>4 DEF Report!Terms
    <3>2. t \in Terms /\ u \in Terms
      BY <1>1 DEF Report!Term, Terms
    <3>3. ts \in Seq(Terms) /\ Len(ts) = 2 /\ ts[1] = t /\ ts[2] = u
      BY <3>1, <3>2
    <3>4. ts[1].invoiced + ts[2].invoiced = Price /\ ts[1].paid <= ts[1].invoiced /\ ts[2].paid <= ts[2].invoiced
      BY <2>3, <2>4
    <3>. QED  BY <3>3, <3>4 DEF TwoTerms
  <2>5. asked.future \in BOOLEAN /\ asked.returns \in {"invoice", Report!Nothing}
    <3>. HIDE DEF P
    <3>. QED  BY <2>1
  <2>. QED  BY <2>2, <2>4, <2>5
<1>. QED  BY <1>1, <1>4, <1>8, <1>9, <1>10, <1>11 DEF ReportData

LEMMA FitsNothing ==
    ASSUME NEW f \in Seq(Nat)
    PROVE  Fits(<<>>, f) /\ <<>> \in Seq(DataRows)
<1>1. PICK d : d = <<>>
  OBVIOUS
<1>2. d \in Seq(DataRows) /\ DOMAIN d = {}
  BY <1>1
<1>. QED  BY <1>1, <1>2 DEF Fits

LEMMA InitReport == Report!PriceAssumption /\ Report!Init => ReportInv
<1>. SUFFICES ASSUME Report!PriceAssumption, Report!Init PROVE ReportInv
  OBVIOUS
<1>1. ReportData
  BY InitData
<1>2. at = 1 /\ data = <<>> /\ balance = [v \in Report!Voucher |-> [invoiced |-> 0, paid |-> 0, credit |-> 0]]
  BY DEF Report!Init
<1>3. PICK n \in Nat : n = Len(ledger) /\ n >= 1
  BY <1>1 DEF ReportData
<1>4. Read = 0 /\ Done = 0 /\ at \in 1..(2 * Len(ledger) + 1)
  BY <1>2, <1>3 DEF Read, Done
<1>5. future \in Seq(Nat)
  <2>1. MaxFuture \in Nat
    BY DEF Report!PriceAssumption
  <2>2. CASE asked.future
    <3>1. PICK m \in 0..MaxFuture : future \in [1..m -> 1..Price]
      BY <2>2 DEF Report!Init, Report!UpTo
    <3>2. Price \in Nat
      BY DEF Report!PriceAssumption
    <3>3. m \in Nat /\ future \in [1..m -> Nat]
      BY <2>1, <3>1, <3>2
    <3>. QED  BY <3>3
  <2>3. CASE ~asked.future
    <3>1. future = <<>>
      BY <2>3 DEF Report!Init
    <3>. QED  BY <3>1
  <2>. QED  BY <2>2, <2>3
<1>6. \A v \in Report!Voucher : Out(v) = 0
  BY <1>2 DEF Out, Report!Outstanding
<1>7. BalanceInv
  <2>1. balance \in [Report!Voucher -> Report!Row]
    <3>1. [invoiced |-> 0, paid |-> 0, credit |-> 0] \in Report!Row
      BY DEF Report!Row
    <3>. QED  BY <1>2, <3>1
  <2>2. "invoice" \in Report!Voucher /\ "return" \in Report!Voucher
           /\ "payment" \in Report!Voucher /\ "journal" \in Report!Voucher
    BY DEF Report!Voucher
  <2>3. balance["invoice"].credit >= 0 /\ balance["invoice"].invoiced = 0
    BY <1>2, <2>2
  <2>4. Sum(ChosenAmounts(0)) = 0
    <3>1. PICK f : f = ChosenAmounts(0)
      OBVIOUS
    <3>2. f \in Seq(Int) /\ Len(f) = 0
      BY <3>1 DEF ChosenAmounts
    <3>. QED  BY <3>1, <3>2, SeqSum
  <2>5. Out("invoice") + Out("return") + Out("payment") + Out("journal") = 0
    BY <1>6, <2>2
  <2>. QED  BY <1>2, <1>4, <1>6, <2>1, <2>3, <2>4, <2>5 DEF BalanceInv
<1>8. DataInv
  <2>1. ReadVouchers(0) = {}
    BY DEF ReadVouchers
  <2>2. AllOf({}) = 0
    BY DEF AllOf, Part
  <2>. QED  BY <1>2, <1>4, <1>5, <2>1, <2>2, FitsNothing, NothingShown DEF DataInv
<1>. QED  BY <1>1, <1>7, <1>8 DEF ReportInv

LEMMA ReportShows == ReportInv => Report!ShownIsBalance /\ Report!FutureFits
<1>. SUFFICES ASSUME ReportInv PROVE Report!ShownIsBalance /\ Report!FutureFits
  OBVIOUS
<1>1. ReportData /\ BalanceInv /\ DataInv
  BY DEF ReportInv
<1>2. PICK n \in Nat : n = Len(ledger) /\ n >= 1
  BY <1>1 DEF ReportData
<1>3. ASSUME Report!Done, ~Report!KnowsLater
      PROVE  Report!Sum([i \in DOMAIN data |-> data[i].outstanding])
             = Report!Sum([i \in DOMAIN ledger |-> IF Report!Chosen(ledger[i]) THEN ledger[i].amount ELSE 0])
  <2>1. at = 2 * n + 1
    BY <1>2, <1>3 DEF Report!Done
  <2>2. ~Later(balance["invoice"])
    BY <1>3 DEF Report!KnowsLater, Later
  <2>3. Read = n /\ Done = n
    <3>1. ~(at <= n) /\ at - n - 1 = n
      BY <1>2, <2>1
    <3>. QED  BY <1>2, <3>1 DEF Read, Done
  <2>4. Sum(OutstandingOf(data)) = AllOf(ReadVouchers(n))
    BY <1>1, <2>2, <2>3 DEF DataInv
  <2>5. DOMAIN ledger = 1..n
    BY <1>1, <1>2 DEF ReportData
  <2>6. ReadVouchers(n) = Report!Vouchers
    BY <2>5 DEF ReadVouchers, Report!Vouchers
  <2>7. AllOf(Report!Vouchers) = Out("invoice") + Out("return") + Out("payment") + Out("journal")
    <3>1. \A v \in Report!Voucher : v \notin Report!Vouchers => Out(v) = 0
      BY <1>1 DEF BalanceInv
    <3>2. \A v \in {"invoice", "return", "payment", "journal"} : Part(v, Report!Vouchers) = Out(v)
      BY <3>1 DEF Part, Report!Voucher
    <3>. QED  BY <3>2 DEF AllOf
  <2>8. Sum(OutstandingOf(data)) = Sum(ChosenAmounts(n))
    BY <1>1, <2>3, <2>4, <2>6, <2>7 DEF BalanceInv
  <2>9. ChosenAmounts(n) = [i \in DOMAIN ledger |-> IF Report!Chosen(ledger[i]) THEN ledger[i].amount ELSE 0]
    BY <2>5 DEF ChosenAmounts
  <2>10. OutstandingOf(data) = [i \in DOMAIN data |-> data[i].outstanding]
    BY DEF OutstandingOf
  <2>. QED  BY <2>8, <2>9, <2>10, ReportSumIsSum
<1>4. Report!FutureFits
  <2>. SUFFICES ASSUME Len(future) <= 1, NEW i \in DOMAIN data, data[i].future > 0
                PROVE  /\ data[i].future <= data[i].outstanding
                       /\ \A j \in i + 1..Len(data) : data[j].future > 0 => data[i].future = data[i].outstanding
                       /\ future[1] > 0 => data[i].future = data[i].outstanding
    BY DEF Report!FutureFits
  <2>1. future \in Seq(Nat) /\ Fits(data, future)
    BY <1>1 DEF DataInv
  <2>2. Len(future) = 0 \/ Len(future) = 1
    <3>1. PICK k \in Nat : k = Len(future)
      BY <2>1
    <3>2. k <= 1
      BY <3>1
    <3>. QED  BY ONLY k \in Nat, <3>1, <3>2
  <2>3. Len(future) # 0
    BY <2>1 DEF Fits
  <2>. QED  BY <2>1, <2>2, <2>3 DEF Fits
<1>. QED  BY <1>3, <1>4 DEF Report!ShownIsBalance

\* Of any invoice, not split or split into two payment terms, with returns,
\* payments and entries in the journal in any number and order, the rows shown
\* come to the entries chosen, but for payments of which only the schedule knows;
\* and one later payment, of any amount, is spread over the rows without giving
\* one more than it lacks
\* (update_voucher_balance, allocate_outstanding_based_on_payment_terms,
\* allocate_future_payments).
THEOREM ReceivablesAddUp ==
    DocumentsSpec => [](part = "report" => Report!ShownIsBalance /\ Report!FutureFits)
<1>. DEFINE I == part = "report" => ReportInv
<1>1. DocumentsInit => I
  BY DocumentsAssumption, InitReport DEF DocumentsInit, DocumentsAssumption
<1>2. I /\ [DocumentsNext]_documentVars => I'
  <2>. SUFFICES ASSUME I, [DocumentsNext]_documentVars PROVE I'
    OBVIOUS
  <2>1. part' = part
    BY DEF DocumentsNext, documentVars
  <2>2. CASE part = "report"
    <3>1. Report!Next \/ UNCHANGED reportVars
      BY <2>2 DEF DocumentsNext, documentVars
    <3>. QED  BY <2>1, <2>2, <3>1, ReportKeeps, ReportStutters
  <2>. QED  BY <2>1, <2>2
<1>3. I => (part = "report" => Report!ShownIsBalance /\ Report!FutureFits)
  BY ReportShows
<1>. QED  BY <1>1, <1>2, <1>3, PTL DEF DocumentsSpec
=============================================================================
