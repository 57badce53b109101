------------------------ MODULE SalesDeliveryProofs ------------------------
(***************************************************************************)
(* Theorems about SalesDelivery, for any invoice and any number of users.  *)
(***************************************************************************)
EXTENDS SalesDelivery, WellFoundedInduction, FiniteSetTheorems, TLAPS

(***************************************************************************)
(* The inductive invariant.                                                *)
(***************************************************************************)
\* Lines of a note hold rows of stock only.
LinesOk(l) == l = [r \in Row |-> l[r]] /\ \A r \in Row : l[r] # 0 => r \in Stocked

NoteOk(m) ==
    /\ m = [st |-> m.st, qty |-> m.qty]
    /\ m.st \in {"draft", "submitted"} /\ LinesOk(m.qty)

NotesInv ==
    /\ IsABag(note) /\ \A m \in DOMAIN note : NoteOk(m)
    /\ doc # 1 => note = EmptyBag

PlanOk(p) ==
    /\ p = [on |-> p.on, made |-> p.made, alone |-> p.alone]
    /\ \A l \in p.made : LinesOk(l)

PlansInv ==
    /\ plan = [s \in Maker |-> plan[s]]
    /\ \A s \in Maker : PlanOk(plan[s]) /\ (plan[s].on => doc = 1)

DeliveryInv == NotesInv /\ PlansInv /\ DeliveredIsActual

\* A row with an entry is flagged, and only a submitted invoice has entries.
EntriesInv ==
    /\ doc \in 0..2 /\ entries \in [Row -> Nat]
    /\ doc = 0 => entries = Nothing
    /\ \A r \in Row : entries[r] > 0 => r \in flag

(***************************************************************************)
(* Bags of notes.                                                          *)
(***************************************************************************)
LEMMA TakeOne ==
    ASSUME NEW B, IsABag(B), NEW m
    PROVE  LET C == B (-) SetToBag({m}) IN
           /\ IsABag(C) /\ DOMAIN C \subseteq DOMAIN B
           /\ \A x \in DOMAIN B : x # m => x \in DOMAIN C /\ C[x] = B[x]
<1>. DEFINE D == [e \in DOMAIN B |-> IF e \in {m} THEN B[e] - 1 ELSE B[e]]
            C == [e \in {d \in DOMAIN B : D[d] > 0} |-> D[e]]
<1>1. B (-) SetToBag({m}) = C
  BY DEF (-), SetToBag
<1>2. B \in [DOMAIN B -> {n \in Nat : n > 0}]
  BY DEF IsABag
<1>3. \A e \in DOMAIN B : D[e] \in Int
  BY <1>2
<1>4. IsABag(C)
  <2>1. \A e \in DOMAIN C : C[e] \in {n \in Nat : n > 0}
    BY <1>3
  <2>2. C \in [DOMAIN C -> {n \in Nat : n > 0}]
    BY <2>1
  <2>. QED  BY <2>2 DEF IsABag
<1>5. \A x \in DOMAIN B : x # m => x \in DOMAIN C /\ C[x] = B[x]
  BY <1>2
<1>. HIDE DEF C
<1>6. DOMAIN C \subseteq DOMAIN B
  BY DEF C
<1>. QED  BY <1>1, <1>4, <1>5, <1>6

LEMMA PutSet ==
    ASSUME NEW B, IsABag(B), NEW S
    PROVE  LET C == B (+) SetToBag(S) IN
           /\ IsABag(C) /\ DOMAIN C = DOMAIN B \cup S
           /\ \A x \in DOMAIN B : x \notin S => C[x] = B[x]
<1>. DEFINE C == [e \in DOMAIN B \cup S |->
                    (IF e \in DOMAIN B THEN B[e] ELSE 0) + (IF e \in S THEN 1 ELSE 0)]
<1>1. B (+) SetToBag(S) = C
  BY DEF (+), SetToBag
<1>2. B \in [DOMAIN B -> {n \in Nat : n > 0}]
  BY DEF IsABag
<1>3. IsABag(C)
  <2>1. \A e \in DOMAIN C : C[e] \in {n \in Nat : n > 0}
    BY <1>2
  <2>2. C \in [DOMAIN C -> {n \in Nat : n > 0}]
    BY <2>1
  <2>. QED  BY <2>2 DEF IsABag
<1>4. \A x \in DOMAIN B : x \notin S => C[x] = B[x]
  BY <1>2
<1>5. DOMAIN C = DOMAIN B \cup S
  OBVIOUS
<1>. HIDE DEF C
<1>. QED  BY <1>1, <1>3, <1>4, <1>5

LEMMA NoNotes == IsABag(EmptyBag) /\ DOMAIN EmptyBag = {}
BY DEF EmptyBag, SetToBag, IsABag

(***************************************************************************)
(* Sums.  What is shown of them for every finite set is shown for the      *)
(* smallest number of elements at which it could fail.                     *)
(***************************************************************************)
LEMMA Smallest ==
    ASSUME NEW S \in SUBSET Nat, S # {}
    PROVE  \E n \in S : \A m \in S : n <= m
<1>. DEFINE T == {1..n : n \in S}
            R == StrictSubsetOrdering(Nat)
<1>1. IsWellFoundedOn(R, FiniteSubsetsOf(Nat))
  BY FS_StrictSubsetOrderingWellFounded
<1>2. T \subseteq FiniteSubsetsOf(Nat) /\ T # {}
  <2>1. \A n \in S : IsFiniteSet(1..n) /\ 1..n \subseteq Nat
    <3>1. \A n \in S : n \in Int /\ 1 \in Int
      OBVIOUS
    <3>. QED  BY <3>1, FS_Interval
  <2>. QED  BY <2>1 DEF FiniteSubsetsOf
<1>. HIDE DEF R, T
<1>3. PICK X \in T : \A Y \in T : <<Y, X>> \notin R
  BY <1>1, <1>2, WFMin
<1>4. PICK n \in S : X = 1..n
  BY DEF T
<1>5. ASSUME NEW m \in S, m < n PROVE FALSE
  <2>1. 1..m \subseteq 1..n /\ n \in 1..n /\ n \notin 1..m /\ 1..n \subseteq Nat
    BY <1>5
  <2>2. <<1..m, 1..n>> \in R /\ 1..m \in T
    BY <1>5, <2>1 DEF R, T, StrictSubsetOrdering
  <2>. QED  BY <1>3, <1>4, <2>2
<1>. QED  BY <1>5

Picked(s) == CHOOSE x \in s : TRUE

\* What a sum of f makes of s, given the sums g of smaller sets.
Step(f, g, s) == IF s = {} THEN 0 ELSE f[Picked(s)] + g[s \ {Picked(s)}]

IsSum(g, f, D) == g = [s \in SUBSET D |-> Step(f, g, s)]

LEMMA PickedIsLess ==
    ASSUME NEW D, IsFiniteSet(D), NEW s \in SUBSET D, s # {}
    PROVE  /\ Picked(s) \in s /\ s \ {Picked(s)} \in SUBSET D
           /\ Cardinality(s) \in Nat /\ Cardinality(s \ {Picked(s)}) \in Nat
           /\ Cardinality(s \ {Picked(s)}) = Cardinality(s) - 1
<1>1. Picked(s) \in s
  BY DEF Picked
<1>2. IsFiniteSet(s)
  BY FS_Subset
<1>3. /\ IsFiniteSet(s \ {Picked(s)})
      /\ Cardinality(s \ {Picked(s)}) = Cardinality(s) - 1
  BY <1>1, <1>2, FS_RemoveElement
<1>. QED  BY <1>1, <1>2, <1>3, FS_CardinalityType

LEMMA SumExists ==
    ASSUME NEW D, IsFiniteSet(D), NEW f
    PROVE  \E g : IsSum(g, f, D)
<1>. DEFINE Few(n) == {s \in SUBSET D : Cardinality(s) <= n}
            Has(n) == \E g : g = [s \in Few(n) |-> Step(f, g, s)]
            Bad == {n \in Nat : ~Has(n)}
<1>1. \A s \in SUBSET D : Cardinality(s) \in Nat /\ (Cardinality(s) = 0 => s = {}) /\ Cardinality(s) <= Cardinality(D)
  BY FS_Subset, FS_CardinalityType, FS_EmptySet
<1>2. Has(0)
  <2>. DEFINE g == [s \in Few(0) |-> 0]
  <2>1. \A s \in Few(0) : Step(f, g, s) = 0
    BY <1>1 DEF Step
  <2>2. g = [s \in Few(0) |-> Step(f, g, s)]
    BY <2>1
  <2>. QED  BY <2>2
<1>3. ASSUME NEW n \in Nat, n # 0, Has(n - 1) PROVE Has(n)
  <2>1. PICK g : g = [s \in Few(n - 1) |-> Step(f, g, s)]
    BY <1>3
  <2>. DEFINE h == [s \in Few(n) |-> Step(f, g, s)]
  <2>2. ASSUME NEW s \in Few(n) PROVE Step(f, g, s) = Step(f, h, s)
    <3>1. CASE s = {}
      BY <3>1 DEF Step
    <3>2. CASE s # {}
      <4>. DEFINE t == s \ {Picked(s)}
      <4>1. t \in Few(n - 1) /\ t \in Few(n)
        BY <1>3, <3>2, PickedIsLess
      <4>2. g[t] = Step(f, g, t) /\ h[t] = Step(f, g, t)
        <5>. HIDE DEF Few, t
        <5>. QED  BY <2>1, <4>1
      <4>. QED  BY <3>2, <4>2 DEF Step
    <3>. QED  BY <3>1, <3>2
  <2>3. h = [s \in Few(n) |-> Step(f, h, s)]
    BY <2>2
  <2>. QED  BY <2>3
<1>4. Bad = {}
  <2>. SUFFICES ASSUME Bad # {} PROVE FALSE
    OBVIOUS
  <2>. HIDE DEF Has
  <2>1. PICK n \in Bad : \A m \in Bad : n <= m
    BY Smallest
  <2>2. n # 0 /\ n - 1 \in Nat /\ n - 1 \notin Bad
    BY <1>2, <2>1
  <2>. QED  BY <1>3, <2>1, <2>2
<1>5. Cardinality(D) \in Nat /\ Has(Cardinality(D))
  <2>. HIDE DEF Has
  <2>. QED  BY <1>4, FS_CardinalityType
<1>6. Few(Cardinality(D)) = SUBSET D
  BY <1>1
<1>. HIDE DEF Few
<1>. QED  BY <1>5, <1>6 DEF IsSum

LEMMA TotalIsSum ==
    ASSUME NEW f, IsFiniteSet(DOMAIN f)
    PROVE  \E g : IsSum(g, f, DOMAIN f) /\ Total(f) = g[DOMAIN f]
<1>. DEFINE Def(g, s) == IF s = {} THEN 0
                         ELSE LET x == CHOOSE x \in s : TRUE IN f[x] + g[s \ {x}]
            iter == CHOOSE g : g = [s \in SUBSET DOMAIN f |-> Def(g, s)]
<1>1. Total(f) = iter[DOMAIN f]
  BY DEF Total, FoldFunction, FoldFunctionOnSet, MapThenFoldSet
<1>2. \A g : IsSum(g, f, DOMAIN f) <=> g = [s \in SUBSET DOMAIN f |-> Def(g, s)]
  BY DEF IsSum, Step, Picked
<1>3. iter = [s \in SUBSET DOMAIN f |-> Def(iter, s)]
  <2>. HIDE DEF Def
  <2>. QED  BY <1>2, SumExists
<1>. HIDE DEF iter, Def
<1>. QED  BY <1>1, <1>2, <1>3

\* Sums of functions that are compared point by point.
LEMMA SumsCompare ==
    ASSUME NEW D, IsFiniteSet(D), NEW f \in [D -> Int], NEW g \in [D -> Int],
           \A d \in D : f[d] <= g[d],
           NEW F, IsSum(F, f, D), NEW G, IsSum(G, g, D)
    PROVE  \A s \in SUBSET D :
              /\ F[s] \in Int /\ G[s] \in Int /\ F[s] <= G[s]
              /\ (\E d \in s : f[d] < g[d]) => F[s] < G[s]
              /\ (\A d \in s : f[d] = 0) => F[s] = 0
<1>. DEFINE Fine(s) == /\ F[s] \in Int /\ G[s] \in Int /\ F[s] <= G[s]
                       /\ (\E d \in s : f[d] < g[d]) => F[s] < G[s]
                       /\ (\A d \in s : f[d] = 0) => F[s] = 0
            Bad == {n \in Nat : \E s \in SUBSET D : Cardinality(s) = n /\ ~Fine(s)}
<1>1. \A s \in SUBSET D : F[s] = Step(f, F, s) /\ G[s] = Step(g, G, s)
  BY DEF IsSum
<1>2. Fine({})
  <2>1. F[{}] = 0 /\ G[{}] = 0
    BY <1>1 DEF Step
  <2>. QED  BY <2>1
<1>3. ASSUME NEW s \in SUBSET D, s # {}, Fine(s \ {Picked(s)}) PROVE Fine(s)
  <2>. DEFINE x == Picked(s)
              t == s \ {x}
  <2>1. x \in s /\ x \in D
    BY <1>3, PickedIsLess
  <2>2. F[s] = f[x] + F[t] /\ G[s] = g[x] + G[t]
    BY <1>1, <1>3 DEF Step
  <2>3. /\ f[x] \in Int /\ g[x] \in Int /\ f[x] <= g[x]
        /\ F[t] \in Int /\ G[t] \in Int /\ F[t] <= G[t]
    BY <1>3, <2>1
  <2>4. \A d \in s : d = x \/ d \in t
    OBVIOUS
  <2>5. ASSUME NEW d \in s, f[d] < g[d] PROVE F[s] < G[s]
    <3>1. CASE d = x
      BY <2>2, <2>3, <2>5, <3>1
    <3>2. CASE d \in t
      <4>1. F[t] < G[t]
        BY <1>3, <2>5, <3>2
      <4>. QED  BY <2>2, <2>3, <4>1
    <3>. QED  BY <2>4, <3>1, <3>2
  <2>6. ASSUME \A d \in s : f[d] = 0 PROVE F[s] = 0
    <3>1. f[x] = 0 /\ F[t] = 0
      BY <1>3, <2>1, <2>6
    <3>. QED  BY <2>2, <3>1
  <2>7. F[s] \in Int /\ G[s] \in Int /\ F[s] <= G[s]
    BY <2>2, <2>3
  <2>. QED  BY <2>5, <2>6, <2>7
<1>4. Bad = {}
  <2>. SUFFICES ASSUME Bad # {} PROVE FALSE
    OBVIOUS
  <2>. HIDE DEF Fine
  <2>1. PICK n \in Bad : \A m \in Bad : n <= m
    BY Smallest
  <2>2. PICK s \in SUBSET D : Cardinality(s) = n /\ ~Fine(s)
    BY <2>1
  <2>3. s # {}
    BY <1>2, <2>2
  <2>. DEFINE t == s \ {Picked(s)}
  <2>4. t \in SUBSET D /\ Cardinality(t) \in Nat /\ Cardinality(t) < n
    BY <2>2, <2>3, PickedIsLess
  <2>5. Fine(t)
    BY <2>1, <2>4
  <2>. QED  BY <1>3, <2>2, <2>3, <2>5
<1>5. ASSUME NEW s \in SUBSET D PROVE Fine(s)
  <2>. HIDE DEF Fine
  <2>1. Cardinality(s) \in Nat
    BY FS_Subset, FS_CardinalityType
  <2>. QED  BY <1>4, <2>1
<1>. QED  BY <1>5

\* Of two functions the one that is nowhere greater has no greater total, a
\* smaller one if it is smaller somewhere; nothing adds up to nothing.
LEMMA TotalsCompare ==
    ASSUME NEW D, IsFiniteSet(D), NEW f \in [D -> Int], NEW g \in [D -> Int],
           \A d \in D : f[d] <= g[d]
    PROVE  /\ Total(f) \in Int /\ Total(g) \in Int /\ Total(f) <= Total(g)
           /\ (\E d \in D : f[d] < g[d]) => Total(f) < Total(g)
           /\ (\A d \in D : f[d] = 0) => Total(f) = 0
<1>1. DOMAIN f = D /\ DOMAIN g = D
  OBVIOUS
<1>2. PICK F : IsSum(F, f, D) /\ Total(f) = F[D]
  BY <1>1, TotalIsSum
<1>3. PICK G : IsSum(G, g, D) /\ Total(g) = G[D]
  BY <1>1, TotalIsSum
<1>. QED  BY <1>2, <1>3, SumsCompare

\* Sums of functions that agree on the smaller domain.
LEMMA SumsAgree ==
    ASSUME NEW D, IsFiniteSet(D), NEW E \in SUBSET D, NEW f, NEW g, \A d \in E : f[d] = g[d],
           NEW F, IsSum(F, f, D), NEW G, IsSum(G, g, E)
    PROVE  \A s \in SUBSET E : F[s] = G[s]
<1>. DEFINE Bad == {n \in Nat : \E s \in SUBSET E : Cardinality(s) = n /\ F[s] # G[s]}
<1>1. \A s \in SUBSET E : F[s] = Step(f, F, s) /\ G[s] = Step(g, G, s)
  BY DEF IsSum
<1>2. IsFiniteSet(E)
  BY FS_Subset
<1>3. Bad = {}
  <2>. SUFFICES ASSUME Bad # {} PROVE FALSE
    OBVIOUS
  <2>1. PICK n \in Bad : \A m \in Bad : n <= m
    BY Smallest
  <2>2. PICK s \in SUBSET E : Cardinality(s) = n /\ F[s] # G[s]
    BY <2>1
  <2>3. s # {}
    BY <1>1, <2>2 DEF Step
  <2>. DEFINE t == s \ {Picked(s)}
  <2>4. /\ Picked(s) \in s /\ t \in SUBSET E /\ Cardinality(t) \in Nat /\ Cardinality(t) < n
    BY <1>2, <2>2, <2>3, PickedIsLess
  <2>5. F[t] = G[t]
    BY <2>1, <2>4
  <2>6. F[s] = f[Picked(s)] + F[t] /\ G[s] = g[Picked(s)] + G[t]
    BY <1>1, <2>3 DEF Step
  <2>7. f[Picked(s)] = g[Picked(s)]
    BY <2>4
  <2>. QED  BY <2>2, <2>5, <2>6, <2>7
<1>4. ASSUME NEW s \in SUBSET E PROVE F[s] = G[s]
  <2>1. Cardinality(s) \in Nat
    BY <1>2, FS_Subset, FS_CardinalityType
  <2>. QED  BY <1>3, <2>1
<1>. QED  BY <1>4

\* A sum may take any element first.
LEMMA SumWithout ==
    ASSUME NEW D, IsFiniteSet(D), NEW f \in [D -> Int], NEW F, IsSum(F, f, D)
    PROVE  \A s \in SUBSET D : \A x \in s : F[s] \in Int /\ F[s \ {x}] \in Int /\ F[s] = f[x] + F[s \ {x}]
<1>1. \A s \in SUBSET D : F[s] \in Int /\ F[s] = Step(f, F, s)
  <2>1. \A s \in SUBSET D : F[s] \in Int
    BY SumsCompare
  <2>. QED  BY <2>1 DEF IsSum
<1>. DEFINE Free(s) == \A x \in s : F[s] = f[x] + F[s \ {x}]
            Bad == {n \in Nat : \E s \in SUBSET D : Cardinality(s) = n /\ ~Free(s)}
<1>2. Bad = {}
  <2>. SUFFICES ASSUME Bad # {} PROVE FALSE
    OBVIOUS
  <2>1. PICK n \in Bad : \A m \in Bad : n <= m
    <3>. HIDE DEF Free
    <3>. QED  BY Smallest
  <2>2. PICK s \in SUBSET D : Cardinality(s) = n /\ ~Free(s)
    BY <2>1
  <2>3. PICK x \in s : F[s] # f[x] + F[s \ {x}]
    BY <2>2
  <2>. DEFINE y == Picked(s)
              t == s \ {y}
              u == s \ {x}
  <2>4. s # {}
    BY <2>3
  <2>5. y \in s /\ t \in SUBSET D /\ Cardinality(t) \in Nat /\ Cardinality(t) = n - 1
    BY <2>2, <2>4, PickedIsLess
  <2>6. u \in SUBSET D /\ Cardinality(u) \in Nat /\ Cardinality(u) = n - 1
    <3>1. IsFiniteSet(s)
      BY FS_Subset
    <3>. QED  BY <2>2, <3>1, FS_RemoveElement, FS_CardinalityType
  <2>7. F[s] = f[y] + F[t]
    BY <1>1, <2>4 DEF Step
  <2>8. x # y
    BY <2>3, <2>7
  <2>9. Free(t) /\ Free(u)
    <3>1. n - 1 \notin Bad
      BY <2>1
    <3>. HIDE DEF Free, t, u
    <3>. QED  BY <2>5, <2>6, <3>1
  <2>10. x \in t /\ y \in u /\ t \ {x} = u \ {y}
    BY <2>3, <2>5, <2>8
  <2>11. F[t] = f[x] + F[t \ {x}] /\ F[u] = f[y] + F[u \ {y}]
    BY <2>9, <2>10
  <2>12. f[x] \in Int /\ f[y] \in Int /\ F[u \ {y}] \in Int
    BY <1>1, <2>3, <2>5, <2>6
  <2>13. F[s] = f[x] + F[u]
    <3>1. PICK a : a = F[t \ {x}]
      OBVIOUS
    <3>2. F[s] = f[y] + (f[x] + a) /\ F[u] = f[y] + a /\ a \in Int
      BY <2>7, <2>10, <2>11, <2>12, <3>1
    <3>. QED  BY <2>12, <3>2
  <2>. QED  BY <2>3, <2>13
<1>3. ASSUME NEW s \in SUBSET D, NEW x \in s
      PROVE  F[s] \in Int /\ F[s \ {x}] \in Int /\ F[s] = f[x] + F[s \ {x}]
  <2>1. Cardinality(s) \in Nat
    BY FS_Subset, FS_CardinalityType
  <2>2. Free(s)
    <3>. HIDE DEF Free
    <3>. QED  BY <1>2, <2>1
  <2>3. s \ {x} \in SUBSET D
    OBVIOUS
  <2>. QED  BY <1>1, <2>2, <2>3
<1>. QED  BY <1>3

LEMMA TotalWithout ==
    ASSUME NEW D, IsFiniteSet(D), NEW f \in [D -> Int], NEW x
    PROVE  LET rest == [d \in D \ {x} |-> f[d]] IN
           /\ Total(f) \in Int /\ Total(rest) \in Int
           /\ Total(f) = (IF x \in D THEN f[x] ELSE 0) + Total(rest)
<1>1. PICK E : E = D \ {x}
  OBVIOUS
<1>2. PICK g : g = [d \in E |-> f[d]]
  OBVIOUS
<1>3. IsFiniteSet(E) /\ E \in SUBSET D /\ g \in [E -> Int] /\ \A d \in E : f[d] = g[d]
  BY <1>1, <1>2, FS_Subset
<1>4. DOMAIN f = D /\ DOMAIN g = E
  BY <1>2
<1>5. PICK F : IsSum(F, f, D) /\ Total(f) = F[D]
  BY <1>4, TotalIsSum
<1>6. PICK G : IsSum(G, g, E) /\ Total(g) = G[E]
  BY <1>3, <1>4, TotalIsSum
<1>7. F[E] = G[E]
  BY <1>3, <1>5, <1>6, SumsAgree
<1>8. F[D] \in Int /\ F[E] \in Int
  BY <1>3, <1>5, SumsCompare
<1>9. F[D] = (IF x \in D THEN f[x] ELSE 0) + F[E]
  <2>1. CASE x \in D
    <3>1. D \in SUBSET D
      OBVIOUS
    <3>2. F[D] = f[x] + F[D \ {x}]
      BY <1>5, <2>1, <3>1, SumWithout
    <3>. QED  BY <1>1, <2>1, <3>2
  <2>2. CASE x \notin D
    <3>1. E = D
      BY <1>1, <2>2
    <3>. QED  BY <1>8, <2>2, <3>1
  <2>. QED  BY <2>1, <2>2
<1>. QED  BY <1>1, <1>2, <1>5, <1>6, <1>7, <1>8, <1>9

LEMMA TotalOfNothing == ASSUME NEW f, DOMAIN f = {} PROVE Total(f) = 0
<1>1. IsFiniteSet(DOMAIN f)
  BY FS_EmptySet
<1>2. PICK g : IsSum(g, f, DOMAIN f) /\ Total(f) = g[DOMAIN f]
  BY <1>1, TotalIsSum
<1>. QED  BY <1>2 DEF IsSum, Step

LEMMA NoneShipped ==
    ASSUME NEW ns, NEW r, \A x \in DOMAIN ns : x.st # "submitted"
    PROVE  Shipped(ns, r) = 0
<1>. DEFINE with == {x \in DOMAIN ns : x.st \in {"submitted"} /\ x.qty[r] # 0}
            f == [x \in with |-> ns[x] * x.qty[r]]
<1>1. Shipped(ns, r) = Total(f)
  BY DEF Shipped, Count
<1>2. DOMAIN f = {}
  OBVIOUS
<1>. QED  BY <1>1, <1>2, TotalOfNothing

\* Bags that agree on the submitted notes of a row agree on its quantity.
LEMMA SameShipped ==
    ASSUME NEW ns, NEW ns2, NEW r,
           \A x \in DOMAIN ns : x.st = "submitted" /\ x.qty[r] # 0 => x \in DOMAIN ns2,
           \A x \in DOMAIN ns2 : x.st = "submitted" /\ x.qty[r] # 0
                                    => x \in DOMAIN ns /\ ns[x] = ns2[x]
    PROVE  Shipped(ns, r) = Shipped(ns2, r)
<1>. DEFINE with(b) == {x \in DOMAIN b : x.st \in {"submitted"} /\ x.qty[r] # 0}
            f(b) == [x \in with(b) |-> b[x] * x.qty[r]]
<1>1. Shipped(ns, r) = Total(f(ns)) /\ Shipped(ns2, r) = Total(f(ns2))
  BY DEF Shipped, Count
<1>2. with(ns) = with(ns2) /\ \A x \in with(ns) : ns[x] = ns2[x]
  OBVIOUS
<1>3. f(ns) = f(ns2)
  BY <1>2
<1>. QED  BY <1>1, <1>3

(***************************************************************************)
(* What a step makes of the notes, and of the quantities submitted.        *)
(***************************************************************************)
\* Row r of note x does not count as shipped.
Unshipped(x, r) == x.st # "submitted" \/ x.qty[r] = 0

LEMMA ReplacedShips ==
    ASSUME NotesInv, NEW m, NEW new, NoteOk(new)
    PROVE  /\ IsABag(Replaced(m, new)) /\ \A x \in DOMAIN Replaced(m, new) : NoteOk(x)
           /\ \A r \in Row : Unshipped(m, r) /\ Unshipped(new, r)
                                => Shipped(note, r) = Shipped(Replaced(m, new), r)
<1>. DEFINE B == note (-) SetToBag({m})
            C == B (+) SetToBag({new})
<1>1. /\ IsABag(B) /\ DOMAIN B \subseteq DOMAIN note
      /\ \A x \in DOMAIN note : x # m => x \in DOMAIN B /\ B[x] = note[x]
  BY TakeOne DEF NotesInv
<1>. HIDE DEF B
<1>2. /\ IsABag(C) /\ DOMAIN C = DOMAIN B \cup {new}
      /\ \A x \in DOMAIN B : x \notin {new} => C[x] = B[x]
  BY <1>1, PutSet
<1>. HIDE DEF C
<1>3. \A x \in DOMAIN C : NoteOk(x)
  BY <1>1, <1>2 DEF NotesInv
<1>4. ASSUME NEW r \in Row, Unshipped(m, r), Unshipped(new, r)
      PROVE  Shipped(note, r) = Shipped(C, r)
  BY <1>1, <1>2, <1>4, SameShipped DEF Unshipped
<1>5. Replaced(m, new) = C
  BY DEF Replaced, B, C
<1>. QED  BY <1>2, <1>3, <1>4, <1>5

LEMMA RemovedShips ==
    ASSUME NotesInv, NEW m
    PROVE  /\ IsABag(Removed(m)) /\ \A x \in DOMAIN Removed(m) : NoteOk(x)
           /\ \A r \in Row : Unshipped(m, r) => Shipped(note, r) = Shipped(Removed(m), r)
<1>. DEFINE B == note (-) SetToBag({m})
<1>1. /\ IsABag(B) /\ DOMAIN B \subseteq DOMAIN note
      /\ \A x \in DOMAIN note : x # m => x \in DOMAIN B /\ B[x] = note[x]
  BY TakeOne DEF NotesInv
<1>. HIDE DEF B
<1>2. \A x \in DOMAIN B : NoteOk(x)
  BY <1>1 DEF NotesInv
<1>3. ASSUME NEW r \in Row, Unshipped(m, r) PROVE Shipped(note, r) = Shipped(B, r)
  BY <1>1, <1>3, SameShipped DEF Unshipped
<1>4. Removed(m) = B
  BY DEF Removed, B
<1>. QED  BY <1>1, <1>2, <1>3, <1>4

LEMMA AddedShips ==
    ASSUME NotesInv, NEW made, \A l \in made : LinesOk(l)
    PROVE  /\ IsABag(Added(note, made)) /\ \A x \in DOMAIN Added(note, made) : NoteOk(x)
           /\ \A r \in Row : Shipped(note, r) = Shipped(Added(note, made), r)
           /\ doc # 1 => \A x \in DOMAIN Added(note, made) : x.st # "submitted"
<1>. DEFINE S == {Draft(l) : l \in made}
            C == note (+) SetToBag(S)
<1>1. \A x \in S : NoteOk(x) /\ x.st = "draft"
  BY DEF Draft, NoteOk
<1>. HIDE DEF S
<1>2. /\ IsABag(C) /\ DOMAIN C = DOMAIN note \cup S
      /\ \A x \in DOMAIN note : x \notin S => C[x] = note[x]
  BY PutSet DEF NotesInv
<1>. HIDE DEF C
<1>3. \A x \in DOMAIN C : NoteOk(x)
  BY <1>1, <1>2 DEF NotesInv
<1>4. ASSUME NEW r \in Row PROVE Shipped(note, r) = Shipped(C, r)
  BY <1>1, <1>2, SameShipped
<1>5. doc # 1 => \A x \in DOMAIN C : x.st # "submitted"
  BY <1>1, <1>2, NoNotes DEF NotesInv
<1>6. Added(note, made) = C
  BY DEF Added, S, C
<1>. QED  BY <1>2, <1>3, <1>4, <1>5, <1>6

\* What the makers plan are lines of stock.
LEMMA PlannedLines ==
    ASSUME NEW ns, NEW d
    PROVE  /\ \A l \in Automatic(ns, d) : LinesOk(l)
           /\ \A rows \in SUBSET Stocked : LinesOk(Lines(ns, rows))
<1>1. ASSUME NEW rows \in SUBSET Stocked PROVE LinesOk(Lines(ns, rows))
  BY <1>1 DEF Lines, LinesOk
<1>2. \A r : Same(r) \in SUBSET Stocked
  BY DEF Same
<1>. QED  BY <1>1, <1>2 DEF Automatic

(***************************************************************************)
(* Steps of the makers.                                                    *)
(***************************************************************************)
LEMMA OvertakenOk ==
    ASSUME PlansInv, NEW s, NEW adds, plan' = Overtaken(s, adds), doc' = doc
    PROVE  PlansInv'
<1>1. ASSUME NEW t \in Maker PROVE PlanOk(plan'[t]) /\ (plan'[t].on => doc' = 1)
  <2>1. CASE t = s
    BY <2>1 DEF Overtaken, NoPlan, PlanOk
  <2>2. CASE t # s
    <3>1. plan'[t] = [plan[t] EXCEPT !.alone = plan[t].alone /\ ~adds]
      BY <2>2 DEF Overtaken
    <3>. QED  BY <3>1 DEF PlansInv, PlanOk
  <2>. QED  BY <2>1, <2>2
<1>2. plan' = [t \in Maker |-> plan'[t]]
  BY DEF Overtaken
<1>. QED  BY <1>1, <1>2 DEF PlansInv

\* The notes, the rows and the invoice stay.
LEMMA NotesStay ==
    ASSUME DeliveryInv, UNCHANGED <<doc, note, delivered, disturbed>>
    PROVE  NotesInv' /\ DeliveredIsActual'
BY DEF DeliveryInv, NotesInv, DeliveredIsActual, Actual

LEMMA BeginKeeps ==
    ASSUME DeliveryInv, NEW s \in Maker, NEW made, Begin(s, made), \A l \in made : LinesOk(l)
    PROVE  DeliveryInv'
<1>. DEFINE p == [on |-> TRUE, made |-> made, alone |-> TRUE]
<1>1. plan' = [plan EXCEPT ![s] = p] /\ UNCHANGED <<doc, note, delivered, disturbed>>
  BY DEF Begin
<1>2. PlanOk(p) /\ doc = 1
  BY DEF PlanOk, Begin
<1>. HIDE DEF p
<1>3. PlansInv'
  BY <1>1, <1>2 DEF DeliveryInv, PlansInv
<1>. QED  BY <1>1, <1>3, NotesStay DEF DeliveryInv

LEMMA MakersKeep ==
    ASSUME DeliveryInv, NEW s \in Maker,
           BeginAutomatic(s) \/ BeginManual(s) \/ Abandon(s)
    PROVE  DeliveryInv'
<1>1. CASE BeginAutomatic(s)
  BY <1>1, PlannedLines, BeginKeeps DEF BeginAutomatic
<1>2. CASE BeginManual(s)
  <2>. DEFINE rows == {r \in Stocked : Left(note, r) > 0}
  <2>1. rows \in SUBSET Stocked /\ Begin(s, {Lines(note, rows)})
    BY <1>2 DEF BeginManual
  <2>. HIDE DEF rows
  <2>2. \A l \in {Lines(note, rows)} : LinesOk(l)
    BY <2>1, PlannedLines
  <2>. QED  BY <2>1, <2>2, BeginKeeps
<1>3. CASE Abandon(s)
  <2>1. plan' = Overtaken(s, FALSE) /\ UNCHANGED <<doc, note, delivered, disturbed>>
    BY <1>3 DEF Abandon
  <2>. QED  BY <2>1, OvertakenOk, NotesStay DEF DeliveryInv
<1>. QED  BY <1>1, <1>2, <1>3

LEMMA MakeKeeps ==
    ASSUME DeliveryInv, NEW s \in Maker, Make(s)
    PROVE  DeliveryInv'
<1>. DEFINE made == plan[s].made
<1>1. /\ note' = Added(note, made) /\ plan' = Overtaken(s, made # {})
      /\ UNCHANGED <<doc, delivered, disturbed>>
  BY DEF Make
<1>2. NotesInv /\ doc = 1 /\ \A l \in made : LinesOk(l)
  BY DEF DeliveryInv, PlansInv, PlanOk, Make
<1>. HIDE DEF made
<1>3. /\ IsABag(note') /\ \A x \in DOMAIN note' : NoteOk(x)
      /\ \A r \in Row : Shipped(note, r) = Shipped(note', r)
  BY <1>1, <1>2, AddedShips
<1>4. NotesInv' /\ PlansInv'
  BY <1>1, <1>2, <1>3, OvertakenOk DEF DeliveryInv, NotesInv
<1>5. DeliveredIsActual'
  BY <1>1, <1>3 DEF DeliveryInv, DeliveredIsActual, Actual
<1>. QED  BY <1>4, <1>5 DEF DeliveryInv

(***************************************************************************)
(* Steps of the invoice.                                                   *)
(***************************************************************************)
LEMMA SubmittedKeeps ==
    ASSUME DeliveryInv, Submitted
    PROVE  DeliveryInv'
<1>. DEFINE made == Automatic(note, Nothing)
<1>1. /\ doc = 0 /\ doc' = 1 /\ note' = Added(note, made)
      /\ delivered' = [r \in Row |-> AtSubmission(r)]
      /\ UNCHANGED <<plan, disturbed>>
  BY DEF Submitted
<1>2. NotesInv /\ \A l \in made : LinesOk(l)
  BY PlannedLines DEF DeliveryInv
<1>. HIDE DEF made
<1>3. /\ IsABag(note') /\ \A x \in DOMAIN note' : NoteOk(x) /\ x.st # "submitted"
  BY <1>1, <1>2, AddedShips
<1>4. NotesInv' /\ PlansInv'
  BY <1>1, <1>3 DEF DeliveryInv, NotesInv, PlansInv
<1>5. \A r \in Row : Shipped(note', r) = 0
  BY <1>3, NoneShipped
<1>6. DeliveredIsActual'
  BY <1>1, <1>5 DEF DeliveredIsActual, Actual, AtSubmission
<1>. QED  BY <1>4, <1>6 DEF DeliveryInv

LEMMA CancelInvoiceKeeps ==
    ASSUME DeliveryInv, CancelInvoice
    PROVE  DeliveryInv'
<1>. DEFINE Done == /\ doc' = 2 /\ note' = EmptyBag
                    /\ plan' = [s \in Maker |-> NoPlan]
            Refused == /\ doc' = 1 /\ UNCHANGED <<note, plan>>
                       /\ disturbed' = disturbed \cup {r \in Row : delivered[r] # 0}
<1>1. doc = 1 /\ delivered' = Nothing /\ (Done \/ Refused)
  BY Zenon DEF CancelInvoice
<1>2. CASE Done
  <2>1. /\ doc' = 2 /\ note' = EmptyBag /\ plan' = [s \in Maker |-> NoPlan]
    BY <1>2
  <2>2. NotesInv' /\ PlansInv'
    BY <2>1, NoNotes DEF NotesInv, PlansInv, PlanOk, NoPlan
  <2>3. \A r \in Row : Shipped(note', r) = 0
    BY <2>1, NoNotes, NoneShipped
  <2>4. DeliveredIsActual'
    BY <1>1, <2>1, <2>3 DEF DeliveredIsActual, Actual, Nothing
  <2>. QED  BY <2>2, <2>4 DEF DeliveryInv
<1>3. CASE Refused
  <2>1. /\ doc' = 1 /\ UNCHANGED <<note, plan>>
        /\ disturbed' = disturbed \cup {r \in Row : delivered[r] # 0}
    BY <1>3
  <2>2. NotesInv' /\ PlansInv'
    BY <1>1, <2>1 DEF DeliveryInv, NotesInv, PlansInv
  <2>3. DeliveredIsActual'
    BY <1>1, <2>1 DEF DeliveryInv, DeliveredIsActual, Actual, Nothing
  <2>. QED  BY <2>2, <2>3 DEF DeliveryInv
<1>. QED  BY <1>1, <1>2, <1>3

(***************************************************************************)
(* Steps of the notes.                                                     *)
(***************************************************************************)
\* The invoice of a live note is submitted; plans may only be marked overtaken.
LEMMA NoteIsOfSubmitted ==
    ASSUME NotesInv, NEW m \in DOMAIN note
    PROVE  doc = 1 /\ NoteOk(m)
BY NoNotes DEF NotesInv

\* Quantities are written back to the rows of a note whose state changes.
LEMMA WriteBackKeeps ==
    ASSUME DeliveryInv, NEW m \in DOMAIN note,
           UNCHANGED <<doc, plan>>, IsABag(note'), \A x \in DOMAIN note' : NoteOk(x),
           delivered' = WriteBack(note', m), disturbed' = disturbed \ RowsOf(m),
           \A r \in Row : m.qty[r] = 0 => Shipped(note, r) = Shipped(note', r)
    PROVE  DeliveryInv'
<1>1. doc = 1 /\ LinesOk(m.qty)
  BY NoteIsOfSubmitted DEF DeliveryInv, NoteOk
<1>2. NotesInv' /\ PlansInv'
  BY <1>1 DEF DeliveryInv, NotesInv, PlansInv
<1>3. ASSUME NEW r \in Row, r \notin disturbed' PROVE delivered'[r] = Actual(r)'
  <2>1. CASE r \in RowsOf(m)
    <3>1. r \in Stocked
      BY <1>1, <2>1 DEF LinesOk, RowsOf
    <3>. QED  BY <2>1, <3>1 DEF WriteBack, Actual
  <2>2. CASE r \notin RowsOf(m)
    <3>1. Shipped(note, r) = Shipped(note', r) /\ r \notin disturbed
      BY <1>3, <2>2 DEF RowsOf
    <3>2. delivered[r] = Actual(r) /\ delivered'[r] = delivered[r]
      BY <2>2, <3>1 DEF DeliveryInv, DeliveredIsActual, WriteBack
    <3>. QED  BY <3>1, <3>2 DEF Actual
  <2>. QED  BY <2>1, <2>2
<1>4. DeliveredIsActual'
  BY <1>3 DEF DeliveredIsActual
<1>. QED  BY <1>2, <1>4 DEF DeliveryInv

LEMMA SubmitNoteKeeps ==
    ASSUME DeliveryInv, NEW m \in DOMAIN note, SubmitNote(m)
    PROVE  DeliveryInv'
<1>. DEFINE new == [m EXCEPT !.st = "submitted"]
<1>1. /\ note' = Replaced(m, new) /\ delivered' = WriteBack(note', m)
      /\ disturbed' = disturbed \ RowsOf(m) /\ UNCHANGED <<doc, plan>>
  BY DEF SubmitNote
<1>2. NotesInv /\ NoteOk(m)
  BY NoteIsOfSubmitted DEF DeliveryInv
<1>3. NoteOk(new) /\ new.qty = m.qty
  BY <1>2 DEF NoteOk
<1>. HIDE DEF new
<1>4. /\ IsABag(note') /\ \A x \in DOMAIN note' : NoteOk(x)
      /\ \A r \in Row : m.qty[r] = 0 => Shipped(note, r) = Shipped(note', r)
  BY <1>1, <1>2, <1>3, ReplacedShips DEF Unshipped
<1>. QED  BY <1>1, <1>4, WriteBackKeeps

LEMMA CancelNoteKeeps ==
    ASSUME DeliveryInv, NEW m \in DOMAIN note, CancelNote(m)
    PROVE  DeliveryInv'
<1>1. /\ note' = Removed(m) /\ delivered' = WriteBack(note', m)
      /\ disturbed' = disturbed \ RowsOf(m) /\ UNCHANGED <<doc, plan>>
  BY DEF CancelNote
<1>2. /\ IsABag(note') /\ \A x \in DOMAIN note' : NoteOk(x)
      /\ \A r \in Row : m.qty[r] = 0 => Shipped(note, r) = Shipped(note', r)
  BY <1>1, RemovedShips DEF DeliveryInv, Unshipped
<1>. QED  BY <1>1, <1>2, WriteBackKeeps

\* A draft changes or goes, and plans are at most marked.
LEMMA DraftKeeps ==
    ASSUME DeliveryInv, NEW m \in DOMAIN note, UNCHANGED <<doc, delivered, disturbed>>,
           plan' = [s \in Maker |-> plan'[s]],
           \A s \in Maker : plan'[s] = [on |-> plan[s].on, made |-> plan[s].made,
                                       alone |-> plan'[s].alone],
           IsABag(note'), \A x \in DOMAIN note' : NoteOk(x),
           \A r \in Row : Shipped(note, r) = Shipped(note', r)
    PROVE  DeliveryInv'
<1>1. doc = 1
  BY NoteIsOfSubmitted DEF DeliveryInv
<1>2. NotesInv'
  BY <1>1 DEF NotesInv
<1>3. DeliveredIsActual'
  BY DEF DeliveryInv, DeliveredIsActual, Actual
<1>4. ASSUME NEW t \in Maker PROVE PlanOk(plan'[t]) /\ (plan'[t].on => doc' = 1)
  <2>1. /\ plan'[t].on = plan[t].on /\ plan'[t].made = plan[t].made
        /\ plan'[t] = [on |-> plan'[t].on, made |-> plan'[t].made, alone |-> plan'[t].alone]
    OBVIOUS
  <2>. QED  BY <1>1, <2>1 DEF DeliveryInv, PlansInv, PlanOk
<1>. QED  BY <1>2, <1>3, <1>4 DEF DeliveryInv, PlansInv

LEMMA EditNoteKeeps ==
    ASSUME DeliveryInv, NEW m \in DOMAIN note, NEW q \in Row, EditNote(m, q)
    PROVE  DeliveryInv'
<1>1. PICK v \in {0} \cup 1..(m.qty[q] - 1) : note' = Replaced(m, [m EXCEPT !.qty[q] = v])
  BY DEF EditNote
<1>2. /\ m.st = "draft" /\ m.qty[q] # 0 /\ UNCHANGED <<doc, delivered, disturbed>>
      /\ plan' = [s \in Maker |-> [plan[s] EXCEPT !.alone = plan[s].alone /\ m.qty[q] > 0]]
  BY DEF EditNote
<1>. DEFINE lines == [m.qty EXCEPT ![q] = v]
            new == [m EXCEPT !.qty = lines]
<1>3. NotesInv /\ NoteOk(m)
  BY NoteIsOfSubmitted DEF DeliveryInv
<1>4. LinesOk(lines)
  BY <1>2, <1>3 DEF NoteOk, LinesOk
<1>. HIDE DEF lines
<1>5. NoteOk(new) /\ new.st = "draft"
  BY <1>2, <1>3, <1>4 DEF NoteOk
<1>6. note' = Replaced(m, new)
  BY <1>1 DEF lines
<1>. HIDE DEF new
<1>7. /\ IsABag(note') /\ \A x \in DOMAIN note' : NoteOk(x)
      /\ \A r \in Row : Shipped(note, r) = Shipped(note', r)
  BY <1>2, <1>3, <1>5, <1>6, ReplacedShips DEF Unshipped
<1>8. /\ plan' = [s \in Maker |-> plan'[s]]
      /\ \A s \in Maker : plan'[s] = [on |-> plan[s].on, made |-> plan[s].made,
                                      alone |-> plan'[s].alone]
  BY <1>2 DEF DeliveryInv, PlansInv, PlanOk
<1>. QED  BY <1>2, <1>7, <1>8, DraftKeeps

LEMMA DeleteNoteKeeps ==
    ASSUME DeliveryInv, NEW m \in DOMAIN note, DeleteNote(m)
    PROVE  DeliveryInv'
<1>. DEFINE ok == \A r \in Row : m.qty[r] >= 0
<1>2. /\ m.st = "draft" /\ UNCHANGED <<doc, delivered, disturbed>> /\ note' = Removed(m)
      /\ plan' = [s \in Maker |-> [plan[s] EXCEPT !.alone = plan[s].alone /\ ok]]
  BY DEF DeleteNote
<1>. HIDE DEF ok
<1>7. /\ IsABag(note') /\ \A x \in DOMAIN note' : NoteOk(x)
      /\ \A r \in Row : Shipped(note, r) = Shipped(note', r)
  BY <1>2, RemovedShips DEF DeliveryInv, Unshipped
<1>8. /\ plan' = [s \in Maker |-> plan'[s]]
      /\ \A s \in Maker : plan'[s] = [on |-> plan[s].on, made |-> plan[s].made,
                                      alone |-> plan'[s].alone]
  BY <1>2 DEF DeliveryInv, PlansInv, PlanOk
<1>. QED  BY <1>2, <1>7, <1>8, DraftKeeps

LEMMA FormKeeps ==
    ASSUME DeliveryInv, NEW s \in Web, OpenForm(s) \/ Withhold(s)
    PROVE  DeliveryInv'
<1>1. UNCHANGED <<doc, note, plan>>
  BY DEF OpenForm, Withhold
<1>2. NotesInv' /\ PlansInv'
  BY <1>1 DEF DeliveryInv, NotesInv, PlansInv
<1>3. ASSUME NEW r \in Row, r \notin disturbed'
      PROVE  r \notin disturbed /\ delivered'[r] = delivered[r]
  <2>1. CASE OpenForm(s)
    BY <1>3, <2>1 DEF OpenForm
  <2>2. CASE Withhold(s)
    <3>1. /\ delivered' = [x \in Row |-> IF x \in Due(s) THEN form[s].delivered[x] ELSE delivered[x]]
          /\ disturbed' = disturbed \cup {x \in Due(s) : form[s].delivered[x] # delivered[x]}
      BY <2>2 DEF Withhold
    <3>. QED  BY <1>3, <3>1
  <2>. QED  BY <2>1, <2>2
<1>4. DeliveredIsActual'
  BY <1>1, <1>3 DEF DeliveryInv, DeliveredIsActual, Actual
<1>. QED  BY <1>2, <1>4 DEF DeliveryInv

(***************************************************************************)
(* The invariant holds.                                                    *)
(***************************************************************************)
LEMMA InitInv == Init => DeliveryInv
<1>. SUFFICES ASSUME Init PROVE DeliveryInv
  OBVIOUS
<1>1. NotesInv /\ PlansInv
  BY NoNotes DEF Init, NotesInv, PlansInv, PlanOk, NoPlan
<1>2. \A r \in Row : Shipped(note, r) = 0
  BY NoNotes, NoneShipped DEF Init
<1>3. doc = 0 /\ delivered = Nothing
  BY Zenon DEF Init
<1>4. DeliveredIsActual
  BY <1>2, <1>3 DEF DeliveredIsActual, Actual, Nothing
<1>. QED  BY <1>1, <1>4 DEF DeliveryInv

LEMMA NextKeeps == DeliveryInv /\ [Next]_vars => DeliveryInv'
<1>. SUFFICES ASSUME DeliveryInv, [Next]_vars PROVE DeliveryInv'
  OBVIOUS
<1>1. CASE UNCHANGED vars
  BY <1>1, NotesStay DEF vars, DeliveryInv, PlansInv
<1>2. CASE SubmitInvoice \/ SubmitInterrupted
  BY <1>2, SubmittedKeeps DEF SubmitInvoice, SubmitInterrupted
<1>3. CASE CancelInvoice
  BY <1>3, CancelInvoiceKeeps
<1>4. ASSUME NEW s \in Maker, BeginAutomatic(s) \/ Abandon(s) PROVE DeliveryInv'
  BY <1>4, MakersKeep
<1>5. ASSUME NEW s \in Maker, Make(s) PROVE DeliveryInv'
  BY <1>5, MakeKeeps
<1>6. ASSUME NEW s \in Web, BeginManual(s) PROVE DeliveryInv'
  BY <1>6, MakersKeep DEF Maker
<1>7. ASSUME NEW s \in Web, OpenForm(s) \/ Withhold(s) PROVE DeliveryInv'
  BY <1>7, FormKeeps
<1>8. ASSUME NEW m \in DOMAIN note, SubmitNote(m) PROVE DeliveryInv'
  BY <1>8, SubmitNoteKeeps
<1>9. ASSUME NEW m \in DOMAIN note, CancelNote(m) PROVE DeliveryInv'
  BY <1>9, CancelNoteKeeps
<1>10. ASSUME NEW m \in DOMAIN note, DeleteNote(m) PROVE DeliveryInv'
  BY <1>10, DeleteNoteKeeps
<1>11. ASSUME NEW m \in DOMAIN note, NEW r \in Row, EditNote(m, r) PROVE DeliveryInv'
  BY <1>11, EditNoteKeeps
<1>. QED  BY <1>1, <1>2, <1>3, <1>4, <1>5, <1>6, <1>7, <1>8, <1>9, <1>10, <1>11 DEF Next

\* A row's delivered quantity is what the submitted notes hold wherever nothing
\* overwrote it (update_delivery_on_sales_invoice, check_cancel_delivery_note,
\* check_submit_delivery_note), for any invoice.
THEOREM DeliveredMatchesNotes == Spec => []DeliveredIsActual
<1>1. DeliveryInv => DeliveredIsActual
  BY DEF DeliveryInv
<1>. QED  BY <1>1, InitInv, NextKeeps, PTL DEF Spec

(***************************************************************************)
(* The delivery status.                                                    *)
(***************************************************************************)
Actuals == [r \in Row |-> Actual(r)]

LEMMA StatusOfRows ==
    /\ StatusOf(Nothing) = "Not Delivered"
    /\ StatusOf([r \in Row |-> AtSubmission(r)]) =
          IF Stocked = Row THEN "Not Delivered" ELSE "Part Delivered"
<1>. DEFINE first == [r \in Row |-> AtSubmission(r)]
<1>1. /\ IsFiniteSet(Row) /\ 1 \in Row
      /\ Qty \in [Row -> Int] /\ \A r \in Row : Qty[r] > 0
      /\ Stocked \subseteq Row /\ Stocked # {}
  <2>1. Rows \in Int /\ 1 \in Int /\ Rows >= 1
    BY RowAssumption
  <2>2. IsFiniteSet(Row)
    BY <2>1, FS_Interval DEF Row
  <2>. QED  BY <2>1, <2>2, RowAssumption DEF Row
<1>2. /\ Nothing \in [Row -> Int] /\ first \in [Row -> Int]
      /\ \A r \in Row : /\ Nothing[r] = 0
                        /\ first[r] = IF r \in Stocked THEN 0 ELSE Qty[r]
  BY <1>1 DEF Nothing, AtSubmission
<1>. HIDE DEF first
<1>3. Total(Nothing) = 0 /\ Total(Qty) \in Int /\ 0 < Total(Qty)
  BY <1>1, <1>2, TotalsCompare
<1>4. Total(first) \in Int /\ Total(first) < Total(Qty)
  <2>1. \A r \in Row : first[r] <= Qty[r]
    BY <1>1, <1>2
  <2>2. \E r \in Row : first[r] < Qty[r]
    BY <1>1, <1>2
  <2>. QED  BY <1>1, <1>2, <2>1, <2>2, TotalsCompare
<1>5. IF Stocked = Row THEN Total(first) = 0 ELSE 0 < Total(first)
  <2>1. \A r \in Row : Nothing[r] <= first[r]
    BY <1>1, <1>2
  <2>2. CASE Stocked = Row
    <3>1. \A r \in Row : first[r] = 0
      BY <1>2, <2>2
    <3>. QED  BY <1>1, <1>2, <2>2, <3>1, TotalsCompare
  <2>3. CASE Stocked # Row
    <3>1. \E r \in Row : Nothing[r] < first[r]
      BY <1>1, <1>2, <2>3
    <3>. QED  BY <1>1, <1>2, <1>3, <2>1, <2>3, <3>1, TotalsCompare
  <2>. QED  BY <2>2, <2>3
<1>6. StatusOf(Nothing) = "Not Delivered"
  BY <1>3 DEF StatusOf
<1>7. StatusOf(first) = IF Stocked = Row THEN "Not Delivered" ELSE "Part Delivered"
  <2>1. CASE Stocked = Row
    BY <1>3, <1>5, <2>1 DEF StatusOf
  <2>2. CASE Stocked # Row
    BY <1>3, <1>4, <1>5, <2>2 DEF StatusOf
  <2>. QED  BY <2>1, <2>2
<1>. QED  BY <1>6, <1>7 DEF first

\* While no submitted quantity changes, the status stays right.
LEMMA StatusStays ==
    ASSUME StatusIsActual, UNCHANGED <<doc, status, behind>>,
           \A r \in Row : Shipped(note, r) = Shipped(note', r)
    PROVE  StatusIsActual'
<1>1. Actuals' = Actuals
  BY DEF Actuals, Actual
<1>. QED  BY <1>1 DEF StatusIsActual, Actuals

LEMMA InitStatus == Init => StatusIsActual
<1>. SUFFICES ASSUME Init PROVE StatusIsActual
  OBVIOUS
<1>1. doc = 0
  BY Zenon DEF Init
<1>2. status = "Not Delivered" /\ note = EmptyBag
  BY Zenon DEF Init
<1>3. \A r \in Row : Shipped(note, r) = 0
  BY <1>2, NoNotes, NoneShipped
<1>4. ASSUME NEW r \in Row PROVE Actual(r) = 0
  <2>1. Shipped(note, r) = 0
    BY <1>3
  <2>. QED  BY <1>1, <2>1 DEF Actual
<1>5. Actuals = Nothing
  BY <1>4 DEF Actuals, Nothing
<1>. QED  BY <1>5, <1>2, StatusOfRows DEF StatusIsActual, Actuals

LEMMA SubmittedStatus ==
    ASSUME DeliveryInv, Submitted
    PROVE  StatusIsActual'
<1>. DEFINE made == Automatic(note, Nothing)
<1>1. doc = 0 /\ doc' = 1 /\ note' = Added(note, made)
  BY DEF Submitted
<1>2. status' = IF Stocked = Row THEN "Not Delivered" ELSE "Part Delivered"
  BY DEF Submitted
<1>3. NotesInv /\ \A l \in made : LinesOk(l)
  BY PlannedLines DEF DeliveryInv
<1>. HIDE DEF made
<1>4. /\ IsABag(note') /\ \A x \in DOMAIN note' : NoteOk(x) /\ x.st # "submitted"
  BY <1>1, <1>3, AddedShips
<1>5. \A r \in Row : Shipped(note', r) = 0
  BY <1>4, NoneShipped
<1>6. Actuals' = [r \in Row |-> AtSubmission(r)]
  BY <1>1, <1>5 DEF Actuals, Actual, AtSubmission
<1>. QED  BY <1>6, <1>2, StatusOfRows DEF StatusIsActual, Actuals

LEMMA CancelInvoiceStatus ==
    ASSUME CancelInvoice
    PROVE  StatusIsActual'
<1>1. CASE behind'
  BY <1>1 DEF StatusIsActual
<1>2. CASE ~behind'
  <2>1. doc' = 2
    BY <1>2, Zenon DEF CancelInvoice
  <2>2. note' = EmptyBag /\ status' = "Not Delivered"
    BY <1>2, Zenon DEF CancelInvoice
  <2>3. \A r \in Row : Shipped(note', r) = 0
    BY <2>2, NoNotes, NoneShipped
  <2>4. ASSUME NEW r \in Row PROVE Actual(r)' = 0
    <3>1. Shipped(note', r) = 0
      BY <2>3
    <3>. QED  BY <2>1, <3>1 DEF Actual
  <2>5. Actuals' = Nothing
    BY <2>4 DEF Actuals, Nothing
  <2>. QED  BY <2>2, <2>5, StatusOfRows DEF StatusIsActual, Actuals
<1>. QED  BY <1>1, <1>2

\* The status is computed from rows that are all right.
LEMMA SubmitNoteStatus ==
    ASSUME DeliveryInv', NEW m, SubmitNote(m)
    PROVE  StatusIsActual'
<1>1. /\ delivered' = [r \in Row |-> delivered'[r]]
      /\ status' = StatusOf(delivered') /\ behind' = (disturbed' # {})
  BY DEF SubmitNote, WriteBack
<1>2. ASSUME ~behind' PROVE delivered' = Actuals'
  <2>1. \A r \in Row : delivered'[r] = Actual(r)'
    BY <1>1, <1>2 DEF DeliveryInv, DeliveredIsActual
  <2>. QED  BY <1>1, <2>1 DEF Actuals
<1>. QED  BY <1>1, <1>2 DEF StatusIsActual, Actuals

\* A maker saves drafts; a draft is lowered or deleted.
LEMMA DraftsStatus ==
    ASSUME DeliveryInv, StatusIsActual,
           \/ \E s \in Maker : Make(s)
           \/ \E m \in DOMAIN note : DeleteNote(m) \/ \E r \in Row : EditNote(m, r)
    PROVE  StatusIsActual'
<1>1. CASE \E s \in Maker : Make(s)
  <2>1. PICK s \in Maker : Make(s)
    BY <1>1
  <2>2. NotesInv /\ doc = 1 /\ \A l \in plan[s].made : LinesOk(l)
    BY <2>1 DEF DeliveryInv, PlansInv, PlanOk, Make
  <2>3. \A r \in Row : Shipped(note, r) = Shipped(note', r)
    BY <2>1, <2>2, AddedShips DEF Make
  <2>. QED  BY <2>1, <2>3, StatusStays DEF Make
<1>2. ASSUME NEW m \in DOMAIN note, DeleteNote(m) PROVE StatusIsActual'
  <2>1. \A r \in Row : Shipped(note, r) = Shipped(note', r)
    BY <1>2, RemovedShips DEF DeleteNote, DeliveryInv, Unshipped
  <2>. QED  BY <1>2, <2>1, StatusStays DEF DeleteNote
<1>3. ASSUME NEW m \in DOMAIN note, NEW q \in Row, EditNote(m, q) PROVE StatusIsActual'
  <2>1. PICK v : note' = Replaced(m, [m EXCEPT !.qty[q] = v])
    BY <1>3 DEF EditNote
  <2>. PICK new : new = [m EXCEPT !.qty[q] = v]
    OBVIOUS
  <2>2. NotesInv /\ NoteOk(m) /\ m.st = "draft" /\ m.qty[q] # 0
    BY <1>3, NoteIsOfSubmitted DEF DeliveryInv, EditNote
  <2>3. NoteOk(new) /\ new.st = "draft"
    BY <2>2 DEF NoteOk, LinesOk
  <2>4. \A r \in Row : Shipped(note, r) = Shipped(note', r)
    BY <2>1, <2>2, <2>3, ReplacedShips DEF Unshipped
  <2>. QED  BY <1>3, <2>4, StatusStays DEF EditNote
<1>. QED  BY <1>1, <1>2, <1>3

LEMMA StatusKeeps == DeliveryInv /\ DeliveryInv' /\ StatusIsActual /\ [Next]_vars => StatusIsActual'
<1>. SUFFICES ASSUME DeliveryInv, DeliveryInv', StatusIsActual, [Next]_vars PROVE StatusIsActual'
  OBVIOUS
<1>1. ASSUME UNCHANGED <<doc, status, behind, note>> PROVE StatusIsActual'
  BY <1>1, StatusStays
<1>2. CASE UNCHANGED vars
  BY <1>1, <1>2 DEF vars
<1>3. CASE SubmitInvoice \/ SubmitInterrupted
  BY <1>3, SubmittedStatus DEF SubmitInvoice, SubmitInterrupted
<1>4. CASE CancelInvoice
  BY <1>4, CancelInvoiceStatus
<1>5. ASSUME NEW s \in Maker, BeginAutomatic(s) \/ Abandon(s) PROVE StatusIsActual'
  BY <1>1, <1>5 DEF BeginAutomatic, Begin, Abandon
<1>6. ASSUME NEW s \in Web, BeginManual(s) \/ OpenForm(s) \/ Withhold(s) PROVE StatusIsActual'
  BY <1>1, <1>6 DEF BeginManual, Begin, OpenForm, Withhold
<1>7. ASSUME NEW s \in Maker, Make(s) PROVE StatusIsActual'
  BY <1>7, DraftsStatus
<1>8. ASSUME NEW m \in DOMAIN note, DeleteNote(m) \/ \E r \in Row : EditNote(m, r) PROVE StatusIsActual'
  BY <1>8, DraftsStatus
<1>9. ASSUME NEW m \in DOMAIN note, SubmitNote(m) PROVE StatusIsActual'
  BY <1>9, SubmitNoteStatus
<1>10. ASSUME NEW m \in DOMAIN note, CancelNote(m) PROVE StatusIsActual'
  BY <1>10 DEF CancelNote, StatusIsActual
<1>. QED  BY <1>2, <1>3, <1>4, <1>5, <1>6, <1>7, <1>8, <1>9, <1>10 DEF Next

\* The delivery status sums up the submitted notes when no row was wrong and no
\* note cancelled since it was computed (check_validate_delivery_note), for any
\* rows, quantities and number of users.
THEOREM StatusMatchesNotes == Spec => []StatusIsActual
<1>. QED  BY InitInv, NextKeeps, InitStatus, StatusKeeps, PTL DEF Spec

(***************************************************************************)
(* Bags of notes, counted.                                                 *)
(***************************************************************************)
CopiesOf(m, b) == IF m \in DOMAIN b THEN b[m] ELSE 0

BagOk(b) ==
    /\ IsABag(b) /\ IsFiniteSet(DOMAIN b)
    /\ \A m \in DOMAIN b : /\ m.st \in {"draft", "submitted"} /\ m.qty \in [Row -> Int]
                           /\ m.st = "submitted" => \A r \in Row : m.qty[r] >= 0

LEMMA CopiesAre ==
    ASSUME NEW b, IsABag(b), NEW m
    PROVE  /\ CopiesOf(m, b) \in Int /\ CopiesOf(m, b) >= 0
           /\ m \in DOMAIN b => CopiesOf(m, b) = b[m] /\ b[m] \in Int /\ b[m] > 0
           /\ m \notin DOMAIN b => CopiesOf(m, b) = 0
<1>1. \A x \in DOMAIN b : b[x] \in Int /\ b[x] > 0
  BY DEF IsABag
<1>. QED  BY <1>1 DEF CopiesOf

LEMMA CopiesTaken ==
    ASSUME NEW b, IsABag(b), NEW m \in DOMAIN b, NEW x
    PROVE  CopiesOf(x, b (-) SetToBag({m})) = CopiesOf(x, b) - (IF x = m THEN 1 ELSE 0)
<1>1. \A e \in DOMAIN b : b[e] \in Int /\ b[e] > 0
  BY DEF IsABag
<1>. DEFINE D == [e \in DOMAIN b |-> IF e \in {m} THEN b[e] - 1 ELSE b[e]]
            C == [e \in {d \in DOMAIN b : D[d] > 0} |-> D[e]]
<1>2. b (-) SetToBag({m}) = C
  BY DEF (-), SetToBag
<1>3. CopiesOf(x, C) = IF x \in DOMAIN b /\ D[x] > 0 THEN D[x] ELSE 0
  BY DEF CopiesOf
<1>4. CopiesOf(x, b) = IF x \in DOMAIN b THEN b[x] ELSE 0
  BY DEF CopiesOf
<1>5. CASE x = m
  BY <1>1, <1>2, <1>3, <1>4, <1>5
<1>6. CASE x # m
  BY <1>1, <1>2, <1>3, <1>4, <1>6
<1>. QED  BY <1>5, <1>6

LEMMA CopiesPut ==
    ASSUME NEW b, IsABag(b), NEW S, NEW x
    PROVE  CopiesOf(x, b (+) SetToBag(S)) = CopiesOf(x, b) + (IF x \in S THEN 1 ELSE 0)
<1>1. \A e \in DOMAIN b : b[e] \in Int /\ b[e] > 0
  BY DEF IsABag
<1>. DEFINE C == [e \in DOMAIN b \cup S |->
                    (IF e \in DOMAIN b THEN b[e] ELSE 0) + (IF e \in S THEN 1 ELSE 0)]
<1>2. b (+) SetToBag(S) = C
  BY DEF (+), SetToBag
<1>3. CopiesOf(x, C) = IF x \in DOMAIN b \cup S THEN C[x] ELSE 0
  BY DEF CopiesOf
<1>4. CopiesOf(x, b) = IF x \in DOMAIN b THEN b[x] ELSE 0
  BY DEF CopiesOf
<1>. QED  BY <1>1, <1>2, <1>3, <1>4

\* What note m holds of row r, with its copies.
Part(b, m, r) == CopiesOf(m, b) * m.qty[r]

Holding(b, r) == {x \in DOMAIN b : x.st \in {"draft", "submitted"} /\ x.qty[r] # 0}
Rest(b, m, r) == [x \in Holding(b, r) \ {m} |-> b[x] * x.qty[r]]

LEMMA NotedParts ==
    ASSUME NEW b, BagOk(b), NEW r \in Row, NEW m, m.qty[r] \in Int, m.st \in {"draft", "submitted"}
    PROVE  /\ Noted(b, r) \in Int /\ Total(Rest(b, m, r)) \in Int
           /\ Noted(b, r) = Part(b, m, r) + Total(Rest(b, m, r))
<1>1. PICK D : D = Holding(b, r)
  OBVIOUS
<1>2. PICK f : f = [x \in D |-> b[x] * x.qty[r]]
  OBVIOUS
<1>3. Noted(b, r) = Total(f)
  BY <1>1, <1>2 DEF Noted, Count, Holding
<1>4. IsFiniteSet(D) /\ D \in SUBSET DOMAIN b
  BY <1>1, FS_Subset DEF Holding, BagOk
<1>5. \A x \in D : b[x] \in Int /\ x.qty[r] \in Int /\ b[x] * x.qty[r] \in Int
  BY <1>4, CopiesAre DEF BagOk
<1>6. f \in [D -> Int]
  BY <1>2, <1>5
<1>7. [d \in D \ {m} |-> f[d]] = Rest(b, m, r)
  BY <1>1, <1>2 DEF Rest
<1>8. /\ Total(f) \in Int /\ Total(Rest(b, m, r)) \in Int
      /\ Total(f) = (IF m \in D THEN f[m] ELSE 0) + Total(Rest(b, m, r))
  BY <1>4, <1>6, <1>7, TotalWithout
<1>9. Part(b, m, r) = IF m \in D THEN f[m] ELSE 0
  <2>1. CASE m \in D
    <3>1. CopiesOf(m, b) = b[m]
      BY <1>4, <2>1, CopiesAre DEF BagOk
    <3>. QED  BY <1>2, <2>1, <3>1 DEF Part
  <2>2. CASE m \notin D
    <3>1. m.qty[r] = 0 \/ CopiesOf(m, b) = 0
      BY <1>1, <2>2, CopiesAre DEF BagOk, Holding
    <3>2. CopiesOf(m, b) \in Int
      BY CopiesAre DEF BagOk
    <3>3. CopiesOf(m, b) * m.qty[r] = 0
      BY <3>1, <3>2
    <3>. QED  BY <2>2, <3>3 DEF Part
  <2>. QED  BY <2>1, <2>2
<1>. QED  BY <1>3, <1>8, <1>9

\* Bags that differ in one note of a row differ in its quantity by that note.
LEMMA OneNoteDiffers ==
    ASSUME NEW b, BagOk(b), NEW c, BagOk(c), NEW r \in Row,
           NEW m, m.qty[r] \in Int, m.st \in {"draft", "submitted"},
           \A x : x # m /\ x.qty[r] # 0 => CopiesOf(x, c) = CopiesOf(x, b)
    PROVE  /\ Noted(b, r) \in Int /\ Noted(c, r) \in Int
           /\ Noted(c, r) - Part(c, m, r) = Noted(b, r) - Part(b, m, r)
<1>1. IsABag(b) /\ IsABag(c)
  BY DEF BagOk
<1>2. ASSUME NEW x, x # m, x.qty[r] # 0
      PROVE  /\ x \in DOMAIN b <=> x \in DOMAIN c
             /\ x \in DOMAIN b => b[x] = c[x]
  BY <1>1, <1>2, CopiesAre
<1>3. Holding(b, r) \ {m} = Holding(c, r) \ {m}
  BY <1>2 DEF Holding
<1>4. \A x \in Holding(b, r) \ {m} : b[x] = c[x]
  BY <1>2 DEF Holding
<1>5. Rest(b, m, r) = Rest(c, m, r)
  BY <1>3, <1>4 DEF Rest
<1>6. Part(b, m, r) \in Int /\ Part(c, m, r) \in Int
  BY <1>1, CopiesAre DEF Part
<1>. QED  BY <1>5, <1>6, NotedParts

\* What a note of a bag is.
NoteTyped(m) ==
    /\ m.st \in {"draft", "submitted"} /\ m.qty \in [Row -> Int]
    /\ m.st = "submitted" => \A r \in Row : m.qty[r] >= 0

LEMMA OneTaken ==
    ASSUME NEW b, BagOk(b), NEW m \in DOMAIN b
    PROVE  LET c == b (-) SetToBag({m}) IN
           BagOk(c) /\ \A r \in Row : Noted(b, r) \in Int /\ Noted(c, r) = Noted(b, r) - m.qty[r]
<1>1. PICK c : c = b (-) SetToBag({m})
  OBVIOUS
<1>2. NoteTyped(m)
  BY DEF BagOk, NoteTyped
<1>3. BagOk(c)
  <2>1. IsABag(c) /\ DOMAIN c \subseteq DOMAIN b
    BY <1>1, TakeOne DEF BagOk
  <2>. QED  BY <2>1, FS_Subset DEF BagOk
<1>4. ASSUME NEW r \in Row PROVE Noted(b, r) \in Int /\ Noted(c, r) = Noted(b, r) - m.qty[r]
  <2>1. \A x : CopiesOf(x, c) = CopiesOf(x, b) - (IF x = m THEN 1 ELSE 0)
    BY <1>1, CopiesTaken DEF BagOk
  <2>2. \A x : CopiesOf(x, b) \in Int
    BY CopiesAre DEF BagOk
  <2>3. m.qty[r] \in Int /\ m.st \in {"draft", "submitted"}
    BY <1>2 DEF NoteTyped
  <2>4. \A x : x # m /\ x.qty[r] # 0 => CopiesOf(x, c) = CopiesOf(x, b)
    BY <2>1, <2>2
  <2>5. /\ Noted(b, r) \in Int /\ Noted(c, r) \in Int
        /\ Noted(c, r) - Part(c, m, r) = Noted(b, r) - Part(b, m, r)
    BY <1>3, <2>3, <2>4, OneNoteDiffers
  <2>6. Part(c, m, r) = Part(b, m, r) - m.qty[r] /\ Part(b, m, r) \in Int
    <3>1. PICK n \in Int : n = CopiesOf(m, b)
      BY <2>2
    <3>2. CopiesOf(m, c) = n - 1
      BY <2>1, <3>1
    <3>3. (n - 1) * m.qty[r] = n * m.qty[r] - m.qty[r]
      BY <2>3
    <3>. QED  BY <2>3, <3>1, <3>2, <3>3 DEF Part
  <2>. QED  BY <2>3, <2>5, <2>6
<1>. QED  BY <1>1, <1>3, <1>4

LEMMA SetPut ==
    ASSUME NEW b, BagOk(b), NEW S, IsFiniteSet(S), \A x \in S : NoteTyped(x), NEW r \in Row,
           NEW m, NoteTyped(m), \A x \in S : x # m => x.qty[r] = 0
    PROVE  LET c == b (+) SetToBag(S) IN
           /\ BagOk(c) /\ Noted(b, r) \in Int
           /\ Noted(c, r) = Noted(b, r) + (IF m \in S THEN m.qty[r] ELSE 0)
<1>1. PICK c : c = b (+) SetToBag(S)
  OBVIOUS
<1>2. BagOk(c)
  <2>1. IsABag(c) /\ DOMAIN c = DOMAIN b \cup S
    BY <1>1, PutSet DEF BagOk
  <2>2. IsFiniteSet(DOMAIN c)
    BY <2>1, FS_Union, ZenonT(60) DEF BagOk
  <2>. QED  BY <2>1, <2>2 DEF BagOk, NoteTyped
<1>3. \A x : CopiesOf(x, c) = CopiesOf(x, b) + (IF x \in S THEN 1 ELSE 0)
  BY <1>1, CopiesPut DEF BagOk
<1>4. \A x : CopiesOf(x, b) \in Int
  BY CopiesAre DEF BagOk
<1>5. m.qty[r] \in Int /\ m.st \in {"draft", "submitted"}
  BY DEF NoteTyped
<1>6. \A x : x # m /\ x.qty[r] # 0 => CopiesOf(x, c) = CopiesOf(x, b)
  BY <1>3, <1>4
<1>7. /\ Noted(b, r) \in Int /\ Noted(c, r) \in Int
      /\ Noted(c, r) - Part(c, m, r) = Noted(b, r) - Part(b, m, r)
  BY <1>2, <1>5, <1>6, OneNoteDiffers
<1>8. Part(c, m, r) = Part(b, m, r) + (IF m \in S THEN m.qty[r] ELSE 0) /\ Part(b, m, r) \in Int
  <2>1. PICK n \in Int : n = CopiesOf(m, b)
    BY <1>4
  <2>2. CASE m \in S
    <3>1. CopiesOf(m, c) = n + 1
      BY <1>3, <2>1, <2>2
    <3>2. (n + 1) * m.qty[r] = n * m.qty[r] + m.qty[r]
      BY <1>5
    <3>. QED  BY <1>5, <2>1, <2>2, <3>1, <3>2 DEF Part
  <2>3. CASE m \notin S
    <3>1. CopiesOf(m, c) = n
      BY <1>3, <2>1, <2>3
    <3>. QED  BY <1>5, <2>1, <2>3, <3>1 DEF Part
  <2>. QED  BY <2>2, <2>3
<1>. QED  BY <1>1, <1>2, <1>5, <1>7, <1>8

LEMMA NotedAfterRemoved ==
    ASSUME BagOk(note), NEW m \in DOMAIN note
    PROVE  /\ BagOk(Removed(m))
           /\ \A r \in Row : Noted(note, r) \in Int /\ Noted(Removed(m), r) = Noted(note, r) - m.qty[r]
BY OneTaken DEF Removed

LEMMA NotedAfterReplaced ==
    ASSUME BagOk(note), NEW m \in DOMAIN note, NEW new, NoteTyped(new)
    PROVE  /\ BagOk(Replaced(m, new))
           /\ \A r \in Row : /\ Noted(note, r) \in Int
                             /\ Noted(Replaced(m, new), r) = Noted(note, r) - m.qty[r] + new.qty[r]
<1>1. PICK b : b = note (-) SetToBag({m})
  OBVIOUS
<1>2. BagOk(b) /\ \A r \in Row : Noted(note, r) \in Int /\ Noted(b, r) = Noted(note, r) - m.qty[r]
  BY <1>1, OneTaken
<1>3. Replaced(m, new) = b (+) SetToBag({new})
  BY <1>1 DEF Replaced
<1>4. ASSUME NEW r \in Row
      PROVE  /\ BagOk(Replaced(m, new))
             /\ Noted(Replaced(m, new), r) = Noted(note, r) - m.qty[r] + new.qty[r]
  <2>1. IsFiniteSet({new})
    BY FS_Singleton
  <2>2. PICK c : c = b (+) SetToBag({new})
    OBVIOUS
  <2>3. BagOk(c) /\ Noted(c, r) = Noted(b, r) + new.qty[r]
    <3>1. /\ \A x \in {new} : NoteTyped(x) /\ (x # new => x.qty[r] = 0)
          /\ new \in {new}
      OBVIOUS
    <3>. QED  BY <1>2, <2>1, <2>2, <3>1, SetPut
  <2>. QED  BY <1>2, <1>3, <2>2, <2>3
<1>5. 1 \in Row
  BY RowAssumption DEF Row
<1>. QED  BY <1>2, <1>4, <1>5

LEMMA ImageIsFinite ==
    ASSUME NEW S, IsFiniteSet(S), NEW f
    PROVE  IsFiniteSet({f[x] : x \in S})
<1>1. PICK T : T = {f[x] : x \in S}
  OBVIOUS
<1>2. PICK g : g = [x \in S |-> f[x]]
  OBVIOUS
<1>3. g \in Surjection(S, T)
  BY <1>1, <1>2 DEF Surjection
<1>. QED  BY <1>1, <1>3, FS_Surjection

\* No two of the lines made have a quantity of one row.
Disjoint(made) == \A r \in Row : \A k, l \in made : k[r] # 0 /\ l[r] # 0 => k = l

LinesTyped(made) == IsFiniteSet(made) /\ \A l \in made : l \in [Row -> Int]

LEMMA NotedAfterAdded ==
    ASSUME BagOk(note), NEW made, LinesTyped(made)
    PROVE  /\ BagOk(Added(note, made))
           /\ \A r \in Row : Noted(note, r) \in Int
           /\ \A r \in Row : (\A l \in made : l[r] = 0) => Noted(Added(note, made), r) = Noted(note, r)
           /\ Disjoint(made) =>
                 \A r \in Row, l \in made :
                    l[r] # 0 => Noted(Added(note, made), r) = Noted(note, r) + l[r]
<1>1. PICK S : S = {Draft(l) : l \in made}
  OBVIOUS
<1>2. PICK c : c = note (+) SetToBag(S)
  OBVIOUS
<1>3. Added(note, made) = c
  BY <1>1, <1>2 DEF Added
<1>4. IsFiniteSet(S)
  <2>1. PICK f : f = [l \in made |-> Draft(l)]
    OBVIOUS
  <2>2. S = {f[l] : l \in made}
    BY <1>1, <2>1
  <2>. QED  BY <2>2, ImageIsFinite DEF LinesTyped
<1>5. \A l \in [Row -> Int] : Draft(l).st = "draft" /\ Draft(l).qty = l /\ NoteTyped(Draft(l))
  BY DEF Draft, NoteTyped
<1>6. \A x \in S : NoteTyped(x)
  BY <1>1, <1>5 DEF LinesTyped
<1>7. Nothing \in [Row -> Int] /\ \A r \in Row : Nothing[r] = 0
  BY DEF Nothing
<1>8. ASSUME NEW r \in Row, \A l \in made : l[r] = 0
      PROVE  Noted(c, r) = Noted(note, r)
  <2>1. \A x \in S : x.qty[r] = 0
    BY <1>1, <1>5, <1>8 DEF LinesTyped
  <2>2. PICK m : m = Draft(Nothing)
    OBVIOUS
  <2>3. NoteTyped(m) /\ m.qty[r] = 0
    BY <1>5, <1>7, <2>2
  <2>4. Noted(note, r) \in Int /\ Noted(c, r) = Noted(note, r) + (IF m \in S THEN m.qty[r] ELSE 0)
    BY <1>2, <1>4, <1>6, <2>1, <2>3, SetPut
  <2>. QED  BY <2>3, <2>4
<1>9. ASSUME Disjoint(made), NEW r \in Row, NEW l \in made, l[r] # 0
      PROVE  Noted(c, r) = Noted(note, r) + l[r]
  <2>1. PICK m : m = Draft(l)
    OBVIOUS
  <2>2. NoteTyped(m) /\ m.qty = l /\ m \in S
    BY <1>1, <1>5, <2>1 DEF LinesTyped
  <2>3. ASSUME NEW x \in S, x # m PROVE x.qty[r] = 0
    <3>1. PICK k \in made : x = Draft(k)
      BY <1>1
    <3>2. k # l /\ x.qty = k
      BY <1>5, <2>1, <2>3, <3>1 DEF LinesTyped
    <3>. QED  BY <1>9, <3>2 DEF Disjoint
  <2>4. Noted(c, r) = Noted(note, r) + (IF m \in S THEN m.qty[r] ELSE 0)
    BY <1>2, <1>4, <1>6, <2>2, <2>3, SetPut
  <2>. QED  BY <2>2, <2>4
<1>10. BagOk(c)
  <2>1. IsABag(c) /\ DOMAIN c = DOMAIN note \cup S
    BY <1>2, PutSet DEF BagOk
  <2>2. IsFiniteSet(DOMAIN c)
    BY <1>4, <2>1, FS_Union DEF BagOk
  <2>. QED  BY <1>6, <2>1, <2>2 DEF BagOk, NoteTyped
<1>11. \A r \in Row : Noted(note, r) \in Int
  BY <1>5, <1>7, NotedParts DEF NoteTyped
<1>. QED  BY <1>3, <1>8, <1>9, <1>10, <1>11

(***************************************************************************)
(* What a plan that nobody overtook leaves room for.                       *)
(***************************************************************************)
Fits(made) ==
    /\ Disjoint(made)
    /\ \A r \in Row, l \in made : l[r] > 0 => Noted(note, r) + l[r] <= Qty[r]

FitInv ==
    /\ BagOk(note)
    /\ \A s \in Maker : LinesTyped(plan[s].made)
    /\ \A s \in Maker : plan[s].on /\ plan[s].alone => Fits(plan[s].made)

LEMMA NotedIsInt == ASSUME BagOk(note), NEW r \in Row PROVE Noted(note, r) \in Int
<1>1. PICK m : m = Draft(Nothing)
  OBVIOUS
<1>2. m.st = "draft" /\ m.qty[r] \in Int
  BY <1>1 DEF Draft, Nothing
<1>. QED  BY <1>2, NotedParts

LEMMA LinesAre ==
    ASSUME BagOk(note), NEW rows
    PROVE  /\ Lines(note, rows) \in [Row -> Int]
           /\ \A r \in Row : /\ Lines(note, rows)[r] # 0 => r \in rows
                             /\ Lines(note, rows)[r] > 0 => Noted(note, r) + Lines(note, rows)[r] <= Qty[r]
<1>1. \A r \in Row : /\ Noted(note, r) \in Int /\ Qty[r] \in Int
                     /\ Left(note, r) = Qty[r] - Noted(note, r)
  BY RowAssumption, NotedIsInt DEF Left
<1>. QED  BY <1>1 DEF Lines

LEMMA RowsAreFinite == IsFiniteSet(Stocked)
<1>1. Rows \in Int /\ 1 \in Int /\ Stocked \subseteq 1..Rows
  BY RowAssumption DEF Row
<1>. QED  BY <1>1, FS_Interval, FS_Subset

\* Each warehouse gets one note.
LEMMA AutomaticFits ==
    ASSUME BagOk(note), NEW d
    PROVE  LinesTyped(Automatic(note, d)) /\ Fits(Automatic(note, d))
<1>1. PICK made : made = Automatic(note, d)
  OBVIOUS
<1>2. Reached(note, d) \subseteq Leads(note) /\ Leads(note) \subseteq Stocked /\ Stocked \subseteq Row
  BY RowAssumption DEF Reached, Leads
<1>3. LinesTyped(made)
  <2>1. PICK f : f = [r \in Reached(note, d) |-> Lines(note, Same(r))]
    OBVIOUS
  <2>2. made = {f[r] : r \in Reached(note, d)}
    BY <1>1, <2>1 DEF Automatic
  <2>3. IsFiniteSet(Reached(note, d))
    BY <1>2, RowsAreFinite, FS_Subset
  <2>4. IsFiniteSet(made)
    BY <2>2, <2>3, ImageIsFinite
  <2>5. \A l \in made : l \in [Row -> Int]
    BY <1>1, LinesAre DEF Automatic
  <2>. QED  BY <2>4, <2>5 DEF LinesTyped
<1>4. ASSUME NEW r \in Row, NEW k \in made, NEW l \in made, k[r] # 0, l[r] # 0 PROVE k = l
  <2>1. PICK p \in Reached(note, d) : k = Lines(note, Same(p))
    BY <1>1, <1>4 DEF Automatic
  <2>2. PICK q \in Reached(note, d) : l = Lines(note, Same(q))
    BY <1>1, <1>4 DEF Automatic
  <2>3. r \in Same(p) /\ r \in Same(q)
    BY <1>4, <2>1, <2>2, LinesAre
  <2>4. /\ p \in Leads(note) /\ q \in Leads(note) /\ p \in Same(q) /\ q \in Same(p)
        /\ p \in Int /\ q \in Int
    <3>1. p \in Stocked /\ q \in Stocked /\ House[r] = House[p] /\ House[r] = House[q]
      BY <1>2, <2>1, <2>2, <2>3 DEF Same
    <3>2. p \in Int /\ q \in Int
      BY <1>2, <3>1, RowAssumption DEF Row
    <3>. QED  BY <1>2, <2>1, <2>2, <3>1, <3>2 DEF Same
  <2>5. ~(p < q) /\ ~(q < p)
    BY <2>4 DEF Leads
  <2>6. p = q
    BY <2>4, <2>5
  <2>. QED  BY <2>1, <2>2, <2>6
<1>5. ASSUME NEW r \in Row, NEW l \in made, l[r] > 0 PROVE Noted(note, r) + l[r] <= Qty[r]
  <2>1. PICK q \in Reached(note, d) : l = Lines(note, Same(q))
    BY <1>1, <1>5 DEF Automatic
  <2>. QED  BY <1>5, <2>1, LinesAre
<1>6. Fits(made)
  BY <1>4, <1>5 DEF Fits, Disjoint
<1>. QED  BY <1>1, <1>3, <1>6

LEMMA ManualFits ==
    ASSUME BagOk(note), NEW rows
    PROVE  LinesTyped({Lines(note, rows)}) /\ Fits({Lines(note, rows)})
<1>1. IsFiniteSet({Lines(note, rows)})
  BY FS_Singleton
<1>. QED  BY <1>1, LinesAre DEF LinesTyped, Fits, Disjoint

\* Plans go, or stay as the notes of no row become more.
LEMMA FitStays ==
    ASSUME FitInv, BagOk(note'),
           \A s \in Maker : /\ LinesTyped(plan'[s].made)
                            /\ plan'[s].on /\ plan'[s].alone =>
                                  /\ plan[s].on /\ plan[s].alone /\ plan'[s].made = plan[s].made
                                  /\ \A r \in Row : Noted(note', r) <= Noted(note, r)
    PROVE  FitInv'
<1>1. ASSUME NEW s \in Maker, plan'[s].on, plan'[s].alone PROVE Fits(plan[s].made)'
  <2>1. PICK made : made = plan[s].made
    OBVIOUS
  <2>2. made = plan'[s].made /\ Fits(made) /\ LinesTyped(made)
    BY <1>1, <2>1 DEF FitInv
  <2>3. ASSUME NEW r \in Row, NEW l \in made, l[r] > 0 PROVE Noted(note', r) + l[r] <= Qty[r]
    <3>1. Noted(note', r) <= Noted(note, r) /\ Noted(note, r) + l[r] <= Qty[r]
      BY <1>1, <2>2, <2>3 DEF Fits
    <3>2. Noted(note, r) \in Int /\ l[r] \in Int /\ Qty[r] \in Int
      BY <2>2, NotedIsInt, RowAssumption DEF LinesTyped, FitInv
    <3>3. Noted(note', r) \in Int
      <4>1. PICK m : m = Draft(Nothing)
        OBVIOUS
      <4>2. m.st = "draft" /\ m.qty[r] \in Int
        BY <4>1 DEF Draft, Nothing
      <4>. QED  BY <4>2, NotedParts
    <3>. QED  BY <3>1, <3>2, <3>3
  <2>. QED  BY <2>2, <2>3 DEF Fits, Disjoint
<1>. QED  BY <1>1 DEF FitInv

LEMMA FitOfBegin ==
    ASSUME FitInv, PlansInv, NEW s \in Maker, NEW made, Begin(s, made), LinesTyped(made), Fits(made)
    PROVE  FitInv'
<1>1. note' = note
  BY DEF Begin
<1>2. ASSUME NEW t \in Maker
      PROVE  LinesTyped(plan'[t].made) /\ (plan'[t].on /\ plan'[t].alone => Fits(plan'[t].made))
  <2>1. plan'[t] = IF t = s THEN [on |-> TRUE, made |-> made, alone |-> TRUE] ELSE plan[t]
    BY DEF Begin, PlansInv
  <2>. QED  BY <2>1 DEF FitInv
<1>3. ASSUME NEW t \in Maker, plan'[t].on, plan'[t].alone PROVE Fits(plan[t].made)'
  BY <1>1, <1>2, <1>3 DEF Fits
<1>. QED  BY <1>1, <1>2, <1>3 DEF FitInv

\* Plans others make count as overtaken when something was added.
LEMMA OvertakenPlans ==
    ASSUME PlansInv, NEW s \in Maker, NEW adds \in BOOLEAN, plan' = Overtaken(s, adds), NEW t \in Maker
    PROVE  /\ t = s => plan'[t] = NoPlan /\ plan'[t].on = FALSE /\ plan'[t].made = {}
           /\ t # s => /\ plan'[t].on = plan[t].on /\ plan'[t].made = plan[t].made
                       /\ plan'[t].alone = (plan[t].alone /\ ~adds)
<1>1. CASE t = s
  BY <1>1 DEF Overtaken, NoPlan
<1>2. CASE t # s
  <2>1. plan'[t] = [plan[t] EXCEPT !.alone = plan[t].alone /\ ~adds]
    BY <1>2 DEF Overtaken
  <2>2. plan[t] = [on |-> plan[t].on, made |-> plan[t].made, alone |-> plan[t].alone]
    BY DEF PlansInv, PlanOk
  <2>3. PICK a : a = (plan[t].alone /\ ~adds)
    OBVIOUS
  <2>4. plan'[t] = [on |-> plan[t].on, made |-> plan[t].made, alone |-> a]
    BY <2>1, <2>2, <2>3
  <2>. QED  BY <1>2, <2>3, <2>4
<1>. QED  BY <1>1, <1>2

LEMMA NoLines == LinesTyped({})
BY FS_EmptySet DEF LinesTyped

LEMMA FitOfMake ==
    ASSUME FitInv, PlansInv, NEW s \in Maker, Make(s)
    PROVE  FitInv'
<1>1. /\ note' = Added(note, plan[s].made) /\ plan' = Overtaken(s, plan[s].made # {})
      /\ LinesTyped(plan[s].made) /\ BagOk(note)
  BY DEF Make, FitInv
<1>2. PICK adds \in BOOLEAN : adds = (plan[s].made # {})
  OBVIOUS
<1>3. BagOk(note') /\ (~adds => \A r \in Row : Noted(note', r) = Noted(note, r) /\ Noted(note, r) \in Int)
  BY <1>1, <1>2, NotedAfterAdded
<1>4. ASSUME NEW t \in Maker
      PROVE  /\ LinesTyped(plan'[t].made)
             /\ plan'[t].on /\ plan'[t].alone =>
                   /\ plan[t].on /\ plan[t].alone /\ plan'[t].made = plan[t].made
                   /\ \A r \in Row : Noted(note', r) <= Noted(note, r)
  <2>1. CASE t = s
    BY <1>1, <1>2, <2>1, OvertakenPlans, NoLines, ZenonT(60)
  <2>2. CASE t # s
    <3>1. /\ plan'[t].on = plan[t].on /\ plan'[t].made = plan[t].made
          /\ plan'[t].alone = (plan[t].alone /\ ~adds)
      <4>1. plan' = Overtaken(s, adds)
        BY <1>1, <1>2, Zenon
      <4>. QED  BY <2>2, <4>1, OvertakenPlans, ZenonT(60)
    <3>2. LinesTyped(plan'[t].made)
      BY <3>1 DEF FitInv
    <3>3. ASSUME plan'[t].alone PROVE plan[t].alone /\ ~adds
      BY <3>1, <3>3, Zenon
    <3>. QED  BY <1>3, <3>1, <3>2, <3>3
  <2>. QED  BY <2>1, <2>2
<1>. QED  BY <1>3, <1>4, FitStays

LEMMA FitOfAbandon ==
    ASSUME FitInv, PlansInv, NEW s \in Maker, Abandon(s)
    PROVE  FitInv'
<1>1. plan' = Overtaken(s, FALSE) /\ note' = note
  BY DEF Abandon
<1>2. ASSUME NEW t \in Maker
      PROVE  /\ LinesTyped(plan'[t].made)
             /\ plan'[t].on /\ plan'[t].alone =>
                   /\ plan[t].on /\ plan[t].alone /\ plan'[t].made = plan[t].made
                   /\ \A r \in Row : Noted(note', r) <= Noted(note, r)
  <2>1. \A r \in Row : Noted(note', r) <= Noted(note, r)
    BY <1>1, NotedIsInt DEF FitInv
  <2>2. CASE t = s
    BY <1>1, <2>2, OvertakenPlans, NoLines
  <2>3. CASE t # s
    <3>1. /\ plan'[t].on = plan[t].on /\ plan'[t].made = plan[t].made
          /\ plan'[t].alone = (plan[t].alone /\ ~FALSE)
      BY <1>1, <2>3, OvertakenPlans
    <3>2. LinesTyped(plan'[t].made)
      BY <3>1 DEF FitInv
    <3>3. ASSUME plan'[t].alone PROVE plan[t].alone
      BY <3>1, <3>3, Zenon
    <3>. QED  BY <2>1, <3>1, <3>2, <3>3
  <2>. QED  BY <2>2, <2>3
<1>3. BagOk(note')
  BY <1>1 DEF FitInv
<1>. QED  BY <1>2, <1>3, FitStays

\* The plans are those there were.
LEMMA FitWhilePlansStay ==
    ASSUME FitInv, plan' = plan, BagOk(note'), \A r \in Row : Noted(note', r) <= Noted(note, r)
    PROVE  FitInv'
BY FitStays DEF FitInv

LEMMA NothingNoted == BagOk(EmptyBag) /\ \A r \in Row : Noted(EmptyBag, r) = 0
<1>1. BagOk(EmptyBag)
  BY NoNotes, FS_EmptySet DEF BagOk
<1>2. ASSUME NEW r \in Row PROVE Noted(EmptyBag, r) = 0
  <2>1. PICK f : f = [x \in {} |-> EmptyBag[x] * x.qty[r]]
    OBVIOUS
  <2>2. Noted(EmptyBag, r) = Total(f)
    <3>1. {x \in DOMAIN EmptyBag : x.st \in {"draft", "submitted"} /\ x.qty[r] # 0} = {}
      BY NoNotes
    <3>. QED  BY <2>1, <3>1 DEF Noted, Count
  <2>. QED  BY <2>1, <2>2, TotalOfNothing
<1>. QED  BY <1>1, <1>2

LEMMA FitOfSubmitted ==
    ASSUME FitInv, PlansInv, Submitted
    PROVE  FitInv'
<1>1. /\ note' = Added(note, Automatic(note, Nothing)) /\ plan' = plan /\ doc = 0
  BY DEF Submitted
<1>2. BagOk(note) /\ \A s \in Maker : plan[s].on => doc = 1
  BY DEF FitInv, PlansInv
<1>3. BagOk(note')
  BY <1>1, <1>2, AutomaticFits, NotedAfterAdded
<1>4. \A s \in Maker : ~plan'[s].on /\ LinesTyped(plan'[s].made)
  BY <1>1, <1>2 DEF FitInv
<1>. QED  BY <1>3, <1>4, FitStays

LEMMA FitOfCancel ==
    ASSUME FitInv, CancelInvoice
    PROVE  FitInv'
<1>1. \/ note' = EmptyBag /\ plan' = [s \in Maker |-> NoPlan]
      \/ UNCHANGED <<note, plan>>
  BY Zenon DEF CancelInvoice
<1>2. CASE note' = EmptyBag /\ plan' = [s \in Maker |-> NoPlan]
  <2>1. \A s \in Maker : ~plan'[s].on /\ LinesTyped(plan'[s].made)
    BY <1>2, NoLines DEF NoPlan
  <2>. QED  BY <1>2, <2>1, NothingNoted, FitStays
<1>3. CASE UNCHANGED <<note, plan>>
  <2>1. \A r \in Row : Noted(note', r) <= Noted(note, r)
    BY <1>3, NotedIsInt DEF FitInv
  <2>2. BagOk(note')
    BY <1>3 DEF FitInv
  <2>. QED  BY <1>3, <2>1, <2>2, FitWhilePlansStay
<1>. QED  BY <1>1, <1>2, <1>3

LEMMA FitOfSubmitNote ==
    ASSUME FitInv, NotesInv, NEW m \in DOMAIN note, SubmitNote(m)
    PROVE  FitInv'
<1>1. PICK new : new = [m EXCEPT !.st = "submitted"]
  OBVIOUS
<1>2. note' = Replaced(m, new) /\ plan' = plan /\ \A r \in RowsOf(m) : m.qty[r] > 0
  BY <1>1 DEF SubmitNote
<1>3. BagOk(note) /\ NoteTyped(m) /\ NoteOk(m)
  BY DEF FitInv, BagOk, NoteTyped, NotesInv
<1>4. new.st = "submitted" /\ new.qty = m.qty
  BY <1>1, <1>3 DEF NoteOk
<1>5. \A r \in Row : m.qty[r] \in Int /\ m.qty[r] >= 0
  BY <1>2, <1>3 DEF NoteTyped, RowsOf
<1>6. NoteTyped(new)
  BY <1>3, <1>4, <1>5 DEF NoteTyped
<1>7. /\ BagOk(note')
      /\ \A r \in Row : /\ Noted(note, r) \in Int
                        /\ Noted(note', r) = Noted(note, r) - m.qty[r] + new.qty[r]
  BY <1>2, <1>3, <1>6, NotedAfterReplaced
<1>8. \A r \in Row : Noted(note', r) <= Noted(note, r)
  BY <1>4, <1>5, <1>7
<1>. QED  BY <1>2, <1>7, <1>8, FitWhilePlansStay

LEMMA FitOfCancelNote ==
    ASSUME FitInv, NEW m \in DOMAIN note, CancelNote(m)
    PROVE  FitInv'
<1>1. m.st = "submitted" /\ note' = Removed(m) /\ plan' = plan
  BY DEF CancelNote
<1>2. BagOk(note) /\ \A r \in Row : m.qty[r] \in Int /\ m.qty[r] >= 0
  BY <1>1 DEF FitInv, BagOk
<1>3. BagOk(note') /\ \A r \in Row : Noted(note, r) \in Int /\ Noted(note', r) = Noted(note, r) - m.qty[r]
  BY <1>1, <1>2, NotedAfterRemoved
<1>4. \A r \in Row : Noted(note', r) <= Noted(note, r)
  BY <1>2, <1>3
<1>. QED  BY <1>1, <1>3, <1>4, FitWhilePlansStay

\* The plans of a step that marks all of them unless cond holds.
LEMMA MarkedPlans ==
    ASSUME FitInv, PlansInv, NEW cond, plan' = [s \in Maker |-> [plan[s] EXCEPT !.alone = plan[s].alone /\ cond]],
           BagOk(note'), cond => \A r \in Row : Noted(note', r) <= Noted(note, r)
    PROVE  /\ FitInv'
           /\ \A s \in Maker : plan'[s].on = plan[s].on
<1>1. ASSUME NEW s \in Maker
      PROVE  /\ plan'[s].on = plan[s].on /\ plan'[s].made = plan[s].made
             /\ plan'[s].alone => plan[s].alone /\ cond
  <2>1. PICK a : a = (plan[s].alone /\ cond)
    OBVIOUS
  <2>2. plan'[s] = [plan[s] EXCEPT !.alone = a]
    BY <2>1, Zenon
  <2>3. plan[s] = [on |-> plan[s].on, made |-> plan[s].made, alone |-> plan[s].alone]
    BY DEF PlansInv, PlanOk
  <2>4. plan'[s] = [on |-> plan[s].on, made |-> plan[s].made, alone |-> a]
    BY <2>2, <2>3
  <2>5. plan'[s].alone = a /\ plan'[s].on = plan[s].on /\ plan'[s].made = plan[s].made
    BY <2>4
  <2>6. ASSUME plan'[s].alone PROVE plan[s].alone /\ cond
    BY <2>1, <2>5, <2>6, Zenon
  <2>. QED  BY <2>5, <2>6
<1>2. \A s \in Maker : LinesTyped(plan'[s].made)
  BY <1>1 DEF FitInv
<1>3. FitInv'
  BY <1>1, <1>2, FitStays
<1>. QED  BY <1>1, <1>3

LEMMA FitOfDelete ==
    ASSUME FitInv, PlansInv, NEW m \in DOMAIN note, DeleteNote(m)
    PROVE  FitInv' /\ \A s \in Maker : plan'[s].on = plan[s].on
<1>1. PICK cond : cond = \A r \in Row : m.qty[r] >= 0
  OBVIOUS
<1>2. note' = Removed(m) /\ plan' = [s \in Maker |-> [plan[s] EXCEPT !.alone = plan[s].alone /\ cond]]
  BY <1>1 DEF DeleteNote
<1>3. BagOk(note) /\ \A r \in Row : m.qty[r] \in Int
  BY DEF FitInv, BagOk
<1>4. BagOk(note') /\ \A r \in Row : Noted(note, r) \in Int /\ Noted(note', r) = Noted(note, r) - m.qty[r]
  BY <1>2, <1>3, NotedAfterRemoved
<1>5. ASSUME cond PROVE \A r \in Row : Noted(note', r) <= Noted(note, r)
  <2>1. \A r \in Row : m.qty[r] >= 0
    BY <1>1, <1>5, Zenon
  <2>. QED  BY <1>3, <1>4, <2>1
<1>. QED  BY <1>2, <1>4, <1>5, MarkedPlans

LEMMA FitOfEdit ==
    ASSUME FitInv, PlansInv, NotesInv, NEW m \in DOMAIN note, NEW q \in Row, EditNote(m, q)
    PROVE  FitInv' /\ \A s \in Maker : plan'[s].on = plan[s].on
<1>1. PICK v \in {0} \cup 1..(m.qty[q] - 1) : note' = Replaced(m, [m EXCEPT !.qty[q] = v])
  BY DEF EditNote
<1>2. PICK cond : cond = (m.qty[q] > 0)
  OBVIOUS
<1>3. m.st = "draft" /\ plan' = [s \in Maker |-> [plan[s] EXCEPT !.alone = plan[s].alone /\ cond]]
  BY <1>2 DEF EditNote
<1>4. BagOk(note) /\ NoteOk(m) /\ m.qty \in [Row -> Int]
  BY DEF FitInv, BagOk, NotesInv
<1>5. PICK lines : lines = [m.qty EXCEPT ![q] = v]
  OBVIOUS
<1>6. PICK new : new = [m EXCEPT !.qty = lines]
  OBVIOUS
<1>7. note' = Replaced(m, new)
  BY <1>1, <1>5, <1>6
<1>8. v \in Int /\ (m.qty[q] > 0 => v < m.qty[q]) /\ m.qty[q] \in Int
  BY <1>1, <1>4
<1>9. lines \in [Row -> Int] /\ \A r \in Row : lines[r] = IF r = q THEN v ELSE m.qty[r]
  BY <1>4, <1>5, <1>8
<1>10. new.st = "draft" /\ new.qty = lines
  BY <1>3, <1>4, <1>6 DEF NoteOk
<1>11. NoteTyped(new)
  BY <1>9, <1>10 DEF NoteTyped
<1>12. /\ BagOk(note')
       /\ \A r \in Row : /\ Noted(note, r) \in Int
                         /\ Noted(note', r) = Noted(note, r) - m.qty[r] + new.qty[r]
  BY <1>4, <1>7, <1>11, NotedAfterReplaced
<1>13. ASSUME cond PROVE \A r \in Row : Noted(note', r) <= Noted(note, r)
  <2>1. m.qty[q] > 0
    BY <1>2, <1>13, Zenon
  <2>2. \A r \in Row : new.qty[r] <= m.qty[r] /\ new.qty[r] \in Int /\ m.qty[r] \in Int
    BY <1>4, <1>8, <1>9, <1>10, <2>1
  <2>. QED  BY <1>12, <2>2
<1>. QED  BY <1>3, <1>12, <1>13, MarkedPlans

LEMMA FitInit == Init => FitInv
<1>. SUFFICES ASSUME Init PROVE FitInv
  OBVIOUS
<1>1. note = EmptyBag /\ plan = [s \in Maker |-> NoPlan]
  BY Zenon DEF Init
<1>2. BagOk(note)
  BY <1>1, NothingNoted
<1>3. \A s \in Maker : plan[s].on = FALSE /\ plan[s].made = {}
  BY <1>1 DEF NoPlan
<1>. QED  BY <1>2, <1>3, NoLines DEF FitInv

LEMMA FitKeeps == DeliveryInv /\ FitInv /\ [Next]_vars => FitInv'
<1>. SUFFICES ASSUME NotesInv, PlansInv, FitInv, [Next]_vars PROVE FitInv'
  BY DEF DeliveryInv
<1>1. ASSUME UNCHANGED <<note, plan>> PROVE FitInv'
  <2>1. BagOk(note') /\ \A r \in Row : Noted(note', r) <= Noted(note, r)
    BY <1>1, NotedIsInt DEF FitInv
  <2>. QED  BY <1>1, <2>1, FitWhilePlansStay
<1>2. CASE UNCHANGED vars
  BY <1>1, <1>2 DEF vars
<1>3. CASE SubmitInvoice \/ SubmitInterrupted
  BY <1>3, FitOfSubmitted DEF SubmitInvoice, SubmitInterrupted
<1>4. CASE CancelInvoice
  BY <1>4, FitOfCancel
<1>5. ASSUME NEW s \in Maker, BeginAutomatic(s) PROVE FitInv'
  BY <1>5, AutomaticFits, FitOfBegin DEF BeginAutomatic, FitInv
<1>6. ASSUME NEW s \in Web, BeginManual(s) PROVE FitInv'
  <2>1. s \in Maker
    BY DEF Maker
  <2>. QED  BY <1>6, <2>1, ManualFits, FitOfBegin DEF BeginManual, FitInv
<1>7. ASSUME NEW s \in Maker, Make(s) \/ Abandon(s) PROVE FitInv'
  BY <1>7, FitOfMake, FitOfAbandon
<1>8. ASSUME NEW s \in Web, OpenForm(s) \/ Withhold(s) PROVE FitInv'
  BY <1>1, <1>8 DEF OpenForm, Withhold
<1>9. ASSUME NEW m \in DOMAIN note,
             SubmitNote(m) \/ CancelNote(m) \/ DeleteNote(m) \/ \E r \in Row : EditNote(m, r)
      PROVE  FitInv'
  BY <1>9, FitOfSubmitNote, FitOfCancelNote, FitOfDelete, FitOfEdit
<1>. QED  BY <1>2, <1>3, <1>4, <1>5, <1>6, <1>7, <1>8, <1>9 DEF Next

\* What an alone maker saves.
LEMMA MadeFits ==
    ASSUME FitInv, NEW s \in Maker, plan[s].on, plan[s].alone, Make(s), NEW r \in Row
    PROVE  Noted(note', r) <= Qty[r] \/ Noted(note', r) <= Noted(note, r)
<1>1. PICK made : made = plan[s].made
  OBVIOUS
<1>2. note' = Added(note, made) /\ LinesTyped(made) /\ Fits(made) /\ BagOk(note)
  BY <1>1 DEF Make, FitInv
<1>3. Noted(note, r) \in Int /\ Qty[r] \in Int
  BY <1>2, NotedIsInt, RowAssumption
<1>4. CASE \A l \in made : l[r] = 0
  BY <1>2, <1>3, <1>4, NotedAfterAdded
<1>5. CASE \E l \in made : l[r] # 0
  <2>1. PICK l \in made : l[r] # 0
    BY <1>5
  <2>2. Noted(note', r) = Noted(note, r) + l[r] /\ l[r] \in Int
    BY <1>2, <2>1, NotedAfterAdded DEF Fits, LinesTyped
  <2>3. l[r] > 0 => Noted(note, r) + l[r] <= Qty[r]
    BY <1>2, <2>1 DEF Fits
  <2>. QED  BY <1>3, <2>2, <2>3
<1>. QED  BY <1>4, <1>5

\* Notes saved by a maker no other overtook do not hold more of a row than was
\* invoiced, unless they did before (create_delivery_note, make_delivery_note),
\* for any rows, warehouses, quantities and number of users.
THEOREM SoleMakerNeverExceeds == Spec => SoleMakerFits
<1>. DEFINE A == \A s \in Maker, r \in Row :
                    plan[s].on /\ plan[s].alone /\ note' # note /\ ~plan'[s].on
                       => Noted(note', r) <= Qty[r] \/ Noted(note', r) <= Noted(note, r)
<1>1. DeliveryInv /\ FitInv /\ [Next]_vars => [A]_vars
  <2>. SUFFICES ASSUME DeliveryInv, FitInv, Next, NEW s \in Maker, NEW r \in Row,
                       plan[s].on, plan[s].alone, note' # note, ~plan'[s].on
                PROVE  Noted(note', r) <= Qty[r] \/ Noted(note', r) <= Noted(note, r)
    OBVIOUS
  <2>1. PlansInv /\ NotesInv /\ doc = 1
    BY DEF DeliveryInv, PlansInv
  <2>2. CASE CancelInvoice
    <3>1. note' = EmptyBag
      BY <2>2, Zenon DEF CancelInvoice
    <3>2. Noted(note', r) = 0 /\ Qty[r] \in Nat
      BY <3>1, NothingNoted, RowAssumption
    <3>. QED  BY <3>2
  <2>3. CASE \E t \in Maker : Make(t)
    <3>1. PICK t \in Maker : Make(t)
      BY <2>3
    <3>2. PICK adds \in BOOLEAN : adds = (plan[t].made # {})
      OBVIOUS
    <3>3. plan' = Overtaken(t, adds)
      BY <3>1, <3>2, Zenon DEF Make
    <3>4. t = s
      BY <2>1, <3>3, OvertakenPlans, ZenonT(60)
    <3>. QED  BY <3>1, <3>4, MadeFits
  <2>4. ASSUME NEW m \in DOMAIN note,
               SubmitNote(m) \/ CancelNote(m) \/ DeleteNote(m) \/ \E q \in Row : EditNote(m, q)
        PROVE  FALSE
    <3>1. CASE SubmitNote(m) \/ CancelNote(m)
      BY <3>1 DEF SubmitNote, CancelNote
    <3>2. CASE DeleteNote(m) \/ \E q \in Row : EditNote(m, q)
      BY <2>1, <3>2, FitOfDelete, FitOfEdit
    <3>. QED  BY <2>4, <3>1, <3>2
  <2>. QED  BY <2>1, <2>2, <2>3, <2>4
            DEF Next, SubmitInvoice, SubmitInterrupted, Submitted, BeginAutomatic, BeginManual, Begin,
                Abandon, OpenForm, Withhold
<1>. QED  BY <1>1, InitInv, NextKeeps, FitInit, FitKeeps, PTL DEF Spec, SoleMakerFits

(***************************************************************************)
(* Withholding entries.                                                    *)
(***************************************************************************)
LEMMA EntriesInit == Init => EntriesInv
<1>1. Init => doc = 0 /\ entries = Nothing
  BY Zenon DEF Init
<1>. QED  BY <1>1 DEF EntriesInv, Nothing

LEMMA EntriesKeep == EntriesInv /\ [Next]_vars => EntriesInv'
<1>. SUFFICES ASSUME EntriesInv, [Next]_vars PROVE EntriesInv'
  OBVIOUS
<1>1. CASE SubmitInvoice
  <2>1. doc' = 1 /\ flag' = Withheld /\ entries' = [r \in Row |-> IF r \in Withheld THEN 1 ELSE 0]
    BY <1>1 DEF SubmitInvoice, Submitted
  <2>. QED  BY <2>1 DEF EntriesInv
<1>2. ASSUME NEW s \in Web, Withhold(s) PROVE EntriesInv'
  <2>1. /\ doc = 1 /\ doc' = doc /\ flag' = flag \cup Due(s)
        /\ entries' = [r \in Row |-> IF r \in Due(s) THEN entries[r] + 1 ELSE entries[r]]
    BY <1>2 DEF Withhold, Entered
  <2>. QED  BY <2>1 DEF EntriesInv
<1>3. CASE UNCHANGED <<flag, entries>> /\ (doc' = doc \/ (doc = 0 /\ doc' = 1) \/ (doc = 1 /\ doc' \in {1, 2}))
  BY <1>3 DEF EntriesInv
<1>. QED  BY <1>1, <1>2, <1>3
       DEF Next, vars, SubmitInterrupted, Submitted, CancelInvoice, BeginAutomatic, BeginManual,
           Begin, Make, Abandon, OpenForm, SubmitNote, CancelNote, DeleteNote, EditNote

\* A second entry of a row comes from a form that is older than the first
\* (make_withholding_tax_gl_entries_for_sales), for any number of users and rows.
THEOREM SecondEntryFromStaleForm == Spec => SecondEntryNeedsStaleForm
<1>. DEFINE A == \A r \in Row : entries[r] > 0 /\ entries'[r] > entries[r]
                    => \E s \in Web : form[s].open /\ r \in flag \ form[s].flag
<1>1. EntriesInv /\ [Next]_vars => [A]_vars
  <2>. SUFFICES ASSUME EntriesInv, Next, NEW r \in Row,
                       entries[r] > 0, entries'[r] > entries[r]
                PROVE  \E s \in Web : form[s].open /\ r \in flag \ form[s].flag
    OBVIOUS
  <2>1. entries' # entries /\ r \in flag /\ entries \in [Row -> Nat] /\ doc # 0
    BY DEF EntriesInv, Nothing
  <2>2. PICK s \in Web : Withhold(s)
    BY <2>1 DEF Next, SubmitInvoice, SubmitInterrupted, Submitted, CancelInvoice, BeginAutomatic,
           BeginManual, Begin, Make, Abandon, OpenForm, SubmitNote, CancelNote, DeleteNote, EditNote
  <2>3. form[s].open /\ r \in Due(s)
    BY <2>1, <2>2 DEF Withhold, Entered
  <2>. QED  BY <2>1, <2>3 DEF Due
<1>. QED  BY <1>1, EntriesInit, EntriesKeep, PTL DEF Spec, SecondEntryNeedsStaleForm
=============================================================================
