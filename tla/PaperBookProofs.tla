-------------------------- MODULE PaperBookProofs --------------------------
(***************************************************************************)
(* What the book always is, for every universe, tape, set of statements    *)
(* and number of tickers: the lemmas on sums, on what the rails and the    *)
(* allocation return, the types, the two sleeves, the turnover cap, what   *)
(* the book is worth, the drawdown halt, the satellite's slice, and the    *)
(* period ledger.                                                          *)
(***************************************************************************)
EXTENDS PaperBook, FiniteSetTheorems, WellFoundedInduction, TLAPS

-----------------------------------------------------------------------------
(* What a sum over a finite set is.  The library computes it by recursion  *)
(* over the parts of the set; what holds of it is shown on a least part    *)
(* where it would not.                                                     *)

\* Every set of numbers has a least one.
LEMMA LeastNumber ==
    ASSUME NEW S \in SUBSET Nat, S # {}
    PROVE  \E n \in S : \A m \in S : n <= m
<1>. DEFINE R == {ss \in Nat \X Nat : ss[1] < ss[2]}
<1>1. \A x, y \in Nat : <<y, x>> \notin R => x <= y
  OBVIOUS
<1>2. IsWellFoundedOn(R, Nat)
  BY NatLessThanWellFounded DEF OpToRel
<1>. HIDE DEF R
<1>3. \E x \in S : \A y \in S : <<y, x>> \notin R
  BY <1>2, WFMin
<1>. QED
  BY <1>1, <1>3

\* Induction on the parts of a finite set: of the parts that are bad one has only
\* good parts with an element less.
LEMMA LeastPart ==
    ASSUME NEW S, IsFiniteSet(S), NEW bad \in SUBSET SUBSET S, bad # {}
    PROVE  \E s \in bad : \A x \in s : s \ {x} \notin bad
<1>. DEFINE sizes == {Cardinality(s) : s \in bad}
<1>1. \A s \in bad : IsFiniteSet(s) /\ Cardinality(s) \in Nat
  BY FS_Subset, FS_CardinalityType
<1>2. sizes \in SUBSET Nat /\ sizes # {}
  BY <1>1
<1>3. PICK n \in sizes : \A m \in sizes : n <= m
  BY <1>2, LeastNumber
<1>4. PICK s \in bad : Cardinality(s) = n
  BY <1>3
<1>5. ASSUME NEW x \in s, s \ {x} \in bad PROVE FALSE
  <2>1. Cardinality(s \ {x}) = Cardinality(s) - 1
    BY <1>1, FS_RemoveElement
  <2>2. Cardinality(s) <= Cardinality(s \ {x})
    BY <1>3, <1>4, <1>5
  <2>. QED
    BY <1>1, <1>5, <2>1, <2>2
<1>. QED
  BY <1>5

\* The sum as the library computes it: an element of a part, and the rest of it.
Pick(s) == CHOOSE x \in s : TRUE
Unfolds(g, f, S) ==
    \A s \in SUBSET S : g[s] = IF s = {} THEN 0 ELSE f[Pick(s)] + g[s \ {Pick(s)}]
Sums(g, f, S) == g \in [SUBSET S -> Int] /\ Unfolds(g, f, S)

LEMMA SumsEmpty ==
    ASSUME NEW S, NEW f, NEW g, Sums(g, f, S)
    PROVE  g[{}] = 0
<1>1. {} \in SUBSET S
  OBVIOUS
<1>. QED
  BY <1>1 DEF Sums, Unfolds

LEMMA SumsExist ==
    ASSUME NEW S, IsFiniteSet(S), NEW f \in [S -> Int]
    PROVE  \E g : Sums(g, f, S)
<1>. DEFINE Parts(n) == {s \in SUBSET S : Cardinality(s) <= n}
           Upto(g, n) == /\ g \in [Parts(n) -> Int]
                         /\ \A s \in Parts(n) :
                               g[s] = IF s = {} THEN 0 ELSE f[Pick(s)] + g[s \ {Pick(s)}]
           bad == {n \in Nat : \A g : ~Upto(g, n)}
<1>1. \A s \in SUBSET S : IsFiniteSet(s) /\ Cardinality(s) \in Nat
  BY FS_Subset, FS_CardinalityType
<1>2. \A s \in SUBSET S : s # {} => Pick(s) \in s
  BY DEF Pick
<1>3. bad = {}
  <2>. SUFFICES ASSUME bad # {} PROVE FALSE
    OBVIOUS
  <2>1. PICK n \in bad : \A m \in bad : n <= m
    BY LeastNumber
  <2>2. CASE n = 0
    <3>1. \A s \in Parts(0) : s = {}
      BY <1>1, FS_EmptySet
    <3>2. Upto([s \in Parts(0) |-> 0], 0)
      BY <3>1
    <3>. QED
      BY <2>1, <2>2, <3>2
  <2>3. CASE n # 0
    <3>1. n - 1 \in Nat /\ n - 1 \notin bad
      <4>1. bad \subseteq Nat
        OBVIOUS
      <4>. HIDE DEF bad
      <4>. QED
        BY <2>1, <2>3, <4>1
    <3>2. PICK g : Upto(g, n - 1)
      BY <3>1
    <3>. DEFINE h == [s \in Parts(n) |-> IF s \in Parts(n - 1) THEN g[s]
                                        ELSE f[Pick(s)] + g[s \ {Pick(s)}]]
    <3>3. \A s \in Parts(n) : s # {} =>
             /\ Pick(s) \in s /\ f[Pick(s)] \in Int
             /\ s \ {Pick(s)} \in Parts(n - 1) /\ g[s \ {Pick(s)}] \in Int
      <4>. SUFFICES ASSUME NEW s \in Parts(n), s # {}
                   PROVE  /\ Pick(s) \in s /\ f[Pick(s)] \in Int
                          /\ s \ {Pick(s)} \in Parts(n - 1) /\ g[s \ {Pick(s)}] \in Int
        OBVIOUS
      <4>1. Pick(s) \in s /\ f[Pick(s)] \in Int
        BY <1>2
      <4>2. Cardinality(s \ {Pick(s)}) = Cardinality(s) - 1
        BY <1>1, <4>1, FS_RemoveElement
      <4>3. s \ {Pick(s)} \in Parts(n - 1)
        BY <1>1, <4>2
      <4>. QED
        BY <3>2, <4>1, <4>3
    <3>4. \A s \in Parts(n - 1) : s \in Parts(n) /\ g[s] \in Int
      BY <1>1, <3>2
    <3>5. {} \in Parts(n - 1)
      BY <3>1, FS_EmptySet
    <3>6. ASSUME NEW s \in Parts(n) PROVE h[s] \in Int
      <4>1. CASE s \in Parts(n - 1)
        <5>1. h[s] = g[s]
          BY <4>1
        <5>. QED
          BY <3>4, <4>1, <5>1
      <4>2. CASE s \notin Parts(n - 1)
        <5>1. s # {}
          BY <3>5, <4>2
        <5>2. h[s] = f[Pick(s)] + g[s \ {Pick(s)}]
          BY <4>2
        <5>3. f[Pick(s)] \in Int /\ g[s \ {Pick(s)}] \in Int
          BY <3>3, <5>1
        <5>. QED
          BY <5>2, <5>3
      <4>. QED
        BY <4>1, <4>2
    <3>7. \A s \in Parts(n) : h[s] = IF s = {} THEN 0 ELSE f[Pick(s)] + h[s \ {Pick(s)}]
      <4>. SUFFICES ASSUME NEW s \in Parts(n)
                   PROVE  h[s] = IF s = {} THEN 0 ELSE f[Pick(s)] + h[s \ {Pick(s)}]
        OBVIOUS
      <4>1. CASE s = {}
        BY <3>2, <3>5, <4>1
      <4>2. CASE s # {}
        <5>1. h[s \ {Pick(s)}] = g[s \ {Pick(s)}]
          BY <3>3, <3>4, <4>2
        <5>. QED
          BY <3>2, <4>2, <5>1
      <4>. QED
        BY <4>1, <4>2
    <3>8. h \in [Parts(n) -> Int]
      BY <3>6
    <3>. HIDE DEF h
    <3>9. Upto(h, n)
      BY <3>7, <3>8
    <3>. QED
      BY <2>1, <3>9
  <2>. QED
    BY <2>2, <2>3
<1>4. Cardinality(S) \in Nat
  BY FS_CardinalityType
<1>5. PICK g : Upto(g, Cardinality(S))
  BY <1>3, <1>4
<1>6. Parts(Cardinality(S)) = SUBSET S
  BY <1>1, FS_Subset
<1>. QED
  BY <1>5, <1>6 DEF Sums, Unfolds

\* The order in which the elements are picked does not matter.
LEMMA SumsPick ==
    ASSUME NEW S, IsFiniteSet(S), NEW f \in [S -> Int], NEW g, Sums(g, f, S),
           NEW s \in SUBSET S, NEW x \in s
    PROVE  g[s] = f[x] + g[s \ {x}]
<1>. DEFINE bad == {t \in SUBSET S : \E y \in t : g[t] # f[y] + g[t \ {y}]}
<1>. SUFFICES ASSUME bad # {} PROVE FALSE
  OBVIOUS
<1>1. PICK t \in bad : \A y \in t : t \ {y} \notin bad
  BY LeastPart
<1>2. PICK y \in t : g[t] # f[y] + g[t \ {y}]
  BY <1>1
<1>. DEFINE p == Pick(t)
<1>3. p \in t
  BY <1>2 DEF Pick
<1>4. g[t] = f[p] + g[t \ {p}]
  BY <1>2 DEF Sums, Unfolds
<1>5. p # y
  BY <1>2, <1>4
<1>6. t \ {p} \in SUBSET S /\ y \in t \ {p}
  BY <1>2, <1>5
<1>7. t \ {y} \in SUBSET S /\ p \in t \ {y}
  BY <1>3, <1>5
<1>. HIDE DEF p
<1>8. g[t \ {p}] = f[y] + g[(t \ {y}) \ {p}]
  <2>1. g[t \ {p}] = f[y] + g[(t \ {p}) \ {y}]
    BY <1>1, <1>3, <1>6
  <2>2. (t \ {p}) \ {y} = (t \ {y}) \ {p}
    OBVIOUS
  <2>. QED
    BY <2>1, <2>2
<1>9. g[t \ {y}] = f[p] + g[(t \ {y}) \ {p}]
  BY <1>1, <1>2, <1>7
<1>11. /\ f[p] \in Int /\ f[y] \in Int /\ g[(t \ {y}) \ {p}] \in Int
       /\ (t \ {y}) \ {p} \in SUBSET S
  BY <1>2, <1>3 DEF Sums, Unfolds
<1>. DEFINE rest == g[(t \ {y}) \ {p}]
<1>12. f[p] + (f[y] + rest) = f[y] + (f[p] + rest)
  <2>. HIDE DEF rest
  <2>1. \A a, b, c \in Int : a + (b + c) = b + (a + c)
    OBVIOUS
  <2>2. rest \in Int
    BY <1>11 DEF rest
  <2>. QED
    BY <1>11, <2>1, <2>2
<1>13. g[t] = f[y] + g[t \ {y}]
  <2>1. g[t] = f[p] + (f[y] + rest)
    BY <1>4, <1>8
  <2>2. g[t \ {y}] = f[p] + rest
    BY <1>9
  <2>. QED
    BY <1>12, <2>1, <2>2
<1>. QED
  BY <1>2, <1>13

\* Two such sums agree on the parts both have, if what they sum does.
LEMMA SumsAgree ==
    ASSUME NEW S, IsFiniteSet(S), NEW f, NEW g, Unfolds(g, f, S),
           NEW e, NEW h, Unfolds(h, e, S), \A x \in S : e[x] = f[x]
    PROVE  \A s \in SUBSET S : g[s] = h[s]
<1>. DEFINE bad == {s \in SUBSET S : g[s] # h[s]}
<1>. SUFFICES ASSUME bad # {} PROVE FALSE
  OBVIOUS
<1>1. PICK s \in bad : \A x \in s : s \ {x} \notin bad
  BY LeastPart
<1>2. s # {}
  BY DEF Unfolds
<1>3. Pick(s) \in s
  BY <1>2 DEF Pick
<1>4. g[s \ {Pick(s)}] = h[s \ {Pick(s)}]
  BY <1>1, <1>3
<1>5. g[s] = f[Pick(s)] + g[s \ {Pick(s)}]
  BY <1>2 DEF Unfolds
<1>6. h[s] = e[Pick(s)] + h[s \ {Pick(s)}]
  BY <1>2 DEF Unfolds
<1>. QED
  BY <1>1, <1>3, <1>4, <1>5, <1>6

\* What SumFunction is.
LEMMA SumIs ==
    ASSUME NEW S, IsFiniteSet(S), NEW f \in [S -> Int]
    PROVE  \E g : Sums(g, f, S) /\ SumFunction(f) = g[S]
<1>. DEFINE Rec(g) == g = [s \in SUBSET S |-> IF s = {} THEN 0 ELSE f[Pick(s)] + g[s \ {Pick(s)}]]
           iter == CHOOSE g : Rec(g)
<1>1. PICK g : Sums(g, f, S)
  BY SumsExist
<1>2. Rec(g)
  BY <1>1 DEF Sums, Unfolds
<1>3. Rec(iter)
  BY <1>2
<1>4. SumFunction(f) = iter[S]
  <2>1. DOMAIN f = S
    OBVIOUS
  <2>. QED
    BY <2>1, Zenon DEF SumFunction, SumFunctionOnSet, FoldFunctionOnSet, MapThenFoldSet, Pick
<1>. HIDE DEF iter
<1>5. Unfolds(g, f, S)
  BY <1>1 DEF Sums
<1>6. Unfolds(iter, f, S)
  BY <1>3 DEF Unfolds
<1>7. iter[S] = g[S]
  <2>1. \A s \in SUBSET S : iter[s] = g[s]
    BY <1>5, <1>6, SumsAgree
  <2>. QED
    BY <2>1
<1>. QED
  BY <1>1, <1>4, <1>7

LEMMA SumType ==
    ASSUME NEW S, IsFiniteSet(S), NEW f \in [S -> Int]
    PROVE  SumFunction(f) \in Int
<1>1. PICK g : Sums(g, f, S) /\ SumFunction(f) = g[S]
  BY SumIs
<1>. QED
  BY <1>1 DEF Sums

\* One entry and the others.
OtherEntries(f, S, x) == [y \in S \ {x} |-> f[y]]
SplitsOff(f, S, x)  == SumFunction(f) = f[x] + SumFunction(OtherEntries(f, S, x))

LEMMA SumSplit ==
    ASSUME NEW S, IsFiniteSet(S), NEW f \in [S -> Int], NEW x \in S
    PROVE  /\ OtherEntries(f, S, x) \in [S \ {x} -> Int]
           /\ SplitsOff(f, S, x)
<1>. DEFINE R == S \ {x}
           e == [y \in R |-> f[y]]
<1>0. e = OtherEntries(f, S, x)
  BY DEF OtherEntries
<1>1. e \in [R -> Int] /\ IsFiniteSet(R) /\ R \in SUBSET S
  BY FS_Subset
<1>2. \A y \in R : e[y] = f[y]
  OBVIOUS
<1>. HIDE DEF e
<1>3. PICK g : Sums(g, f, S) /\ SumFunction(f) = g[S]
  BY SumIs
<1>. HIDE DEF R
<1>4. PICK h : Sums(h, e, R) /\ SumFunction(e) = h[R]
  BY <1>1, SumIs
<1>5. Unfolds(h, e, R)
  BY <1>4 DEF Sums
<1>6. Unfolds(g, f, R)
  BY <1>1, <1>3 DEF Sums, Unfolds
<1>7. \A s \in SUBSET R : g[s] = h[s]
  BY <1>1, <1>2, <1>5, <1>6, SumsAgree
<1>8. g[R] = h[R]
  BY <1>7
<1>9. g[S] = f[x] + g[R]
  BY <1>3, SumsPick DEF R
<1>10. SumFunction(f) = f[x] + SumFunction(e)
  BY <1>3, <1>4, <1>8, <1>9
<1>. QED
  BY <1>0, <1>1, <1>10 DEF R, SplitsOff

\* Sums add up entry by entry.
LEMMA SumAdds ==
    ASSUME NEW S, IsFiniteSet(S), NEW f \in [S -> Int], NEW e \in [S -> Int],
           NEW d \in [S -> Int], \A x \in S : d[x] = f[x] + e[x]
    PROVE  SumFunction(d) = SumFunction(f) + SumFunction(e)
<1>1. PICK g : Sums(g, f, S) /\ SumFunction(f) = g[S]
  BY SumIs
<1>2. PICK h : Sums(h, e, S) /\ SumFunction(e) = h[S]
  BY SumIs
<1>3. PICK k : Sums(k, d, S) /\ SumFunction(d) = k[S]
  BY SumIs
<1>. DEFINE bad == {s \in SUBSET S : k[s] # g[s] + h[s]}
<1>. SUFFICES ASSUME bad # {} PROVE FALSE
  BY <1>1, <1>2, <1>3
<1>4. PICK s \in bad : \A x \in s : s \ {x} \notin bad
  BY LeastPart
<1>5. s # {}
  <2>1. g[{}] = 0 /\ h[{}] = 0 /\ k[{}] = 0
    BY <1>1, <1>2, <1>3, SumsEmpty
  <2>2. k[s] # g[s] + h[s]
    OBVIOUS
  <2>. HIDE DEF bad
  <2>3. k[{}] = g[{}] + h[{}]
    BY <2>1
  <2>. QED
    BY <2>2, <2>3, Zenon
<1>. DEFINE p == Pick(s)
           r == s \ {p}
<1>6. p \in s /\ p \in S
  BY <1>5 DEF Pick
<1>7. k[r] = g[r] + h[r]
  BY <1>4, <1>6
<1>8. g[s] = f[p] + g[r]
  BY <1>1, <1>5 DEF Sums, Unfolds
<1>9. h[s] = e[p] + h[r]
  BY <1>2, <1>5 DEF Sums, Unfolds
<1>10. k[s] = d[p] + k[r]
  BY <1>3, <1>5 DEF Sums, Unfolds
<1>11. g[r] \in Int /\ h[r] \in Int
  BY <1>1, <1>2 DEF Sums
<1>12. f[p] \in Int /\ e[p] \in Int /\ d[p] = f[p] + e[p]
  BY <1>6
<1>13. k[s] # g[s] + h[s]
  BY <1>4
<1>. HIDE DEF p, r, bad
<1>. QED
  BY <1>7, <1>8, <1>9, <1>10, <1>11, <1>12, <1>13

\* A sum is no more than one of entries no less.
LEMMA SumGrows ==
    ASSUME NEW S, IsFiniteSet(S), NEW f \in [S -> Int], NEW e \in [S -> Int],
           \A x \in S : f[x] <= e[x]
    PROVE  SumFunction(f) <= SumFunction(e)
<1>1. PICK g : Sums(g, f, S) /\ SumFunction(f) = g[S]
  BY SumIs
<1>2. PICK h : Sums(h, e, S) /\ SumFunction(e) = h[S]
  BY SumIs
<1>. DEFINE bad == {s \in SUBSET S : ~(g[s] <= h[s])}
<1>. SUFFICES ASSUME bad # {} PROVE FALSE
  BY <1>1, <1>2
<1>4. PICK s \in bad : \A x \in s : s \ {x} \notin bad
  BY LeastPart
<1>5. s # {}
  <2>1. g[{}] = 0 /\ h[{}] = 0
    BY <1>1, <1>2, SumsEmpty
  <2>2. ~(g[s] <= h[s])
    OBVIOUS
  <2>. QED
    BY <2>1, <2>2
<1>. DEFINE p == Pick(s)
           r == s \ {p}
<1>6. p \in s /\ p \in S
  BY <1>5 DEF Pick
<1>7. g[r] <= h[r]
  BY <1>4, <1>6
<1>8. g[s] = f[p] + g[r]
  BY <1>1, <1>5 DEF Sums, Unfolds
<1>9. h[s] = e[p] + h[r]
  BY <1>2, <1>5 DEF Sums, Unfolds
<1>11. g[r] \in Int /\ h[r] \in Int
  BY <1>1, <1>2 DEF Sums
<1>12. f[p] \in Int /\ e[p] \in Int /\ f[p] <= e[p]
  BY <1>6
<1>13. ~(g[s] <= h[s])
  BY <1>4
<1>. HIDE DEF p, r, bad
<1>. QED
  BY <1>7, <1>8, <1>9, <1>11, <1>12, <1>13

\* One entry more or less changes the sum by as much.
LEMMA SumChanges ==
    ASSUME NEW S, IsFiniteSet(S), NEW f \in [S -> Int], NEW e \in [S -> Int], NEW x \in S,
           \A y \in S \ {x} : e[y] = f[y]
    PROVE  SumFunction(e) = SumFunction(f) - f[x] + e[x]
<1>1. OtherEntries(f, S, x) = OtherEntries(e, S, x)
  BY DEF OtherEntries
<1>2. /\ IsFiniteSet(S \ {x})
      /\ OtherEntries(f, S, x) \in [S \ {x} -> Int] /\ OtherEntries(e, S, x) \in [S \ {x} -> Int]
  BY FS_Subset, SumSplit
<1>3. /\ SumFunction(OtherEntries(f, S, x)) \in Int /\ SumFunction(OtherEntries(e, S, x)) \in Int
      /\ SumFunction(f) \in Int /\ SumFunction(e) \in Int
  BY <1>2, SumType
<1>4. SplitsOff(f, S, x) /\ SplitsOff(e, S, x)
  BY SumSplit
<1>6. f[x] \in Int /\ e[x] \in Int
  OBVIOUS
<1>. QED
  BY <1>1, <1>3, <1>4, <1>6 DEF SplitsOff

LEMMA OwnDouble == ASSUME NEW a \in Int, a = a + a PROVE a = 0
OBVIOUS

LEMMA SumZero ==
    ASSUME NEW S, IsFiniteSet(S), NEW f \in [S -> Int], \A x \in S : f[x] = 0
    PROVE  SumFunction(f) = 0
<1>. DEFINE total == SumFunction(f)
<1>1. total = total + total
  BY SumAdds
<1>2. total \in Int
  BY SumType
<1>. HIDE DEF total
<1>3. total = 0
  BY <1>1, <1>2, OwnDouble
<1>. QED
  BY <1>3 DEF total

-----------------------------------------------------------------------------
(* Sums and amounts over the names.                                        *)

LEMMA NamesFinite == IsFiniteSet(Names)
BY NAssumption, FS_Interval DEF Names

LEMMA TotalType == ASSUME NEW f \in [Names -> Int] PROVE Total(f) \in Int
BY NamesFinite, SumType DEF Total

LEMMA ProductType ==
    ASSUME NEW a \in Nat, NEW b \in Nat
    PROVE  a * b \in Nat
OBVIOUS

LEMMA IntProduct ==
    ASSUME NEW a \in Int, NEW b \in Int
    PROVE  a * b \in Int
OBVIOUS

LEMMA QuotientType ==
    ASSUME NEW a \in Int, NEW b \in Int, b > 0
    PROVE  a \div b \in Int
OBVIOUS

LEMMA QuotientFits ==
    ASSUME NEW a \in Int, NEW b \in Int, b > 0
    PROVE  a \div b \in Int /\ (a \div b) * b <= a
OBVIOUS

LEMMA Distributes ==
    ASSUME NEW a \in Int, NEW b \in Int, NEW c \in Int
    PROVE  /\ a * (b + c) = a * b + a * c
           /\ (a + b) * c = a * c + b * c
OBVIOUS

LEMMA PctType == ASSUME NEW pct \in Int, NEW x \in Int PROVE PctOf(pct, x) \in Int
<1>1. pct * x \in Int
  BY IntProduct
<1>. QED
  BY <1>1, QuotientType DEF PctOf

LEMMA BoundType ==
    ASSUME NEW a \in Int, NEW b \in Int
    PROVE  /\ Lesser(a, b) \in Int /\ Lesser(a, b) <= a /\ Lesser(a, b) <= b
           /\ AtLeastZero(a) \in Nat
BY DEF Lesser, AtLeastZero

LEMMA SlipType ==
    ASSUME NEW px \in Nat, px = 0 \/ px >= 20
    PROVE  /\ BuyFill(px) \in Nat /\ SellFill(px) \in Nat
           /\ px # 0 => BuyFill(px) > 0
BY DEF BuyFill, SellFill, Slip

LEMMA ChargeType ==
    ASSUME NEW n \in Int
    PROVE  RoundTripBuy(n) \in Int /\ RoundTripSell(n) \in Int
BY DEF RoundTripBuy, RoundTripSell

-----------------------------------------------------------------------------
\* A name is one of its own sector, so the sector cap is shared by somebody.
LEMMA SectorSizeType == ASSUME NEW sym \in Names PROVE SectorSize(sym) \in Nat \ {0}
<1>. DEFINE peers == {x \in Names : Sector[x] = Sector[sym]}
<1>1. IsFiniteSet(Names)
  BY NAssumption, FS_Interval DEF Names
<1>2. peers \in SUBSET Names /\ peers # {}
  OBVIOUS
<1>3. IsFiniteSet(peers)
  BY <1>1, <1>2, FS_Subset
<1>4. Cardinality(peers) \in Nat /\ Cardinality(peers) # 0
  BY <1>2, <1>3, FS_CardinalityType, FS_EmptySet
<1>. QED
  BY <1>4 DEF SectorSize

LEMMA PerNameType == ASSUME NEW pct \in Int, NEW sym \in Names PROVE PerName(pct, sym) \in Int
<1>1. Bp * pct \in Int /\ N \in Int /\ N > 0
  BY NAssumption DEF Bp
<1>2. (Bp * pct) \div N \in Int
  BY <1>1, QuotientType
<1>3. SectorSize(sym) \in Int /\ SectorSize(sym) > 0
  BY SectorSizeType
<1>4. (Bp * SectorCap) \div SectorSize(sym) \in Int
  BY <1>3, QuotientType DEF Bp, SectorCap
<1>. HIDE DEF Bp, SectorCap, SectorSize
<1>5. Bp * NameCap \in Int
  BY DEF Bp, NameCap
<1>6. Lesser((Bp * pct) \div N, Bp * NameCap) \in Int
  BY <1>2, <1>5, BoundType
<1>. QED
  BY <1>4, <1>6, BoundType DEF PerName

LEMMA TargetsType == ASSUME NEW pct \in Int PROVE Targets(pct) \in [Names -> Int]
<1>. DEFINE raw == [x \in Names |-> PerName(pct, x)]
            total == Total(raw)
<1>1. raw \in [Names -> Int]
  BY PerNameType
<1>2. total \in Int
  BY <1>1, TotalType
<1>. HIDE DEF raw, total
<1>3. ASSUME total > Bp * GrossCap, NEW x \in Names
      PROVE  (raw[x] * Bp * GrossCap) \div total \in Int
  <2>1. raw[x] * Bp * GrossCap \in Int
    BY <1>1 DEF Bp, GrossCap
  <2>2. total > 0
    BY <1>2, <1>3 DEF Bp, GrossCap
  <2>. QED
    BY <1>2, <2>1, <2>2, QuotientType
<1>. QED
  BY <1>1, <1>3 DEF Targets, raw, total

LEMMA DriftType ==
    ASSUME NEW targets \in [Names -> Int], NEW held \in [Names -> Int], NEW equity \in Int
    PROVE  Drift(targets, held, equity) \in [Names -> Int]
<1>1. ASSUME NEW x \in Names
      PROVE  held[x] - (equity * targets[x]) \div (100 * Bp) \in Int
  <2>1. equity * targets[x] \in Int
    BY IntProduct
  <2>2. (equity * targets[x]) \div (100 * Bp) \in Int
    BY <2>1, QuotientType DEF Bp
  <2>. QED
    BY <2>2
<1>. QED
  BY <1>1 DEF Drift

LEMMA RoomType ==
    ASSUME NEW s \in Snapshots, NEW x \in Names
    PROVE  RailRoom(s, x) \in Int /\ Room(s, x) \in Int /\ TurnoverRoom(s) \in Int
<1>1. /\ s.equity \in Int /\ s.cash \in Int /\ s.held[x] \in Int /\ s.dayBuys \in Int
  BY DEF Snapshots
<1>2. /\ PctOf(NameCap, s.equity) \in Int /\ PctOf(GrossCap, s.equity) \in Int
      /\ PctOf(CashBuffer, s.equity) \in Int /\ PctOf(SectorCap, s.equity) \in Int
      /\ PctOf(TurnoverCapDay, s.equity) \in Int /\ PctOf(CashSlice, s.cash) \in Int
  <2>1. /\ NameCap \in Int /\ GrossCap \in Int /\ CashBuffer \in Int
        /\ SectorCap \in Int /\ TurnoverCapDay \in Int /\ CashSlice \in Int
    BY DEF NameCap, GrossCap, CashBuffer, SectorCap, TurnoverCapDay, CashSlice
  <2>. QED
    BY <1>1, <2>1, PctType
<1>3. Gross(s) \in Int /\ SectorHeld(s, x) \in Int
  <2>1. s.held \in [Names -> Int]
    BY DEF Snapshots
  <2>2. [y \in Names |-> IF Sector[y] = Sector[x] THEN s.held[y] ELSE 0] \in [Names -> Int]
    BY <2>1
  <2>. QED
    BY <2>1, <2>2, TotalType DEF Gross, SectorHeld
<1>4. \A a, b \in Int : a - b \in Int /\ Lesser(a, b) \in Int /\ AtLeastZero(a) \in Int
  BY DEF Lesser, AtLeastZero
<1>5. AtLeastZero(PctOf(TurnoverCapDay, s.equity) - s.dayBuys) \in Int
  BY <1>1, <1>2, <1>4
<1>6. TurnoverRoom(s) \in Int
  BY <1>5 DEF TurnoverRoom
<1>. DEFINE name   == PctOf(NameCap, s.equity) - s.held[x]
            gross  == PctOf(GrossCap, s.equity) - Gross(s)
            buffer == s.cash - PctOf(CashBuffer, s.equity)
            sector == PctOf(SectorCap, s.equity) - SectorHeld(s, x)
<1>7. name \in Int /\ gross \in Int /\ buffer \in Int /\ sector \in Int
  BY <1>1, <1>2, <1>3, <1>4
<1>. HIDE DEF name, gross, buffer, sector
<1>8. Lesser(sector, TurnoverRoom(s)) \in Int
  BY <1>4, <1>6, <1>7
<1>9. Lesser(buffer, Lesser(sector, TurnoverRoom(s))) \in Int
  BY <1>4, <1>7, <1>8
<1>10. Lesser(gross, Lesser(buffer, Lesser(sector, TurnoverRoom(s)))) \in Int
  BY <1>4, <1>7, <1>9
<1>11. AtLeastZero(Lesser(name, Lesser(gross, Lesser(buffer, Lesser(sector, TurnoverRoom(s)))))) \in Int
  BY <1>4, <1>7, <1>10
<1>12. RailRoom(s, x) \in Int
  BY <1>11 DEF RailRoom, name, gross, buffer, sector
<1>13. Room(s, x) \in Int
  BY <1>2, <1>4, <1>12 DEF Room
<1>. QED
  BY <1>6, <1>12, <1>13

-----------------------------------------------------------------------------
(* Types.                                                                  *)

LEMMA MarkType ==
    ASSUME NEW m \in MarksType, NEW x \in Names
    PROVE  m[x] \in Nat /\ (m[x] = 0 \/ m[x] >= 20)
BY PriceAssumption DEF MarksType

LEMMA PolicyType ==
    ASSUME StatementTyped
    PROVE  /\ ips.id \in Ids /\ ips.core \in Nat /\ ips.sat \in Nat
           /\ ips.maxdd \in Nat /\ ips.fold \in BOOLEAN
<1>1. /\ Unbound.core \in Nat /\ Unbound.sat \in Nat
      /\ Unbound.maxdd \in Nat /\ Unbound.fold \in BOOLEAN
  BY DEF Unbound
<1>2. \A p \in Policies : /\ p.core \in Nat /\ p.sat \in Nat
                          /\ p.maxdd \in Nat /\ p.fold \in BOOLEAN
  BY PolicyAssumption DEF Statements
<1>3. \A p \in Policies \cup {Unbound} : p.id \in Ids
  BY DEF Ids
<1>4. ips \in Policies \/ ips = Unbound
  BY DEF StatementTyped
<1>5. ips.id \in Ids
  BY <1>3, <1>4
<1>6. CASE ips \in Policies
  BY <1>2, <1>5, <1>6
<1>7. CASE ips = Unbound
  BY <1>1, <1>5, <1>7
<1>. QED
  BY <1>4, <1>6, <1>7

LEMMA ValueType ==
    ASSUME BookTyped
    PROVE  /\ Equity \in Int
           /\ \A p \in [Names -> PositionType] : EquityOf(p) \in Int
<1>1. ASSUME NEW p \in [Names -> PositionType] PROVE EquityOf(p) \in Int
  <2>1. [x \in Names |-> p[x].mv] \in [Names -> Int]
    BY DEF PositionType
  <2>. QED
    BY <2>1, TotalType DEF BookTyped, EquityOf
<1>. QED
  BY <1>1 DEF BookTyped, Equity

\* The sleeves at any marks, name by name and in all.
SatHeld(marks) == [x \in Names |-> sat[x].qty * (IF marks[x] = 0 THEN sat[x].entry ELSE marks[x])]

LEMMA SleeveType ==
    ASSUME BookTyped, NEW marks \in MarksType
    PROVE  /\ CoreHeld(marks) \in [Names -> Int] /\ SatHeld(marks) \in [Names -> Int]
           /\ CoreValue(marks) \in Int /\ SatValue(marks) \in Int
           /\ SatValue(marks) = Total(SatHeld(marks))
<1>1. ASSUME NEW x \in Names
      PROVE  /\ coreQty[x] * marks[x] \in Int
             /\ sat[x].qty * (IF marks[x] = 0 THEN sat[x].entry ELSE marks[x]) \in Int
  <2>1. /\ coreQty[x] \in Int /\ sat[x].qty \in Int /\ sat[x].entry \in Int
        /\ marks[x] \in Int
    BY MarkType DEF BookTyped, TradeType
  <2>. QED
    BY <2>1, IntProduct
<1>2. CoreHeld(marks) \in [Names -> Int] /\ SatHeld(marks) \in [Names -> Int]
  BY <1>1 DEF CoreHeld, SatHeld
<1>3. SatValue(marks) = Total(SatHeld(marks))
  BY DEF SatValue, SatHeld
<1>. QED
  BY <1>2, <1>3, TotalType DEF CoreValue

LEMMA SnapshotType ==
    ASSUME BookTyped, StatementTyped
    PROVE  Snapshot \in Snapshots /\ Snapshot.peak \in Int
<1>1. Equity \in Int
  BY ValueType
<1>2. Greater(peak, Equity) \in Int
  BY <1>1 DEF Greater, BookTyped
<1>3. [x \in Names |-> pos[x].mv] \in [Names -> Int]
  BY DEF BookTyped, PositionType
<1>4. cash \in Int /\ dayBuys \in Int /\ ips.maxdd \in Int
  BY PolicyType DEF BookTyped
<1>. QED
  BY <1>1, <1>2, <1>3, <1>4 DEF Snapshot, Snapshots

LEMMA NewTrackType == ASSUME NEW mv \in Int PROVE NewTrack(mv) \in TrackType
BY DEF NewTrack, TrackType

LEMMA TrackSetType ==
    ASSUME NEW track \in TrackType, NEW top \in Int, NEW low \in Int
    PROVE  [track EXCEPT !.peak = top, !.maxdd = low] \in TrackType
BY DEF TrackType

LEMMA TrackStepType ==
    ASSUME NEW track \in TrackType, NEW mv \in Int
    PROVE  MarkTrack(track, mv) \in TrackType /\ Pnl(track, mv) \in Int
<1>1. track.mv0 \in Int /\ track.flow \in Int /\ track.peak \in Int /\ track.maxdd \in Int
  BY DEF TrackType
<1>2. Pnl(track, mv) \in Int
  BY <1>1 DEF Pnl
<1>3. \A a, b \in Int : Greater(a, b) \in Int
  BY DEF Greater
<1>. DEFINE v == mv + track.flow
            top == Greater(track.peak, v)
            low == Greater(track.maxdd, top - v)
<1>4. v \in Int
  BY <1>1
<1>. HIDE DEF v
<1>5. top \in Int
  BY <1>1, <1>3, <1>4
<1>. HIDE DEF top
<1>6. top - v \in Int
  BY <1>4, <1>5
<1>7. low \in Int
  BY <1>1, <1>3, <1>6
<1>. HIDE DEF low
<1>8. [track EXCEPT !.peak = top, !.maxdd = low] \in TrackType
  BY <1>5, <1>7, TrackSetType
<1>. QED
  BY <1>2, <1>8 DEF MarkTrack, v, top, low

LEMMA OpenedType ==
    ASSUME BookTyped, StatementTyped, LedgerTyped, NEW marks \in MarksType, NEW date \in Nat, NEW equity \in Int
    PROVE  OpenedPeriod(marks, date, equity) \in PeriodType
<1>1. NewTrack(CoreValue(marks)) \in TrackType /\ NewTrack(SatValue(marks)) \in TrackType
  BY SleeveType, NewTrackType
<1>2. ips.id \in Ids
  BY PolicyType
<1>. QED
  BY <1>1, <1>2 DEF OpenedPeriod, PeriodType, LedgerTyped

LEMMA LedgerType ==
    ASSUME BookTyped, StatementTyped, LedgerTyped,
           NEW marks \in MarksType, NEW date \in Nat, NEW why \in {"rebalance", "ended"}
    PROVE  /\ NextPeriod(marks, date) \in PeriodType
           /\ BookedRows(marks, date, why) \in Seq(RowType)
<1>1. NextPeriod(marks, date) \in PeriodType
  BY OpenedType, ValueType DEF NextPeriod, LedgerTyped
<1>2. PeriodRow(marks, date, why) \in RowType
  <2>1. /\ period.core \in TrackType /\ period.sat \in TrackType
        /\ period.under \in Ids /\ period.from \in Nat
    BY DEF LedgerTyped, PeriodType
  <2>4. CoreValue(marks) \in Int /\ SatValue(marks) \in Int
    BY SleeveType
  <2>2. Pnl(period.core, CoreValue(marks)) + Pnl(period.sat, SatValue(marks)) \in Int
    <3>1. /\ Pnl(period.core, CoreValue(marks)) \in Int
          /\ Pnl(period.sat, SatValue(marks)) \in Int
      BY <2>1, <2>4, TrackStepType
    <3>. QED
      BY <3>1
  <2>3. ips.id \in Ids
    BY PolicyType
  <2>. QED
    BY <2>1, <2>2, <2>3 DEF PeriodRow, RowType
<1>. QED
  BY <1>1, <1>2 DEF BookedRows, LedgerTyped

LEMMA FlowType ==
    ASSUME LedgerTyped, NEW amount \in Int
    PROVE  CoreFlow(amount) \in PeriodType /\ SatFlow(amount) \in PeriodType
<1>1. period \in PeriodType /\ period.core \in TrackType /\ period.sat \in TrackType
  BY DEF LedgerTyped, PeriodType
<1>2. ASSUME NEW track \in TrackType PROVE [track EXCEPT !.flow = @ + amount] \in TrackType
  BY DEF TrackType
<1>3. \A track \in TrackType : [period EXCEPT !.core = track] \in PeriodType
  BY <1>1 DEF PeriodType
<1>4. \A track \in TrackType : [period EXCEPT !.sat = track] \in PeriodType
  BY <1>1 DEF PeriodType
<1>. QED
  BY <1>1, <1>2, <1>3, <1>4 DEF CoreFlow, SatFlow

LEMMA MarkedType ==
    ASSUME BookTyped, NEW marks \in MarksType
    PROVE  /\ Marked(marks) \in [Names -> PositionType]
           /\ \A x \in Names : Marked(marks)[x].qty = pos[x].qty
<1>1. ASSUME NEW x \in Names
      PROVE  [pos[x] EXCEPT !.mv = pos[x].qty * marks[x]] \in PositionType
  <2>1. pos[x] \in PositionType /\ pos[x].qty \in Nat
    BY DEF BookTyped, PositionType
  <2>2. pos[x].qty * marks[x] \in Nat
    BY <2>1, MarkType, ProductType
  <2>. QED
    BY <2>1, <2>2 DEF PositionType
<1>2. \A x \in Names : pos[x] \in PositionType
  BY DEF BookTyped
<1>. QED
  BY <1>1, <1>2 DEF Marked, PositionType

LEMMA QuotesType ==
    ASSUME NEW marks \in [Names -> Prices]
    PROVE  QuotesOf(marks) \in MarksType
BY DEF QuotesOf, MarksType
-----------------------------------------------------------------------------
(* Type correctness, one lemma per action.                                 *)

\* A part of the state keeps its type when its variables are left alone.
LEMMA Kept ==
    /\ MarketTyped /\ UNCHANGED market => MarketTyped'
    /\ StatementTyped /\ UNCHANGED policy => StatementTyped'
    /\ BookTyped /\ UNCHANGED <<book, dayKey>> => BookTyped'
    /\ LedgerTyped /\ UNCHANGED <<ledger, lastMarks>> => LedgerTyped'
    /\ DeskTyped /\ UNCHANGED <<camp, plan, used>> => DeskTyped'
    /\ TickersTyped /\ UNCHANGED ticks => TickersTyped'
    /\ FrameTyped /\ UNCHANGED ex => FrameTyped'
<1>1. MarketTyped /\ UNCHANGED market => MarketTyped'
  BY DEF MarketTyped, market
<1>2. StatementTyped /\ UNCHANGED policy => StatementTyped'
  BY DEF StatementTyped, policy
<1>3. BookTyped /\ UNCHANGED <<book, dayKey>> => BookTyped'
  BY DEF BookTyped, book
<1>4. LedgerTyped /\ UNCHANGED <<ledger, lastMarks>> => LedgerTyped'
  BY DEF LedgerTyped, ledger
<1>5. DeskTyped /\ UNCHANGED <<camp, plan, used>> => DeskTyped'
  BY DEF DeskTyped
<1>6. TickersTyped /\ UNCHANGED ticks => TickersTyped'
  BY DEF TickersTyped, ticks
<1>7. FrameTyped /\ UNCHANGED ex => FrameTyped'
  BY DEF FrameTyped
<1>. QED
  BY <1>1, <1>2, <1>3, <1>4, <1>5, <1>6, <1>7

LEMMA NoExecType == NoExec \in FrameType
<1>1. NoMarks \in MarksType /\ NoQuote \in QuoteType
  BY DEF NoMarks, NoQuote, MarksType, QuoteType
<1>2. EmptySnapshot \in Snapshots
  BY DEF EmptySnapshot, Snapshots
<1>3. NoMarks \in [Names -> Int] /\ NoTickets \in Seq(TicketType)
  BY DEF NoMarks, NoTickets
<1>. QED
  BY <1>1, <1>2, <1>3 DEF NoExec, FrameType, Phases

LEMMA NoPeriodType == NoPeriod \in PeriodType
BY DEF NoPeriod, PeriodType, NewTrack, TrackType, Ids

LEMMA InitType == Init => TypeOK
<1>. SUFFICES ASSUME Init PROVE TypeOK
  OBVIOUS
<1>1. NoMarks \in MarksType /\ NoQuote \in QuoteType
  BY DEF NoMarks, NoQuote, MarksType, QuoteType
<1>6. MarketTyped
  BY DEF Init, MarketTyped
<1>7. StatementTyped
  BY FirstAssumption DEF Init, StatementTyped
<1>8. BookTyped
  BY DEF Init, BookTyped, StartCash, Flat, NoTrade, PositionType, TradeType
<1>9. LedgerTyped
  BY <1>1, NoPeriodType DEF Init, LedgerTyped
<1>10. DeskTyped
  BY DEF Init, DeskTyped
<1>11. TickersTyped
  BY <1>1 DEF Init, TickersTyped
<1>12. FrameTyped
  BY NoExecType DEF Init, FrameTyped, NoExec, Loops
<1>. QED
  BY <1>6, <1>7, <1>8, <1>9, <1>10, <1>11, <1>12 DEF TypeOK

LEMMA ExchangeType == TypeOK /\ Exchange => TypeOK'
<1>. SUFFICES ASSUME TypeOK, Exchange PROVE TypeOK'
  OBVIOUS
<1>0. /\ MarketTyped /\ StatementTyped /\ BookTyped /\ LedgerTyped
      /\ DeskTyped /\ TickersTyped /\ FrameTyped
  BY DEF TypeOK
<1>1. CASE CloseMarket
  <2>1. MarketTyped'
    BY <1>0, <1>1 DEF CloseMarket, MarketTyped
  <2>. QED
    BY <1>0, <1>1, <2>1, Kept DEF CloseMarket, TypeOK
<1>2. CASE NextDay
  <2>1. MarketTyped'
    BY <1>0, <1>2 DEF NextDay, MarketTyped, Weekday
  <2>2. BookTyped'
    BY <1>0, <1>2 DEF NextDay, BookTyped
  <2>3. DeskTyped'
    BY <1>0, <1>2 DEF NextDay, DeskTyped
  <2>. QED
    BY <1>0, <1>2, <2>1, <2>2, <2>3, Kept DEF NextDay, TypeOK
<1>3. CASE CampaignEnds
  <2>1. DeskTyped'
    BY <1>0, <1>3 DEF CampaignEnds, DeskTyped
  <2>. QED
    BY <1>0, <1>3, <2>1, Kept DEF CampaignEnds, TypeOK
<1>4. CASE Horizon
  <2>1. UNCHANGED <<market, policy, book, dayKey, ledger, lastMarks, camp, plan, ticks, ex, used>>
    BY <1>4 DEF Horizon, vars
  <2>. QED
    BY <1>0, <2>1, Kept DEF TypeOK
<1>. QED
  BY <1>1, <1>2, <1>3, <1>4 DEF Exchange

LEMMA OperatorType == TypeOK /\ Operator => TypeOK'
<1>. SUFFICES ASSUME TypeOK, Operator PROVE TypeOK'
  OBVIOUS
<1>0. /\ MarketTyped /\ StatementTyped /\ BookTyped /\ LedgerTyped
      /\ DeskTyped /\ TickersTyped /\ FrameTyped
  BY DEF TypeOK
<1>1. CASE StartCampaign
  <2>1. StatementTyped'
    BY <1>0, <1>1 DEF StartCampaign, StatementTyped
  <2>2. BookTyped'
    BY <1>0, <1>1 DEF StartCampaign, FreshBook, BookTyped, StartCash, Flat, NoTrade,
                      PositionType, TradeType
  <2>4. LedgerTyped'
    BY <1>0, <1>1, NoPeriodType DEF StartCampaign, LedgerTyped
  <2>5. day + CampaignDays \in Nat
    BY <1>0, BoundAssumption DEF MarketTyped
  <2>6. camp' \in [active : BOOLEAN, auto : BOOLEAN, end : Nat, over : BOOLEAN]
    <3>1. camp' = [active |-> TRUE, auto |-> TRUE, end |-> day + CampaignDays, over |-> FALSE]
      BY <1>1 DEF StartCampaign
    <3>. QED
      BY <2>5, <3>1
  <2>7. used' \in [ticks : Nat, commands : Nat]
    BY <1>0, <1>1 DEF StartCampaign, Command, DeskTyped
  <2>8. DeskTyped'
    BY <1>0, <1>1, <2>6, <2>7 DEF StartCampaign, DeskTyped
  <2>. QED
    BY <1>0, <1>1, <2>1, <2>2, <2>4, <2>8, Kept DEF StartCampaign, TypeOK
<1>2. CASE \E on \in BOOLEAN : SetAutopilot(on)
  <2>1. DeskTyped'
    BY <1>0, <1>2 DEF SetAutopilot, Command, DeskTyped
  <2>. QED
    BY <1>0, <1>2, <2>1, Kept DEF SetAutopilot, TypeOK
<1>3. CASE \E p \in Policies : BindIPS(p)
  <2>0. PICK p \in Policies : BindIPS(p)
    BY <1>3
  <2>1. StatementTyped'
    <3>1. ips' = p /\ lastRebal' = 0 /\ pending' = FALSE
      BY <2>0 DEF BindIPS
    <3>. QED
      BY <3>1 DEF StatementTyped
  <2>2. DeskTyped'
    BY <1>0, <1>3 DEF BindIPS, Command, DeskTyped
  <2>. QED
    BY <1>0, <1>3, <2>1, <2>2, Kept DEF BindIPS, TypeOK
<1>4. CASE PreviewTargets
  <2>1. PICK marks \in [Names -> Prices] : pos' = Marked(QuotesOf(marks))
    BY <1>4 DEF PreviewTargets
  <2>2. pos' \in [Names -> PositionType]
    BY <1>0, <2>1, QuotesType, MarkedType
  <2>3. EquityOf(pos') \in Int
    BY <1>0, <2>2, ValueType
  <2>4. peak' \in Int
    BY <1>0, <1>4, <2>3 DEF PreviewTargets, Greater, BookTyped
  <2>5. BookTyped'
    BY <1>0, <1>4, <2>2, <2>4 DEF PreviewTargets, BookTyped
  <2>6. DeskTyped'
    BY <1>0, <1>4 DEF PreviewTargets, Command, DeskTyped
  <2>. QED
    BY <1>0, <1>4, <2>5, <2>6, Kept DEF PreviewTargets, TypeOK
<1>. QED
  BY <1>1, <1>2, <1>3, <1>4 DEF Operator

LEMMA TickType == ASSUME NEW t \in Tickers PROVE TypeOK /\ Tick(t) => TypeOK'
<1>. SUFFICES ASSUME TypeOK, Tick(t) PROVE TypeOK'
  OBVIOUS
<1>0. /\ MarketTyped /\ StatementTyped /\ BookTyped /\ LedgerTyped
      /\ DeskTyped /\ TickersTyped /\ FrameTyped
  BY DEF TypeOK
<1>1. CASE TickStart(t)
  <2>1. DeskTyped'
    BY <1>0, <1>1 DEF TickStart, DeskTyped
  <2>2. camp.auto \in BOOLEAN
    BY <1>0 DEF DeskTyped
  <2>3. TickersTyped'
    BY <1>0, <1>1, <2>2 DEF TickStart, TickersTyped
  <2>. QED
    BY <1>0, <1>1, <2>1, <2>3, Kept DEF TickStart, TypeOK
<1>2. CASE TickEnded(t)
  <2>2. BookedRows(lastMarks, day, "ended") \in Seq(RowType)
    BY <1>0, LedgerType DEF MarketTyped, LedgerTyped
  <2>3. LedgerTyped'
    BY <1>0, <1>2, <2>2, NoPeriodType DEF TickEnded, LedgerTyped
  <2>. QED
    BY <1>0, <1>2, <2>3, Kept DEF TickEnded, TypeOK
<1>3. CASE Plan(t)
  <2>1. PICK sig \in Views, tilt \in Tilts, roster \in Rosters :
           plan' = [sig |-> sig, tilt |-> IF roster THEN tilt ELSE 100, roster |-> roster]
    BY <1>3 DEF Plan
  <2>2. sig \in [Names -> 0..100] /\ tilt \in 75..100 /\ roster \in BOOLEAN
    BY PlanAssumption
  <2>3. (IF roster THEN tilt ELSE 100) \in 75..100
    BY <2>2
  <2>4. plan' \in [sig : [Names -> 0..100], tilt : 75..100, roster : BOOLEAN]
    BY <2>1, <2>2, <2>3
  <2>5. DeskTyped'
    BY <1>0, <1>3, <2>4 DEF Plan, DeskTyped
  <2>6. TickersTyped'
    BY <1>0, <1>3 DEF Plan, TickersTyped
  <2>. QED
    BY <1>0, <1>3, <2>5, <2>6, Kept DEF Plan, TypeOK
<1>4. CASE Check(t)
  <2>1. TickersTyped'
    BY <1>0, <1>4 DEF Check, TickersTyped
  <2>. QED
    BY <1>0, <1>4, <2>1, Kept DEF Check, TypeOK
<1>5. CASE GetQuotes(t)
  <2>1. ASSUME NEW marks \in [Names -> Prices], NEW done \in BOOLEAN
        PROVE  [last |-> QuotesOf(marks), day |-> day, open |-> open, done |-> done] \in QuoteType
    <3>1. QuotesOf(marks) \in MarksType
      BY QuotesType
    <3>. QED
      BY <1>0, <3>1 DEF MarketTyped, QuoteType
  <2>2. quote' \in [Tickers -> QuoteType]
    BY <1>0, <1>5, <2>1 DEF GetQuotes, TickersTyped
  <2>3. TickersTyped'
    BY <1>0, <1>5, <2>2 DEF GetQuotes, TickersTyped
  <2>. QED
    BY <1>0, <1>5, <2>3, Kept DEF GetQuotes, TypeOK
<1>6. CASE Lock(t)
  <2>. DEFINE q == quote[t]
  <2>1. q \in QuoteType /\ q.last \in MarksType /\ q.day \in Nat
    BY <1>0 DEF TickersTyped, QuoteType
  <2>. HIDE DEF q
  <2>2. /\ pos' = Marked(q.last) /\ dayKey' = q.day
        /\ dayBuys' = (IF q.day = dayKey THEN dayBuys ELSE 0)
        /\ lastMarks' = q.last
        /\ period' = IF period = NoPeriod
                     THEN OpenedPeriod(q.last, q.day, EquityOf(Marked(q.last))) ELSE period
        /\ ex' = [NoExec EXCEPT !.phase = "exits", !.i = 1, !.quote = q]
    BY <1>6 DEF Lock, RollSession, q
  <2>3. BookTyped'
    BY <1>0, <1>6, <2>1, <2>2, MarkedType DEF Lock, BookTyped
  <2>4. OpenedPeriod(q.last, q.day, EquityOf(Marked(q.last))) \in PeriodType
    <3>1. EquityOf(Marked(q.last)) \in Int
      BY <1>0, <2>1, MarkedType, ValueType
    <3>. QED
      BY <1>0, <2>1, <3>1, OpenedType
  <2>5. LedgerTyped'
    BY <1>0, <1>6, <2>1, <2>2, <2>4 DEF Lock, LedgerTyped
  <2>6. NoMarks \in MarksType
    BY DEF NoMarks, MarksType
  <2>7. TickersTyped'
    BY <1>0, <1>6, <2>6 DEF Lock, TickersTyped, NoQuote, QuoteType
  <2>8. NoExec \in FrameType
    BY NoExecType
  <2>9. ex' \in FrameType /\ ex'.i = 1
    BY <2>1, <2>2, <2>8 DEF FrameType, Phases
  <2>10. FrameTyped'
    BY <2>9 DEF FrameTyped
  <2>. QED
    BY <1>0, <1>6, <2>3, <2>5, <2>7, <2>10, Kept DEF Lock, TypeOK
<1>. QED
  BY <1>1, <1>2, <1>3, <1>4, <1>5, <1>6 DEF Tick

\* The fields of the frame, and the quotes a tick executes at.
LEMMA FrameFields ==
    ASSUME FrameTyped
    PROVE  /\ ex.i \in Nat /\ ex.phase \in Phases /\ ex.complete \in BOOLEAN
           /\ ex.drift \in [Names -> Int] /\ ex.snap \in Snapshots
           /\ ex.tickets \in Seq(TicketType)
           /\ last \in MarksType /\ today \in Nat
           /\ ex.phase \in Loops => ex.i >= 1
<1>1. ex.quote \in QuoteType
  BY DEF FrameTyped, FrameType
<1>. QED
  BY <1>1 DEF FrameTyped, FrameType, QuoteType, last, today

LEMMA GotoType ==
    ASSUME FrameTyped, NEW phase \in Phases, NEW i \in Nat, phase \in Loops => i >= 1,
           Goto(phase, i)
    PROVE  FrameTyped'
<1>1. ex' = [ex EXCEPT !.phase = phase, !.i = i]
  BY DEF Goto
<1>2. ex' \in FrameType
  BY <1>1 DEF FrameTyped, FrameType
<1>3. ex'.phase = phase /\ ex'.i = i
  BY <1>1 DEF FrameTyped, FrameType
<1>. QED
  BY <1>2, <1>3 DEF FrameTyped

LEMMA StepType ==
    ASSUME FrameTyped
    PROVE  /\ Skipped \/ Deferred => FrameTyped'
           /\ \A t \in TicketType, s \in Snapshots, whole \in BOOLEAN :
                 Planned(t, s, whole) => FrameTyped'
<1>1. ex.i + 1 \in Nat /\ ex.i + 1 >= 1
  BY FrameFields
<1>2. ASSUME Skipped PROVE FrameTyped'
  <2>1. ex' = [ex EXCEPT !.i = ex.i + 1]
    BY <1>2 DEF Skipped
  <2>2. ex' \in FrameType /\ ex'.i = ex.i + 1
    BY <1>1, <2>1 DEF FrameTyped, FrameType
  <2>. QED
    BY <1>1, <2>2 DEF FrameTyped
<1>3. ASSUME Deferred PROVE FrameTyped'
  <2>1. ex' = [ex EXCEPT !.i = ex.i + 1, !.complete = FALSE]
    BY <1>3 DEF Deferred
  <2>2. ex' \in FrameType /\ ex'.i = ex.i + 1
    BY <1>1, <2>1 DEF FrameTyped, FrameType
  <2>. QED
    BY <1>1, <2>2 DEF FrameTyped
<1>4. ASSUME NEW t \in TicketType, NEW s \in Snapshots, NEW whole \in BOOLEAN,
             Planned(t, s, whole)
      PROVE  FrameTyped'
  <2>1. Append(ex.tickets, t) \in Seq(TicketType)
    BY FrameFields
  <2>2. (ex.complete /\ whole) \in BOOLEAN
    OBVIOUS
  <2>3. ex' = [ex EXCEPT !.i = ex.i + 1, !.tickets = Append(ex.tickets, t), !.snap = s,
                         !.complete = ex.complete /\ whole]
    BY <1>4 DEF Planned
  <2>4. ex' \in FrameType /\ ex'.i = ex.i + 1
    BY <1>1, <2>1, <2>2, <2>3 DEF FrameTyped, FrameType
  <2>. QED
    BY <1>1, <2>4 DEF FrameTyped
<1>. QED
  BY <1>2, <1>3, <1>4

LEMMA HeldType ==
    ASSUME FrameTyped, NEW x \in Names, NEW qty \in Int
    PROVE  Held(x, qty) \in PositionType
<1>1. last[x] \in Nat
  BY FrameFields, MarkType
<1>2. CASE qty <= 0
  BY <1>2 DEF Held, Flat, PositionType
<1>3. CASE qty > 0
  <2>1. qty \in Nat
    BY <1>3
  <2>2. qty * last[x] \in Nat
    BY <1>1, <2>1, ProductType
  <2>. QED
    BY <1>3, <2>1, <2>2 DEF Held, PositionType
<1>. QED
  BY <1>2, <1>3

LEMMA CoreDriftType ==
    ASSUME BookTyped, StatementTyped, FrameTyped
    PROVE  CoreDrift \in [Names -> Int]
<1>1. Wanted \in Int
  <2>1. ips.core \in Nat /\ ips.sat \in Nat
    BY PolicyType
  <2>. QED
    BY <2>1 DEF Wanted
<1>2. Targets(Wanted) \in [Names -> Int]
  BY <1>1, TargetsType
<1>3. ASSUME NEW x \in Names PROVE coreQty[x] * last[x] \in Int
  <2>1. coreQty[x] \in Nat /\ last[x] \in Nat
    BY FrameFields, MarkType DEF BookTyped
  <2>. QED
    BY <2>1, ProductType
<1>4. CoreHeld(last) \in [Names -> Int]
  BY <1>3 DEF CoreHeld
<1>5. Equity \in Int
  BY ValueType
<1>. QED
  BY <1>2, <1>4, <1>5, DriftType DEF CoreDrift

LEMMA ExitTradeType == TypeOK /\ ExitTrade => TypeOK'
<1>. SUFFICES ASSUME TypeOK, ExitTrade PROVE TypeOK'
  OBVIOUS
<1>0. /\ MarketTyped /\ StatementTyped /\ BookTyped /\ LedgerTyped
      /\ DeskTyped /\ TickersTyped /\ FrameTyped
  BY DEF TypeOK
<1>. DEFINE x == ex.i
<1>1. x \in Names
  <2>1. x \in Nat /\ x >= 1 /\ x <= N
    BY <1>0, FrameFields DEF ExitTrade, Loops
  <2>. QED
    BY <2>1, NAssumption DEF Names
<1>2. ASSUME CloseTrade(x) PROVE BookTyped' /\ LedgerTyped'
  <2>1. /\ sat[x].qty \in Nat /\ pos[x].qty \in Nat
    BY <1>0, <1>1 DEF BookTyped, TradeType, PositionType
  <2>2. last[x] \in Nat /\ SellFill(last[x]) \in Nat
    BY <1>0, <1>1, FrameFields, MarkType, SlipType
  <2>. DEFINE proceeds == sat[x].qty * SellFill(last[x])
              net == proceeds - RoundTripSell(proceeds)
              left == pos[x].qty - sat[x].qty
  <2>3. proceeds \in Int /\ left \in Int
    BY <2>1, <2>2, ProductType
  <2>4. RoundTripSell(proceeds) \in Int
    BY <2>3, ChargeType
  <2>5. net \in Int
    BY <2>3, <2>4
  <2>6. /\ cash' = cash + net /\ period' = SatFlow(net)
        /\ pos' = [pos EXCEPT ![x] = Held(x, left)]
        /\ sat' = [sat EXCEPT ![x] = NoTrade]
    BY <1>2 DEF CloseTrade, Held
  <2>. HIDE DEF x, proceeds, left, net
  <2>7. Held(x, left) \in PositionType
    BY <1>0, <1>1, <2>3, HeldType
  <2>8. NoTrade \in TradeType
    BY DEF NoTrade, TradeType
  <2>9. pos' \in [Names -> PositionType] /\ sat' \in [Names -> TradeType]
    BY <1>0, <2>6, <2>7, <2>8 DEF BookTyped
  <2>10. BookTyped'
    BY <1>0, <2>5, <2>6, <2>9 DEF ExitTrade, BookTyped
  <2>11. LedgerTyped'
    BY <1>0, <2>5, <2>6, FlowType DEF ExitTrade, LedgerTyped
  <2>. QED
    BY <2>10, <2>11
<1>3. ASSUME UNCHANGED <<cash, period, pos, sat>> PROVE BookTyped' /\ LedgerTyped'
  BY <1>0, <1>3 DEF ExitTrade, BookTyped, LedgerTyped
<1>4. BookTyped' /\ LedgerTyped'
  BY <1>2, <1>3 DEF ExitTrade
<1>5. CASE ex.i = N
  <2>1. Goto("core", 0)
    BY <1>5 DEF ExitTrade
  <2>2. FrameTyped'
    BY <1>0, <2>1, GotoType DEF Phases, Loops
  <2>. QED
    BY <1>0, <1>4, <2>2, Kept DEF ExitTrade, TypeOK
<1>6. CASE ex.i # N
  <2>1. Goto("exits", ex.i + 1)
    BY <1>6 DEF ExitTrade
  <2>2. ex.i + 1 \in Nat /\ ex.i + 1 >= 1 /\ "exits" \in Phases
    BY <1>0, FrameFields DEF Phases
  <2>3. FrameTyped'
    BY <1>0, <2>1, <2>2, GotoType
  <2>. QED
    BY <1>0, <1>4, <2>3, Kept DEF ExitTrade, TypeOK
<1>. QED
  BY <1>5, <1>6

LEMMA CoreSessionType == TypeOK /\ CoreSession => TypeOK'
<1>. SUFFICES ASSUME TypeOK, CoreSession PROVE TypeOK'
  OBVIOUS
<1>0. /\ MarketTyped /\ StatementTyped /\ BookTyped /\ LedgerTyped
      /\ DeskTyped /\ TickersTyped /\ FrameTyped
  BY DEF TypeOK
<1>1. Snapshot \in Snapshots /\ Snapshot.peak \in Int
  BY <1>0, SnapshotType
<1>2. BookTyped'
  BY <1>0, <1>1 DEF CoreSession, BookTyped
<1>3. LedgerTyped'
  <2>1. /\ BookedRows(last, today, "rebalance") \in Seq(RowType)
        /\ NextPeriod(last, today) \in PeriodType
    BY <1>0, FrameFields, LedgerType
  <2>. QED
    BY <1>0, <2>1 DEF CoreSession, LedgerTyped
<1>4. FrameTyped'
  <2>1. CASE Goto("satellite", 0)
    BY <1>0, <2>1, GotoType DEF Phases, Loops
  <2>2. CASE ex' = [ex EXCEPT !.phase = "sells", !.i = 1, !.drift = CoreDrift, !.snap = Snapshot]
    <3>1. CoreDrift \in [Names -> Int]
      BY <1>0, CoreDriftType
    <3>2. ex' \in FrameType /\ ex'.i = 1
      BY <1>0, <1>1, <2>2, <3>1 DEF FrameTyped, FrameType, Phases
    <3>. QED
      BY <3>2 DEF FrameTyped
  <2>. QED
    BY <2>1, <2>2 DEF CoreSession
<1>. QED
  BY <1>0, <1>2, <1>3, <1>4, Kept DEF CoreSession, TypeOK

\* The index of a running loop that has not reached its end is a name's.
LEMMA LoopName ==
    ASSUME FrameTyped, ex.phase \in Loops, ex.i <= N
    PROVE  ex.i \in Names
<1>1. ex.i \in Nat /\ ex.i >= 1
  BY FrameFields
<1>. QED
  BY <1>1, NAssumption DEF Names

LEMMA TicketTyped ==
    ASSUME NEW x \in Names, NEW side \in {"BUY", "SELL"}, NEW qty \in Nat, NEW price \in Nat
    PROVE  /\ Ticket(x, side, qty, price) \in TicketType
           /\ Notional(Ticket(x, side, qty, price)) \in Nat
BY ProductType DEF Ticket, TicketType, Notional

\* What the simulated snapshot looks like after a buy, and after a sale.
LEMMA AfterBuyType ==
    ASSUME NEW s \in Snapshots, NEW x \in Names, NEW notional \in Int
    PROVE  AfterBuy(s, x, notional) \in Snapshots
<1>1. s.cash \in Int /\ s.dayBuys \in Int /\ s.held \in [Names -> Int]
  BY DEF Snapshots
<1>2. /\ s.cash - notional \in Int /\ s.dayBuys + notional \in Int
      /\ s.held[x] + notional \in Int
  BY <1>1
<1>3. [s.held EXCEPT ![x] = s.held[x] + notional] \in [Names -> Int]
  BY <1>1, <1>2
<1>. QED
  BY <1>2, <1>3 DEF AfterBuy, Snapshots

LEMMA AfterSellType ==
    ASSUME NEW s \in Snapshots, NEW x \in Names, NEW proceeds \in Int, NEW mv \in Int
    PROVE  AfterSell(s, x, proceeds, mv) \in Snapshots
<1>1. s.cash \in Int /\ s.held \in [Names -> Int]
  BY DEF Snapshots
<1>2. s.cash + proceeds \in Int /\ s.held[x] - mv \in Int
  BY <1>1
<1>3. [s.held EXCEPT ![x] = s.held[x] - mv] \in [Names -> Int]
  BY <1>1, <1>2
<1>. QED
  BY <1>2, <1>3 DEF AfterSell, Snapshots

LEMMA PlanSellType == TypeOK /\ PlanSell => TypeOK'
<1>. SUFFICES ASSUME TypeOK, PlanSell PROVE TypeOK'
  OBVIOUS
<1>0. /\ MarketTyped /\ StatementTyped /\ BookTyped /\ LedgerTyped
      /\ DeskTyped /\ TickersTyped /\ FrameTyped
  BY DEF TypeOK
<1>. DEFINE x   == ex.i
            qty == SellQty(x)
            t   == Ticket(x, "SELL", qty, SellFill(last[x]))
<1>1. x \in Names
  BY <1>0, LoopName DEF PlanSell, Loops
<1>2. last[x] \in Nat /\ SellFill(last[x]) \in Nat /\ ex.drift[x] \in Int /\ coreQty[x] \in Nat
  BY <1>0, <1>1, FrameFields, MarkType, SlipType DEF BookTyped
<1>3. ASSUME last[x] # 0, qty >= 1,
             Planned(t, AfterSell(ex.snap, x, Notional(t), qty * last[x]), TRUE)
      PROVE  FrameTyped'
  <2>1. ex.drift[x] \div last[x] \in Int
    BY <1>2, <1>3, QuotientType
  <2>2. qty \in Int
    BY <1>2, <2>1 DEF SellQty, Lesser
  <2>3. qty \in Nat
    BY <1>3, <2>2
  <2>. HIDE DEF x, qty
  <2>4. t \in TicketType /\ Notional(t) \in Nat
    BY <1>1, <1>2, <2>3, TicketTyped
  <2>5. qty * last[x] \in Nat
    BY <1>2, <2>3, ProductType
  <2>. HIDE DEF t
  <2>6. AfterSell(ex.snap, x, Notional(t), qty * last[x]) \in Snapshots
    BY <1>0, <1>1, <2>4, <2>5, FrameFields, AfterSellType
  <2>. QED
    BY <1>0, <1>3, <2>4, <2>6, StepType
<1>4. FrameTyped'
  <2>1. \/ Skipped \/ Deferred
        \/ /\ last[x] # 0 /\ qty >= 1
           /\ Planned(t, AfterSell(ex.snap, x, Notional(t), qty * last[x]), TRUE)
    BY DEF PlanSell
  <2>. QED
    BY <1>0, <1>3, <2>1, StepType
<1>. QED
  BY <1>0, <1>4, Kept DEF PlanSell, TypeOK

LEMMA PlanBuyType == TypeOK /\ PlanBuy => TypeOK'
<1>. SUFFICES ASSUME TypeOK, PlanBuy PROVE TypeOK'
  OBVIOUS
<1>0. /\ MarketTyped /\ StatementTyped /\ BookTyped /\ LedgerTyped
      /\ DeskTyped /\ TickersTyped /\ FrameTyped
  BY DEF TypeOK
<1>. DEFINE x    == ex.i
            want == -ex.drift[x]
            room == Lesser(want, RailRoom(ex.snap, x))
            qty  == room \div BuyFill(last[x])
            t    == Ticket(x, "BUY", qty, BuyFill(last[x]))
            clamped == room < want - 1
<1>1. x \in Names
  BY <1>0, LoopName DEF PlanBuy, Loops
<1>2. /\ last[x] \in Nat /\ BuyFill(last[x]) \in Nat /\ want \in Int
      /\ last[x] # 0 => BuyFill(last[x]) > 0
  BY SMTT(60), <1>0, <1>1, FrameFields, MarkType, SlipType
<1>3. ASSUME last[x] # 0, qty >= 1, Planned(t, AfterBuy(ex.snap, x, Notional(t)), ~clamped)
      PROVE  FrameTyped'
  <2>1. RailRoom(ex.snap, x) \in Int
    BY <1>0, <1>1, FrameFields, RoomType
  <2>2. room \in Int
    BY <1>2, <2>1, BoundType
  <2>. HIDE DEF x, room
  <2>3. qty \in Int
    BY <1>2, <1>3, <2>2, QuotientType
  <2>4. qty \in Nat
    BY <1>3, <2>3
  <2>. HIDE DEF qty
  <2>5. t \in TicketType /\ Notional(t) \in Nat
    BY <1>1, <1>2, <2>4, TicketTyped
  <2>. HIDE DEF t
  <2>6. AfterBuy(ex.snap, x, Notional(t)) \in Snapshots
    BY <1>0, <1>1, <2>5, FrameFields, AfterBuyType
  <2>7. (~clamped) \in BOOLEAN
    OBVIOUS
  <2>. HIDE DEF clamped
  <2>. QED
    BY <1>0, <1>3, <2>5, <2>6, <2>7, StepType
<1>4. FrameTyped'
  <2>1. \/ Skipped \/ Deferred
        \/ /\ last[x] # 0 /\ qty >= 1
           /\ Planned(t, AfterBuy(ex.snap, x, Notional(t)), ~clamped)
    BY DEF PlanBuy
  <2>. QED
    BY <1>0, <1>3, <2>1, StepType
<1>. QED
  BY <1>0, <1>4, Kept DEF PlanBuy, TypeOK

LEMMA PlannedType == TypeOK /\ (SellsPlanned \/ BuysPlanned) => TypeOK'
<1>. SUFFICES ASSUME TypeOK, SellsPlanned \/ BuysPlanned PROVE TypeOK'
  OBVIOUS
<1>0. /\ MarketTyped /\ StatementTyped /\ BookTyped /\ LedgerTyped
      /\ DeskTyped /\ TickersTyped /\ FrameTyped
  BY DEF TypeOK
<1>1. CASE SellsPlanned
  <2>1. FrameTyped'
    BY <1>0, <1>1, GotoType DEF SellsPlanned, Phases
  <2>. QED
    BY <1>0, <1>1, <2>1, Kept DEF SellsPlanned, TypeOK
<1>2. CASE BuysPlanned
  <2>1. NoMarks \in [Names -> Int] /\ EmptySnapshot \in Snapshots
    BY DEF NoMarks, EmptySnapshot, Snapshots
  <2>2. ex' = [ex EXCEPT !.phase = "tickets", !.i = 1, !.drift = NoMarks, !.snap = EmptySnapshot]
    BY <1>2 DEF BuysPlanned
  <2>3. ex' \in FrameType /\ ex'.i = 1
    BY <1>0, <2>1, <2>2 DEF FrameTyped, FrameType, Phases
  <2>4. FrameTyped'
    BY <2>3 DEF FrameTyped
  <2>. QED
    BY <1>0, <1>2, <2>4, Kept DEF BuysPlanned, TypeOK
<1>. QED
  BY <1>1, <1>2

LEMMA CoreTicketType == TypeOK /\ CoreTicket => TypeOK'
<1>. SUFFICES ASSUME TypeOK, CoreTicket PROVE TypeOK'
  OBVIOUS
<1>0. /\ MarketTyped /\ StatementTyped /\ BookTyped /\ LedgerTyped
      /\ DeskTyped /\ TickersTyped /\ FrameTyped
  BY DEF TypeOK
<1>. DEFINE t == ex.tickets[ex.i]
<1>1. t \in TicketType
  <2>1. ex.i \in Nat /\ ex.i >= 1 /\ ex.tickets \in Seq(TicketType)
    BY <1>0, FrameFields DEF CoreTicket, Loops
  <2>2. ex.i <= Len(ex.tickets)
    BY DEF CoreTicket
  <2>. QED
    BY <2>1, <2>2
<1>2. t.sym \in Names /\ t.qty \in Nat /\ t.price \in Nat /\ Notional(t) \in Nat
  BY <1>1, ProductType DEF TicketType, Notional
<1>3. coreQty[t.sym] \in Nat /\ pos[t.sym].qty \in Nat
  BY <1>0, <1>2 DEF BookTyped, PositionType
<1>4. ASSUME SellCore(t) PROVE BookTyped' /\ LedgerTyped'
  <2>. DEFINE net == Notional(t) - RoundTripSell(Notional(t))
              left == pos[t.sym].qty - t.qty
              kept == AtLeastZero(coreQty[t.sym] - t.qty)
  <2>1. net \in Int
    BY SMTT(60), <1>2, ChargeType
  <2>2. /\ cash' = cash + net /\ period' = CoreFlow(net)
        /\ coreQty' = [coreQty EXCEPT ![t.sym] = kept]
        /\ pos' = [pos EXCEPT ![t.sym] = Held(t.sym, left)]
        /\ UNCHANGED <<peak, dayBuys, bought>>
    BY <1>4 DEF SellCore
  <2>3. left \in Int /\ kept \in Nat
    BY <1>2, <1>3 DEF AtLeastZero
  <2>. HIDE DEF t, net, left, kept
  <2>4. Held(t.sym, left) \in PositionType
    BY <1>0, <1>2, <2>3, HeldType
  <2>5. pos' \in [Names -> PositionType] /\ coreQty' \in [Names -> Nat]
    BY <1>0, <1>2, <2>2, <2>3, <2>4 DEF BookTyped
  <2>6. BookTyped'
    BY <1>0, <2>1, <2>2, <2>5 DEF CoreTicket, BookTyped
  <2>7. LedgerTyped'
    BY <1>0, <2>1, <2>2, FlowType DEF CoreTicket, LedgerTyped
  <2>. QED
    BY <2>6, <2>7
<1>5. ASSUME BuyCore(t), peak' = Snapshot.peak PROVE BookTyped' /\ LedgerTyped'
  <2>. DEFINE spent == Notional(t) + RoundTripBuy(Notional(t))
              now == pos[t.sym].qty + t.qty
              kept == coreQty[t.sym] + t.qty
  <2>1. spent \in Int /\ -spent \in Int
    BY SMTT(60), <1>2, ChargeType
  <2>2. /\ cash' = cash - spent /\ period' = CoreFlow(-spent)
        /\ dayBuys' = dayBuys + Notional(t) /\ bought' = bought + Notional(t)
        /\ coreQty' = [coreQty EXCEPT ![t.sym] = kept]
        /\ pos' = [pos EXCEPT ![t.sym] = Held(t.sym, now)]
    BY <1>5 DEF BuyCore
  <2>3. now \in Int /\ kept \in Nat
    BY <1>2, <1>3
  <2>4. peak' \in Int
    BY <1>0, <1>5, SnapshotType
  <2>. HIDE DEF t, spent, now, kept
  <2>5. Held(t.sym, now) \in PositionType
    BY <1>0, <1>2, <2>3, HeldType
  <2>6. pos' \in [Names -> PositionType] /\ coreQty' \in [Names -> Nat]
    BY <1>0, <1>2, <2>2, <2>3, <2>5 DEF BookTyped
  <2>7. dayBuys' \in Nat /\ bought' \in Nat /\ cash' \in Int
    BY <1>0, <1>2, <2>1, <2>2 DEF BookTyped
  <2>8. BookTyped'
    BY <1>0, <2>4, <2>6, <2>7 DEF CoreTicket, BookTyped
  <2>9. LedgerTyped'
    BY <1>0, <2>1, <2>2, FlowType DEF CoreTicket, LedgerTyped
  <2>. QED
    BY <2>8, <2>9
<1>6. ASSUME UNCHANGED <<cash, period, dayBuys, bought, coreQty, pos>>, peak' = Snapshot.peak
      PROVE  BookTyped' /\ LedgerTyped'
  <2>1. peak' \in Int
    BY <1>0, <1>6, SnapshotType
  <2>. QED
    BY <1>0, <1>6, <2>1 DEF CoreTicket, BookTyped, LedgerTyped
<1>7. BookTyped' /\ LedgerTyped'
  BY <1>4, <1>5, <1>6 DEF CoreTicket
<1>8. FrameTyped'
  BY <1>0, StepType DEF CoreTicket
<1>. QED
  BY <1>0, <1>7, <1>8, Kept DEF CoreTicket, TypeOK

LEMMA CoreWorkedType == TypeOK /\ CoreWorked => TypeOK'
<1>. SUFFICES ASSUME TypeOK, CoreWorked PROVE TypeOK'
  OBVIOUS
<1>0. /\ MarketTyped /\ StatementTyped /\ BookTyped /\ LedgerTyped
      /\ DeskTyped /\ TickersTyped /\ FrameTyped
  BY DEF TypeOK
<1>1. StatementTyped'
  <2>1. lastRebal' \in Nat
    BY <1>0, FrameFields DEF CoreWorked
  <2>. QED
    BY <1>0, <2>1 DEF CoreWorked, StatementTyped
<1>2. FrameTyped'
  <2>1. NoTickets \in Seq(TicketType)
    BY DEF NoTickets
  <2>2. ex' = [ex EXCEPT !.phase = "satellite", !.i = 0, !.tickets = NoTickets, !.complete = TRUE]
    BY DEF CoreWorked
  <2>3. ex' \in FrameType /\ ex'.phase = "satellite"
    BY <1>0, <2>1, <2>2 DEF FrameTyped, FrameType, Phases
  <2>. QED
    BY <2>3 DEF FrameTyped, Loops
<1>. QED
  BY <1>0, <1>1, <1>2, Kept DEF CoreWorked, TypeOK

LEMMA SatelliteStartType == TypeOK /\ SatelliteStart => TypeOK'
<1>. SUFFICES ASSUME TypeOK, SatelliteStart PROVE TypeOK'
  OBVIOUS
<1>0. /\ MarketTyped /\ StatementTyped /\ BookTyped /\ LedgerTyped
      /\ DeskTyped /\ TickersTyped /\ FrameTyped
  BY DEF TypeOK
<1>1. BookTyped'
  BY <1>0, SnapshotType DEF SatelliteStart, BookTyped
<1>2. FrameTyped'
  BY <1>0, GotoType DEF SatelliteStart, Phases, Loops
<1>. QED
  BY <1>0, <1>1, <1>2, Kept DEF SatelliteStart, TypeOK

LEMMA BuySatelliteType ==
    ASSUME BookTyped, LedgerTyped, FrameTyped, NEW x \in Names, NEW qty \in Nat,
           BuySatellite(x, qty), UNCHANGED <<coreQty, dayKey, rows, lastMarks>>
    PROVE  BookTyped' /\ LedgerTyped'
<1>. DEFINE fill  == BuyFill(last[x])
            cost  == qty * fill
            spent == cost + RoundTripBuy(cost)
            now   == pos[x].qty + qty
            held  == Held(x, now)
            top   == Greater(peak, cash - spent
                             + Total([y \in Names |-> IF y = x THEN held.mv ELSE pos[y].mv]))
<1>1. fill \in Nat
  BY FrameFields, MarkType, SlipType
<1>2. /\ cash' = cash - spent /\ period' = SatFlow(-spent)
      /\ sat' = [sat EXCEPT ![x] = [qty |-> qty, entry |-> fill, opened |-> today]]
      /\ pos' = [pos EXCEPT ![x] = held]
      /\ dayBuys' = dayBuys + cost /\ bought' = bought + cost
      /\ peak' = top
  BY DEF BuySatellite
<1>. HIDE DEF fill
<1>3. cost \in Nat
  BY <1>1, ProductType
<1>4. [qty |-> qty, entry |-> fill, opened |-> today] \in TradeType
  BY <1>1, FrameFields DEF TradeType
<1>. HIDE DEF cost
<1>5. spent \in Int /\ -spent \in Int
  BY <1>3, ChargeType
<1>. HIDE DEF spent
<1>6. now \in Int
  BY DEF BookTyped, PositionType
<1>. HIDE DEF now
<1>7. held \in PositionType
  BY <1>6, HeldType
<1>. HIDE DEF held
<1>8. top \in Int
  <2>1. Total([y \in Names |-> IF y = x THEN held.mv ELSE pos[y].mv]) \in Int
    <3>1. [y \in Names |-> IF y = x THEN held.mv ELSE pos[y].mv] \in [Names -> Int]
      BY <1>7 DEF BookTyped, PositionType
    <3>. QED
      BY <3>1, TotalType
  <2>2. cash - spent \in Int /\ peak \in Int
    BY <1>5 DEF BookTyped
  <2>3. \A a, b \in Int : a + b \in Int /\ Greater(a, b) \in Int
    BY DEF Greater
  <2>. QED
    BY <2>1, <2>2, <2>3
<1>. HIDE DEF top
<1>9. pos' \in [Names -> PositionType] /\ sat' \in [Names -> TradeType]
  BY <1>2, <1>4, <1>7 DEF BookTyped
<1>10. dayBuys' \in Nat /\ bought' \in Nat /\ cash' \in Int
  BY <1>2, <1>3, <1>5 DEF BookTyped
<1>11. BookTyped'
  BY <1>2, <1>8, <1>9, <1>10 DEF BookTyped
<1>12. LedgerTyped'
  BY <1>2, <1>5, FlowType DEF LedgerTyped
<1>. QED
  BY <1>11, <1>12

LEMMA SatelliteSizeType ==
    ASSUME BookTyped, StatementTyped, DeskTyped, FrameTyped, NEW x \in Names
    PROVE  IdeaSize(x) \in Int /\ SatelliteRoom \in Int
<1>1. Equity \in Int /\ CoreValue(last) \in Int
  BY FrameFields, SleeveType, ValueType
<1>2. plan.sig[x] \in Int /\ plan.tilt \in Int /\ ips.sat \in Int
  BY PolicyType DEF DeskTyped
<1>3. IdeaSize(x) \in Int
  <2>1. NameCap \in Int /\ 50 + Weight \in Int
    BY PlanAssumption DEF NameCap
  <2>2. PctOf(NameCap, Equity) \in Int
    BY <1>1, <2>1, PctType
  <2>3. PctOf(NameCap, Equity) * plan.sig[x] \in Int
    BY <1>2, <2>2, IntProduct
  <2>4. PctOf(NameCap, Equity) * plan.sig[x] * (50 + Weight) \in Int
    BY <2>1, <2>3, IntProduct
  <2>. QED
    BY <2>4, QuotientType DEF IdeaSize
<1>4. SatelliteRoom \in Int
  <2>1. PctOf(ips.sat, Equity) \in Int
    BY <1>1, <1>2, PctType
  <2>2. SatelliteSlice \in Int
    BY <1>2, <2>1, PctType DEF SatelliteSlice
  <2>3. Gross(Snapshot) \in Int
    BY SnapshotType, TotalType DEF Gross, Snapshots
  <2>4. SatelliteSlice - (Gross(Snapshot) - CoreValue(last)) \in Int
    BY <1>1, <2>2, <2>3
  <2>. QED
    BY <2>4, BoundType DEF SatelliteRoom
<1>. QED
  BY <1>3, <1>4

\* The satellite's loop buys an admitted quantity of a quoted name, or nothing.
LEMMA SatelliteBuys ==
    ASSUME TypeOK, Satellite
    PROVE  /\ ex.i \in Names
           /\ \/ \E qty \in Nat : /\ Wants(ex.i) /\ BuySatellite(ex.i, qty)
                                  /\ BuyAllowed(Snapshot, ex.i, qty * BuyFill(last[ex.i]), FALSE)
                                  /\ qty * BuyFill(last[ex.i]) <= SatelliteRoom
              \/ UNCHANGED <<cash, period, sat, pos, dayBuys, bought, peak>>
<1>0. StatementTyped /\ BookTyped /\ DeskTyped /\ FrameTyped
  BY DEF TypeOK
<1>. DEFINE x    == ex.i
            size == Lesser(Lesser(IdeaSize(x), Room(Snapshot, x)), SatelliteRoom)
            qty  == size \div BuyFill(last[x])
<1>1. x \in Names
  BY DEF Satellite
<1>2. ASSUME Wants(x), qty >= 1 PROVE qty \in Nat /\ qty * BuyFill(last[x]) <= SatelliteRoom
  <2>1. last[x] \in Nat /\ last[x] # 0 /\ BuyFill(last[x]) \in Nat /\ BuyFill(last[x]) > 0
    BY <1>0, <1>1, <1>2, FrameFields, MarkType, SlipType DEF Wants
  <2>2. IdeaSize(x) \in Int /\ SatelliteRoom \in Int
    BY <1>0, <1>1, SatelliteSizeType
  <2>3. Room(Snapshot, x) \in Int
    BY <1>0, <1>1, SnapshotType, RoomType
  <2>4. Lesser(IdeaSize(x), Room(Snapshot, x)) \in Int
    BY <2>2, <2>3, BoundType
  <2>5. size \in Int /\ size <= SatelliteRoom
    BY <2>2, <2>4, BoundType
  <2>. HIDE DEF x, size
  <2>6. qty \in Int /\ qty * BuyFill(last[x]) <= size
    BY <2>1, <2>5, QuotientFits
  <2>. HIDE DEF qty
  <2>7. qty * BuyFill(last[x]) \in Int
    BY <2>1, <2>6, IntProduct
  <2>. QED
    BY <1>2, <2>2, <2>5, <2>6, <2>7
<1>3. \/ /\ Wants(x) /\ qty >= 1 /\ BuySatellite(x, qty)
         /\ BuyAllowed(Snapshot, x, qty * BuyFill(last[x]), FALSE)
      \/ UNCHANGED <<cash, period, sat, pos, dayBuys, bought, peak>>
  BY DEF Satellite
<1>. HIDE DEF qty
<1>. QED
  BY <1>1, <1>2, <1>3

LEMMA SatelliteType == TypeOK /\ Satellite => TypeOK'
<1>. SUFFICES ASSUME TypeOK, Satellite PROVE TypeOK'
  OBVIOUS
<1>0. /\ MarketTyped /\ StatementTyped /\ BookTyped /\ LedgerTyped
      /\ DeskTyped /\ TickersTyped /\ FrameTyped
  BY DEF TypeOK
<1>1. UNCHANGED <<coreQty, dayKey, rows, lastMarks>>
  BY DEF Satellite
<1>2. ASSUME NEW qty \in Nat, ex.i \in Names, BuySatellite(ex.i, qty)
      PROVE  BookTyped' /\ LedgerTyped'
  BY <1>0, <1>1, <1>2, BuySatelliteType
<1>3. ASSUME UNCHANGED <<cash, period, sat, pos, dayBuys, bought, peak>>
      PROVE  BookTyped' /\ LedgerTyped'
  BY <1>0, <1>1, <1>3 DEF BookTyped, LedgerTyped
<1>4. BookTyped' /\ LedgerTyped'
  BY <1>2, <1>3, SatelliteBuys
<1>5. FrameTyped'
  BY <1>0, StepType, GotoType DEF Satellite, Phases, Loops
<1>. QED
  BY <1>0, <1>4, <1>5, Kept DEF Satellite, TypeOK

LEMMA FinishType == TypeOK /\ Finish => TypeOK'
<1>. SUFFICES ASSUME TypeOK, Finish PROVE TypeOK'
  OBVIOUS
<1>0. /\ MarketTyped /\ StatementTyped /\ BookTyped /\ LedgerTyped
      /\ DeskTyped /\ TickersTyped /\ FrameTyped
  BY DEF TypeOK
<1>1. /\ period \in PeriodType /\ period.core \in TrackType /\ period.sat \in TrackType
      /\ CoreValue(last) \in Int /\ SatValue(last) \in Int
  BY <1>0, FrameFields, SleeveType DEF LedgerTyped, PeriodType
<1>2. /\ MarkTrack(period.core, CoreValue(last)) \in TrackType
      /\ MarkTrack(period.sat, SatValue(last)) \in TrackType
  BY <1>1, TrackStepType
<1>3. \A c, s \in TrackType : [period EXCEPT !.core = c, !.sat = s] \in PeriodType
  BY <1>1 DEF PeriodType
<1>4. period' \in PeriodType
  BY <1>1, <1>2, <1>3 DEF Finish
<1>5. LedgerTyped'
  BY <1>0, <1>4 DEF Finish, LedgerTyped
<1>6. FrameTyped'
  BY NoExecType DEF Finish, FrameTyped, NoExec, Loops
<1>. QED
  BY <1>0, <1>5, <1>6, Kept DEF Finish, TypeOK

LEMMA StepTypeCorrect == TypeOK /\ [Next]_vars => TypeOK'
<1>. SUFFICES ASSUME TypeOK, [Next]_vars PROVE TypeOK'
  OBVIOUS
<1>1. CASE Exchange
  BY <1>1, ExchangeType
<1>2. CASE Operator
  BY <1>2, OperatorType
<1>3. ASSUME NEW t \in Tickers, Tick(t) PROVE TypeOK'
  BY <1>3, TickType
<1>4. CASE Execute
  BY <1>4, ExitTradeType, CoreSessionType, PlanSellType, PlanBuyType, PlannedType,
     CoreTicketType, CoreWorkedType, SatelliteStartType, SatelliteType, FinishType
     DEF Execute
<1>5. CASE UNCHANGED vars
  <2>1. UNCHANGED <<market, policy, book, dayKey, ledger, lastMarks, camp, plan, ticks, ex, used>>
    BY <1>5 DEF vars
  <2>. QED
    BY <2>1, Kept DEF TypeOK
<1>. QED
  BY <1>1, <1>2, <1>3, <1>4, <1>5 DEF Next

\* Every reachable state is well typed, for every universe, set of prices and
\* statements, any number of tickers and any bound: quantities never go
\* negative whatever is sold, and every loop of Execute runs over names.
THEOREM TypeCorrect == Spec => []TypeOK
<1>1. Init => TypeOK
  BY InitType
<1>2. TypeOK /\ [Next]_vars => TypeOK'
  BY StepTypeCorrect
<1>. QED
  BY <1>1, <1>2, PTL DEF Spec

-----------------------------------------------------------------------------
(* The two sleeves add up to the position.                                 *)

\* No ticket waits: nothing to be said of them.
LEMMA NoTicketWaits == ex'.tickets = NoTickets => TicketsInv'
BY DEF TicketsInv, SellsCovered, TicketsWait, SellsInOrder, SellsOnce, NoTickets

\* Outside the plan no ticket waits, and none appears in a step that keeps them.
LEMMA StillNoTickets ==
    ASSUME TicketsInv, ex.phase \notin {"sells", "buys", "tickets"}, ex'.tickets = ex.tickets
    PROVE  TicketsInv'
BY NoTicketWaits DEF TicketsInv, TicketsWait

LEMMA GotoKeeps ==
    ASSUME FrameTyped, NEW phase, NEW i, Goto(phase, i)
    PROVE  ex'.tickets = ex.tickets /\ ex'.phase = phase /\ ex'.i = i
BY DEF FrameTyped, FrameType, Goto

LEMMA StepKeeps ==
    ASSUME FrameTyped, Skipped \/ Deferred
    PROVE  ex'.tickets = ex.tickets /\ ex'.phase = ex.phase /\ ex'.i = ex.i + 1
BY DEF FrameTyped, FrameType, Skipped, Deferred

LEMMA SleevesKept ==
    SleevesReconcile /\ UNCHANGED <<pos, coreQty, sat>> => SleevesReconcile'
BY DEF SleevesReconcile

LEMMA HeldQty ==
    ASSUME NEW x \in Names, NEW qty \in Nat
    PROVE  Held(x, qty).qty = qty
BY DEF Held, Flat

LEMMA InitSleeves == Init => SleevesReconcile /\ TicketsInv
BY DEF Init, SleevesReconcile, Flat, NoTrade, NoExec, NoTickets, TicketsInv, SellsCovered,
       TicketsWait, SellsInOrder, SellsOnce

LEMMA IdleSleeves ==
    ASSUME TypeOK, SleevesReconcile, TicketsInv,
           Exchange \/ Operator \/ \E t \in Tickers : Tick(t)
    PROVE  SleevesReconcile' /\ TicketsInv'
<1>0. BookTyped /\ StatementTyped /\ TickersTyped /\ FrameTyped
  BY DEF TypeOK
<1>1. CASE Exchange
  <2>1. Idle /\ UNCHANGED <<pos, coreQty, sat, ex>>
    BY <1>1 DEF Exchange, CloseMarket, NextDay, CampaignEnds, Horizon, vars, book
  <2>. QED
    BY <2>1, SleevesKept, StillNoTickets DEF Idle
<1>2. CASE StartCampaign
  <2>1. SleevesReconcile'
    BY <1>2 DEF StartCampaign, FreshBook, SleevesReconcile, Flat, NoTrade
  <2>. QED
    BY <1>2, <2>1, StillNoTickets DEF StartCampaign, Command, Idle
<1>3. CASE \E on \in BOOLEAN : SetAutopilot(on)
  BY <1>3, SleevesKept, StillNoTickets DEF SetAutopilot, Command, Idle, book
<1>4. CASE \E p \in Policies : BindIPS(p)
  BY <1>4, SleevesKept, StillNoTickets DEF BindIPS, Command, Idle, book
<1>5. CASE PreviewTargets
  <2>1. PICK marks \in [Names -> Prices] : pos' = Marked(QuotesOf(marks))
    BY <1>5 DEF PreviewTargets
  <2>2. \A x \in Names : pos'[x].qty = pos[x].qty
    BY <1>0, <2>1, QuotesType, MarkedType
  <2>3. SleevesReconcile'
    BY <1>5, <2>2 DEF PreviewTargets, SleevesReconcile
  <2>. QED
    BY <1>5, <2>3, StillNoTickets DEF PreviewTargets, Command, Idle
<1>6. ASSUME NEW t \in Tickers, Tick(t) PROVE SleevesReconcile' /\ TicketsInv'
  <2>1. CASE Lock(t)
    <3>1. quote[t].last \in MarksType
      BY <1>0 DEF TickersTyped, QuoteType
    <3>2. pos' = Marked(quote[t].last) /\ UNCHANGED <<coreQty, sat>>
      BY <2>1 DEF Lock
    <3>3. \A x \in Names : pos'[x].qty = pos[x].qty
      BY <1>0, <3>1, <3>2, MarkedType
    <3>4. SleevesReconcile'
      BY <3>2, <3>3 DEF SleevesReconcile
    <3>5. ex'.tickets = NoTickets
      BY <2>1 DEF Lock, NoExec
    <3>. QED
      BY <3>4, <3>5, NoTicketWaits
  <2>2. CASE TickStart(t) \/ TickEnded(t) \/ Plan(t) \/ Check(t) \/ GetQuotes(t)
    <3>1. Idle /\ UNCHANGED <<pos, coreQty, sat, ex>>
      BY <2>2 DEF TickStart, TickEnded, Plan, Check, GetQuotes, book
    <3>. QED
      BY <3>1, SleevesKept, StillNoTickets DEF Idle
  <2>. QED
    BY <1>6, <2>1, <2>2 DEF Tick
<1>. QED
  BY <1>1, <1>2, <1>3, <1>4, <1>5, <1>6 DEF Operator

\* A closed trade leaves the core's units in the position.
LEMMA ExitSleeves ==
    ASSUME TypeOK, SleevesReconcile, TicketsInv, ExitTrade
    PROVE  SleevesReconcile' /\ TicketsInv'
<1>0. BookTyped /\ FrameTyped
  BY DEF TypeOK
<1>. DEFINE x == ex.i
<1>1. x \in Names
  BY <1>0, LoopName DEF ExitTrade, Loops
<1>2. ASSUME CloseTrade(x) PROVE SleevesReconcile'
  <2>. DEFINE left == pos[x].qty - sat[x].qty
  <2>1. pos[x].qty = coreQty[x] + sat[x].qty /\ coreQty[x] \in Nat /\ sat[x].qty \in Nat
    BY <1>0, <1>1 DEF SleevesReconcile, BookTyped, TradeType
  <2>2. left \in Nat /\ left = coreQty[x]
    BY <2>1
  <2>3. Held(x, left).qty = coreQty[x]
    BY <1>1, <2>2, HeldQty
  <2>4. pos' = [pos EXCEPT ![x] = Held(x, left)] /\ sat' = [sat EXCEPT ![x] = NoTrade]
    BY <1>2 DEF CloseTrade, Held
  <2>5. UNCHANGED coreQty
    BY DEF ExitTrade
  <2>. HIDE DEF x, left
  <2>6. ASSUME NEW y \in Names PROVE pos'[y].qty = coreQty'[y] + sat'[y].qty
    <3>1. CASE y = x
      BY <1>0, <1>1, <2>1, <2>3, <2>4, <2>5, <3>1 DEF BookTyped, NoTrade
    <3>2. CASE y # x
      BY <1>0, <1>1, <2>4, <2>5, <3>2 DEF BookTyped, SleevesReconcile
    <3>. QED
      BY <3>1, <3>2
  <2>. QED
    BY <2>6 DEF SleevesReconcile
<1>3. SleevesReconcile'
  BY <1>2, SleevesKept DEF ExitTrade
<1>4. ex'.tickets = ex.tickets /\ ex.phase = "exits"
  BY <1>0, GotoKeeps DEF ExitTrade
<1>. QED
  BY <1>3, <1>4, StillNoTickets

\* The plan's sells are sized on the core, one per name and in their order.
LEMMA PlanSellSleeves ==
    ASSUME TypeOK, SleevesReconcile, TicketsInv, PlanSell
    PROVE  SleevesReconcile' /\ TicketsInv'
<1>0. BookTyped /\ FrameTyped /\ TypeOK'
  BY PlanSellType DEF TypeOK
<1>. DEFINE x   == ex.i
            qty == SellQty(x)
            t   == Ticket(x, "SELL", qty, SellFill(last[x]))
<1>1. x \in Names /\ x \in Nat
  BY <1>0, LoopName, FrameFields DEF PlanSell, Loops
<1>2. ex.phase = "sells" /\ UNCHANGED <<pos, coreQty, sat>>
  BY DEF PlanSell, book
<1>3. SleevesReconcile'
  BY <1>2, SleevesKept
<1>4. ex.tickets \in Seq(TicketType)
  BY <1>0, FrameFields
<1>5. /\ SellsCovered /\ SellsInOrder /\ SellsOnce
  BY DEF TicketsInv
<1>6. \A j \in 1..Len(ex.tickets) : ex.tickets[j].sym \in Nat /\ ex.tickets[j].sym < x
  <2>1. \A j \in 1..Len(ex.tickets) : ex.tickets[j] \in TicketType
    BY <1>4
  <2>2. \A u \in TicketType : u.sym \in Nat
    BY NAssumption DEF TicketType, Names
  <2>. QED
    BY <1>2, <1>5, <2>1, <2>2 DEF SellsInOrder
<1>7. ASSUME Skipped \/ Deferred PROVE TicketsInv'
  <2>1. ex'.tickets = ex.tickets /\ ex'.phase = "sells" /\ ex'.i = x + 1
    BY <1>0, <1>2, <1>7, StepKeeps
  <2>2. SellsInOrder'
    BY <1>1, <1>6, <2>1 DEF SellsInOrder
  <2>3. SellsCovered' /\ SellsOnce'
    BY <1>2, <1>5, <2>1 DEF SellsCovered, SellsOnce
  <2>. QED
    BY <2>1, <2>2, <2>3 DEF TicketsInv, TicketsWait
<1>8. ASSUME NEW snap, last[x] # 0, Planned(t, snap, TRUE) PROVE TicketsInv'
  <2>1. /\ ex'.tickets = Append(ex.tickets, t) /\ ex'.phase = "sells" /\ ex'.i = x + 1
    BY <1>0, <1>2, <1>8 DEF Planned, FrameTyped, FrameType
  <2>2. t.sym = x /\ t.qty = qty
    BY DEF Ticket
  <2>3. qty <= coreQty[x]
    <3>1. last[x] \in Nat /\ last[x] > 0 /\ ex.drift[x] \in Int /\ coreQty[x] \in Int
      BY <1>0, <1>1, <1>8, FrameFields, MarkType DEF BookTyped
    <3>2. ex.drift[x] \div last[x] \in Int
      BY <3>1, QuotientType
    <3>. QED
      BY <3>1, <3>2 DEF SellQty, Lesser
  <2>. HIDE DEF t, x, qty
  <2>4. /\ Len(ex'.tickets) = Len(ex.tickets) + 1
        /\ \A j \in 1..Len(ex.tickets) : ex'.tickets[j] = ex.tickets[j]
        /\ ex'.tickets[Len(ex.tickets) + 1] = t
    BY <1>4, <2>1
  <2>5. \A j \in 1..Len(ex'.tickets) : j \in 1..Len(ex.tickets) \/ j = Len(ex.tickets) + 1
    BY <1>4, <2>4
  <2>6. SellsInOrder'
    <3>1. ASSUME NEW j \in 1..Len(ex'.tickets) PROVE ex'.tickets[j].sym < x + 1
      <4>1. CASE j \in 1..Len(ex.tickets)
        <5>1. ex.tickets[j].sym \in Nat /\ ex.tickets[j].sym < x
          BY <1>6, <4>1
        <5>. QED
          BY SMTT(60), <1>1, <2>4, <4>1, <5>1
      <4>2. CASE j = Len(ex.tickets) + 1
        BY <1>1, <2>2, <2>4, <4>2
      <4>. QED
        BY <2>5, <4>1, <4>2
    <3>. QED
      BY <2>1, <3>1 DEF SellsInOrder
  <2>7. SellsOnce'
    <3>1. \A j \in 1..Len(ex.tickets) : ex'.tickets[j].sym # x
      BY SMTT(60), <1>1, <1>6, <2>4
    <3>2. ASSUME NEW j \in 1..Len(ex'.tickets), NEW k \in 1..Len(ex'.tickets),
                 ex'.tickets[j].side = "SELL", ex'.tickets[k].side = "SELL",
                 ex'.tickets[j].sym = ex'.tickets[k].sym
          PROVE  j = k
      <4>1. CASE j \in 1..Len(ex.tickets) /\ k \in 1..Len(ex.tickets)
        BY <1>5, <2>4, <3>2, <4>1 DEF SellsOnce
      <4>2. CASE j = Len(ex.tickets) + 1 /\ k = Len(ex.tickets) + 1
        BY <4>2
      <4>3. CASE j \in 1..Len(ex.tickets) /\ k = Len(ex.tickets) + 1
        BY <2>2, <2>4, <3>1, <3>2, <4>3
      <4>4. CASE j = Len(ex.tickets) + 1 /\ k \in 1..Len(ex.tickets)
        BY <2>2, <2>4, <3>1, <3>2, <4>4
      <4>. QED
        BY <2>5, <4>1, <4>2, <4>3, <4>4
    <3>. QED
      BY <3>2 DEF SellsOnce
  <2>8. SellsCovered'
    <3>1. ASSUME NEW j \in 1..Len(ex'.tickets), ex'.tickets[j].side = "SELL"
          PROVE  ex'.tickets[j].qty <= coreQty'[ex'.tickets[j].sym]
      <4>1. CASE j \in 1..Len(ex.tickets)
        BY <1>2, <1>5, <2>4, <3>1, <4>1 DEF SellsCovered
      <4>2. CASE j = Len(ex.tickets) + 1
        BY <1>2, <2>2, <2>3, <2>4, <4>2
      <4>. QED
        BY <2>5, <4>1, <4>2
    <3>. QED
      BY <3>1 DEF SellsCovered
  <2>. QED
    BY <2>1, <2>6, <2>7, <2>8 DEF TicketsInv, TicketsWait
<1>9. TicketsInv'
  <2>1. \/ Skipped \/ Deferred
        \/ /\ last[x] # 0
           /\ Planned(t, AfterSell(ex.snap, x, Notional(t), qty * last[x]), TRUE)
    BY DEF PlanSell
  <2>. QED
    BY <1>7, <1>8, <2>1
<1>. QED
  BY <1>3, <1>9

\* A planned buy covers no sale and adds none.
LEMMA PlanBuySleeves ==
    ASSUME TypeOK, SleevesReconcile, TicketsInv, PlanBuy
    PROVE  SleevesReconcile' /\ TicketsInv'
<1>0. BookTyped /\ FrameTyped
  BY DEF TypeOK
<1>1. ex.phase = "buys" /\ UNCHANGED <<pos, coreQty, sat>>
  BY DEF PlanBuy, book
<1>2. SleevesReconcile'
  BY <1>1, SleevesKept
<1>3. ex.tickets \in Seq(TicketType)
  BY <1>0, FrameFields
<1>4. SellsCovered /\ SellsOnce
  BY DEF TicketsInv
<1>5. ASSUME Skipped \/ Deferred PROVE TicketsInv'
  <2>1. ex'.tickets = ex.tickets /\ ex'.phase = "buys"
    BY <1>0, <1>1, <1>5, StepKeeps
  <2>2. SellsCovered' /\ SellsOnce'
    BY <1>1, <1>4, <2>1 DEF SellsCovered, SellsOnce
  <2>. QED
    BY <2>1, <2>2 DEF TicketsInv, TicketsWait, SellsInOrder
<1>6. ASSUME NEW t, t.side = "BUY", NEW snap, NEW whole, Planned(t, snap, whole) PROVE TicketsInv'
  <2>1. /\ ex'.tickets = Append(ex.tickets, t) /\ ex'.phase = "buys"
    BY <1>0, <1>1, <1>6 DEF Planned, FrameTyped, FrameType
  <2>2. /\ Len(ex'.tickets) = Len(ex.tickets) + 1
        /\ \A j \in 1..Len(ex.tickets) : ex'.tickets[j] = ex.tickets[j]
        /\ ex'.tickets[Len(ex.tickets) + 1] = t
    BY <1>3, <2>1
  <2>3. \A j \in 1..Len(ex'.tickets) : j \in 1..Len(ex.tickets) \/ j = Len(ex.tickets) + 1
    BY <1>3, <2>2
  <2>4. \A j \in 1..Len(ex'.tickets) : ex'.tickets[j].side = "SELL" => j \in 1..Len(ex.tickets)
    BY <1>6, <2>2, <2>3
  <2>5. SellsOnce'
    BY <1>4, <2>2, <2>4 DEF SellsOnce
  <2>6. ASSUME NEW j \in 1..Len(ex'.tickets), ex'.tickets[j].side = "SELL"
        PROVE  ex'.tickets[j].qty <= coreQty'[ex'.tickets[j].sym]
    <3>1. j \in 1..Len(ex.tickets) /\ ex.tickets[j].side = "SELL" /\ ex'.tickets[j] = ex.tickets[j]
      BY <2>2, <2>4, <2>6
    <3>. QED
      BY <1>1, <1>4, <3>1 DEF SellsCovered
  <2>7. SellsCovered'
    BY <2>6 DEF SellsCovered
  <2>. QED
    BY <2>1, <2>5, <2>7 DEF TicketsInv, TicketsWait, SellsInOrder
<1>7. TicketsInv'
  <2>. DEFINE x    == ex.i
              room == Lesser(-ex.drift[x], RailRoom(ex.snap, x))
              t    == Ticket(x, "BUY", room \div BuyFill(last[x]), BuyFill(last[x]))
  <2>1. t.side = "BUY"
    BY DEF Ticket
  <2>2. \/ Skipped \/ Deferred
        \/ Planned(t, AfterBuy(ex.snap, x, Notional(t)), ~(room < -ex.drift[x] - 1))
    BY DEF PlanBuy
  <2>. QED
    BY <1>5, <1>6, <2>1, <2>2
<1>. QED
  BY <1>2, <1>7

LEMMA PlannedSleeves ==
    ASSUME TypeOK, SleevesReconcile, TicketsInv, SellsPlanned \/ BuysPlanned
    PROVE  SleevesReconcile' /\ TicketsInv'
<1>0. FrameTyped
  BY DEF TypeOK
<1>1. ex.phase \in {"sells", "buys"} /\ UNCHANGED <<pos, coreQty, sat>>
  BY DEF SellsPlanned, BuysPlanned, book
<1>2. SleevesReconcile'
  BY <1>1, SleevesKept
<1>3. CASE SellsPlanned
  <2>1. ex'.tickets = ex.tickets /\ ex'.phase = "buys"
    BY <1>0, <1>3, GotoKeeps DEF SellsPlanned
  <2>2. SellsCovered' /\ SellsOnce'
    BY <1>1, <2>1 DEF TicketsInv, SellsCovered, SellsOnce
  <2>. QED
    BY <1>2, <2>1, <2>2 DEF TicketsInv, TicketsWait, SellsInOrder
<1>4. CASE BuysPlanned
  <2>1. ex'.tickets = ex.tickets /\ ex'.phase = "tickets"
    BY <1>0, <1>4 DEF BuysPlanned, FrameTyped, FrameType
  <2>2. SellsCovered' /\ SellsOnce'
    BY <1>1, <2>1 DEF TicketsInv, SellsCovered, SellsOnce
  <2>. QED
    BY <1>2, <2>1, <2>2 DEF TicketsInv, TicketsWait, SellsInOrder
<1>. QED
  BY <1>3, <1>4

\* A sale takes from position and core alike: the core has the units.
LEMMA CoreTicketSleeves ==
    ASSUME TypeOK, SleevesReconcile, TicketsInv, CoreTicket
    PROVE  SleevesReconcile' /\ TicketsInv'
<1>0. BookTyped /\ FrameTyped
  BY DEF TypeOK
<1>. DEFINE t == ex.tickets[ex.i]
<1>1. /\ ex.phase = "tickets" /\ ex.i \in 1..Len(ex.tickets)
      /\ ex.tickets \in Seq(TicketType) /\ UNCHANGED sat
  BY <1>0, FrameFields DEF CoreTicket, Loops
<1>2. \A j \in 1..Len(ex.tickets) : ex.tickets[j].sym \in Names /\ ex.tickets[j].qty \in Nat
  <2>1. \A j \in 1..Len(ex.tickets) : ex.tickets[j] \in TicketType
    BY <1>1
  <2>2. \A u \in TicketType : u.sym \in Names /\ u.qty \in Nat
    BY DEF TicketType
  <2>. QED
    BY <2>1, <2>2
<1>3. /\ t.sym \in Names /\ t.qty \in Nat
      /\ pos[t.sym].qty = coreQty[t.sym] + sat[t.sym].qty
      /\ coreQty[t.sym] \in Nat /\ sat[t.sym].qty \in Nat
  BY <1>0, <1>1, <1>2 DEF SleevesReconcile, BookTyped, TradeType
<1>4. ex'.tickets = ex.tickets /\ ex'.phase = "tickets" /\ ex'.i = ex.i + 1
  BY <1>0, <1>1, StepKeeps DEF CoreTicket
<1>5. SellsCovered /\ SellsOnce
  BY DEF TicketsInv
<1>6. CASE SellCore(t) /\ t.side = "SELL"
  <2>. DEFINE left == pos[t.sym].qty - t.qty
  <2>1. t.qty <= coreQty[t.sym]
    BY SMTT(60), <1>1, <1>5, <1>6 DEF SellsCovered
  <2>2. left \in Nat /\ left = (coreQty[t.sym] - t.qty) + sat[t.sym].qty
    BY SMTT(60), <1>3, <2>1
  <2>3. Held(t.sym, left).qty = left
    BY SMTT(60), <1>3, <2>2, HeldQty
  <2>4. /\ coreQty' = [coreQty EXCEPT ![t.sym] = coreQty[t.sym] - t.qty]
        /\ pos' = [pos EXCEPT ![t.sym] = Held(t.sym, left)]
    <3>1. AtLeastZero(coreQty[t.sym] - t.qty) = coreQty[t.sym] - t.qty
      BY SMTT(60), <1>3, <2>1 DEF AtLeastZero
    <3>2. /\ coreQty' = [coreQty EXCEPT ![t.sym] = AtLeastZero(coreQty[t.sym] - t.qty)]
          /\ pos' = [pos EXCEPT ![t.sym] = Held(t.sym, left)]
      BY <1>6 DEF SellCore
    <3>. QED
      BY <3>1, <3>2
  <2>5. ASSUME NEW y \in Names PROVE pos'[y].qty = coreQty'[y] + sat'[y].qty
    <3>. HIDE DEF t, left
    <3>1. CASE y = t.sym
      BY <1>0, <1>1, <1>3, <2>2, <2>3, <2>4, <3>1 DEF BookTyped
    <3>2. CASE y # t.sym
      BY <1>0, <1>1, <1>3, <2>4, <3>2 DEF BookTyped, SleevesReconcile
    <3>. QED
      BY <3>1, <3>2
  <2>6. ASSUME NEW j \in 1..Len(ex.tickets), ex.tickets[j].side = "SELL", j >= ex.i + 1
        PROVE  ex.tickets[j].qty <= coreQty'[ex.tickets[j].sym]
    <3>1. j # ex.i /\ j >= ex.i
      BY <1>1, <2>6
    <3>2. ex.tickets[j].sym # t.sym
      BY <1>1, <1>5, <1>6, <2>6, <3>1 DEF SellsOnce
    <3>3. ex.tickets[j].qty <= coreQty[ex.tickets[j].sym]
      BY <1>5, <2>6, <3>1 DEF SellsCovered
    <3>4. coreQty'[ex.tickets[j].sym] = coreQty[ex.tickets[j].sym]
      BY <1>0, <1>2, <2>4, <3>2 DEF BookTyped
    <3>. QED
      BY <3>3, <3>4
  <2>7. SellsCovered' /\ SellsOnce'
    BY SMTT(60), <1>4, <1>5, <2>6 DEF SellsCovered, SellsOnce
  <2>. QED
    BY <1>4, <2>5, <2>7 DEF SleevesReconcile, TicketsInv, TicketsWait, SellsInOrder
<1>7. CASE BuyCore(t)
  <2>. DEFINE now == pos[t.sym].qty + t.qty
  <2>1. now \in Nat /\ now = (coreQty[t.sym] + t.qty) + sat[t.sym].qty
    BY SMTT(60), <1>3
  <2>2. Held(t.sym, now).qty = now
    BY SMTT(60), <1>3, <2>1, HeldQty
  <2>3. /\ coreQty' = [coreQty EXCEPT ![t.sym] = coreQty[t.sym] + t.qty]
        /\ pos' = [pos EXCEPT ![t.sym] = Held(t.sym, now)]
    BY <1>7 DEF BuyCore
  <2>4. ASSUME NEW y \in Names PROVE pos'[y].qty = coreQty'[y] + sat'[y].qty
    <3>. HIDE DEF t, now
    <3>1. CASE y = t.sym
      BY <1>0, <1>1, <1>3, <2>1, <2>2, <2>3, <3>1 DEF BookTyped
    <3>2. CASE y # t.sym
      BY <1>0, <1>1, <1>3, <2>3, <3>2 DEF BookTyped, SleevesReconcile
    <3>. QED
      BY <3>1, <3>2
  <2>5. \A y \in Names : coreQty[y] \in Nat /\ coreQty'[y] \in Int /\ coreQty[y] <= coreQty'[y]
    <3>. HIDE DEF t
    <3>. QED
      BY <1>0, <1>3, <2>3 DEF BookTyped
  <2>6. ASSUME NEW j \in 1..Len(ex.tickets), ex.tickets[j].side = "SELL", j >= ex.i + 1
        PROVE  ex.tickets[j].qty <= coreQty'[ex.tickets[j].sym]
    <3>1. j >= ex.i
      BY <1>1, <2>6
    <3>2. ex.tickets[j].qty <= coreQty[ex.tickets[j].sym]
      BY <1>5, <2>6, <3>1 DEF SellsCovered
    <3>. QED
      BY <1>2, <2>5, <3>2
  <2>7. SellsCovered' /\ SellsOnce'
    BY <1>4, <1>5, <2>6 DEF SellsCovered, SellsOnce
  <2>. QED
    BY <1>4, <2>4, <2>7 DEF SleevesReconcile, TicketsInv, TicketsWait, SellsInOrder
<1>8. CASE UNCHANGED <<cash, period, dayBuys, bought, coreQty, pos>>
  <2>1. SleevesReconcile'
    BY <1>1, <1>8, SleevesKept
  <2>2. \A j \in 1..Len(ex.tickets) : j >= ex.i + 1 => j >= ex.i
    BY <1>1
  <2>3. SellsCovered' /\ SellsOnce'
    BY <1>1, <1>4, <1>5, <1>8, <2>2 DEF SellsCovered, SellsOnce
  <2>. QED
    BY <1>4, <2>1, <2>3 DEF TicketsInv, TicketsWait, SellsInOrder
<1>. QED
  BY <1>6, <1>7, <1>8 DEF CoreTicket

LEMMA SatelliteSleeves ==
    ASSUME TypeOK, SleevesReconcile, TicketsInv, SatelliteStart \/ Satellite
    PROVE  SleevesReconcile' /\ TicketsInv'
<1>0. BookTyped /\ FrameTyped
  BY DEF TypeOK
<1>1. ex.phase = "satellite" /\ UNCHANGED coreQty
  BY DEF SatelliteStart, Satellite
<1>2. ex'.tickets = ex.tickets
  BY <1>0, GotoKeeps, StepKeeps DEF SatelliteStart, Satellite
<1>3. TicketsInv'
  BY <1>1, <1>2, StillNoTickets
<1>4. CASE UNCHANGED <<pos, sat>>
  BY <1>1, <1>3, <1>4, SleevesKept
<1>5. ASSUME NEW x \in Names, NEW qty \in Nat, Wants(x), BuySatellite(x, qty)
      PROVE  SleevesReconcile'
  <2>. DEFINE now == pos[x].qty + qty
              bot == [qty |-> qty, entry |-> BuyFill(last[x]), opened |-> today]
  <2>1. sat[x].qty = 0 /\ pos[x].qty = coreQty[x] /\ coreQty[x] \in Nat
    BY <1>0, <1>5 DEF Wants, SleevesReconcile, BookTyped
  <2>2. now \in Nat /\ now = coreQty[x] + qty /\ bot.qty = qty
    BY <1>5, <2>1
  <2>3. Held(x, now).qty = now
    BY <2>2, HeldQty
  <2>4. pos' = [pos EXCEPT ![x] = Held(x, now)] /\ sat' = [sat EXCEPT ![x] = bot]
    BY <1>5 DEF BuySatellite
  <2>. HIDE DEF now, bot
  <2>5. ASSUME NEW y \in Names PROVE pos'[y].qty = coreQty'[y] + sat'[y].qty
    <3>1. CASE y = x
      BY <1>0, <1>1, <2>2, <2>3, <2>4, <3>1 DEF BookTyped
    <3>2. CASE y # x
      BY <1>0, <1>1, <2>4, <3>2 DEF BookTyped, SleevesReconcile
    <3>. QED
      BY <3>1, <3>2
  <2>. QED
    BY <2>5 DEF SleevesReconcile
<1>6. CASE SatelliteStart
  BY <1>4, <1>6 DEF SatelliteStart
<1>7. CASE Satellite
  BY <1>3, <1>4, <1>5, <1>7, SatelliteBuys
<1>. QED
  BY <1>6, <1>7

\* Steps with no ticket waiting that leave positions and sleeves alone.
LEMMA OtherSleeves ==
    ASSUME TypeOK, SleevesReconcile, TicketsInv, CoreSession \/ CoreWorked \/ Finish
    PROVE  SleevesReconcile' /\ TicketsInv'
<1>0. FrameTyped
  BY DEF TypeOK
<1>1. UNCHANGED <<pos, coreQty, sat>>
  BY DEF CoreSession, CoreWorked, Finish, book
<1>2. SleevesReconcile'
  BY <1>1, SleevesKept
<1>3. CASE CoreSession
  <2>1. ex.phase = "core"
    BY <1>3 DEF CoreSession
  <2>2. ex'.tickets = ex.tickets
    BY <1>0, <1>3, GotoKeeps DEF CoreSession, FrameTyped, FrameType
  <2>. QED
    BY <1>2, <2>1, <2>2, StillNoTickets
<1>4. CASE CoreWorked
  <2>1. ex'.tickets = NoTickets
    BY <1>0, <1>4 DEF CoreWorked, FrameTyped, FrameType
  <2>. QED
    BY <1>2, <2>1, NoTicketWaits
<1>5. CASE Finish
  BY <1>2, <1>5, NoTicketWaits DEF Finish, NoExec
<1>. QED
  BY <1>3, <1>4, <1>5

LEMMA BookInvariant == Spec => [](TypeOK /\ SleevesReconcile /\ TicketsInv)
<1>. DEFINE Inv == TypeOK /\ SleevesReconcile /\ TicketsInv
<1>1. Init => Inv
  BY InitType, InitSleeves
<1>2. Inv /\ [Next]_vars => Inv'
  <2>. SUFFICES ASSUME TypeOK, SleevesReconcile, TicketsInv, [Next]_vars
                PROVE  SleevesReconcile' /\ TicketsInv'
    BY StepTypeCorrect
  <2>1. CASE Execute
    BY <2>1, ExitSleeves, PlanSellSleeves, PlanBuySleeves, PlannedSleeves,
       CoreTicketSleeves, SatelliteSleeves, OtherSleeves DEF Execute
  <2>2. CASE UNCHANGED vars
    <3>1. UNCHANGED <<pos, coreQty, sat, ex>>
      BY <2>2 DEF vars, book
    <3>2. SleevesReconcile'
      BY <3>1, SleevesKept
    <3>3. TicketsInv'
      BY <3>1 DEF TicketsInv, SellsCovered, TicketsWait, SellsInOrder, SellsOnce
    <3>. QED
      BY <3>2, <3>3
  <2>. QED
    BY <2>1, <2>2, IdleSleeves DEF Next
<1>. QED
  BY <1>1, <1>2, PTL DEF Spec

\* The two sleeves add up to the position of every name in every reachable
\* state, for every universe, tape, set of statements and number of tickers
\* (core.go and engine.go keep them by different code paths).
THEOREM SleevesAlwaysReconcile == Spec => []SleevesReconcile
<1>1. TypeOK /\ SleevesReconcile /\ TicketsInv => SleevesReconcile
  OBVIOUS
<1>. QED
  BY <1>1, BookInvariant, PTL

\* Every sale that waits its turn in coreLocked's ticket list asks for units
\* the core still has when the turn comes: sellCoreLocked never has to clamp.
THEOREM SalesAlwaysCovered == Spec => []SellsCovered
<1>1. TypeOK /\ SleevesReconcile /\ TicketsInv => SellsCovered
  BY DEF TicketsInv
<1>. QED
  BY <1>1, BookInvariant, PTL

-----------------------------------------------------------------------------
(* The turnover cap of the day.                                            *)

\* What every step of Execute leaves alone.
LEMMA ExecuteFrame ==
    ASSUME Execute
    PROVE  ~Idle /\ UNCHANGED <<day, open, dayKey, camp, pc, saw, quote>>
BY DEF Execute, ExitTrade, CoreSession, PlanSell, SellsPlanned, PlanBuy, BuysPlanned,
       CoreTicket, CoreWorked, SatelliteStart, Satellite, Finish, Idle, market, ticks

\* An admitted buy fits into what the day has left of the cap.
LEMMA AdmittedFits ==
    ASSUME TypeOK, NEW x \in Names, NEW notional \in Nat, NEW calendar \in BOOLEAN,
           BuyAllowed(Snapshot, x, notional, calendar)
    PROVE  dayBuys + notional <= PctOf(TurnoverCapDay, Equity)
<1>1. BookTyped
  BY DEF TypeOK
<1>2. Equity \in Int /\ dayBuys \in Int
  BY <1>1, ValueType DEF BookTyped
<1>3. TurnoverCapDay \in Int
  BY DEF TurnoverCapDay
<1>4. PctOf(TurnoverCapDay, Equity) \in Int
  BY <1>2, <1>3, PctType
<1>5. notional >= 5000 /\ notional <= TurnoverRoom(Snapshot)
  BY DEF BuyAllowed, MinNameNotional
<1>6. Snapshot.equity = Equity /\ Snapshot.dayBuys = dayBuys
  BY DEF Snapshot
<1>. DEFINE cap == PctOf(TurnoverCapDay, Equity)
<1>7. TurnoverRoom(Snapshot) = IF Equity <= 0 THEN 0 ELSE AtLeastZero(cap - dayBuys)
  BY <1>6 DEF TurnoverRoom
<1>. HIDE DEF cap
<1>8. cap \in Int
  BY <1>4 DEF cap
<1>9. dayBuys + notional <= cap
  BY <1>2, <1>5, <1>7, <1>8 DEF AtLeastZero
<1>. QED
  BY <1>9 DEF cap

\* A step of Execute either buys an admitted notional, or no position grows
\* and the day's counters stand still.
LEMMA ExecuteBuys ==
    ASSUME TypeOK, Execute
    PROVE  \/ ~Buys /\ UNCHANGED <<dayBuys, bought>>
           \/ \E n \in Nat : /\ dayBuys' = dayBuys + n /\ bought' = bought + n
                             /\ dayBuys + n <= PctOf(TurnoverCapDay, Equity)
<1>0. StatementTyped /\ BookTyped /\ DeskTyped /\ FrameTyped
  BY DEF TypeOK
<1>1. \A x \in Names : pos[x] \in PositionType /\ pos[x].qty \in Nat /\ sat[x].qty \in Nat
  BY <1>0 DEF BookTyped, PositionType, TradeType
<1>2. ASSUME UNCHANGED <<pos, dayBuys, bought>> PROVE ~Buys /\ UNCHANGED <<dayBuys, bought>>
  BY <1>1, <1>2 DEF Buys
<1>3. ASSUME NEW x \in Names, NEW left \in Int, left <= pos[x].qty,
             pos' = [pos EXCEPT ![x] = Held(x, left)]
      PROVE  ~Buys
  <2>1. Held(x, left).qty <= pos[x].qty
    BY <1>1, <1>3 DEF Held, Flat
  <2>2. ASSUME NEW y \in Names PROVE pos'[y].qty <= pos[y].qty
    <3>1. CASE y = x
      BY <1>0, <1>3, <2>1, <3>1 DEF BookTyped
    <3>2. CASE y # x
      BY <1>0, <1>1, <1>3, <3>2 DEF BookTyped
    <3>. QED
      BY <3>1, <3>2
  <2>3. \A y \in Names : Held(x, left) \in PositionType /\ pos'[y].qty \in Nat
    BY <1>0, <1>1, <1>3, HeldType DEF BookTyped, PositionType
  <2>. QED
    BY <1>1, <2>2, <2>3 DEF Buys
<1>4. CASE ExitTrade
  <2>1. ex.i \in Names /\ UNCHANGED <<dayBuys, bought>>
    BY <1>0, <1>4, LoopName DEF ExitTrade, Loops
  <2>2. CASE CloseTrade(ex.i)
    <3>. DEFINE left == pos[ex.i].qty - sat[ex.i].qty
    <3>1. left \in Int /\ left <= pos[ex.i].qty
      BY <1>1, <2>1
    <3>2. pos' = [pos EXCEPT ![ex.i] = Held(ex.i, left)]
      BY <2>2 DEF CloseTrade, Held
    <3>. HIDE DEF left
    <3>. QED
      BY <1>3, <2>1, <3>1, <3>2
  <2>. QED
    BY <1>2, <1>4, <2>1, <2>2 DEF ExitTrade
<1>5. CASE CoreTicket
  <2>. DEFINE t == ex.tickets[ex.i]
  <2>1. ex.i \in Nat /\ ex.i >= 1 /\ ex.tickets \in Seq(TicketType) /\ ex.i <= Len(ex.tickets)
    BY <1>0, <1>5, FrameFields DEF CoreTicket, Loops
  <2>2. t \in TicketType
    BY <2>1
  <2>3. t.sym \in Names /\ t.qty \in Nat /\ t.price \in Nat /\ Notional(t) \in Nat
    BY <2>2, ProductType DEF TicketType, Notional
  <2>4. CASE SellCore(t)
    <3>. DEFINE left == pos[t.sym].qty - t.qty
    <3>1. left \in Int /\ left <= pos[t.sym].qty
      BY SMTT(60), <1>1, <2>3
    <3>2. pos' = [pos EXCEPT ![t.sym] = Held(t.sym, left)] /\ UNCHANGED <<dayBuys, bought>>
      BY <2>4 DEF SellCore
    <3>. HIDE DEF t, left
    <3>. QED
      BY <1>3, <2>3, <3>1, <3>2
  <2>5. CASE BuyCore(t) /\ BuyAllowed(Snapshot, t.sym, Notional(t), TRUE)
    <3>1. dayBuys' = dayBuys + Notional(t) /\ bought' = bought + Notional(t)
      BY <2>5 DEF BuyCore
    <3>2. dayBuys + Notional(t) <= PctOf(TurnoverCapDay, Equity)
      BY <2>3, <2>5, AdmittedFits
    <3>. QED
      BY SMTT(60), <2>3, <3>1, <3>2
  <2>6. CASE UNCHANGED <<cash, period, dayBuys, bought, coreQty, pos>>
    BY <1>2, <2>6
  <2>. QED
    BY <1>5, <2>4, <2>5, <2>6 DEF CoreTicket
<1>6. CASE Satellite
  <2>1. CASE UNCHANGED <<cash, period, sat, pos, dayBuys, bought, peak>>
    BY <1>2, <2>1
  <2>2. ASSUME NEW qty \in Nat, ex.i \in Names, Wants(ex.i), BuySatellite(ex.i, qty),
               BuyAllowed(Snapshot, ex.i, qty * BuyFill(last[ex.i]), FALSE)
        PROVE  \E n \in Nat : /\ dayBuys' = dayBuys + n /\ bought' = bought + n
                              /\ dayBuys + n <= PctOf(TurnoverCapDay, Equity)
    <3>. DEFINE cost == qty * BuyFill(last[ex.i])
    <3>1. BuyFill(last[ex.i]) \in Nat
      BY <1>0, <2>2, FrameFields, MarkType, SlipType
    <3>2. cost \in Nat
      BY <3>1, ProductType
    <3>3. dayBuys' = dayBuys + cost /\ bought' = bought + cost
      BY <2>2 DEF BuySatellite
    <3>4. BuyAllowed(Snapshot, ex.i, cost, FALSE)
      BY <2>2
    <3>. HIDE DEF cost
    <3>5. dayBuys + cost <= PctOf(TurnoverCapDay, Equity)
      BY <2>2, <3>2, <3>4, AdmittedFits
    <3>. QED
      BY <3>2, <3>3, <3>5
  <2>. QED
    BY <1>6, <2>1, <2>2, SatelliteBuys
<1>7. CASE \/ CoreSession \/ PlanSell \/ SellsPlanned \/ PlanBuy \/ BuysPlanned
           \/ CoreWorked \/ SatelliteStart \/ Finish
  <2>1. UNCHANGED <<pos, dayBuys, bought>>
    BY <1>7 DEF CoreSession, PlanSell, SellsPlanned, PlanBuy, BuysPlanned, CoreWorked,
                SatelliteStart, Finish, book
  <2>. QED
    BY <1>2, <2>1
<1>. QED
  BY <1>4, <1>5, <1>6, <1>7 DEF Execute

\* No other step makes a position grow.
LEMMA OnlyExecuteBuys ==
    ASSUME TypeOK, Exchange \/ Operator \/ \E t \in Tickers : Tick(t)
    PROVE  ~Buys
<1>0. BookTyped /\ TickersTyped
  BY DEF TypeOK
<1>1. \A x \in Names : pos[x].qty \in Nat
  BY <1>0 DEF BookTyped, PositionType
<1>2. ASSUME \A x \in Names : pos'[x].qty = pos[x].qty PROVE ~Buys
  BY <1>1, <1>2 DEF Buys
<1>3. CASE Exchange
  <2>1. UNCHANGED pos
    BY <1>3 DEF Exchange, CloseMarket, NextDay, CampaignEnds, Horizon, vars, book
  <2>. QED
    BY <1>2, <2>1
<1>4. CASE StartCampaign
  BY <1>1, <1>4 DEF StartCampaign, FreshBook, Flat, Buys
<1>5. CASE (\E on \in BOOLEAN : SetAutopilot(on)) \/ (\E p \in Policies : BindIPS(p))
  <2>1. UNCHANGED pos
    BY <1>5 DEF SetAutopilot, BindIPS, book
  <2>. QED
    BY <1>2, <2>1
<1>6. CASE PreviewTargets
  <2>1. PICK marks \in [Names -> Prices] : pos' = Marked(QuotesOf(marks))
    BY <1>6 DEF PreviewTargets
  <2>. QED
    BY <1>0, <1>2, <2>1, QuotesType, MarkedType
<1>7. ASSUME NEW t \in Tickers, Tick(t) PROVE ~Buys
  <2>1. CASE Lock(t)
    <3>1. quote[t].last \in MarksType
      BY <1>0 DEF TickersTyped, QuoteType
    <3>2. pos' = Marked(quote[t].last)
      BY <2>1 DEF Lock
    <3>. QED
      BY <1>0, <1>2, <3>1, <3>2, MarkedType
  <2>2. CASE TickStart(t) \/ TickEnded(t) \/ Plan(t) \/ Check(t) \/ GetQuotes(t)
    <3>1. UNCHANGED pos
      BY <2>2 DEF TickStart, TickEnded, Plan, Check, GetQuotes, book
    <3>. QED
      BY <1>2, <3>1
  <2>. QED
    BY <1>7, <2>1, <2>2 DEF Tick
<1>. QED
  BY <1>3, <1>4, <1>5, <1>6, <1>7 DEF Operator

LEMMA InitTurnover == Init => TurnoverCounted
BY DEF Init, TurnoverCounted, Idle, NoExec

\* The counters stay together: a step that moves none of them, a night, the
\* roll at the lock, and a buy that counts in both.
LEMMA TurnoverStep ==
    ASSUME TypeOK, TurnoverCounted, [Next]_vars
    PROVE  TurnoverCounted'
<1>0. /\ day \in Nat /\ dayKey \in Nat /\ dayBuys \in Nat /\ bought \in Nat
      /\ TickersTyped
  BY DEF TypeOK, MarketTyped, BookTyped
<1>1. ASSUME UNCHANGED <<day, dayKey, dayBuys, bought, ex, pc, quote>> PROVE TurnoverCounted'
  BY <1>1 DEF TurnoverCounted, Idle
<1>2. CASE UNCHANGED vars
  BY <1>1, <1>2 DEF vars, market, book, ticks
<1>3. CASE Exchange
  <2>1. CASE NextDay
    <3>1. day' = day + 1 /\ bought' = 0 /\ Idle /\ UNCHANGED <<dayKey, dayBuys, ex, pc, quote>>
      BY <2>1 DEF NextDay, ticks
    <3>2. \A t \in Tickers : pc[t] # "lock"
      BY <2>1 DEF NextDay
    <3>. QED
      BY <1>0, <3>1, <3>2 DEF TurnoverCounted, Idle
  <2>2. CASE CloseMarket \/ CampaignEnds \/ Horizon
    <3>1. UNCHANGED <<day, dayKey, dayBuys, bought, ex, pc, quote>>
      BY <2>2 DEF CloseMarket, CampaignEnds, Horizon, vars, market, book, ticks
    <3>. QED
      BY <1>1, <3>1
  <2>. QED
    BY <1>3, <2>1, <2>2 DEF Exchange
<1>4. CASE Operator
  <2>1. UNCHANGED <<day, dayKey, dayBuys, bought, ex, pc, quote>>
    BY <1>4 DEF Operator, StartCampaign, SetAutopilot, BindIPS, PreviewTargets, market, book, ticks
  <2>. QED
    BY <1>1, <2>1
<1>5. ASSUME NEW t \in Tickers, Tick(t) PROVE TurnoverCounted'
  <2>1. CASE TickStart(t) \/ TickEnded(t) \/ Plan(t) \/ Check(t) \/ GetQuotes(t)
    <3>1. UNCHANGED <<day, dayKey, dayBuys, bought, ex>>
      BY <2>1 DEF TickStart, TickEnded, Plan, Check, GetQuotes, market, book
    <3>2. \A s \in Tickers : pc'[s] = "lock" => quote'[s].day = day'
      <4>1. CASE TickStart(t) \/ TickEnded(t) \/ Plan(t) \/ Check(t)
        BY <1>0, <3>1, <4>1 DEF TickStart, TickEnded, Plan, Check, TurnoverCounted, TickersTyped, ticks
      <4>2. CASE GetQuotes(t)
        BY <1>0, <3>1, <4>2 DEF GetQuotes, TurnoverCounted, TickersTyped
      <4>. QED
        BY <2>1, <4>1, <4>2
    <3>. QED
      BY <3>1, <3>2 DEF TurnoverCounted, Idle
  <2>2. CASE Lock(t)
    <3>1. quote[t].day = day
      BY <2>2 DEF Lock, TurnoverCounted
    <3>2. dayKey' = day /\ dayBuys' = IF day = dayKey THEN dayBuys ELSE 0
      BY <2>2, <3>1 DEF Lock, RollSession
    <3>3. UNCHANGED <<day, bought>>
      BY <2>2 DEF Lock, market
    <3>4. \A s \in Tickers : pc'[s] = "lock" => quote'[s].day = day'
      BY <1>0, <2>2, <3>3 DEF Lock, TurnoverCounted, TickersTyped
    <3>. QED
      BY <1>0, <3>2, <3>3, <3>4 DEF TurnoverCounted
  <2>. QED
    BY <1>5, <2>1, <2>2 DEF Tick
<1>6. CASE Execute
  <2>1. ~Idle /\ UNCHANGED <<day, dayKey, pc, quote>>
    BY <1>6, ExecuteFrame
  <2>2. dayKey = day /\ bought <= dayBuys
    BY <2>1 DEF TurnoverCounted
  <2>3. bought' <= dayBuys'
    BY <1>0, <1>6, <2>2, ExecuteBuys
  <2>. QED
    BY <1>0, <2>1, <2>2, <2>3 DEF TurnoverCounted
<1>. QED
  BY <1>2, <1>3, <1>4, <1>5, <1>6 DEF Next

\* No day's buys pass the turnover cap, for every universe, tape, set of
\* statements and number of tickers: check.go TurnoverRoom counts what
\* book.go rollSessionLocked keeps, and no restart, re-binding or racing
\* tick makes the counter forget a buy of the day.
THEOREM TurnoverAlwaysCapped == Spec => TurnoverPerDay
<1>1. Spec => []TypeOK
  BY TypeCorrect
<1>2. TypeOK /\ TurnoverCounted /\ [Next]_vars => TurnoverCounted'
  BY TurnoverStep
<1>3. TypeOK /\ TurnoverCounted /\ [Next]_vars
        => [Buys => bought' <= PctOf(TurnoverCapDay, Equity)]_vars
  <2>. SUFFICES ASSUME TypeOK, TurnoverCounted, Next, Buys
                PROVE  bought' <= PctOf(TurnoverCapDay, Equity)
    OBVIOUS
  <2>1. Execute
    BY OnlyExecuteBuys DEF Next
  <2>2. bought <= dayBuys /\ bought \in Nat /\ dayBuys \in Nat
    BY <2>1, ExecuteFrame DEF TurnoverCounted, TypeOK, BookTyped
  <2>3. PICK n \in Nat : /\ dayBuys' = dayBuys + n /\ bought' = bought + n
                         /\ dayBuys + n <= PctOf(TurnoverCapDay, Equity)
    BY <2>1, ExecuteBuys
  <2>4. Equity \in Int /\ TurnoverCapDay \in Int
    BY ValueType DEF TypeOK, TurnoverCapDay
  <2>5. PctOf(TurnoverCapDay, Equity) \in Int
    BY <2>4, PctType
  <2>. QED
    BY <2>2, <2>3, <2>5
<1>. QED
  BY <1>1, <1>2, <1>3, InitTurnover, PTL DEF Spec, TurnoverPerDay
-----------------------------------------------------------------------------
(* What the book is worth.  Under the mutex every position stands at the   *)
(* quotes of the tick, so equity is cash and the two sleeves; a name       *)
(* without a series is never held.  TLC checks both invariants below.      *)

\* A mark is missing exactly where the tape has no series.
Quoted(marks) == \A x \in Names : marks[x] = 0 <=> x \in Unquoted

QuotesQuoted == /\ \A t \in Tickers : pc[t] = "lock" => Quoted(quote[t].last)
                /\ ~Idle => Quoted(last)
                /\ period # NoPeriod => Quoted(lastMarks)

\* A name without a series is in neither sleeve and on no ticket.
UnquotedEmpty ==
    \A x \in Unquoted : pos[x].qty = 0 /\ pos[x].mv = 0 /\ coreQty[x] = 0 /\ sat[x].qty = 0

TicketsQuoted == \A j \in 1..Len(ex.tickets) : ex.tickets[j].sym \notin Unquoted

MarkedAtQuotes == ~Idle => \A x \in Names : pos[x].mv = pos[x].qty * last[x]

\* Nothing is planned or bought without a statement.
BuysAreBound ==
    ex.phase \in {"sells", "buys", "tickets"} \/ (ex.phase = "satellite" /\ ex.i # 0)
        => ips # Unbound

PeakKept == peak >= StartCash

MarksInv == QuotesQuoted /\ UnquotedEmpty /\ TicketsQuoted /\ MarkedAtQuotes
            /\ BuysAreBound /\ PeakKept

LEMMA QuotesOfQuoted ==
    ASSUME NEW marks \in [Names -> Prices]
    PROVE  Quoted(QuotesOf(marks))
BY PriceAssumption DEF Quoted, QuotesOf

\* A fill of one sleeve: a quoted name's units and position, the cash it
\* moves and the flow the period counts for it.
CoreFill(x, q, p, a) ==
    /\ ips # Unbound
    /\ cash' = cash + a /\ period' = CoreFlow(a)
    /\ coreQty' = [coreQty EXCEPT ![x] = q] /\ pos' = [pos EXCEPT ![x] = Held(x, p)]
    /\ UNCHANGED <<sat, rows>>

SatFill(x, tr, p, a) ==
    /\ ips # Unbound \/ sat[x].qty > 0
    /\ cash' = cash + a /\ period' = SatFlow(a)
    /\ sat' = [sat EXCEPT ![x] = tr] /\ pos' = [pos EXCEPT ![x] = Held(x, p)]
    /\ UNCHANGED <<coreQty, rows>>

\* The ticket whose turn it is.
LEMMA TicketNow ==
    ASSUME FrameTyped, ex.phase = "tickets", ex.i <= Len(ex.tickets)
    PROVE  LET t == ex.tickets[ex.i]
           IN  /\ ex.i \in 1..Len(ex.tickets) /\ t \in TicketType
               /\ t.sym \in Names /\ t.qty \in Nat /\ t.price \in Nat /\ Notional(t) \in Nat
<1>1. /\ ex.i \in 1..Len(ex.tickets) /\ ex.tickets \in Seq(TicketType)
  BY FrameFields DEF Loops
<1>2. ex.tickets[ex.i] \in TicketType
  BY <1>1
<1>. QED
  BY <1>1, <1>2, ProductType DEF TicketType, Notional

\* What Execute does to the book: one fill, or nothing beside the period.
LEMMA Fills ==
    ASSUME TypeOK, MarksInv, Execute
    PROVE  \/ \E x \in Names \ Unquoted, q \in Nat, p \in Int, a \in Int : CoreFill(x, q, p, a)
           \/ \E x \in Names \ Unquoted, tr \in TradeType, p \in Int, a \in Int : SatFill(x, tr, p, a)
           \/ /\ UNCHANGED <<cash, pos, coreQty, sat>>
              /\ CoreSession \/ Finish \/ UNCHANGED <<period, rows>>
<1>0. StatementTyped /\ BookTyped /\ DeskTyped /\ FrameTyped
  BY DEF TypeOK
<1>1. /\ last \in MarksType /\ today \in Nat
      /\ \A x \in Names : /\ pos[x].qty \in Nat /\ sat[x].qty \in Nat /\ coreQty[x] \in Nat
                          /\ last[x] \in Nat /\ (last[x] = 0 \/ last[x] >= 20)
  BY <1>0, FrameFields, MarkType DEF BookTyped, PositionType, TradeType
<1>2. ~Idle
  BY ExecuteFrame
<1>3. \A x \in Names : last[x] # 0 => x \in Names \ Unquoted
  BY <1>2 DEF MarksInv, QuotesQuoted, Quoted
<1>4. CASE ExitTrade
  <2>1. CASE CloseTrade(ex.i) /\ sat[ex.i].qty > 0 /\ last[ex.i] # 0 /\ UNCHANGED <<coreQty, rows>>
    <3>. DEFINE x        == ex.i
                proceeds == sat[x].qty * SellFill(last[x])
                net      == proceeds - RoundTripSell(proceeds)
                left     == pos[x].qty - sat[x].qty
    <3>1. x \in Names
      BY <1>0, <1>4, LoopName DEF ExitTrade, Loops
    <3>2. SellFill(last[x]) \in Nat
      BY <1>1, <3>1, SlipType
    <3>3. proceeds \in Nat
      BY <1>1, <3>1, <3>2, ProductType
    <3>4. net \in Int
      <4>. HIDE DEF proceeds
      <4>. QED
        BY <3>3, ChargeType
    <3>5. /\ cash' = cash + net /\ period' = SatFlow(net)
          /\ pos' = [pos EXCEPT ![x] = Held(x, left)] /\ sat' = [sat EXCEPT ![x] = NoTrade]
      BY <2>1 DEF CloseTrade, Held
    <3>6. left \in Int /\ NoTrade \in TradeType
      BY <1>1, <3>1 DEF NoTrade, TradeType
    <3>7. x \in Names \ Unquoted
      BY <1>3, <2>1, <3>1
    <3>8. SatFill(x, NoTrade, left, net)
      <4>. HIDE DEF net, left, x
      <4>. QED
        BY <2>1, <3>5 DEF SatFill, x
    <3>. HIDE DEF x, net, left
    <3>. QED
      BY <3>4, <3>6, <3>7, <3>8
  <2>2. CASE UNCHANGED <<cash, period, pos, sat, coreQty, rows>>
    BY <2>2
  <2>. QED
    BY <1>4, <2>1, <2>2 DEF ExitTrade
<1>5. CASE CoreTicket
  <2>. DEFINE t == ex.tickets[ex.i]
  <2>1. /\ ex.i \in 1..Len(ex.tickets) /\ t.sym \in Names /\ t.qty \in Nat
        /\ Notional(t) \in Nat /\ ex.phase = "tickets" /\ UNCHANGED <<sat, rows>>
    BY <1>0, <1>5, TicketNow DEF CoreTicket
  <2>2. t.sym \in Names \ Unquoted /\ ips # Unbound
    BY <2>1 DEF MarksInv, TicketsQuoted, BuysAreBound
  <2>3. CASE SellCore(t)
    <3>. DEFINE net  == Notional(t) - RoundTripSell(Notional(t))
                q    == AtLeastZero(coreQty[t.sym] - t.qty)
                left == pos[t.sym].qty - t.qty
    <3>1. net \in Int
      BY SMTT(60), <2>1, ChargeType
    <3>2. q \in Nat /\ left \in Int
      <4>1. coreQty[t.sym] - t.qty \in Int /\ left \in Int
        BY SMTT(60), <1>1, <2>1
      <4>. QED
        BY <4>1 DEF AtLeastZero
    <3>3. /\ cash' = cash + net /\ period' = CoreFlow(net)
          /\ coreQty' = [coreQty EXCEPT ![t.sym] = q]
          /\ pos' = [pos EXCEPT ![t.sym] = Held(t.sym, left)]
      BY <2>3 DEF SellCore
    <3>. HIDE DEF t, net, q, left
    <3>4. CoreFill(t.sym, q, left, net)
      BY <2>1, <2>2, <3>3 DEF CoreFill
    <3>. QED
      BY <2>2, <3>1, <3>2, <3>4
  <2>4. CASE BuyCore(t)
    <3>. DEFINE spent == Notional(t) + RoundTripBuy(Notional(t))
                q     == coreQty[t.sym] + t.qty
                now   == pos[t.sym].qty + t.qty
    <3>1. spent \in Int
      BY <2>1, ChargeType
    <3>2. q \in Nat /\ now \in Int
      BY SMTT(60), <1>1, <2>1
    <3>3. /\ cash' = cash - spent /\ period' = CoreFlow(-spent)
          /\ coreQty' = [coreQty EXCEPT ![t.sym] = q]
          /\ pos' = [pos EXCEPT ![t.sym] = Held(t.sym, now)]
      BY <2>4 DEF BuyCore
    <3>. HIDE DEF t, spent, q, now
    <3>4. -spent \in Int /\ cash' = cash + (-spent)
      BY <1>0, <3>1, <3>3 DEF BookTyped
    <3>5. CoreFill(t.sym, q, now, -spent)
      BY <2>1, <2>2, <3>3, <3>4 DEF CoreFill
    <3>. QED
      BY <2>2, <3>2, <3>4, <3>5
  <2>5. CASE UNCHANGED <<cash, period, dayBuys, bought, coreQty, pos>>
    BY <2>1, <2>5
  <2>. QED
    BY <1>5, <2>3, <2>4, <2>5 DEF CoreTicket
<1>6. CASE Satellite
  <2>1. CASE UNCHANGED <<cash, period, sat, pos, dayBuys, bought, peak>>
    BY <1>6, <2>1 DEF Satellite
  <2>2. ASSUME NEW qty \in Nat, ex.i \in Names, Wants(ex.i), BuySatellite(ex.i, qty)
        PROVE  \E x \in Names \ Unquoted, tr \in TradeType, p \in Int, a \in Int : SatFill(x, tr, p, a)
    <3>. DEFINE x     == ex.i
                fill  == BuyFill(last[x])
                cost  == qty * fill
                spent == cost + RoundTripBuy(cost)
                now   == pos[x].qty + qty
                tr    == [qty |-> qty, entry |-> fill, opened |-> today]
    <3>1. fill \in Nat
      BY <1>1, <2>2, SlipType
    <3>2. cost \in Nat
      BY <2>2, <3>1, ProductType
    <3>3. spent \in Int
      <4>. HIDE DEF cost
      <4>. QED
        BY <3>2, ChargeType
    <3>4. /\ cash' = cash - spent /\ period' = SatFlow(-spent)
          /\ sat' = [sat EXCEPT ![x] = tr]
          /\ pos' = [pos EXCEPT ![x] = Held(x, now)]
      BY <2>2 DEF BuySatellite
    <3>5. tr \in TradeType /\ now \in Int
      BY <1>1, <2>2, <3>1 DEF TradeType
    <3>6. x \in Names \ Unquoted
      BY <1>3, <2>2 DEF Wants
    <3>7. ips # Unbound /\ UNCHANGED <<coreQty, rows>>
      <4>1. ex.phase = "satellite" /\ UNCHANGED <<coreQty, rows>>
        BY <1>6 DEF Satellite
      <4>2. ex.i # 0
        BY <2>2 DEF Names
      <4>. QED
        BY <4>1, <4>2 DEF MarksInv, BuysAreBound
    <3>. HIDE DEF x, tr, spent, now
    <3>8. -spent \in Int /\ cash' = cash + (-spent)
      BY <1>0, <3>3, <3>4 DEF BookTyped
    <3>9. SatFill(x, tr, now, -spent)
      BY <3>4, <3>7, <3>8 DEF SatFill
    <3>. QED
      BY <3>5, <3>6, <3>8, <3>9
  <2>. QED
    BY <1>6, <2>1, <2>2, SatelliteBuys
<1>7. CASE CoreSession \/ Finish
  BY <1>7 DEF CoreSession, Finish, book
<1>8. CASE PlanSell \/ SellsPlanned \/ PlanBuy \/ BuysPlanned \/ CoreWorked \/ SatelliteStart
  BY <1>8 DEF PlanSell, SellsPlanned, PlanBuy, BuysPlanned, CoreWorked, SatelliteStart, book, ledger
<1>. QED
  BY <1>4, <1>5, <1>6, <1>7, <1>8 DEF Execute

\* Every form the frame's step can take keeps the quotes of the tick.
LEMMA FrameForms ==
    ASSUME FrameTyped
    PROVE  /\ \A phase, i : Goto(phase, i) => /\ ex'.quote = ex.quote /\ ex'.tickets = ex.tickets
                                              /\ ex'.phase = phase /\ ex'.i = i
           /\ Skipped \/ Deferred => /\ ex'.quote = ex.quote /\ ex'.tickets = ex.tickets
                                     /\ ex'.phase = ex.phase /\ ex'.i = ex.i + 1
           /\ \A t, snap, whole : Planned(t, snap, whole) =>
                  /\ ex'.quote = ex.quote /\ ex'.tickets = Append(ex.tickets, t)
                  /\ ex'.phase = ex.phase /\ ex'.i = ex.i + 1
BY DEF FrameTyped, FrameType, Goto, Skipped, Deferred, Planned

LEMMA TicketAdded ==
    ASSUME TicketsQuoted, ex.tickets \in Seq(TicketType), NEW t, t.sym \notin Unquoted,
           ex'.tickets = Append(ex.tickets, t)
    PROVE  TicketsQuoted'
<1>1. /\ Len(ex'.tickets) = Len(ex.tickets) + 1 /\ Len(ex.tickets) \in Nat
      /\ \A j \in 1..Len(ex.tickets) : ex'.tickets[j] = ex.tickets[j]
      /\ ex'.tickets[Len(ex.tickets) + 1] = t
  OBVIOUS
<1>2. \A j \in 1..Len(ex'.tickets) : j \in 1..Len(ex.tickets) \/ j = Len(ex.tickets) + 1
  BY <1>1
<1>. QED
  BY <1>1, <1>2 DEF TicketsQuoted

\* What Execute does to its own frame.
LEMMA FrameMoves ==
    ASSUME TypeOK, MarksInv, Execute
    PROVE  /\ ex' = NoExec \/ ex'.quote = ex.quote
           /\ TicketsQuoted' /\ BuysAreBound'
           /\ UNCHANGED <<ips, camp, lastMarks, pc, quote>>
<1>0. FrameTyped
  BY DEF TypeOK
<1>1. UNCHANGED <<ips, camp, lastMarks, pc, quote>>
  BY DEF Execute, ExitTrade, CoreSession, PlanSell, SellsPlanned, PlanBuy, BuysPlanned, CoreTicket,
         CoreWorked, SatelliteStart, Satellite, Finish, policy, ticks
<1>2. TicketsQuoted /\ (ex'.tickets = ex.tickets => TicketsQuoted')
  BY DEF MarksInv, TicketsQuoted
<1>3. ex.tickets \in Seq(TicketType) /\ ex.i \in Nat
  BY <1>0, FrameFields
<1>4. \A x \in Names : last[x] # 0 => x \notin Unquoted
  BY ExecuteFrame DEF MarksInv, QuotesQuoted, Quoted
<1>5. ASSUME ex'.phase = ex.phase, ex.i # 0 PROVE BuysAreBound'
  BY <1>1, <1>5 DEF MarksInv, BuysAreBound
<1>6. CASE ExitTrade
  <2>1. ex'.quote = ex.quote /\ ex'.tickets = ex.tickets /\ ex'.phase \in {"exits", "core"}
    BY <1>0, <1>6, FrameForms DEF ExitTrade
  <2>. QED
    BY <1>1, <1>2, <2>1 DEF BuysAreBound
<1>7. CASE CoreSession
  <2>1. CASE ips # Unbound
    <3>1. ex'.quote = ex.quote /\ ex'.tickets = ex.tickets
      BY <1>0, <1>7, FrameForms DEF CoreSession, FrameTyped, FrameType
    <3>. QED
      BY <1>1, <1>2, <2>1, <3>1 DEF BuysAreBound
  <2>2. CASE ips = Unbound
    <3>1. Goto("satellite", 0)
      BY <1>7, <2>2 DEF CoreSession
    <3>2. ex'.quote = ex.quote /\ ex'.tickets = ex.tickets /\ ex'.phase = "satellite" /\ ex'.i = 0
      BY <1>0, <3>1, FrameForms
    <3>. QED
      BY <1>1, <1>2, <3>2 DEF BuysAreBound
  <2>. QED
    BY <2>1, <2>2
<1>8. CASE PlanSell
  <2>. DEFINE x == ex.i
              t == Ticket(x, "SELL", SellQty(x), SellFill(last[x]))
  <2>1. ex.phase = "sells" /\ ex.i # 0 /\ ex.i \in Names /\ ips # Unbound
    BY <1>0, <1>8, FrameFields, LoopName DEF PlanSell, Loops, MarksInv, BuysAreBound
  <2>2. \/ Skipped \/ Deferred
        \/ /\ last[x] # 0
           /\ Planned(t, AfterSell(ex.snap, x, Notional(t), SellQty(x) * last[x]), TRUE)
    BY <1>8 DEF PlanSell
  <2>3. CASE Skipped \/ Deferred
    <3>1. ex'.quote = ex.quote /\ ex'.tickets = ex.tickets /\ ex'.phase = ex.phase
      BY <1>0, <2>3, FrameForms
    <3>. QED
      BY <1>1, <1>2, <1>5, <2>1, <3>1
  <2>4. ASSUME last[x] # 0, NEW snap, Planned(t, snap, TRUE)
        PROVE  ex'.quote = ex.quote /\ TicketsQuoted' /\ BuysAreBound'
    <3>1. ex'.quote = ex.quote /\ ex'.tickets = Append(ex.tickets, t) /\ ex'.phase = ex.phase
      BY <1>0, <2>4, FrameForms
    <3>2. t.sym \notin Unquoted
      BY <1>4, <2>1, <2>4 DEF Ticket
    <3>. HIDE DEF t
    <3>. QED
      BY <1>2, <1>3, <1>5, <2>1, <3>1, <3>2, TicketAdded
  <2>. HIDE DEF x, t
  <2>. QED
    BY <1>1, <2>2, <2>3, <2>4
<1>9. CASE PlanBuy
  <2>. DEFINE x    == ex.i
              room == Lesser(-ex.drift[x], RailRoom(ex.snap, x))
              t    == Ticket(x, "BUY", room \div BuyFill(last[x]), BuyFill(last[x]))
              whole == ~(room < -ex.drift[x] - 1)
  <2>1. ex.phase = "buys" /\ ex.i # 0 /\ ex.i \in Names /\ ips # Unbound
    BY <1>0, <1>9, FrameFields, LoopName DEF PlanBuy, Loops, MarksInv, BuysAreBound
  <2>2. \/ Skipped \/ Deferred
        \/ /\ last[x] # 0
           /\ Planned(t, AfterBuy(ex.snap, x, Notional(t)), whole)
    BY <1>9 DEF PlanBuy
  <2>3. CASE Skipped \/ Deferred
    <3>1. ex'.quote = ex.quote /\ ex'.tickets = ex.tickets /\ ex'.phase = ex.phase
      BY <1>0, <2>3, FrameForms
    <3>. QED
      BY <1>1, <1>2, <1>5, <2>1, <3>1
  <2>4. ASSUME last[x] # 0, NEW snap, Planned(t, snap, whole)
        PROVE  ex'.quote = ex.quote /\ TicketsQuoted' /\ BuysAreBound'
    <3>1. ex'.quote = ex.quote /\ ex'.tickets = Append(ex.tickets, t) /\ ex'.phase = ex.phase
      BY <1>0, <2>4, FrameForms
    <3>2. t.sym \notin Unquoted
      BY <1>4, <2>1, <2>4 DEF Ticket
    <3>. HIDE DEF t
    <3>. QED
      BY <1>2, <1>3, <1>5, <2>1, <3>1, <3>2, TicketAdded
  <2>. HIDE DEF x, t, whole
  <2>. QED
    BY <1>1, <2>2, <2>3, <2>4
<1>10. CASE SellsPlanned \/ BuysPlanned
  <2>1. ex.phase \in {"sells", "buys"}
    BY <1>10 DEF SellsPlanned, BuysPlanned
  <2>2. ex'.quote = ex.quote /\ ex'.tickets = ex.tickets /\ ips # Unbound
    BY <1>0, <1>10, <2>1, FrameForms DEF SellsPlanned, BuysPlanned, FrameTyped, FrameType,
                                         MarksInv, BuysAreBound
  <2>. QED
    BY <1>1, <1>2, <2>2 DEF BuysAreBound
<1>11. CASE CoreTicket
  <2>1. ex.phase = "tickets" /\ ex.i # 0 /\ (Skipped \/ Deferred)
    <3>1. ex.phase = "tickets" /\ (Skipped \/ Deferred)
      BY <1>11 DEF CoreTicket
    <3>2. ex.i >= 1
      BY <1>0, <3>1, FrameFields DEF Loops
    <3>. QED
      BY <1>3, <3>1, <3>2
  <2>2. ex'.quote = ex.quote /\ ex'.tickets = ex.tickets /\ ex'.phase = ex.phase
    BY <1>0, <2>1, FrameForms
  <2>. QED
    BY <1>1, <1>2, <1>5, <2>1, <2>2
<1>12. CASE CoreWorked
  <2>1. /\ ex'.quote = ex.quote /\ ex'.tickets = NoTickets /\ ex'.phase = "satellite" /\ ex'.i = 0
    BY <1>0, <1>12 DEF CoreWorked, FrameTyped, FrameType
  <2>. QED
    BY <1>1, <2>1 DEF BuysAreBound, TicketsQuoted, NoTickets
<1>13. CASE SatelliteStart
  <2>1. ex'.quote = ex.quote /\ ex'.tickets = ex.tickets /\ (ips # Unbound \/ ex'.phase = "finish")
    BY <1>0, <1>13, FrameForms DEF SatelliteStart
  <2>. QED
    BY <1>1, <1>2, <2>1 DEF BuysAreBound
<1>14. CASE Satellite
  <2>1. /\ ex.phase = "satellite" /\ ex.i # 0 /\ (Goto("finish", 0) \/ Skipped)
    BY <1>14 DEF Satellite, Names
  <2>2. ex'.quote = ex.quote /\ ex'.tickets = ex.tickets /\ ips # Unbound
    BY <1>0, <2>1, FrameForms DEF MarksInv, BuysAreBound
  <2>. QED
    BY <1>1, <1>2, <2>2 DEF BuysAreBound
<1>15. CASE Finish
  <2>1. ex' = NoExec
    BY <1>15 DEF Finish
  <2>. QED
    BY <1>1, <2>1 DEF NoExec, NoTickets, TicketsQuoted, BuysAreBound
<1>. QED
  BY <1>6, <1>7, <1>8, <1>9, <1>10, <1>11, <1>12, <1>13, <1>14, <1>15 DEF Execute

\* The peak never falls but to a fresh book's cash.
LEMMA PeakStep ==
    ASSUME TypeOK, PeakKept, [Next]_vars
    PROVE  PeakKept'
<1>0. BookTyped /\ peak \in Int /\ peak >= StartCash /\ StartCash \in Int
  BY DEF TypeOK, BookTyped, PeakKept, StartCash
<1>1. \A b : b \in Int => Greater(peak, b) >= peak
  BY <1>0 DEF Greater
<1>2. peak' = peak => PeakKept'
  BY <1>0 DEF PeakKept
<1>3. ASSUME NEW b \in Int, peak' = Greater(peak, b) PROVE PeakKept'
  <2>1. peak' >= peak /\ peak' \in Int
    BY <1>0, <1>1, <1>3 DEF Greater
  <2>. QED
    BY <1>0, <2>1 DEF PeakKept
<1>4. Snapshot.peak = Greater(peak, Equity) /\ Equity \in Int
  BY <1>0, ValueType DEF Snapshot
<1>5. CASE peak' = Snapshot.peak
  BY <1>3, <1>4, <1>5
<1>6. CASE UNCHANGED vars
  BY <1>2, <1>6 DEF vars, book
<1>7. CASE Exchange
  BY <1>2, <1>7 DEF Exchange, CloseMarket, NextDay, CampaignEnds, Horizon, vars, book
<1>8. CASE Operator
  <2>1. CASE StartCampaign
    BY <1>0, <2>1 DEF StartCampaign, FreshBook, PeakKept
  <2>2. CASE (\E on \in BOOLEAN : SetAutopilot(on)) \/ (\E p \in Policies : BindIPS(p))
    BY <1>2, <2>2 DEF SetAutopilot, BindIPS, book
  <2>3. CASE PreviewTargets
    <3>1. PICK marks \in [Names -> Prices] : pos' = Marked(QuotesOf(marks))
      BY <2>3 DEF PreviewTargets
    <3>2. EquityOf(pos') \in Int
      BY <1>0, <3>1, QuotesType, MarkedType, ValueType
    <3>. QED
      BY <1>3, <2>3, <3>2 DEF PreviewTargets
  <2>. QED
    BY <1>8, <2>1, <2>2, <2>3 DEF Operator
<1>9. ASSUME NEW t \in Tickers, Tick(t) PROVE PeakKept'
  <2>1. UNCHANGED peak
    BY <1>9 DEF Tick, TickStart, TickEnded, Plan, Check, GetQuotes, Lock, book
  <2>. QED
    BY <1>2, <2>1
<1>10. CASE Execute
  <2>1. CASE ExitTrade \/ PlanSell \/ SellsPlanned \/ PlanBuy \/ BuysPlanned \/ CoreWorked \/ Finish
    BY <1>2, <2>1 DEF ExitTrade, PlanSell, SellsPlanned, PlanBuy, BuysPlanned, CoreWorked, Finish, book
  <2>2. CASE CoreSession \/ SatelliteStart
    BY <1>2, <1>5, <2>2 DEF CoreSession, SatelliteStart
  <2>3. CASE CoreTicket
    BY <1>2, <1>5, <2>3 DEF CoreTicket, SellCore
  <2>4. CASE Satellite
    <3>1. CASE UNCHANGED <<cash, period, sat, pos, dayBuys, bought, peak>>
      BY <1>2, <3>1
    <3>2. ASSUME NEW qty \in Nat, ex.i \in Names, BuySatellite(ex.i, qty)
          PROVE  PeakKept'
      <4>1. BookTyped'
        BY StepTypeCorrect DEF TypeOK
      <4>. DEFINE fill  == BuyFill(last[ex.i])
                  cost  == qty * fill
                  spent == cost + RoundTripBuy(cost)
                  held  == Held(ex.i, pos[ex.i].qty + qty)
                  now   == cash - spent + Total([y \in Names |-> IF y = ex.i THEN held.mv ELSE pos[y].mv])
      <4>2. peak' = Greater(peak, now)
        BY <3>2 DEF BuySatellite
      <4>3. peak' \in Int
        BY <4>1 DEF BookTyped
      <4>. HIDE DEF now
      <4>4. peak' = peak \/ peak' > peak
        BY <1>0, <4>2, <4>3 DEF Greater
      <4>. QED
        BY <1>0, <4>3, <4>4 DEF PeakKept
    <3>. QED
      BY <2>4, <3>1, <3>2, SatelliteBuys
  <2>. QED
    BY <1>10, <2>1, <2>2, <2>3, <2>4 DEF Execute
<1>. QED
  BY <1>6, <1>7, <1>8, <1>9, <1>10 DEF Next

\* Execute opens no period and closes none for good.
LEMMA PeriodStays ==
    ASSUME TypeOK, MarksInv, Execute
    PROVE  period = NoPeriod => period' = NoPeriod
<1>1. \A a : period = NoPeriod => CoreFlow(a) = NoPeriod /\ SatFlow(a) = NoPeriod
  BY DEF CoreFlow, SatFlow
<1>2. CASE CoreSession
  BY <1>2 DEF CoreSession, NextPeriod
<1>3. CASE Finish
  BY <1>3 DEF Finish
<1>. QED
  BY <1>1, <1>2, <1>3, Fills DEF CoreFill, SatFill

\* The invariant after a fill of one quoted name at the quotes of the tick.
LEMMA FillMarks ==
    ASSUME TypeOK, MarksInv, Execute, NEW x \in Names \ Unquoted, NEW p \in Int,
           pos' = [pos EXCEPT ![x] = Held(x, p)],
           \/ UNCHANGED sat /\ \E q : coreQty' = [coreQty EXCEPT ![x] = q]
           \/ UNCHANGED coreQty /\ \E tr : sat' = [sat EXCEPT ![x] = tr]
    PROVE  /\ UnquotedEmpty'
           /\ \A y \in Names : pos'[y].mv = pos'[y].qty * last[y]
<1>0. BookTyped /\ FrameTyped
  BY DEF TypeOK
<1>1. UnquotedEmpty /\ \A y \in Names : pos[y].mv = pos[y].qty * last[y]
  BY ExecuteFrame DEF MarksInv, MarkedAtQuotes
<1>2. Unquoted \subseteq Names
  BY BoundAssumption
<1>3. UnquotedEmpty'
  <2>1. ASSUME NEW y \in Unquoted
        PROVE  pos'[y] = pos[y] /\ coreQty'[y] = coreQty[y] /\ sat'[y] = sat[y]
    BY <1>0, <1>2 DEF BookTyped
  <2>. QED
    BY <1>1, <2>1 DEF UnquotedEmpty
<1>4. Held(x, p).mv = Held(x, p).qty * last[x]
  <2>1. last[x] \in Nat
    BY <1>0, FrameFields, MarkType
  <2>. QED
    BY <2>1 DEF Held, Flat
<1>5. ASSUME NEW y \in Names PROVE pos'[y].mv = pos'[y].qty * last[y]
  <2>1. CASE y = x
    <3>1. pos'[y] = Held(x, p)
      BY <1>0, <2>1 DEF BookTyped
    <3>. QED
      BY <1>4, <2>1, <3>1
  <2>2. CASE y # x
    <3>1. pos'[y] = pos[y]
      BY <1>0, <2>2 DEF BookTyped
    <3>. QED
      BY <1>1, <3>1
  <2>. QED
    BY <2>1, <2>2
<1>. QED
  BY <1>3, <1>5

LEMMA ExecuteMarks ==
    ASSUME TypeOK, MarksInv, Execute
    PROVE  MarksInv'
<1>0. ~Idle
  BY ExecuteFrame
<1>1. /\ ex' = NoExec \/ ex'.quote = ex.quote
      /\ TicketsQuoted' /\ BuysAreBound'
      /\ UNCHANGED <<lastMarks, pc, quote>>
  BY FrameMoves
<1>2. Idle' \/ ex'.quote = ex.quote
  BY <1>1 DEF Idle, NoExec
<1>3. PeakKept'
  BY PeakStep DEF MarksInv, Next
<1>4. QuotesQuoted'
  <2>1. Idle' \/ last' = last
    BY <1>2 DEF last
  <2>2. period' # NoPeriod => Quoted(lastMarks)
    BY PeriodStays DEF MarksInv, QuotesQuoted
  <2>. QED
    BY <1>0, <1>1, <2>1, <2>2 DEF MarksInv, QuotesQuoted, Quoted
<1>5. UnquotedEmpty' /\ \A y \in Names : pos'[y].mv = pos'[y].qty * last[y]
  <2>1. CASE UNCHANGED <<pos, coreQty, sat>>
    BY <1>0, <2>1 DEF MarksInv, MarkedAtQuotes, UnquotedEmpty
  <2>2. ASSUME NEW x \in Names \ Unquoted, NEW q \in Nat, NEW p \in Int, NEW a \in Int,
               CoreFill(x, q, p, a)
        PROVE  UnquotedEmpty' /\ \A y \in Names : pos'[y].mv = pos'[y].qty * last[y]
    BY <2>2, FillMarks DEF CoreFill
  <2>3. ASSUME NEW x \in Names \ Unquoted, NEW tr \in TradeType, NEW p \in Int, NEW a \in Int,
               SatFill(x, tr, p, a)
        PROVE  UnquotedEmpty' /\ \A y \in Names : pos'[y].mv = pos'[y].qty * last[y]
    BY <2>3, FillMarks DEF SatFill
  <2>. QED
    BY <2>1, <2>2, <2>3, Fills
<1>6. MarkedAtQuotes'
  BY <1>2, <1>5 DEF MarkedAtQuotes, last
<1>. QED
  BY <1>1, <1>3, <1>4, <1>5, <1>6 DEF MarksInv

\* What marking the book makes of its positions.
LEMMA MarkedAt ==
    ASSUME BookTyped, UnquotedEmpty, NEW m \in MarksType, Quoted(m)
    PROVE  /\ \A x \in Names : Marked(m)[x].qty = pos[x].qty
           /\ \A x \in Names : Marked(m)[x].mv = pos[x].qty * m[x]
<1>1. ASSUME NEW x \in Names PROVE Marked(m)[x].mv = pos[x].qty * m[x]
  <2>1. pos[x] \in PositionType
    BY DEF BookTyped
  <2>2. CASE m[x] = 0
    <3>1. x \in Unquoted
      BY <2>2 DEF Quoted
    <3>2. pos[x].qty = 0 /\ pos[x].mv = 0
      BY <3>1 DEF UnquotedEmpty
    <3>. QED
      BY <2>2, <3>2 DEF Marked
  <2>3. CASE m[x] # 0
    BY <2>1, <2>3 DEF Marked, PositionType
  <2>. QED
    BY <2>2, <2>3
<1>. QED
  BY <1>1, MarkedType

LEMMA IdleMarks ==
    ASSUME TypeOK, MarksInv, Exchange \/ Operator \/ \E t \in Tickers : Tick(t)
    PROVE  MarksInv'
<1>0. BookTyped /\ TickersTyped /\ FrameTyped
  BY DEF TypeOK
<1>1. PeakKept'
  BY PeakStep DEF MarksInv, Next
<1>2. Idle
  <2>1. Exchange => Idle
    BY DEF Exchange, CloseMarket, NextDay, CampaignEnds, Horizon
  <2>2. Operator => Idle
    BY DEF Operator, StartCampaign, SetAutopilot, BindIPS, PreviewTargets, Command
  <2>3. ASSUME NEW t \in Tickers, Tick(t) PROVE Idle
    <3>1. TickStart(t) \/ TickEnded(t) \/ Plan(t) \/ Check(t) => Idle
      BY DEF TickStart, TickEnded, Plan, Check
    <3>2. GetQuotes(t) => Idle
      BY DEF GetQuotes
    <3>3. Lock(t) => Idle
      BY DEF Lock
    <3>. QED
      BY <2>3, <3>1, <3>2, <3>3 DEF Tick
  <2>. QED
    BY <2>1, <2>2, <2>3
<1>3. Unquoted \subseteq Names
  BY BoundAssumption
<1>4. ASSUME UNCHANGED ex, UNCHANGED ips PROVE TicketsQuoted' /\ BuysAreBound' /\ MarkedAtQuotes'
  BY <1>2, <1>4 DEF MarksInv, TicketsQuoted, BuysAreBound, MarkedAtQuotes, Idle
<1>5. UNCHANGED <<pos, coreQty, sat>> => UnquotedEmpty'
  BY DEF MarksInv, UnquotedEmpty
<1>6. ASSUME UNCHANGED <<pc, quote, ex>>, (UNCHANGED <<period, lastMarks>>) \/ period' = NoPeriod
      PROVE  QuotesQuoted'
  BY <1>2, <1>6 DEF MarksInv, QuotesQuoted, Idle
<1>7. CASE Exchange
  <2>1. UNCHANGED <<pos, coreQty, sat, pc, quote, ex, ips, period, lastMarks>>
    BY <1>7 DEF Exchange, CloseMarket, NextDay, CampaignEnds, Horizon, vars, book, ticks, policy, ledger
  <2>. QED
    BY <1>1, <1>4, <1>5, <1>6, <2>1 DEF MarksInv
<1>8. CASE StartCampaign
  <2>1. UNCHANGED <<pc, quote, ex, ips>> /\ period' = NoPeriod
    BY <1>8 DEF StartCampaign, ticks
  <2>2. UnquotedEmpty'
    BY <1>3, <1>8 DEF StartCampaign, FreshBook, UnquotedEmpty, Flat, NoTrade
  <2>. QED
    BY <1>1, <1>4, <1>6, <2>1, <2>2 DEF MarksInv
<1>9. CASE (\E on \in BOOLEAN : SetAutopilot(on)) \/ (\E p \in Policies : BindIPS(p))
  <2>1. UNCHANGED <<pos, coreQty, sat, pc, quote, ex, period, lastMarks>>
    BY <1>9 DEF SetAutopilot, BindIPS, book, ticks, ledger
  <2>2. TicketsQuoted' /\ MarkedAtQuotes'
    BY <1>2, <2>1 DEF MarksInv, TicketsQuoted, MarkedAtQuotes, Idle
  <2>3. BuysAreBound'
    BY <1>2, <2>1 DEF BuysAreBound, Idle
  <2>. QED
    BY <1>1, <1>5, <1>6, <2>1, <2>2, <2>3 DEF MarksInv
<1>10. CASE PreviewTargets
  <2>1. UNCHANGED <<coreQty, sat, pc, quote, ex, ips, period, lastMarks>>
    BY <1>10 DEF PreviewTargets, policy, ticks, ledger
  <2>2. PICK marks \in [Names -> Prices] : pos' = Marked(QuotesOf(marks))
    BY <1>10 DEF PreviewTargets
  <2>3. /\ \A x \in Names : pos'[x].qty = pos[x].qty
        /\ \A x \in Names : pos'[x].mv = pos[x].qty * QuotesOf(marks)[x]
    BY <1>0, <2>2, QuotesType, QuotesOfQuoted, MarkedAt DEF MarksInv
  <2>4. UnquotedEmpty'
    <3>1. \A x \in Unquoted : QuotesOf(marks)[x] = 0
      BY <1>3 DEF QuotesOf
    <3>. QED
      BY <1>3, <2>1, <2>3, <3>1 DEF MarksInv, UnquotedEmpty
  <2>. QED
    BY <1>1, <1>4, <1>6, <2>1, <2>4 DEF MarksInv
<1>11. ASSUME NEW t \in Tickers, Tick(t) PROVE MarksInv'
  <2>1. CASE TickStart(t) \/ Plan(t) \/ Check(t) \/ GetQuotes(t) \/ TickEnded(t)
    <3>1. UNCHANGED <<pos, coreQty, sat, ex, ips, lastMarks>> /\ (UNCHANGED period \/ period' = NoPeriod)
      BY <2>1 DEF TickStart, Plan, Check, GetQuotes, TickEnded, book, policy, ledger
    <3>2. ASSUME NEW s \in Tickers, pc'[s] = "lock" PROVE Quoted(quote'[s].last)
      <4>1. CASE GetQuotes(t)
        <5>1. CASE UNCHANGED quote /\ pc' = [pc EXCEPT ![t] = "idle"]
          <6>1. pc[s] = "lock"
            BY <1>0, <3>2, <5>1 DEF TickersTyped
          <6>. QED
            BY <5>1, <6>1 DEF MarksInv, QuotesQuoted
        <5>2. ASSUME NEW marks \in [Names -> Prices], NEW done \in BOOLEAN,
                     quote' = [quote EXCEPT ![t] = [last |-> QuotesOf(marks), day |-> day,
                                                    open |-> open, done |-> done]],
                     pc' = [pc EXCEPT ![t] = "lock"]
              PROVE  Quoted(quote'[s].last)
          <6>1. CASE s = t
            <7>1. quote'[s].last = QuotesOf(marks)
              BY <1>0, <5>2, <6>1 DEF TickersTyped
            <7>. QED
              BY <7>1, QuotesOfQuoted
          <6>2. CASE s # t
            <7>1. pc[s] = "lock" /\ quote'[s] = quote[s]
              BY <1>0, <3>2, <5>2, <6>2 DEF TickersTyped
            <7>. QED
              BY <7>1 DEF MarksInv, QuotesQuoted
          <6>. QED
            BY <6>1, <6>2
        <5>. QED
          BY <4>1, <5>1, <5>2 DEF GetQuotes
      <4>2. CASE TickStart(t) \/ Plan(t) \/ Check(t) \/ TickEnded(t)
        <5>1. UNCHANGED quote /\ pc[s] = "lock"
          BY <1>0, <3>2, <4>2 DEF TickersTyped, TickStart, Plan, Check, TickEnded, ticks
        <5>. QED
          BY <5>1 DEF MarksInv, QuotesQuoted
      <4>. QED
        BY <2>1, <4>1, <4>2
    <3>3. QuotesQuoted'
      BY <1>2, <3>1, <3>2 DEF MarksInv, QuotesQuoted, Idle
    <3>. QED
      BY <1>1, <1>4, <1>5, <3>1, <3>3 DEF MarksInv
  <2>2. CASE Lock(t)
    <3>. DEFINE q == quote[t]
    <3>1. q \in QuoteType /\ q.last \in MarksType /\ Quoted(q.last)
      BY <1>0, <2>2 DEF TickersTyped, QuoteType, Lock, MarksInv, QuotesQuoted
    <3>2. /\ pos' = Marked(q.last) /\ lastMarks' = q.last /\ UNCHANGED <<coreQty, sat>>
          /\ ex' = [NoExec EXCEPT !.phase = "exits", !.i = 1, !.quote = q]
          /\ pc' = [pc EXCEPT ![t] = "idle"] /\ quote' = [quote EXCEPT ![t] = NoQuote]
      BY <2>2 DEF Lock
    <3>. HIDE DEF q
    <3>3. ex'.phase = "exits" /\ ex'.tickets = <<>> /\ ex'.quote = q
      BY <3>2 DEF NoExec, NoTickets
    <3>4. /\ \A x \in Names : pos'[x].qty = pos[x].qty
          /\ \A x \in Names : pos'[x].mv = pos[x].qty * q.last[x]
      BY <1>0, <3>1, <3>2, MarkedAt DEF MarksInv
    <3>5. MarkedAtQuotes'
      BY <3>3, <3>4 DEF MarkedAtQuotes, last
    <3>6. TicketsQuoted' /\ BuysAreBound'
      BY <3>3 DEF TicketsQuoted, BuysAreBound
    <3>7. UnquotedEmpty'
      <4>1. \A x \in Unquoted : q.last[x] = 0
        BY <1>3, <3>1 DEF Quoted
      <4>. QED
        BY <1>3, <3>2, <3>4, <4>1 DEF MarksInv, UnquotedEmpty
    <3>8. QuotesQuoted'
      <4>1. ASSUME NEW s \in Tickers, pc'[s] = "lock" PROVE Quoted(quote'[s].last)
        <5>1. pc[s] = "lock" /\ quote'[s] = quote[s]
          BY <1>0, <3>2, <4>1 DEF TickersTyped
        <5>. QED
          BY <5>1 DEF MarksInv, QuotesQuoted
      <4>2. ex'.quote.last = q.last /\ lastMarks' = q.last
        BY <3>2, <3>3
      <4>. QED
        BY <3>1, <4>1, <4>2 DEF QuotesQuoted, Quoted, last
    <3>. QED
      BY <1>1, <3>5, <3>6, <3>7, <3>8 DEF MarksInv
  <2>. QED
    BY <1>11, <2>1, <2>2 DEF Tick
<1>. QED
  BY <1>7, <1>8, <1>9, <1>10, <1>11 DEF Operator

LEMMA InitMarks == Init => MarksInv
<1>. SUFFICES ASSUME Init PROVE MarksInv
  OBVIOUS
<1>1. ex.phase = "idle" /\ ex.tickets = <<>> /\ period = NoPeriod /\ peak = StartCash
  BY DEF Init, NoExec, NoTickets
<1>2. \A t \in Tickers : pc[t] # "lock"
  BY DEF Init
<1>3. UnquotedEmpty
  BY BoundAssumption DEF Init, UnquotedEmpty, Flat, NoTrade
<1>. QED
  BY <1>1, <1>2, <1>3 DEF MarksInv, QuotesQuoted, TicketsQuoted, MarkedAtQuotes, BuysAreBound,
                          PeakKept, Idle, StartCash

LEMMA MarksStep ==
    ASSUME TypeOK, MarksInv, [Next]_vars
    PROVE  MarksInv'
<1>1. CASE UNCHANGED vars
  <2>1. UNCHANGED <<pos, coreQty, sat, pc, quote, ex, ips, period, lastMarks, peak>>
    BY <1>1 DEF vars, book, ticks, policy, ledger
  <2>. QED
    BY <2>1 DEF MarksInv, QuotesQuoted, Quoted, UnquotedEmpty, TicketsQuoted, MarkedAtQuotes,
                BuysAreBound, PeakKept, Idle, last
<1>2. CASE Next
  BY <1>2, ExecuteMarks, IdleMarks DEF Next
<1>. QED
  BY <1>1, <1>2

LEMMA MarksInvariant == Spec => [](TypeOK /\ MarksInv)
<1>1. Init => TypeOK /\ MarksInv
  BY InitType, InitMarks
<1>2. TypeOK /\ MarksInv /\ [Next]_vars => (TypeOK /\ MarksInv)'
  BY StepTypeCorrect, MarksStep
<1>. QED
  BY <1>1, <1>2, PTL DEF Spec

-----------------------------------------------------------------------------
(* The drawdown halt.                                                      *)

\* What a buy costs is no less than its value at the mark.
LEMMA FillCost ==
    ASSUME NEW px \in Nat, px = 0 \/ px >= 20, NEW qty \in Nat
    PROVE  /\ qty * px \in Nat /\ qty * BuyFill(px) \in Nat
           /\ qty * px <= qty * BuyFill(px)
           /\ RoundTripBuy(qty * BuyFill(px)) \in Nat
<1>1. Slip(px) \in Nat
  BY DEF Slip
<1>2. /\ qty * px \in Nat /\ qty * Slip(px) \in Nat
      /\ qty * BuyFill(px) = qty * px + qty * Slip(px)
  BY <1>1, ProductType, Distributes DEF BuyFill
<1>3. \A n \in Nat : RoundTripBuy(n) \in Nat
  BY DEF RoundTripBuy
<1>. QED
  BY <1>2, <1>3

\* Under a statement the book halts at the client's own cap.
LEMMA ClientsHalt ==
    ASSUME StatementTyped, ips # Unbound
    PROVE  ips.maxdd \in 1..15 /\ HaltThreshold(Snapshot) = ips.maxdd
<1>1. ips.maxdd \in 1..15
  BY PolicyAssumption DEF StatementTyped, Statements
<1>2. Snapshot.haltAt = ips.maxdd
  BY DEF Snapshot
<1>. QED
  BY <1>1, <1>2 DEF HaltThreshold, DrawdownHalt

\* A position of the book is worth its units at the mark.
LEMMA HeldWorth ==
    ASSUME FrameTyped, NEW x \in Names, NEW n \in Nat, NEW k \in Nat
    PROVE  /\ Held(x, n).mv = n * last[x] /\ n * last[x] \in Nat
           /\ (n + k) * last[x] = n * last[x] + k * last[x]
<1>1. last[x] \in Nat
  BY FrameFields, MarkType
<1>. DEFINE px == last[x]
<1>2. n * px \in Nat
  BY <1>1, ProductType
<1>3. Held(x, n).mv = n * px
  <2>1. CASE n = 0
    <3>1. Held(x, n) = Flat /\ n * px = 0
      BY <1>1, <2>1 DEF Held
    <3>. QED
      BY <3>1 DEF Flat
  <2>2. CASE n # 0
    BY <2>2 DEF Held
  <2>. QED
    BY <2>1, <2>2
<1>4. (n + k) * px = n * px + k * px
  <2>1. px \in Int
    BY <1>1
  <2>. HIDE DEF px
  <2>. QED
    BY <2>1, Distributes
<1>. QED
  BY <1>2, <1>3, <1>4

\* A satellite buy costs at least what it adds to the positions: equity does
\* not rise by it, and the peak it leaves is no new one.
LEMMA SatelliteEquity ==
    ASSUME TypeOK, MarksInv, ~Idle, NEW x \in Names, NEW qty \in Nat, BuySatellite(x, qty)
    PROVE  \E e \in Int : e <= Equity /\ peak' = Greater(peak, e)
<1>0. BookTyped /\ FrameTyped
  BY DEF TypeOK
<1>. DEFINE px    == last[x]
            cost  == qty * BuyFill(px)
            spent == cost + RoundTripBuy(cost)
            held  == Held(x, pos[x].qty + qty)
            old   == [y \in Names |-> pos[y].mv]
            new   == [y \in Names |-> IF y = x THEN held.mv ELSE pos[y].mv]
<1>1. px \in Nat /\ (px = 0 \/ px >= 20) /\ pos[x].qty \in Nat
  BY <1>0, FrameFields, MarkType DEF BookTyped, PositionType
<1>2. cost \in Nat /\ qty * px \in Nat /\ qty * px <= cost /\ RoundTripBuy(cost) \in Nat
  BY <1>1, FillCost
<1>3. held.mv = pos[x].qty * px + qty * px /\ pos[x].qty * px \in Nat
  <2>1. pos[x].qty + qty \in Nat
    BY <1>1
  <2>2. held.mv = (pos[x].qty + qty) * px
    BY <1>0, <2>1, HeldWorth
  <2>. QED
    BY <1>0, <1>1, <2>2, HeldWorth
<1>4. old[x] = pos[x].qty * px
  BY DEF MarksInv, MarkedAtQuotes
<1>5. old \in [Names -> Int]
  BY <1>0 DEF BookTyped, PositionType
<1>. HIDE DEF cost, held, px
<1>6. new \in [Names -> Int] /\ new[x] = held.mv /\ \A y \in Names \ {x} : new[y] = old[y]
  <2>1. held.mv \in Int
    BY <1>2, <1>3
  <2>. QED
    BY <1>5, <2>1
<1>. HIDE DEF old, new
<1>7. Total(new) = Total(old) - old[x] + new[x] /\ Total(old) \in Int /\ Total(new) \in Int
  BY <1>5, <1>6, SumChanges, NamesFinite, TotalType DEF Total
<1>8. Equity = cash + Total(old) /\ cash \in Int /\ Equity \in Int
  BY <1>0, ValueType DEF Equity, EquityOf, BookTyped, old
<1>9. peak' = Greater(peak, cash - spent + Total(new))
  BY DEF BuySatellite, cost, held, px, new
<1>10. cash - spent + Total(new) \in Int /\ cash - spent + Total(new) <= Equity
  BY <1>2, <1>3, <1>4, <1>6, <1>7, <1>8
<1>. QED
  BY <1>9, <1>10

\* A book that is not halted stays above the cap of the statement, whatever
\* peak a buy leaves it.
LEMMA AboveTheCap ==
    ASSUME TypeOK, PeakKept, ips # Unbound, ~Halted(Snapshot), NEW e \in Int, e <= Equity,
           NEW top \in {Greater(peak, Equity), Greater(peak, e)}
    PROVE  100 * (top - Equity) < ips.maxdd * top
<1>1. /\ BookTyped /\ StatementTyped /\ Equity \in Int /\ peak \in Int /\ peak > 0
  BY ValueType DEF TypeOK, BookTyped, PeakKept, StartCash
<1>. DEFINE p == Greater(peak, Equity)
            m == ips.maxdd
<1>2. m \in 1..15 /\ HaltThreshold(Snapshot) = m
  BY <1>1, ClientsHalt
<1>3. p \in Int /\ p >= peak /\ p >= Equity /\ (p = peak \/ p = Equity)
  BY <1>1 DEF Greater
<1>4. Snapshot.peak = p /\ Snapshot.equity = Equity
  BY DEF Snapshot
<1>. HIDE DEF p, m
<1>5. 100 * (p - Equity) < m * p
  <2>1. ~(100 * (p - Equity) >= m * p)
    BY <1>1, <1>2, <1>3, <1>4 DEF Halted
  <2>2. m * p \in Int
    BY <1>2, <1>3, IntProduct
  <2>. QED
    BY <1>1, <1>3, <2>1, <2>2
<1>6. top \in Int /\ top > 0 /\ (top = p \/ (top < p /\ top <= Equity))
  BY <1>1, <1>3 DEF Greater, p
<1>7. CASE top = p
  BY <1>5, <1>7 DEF m
<1>8. CASE top <= Equity
  <2>1. m * top \in Nat /\ m * top # 0
    BY <1>2, <1>6
  <2>2. 100 * (top - Equity) <= 0
    BY <1>1, <1>6, <1>8
  <2>. QED
    BY <1>1, <1>6, <2>1, <2>2 DEF m
<1>. QED
  BY <1>6, <1>7, <1>8

\* A step of Execute that lets a position grow passed the halt of the book it
\* found, and the peak it leaves is that book's or lower.
LEMMA BuysAboveTheHalt ==
    ASSUME TypeOK, MarksInv, Execute, Buys
    PROVE  /\ ips # Unbound /\ ~Halted(Snapshot)
           /\ \E e \in Int : e <= Equity /\ peak' \in {Greater(peak, Equity), Greater(peak, e)}
<1>0. BookTyped /\ FrameTyped /\ Equity \in Int /\ ~Idle
  BY ValueType, ExecuteFrame DEF TypeOK
<1>1. \A x \in Names : pos[x].qty \in Nat /\ sat[x].qty \in Nat
  BY <1>0 DEF BookTyped, PositionType, TradeType
<1>2. pos' # pos
  BY <1>1 DEF Buys
<1>3. ~ExitTrade
  <2>. SUFFICES ASSUME ExitTrade PROVE FALSE
    OBVIOUS
  <2>1. ex.i \in Names /\ CloseTrade(ex.i)
    BY <1>0, <1>2, LoopName DEF ExitTrade, Loops
  <2>. DEFINE left == pos[ex.i].qty - sat[ex.i].qty
              kept == IF left <= 0 THEN Flat ELSE [qty |-> left, mv |-> left * last[ex.i]]
  <2>2. pos' = [pos EXCEPT ![ex.i] = kept]
    BY <2>1 DEF CloseTrade
  <2>3. kept.qty \in Nat /\ kept.qty <= pos[ex.i].qty
    BY <1>1, <2>1 DEF Flat
  <2>. HIDE DEF kept
  <2>4. ASSUME NEW y \in Names PROVE pos'[y].qty <= pos[y].qty /\ pos'[y].qty \in Nat
    <3>1. CASE y = ex.i
      BY <1>0, <2>2, <2>3, <3>1 DEF BookTyped
    <3>2. CASE y # ex.i
      BY <1>0, <1>1, <2>2, <3>2 DEF BookTyped
    <3>. QED
      BY <3>1, <3>2
  <2>. QED
    BY <1>1, <2>4 DEF Buys
<1>4. CASE CoreTicket
  <2>. DEFINE t == ex.tickets[ex.i]
  <2>1. ex.phase = "tickets" /\ ex.i <= Len(ex.tickets)
    BY <1>4 DEF CoreTicket
  <2>2. t.sym \in Names /\ t.qty \in Nat
    BY <1>0, <2>1, TicketNow
  <2>3. ~SellCore(t)
    <3>. SUFFICES ASSUME SellCore(t) PROVE FALSE
      BY SMTT(60)
    <3>. DEFINE left == pos[t.sym].qty - t.qty
    <3>1. pos' = [pos EXCEPT ![t.sym] = Held(t.sym, left)] /\ left \in Int /\ left <= pos[t.sym].qty
      BY SMTT(60), <1>1, <2>2 DEF SellCore
    <3>2. Held(t.sym, left).qty \in Nat /\ Held(t.sym, left).qty <= pos[t.sym].qty
      BY SMTT(60), <1>1, <2>2, <3>1 DEF Held, Flat
    <3>. HIDE DEF left, t
    <3>3. ASSUME NEW y \in Names PROVE pos'[y].qty <= pos[y].qty /\ pos'[y].qty \in Nat
      <4>1. CASE y = t.sym
        BY <1>0, <3>1, <3>2, <4>1 DEF BookTyped
      <4>2. CASE y # t.sym
        BY <1>0, <1>1, <3>1, <4>2 DEF BookTyped
      <4>. QED
        BY <4>1, <4>2
    <3>. QED
      BY <1>1, <3>3 DEF Buys
  <2>4. BuyAllowed(Snapshot, t.sym, Notional(t), TRUE) /\ peak' = Snapshot.peak
    BY <1>2, <1>4, <2>3 DEF CoreTicket
  <2>5. ~Halted(Snapshot) /\ peak' = Greater(peak, Equity)
    BY <2>4 DEF BuyAllowed, Snapshot
  <2>6. ips # Unbound
    BY <2>1 DEF MarksInv, BuysAreBound
  <2>. QED
    BY <1>0, <2>5, <2>6
<1>5. CASE Satellite
  <2>1. PICK qty \in Nat : /\ ex.i \in Names /\ BuySatellite(ex.i, qty)
                           /\ BuyAllowed(Snapshot, ex.i, qty * BuyFill(last[ex.i]), FALSE)
    BY <1>2, <1>5, SatelliteBuys
  <2>2. ~Halted(Snapshot)
    BY <2>1 DEF BuyAllowed
  <2>3. ex.phase = "satellite" /\ ex.i # 0
    BY <1>5, <2>1 DEF Satellite, Names
  <2>4. ips # Unbound
    BY <2>3 DEF MarksInv, BuysAreBound
  <2>5. PICK e \in Int : e <= Equity /\ peak' = Greater(peak, e)
    BY <1>0, <2>1, SatelliteEquity
  <2>. QED
    BY <2>2, <2>4, <2>5
<1>6. CASE \/ CoreSession \/ PlanSell \/ SellsPlanned \/ PlanBuy \/ BuysPlanned
           \/ CoreWorked \/ SatelliteStart \/ Finish
  BY <1>2, <1>6 DEF CoreSession, PlanSell, SellsPlanned, PlanBuy, BuysPlanned, CoreWorked,
                    SatelliteStart, Finish, book
<1>. QED
  BY <1>3, <1>4, <1>5, <1>6 DEF Execute

\* No fill of either sleeve buys while the book is at or past the client's
\* drawdown cap: for every universe, tape, set of statements and number of
\* tickers, check.go Halted stands before every buy of core.go and engine.go,
\* on the book as it is when the buy's turn comes.
THEOREM HaltAlwaysStopsBuys == Spec => HaltStopsBuys
<1>1. TypeOK /\ MarksInv /\ [Next]_vars => [Buys => 100 * (peak' - Equity) < ips.maxdd * peak']_vars
  <2>. SUFFICES ASSUME TypeOK, MarksInv, Next, Buys
                PROVE  100 * (peak' - Equity) < ips.maxdd * peak'
    OBVIOUS
  <2>1. Execute
    BY OnlyExecuteBuys DEF Next
  <2>2. PICK e \in Int : /\ ips # Unbound /\ ~Halted(Snapshot)
                         /\ e <= Equity /\ peak' \in {Greater(peak, Equity), Greater(peak, e)}
    BY <2>1, BuysAboveTheHalt
  <2>. QED
    BY <2>2, AboveTheCap DEF MarksInv
<1>. QED
  BY <1>1, MarksInvariant, PTL DEF Spec, HaltStopsBuys

-----------------------------------------------------------------------------
(* The satellite's slice.                                                  *)

\* What the positions are worth at any marks is what the two sleeves are.
LEMMA SleevesWorth ==
    ASSUME BookTyped, SleevesReconcile, UnquotedEmpty, NEW m \in MarksType, Quoted(m),
           NEW f \in [Names -> Int], \A x \in Names : f[x] = pos[x].qty * m[x]
    PROVE  Total(f) = CoreValue(m) + SatValue(m)
<1>1. CoreHeld(m) \in [Names -> Int] /\ SatHeld(m) \in [Names -> Int]
  BY SleeveType
<1>2. ASSUME NEW x \in Names PROVE f[x] = CoreHeld(m)[x] + SatHeld(m)[x]
  <2>1. /\ m[x] \in Nat /\ coreQty[x] \in Nat /\ sat[x].qty \in Nat
        /\ pos[x].qty = coreQty[x] + sat[x].qty
    BY MarkType DEF BookTyped, TradeType, SleevesReconcile
  <2>2. SatHeld(m)[x] = sat[x].qty * m[x]
    <3>1. CASE m[x] = 0
      <4>1. sat[x].qty = 0
        BY <3>1 DEF Quoted, UnquotedEmpty
      <4>2. sat[x].entry \in Nat
        BY DEF BookTyped, TradeType
      <4>. QED
        BY <2>1, <3>1, <4>1, <4>2 DEF SatHeld
    <3>2. CASE m[x] # 0
      BY <3>2 DEF SatHeld
    <3>. QED
      BY <3>1, <3>2
  <2>3. CoreHeld(m)[x] = coreQty[x] * m[x]
    BY DEF CoreHeld
  <2>. DEFINE c == coreQty[x]
              s == sat[x].qty
              k == m[x]
  <2>4. c \in Int /\ s \in Int /\ k \in Int
    BY <2>1
  <2>5. (c + s) * k = c * k + s * k
    <3>. HIDE DEF c, s, k
    <3>. QED
      BY <2>4, Distributes
  <2>. QED
    BY <2>1, <2>2, <2>3, <2>5
<1>3. SumFunction(f) = SumFunction(CoreHeld(m)) + SumFunction(SatHeld(m))
  BY <1>1, <1>2, NamesFinite, SumAdds
<1>. QED
  BY <1>3, SleeveType DEF Total, CoreValue

\* Under the mutex: equity is cash and the sleeves, and what the satellite
\* measures as gross minus core is what its open trades are worth.
LEMMA EquitySplits ==
    ASSUME TypeOK, MarksInv, SleevesReconcile, ~Idle
    PROVE  /\ Equity = cash + CoreValue(last) + SatValue(last)
           /\ Gross(Snapshot) - CoreValue(last) = SatValue(last)
<1>0. BookTyped /\ FrameTyped /\ last \in MarksType
  BY FrameFields DEF TypeOK
<1>. DEFINE f == [x \in Names |-> pos[x].mv]
<1>1. f \in [Names -> Int]
  BY <1>0 DEF BookTyped, PositionType
<1>2. \A x \in Names : f[x] = pos[x].qty * last[x]
  BY DEF MarksInv, MarkedAtQuotes
<1>. HIDE DEF f
<1>3. Total(f) = CoreValue(last) + SatValue(last)
  BY <1>0, <1>1, <1>2, SleevesWorth DEF MarksInv, QuotesQuoted
<1>4. CoreValue(last) \in Int /\ SatValue(last) \in Int /\ cash \in Int
  BY <1>0, SleeveType DEF BookTyped
<1>5. Equity = cash + Total(f) /\ Gross(Snapshot) = Total(f)
  BY DEF f, Equity, EquityOf, Gross, Snapshot
<1>. QED
  BY <1>3, <1>4, <1>5

\* A share of a percentage that is anything at all is no more than the whole.
LEMMA ShareOf ==
    ASSUME NEW pct \in 0..100, NEW y \in Int, PctOf(pct, y) > 0
    PROVE  PctOf(pct, y) <= y
<1>1. pct * y \in Int
  BY IntProduct
<1>2. CASE y > 0
  <2>1. pct * y <= 100 * y
    BY <1>2
  <2>. QED
    BY <1>1, <1>2, <2>1 DEF PctOf
<1>3. CASE y <= 0
  <2>1. pct * y <= 0
    BY <1>3
  <2>. QED
    BY <1>1, <2>1 DEF PctOf
<1>. QED
  BY <1>2, <1>3

LEMMA SatValueNat ==
    ASSUME BookTyped, NEW m \in MarksType
    PROVE  SatValue(m) >= 0
<1>. DEFINE zero == [x \in Names |-> 0]
<1>1. zero \in [Names -> Int] /\ \A x \in Names : zero[x] = 0
  OBVIOUS
<1>2. ASSUME NEW x \in Names PROVE SatHeld(m)[x] \in Nat
  <2>1. /\ sat[x].qty \in Nat /\ sat[x].entry \in Nat /\ m[x] \in Nat
    BY MarkType DEF BookTyped, TradeType
  <2>2. sat[x].qty * (IF m[x] = 0 THEN sat[x].entry ELSE m[x]) \in Nat
    BY <2>1, ProductType
  <2>. QED
    BY <2>2 DEF SatHeld
<1>. HIDE DEF zero
<1>3. SumFunction(zero) = 0
  BY <1>1, NamesFinite, SumZero
<1>4. SatHeld(m) \in [Names -> Int] /\ SatValue(m) = SumFunction(SatHeld(m)) /\ SatValue(m) \in Int
  BY SleeveType DEF Total
<1>5. \A x \in Names : zero[x] <= SatHeld(m)[x]
  BY <1>1, <1>2
<1>6. SumFunction(zero) <= SumFunction(SatHeld(m))
  BY <1>1, <1>4, <1>5, NamesFinite, SumGrows
<1>. QED
  BY <1>3, <1>4, <1>6

\* A buy of the satellite leaves its open trades inside the slice.
LEMMA SatelliteFits ==
    ASSUME TypeOK, MarksInv, SleevesReconcile, Satellite, sat' # sat
    PROVE  SatValue(last)' <= PctOf(ips.sat, Equity)
<1>0. /\ StatementTyped /\ BookTyped /\ DeskTyped /\ FrameTyped /\ last \in MarksType
      /\ Equity \in Int
  BY FrameFields, ValueType DEF TypeOK
<1>1. PICK qty \in Nat : /\ ex.i \in Names /\ Wants(ex.i) /\ BuySatellite(ex.i, qty)
                         /\ BuyAllowed(Snapshot, ex.i, qty * BuyFill(last[ex.i]), FALSE)
                         /\ qty * BuyFill(last[ex.i]) <= SatelliteRoom
  BY SatelliteBuys
<1>. DEFINE x    == ex.i
            px   == last[x]
            cost == qty * BuyFill(px)
            bot  == [qty |-> qty, entry |-> BuyFill(px), opened |-> today]
            new  == [y \in Names |-> sat'[y].qty * (IF last[y] = 0 THEN sat'[y].entry ELSE last[y])]
<1>2. ~Idle /\ ex'.quote = ex.quote
  <2>1. ex.phase = "satellite" /\ (Goto("finish", 0) \/ Skipped)
    BY DEF Satellite
  <2>. QED
    BY <1>0, <2>1, FrameForms DEF Idle
<1>3. px \in Nat /\ px # 0 /\ (px = 0 \/ px >= 20) /\ sat[x].qty = 0
  BY <1>0, <1>1, MarkType DEF Wants
<1>4. /\ cost \in Nat /\ qty * px \in Nat /\ qty * px <= cost
      /\ BuyFill(px) \in Nat
  BY <1>3, FillCost, SlipType
<1>5. cost >= 5000 /\ cost <= SatelliteRoom
  BY <1>1 DEF BuyAllowed, MinNameNotional
<1>6. sat' = [sat EXCEPT ![x] = bot] /\ x \in Names
  BY <1>1 DEF BuySatellite
<1>7. SatHeld(last) \in [Names -> Int] /\ SatHeld(last)[x] = 0
  <2>1. sat[x].entry \in Nat
    BY <1>0, <1>6 DEF BookTyped, TradeType
  <2>2. SatHeld(last)[x] = 0
    BY <1>3, <1>6, <2>1 DEF SatHeld
  <2>. QED
    BY <1>0, <2>2, SleeveType
<1>8. new[x] = qty * px /\ \A y \in Names \ {x} : new[y] = SatHeld(last)[y]
  <2>1. sat'[x] = bot
    BY <1>0, <1>6 DEF BookTyped
  <2>2. new[x] = qty * px
    BY <1>3, <1>6, <2>1
  <2>3. \A y \in Names \ {x} : sat'[y] = sat[y]
    BY <1>0, <1>6 DEF BookTyped
  <2>. QED
    BY <2>2, <2>3 DEF SatHeld
<1>9. new \in [Names -> Int]
  <2>1. \A y \in Names : new[y] \in Int
    BY <1>4, <1>7, <1>8
  <2>. QED
    BY <2>1
<1>10. SatValue(last)' = Total(new)
  BY <1>2 DEF SatValue, last
<1>. HIDE DEF x, px, cost, new
<1>11. Total(new) = SatValue(last) + qty * px /\ SatValue(last) \in Int /\ SatValue(last) >= 0
  <2>1. Total(new) = Total(SatHeld(last)) - SatHeld(last)[x] + new[x]
    BY <1>6, <1>7, <1>8, <1>9, SumChanges, NamesFinite DEF Total
  <2>2. Total(SatHeld(last)) = SatValue(last) /\ SatValue(last) \in Int /\ SatValue(last) >= 0
    BY <1>0, SleeveType, SatValueNat
  <2>. QED
    BY <1>4, <1>7, <1>8, <2>1, <2>2
<1>12. ips.sat \in Int /\ plan.tilt \in 0..100
  BY <1>0, PolicyType DEF DeskTyped
<1>13. PctOf(ips.sat, Equity) \in Int /\ SatelliteSlice \in Int
  <2>1. PctOf(ips.sat, Equity) \in Int
    BY <1>0, <1>12, PctType
  <2>2. plan.tilt \in Int
    BY <1>12
  <2>3. PctOf(plan.tilt, PctOf(ips.sat, Equity)) \in Int
    BY <2>1, <2>2, PctType
  <2>. QED
    BY <2>1, <2>3 DEF SatelliteSlice
<1>14. SatelliteSlice - SatValue(last) > 0 /\ SatelliteRoom = SatelliteSlice - SatValue(last)
  <2>1. SatelliteRoom = AtLeastZero(SatelliteSlice - SatValue(last))
    BY <1>0, <1>2, EquitySplits DEF SatelliteRoom
  <2>. QED
    BY <1>4, <1>5, <1>11, <1>13, <2>1 DEF AtLeastZero
<1>15. SatelliteSlice <= PctOf(ips.sat, Equity)
  <2>1. SatelliteSlice > 0
    BY <1>11, <1>13, <1>14
  <2>. QED
    BY <1>12, <1>13, <2>1, ShareOf DEF SatelliteSlice
<1>. QED
  BY <1>4, <1>5, <1>10, <1>11, <1>13, <1>14, <1>15

\* A satellite buy leaves the open satellite trades inside the statement's
\* slice, for every universe, tape and set of statements: gross minus core,
\* which engine.go measures the satellite by, is what its trades are worth.
THEOREM SatelliteAlwaysWithinSlice == Spec => SatelliteWithinSlice
<1>1. TypeOK /\ SleevesReconcile /\ MarksInv /\ [Next]_vars
      => [(\E x \in Names : sat'[x].qty > sat[x].qty)
           => SatValue(last)' <= PctOf(ips.sat, Equity)]_vars
  <2>. SUFFICES ASSUME TypeOK, SleevesReconcile, MarksInv, Next,
                       NEW x \in Names, sat'[x].qty > sat[x].qty
                PROVE  SatValue(last)' <= PctOf(ips.sat, Equity)
    OBVIOUS
  <2>0. BookTyped /\ FrameTyped /\ \A y \in Names : sat[y].qty \in Nat
    BY DEF TypeOK, BookTyped, TradeType
  <2>1. sat' # sat
    BY <2>0
  <2>2. ~Exchange
    BY <2>1 DEF Exchange, CloseMarket, NextDay, CampaignEnds, Horizon, vars, book
  <2>3. ~Operator
    <3>1. ~StartCampaign
      BY <2>0 DEF StartCampaign, FreshBook, NoTrade
    <3>. QED
      BY <2>1, <3>1 DEF Operator, SetAutopilot, BindIPS, PreviewTargets, book
  <2>4. ASSUME NEW t \in Tickers PROVE ~Tick(t)
    <3>1. ~Lock(t)
      BY <2>1 DEF Lock
    <3>. QED
      BY <2>1, <3>1 DEF Tick, TickStart, TickEnded, Plan, Check, GetQuotes, book
  <2>5. ~ExitTrade
    <3>. SUFFICES ASSUME ExitTrade PROVE FALSE
      OBVIOUS
    <3>1. ex.i \in Names /\ sat' = [sat EXCEPT ![ex.i] = NoTrade]
      BY <2>0, <2>1, LoopName DEF ExitTrade, CloseTrade, Loops
    <3>2. sat'[x] = sat[x] \/ sat'[x] = NoTrade
      BY <2>0, <3>1 DEF BookTyped
    <3>. QED
      BY <2>0, <3>2 DEF NoTrade
  <2>6. Satellite
    BY <2>1, <2>2, <2>3, <2>4, <2>5
       DEF Next, Execute, CoreSession, PlanSell, SellsPlanned, PlanBuy, BuysPlanned, CoreTicket,
           CoreWorked, SatelliteStart, Finish, book
  <2>. QED
    BY <2>1, <2>6, SatelliteFits
<1>. QED
  BY <1>1, BookInvariant, MarksInvariant, PTL DEF Spec, SatelliteWithinSlice

-----------------------------------------------------------------------------
(* The period ledger.                                                      *)

\* The cash is what the open period accounts for: the equity it opened at,
\* less what its sleeves were worth then, and the flows of both since.
Accounts(p, c) == c = p.eq0 + (p.core.flow - p.core.mv0) + (p.sat.flow - p.sat.mv0)

\* The campaign's cash is whole, no name is held and nothing is booked.
Untouched == cash = StartCash /\ rows = <<>> /\ \A x \in Names : pos[x].qty = 0

\* What makes LedgerReconciles inductive: a period is open whenever a bound
\* book may be traded, and before the first one opens nothing was.
LedgerInv ==
    /\ ~Idle /\ ips # Unbound => period # NoPeriod
    /\ period = NoPeriod /\ ~camp.over => Untouched
    /\ period # NoPeriod => /\ period.under # Unbound.id
                            /\ Accounts(period, cash)
                            /\ ~camp.over => Booked(rows) = period.eq0 - StartCash

LEMMA BookedAdds ==
    ASSUME NEW rs \in Seq(RowType)
    PROVE  /\ Booked(rs) \in Int
           /\ \A r \in RowType : Booked(Append(rs, r)) = Booked(rs) + r.pnl
<1>. DEFINE D == 1..Len(rs)
            f == [i \in DOMAIN rs |-> rs[i].pnl]
<1>1. Len(rs) \in Nat /\ DOMAIN rs = D /\ \A i \in D : rs[i] \in RowType
  OBVIOUS
<1>2. IsFiniteSet(D)
  BY <1>1, FS_Interval
<1>3. f \in [D -> Int]
  BY <1>1 DEF RowType
<1>4. Booked(rs) = SumFunction(f)
  BY DEF Booked
<1>. HIDE DEF f
<1>5. Booked(rs) \in Int
  BY <1>2, <1>3, <1>4, SumType
<1>6. ASSUME NEW r \in RowType PROVE Booked(Append(rs, r)) = Booked(rs) + r.pnl
  <2>. DEFINE n == Len(rs) + 1
              E == 1..n
              e == [i \in DOMAIN Append(rs, r) |-> Append(rs, r)[i].pnl]
  <2>1. /\ n \in Nat /\ DOMAIN Append(rs, r) = E /\ E \ {n} = D /\ n \in E
        /\ Append(rs, r)[n] = r /\ \A i \in D : Append(rs, r)[i] = rs[i]
    BY <1>1
  <2>2. IsFiniteSet(E)
    BY <2>1, FS_Interval
  <2>3. /\ e \in [E -> Int] /\ e[n] = r.pnl
        /\ \A i \in D : e[i] = f[i]
    BY <1>1, <2>1 DEF RowType, f
  <2>4. Booked(Append(rs, r)) = SumFunction(e)
    BY DEF Booked
  <2>. HIDE DEF e, n, E, D
  <2>5. OtherEntries(e, E, n) = f
    BY <1>3, <2>1, <2>3 DEF OtherEntries
  <2>6. SplitsOff(e, E, n)
    BY <2>1, <2>2, <2>3, SumSplit
  <2>7. SumFunction(e) = r.pnl + SumFunction(f)
    BY <2>3, <2>5, <2>6 DEF SplitsOff
  <2>8. r.pnl \in Int
    BY DEF RowType
  <2>. QED
    BY <1>4, <1>5, <2>4, <2>7, <2>8
<1>. QED
  BY <1>5, <1>6

LEMMA NothingBooked == Booked(<<>>) = 0
<1>. DEFINE f == [i \in DOMAIN <<>> |-> <<>>[i].pnl]
<1>1. DOMAIN <<>> = {}
  OBVIOUS
<1>2. f \in [{} -> Int] /\ \A i \in {} : f[i] = 0
  BY <1>1
<1>3. Booked(<<>>) = SumFunction(f)
  BY DEF Booked
<1>. HIDE DEF f
<1>. QED
  BY <1>2, <1>3, FS_EmptySet, SumZero

\* The numbers of a period.
LEMMA PeriodFields ==
    ASSUME LedgerTyped
    PROVE  /\ period.eq0 \in Int
           /\ period.core.flow \in Int /\ period.core.mv0 \in Int
           /\ period.sat.flow \in Int /\ period.sat.mv0 \in Int
BY DEF LedgerTyped, PeriodType, TrackType

\* Nothing held: the positions are worth nothing at any marks.
LEMMA EmptyWorth ==
    ASSUME BookTyped, NEW m \in MarksType, NEW p \in [Names -> PositionType],
           \A x \in Names : pos[x].qty = 0 /\ p[x].mv = pos[x].qty * m[x]
    PROVE  EquityOf(p) = cash
<1>. DEFINE f == [x \in Names |-> p[x].mv]
<1>1. \A x \in Names : m[x] \in Nat
  BY MarkType
<1>2. f \in [Names -> Int] /\ \A x \in Names : f[x] = 0
  BY <1>1
<1>3. EquityOf(p) = cash + Total(f)
  BY DEF EquityOf
<1>. HIDE DEF f
<1>4. Total(f) = 0
  BY <1>2, NamesFinite, SumZero DEF Total
<1>. QED
  BY <1>3, <1>4 DEF BookTyped

\* A period that opens at the lock accounts for the cash.
LEMMA OpenedAccounts ==
    ASSUME TypeOK, SleevesReconcile, MarksInv, ips # Unbound,
           NEW m \in MarksType, Quoted(m), NEW date, NEW p \in [Names -> PositionType],
           \A x \in Names : p[x].mv = pos[x].qty * m[x]
    PROVE  /\ Accounts(OpenedPeriod(m, date, EquityOf(p)), cash)
           /\ OpenedPeriod(m, date, EquityOf(p)).under # Unbound.id
           /\ OpenedPeriod(m, date, EquityOf(p)).eq0 = EquityOf(p)
<1>0. BookTyped /\ StatementTyped /\ cash \in Int
  BY DEF TypeOK, BookTyped
<1>. DEFINE f == [x \in Names |-> p[x].mv]
            o == OpenedPeriod(m, date, EquityOf(p))
<1>1. f \in [Names -> Int] /\ \A x \in Names : f[x] = pos[x].qty * m[x]
  BY DEF PositionType
<1>2. EquityOf(p) = cash + Total(f)
  BY DEF EquityOf
<1>. HIDE DEF f
<1>3. Total(f) = CoreValue(m) + SatValue(m)
  BY <1>0, <1>1, SleevesWorth DEF MarksInv
<1>4. CoreValue(m) \in Int /\ SatValue(m) \in Int
  BY <1>0, SleeveType
<1>5. /\ o.eq0 = EquityOf(p) /\ o.under = ips.id
      /\ o.core.flow = 0 /\ o.core.mv0 = CoreValue(m)
      /\ o.sat.flow = 0 /\ o.sat.mv0 = SatValue(m)
  BY DEF OpenedPeriod, NewTrack
<1>6. ips.id # Unbound.id
  BY <1>0, PolicyAssumption DEF StatementTyped
<1>7. cash = o.eq0 + (o.core.flow - o.core.mv0) + (o.sat.flow - o.sat.mv0)
  BY <1>0, <1>2, <1>3, <1>4, <1>5
<1>. QED
  BY <1>5, <1>6, <1>7 DEF Accounts

\* Steps that move neither money nor the period.
LEMMA LedgerStays ==
    ASSUME LedgerInv, UNCHANGED <<cash, period, rows>>, camp.over => camp'.over,
           \A x \in Names : pos'[x].qty = pos[x].qty,
           Idle' \/ (~Idle /\ UNCHANGED ips)
    PROVE  LedgerInv'
<1>1. period' = NoPeriod /\ ~camp'.over => Untouched'
  BY DEF LedgerInv, Untouched
<1>. QED
  BY <1>1 DEF LedgerInv, Untouched, Accounts

LEMMA IdleLedger ==
    ASSUME TypeOK, SleevesReconcile, MarksInv, LedgerInv,
           Exchange \/ Operator \/ \E t \in Tickers : Tick(t)
    PROVE  LedgerInv'
<1>0. BookTyped /\ DeskTyped /\ TickersTyped /\ Idle
  <2>1. Exchange => Idle
    BY DEF Exchange, CloseMarket, NextDay, CampaignEnds, Horizon
  <2>2. Operator => Idle
    BY SMTT(60) DEF Operator, StartCampaign, SetAutopilot, BindIPS, PreviewTargets, Command
  <2>3. ASSUME NEW t \in Tickers, Tick(t) PROVE Idle
    BY <2>3 DEF Tick, TickStart, TickEnded, Plan, Check, GetQuotes, Lock
  <2>. QED
    BY <2>1, <2>2, <2>3 DEF TypeOK
<1>1. CASE Exchange
  <2>1. UNCHANGED <<cash, pos, period, rows, ex>>
    BY <1>1 DEF Exchange, CloseMarket, NextDay, CampaignEnds, Horizon, vars, book, ledger
  <2>2. camp.over => camp'.over
    BY <1>0, <1>1 DEF Exchange, CloseMarket, NextDay, CampaignEnds, Horizon, vars, DeskTyped
  <2>. QED
    BY <1>0, <2>1, <2>2, LedgerStays DEF Idle
<1>2. CASE StartCampaign
  <2>1. cash' = StartCash /\ rows' = <<>> /\ period' = NoPeriod /\ UNCHANGED ex
    BY <1>2 DEF StartCampaign, FreshBook
  <2>2. \A x \in Names : pos'[x].qty = 0
    BY <1>2 DEF StartCampaign, FreshBook, Flat
  <2>. QED
    BY <1>0, <2>1, <2>2 DEF LedgerInv, Untouched, Idle
<1>3. CASE (\E on \in BOOLEAN : SetAutopilot(on)) \/ (\E p \in Policies : BindIPS(p))
  <2>1. UNCHANGED <<cash, pos, period, rows, ex>>
    BY <1>3 DEF SetAutopilot, BindIPS, book, ledger
  <2>2. camp.over => camp'.over
    BY <1>0, <1>3 DEF SetAutopilot, BindIPS, DeskTyped
  <2>. QED
    BY <1>0, <2>1, <2>2, LedgerStays DEF Idle
<1>4. CASE PreviewTargets
  <2>1. UNCHANGED <<cash, period, rows, ex, camp>>
    BY <1>4 DEF PreviewTargets, ledger
  <2>2. PICK marks \in [Names -> Prices] : pos' = Marked(QuotesOf(marks))
    BY <1>4 DEF PreviewTargets
  <2>3. \A x \in Names : pos'[x].qty = pos[x].qty
    BY <1>0, <2>2, QuotesType, QuotesOfQuoted, MarkedAt DEF MarksInv
  <2>. QED
    BY <1>0, <2>1, <2>3, LedgerStays DEF Idle
<1>5. ASSUME NEW t \in Tickers, TickStart(t) \/ Plan(t) \/ Check(t) \/ GetQuotes(t)
      PROVE  LedgerInv'
  <2>1. UNCHANGED <<cash, pos, period, rows, ex, camp>>
    BY <1>5 DEF TickStart, Plan, Check, GetQuotes, book, ledger
  <2>. QED
    BY <1>0, <2>1, LedgerStays DEF Idle
<1>6. ASSUME NEW t \in Tickers, TickEnded(t) PROVE LedgerInv'
  <2>1. period' = NoPeriod /\ camp.over /\ UNCHANGED <<camp, ex>>
    BY <1>6 DEF TickEnded
  <2>. QED
    BY <1>0, <2>1 DEF LedgerInv, Idle
<1>7. ASSUME NEW t \in Tickers, Lock(t) PROVE LedgerInv'
  <2>. DEFINE m == quote[t].last
              d == quote[t].day
              p == Marked(m)
  <2>1. m \in MarksType /\ Quoted(m)
    BY <1>0, <1>7 DEF TickersTyped, QuoteType, Lock, MarksInv, QuotesQuoted
  <2>2. /\ pos' = p /\ UNCHANGED <<cash, rows, ips, camp>>
        /\ period' = IF period = NoPeriod THEN OpenedPeriod(m, d, EquityOf(p)) ELSE period
    BY <1>7 DEF Lock, policy
  <2>. HIDE DEF m, d
  <2>3. /\ \A x \in Names : pos'[x].qty = pos[x].qty
        /\ \A x \in Names : p[x].mv = pos[x].qty * m[x]
        /\ p \in [Names -> PositionType]
    BY <1>0, <2>1, <2>2, MarkedAt, MarkedType DEF MarksInv
  <2>. HIDE DEF p
  <2>4. CASE period # NoPeriod
    <3>1. UNCHANGED period
      BY <2>2, <2>4
    <3>. QED
      BY <2>2, <2>3, <2>4, <3>1 DEF LedgerInv, Accounts
  <2>5. CASE period = NoPeriod /\ ips = Unbound
    <3>1. period' = NoPeriod
      BY <2>2, <2>5 DEF OpenedPeriod
    <3>. QED
      BY <2>2, <2>3, <2>5, <3>1 DEF LedgerInv, Untouched
  <2>6. CASE period = NoPeriod /\ ips # Unbound
    <3>1. /\ Accounts(period', cash) /\ period'.under # Unbound.id
          /\ period'.eq0 = EquityOf(p)
      BY <2>1, <2>2, <2>3, <2>6, OpenedAccounts
    <3>2. period' # NoPeriod
      BY <3>1 DEF NoPeriod
    <3>3. ~camp'.over => Booked(rows') = period'.eq0 - StartCash
      <4>. SUFFICES ASSUME ~camp.over PROVE Booked(rows) = EquityOf(p) - StartCash
        BY <2>2, <3>1
      <4>1. cash = StartCash /\ rows = <<>> /\ \A x \in Names : pos[x].qty = 0
        BY <2>6 DEF LedgerInv, Untouched
      <4>2. EquityOf(p) = cash
        BY <1>0, <2>1, <2>3, <4>1, EmptyWorth
      <4>. QED
        BY <4>1, <4>2, NothingBooked DEF StartCash
    <3>. QED
      BY <2>2, <3>1, <3>2, <3>3 DEF LedgerInv, Accounts
  <2>. QED
    BY <2>4, <2>5, <2>6
<1>. QED
  BY <1>1, <1>2, <1>3, <1>4, <1>5, <1>6, <1>7 DEF Operator, Tick

\* A fill moves the cash and the flow of its sleeve by the same amount.
LEMMA FillLedger ==
    ASSUME TypeOK, SleevesReconcile, LedgerInv, ~Idle, UNCHANGED <<camp, ips>>, UNCHANGED rows,
           NEW a \in Int, cash' = cash + a, period' \in {CoreFlow(a), SatFlow(a)},
           ips # Unbound \/ \E x \in Names : sat[x].qty > 0
    PROVE  LedgerInv'
<1>0. BookTyped /\ LedgerTyped /\ cash \in Int
  BY DEF TypeOK, BookTyped
<1>1. CASE period = NoPeriod
  <2>1. camp.over
    <3>. SUFFICES ASSUME ~camp.over PROVE FALSE
      OBVIOUS
    <3>1. PICK x \in Names : sat[x].qty > 0
      BY <1>1 DEF LedgerInv
    <3>2. pos[x].qty = 0
      BY <1>1 DEF LedgerInv, Untouched
    <3>. QED
      BY <1>0, <3>1, <3>2 DEF SleevesReconcile, BookTyped, TradeType
  <2>2. period' = NoPeriod
    BY <1>1 DEF CoreFlow, SatFlow
  <2>3. ips = Unbound
    BY <1>1 DEF LedgerInv
  <2>. QED
    BY <2>1, <2>2, <2>3 DEF LedgerInv
<1>2. CASE period # NoPeriod
  <2>1. /\ period.eq0 \in Int /\ period.core.flow \in Int /\ period.core.mv0 \in Int
        /\ period.sat.flow \in Int /\ period.sat.mv0 \in Int
    BY <1>0, PeriodFields
  <2>2. /\ period'.under = period.under /\ period'.eq0 = period.eq0
        /\ period'.core.mv0 = period.core.mv0 /\ period'.sat.mv0 = period.sat.mv0
        /\ \/ period'.core.flow = period.core.flow + a /\ period'.sat.flow = period.sat.flow
           \/ period'.core.flow = period.core.flow /\ period'.sat.flow = period.sat.flow + a
    <3>1. period \in PeriodType
      BY <1>0 DEF LedgerTyped
    <3>2. CASE period' = CoreFlow(a)
      BY <1>2, <3>1, <3>2 DEF CoreFlow, PeriodType, TrackType
    <3>3. CASE period' = SatFlow(a)
      BY <1>2, <3>1, <3>3 DEF SatFlow, PeriodType, TrackType
    <3>. QED
      BY <3>2, <3>3
  <2>3. period.under # Unbound.id /\ Accounts(period, cash)
    BY <1>2 DEF LedgerInv
  <2>4. Accounts(period', cash')
    BY <1>0, <2>1, <2>2, <2>3 DEF Accounts
  <2>5. period' # NoPeriod
    BY <2>2, <2>3 DEF NoPeriod
  <2>. QED
    BY <1>2, <2>2, <2>3, <2>4, <2>5 DEF LedgerInv
<1>. QED
  BY <1>1, <1>2

\* A period that closes books what the equity moved since it opened.
LEMMA BookingLedger ==
    ASSUME TypeOK, SleevesReconcile, MarksInv, LedgerInv, ~Idle,
           UNCHANGED <<camp, ips, cash, pos>>,
           ips # Unbound, NEW date \in Nat,
           rows' = BookedRows(last, date, "rebalance"), period' = NextPeriod(last, date)
    PROVE  LedgerInv'
<1>0. /\ BookTyped /\ LedgerTyped /\ FrameTyped /\ StatementTyped
      /\ last \in MarksType /\ cash \in Int /\ Equity \in Int
  BY FrameFields, ValueType DEF TypeOK, BookTyped
<1>1. period # NoPeriod
  BY DEF LedgerInv
<1>. DEFINE r == PeriodRow(last, date, "rebalance")
<1>2. /\ period.eq0 \in Int /\ period.core.flow \in Int /\ period.core.mv0 \in Int
      /\ period.sat.flow \in Int /\ period.sat.mv0 \in Int
  BY <1>0, PeriodFields
<1>3. rows' = Append(rows, r) /\ period' = OpenedPeriod(last, date, Equity)
  BY <1>1 DEF BookedRows, NextPeriod
<1>4. CoreValue(last) \in Int /\ SatValue(last) \in Int
  BY <1>0, SleeveType
<1>5. Equity = cash + CoreValue(last) + SatValue(last)
  BY EquitySplits
<1>6. Accounts(period, cash)
  BY <1>1 DEF LedgerInv
<1>7. r.pnl = Equity - period.eq0
  <2>1. r.pnl = (CoreValue(last) + period.core.flow - period.core.mv0)
                + (SatValue(last) + period.sat.flow - period.sat.mv0)
    BY DEF PeriodRow, Pnl
  <2>. HIDE DEF r
  <2>. QED
    BY <1>0, <1>2, <1>4, <1>5, <1>6, <2>1 DEF Accounts
<1>8. r \in RowType
  <2>1. r.pnl \in Int
    BY <1>0, <1>2, <1>7
  <2>2. /\ r.ips \in Ids /\ r.under \in Ids /\ r.from \in Nat
    BY <1>0 DEF PeriodRow, LedgerTyped, PeriodType, StatementTyped, Ids
  <2>3. r = [ips |-> r.ips, under |-> r.under, from |-> r.from, to |-> date,
             why |-> "rebalance", pnl |-> r.pnl]
    BY DEF PeriodRow
  <2>. HIDE DEF r
  <2>. QED
    BY <2>1, <2>2, <2>3 DEF RowType
<1>. HIDE DEF r
<1>9. /\ Accounts(period', cash) /\ period'.under # Unbound.id /\ period'.eq0 = Equity
  <2>1. pos \in [Names -> PositionType] /\ \A x \in Names : pos[x].mv = pos[x].qty * last[x]
    BY <1>0 DEF BookTyped, MarksInv, MarkedAtQuotes
  <2>2. Quoted(last)
    BY DEF MarksInv, QuotesQuoted
  <2>. QED
    BY <1>0, <1>3, <2>1, <2>2, OpenedAccounts DEF Equity
<1>10. ~camp.over => Booked(rows') = period'.eq0 - StartCash
  <2>1. Booked(rows') = Booked(rows) + r.pnl /\ Booked(rows) \in Int
    BY <1>0, <1>3, <1>8, BookedAdds DEF LedgerTyped
  <2>2. StartCash \in Int
    BY DEF StartCash
  <2>3. ~camp.over => Booked(rows) = period.eq0 - StartCash
    BY <1>1 DEF LedgerInv
  <2>. QED
    BY <1>0, <1>2, <1>7, <1>9, <2>1, <2>2, <2>3
<1>11. period' # NoPeriod
  BY <1>9 DEF NoPeriod
<1>. QED
  BY <1>9, <1>10, <1>11 DEF LedgerInv

\* Walking the drawdown path leaves the money of the period alone.
LEMMA FinishLedger ==
    ASSUME TypeOK, LedgerInv, Finish, UNCHANGED <<camp, ips>>
    PROVE  LedgerInv'
<1>0. LedgerTyped /\ UNCHANGED <<cash, pos, rows>> /\ Idle'
  BY DEF TypeOK, Finish, NoExec, Idle, book
<1>1. CASE period = NoPeriod
  BY <1>0, <1>1 DEF Finish, LedgerInv, Untouched
<1>2. CASE period # NoPeriod
  <2>1. period \in PeriodType /\ period.core \in TrackType /\ period.sat \in TrackType
    BY <1>0 DEF LedgerTyped, PeriodType
  <2>2. ASSUME NEW track \in TrackType, NEW mv
        PROVE  MarkTrack(track, mv).mv0 = track.mv0 /\ MarkTrack(track, mv).flow = track.flow
    BY DEF MarkTrack, TrackType
  <2>3. period' = [period EXCEPT !.core = MarkTrack(period.core, CoreValue(last)),
                                 !.sat  = MarkTrack(period.sat, SatValue(last))]
    BY <1>2 DEF Finish
  <2>4. /\ period'.under = period.under /\ period'.eq0 = period.eq0
        /\ period'.core = MarkTrack(period.core, CoreValue(last))
        /\ period'.sat = MarkTrack(period.sat, SatValue(last))
    BY <2>1, <2>3 DEF PeriodType
  <2>5. /\ period'.core.mv0 = period.core.mv0 /\ period'.core.flow = period.core.flow
        /\ period'.sat.mv0 = period.sat.mv0 /\ period'.sat.flow = period.sat.flow
    BY <2>1, <2>2, <2>4
  <2>6. period.under # Unbound.id /\ Accounts(period, cash)
    BY <1>2 DEF LedgerInv
  <2>7. Accounts(period', cash')
    BY <1>0, <2>4, <2>5, <2>6 DEF Accounts
  <2>8. period' # NoPeriod
    BY <2>4, <2>6 DEF NoPeriod
  <2>. QED
    BY <1>0, <1>2, <2>4, <2>6, <2>7, <2>8 DEF LedgerInv
<1>. QED
  BY <1>1, <1>2

LEMMA ExecuteLedger ==
    ASSUME TypeOK, SleevesReconcile, MarksInv, LedgerInv, Execute
    PROVE  LedgerInv'
<1>0. ~Idle /\ UNCHANGED <<camp, ips>>
  BY ExecuteFrame, FrameMoves
<1>1. ASSUME NEW x \in Names \ Unquoted, NEW q \in Nat, NEW p \in Int, NEW a \in Int,
             CoreFill(x, q, p, a)
      PROVE  LedgerInv'
  BY <1>0, <1>1, FillLedger DEF CoreFill
<1>2. ASSUME NEW x \in Names \ Unquoted, NEW tr \in TradeType, NEW p \in Int, NEW a \in Int,
             SatFill(x, tr, p, a)
      PROVE  LedgerInv'
  <2>1. /\ ips # Unbound \/ \E y \in Names : sat[y].qty > 0
        /\ cash' = cash + a /\ period' = SatFlow(a) /\ UNCHANGED rows
    BY <1>2 DEF SatFill
  <2>. QED
    BY <1>0, <2>1, FillLedger
<1>3. ASSUME UNCHANGED <<cash, pos, period, rows>> PROVE LedgerInv'
  BY <1>0, <1>3, LedgerStays
<1>4. ASSUME UNCHANGED <<cash, pos>>, CoreSession PROVE LedgerInv'
  <2>1. CASE ips = Unbound \/ ~OpensPeriod
    BY <1>3, <1>4, <2>1 DEF CoreSession
  <2>2. CASE ips # Unbound /\ OpensPeriod
    <3>1. /\ rows' = BookedRows(last, today, "rebalance")
          /\ period' = NextPeriod(last, today)
      BY <1>4, <2>2 DEF CoreSession
    <3>2. today \in Nat
      BY FrameFields DEF TypeOK
    <3>. QED
      BY <1>0, <1>4, <2>2, <3>1, <3>2, BookingLedger
  <2>. QED
    BY <2>1, <2>2
<1>5. CASE Finish
  BY <1>0, <1>5, FinishLedger
<1>. QED
  BY <1>1, <1>2, <1>3, <1>4, <1>5, Fills

LEMMA LedgerInvariant == Spec => [](TypeOK /\ SleevesReconcile /\ MarksInv /\ LedgerInv)
<1>1. Init => LedgerInv
  <2>. SUFFICES ASSUME Init PROVE LedgerInv
    OBVIOUS
  <2>1. Idle /\ period = NoPeriod /\ cash = StartCash /\ rows = <<>>
    BY DEF Init, Idle, NoExec
  <2>2. \A x \in Names : pos[x].qty = 0
    BY DEF Init, Flat
  <2>. QED
    BY <2>1, <2>2 DEF LedgerInv, Untouched
<1>2. TypeOK /\ SleevesReconcile /\ MarksInv /\ LedgerInv /\ [Next]_vars => LedgerInv'
  <2>. SUFFICES ASSUME TypeOK, SleevesReconcile, MarksInv, LedgerInv, [Next]_vars
                PROVE  LedgerInv'
    OBVIOUS
  <2>1. CASE UNCHANGED vars
    <3>1. UNCHANGED <<cash, pos, period, rows, camp, ips, ex>>
      BY <2>1 DEF vars, book, ledger, policy
    <3>. QED
      BY <3>1, LedgerStays DEF Idle
  <2>2. CASE Next
    BY <2>2, IdleLedger, ExecuteLedger DEF Next
  <2>. QED
    BY <2>1, <2>2
<1>. QED
  BY <1>1, <1>2, BookInvariant, MarksInvariant, PTL DEF Spec

\* What the periods booked is what the book made, for every universe, tape,
\* set of statements and number of tickers: over sales, charges, restarts
\* and re-bindings the two sleeves of the open period explain the equity
\* since it opened (period.go: value = market value + net cash flow), and
\* while the campaign runs the rows booked explain the equity it opened at.
THEOREM LedgerAlwaysReconciles == Spec => []LedgerReconciles
<1>1. TypeOK /\ SleevesReconcile /\ MarksInv /\ LedgerInv => LedgerReconciles
  <2>. SUFFICES ASSUME TypeOK, SleevesReconcile, MarksInv, LedgerInv, period # NoPeriod
                PROVE  EquityAt(lastMarks) = period.eq0 + Pnl(period.core, CoreValue(lastMarks))
                                                        + Pnl(period.sat, SatValue(lastMarks))
    BY DEF LedgerInv, LedgerReconciles
  <2>. DEFINE f == [x \in Names |-> pos[x].qty * lastMarks[x]]
  <2>1. BookTyped /\ LedgerTyped /\ cash \in Int /\ lastMarks \in MarksType /\ Quoted(lastMarks)
    BY DEF TypeOK, BookTyped, LedgerTyped, MarksInv, QuotesQuoted
  <2>2. f \in [Names -> Int] /\ \A x \in Names : f[x] = pos[x].qty * lastMarks[x]
    <3>1. \A x \in Names : pos[x].qty \in Nat /\ lastMarks[x] \in Nat
      BY <2>1, MarkType DEF BookTyped, PositionType
    <3>2. \A x \in Names : pos[x].qty * lastMarks[x] \in Int
      BY <3>1, ProductType
    <3>. QED
      BY <3>2
  <2>3. EquityAt(lastMarks) = cash + Total(f)
    BY DEF EquityAt
  <2>. HIDE DEF f
  <2>4. Total(f) = CoreValue(lastMarks) + SatValue(lastMarks)
    BY <2>1, <2>2, SleevesWorth DEF MarksInv
  <2>5. CoreValue(lastMarks) \in Int /\ SatValue(lastMarks) \in Int
    BY <2>1, SleeveType
  <2>6. /\ period.eq0 \in Int /\ period.core.flow \in Int /\ period.core.mv0 \in Int
        /\ period.sat.flow \in Int /\ period.sat.mv0 \in Int
    BY <2>1, PeriodFields
  <2>7. cash = period.eq0 + (period.core.flow - period.core.mv0) + (period.sat.flow - period.sat.mv0)
    BY DEF LedgerInv, Accounts
  <2>. QED
    BY <2>1, <2>3, <2>4, <2>5, <2>6, <2>7 DEF Pnl
<1>. QED
  BY <1>1, LedgerInvariant, PTL

-----------------------------------------------------------------------------
(* The account.  Every step is one of Portfolio's or leaves it alone.      *)

\* A waiting ticket asks for at least a unit, at the fill of the tick's quote.
PricedAt(t, marks) ==
    /\ t.qty >= 1
    /\ t.price = IF t.side = "SELL" THEN SellFill(marks[t.sym]) ELSE BuyFill(marks[t.sym])

TicketsPriced == \A j \in 1..Len(ex.tickets) : PricedAt(ex.tickets[j], last)

LEMMA PricedAdded ==
    ASSUME TicketsPriced, ex.tickets \in Seq(TicketType), NEW t, PricedAt(t, last),
           ex'.tickets = Append(ex.tickets, t), ex'.quote = ex.quote
    PROVE  TicketsPriced'
<1>1. /\ Len(ex'.tickets) = Len(ex.tickets) + 1 /\ Len(ex.tickets) \in Nat
      /\ \A j \in 1..Len(ex.tickets) : ex'.tickets[j] = ex.tickets[j]
      /\ ex'.tickets[Len(ex.tickets) + 1] = t
  OBVIOUS
<1>2. \A j \in 1..Len(ex'.tickets) : j \in 1..Len(ex.tickets) \/ j = Len(ex.tickets) + 1
  BY <1>1
<1>3. last' = last
  BY DEF last
<1>. QED
  BY <1>1, <1>2, <1>3 DEF TicketsPriced

\* What Execute does to its tickets.
LEMMA TicketsMove ==
    ASSUME TypeOK, Execute
    PROVE  \/ ex'.tickets = NoTickets
           \/ ex'.quote = ex.quote /\ ex'.tickets = ex.tickets
           \/ /\ ex'.quote = ex.quote
              /\ \E t : PricedAt(t, last) /\ ex'.tickets = Append(ex.tickets, t)
<1>0. FrameTyped
  BY DEF TypeOK
<1>1. CASE PlanSell
  <2>. DEFINE x == ex.i
              t == Ticket(x, "SELL", SellQty(x), SellFill(last[x]))
  <2>1. \/ Skipped \/ Deferred
        \/ /\ SellQty(x) >= 1
           /\ Planned(t, AfterSell(ex.snap, x, Notional(t), SellQty(x) * last[x]), TRUE)
    BY <1>1 DEF PlanSell
  <2>2. SellQty(x) >= 1 => PricedAt(t, last)
    BY DEF PricedAt, Ticket
  <2>. HIDE DEF x, t
  <2>. QED
    BY <1>0, <2>1, <2>2, FrameForms
<1>2. CASE PlanBuy
  <2>. DEFINE x    == ex.i
              room == Lesser(-ex.drift[x], RailRoom(ex.snap, x))
              qty  == room \div BuyFill(last[x])
              t    == Ticket(x, "BUY", qty, BuyFill(last[x]))
              whole == ~(room < -ex.drift[x] - 1)
  <2>1. \/ Skipped \/ Deferred
        \/ /\ qty >= 1
           /\ Planned(t, AfterBuy(ex.snap, x, Notional(t)), whole)
    BY <1>2 DEF PlanBuy
  <2>2. qty >= 1 => PricedAt(t, last)
    <3>. HIDE DEF qty
    <3>. QED
      BY DEF PricedAt, Ticket
  <2>. HIDE DEF x, qty, t, whole
  <2>. QED
    BY <1>0, <2>1, <2>2, FrameForms
<1>3. CASE CoreSession
  BY <1>0, <1>3, FrameForms DEF CoreSession, FrameTyped, FrameType
<1>4. CASE SellsPlanned \/ BuysPlanned
  BY <1>0, <1>4, FrameForms DEF SellsPlanned, BuysPlanned, FrameTyped, FrameType
<1>5. CASE CoreTicket
  BY <1>0, <1>5, FrameForms DEF CoreTicket
<1>6. CASE CoreWorked
  BY <1>0, <1>6 DEF CoreWorked, FrameTyped, FrameType
<1>7. CASE ExitTrade
  BY <1>0, <1>7, FrameForms DEF ExitTrade
<1>8. CASE SatelliteStart \/ Satellite
  BY <1>0, <1>8, FrameForms DEF SatelliteStart, Satellite
<1>9. CASE Finish
  BY <1>9 DEF Finish, NoExec
<1>. QED
  BY <1>1, <1>2, <1>3, <1>4, <1>5, <1>6, <1>7, <1>8, <1>9 DEF Execute

\* No step but Execute's adds a ticket or changes a quote under one.
LEMMA IdleTickets ==
    ASSUME Exchange \/ Operator \/ \E t \in Tickers : Tick(t)
    PROVE  UNCHANGED ex \/ ex'.tickets = NoTickets
<1>1. CASE Exchange
  BY <1>1 DEF Exchange, CloseMarket, NextDay, CampaignEnds, Horizon, vars
<1>2. CASE Operator
  BY <1>2 DEF Operator, StartCampaign, SetAutopilot, BindIPS, PreviewTargets
<1>3. ASSUME NEW t \in Tickers, Tick(t) PROVE UNCHANGED ex \/ ex'.tickets = NoTickets
  <2>1. CASE Lock(t)
    <3>1. PICK q : ex' = [NoExec EXCEPT !.phase = "exits", !.i = 1, !.quote = q]
      BY <2>1 DEF Lock
    <3>. QED
      BY <3>1 DEF NoExec
  <2>2. CASE TickStart(t) \/ TickEnded(t) \/ Plan(t) \/ Check(t) \/ GetQuotes(t)
    BY <2>2 DEF TickStart, TickEnded, Plan, Check, GetQuotes
  <2>. QED
    BY <1>3, <2>1, <2>2 DEF Tick
<1>. QED
  BY <1>1, <1>2, <1>3

LEMMA PricedStep ==
    ASSUME TypeOK, TicketsPriced, [Next]_vars
    PROVE  TicketsPriced'
<1>1. ex.tickets \in Seq(TicketType)
  BY FrameFields DEF TypeOK
<1>2. CASE ex'.tickets = NoTickets
  BY <1>2 DEF TicketsPriced, NoTickets
<1>3. CASE ex'.quote = ex.quote /\ ex'.tickets = ex.tickets
  BY <1>3 DEF TicketsPriced, last
<1>4. CASE Execute
  BY <1>1, <1>2, <1>3, <1>4, TicketsMove, PricedAdded
<1>5. CASE UNCHANGED vars
  BY <1>3, <1>5 DEF vars
<1>. QED
  BY <1>2, <1>3, <1>4, <1>5, IdleTickets DEF Next

LEMMA PricedInvariant == Spec => [](TypeOK /\ TicketsPriced)
<1>1. Init => TypeOK /\ TicketsPriced
  <2>1. Init => ex.tickets = <<>>
    BY DEF Init, NoExec, NoTickets
  <2>. QED
    BY <2>1, InitType DEF TicketsPriced
<1>2. TypeOK /\ TicketsPriced /\ [Next]_vars => (TypeOK /\ TicketsPriced)'
  BY StepTypeCorrect, PricedStep
<1>. QED
  BY <1>1, <1>2, PTL DEF Spec

\* A sale pays something, and no more than its units are worth.
LEMMA SaleGain ==
    ASSUME NEW px \in Nat, px >= 20, NEW qty \in Nat, qty >= 1
    PROVE  /\ qty * px \in Nat /\ qty * SellFill(px) \in Nat
           /\ qty * SellFill(px) - RoundTripSell(qty * SellFill(px)) \in Int
           /\ qty * SellFill(px) - RoundTripSell(qty * SellFill(px)) > 0
           /\ qty * SellFill(px) - RoundTripSell(qty * SellFill(px)) <= qty * px
<1>1. /\ Slip(px) \in Nat /\ SellFill(px) \in Nat /\ SellFill(px) >= 19
      /\ px = SellFill(px) + Slip(px)
  BY DEF Slip, SellFill
<1>. DEFINE fill == SellFill(px)
            n    == qty * fill
<1>. HIDE DEF fill
<1>2. /\ n \in Nat /\ qty * Slip(px) \in Nat /\ qty * px = n + qty * Slip(px)
  <2>1. fill \in Nat /\ px = fill + Slip(px)
    BY <1>1 DEF fill
  <2>. QED
    BY <1>1, <2>1, ProductType, Distributes
<1>3. n >= 19
  <2>1. fill \in Nat /\ fill >= 19
    BY <1>1 DEF fill
  <2>2. PICK k \in Nat : qty = 1 + k
    <3>1. qty - 1 \in Nat /\ qty = 1 + (qty - 1)
      OBVIOUS
    <3>. QED
      BY <3>1
  <2>3. k * fill \in Nat
    BY <2>1, ProductType
  <2>4. n = fill + k * fill
    BY <2>1, <2>2, Distributes
  <2>. QED
    BY <2>1, <2>3, <2>4
<1>. HIDE DEF n
<1>4. /\ n - RoundTripSell(n) \in Int /\ n - RoundTripSell(n) > 0 /\ n - RoundTripSell(n) <= n
  BY <1>2, <1>3 DEF RoundTripSell
<1>. QED
  BY <1>2, <1>4 DEF n, fill

\* A room under the rails leaves the name under its cap and the cash above its
\* buffer.
LEMMA RoomBelow ==
    ASSUME NEW s \in Snapshots, NEW x \in Names, RailRoom(s, x) > 0
    PROVE  /\ s.equity > 0
           /\ RailRoom(s, x) <= PctOf(NameCap, s.equity) - s.held[x]
           /\ RailRoom(s, x) <= s.cash - PctOf(CashBuffer, s.equity)
<1>. DEFINE name   == PctOf(NameCap, s.equity) - s.held[x]
            gross  == PctOf(GrossCap, s.equity) - Gross(s)
            buffer == s.cash - PctOf(CashBuffer, s.equity)
            sector == PctOf(SectorCap, s.equity) - SectorHeld(s, x)
            day_   == TurnoverRoom(s)
            rest   == Lesser(sector, day_)
            room   == RailRoom(s, x)
<1>1. /\ s.equity \in Int /\ s.cash \in Int /\ s.held[x] \in Int /\ s.held \in [Names -> Int]
  BY DEF Snapshots
<1>2. /\ PctOf(NameCap, s.equity) \in Int /\ PctOf(GrossCap, s.equity) \in Int
      /\ PctOf(CashBuffer, s.equity) \in Int /\ PctOf(SectorCap, s.equity) \in Int
  <2>1. NameCap \in Int /\ GrossCap \in Int /\ CashBuffer \in Int /\ SectorCap \in Int
    BY DEF NameCap, GrossCap, CashBuffer, SectorCap
  <2>. QED
    BY <1>1, <2>1, PctType
<1>3. Gross(s) \in Int /\ SectorHeld(s, x) \in Int
  <2>1. [y \in Names |-> IF Sector[y] = Sector[x] THEN s.held[y] ELSE 0] \in [Names -> Int]
    BY <1>1
  <2>. QED
    BY <1>1, <2>1, TotalType DEF Gross, SectorHeld
<1>4. room \in Int /\ day_ \in Int
  BY RoomType
<1>5. name \in Int /\ gross \in Int /\ buffer \in Int /\ sector \in Int
  BY <1>1, <1>2, <1>3
<1>6. room = IF Halted(s) \/ s.equity <= 0 THEN 0
             ELSE AtLeastZero(Lesser(name, Lesser(gross, Lesser(buffer, rest))))
  BY DEF RailRoom
<1>. HIDE DEF name, gross, buffer, sector, day_, room
<1>7. rest \in Int
  BY <1>4, <1>5, BoundType
<1>. HIDE DEF rest
<1>8. /\ Lesser(buffer, rest) \in Int /\ Lesser(buffer, rest) <= buffer
  BY <1>5, <1>7, BoundType
<1>9. /\ Lesser(gross, Lesser(buffer, rest)) \in Int
      /\ Lesser(gross, Lesser(buffer, rest)) <= Lesser(buffer, rest)
  BY <1>5, <1>8, BoundType
<1>10. /\ Lesser(name, Lesser(gross, Lesser(buffer, rest))) \in Int
       /\ Lesser(name, Lesser(gross, Lesser(buffer, rest))) <= name
       /\ Lesser(name, Lesser(gross, Lesser(buffer, rest))) <= Lesser(gross, Lesser(buffer, rest))
  BY <1>5, <1>9, BoundType
<1>. DEFINE least == Lesser(name, Lesser(gross, Lesser(buffer, rest)))
<1>11. least \in Int /\ least <= name /\ least <= buffer
  <2>. DEFINE l1 == Lesser(buffer, rest)
              l2 == Lesser(gross, l1)
  <2>. HIDE DEF l1
  <2>1. l1 \in Int /\ l1 <= buffer
    BY <1>8 DEF l1
  <2>. HIDE DEF l2
  <2>2. l2 \in Int /\ l2 <= l1 /\ least \in Int /\ least <= name /\ least <= l2
    BY <1>9, <1>10 DEF l1, l2
  <2>. HIDE DEF least
  <2>. QED
    BY <1>5, <2>1, <2>2
<1>12. room > 0
  BY DEF room
<1>. HIDE DEF least
<1>13. ~(s.equity <= 0) /\ room = AtLeastZero(least)
  BY <1>6, <1>12 DEF least
<1>14. room <= least
  BY <1>4, <1>11, <1>12, <1>13 DEF AtLeastZero
<1>15. s.equity > 0 /\ room <= name /\ room <= buffer
  BY <1>1, <1>4, <1>5, <1>11, <1>13, <1>14
<1>. QED
  BY <1>15 DEF room, name, buffer

\* What the rails admit, the cash buffer pays with its charges.
LEMMA AdmittedIsPaid ==
    ASSUME TypeOK, NEW x \in Names, NEW n \in Nat, NEW calendar \in BOOLEAN,
           BuyAllowed(Snapshot, x, n, calendar)
    PROVE  n + RoundTripBuy(n) <= cash
<1>0. BookTyped /\ StatementTyped
  BY DEF TypeOK
<1>. DEFINE e == Equity
            h == pos[x].mv
            b == PctOf(CashBuffer, e)
            m == PctOf(NameCap, e)
            rail == RailRoom(Snapshot, x)
            s == PctOf(CashSlice, Snapshot.cash)
<1>1. /\ Snapshot.equity = e /\ Snapshot.cash = cash /\ Snapshot.held[x] = h
  BY DEF Snapshot
<1>2. e \in Int /\ cash \in Int /\ h \in Nat
  BY <1>0, ValueType DEF BookTyped, PositionType
<1>3. Snapshot \in Snapshots
  BY <1>0, SnapshotType
<1>4. rail \in Int
  BY <1>3, RoomType
<1>5. n >= 5000 /\ n <= rail
  <2>1. n >= 5000 /\ (n <= rail \/ n <= Room(Snapshot, x))
    BY DEF BuyAllowed, MinNameNotional
  <2>2. s \in Int
    BY <1>1, <1>2, PctType DEF CashSlice
  <2>3. Room(Snapshot, x) = AtLeastZero(Lesser(s, rail))
    BY DEF Room
  <2>. HIDE DEF s, rail
  <2>4. Lesser(s, rail) \in Int /\ Lesser(s, rail) <= rail
    BY <1>4, <2>2, BoundType
  <2>. QED
    BY <1>4, <2>1, <2>3, <2>4 DEF AtLeastZero
<1>6. b \in Int /\ m \in Int
  <2>1. CashBuffer \in Int /\ NameCap \in Int
    BY DEF CashBuffer, NameCap
  <2>. QED
    BY <1>2, <2>1, PctType
<1>7. e > 0 /\ rail <= m - h /\ rail <= cash - b
  <2>1. RailRoom(Snapshot, x) > 0
    BY <1>4, <1>5
  <2>. QED
    BY <1>1, <1>3, <2>1, RoomBelow
<1>8. m = (8 * e) \div 100 /\ b = (10 * e) \div 100
  BY DEF PctOf, NameCap, CashBuffer
<1>. DEFINE k == (115 * n) \div 100000
<1>9. RoundTripBuy(n) = 12 + k
  BY <1>5 DEF RoundTripBuy
<1>10. k \in Int /\ 100000 * k <= 115 * n
  OBVIOUS
<1>. HIDE DEF e, m, h, b, rail, k
<1>11. 100 * m <= 8 * e /\ 10 * e <= 100 * b + 99
  BY <1>2, <1>6, <1>8
<1>12. n <= m /\ n <= cash - b
  BY <1>2, <1>4, <1>5, <1>6, <1>7
<1>13. 12 + k <= b
  BY <1>2, <1>5, <1>6, <1>10, <1>11, <1>12
<1>. QED
  BY <1>2, <1>6, <1>9, <1>10, <1>12, <1>13

\* A deal in a name of which the account held `old' units and now holds `new'.
Bought(x, old, new) ==
    new > old /\ cash' >= 0 /\ cash - cash' >= (new - old) * last[x]
Sold(x, old, new) ==
    0 <= new /\ new < old /\ cash' > cash /\ cash' - cash <= (old - new) * last[x]
Dealt(x, old, new) == last[x] > 0 /\ (Bought(x, old, new) \/ Sold(x, old, new))

\* A buy at the fill, charges on top.
LEMMA BuyDeals ==
    ASSUME TypeOK, NEW x \in Names, last[x] # 0, NEW qty \in Nat, NEW old \in Nat,
           NEW calendar \in BOOLEAN, BuyAllowed(Snapshot, x, qty * BuyFill(last[x]), calendar),
           cash' = cash - (qty * BuyFill(last[x]) + RoundTripBuy(qty * BuyFill(last[x])))
    PROVE  Dealt(x, old, old + qty)
<1>. DEFINE px == last[x]
            n  == qty * BuyFill(px)
            c  == RoundTripBuy(n)
<1>1. px \in Nat /\ px >= 20 /\ cash \in Int
  BY FrameFields, MarkType DEF TypeOK, BookTyped
<1>2. /\ qty * px \in Nat /\ n \in Nat /\ qty * px <= n /\ c \in Nat
  BY <1>1, FillCost
<1>3. n + c <= cash
  BY <1>2, AdmittedIsPaid
<1>4. n >= 5000
  BY DEF BuyAllowed, MinNameNotional
<1>5. qty > 0
  <2>1. qty = 0 => n = 0
    BY <1>1, SlipType
  <2>. QED
    BY <1>4, <2>1
<1>6. (old + qty) - old = qty /\ old + qty > old
  BY <1>5
<1>7. cash' = cash - (n + c)
  OBVIOUS
<1>. HIDE DEF px, n, c
<1>8. cash' >= 0 /\ cash - cash' >= qty * px
  BY <1>1, <1>2, <1>3, <1>7
<1>9. Bought(x, old, old + qty)
  BY <1>6, <1>8 DEF Bought, px
<1>. QED
  BY <1>1, <1>9 DEF Dealt, px

\* A sale at the fill, charges off it.
LEMMA SaleDeals ==
    ASSUME TypeOK, NEW x \in Names, last[x] # 0, NEW qty \in Nat, qty >= 1, NEW old \in Nat,
           qty <= old,
           cash' = cash + (qty * SellFill(last[x]) - RoundTripSell(qty * SellFill(last[x])))
    PROVE  Dealt(x, old, old - qty)
<1>. DEFINE px  == last[x]
            net == qty * SellFill(px) - RoundTripSell(qty * SellFill(px))
<1>1. px \in Nat /\ px >= 20 /\ cash \in Int
  BY FrameFields, MarkType DEF TypeOK, BookTyped
<1>2. qty * px \in Nat /\ net \in Int /\ net > 0 /\ net <= qty * px
  BY <1>1, SaleGain
<1>3. old - (old - qty) = qty /\ 0 <= old - qty /\ old - qty < old
  OBVIOUS
<1>4. cash' = cash + net
  OBVIOUS
<1>. HIDE DEF px, net
<1>5. cash' > cash /\ cash' - cash <= qty * px
  BY <1>1, <1>2, <1>4
<1>6. Sold(x, old, old - qty)
  BY <1>3, <1>5 DEF Sold, px
<1>. QED
  BY <1>1, <1>6 DEF Dealt, px

CoreDeal(x, q) ==
    /\ coreQty' = [coreQty EXCEPT ![x] = q] /\ UNCHANGED <<sat, last>>
    /\ Dealt(x, coreQty[x], q)
SatDeal(x, tr) ==
    /\ sat' = [sat EXCEPT ![x] = tr] /\ UNCHANGED <<coreQty, last>>
    /\ Dealt(x, sat[x].qty, tr.qty)

\* What Execute does to the account: one deal, or nothing.
LEMMA ExecuteDeals ==
    ASSUME TypeOK, MarksInv, TicketsInv, TicketsPriced, Execute
    PROVE  \/ \E x \in Names, q \in Nat : CoreDeal(x, q)
           \/ \E x \in Names, tr \in TradeType : SatDeal(x, tr)
           \/ UNCHANGED <<cash, coreQty, sat>>
<1>0. StatementTyped /\ BookTyped /\ DeskTyped /\ FrameTyped
  BY DEF TypeOK
<1>1. /\ today \in Nat
      /\ \A x \in Names : /\ sat[x].qty \in Nat /\ coreQty[x] \in Nat
                          /\ last[x] \in Nat /\ (last[x] = 0 \/ last[x] >= 20)
  BY <1>0, FrameFields, MarkType DEF BookTyped, TradeType
<1>2. CASE ExitTrade
  <2>. DEFINE x        == ex.i
              qty      == sat[x].qty
              proceeds == qty * SellFill(last[x])
  <2>1. x \in Names /\ UNCHANGED coreQty
    BY <1>0, <1>2, LoopName DEF ExitTrade, Loops
  <2>2. last' = last
    <3>1. ex'.quote = ex.quote
      BY <1>0, <1>2, FrameForms DEF ExitTrade
    <3>. QED
      BY <3>1 DEF last
  <2>3. CASE qty > 0 /\ last[x] # 0 /\ CloseTrade(x)
    <3>1. /\ cash' = cash + (proceeds - RoundTripSell(proceeds))
          /\ sat' = [sat EXCEPT ![x] = NoTrade]
      BY <2>3 DEF CloseTrade
    <3>2. qty \in Nat /\ qty >= 1 /\ qty <= qty
      BY <1>1, <2>1, <2>3
    <3>3. Dealt(x, qty, qty - qty)
      BY <2>1, <2>3, <3>1, <3>2, SaleDeals
    <3>4. qty - qty = NoTrade.qty /\ NoTrade \in TradeType
      BY <3>2 DEF NoTrade, TradeType
    <3>. HIDE DEF x
    <3>5. SatDeal(x, NoTrade)
      BY <2>1, <2>2, <3>1, <3>3, <3>4 DEF SatDeal
    <3>. QED
      BY <2>1, <3>4, <3>5
  <2>4. CASE UNCHANGED <<cash, period, pos, sat>>
    BY <2>1, <2>4
  <2>. QED
    BY <1>2, <2>3, <2>4 DEF ExitTrade
<1>3. CASE CoreTicket
  <2>. DEFINE t == ex.tickets[ex.i]
              x == t.sym
  <2>1. /\ ex.i \in 1..Len(ex.tickets) /\ t \in TicketType /\ x \in Names /\ t.qty \in Nat
        /\ ex.phase = "tickets" /\ UNCHANGED sat
    BY <1>0, <1>3, TicketNow DEF CoreTicket
  <2>2. last' = last
    <3>1. ex'.quote = ex.quote
      BY <1>0, <1>3, FrameForms DEF CoreTicket
    <3>. QED
      BY <3>1 DEF last
  <2>3. last[x] # 0
    BY <2>1, ExecuteFrame DEF MarksInv, QuotesQuoted, TicketsQuoted, Quoted
  <2>4. PricedAt(t, last)
    BY <2>1 DEF TicketsPriced
  <2>5. CASE t.side = "SELL" /\ SellCore(t)
    <3>1. Notional(t) = t.qty * SellFill(last[x]) /\ t.qty >= 1
      BY <2>4, <2>5 DEF Notional, PricedAt
    <3>2. t.qty <= coreQty[x]
      <4>1. ex.i >= ex.i
        BY <1>0, FrameFields
      <4>. QED
        BY <2>1, <2>5, <4>1 DEF TicketsInv, SellsCovered
    <3>. DEFINE q == AtLeastZero(coreQty[x] - t.qty)
    <3>3. q \in Nat /\ q = coreQty[x] - t.qty
      <4>1. coreQty[x] \in Nat
        BY <1>1, <2>1
      <4>. QED
        BY <2>1, <3>2, <4>1 DEF AtLeastZero
    <3>4. /\ cash' = cash + (Notional(t) - RoundTripSell(Notional(t)))
          /\ coreQty' = [coreQty EXCEPT ![x] = q]
      BY <2>5 DEF SellCore
    <3>. HIDE DEF x, t, q
    <3>5. Dealt(x, coreQty[x], coreQty[x] - t.qty)
      <4>1. coreQty[x] \in Nat
        BY <1>1, <2>1
      <4>. QED
        BY <2>1, <2>3, <3>1, <3>2, <3>4, <4>1, SaleDeals
    <3>6. CoreDeal(x, q)
      BY <2>1, <2>2, <3>3, <3>4, <3>5 DEF CoreDeal
    <3>. QED
      BY <2>1, <3>3, <3>6
  <2>6. CASE t.side # "SELL" /\ BuyCore(t) /\ BuyAllowed(Snapshot, t.sym, Notional(t), TRUE)
    <3>1. Notional(t) = t.qty * BuyFill(last[x])
      BY <2>4, <2>6 DEF Notional, PricedAt
    <3>. DEFINE q == coreQty[x] + t.qty
    <3>2. q \in Nat /\ coreQty[x] \in Nat
      <4>1. coreQty[x] \in Nat
        BY <1>1, <2>1
      <4>. QED
        BY SMTT(60), <2>1, <4>1
    <3>3. /\ cash' = cash - (Notional(t) + RoundTripBuy(Notional(t)))
          /\ coreQty' = [coreQty EXCEPT ![x] = q]
      BY <2>6 DEF BuyCore
    <3>4. BuyAllowed(Snapshot, x, Notional(t), TRUE)
      BY <2>6
    <3>. HIDE DEF x, t
    <3>5. Dealt(x, coreQty[x], q)
      BY <2>1, <2>3, <3>1, <3>2, <3>3, <3>4, BuyDeals
    <3>. HIDE DEF q
    <3>6. CoreDeal(x, q)
      BY <2>1, <2>2, <3>3, <3>5 DEF CoreDeal
    <3>. QED
      BY <2>1, <3>2, <3>6
  <2>7. CASE UNCHANGED <<cash, period, dayBuys, bought, coreQty, pos>>
    BY <2>1, <2>7
  <2>. QED
    BY <1>3, <2>5, <2>6, <2>7 DEF CoreTicket
<1>4. CASE Satellite
  <2>1. last' = last /\ UNCHANGED coreQty
    <3>1. ex'.quote = ex.quote /\ UNCHANGED coreQty
      BY <1>0, <1>4, FrameForms DEF Satellite
    <3>. QED
      BY <3>1 DEF last
  <2>2. CASE UNCHANGED <<cash, period, sat, pos, dayBuys, bought, peak>>
    BY <2>1, <2>2
  <2>3. ASSUME NEW qty \in Nat, ex.i \in Names, Wants(ex.i), BuySatellite(ex.i, qty),
               BuyAllowed(Snapshot, ex.i, qty * BuyFill(last[ex.i]), FALSE)
        PROVE  \E x \in Names, tr \in TradeType : SatDeal(x, tr)
    <3>. DEFINE x    == ex.i
                fill == BuyFill(last[x])
                cost == qty * fill
                tr   == [qty |-> qty, entry |-> fill, opened |-> today]
    <3>1. /\ cash' = cash - (cost + RoundTripBuy(cost))
          /\ sat' = [sat EXCEPT ![x] = tr]
      BY <2>3 DEF BuySatellite
    <3>2. last[x] # 0 /\ sat[x].qty = 0
      BY <2>3 DEF Wants
    <3>3. fill \in Nat
      BY <1>1, <2>3, SlipType
    <3>4. tr \in TradeType /\ tr.qty = sat[x].qty + qty
      BY <1>1, <2>3, <3>2, <3>3 DEF TradeType
    <3>5. Dealt(x, sat[x].qty, sat[x].qty + qty)
      <4>1. sat[x].qty \in Nat
        BY <3>2
      <4>. QED
        BY <2>3, <3>1, <3>2, <4>1, BuyDeals
    <3>. HIDE DEF x, tr
    <3>6. SatDeal(x, tr)
      BY <2>1, <3>1, <3>4, <3>5 DEF SatDeal
    <3>. QED
      BY <2>3, <3>4, <3>6 DEF x
  <2>. QED
    BY <1>4, <2>2, <2>3, SatelliteBuys
<1>5. CASE \/ CoreSession \/ PlanSell \/ SellsPlanned \/ PlanBuy \/ BuysPlanned
           \/ CoreWorked \/ SatelliteStart \/ Finish
  BY <1>5 DEF CoreSession, PlanSell, SellsPlanned, PlanBuy, BuysPlanned, CoreWorked,
              SatelliteStart, Finish, book
<1>. QED
  BY <1>2, <1>3, <1>4, <1>5 DEF Execute

\* A campaign's fresh start.
Restarted == /\ cash' = StartCash /\ UNCHANGED last
             /\ coreQty' = [x \in Names |-> 0] /\ sat' = [x \in Names |-> NoTrade]

LEMMA IdleAccount ==
    ASSUME Exchange \/ Operator \/ \E t \in Tickers : Tick(t)
    PROVE  Restarted \/ UNCHANGED <<cash, coreQty, sat>>
<1>1. CASE Exchange
  BY <1>1 DEF Exchange, CloseMarket, NextDay, CampaignEnds, Horizon, vars, book
<1>2. CASE StartCampaign
  BY <1>2 DEF StartCampaign, FreshBook, Restarted, last
<1>3. CASE (\E on \in BOOLEAN : SetAutopilot(on)) \/ (\E p \in Policies : BindIPS(p)) \/ PreviewTargets
  BY <1>3 DEF SetAutopilot, BindIPS, PreviewTargets, book
<1>4. ASSUME NEW t \in Tickers, Tick(t) PROVE UNCHANGED <<cash, coreQty, sat>>
  BY <1>4 DEF Tick, TickStart, TickEnded, Plan, Check, GetQuotes, Lock, book
<1>. QED
  BY <1>1, <1>2, <1>3, <1>4 DEF Operator

\* The units the book holds, as Portfolio counts them.
Units == [core |-> coreQty, satellite |-> [x \in Names |-> sat[x].qty]]

\* A deal in one name of one sleeve leaves all other units alone.
LEMMA CoreMoves ==
    ASSUME BookTyped, NEW x \in Names, NEW q, coreQty' = [coreQty EXCEPT ![x] = q], UNCHANGED sat
    PROVE  /\ Units["core"][x] = coreQty[x] /\ Units'["core"][x] = q
           /\ Units' = [Units EXCEPT !["core"][x] = Units'["core"][x]]
<1>1. Units["core"][x] = coreQty[x] /\ Units'["core"][x] = q
  BY DEF Units, BookTyped
<1>2. Units' = [core |-> [coreQty EXCEPT ![x] = q], satellite |-> [y \in Names |-> sat[y].qty]]
  BY DEF Units
<1>3. [Units EXCEPT !["core"][x] = q] = Units'
  <2>. DEFINE a == coreQty
              s == [y \in Names |-> sat[y].qty]
  <2>1. Units = [core |-> a, satellite |-> s]
    BY DEF Units
  <2>2. Units' = [core |-> [a EXCEPT ![x] = q], satellite |-> s]
    BY <1>2
  <2>. HIDE DEF a, s, Units
  <2>. QED
    BY <2>1, <2>2
<1>. QED
  BY <1>1, <1>3

LEMMA SatelliteMoves ==
    ASSUME BookTyped, NEW x \in Names, NEW tr, sat' = [sat EXCEPT ![x] = tr], UNCHANGED coreQty
    PROVE  /\ Units["satellite"][x] = sat[x].qty /\ Units'["satellite"][x] = tr.qty
           /\ Units' = [Units EXCEPT !["satellite"][x] = Units'["satellite"][x]]
<1>1. Units["satellite"][x] = sat[x].qty /\ Units'["satellite"][x] = tr.qty
  BY DEF Units, BookTyped
<1>2. [y \in Names |-> sat'[y].qty] = [[y \in Names |-> sat[y].qty] EXCEPT ![x] = tr.qty]
  BY DEF BookTyped
<1>3. [Units EXCEPT !["satellite"][x] = tr.qty] = Units'
  <2>. DEFINE a == coreQty
              s == [y \in Names |-> sat[y].qty]
              n == tr.qty
  <2>1. Units = [core |-> a, satellite |-> s]
    BY DEF Units
  <2>2. Units' = [core |-> a, satellite |-> [s EXCEPT ![x] = n]]
    BY <1>2 DEF Units
  <2>. HIDE DEF a, s, n, Units
  <2>3. [Units EXCEPT !["satellite"][x] = n] = Units'
    BY <2>1, <2>2
  <2>. QED
    BY <2>3 DEF n
<1>. QED
  BY <1>1, <1>3

LEMMA LastType == TypeOK => last \in [Names -> Nat]
BY FrameFields, MarkType DEF TypeOK, MarksType

LEMMA LastTypeNext == (TypeOK => last \in [Names -> Nat])'
BY LastType, PTL

LEMMA EmptyUnits ==
    coreQty = [x \in Names |-> 0] /\ sat = [x \in Names |-> NoTrade] => Units = Account!Empty
<1>. SUFFICES ASSUME coreQty = [x \in Names |-> 0], sat = [x \in Names |-> NoTrade]
              PROVE  Units = Account!Empty
  OBVIOUS
<1>1. [x \in Names |-> sat[x].qty] = [x \in Names |-> 0]
  BY DEF NoTrade
<1>. DEFINE z == [x \in Names |-> 0]
<1>2. Units = [core |-> z, satellite |-> z]
  BY <1>1 DEF Units
<1>. HIDE DEF z
<1>3. [core |-> z, satellite |-> z] = [s \in {"core", "satellite"} |-> z]
  OBVIOUS
<1>. QED
  BY <1>2, <1>3 DEF Account!Empty, Account!Sleeves, z

LEMMA EmptyUnitsNext ==
    (coreQty = [x \in Names |-> 0] /\ sat = [x \in Names |-> NoTrade] => Units = Account!Empty)'
BY EmptyUnits, PTL

\* Every step of the book is a step of the account or leaves it alone.
LEMMA AccountStep ==
    ASSUME TypeOK, TypeOK', MarksInv, TicketsInv, TicketsPriced, [Next]_vars
    PROVE  [Account!Next]_(Account!vars)
<1>0. BookTyped
  BY DEF TypeOK
<1>1. last \in [Names -> Nat] /\ last' \in [Names -> Nat]
  BY LastType, LastTypeNext
<1>2. CASE UNCHANGED <<cash, coreQty, sat>>
  <2>1. Account!Reprice
    BY <1>1, <1>2 DEF Account!Reprice
  <2>. QED
    BY <2>1 DEF Account!Next
<1>3. ASSUME NEW x \in Names, NEW q \in Nat, CoreDeal(x, q) PROVE Account!Next
  <2>1. /\ Units["core"][x] = coreQty[x] /\ Units'["core"][x] = q
        /\ Units' = [Units EXCEPT !["core"][x] = Units'["core"][x]]
    BY <1>0, <1>3, CoreMoves DEF CoreDeal
  <2>2. Dealt(x, Units["core"][x], Units'["core"][x]) /\ UNCHANGED last
    BY <1>3, <2>1 DEF CoreDeal
  <2>3. Account!Buy("core", x) \/ Account!Sell("core", x)
    BY <2>1, <2>2 DEF Dealt, Bought, Sold, Units, Account!Buy, Account!Sell, Account!Deal
  <2>. QED
    BY <2>3 DEF Account!Next, Account!Sleeves
<1>4. ASSUME NEW x \in Names, NEW tr \in TradeType, SatDeal(x, tr) PROVE Account!Next
  <2>1. /\ Units["satellite"][x] = sat[x].qty /\ Units'["satellite"][x] = tr.qty
        /\ Units' = [Units EXCEPT !["satellite"][x] = Units'["satellite"][x]]
    BY <1>0, <1>4, SatelliteMoves DEF SatDeal
  <2>2. Dealt(x, Units["satellite"][x], Units'["satellite"][x]) /\ UNCHANGED last
    BY <1>4, <2>1 DEF SatDeal
  <2>3. Account!Buy("satellite", x) \/ Account!Sell("satellite", x)
    BY <2>1, <2>2 DEF Dealt, Bought, Sold, Units, Account!Buy, Account!Sell, Account!Deal
  <2>. QED
    BY <2>3 DEF Account!Next, Account!Sleeves
<1>5. CASE Restarted
  <2>1. Units' = (Account!Empty)'
    BY <1>5, EmptyUnitsNext DEF Restarted
  <2>2. Account!Restart
    BY <1>5, <2>1 DEF Restarted, Units, Account!Restart, Account!Empty, Account!Sleeves
  <2>. QED
    BY <2>2 DEF Account!Next
<1>6. CASE UNCHANGED vars
  <2>1. UNCHANGED <<cash, coreQty, sat>>
    BY <1>6 DEF vars, book
  <2>. QED
    BY <1>2, <2>1
<1>7. CASE Execute
  BY <1>2, <1>3, <1>4, <1>7, ExecuteDeals
<1>. QED
  BY <1>2, <1>5, <1>6, <1>7, IdleAccount DEF Next

\* For every universe, tape, set of statements and number of tickers the book
\* is an account without credit and without short positions: a deal is in one
\* name of one sleeve, at the quotes of the tick, and costs what it costs
\* (core.go, engine.go, check.go, costs.go).
THEOREM AccountAlwaysKept == Spec => KeepsAccount
<1>1. Init => Account!Init
  <2>. SUFFICES ASSUME Init PROVE Account!Init
    OBVIOUS
  <2>1. cash = StartCash /\ Units = Account!Empty
    BY EmptyUnits DEF Init
  <2>2. last \in [Names -> Nat]
    BY InitType, LastType
  <2>. QED
    BY <2>1, <2>2 DEF Account!Init, Units
<1>2. /\ TypeOK /\ MarksInv /\ TicketsInv /\ TicketsPriced
      /\ (TypeOK /\ MarksInv /\ TicketsInv /\ TicketsPriced)' /\ [Next]_vars
      => [Account!Next]_(Account!vars)
  BY AccountStep
<1>. QED
  BY <1>1, <1>2, BookInvariant, MarksInvariant, PricedInvariant, PTL DEF Spec, KeepsAccount, Account!Spec

LEMMA UnitsOwned ==
    BookTyped => \A s \in {"core", "satellite"}, x \in Names : Units[s][x] >= 0
<1>. SUFFICES ASSUME BookTyped, NEW x \in Names PROVE Units["core"][x] >= 0 /\ Units["satellite"][x] >= 0
  OBVIOUS
<1>1. coreQty[x] \in Nat /\ sat[x].qty \in Nat
  BY DEF BookTyped, TradeType
<1>2. Units["core"][x] = coreQty[x] /\ Units["satellite"][x] = sat[x].qty
  BY DEF Units
<1>. QED
  BY <1>1, <1>2

LEMMA UnitsOwnedNext ==
    (BookTyped => \A s \in {"core", "satellite"}, x \in Names : Units[s][x] >= 0)'
BY UnitsOwned, PTL

\* Neither cash nor units of either sleeve are ever owed: the costs of a buy
\* always fit in the cash buffer (check.go, costs.go), and nothing is sold
\* that is not held (core.go, engine.go).
THEOREM NothingEverOwed == Spec => []Account!NothingOwed
<1>1. Init => Account!NothingOwed
  <2>. SUFFICES ASSUME Init
                PROVE  cash >= 0 /\ \A s \in {"core", "satellite"}, x \in Names : Units[s][x] >= 0
    BY DEF Account!NothingOwed, Account!Sleeves, Units
  <2>1. BookTyped
    BY InitType DEF TypeOK
  <2>. QED
    BY <2>1, UnitsOwned, SMT DEF Init, StartCash
<1>2. TypeOK /\ TypeOK' /\ Account!NothingOwed /\ [Account!Next]_(Account!vars) => Account!NothingOwed'
  <2>. SUFFICES ASSUME TypeOK, TypeOK', Account!NothingOwed, [Account!Next]_(Account!vars)
                PROVE  cash' >= 0
    BY UnitsOwnedNext DEF TypeOK, Account!NothingOwed, Account!Sleeves, Units
  <2>1. BookTyped /\ BookTyped'
    BY DEF TypeOK
  <2>2. StartCash >= 0
    BY SMT DEF StartCash
  <2>3. cash \in Int /\ cash >= 0 /\ cash' \in Int
    BY <2>1 DEF BookTyped, Account!NothingOwed
  <2>4. ASSUME NEW s \in Account!Sleeves, NEW x \in Names, Account!Buy(s, x) PROVE cash' >= 0
    BY <2>4 DEF Account!Buy
  <2>5. ASSUME NEW s \in Account!Sleeves, NEW x \in Names, Account!Sell(s, x) PROVE cash' >= 0
    BY <2>3, <2>5 DEF Account!Sell
  <2>6. CASE Account!Restart
    BY <2>2, <2>6 DEF Account!Restart
  <2>7. CASE Account!Reprice \/ UNCHANGED Account!vars
    BY <2>3, <2>7 DEF Account!Reprice, Account!vars
  <2>. QED
    BY <2>4, <2>5, <2>6, <2>7 DEF Account!Next
<1>. QED
  BY <1>1, <1>2, BookInvariant, AccountAlwaysKept, PTL DEF Spec, KeepsAccount, Account!Spec
=============================================================================
