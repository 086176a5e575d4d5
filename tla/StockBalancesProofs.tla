-------------------------- MODULE StockBalancesProofs --------------------------
(***************************************************************************)
(* Theorems about the V2 stock, for any locations, lots, references, issues  *)
(* and quantities: the books agree, what is withheld is reserved, and the    *)
(* services keep the promise of StockPromise.                               *)
(***************************************************************************)
EXTENDS StockBalances, FiniteSetTheorems, WellFoundedInduction, TLAPS

USE DEF StockLots, StockReservations, Consumptions

\* What an open transaction would restore is consistent too.
SavedAgrees == txn.kind # "none" => Consistent(txn.saved.bal, txn.saved.ledger)

BooksInv == TypeOK /\ BooksAgree /\ SavedAgrees

-----------------------------------------------------------------------------
(* Sums over a finite set.  Totals says what a table of the sums of w over    *)
(* every subset of S is; a fold over S is the entry of S in that table.      *)

Totals(G, w, S) ==
    /\ G \in [SUBSET S -> Int]
    /\ G[{}] = 0
    /\ \A s \in SUBSET S : \A x \in s : G[s] = w[x] + G[s \ {x}]

Least(N) == CHOOSE i \in N : \A j \in N : i <= j

\* A set of numbers that is not empty has a first one.
LEMMA LeastMember ==
  ASSUME NEW N, N \subseteq Nat, N # {}
  PROVE  Least(N) \in N /\ \A j \in N : Least(N) <= j
<1>1. PICK t \in N : \A u \in N : ~(<<u, t>> \in OpToRel(<, Nat))
  <2>1. \E t \in N : \A u \in N : ~(<<u, t>> \in OpToRel(<, Nat))
    BY NatLessThanWellFounded, WFMin
  <2>2. QED
    BY <2>1
<1>2. OpToRel(<, Nat) = {p \in Nat \X Nat : p[1] < p[2]}
  BY Zenon DEF OpToRel
<1>3. ASSUME NEW u \in N PROVE t <= u
  <2>1. <<u, t>> \notin {p \in Nat \X Nat : p[1] < p[2]}
    BY <1>1, <1>2, Zenon
  <2>2. u \in Nat /\ t \in Nat
    OBVIOUS
  <2>3. QED
    BY <2>1, <2>2
<1>4. QED
  BY <1>3 DEF Least

\* A family of subsets of a finite set that is not empty has a member of which
\* no member lacks one element only: what is so of {}, and of a set when it is
\* so of the set without an element, is so of all.
LEMMA MinimalMember ==
  ASSUME NEW S, IsFiniteSet(S), NEW B, B \subseteq SUBSET S, B # {}
  PROVE  \E s \in B : \A x \in s : s \ {x} \notin B
<1> DEFINE N == {Cardinality(s) : s \in B}
<1>1. \A s \in B : IsFiniteSet(s) /\ Cardinality(s) \in Nat
  <2> TAKE s \in B
  <2>1. IsFiniteSet(s)
    BY FS_Subset
  <2>2. QED
    BY <2>1, FS_CardinalityType
<1>2. N \subseteq Nat /\ N # {}
  BY <1>1
<1> DEFINE n == Least(N)
<1>3. n \in N /\ \A j \in N : n <= j
  BY <1>2, LeastMember
<1> HIDE DEF n
<1>4. PICK s \in B : Cardinality(s) = n
  BY <1>3
<1>5. ASSUME NEW x \in s, s \ {x} \in B PROVE FALSE
  <2>1. IsFiniteSet(s) /\ Cardinality(s) \in Nat
    BY <1>1
  <2>2. Cardinality(s \ {x}) = Cardinality(s) - 1
    BY <2>1, FS_RemoveElement
  <2>3. Cardinality(s \ {x}) \in N
    BY <1>5
  <2>4. n <= Cardinality(s) - 1
    BY <1>3, <2>2, <2>3
  <2>5. QED
    BY <1>4, <2>1, <2>4
<1>6. QED
  BY <1>5

LEMMA TotalsEmpty ==
  ASSUME NEW w
  PROVE  Totals([s \in SUBSET {} |-> 0], w, {})
<1> DEFINE G == [s \in SUBSET {} |-> 0]
<1>1. SUBSET {} = {{}}
  OBVIOUS
<1>2. QED
  BY <1>1 DEF Totals

\* One more element.
LEMMA TotalsExtend ==
  ASSUME NEW S, NEW x \in S, NEW w, NEW G, Totals(G, w, S \ {x}),
         \A y \in S : w[y] \in Int
  PROVE  \E H : Totals(H, w, S)
<1> DEFINE R == S \ {x}
           H == [s \in SUBSET S |-> IF x \in s THEN w[x] + G[s \ {x}] ELSE G[s]]
<1>1. /\ G \in [SUBSET R -> Int] /\ G[{}] = 0
      /\ \A s \in SUBSET R : \A y \in s : G[s] = w[y] + G[s \ {y}]
  BY DEF Totals
<1>2. \A s \in SUBSET S : s \ {x} \in SUBSET R /\ (x \notin s => s \in SUBSET R)
  OBVIOUS
<1>3. \A s \in SUBSET R : G[s] \in Int
  BY <1>1
<1>4. H \in [SUBSET S -> Int]
  <2> SUFFICES ASSUME NEW s \in SUBSET S
               PROVE  (IF x \in s THEN w[x] + G[s \ {x}] ELSE G[s]) \in Int
    OBVIOUS
  <2>1. G[s \ {x}] \in Int /\ (x \notin s => G[s] \in Int)
    BY <1>2, <1>3
  <2>2. QED
    BY <2>1
<1>5. H[{}] = 0
  BY <1>1
<1>6. ASSUME NEW s \in SUBSET S, NEW y \in s PROVE H[s] = w[y] + H[s \ {y}]
  <2>1. s \ {y} \in SUBSET S
    OBVIOUS
  <2>2. H[s] = IF x \in s THEN w[x] + G[s \ {x}] ELSE G[s]
    OBVIOUS
  <2>3. H[s \ {y}] = IF x \in s \ {y} THEN w[x] + G[(s \ {y}) \ {x}] ELSE G[s \ {y}]
    BY <2>1
  <2> HIDE DEF H
  <2>4. CASE y = x
    BY <2>2, <2>3, <2>4
  <2>5. CASE y # x /\ x \in s
    <3>1. (s \ {y}) \ {x} = (s \ {x}) \ {y}
      OBVIOUS
    <3>2. s \ {x} \in SUBSET R /\ y \in s \ {x}
      BY <1>2, <2>5
    <3>3. G[s \ {x}] = w[y] + G[(s \ {x}) \ {y}]
      BY <1>1, <3>2
    <3>4. (s \ {x}) \ {y} \in SUBSET R
      OBVIOUS
    <3>5. G[s \ {x}] \in Int /\ G[(s \ {x}) \ {y}] \in Int
      BY <1>3, <3>2, <3>4
    <3>6. H[s] = w[x] + G[s \ {x}] /\ H[s \ {y}] = w[x] + G[(s \ {x}) \ {y}]
      BY <2>2, <2>3, <2>5, <3>1
    <3> DEFINE a == G[s \ {x}]
               b == G[(s \ {x}) \ {y}]
    <3> HIDE DEF a, b
    <3>7. a \in Int /\ b \in Int /\ a = w[y] + b /\ H[s] = w[x] + a /\ H[s \ {y}] = w[x] + b
      BY <3>3, <3>5, <3>6 DEF a, b
    <3>8. w[y] + (w[x] + b) = w[x] + (w[y] + b)
      <4>1. w[y] \in Int /\ w[x] \in Int
        OBVIOUS
      <4>2. QED
        BY <3>7, <4>1
    <3>9. QED
      BY <3>7, <3>8
  <2>6. CASE x \notin s
    <3>1. s \in SUBSET R /\ x \notin s \ {y}
      BY <1>2, <2>6
    <3>2. QED
      BY <1>1, <2>2, <2>3, <2>6, <3>1
  <2>7. QED
    BY <2>4, <2>5, <2>6
<1> HIDE DEF H
<1>7. Totals(H, w, S)
  BY <1>4, <1>5, <1>6 DEF Totals
<1>8. QED
  BY <1>7

LEMMA TotalsExist ==
  ASSUME NEW S, IsFiniteSet(S), NEW w, \A x \in S : w[x] \in Int
  PROVE  \E G : Totals(G, w, S)
<1> DEFINE B == {T \in SUBSET S : ~\E G : Totals(G, w, T)}
<1>1. B = {}
  <2> SUFFICES ASSUME B # {} PROVE FALSE
    OBVIOUS
  <2>1. B \subseteq SUBSET S
    OBVIOUS
  <2>2. PICK T \in B : \A x \in T : T \ {x} \notin B
    <3> HIDE DEF B
    <3>1. QED
      BY <2>1, MinimalMember
  <2>3. CASE T = {}
    BY <2>3, TotalsEmpty
  <2>4. CASE T # {}
    <3>1. PICK x \in T : TRUE
      BY <2>4
    <3>2. T \ {x} \in SUBSET S /\ T \ {x} \notin B /\ x \in S
      BY <2>2
    <3>3. PICK G : Totals(G, w, T \ {x})
      BY <3>2
    <3>4. \E H : Totals(H, w, T)
      BY <3>2, <3>3, TotalsExtend
    <3>5. QED
      BY <3>4
  <2>5. QED
    BY <2>3, <2>4
<1>2. QED
  BY <1>1

\* H is what a fold computes that takes out the element c[s] of s first.
Folded(H, c, w, S) ==
    /\ H[{}] = 0
    /\ \A s \in SUBSET S : s # {} =>
          /\ c[s] \in s
          /\ H[s \ {c[s]}] \in Int => H[s] = w[c[s]] + H[s \ {c[s]}]

\* It does not matter which.
LEMMA TotalsUnique ==
  ASSUME NEW S, IsFiniteSet(S), NEW w, NEW G, Totals(G, w, S), NEW H, NEW c,
         Folded(H, c, w, S)
  PROVE  \A s \in SUBSET S : H[s] = G[s]
<1> DEFINE B == {s \in SUBSET S : H[s] # G[s]}
<1>1. B = {}
  <2> SUFFICES ASSUME B # {} PROVE FALSE
    OBVIOUS
  <2>1. B \subseteq SUBSET S
    OBVIOUS
  <2>2. PICK s \in B : \A x \in s : s \ {x} \notin B
    <3> HIDE DEF B
    <3>1. QED
      BY <2>1, MinimalMember
  <2>3. s # {}
    BY <2>2 DEF Totals, Folded
  <2>4. PICK x : x = c[s]
    OBVIOUS
  <2>5. x \in s /\ (H[s \ {x}] \in Int => H[s] = w[x] + H[s \ {x}])
    BY <2>2, <2>3, <2>4 DEF Folded
  <2>6. H[s \ {x}] = G[s \ {x}] /\ H[s \ {x}] \in Int
    BY <2>2, <2>5 DEF Totals
  <2>7. G[s] = w[x] + G[s \ {x}]
    BY <2>5 DEF Totals
  <2>8. QED
    BY <2>2, <2>5, <2>6, <2>7
<1>2. QED
  BY <1>1

LEMMA TotalsSub ==
  ASSUME NEW S, NEW T \in SUBSET S, NEW w, NEW G, Totals(G, w, S)
  PROVE  \E H : Totals(H, w, T) /\ H[T] = G[T]
<1> DEFINE H == [s \in SUBSET T |-> G[s]]
<1>1. H \in [SUBSET T -> Int] /\ H[{}] = 0
  BY DEF Totals
<1>2. ASSUME NEW s \in SUBSET T, NEW x \in s PROVE H[s] = w[x] + H[s \ {x}]
  <2>1. s \in SUBSET S /\ s \ {x} \in SUBSET T
    OBVIOUS
  <2>2. G[s] = w[x] + G[s \ {x}]
    BY <2>1 DEF Totals
  <2>3. QED
    BY <2>1, <2>2
<1>3. H[T] = G[T]
  OBVIOUS
<1> HIDE DEF H
<1>4. Totals(H, w, T)
  BY <1>1, <1>2 DEF Totals
<1>5. QED
  BY <1>3, <1>4

\* SumFunctionOnSet, defined by a fold, is the entry of the table.
LEMMA SumIsTotal ==
  ASSUME NEW S, IsFiniteSet(S), NEW f, NEW G, Totals(G, f, S)
  PROVE  SumFunctionOnSet(f, S) = G[S]
<1> DEFINE E(H) == [s \in SUBSET S |->
                      IF s = {} THEN 0
                      ELSE LET x == CHOOSE x \in s : TRUE IN f[x] + H[s \ {x}]]
           c == [s \in SUBSET S |-> CHOOSE x \in s : TRUE]
<1>1. \A s \in SUBSET S : s # {} => c[s] \in s
  OBVIOUS
<1>2. \A s \in SUBSET S : c[s] = CHOOSE x \in s : TRUE
  OBVIOUS
<1>3. G = E(G)
  <2>1. \A s \in SUBSET S : G[s] = E(G)[s]
    <3> TAKE s \in SUBSET S
    <3>1. CASE s = {}
      BY <3>1 DEF Totals
    <3>2. CASE s # {}
      <4>1. E(G)[s] = f[c[s]] + G[s \ {c[s]}]
        BY <3>2
      <4>2. c[s] \in s
        BY <1>1, <3>2
      <4> HIDE DEF E, c
      <4>3. QED
        BY <4>1, <4>2 DEF Totals
    <3>3. QED
      BY <3>1, <3>2
  <2>2. G \in [SUBSET S -> Int]
    BY DEF Totals
  <2>3. QED
    BY <2>1, <2>2
<1>4. ASSUME NEW H, H = E(H) PROVE H = G
  <2>1. H[{}] = 0
    BY <1>4
  <2>2. \A s \in SUBSET S : s # {} => c[s] \in s /\ H[s] = f[c[s]] + H[s \ {c[s]}]
    <3> TAKE s \in SUBSET S
    <3>1. H[s] = E(H)[s]
      BY <1>4
    <3>2. s # {} => E(H)[s] = f[c[s]] + H[s \ {c[s]}]
      OBVIOUS
    <3>3. QED
      BY <1>1, <3>1, <3>2
  <2>3. DOMAIN H = SUBSET S /\ H = [s \in SUBSET S |-> H[s]]
    BY <1>4
  <2> HIDE DEF c, E
  <2>4. \A s \in SUBSET S : H[s] = G[s]
    <3>1. Folded(H, c, f, S)
      BY <2>1, <2>2 DEF Folded
    <3>2. QED
      BY <3>1, TotalsUnique
  <2>5. G = [s \in SUBSET S |-> G[s]]
    BY DEF Totals
  <2>6. QED
    BY <2>3, <2>4, <2>5
<1>5. QED
  BY <1>3, <1>4, Zenon DEF SumFunctionOnSet, FoldFunctionOnSet, MapThenFoldSet

-----------------------------------------------------------------------------

LEMMA SubsetIsTotal ==
  ASSUME NEW S, IsFiniteSet(S), NEW T \in SUBSET S, NEW f, NEW G, Totals(G, f, S)
  PROVE  SumFunctionOnSet(f, T) = G[T]
<1>1. IsFiniteSet(T)
  BY FS_Subset
<1>2. PICK H : Totals(H, f, T) /\ H[T] = G[T]
  BY TotalsSub
<1>3. QED
  BY <1>1, <1>2, SumIsTotal

LEMMA SumOfNone ==
  ASSUME NEW f
  PROVE  SumFunctionOnSet(f, {}) = 0
<1>1. IsFiniteSet({})
  BY FS_EmptySet
<1> DEFINE G == [s \in SUBSET {} |-> 0]
<1>2. Totals(G, f, {})
  BY TotalsEmpty
<1>3. G[{}] = 0
  OBVIOUS
<1> HIDE DEF G
<1>4. QED
  BY <1>1, <1>2, <1>3, SumIsTotal

\* A sum without one of its elements.
LEMMA SumWithout ==
  ASSUME NEW S, IsFiniteSet(S), NEW f, \A x \in S : f[x] \in Int
  PROVE  /\ SumFunctionOnSet(f, S) \in Int
         /\ \A x \in S : SumFunctionOnSet(f, S) = f[x] + SumFunctionOnSet(f, S \ {x})
<1>1. PICK G : Totals(G, f, S)
  BY TotalsExist
<1>2. SumFunctionOnSet(f, S) = G[S]
  BY <1>1, SumIsTotal
<1>3. G[S] \in Int
  BY <1>1 DEF Totals
<1>4. ASSUME NEW x \in S PROVE SumFunctionOnSet(f, S) = f[x] + SumFunctionOnSet(f, S \ {x})
  <2> DEFINE T == S \ {x}
  <2>1. SumFunctionOnSet(f, T) = G[T]
    BY <1>1, SubsetIsTotal
  <2>2. G[S] = f[x] + G[T]
    BY <1>1 DEF Totals
  <2>3. QED
    BY <1>2, <2>1, <2>2
<1>5. QED
  BY <1>2, <1>3, <1>4

LEMMA SumOfSame ==
  ASSUME NEW S, IsFiniteSet(S), NEW f, NEW g, \A x \in S : f[x] \in Int /\ f[x] = g[x]
  PROVE  SumFunctionOnSet(f, S) = SumFunctionOnSet(g, S)
<1>1. PICK G : Totals(G, f, S)
  BY TotalsExist
<1>2. Totals(G, g, S)
  BY <1>1 DEF Totals
<1>3. QED
  BY <1>1, <1>2, SumIsTotal

\* One element of a sum changes.
LEMMA SumExcept ==
  ASSUME NEW S, IsFiniteSet(S), NEW f \in [S -> Int], NEW x \in S, NEW v \in Int
  PROVE  /\ SumFunction(f) \in Int
         /\ SumFunction([f EXCEPT ![x] = v]) = SumFunction(f) - f[x] + v
<1> DEFINE g == [f EXCEPT ![x] = v]
           T == S \ {x}
<1>1. g \in [S -> Int] /\ g[x] = v /\ \A y \in T : g[y] = f[y]
  OBVIOUS
<1> HIDE DEF g
<1>2. DOMAIN f = S /\ DOMAIN g = S
  BY <1>1
<1>3. \A y \in S : f[y] \in Int /\ g[y] \in Int
  BY <1>1
<1>4. IsFiniteSet(T)
  BY FS_Subset
<1>5. SumFunctionOnSet(f, T) = SumFunctionOnSet(g, T)
  BY <1>1, <1>3, <1>4, SumOfSame
<1>6. /\ SumFunctionOnSet(f, S) \in Int
      /\ SumFunctionOnSet(f, S) = f[x] + SumFunctionOnSet(f, T)
  BY <1>3, SumWithout
<1>7. SumFunctionOnSet(g, S) = g[x] + SumFunctionOnSet(g, T)
  BY <1>3, SumWithout
<1>8. SumFunctionOnSet(f, T) \in Int
  BY <1>3, <1>4, SumWithout
<1> DEFINE F == SumFunctionOnSet(f, T)
<1> HIDE DEF F
<1>9. F \in Int /\ SumFunctionOnSet(f, S) = f[x] + F /\ SumFunctionOnSet(g, S) = v + F
  BY <1>1, <1>5, <1>6, <1>7, <1>8 DEF F
<1>10. f[x] \in Int
  BY <1>3
<1>11. v + F = (f[x] + F) - f[x] + v
  BY <1>9, <1>10
<1>12. SumFunction(f) = SumFunctionOnSet(f, S) /\ SumFunction(g) = SumFunctionOnSet(g, S)
  BY <1>2 DEF SumFunction
<1>13. QED
  BY <1>6, <1>9, <1>11, <1>12 DEF g

\* What none of the elements is less than.
LEMMA SumOfNaturals ==
  ASSUME NEW S, IsFiniteSet(S), NEW f, \A x \in S : f[x] \in Nat
  PROVE  /\ SumFunctionOnSet(f, S) \in Nat
         /\ \A x \in S : f[x] <= SumFunctionOnSet(f, S)
<1>1. PICK G : Totals(G, f, S)
  <2>1. \A x \in S : f[x] \in Int
    OBVIOUS
  <2>2. QED
    BY <2>1, TotalsExist
<1> DEFINE B == {s \in SUBSET S : G[s] \notin Nat}
<1>2. B = {}
  <2> SUFFICES ASSUME B # {} PROVE FALSE
    OBVIOUS
  <2>1. B \subseteq SUBSET S
    OBVIOUS
  <2>2. PICK s \in B : \A x \in s : s \ {x} \notin B
    <3> HIDE DEF B
    <3>1. QED
      BY <2>1, MinimalMember
  <2>3. s # {}
    <3>1. G[{}] = 0 /\ 0 \in Nat
      BY <1>1 DEF Totals
    <3>2. QED
      BY <2>2, <3>1
  <2>4. PICK x \in s : TRUE
    BY <2>3
  <2>5. G[s] = f[x] + G[s \ {x}]
    BY <1>1 DEF Totals
  <2>6. G[s \ {x}] \in Nat
    BY <2>2
  <2>7. f[x] \in Nat
    OBVIOUS
  <2>8. QED
    BY <2>2, <2>5, <2>6, <2>7
<1>3. SumFunctionOnSet(f, S) = G[S]
  BY <1>1, SumIsTotal
<1>4. ASSUME NEW x \in S PROVE f[x] <= G[S]
  <2>1. G[S] = f[x] + G[S \ {x}]
    BY <1>1 DEF Totals
  <2>2. G[S \ {x}] \in Nat /\ f[x] \in Nat
    BY <1>2
  <2>3. QED
    BY <2>1, <2>2
<1>5. QED
  BY <1>2, <1>3, <1>4

\* Elements of S are named h[x] in T, where g says of them what f says in S.
Renamed(h, f, S, g, T) ==
    /\ h \in [S -> T]
    /\ \A x, y \in S : h[x] = h[y] => x = y
    /\ \A t \in T : \E x \in S : h[x] = t
    /\ \A x \in S : f[x] = g[h[x]]

LEMMA SumRenamed ==
  ASSUME NEW S, NEW T, IsFiniteSet(S), IsFiniteSet(T), NEW f, NEW g, NEW h,
         Renamed(h, f, S, g, T), \A t \in T : g[t] \in Int
  PROVE  SumFunctionOnSet(f, S) = SumFunctionOnSet(g, T)
<1> USE DEF Renamed
<1> DEFINE image(s) == {h[x] : x \in s}
<1>1. PICK G : Totals(G, g, T)
  BY TotalsExist
<1> DEFINE H == [s \in SUBSET S |-> G[image(s)]]
<1>2. \A s \in SUBSET S : image(s) \in SUBSET T
  OBVIOUS
<1>3. H \in [SUBSET S -> Int] /\ H[{}] = 0
  <2>1. \A s \in SUBSET S : G[image(s)] \in Int
    BY <1>1, <1>2 DEF Totals
  <2>2. image({}) = {}
    OBVIOUS
  <2>3. H[{}] = G[image({})]
    OBVIOUS
  <2>4. QED
    BY <1>1, <2>1, <2>2, <2>3 DEF Totals
<1>4. ASSUME NEW s \in SUBSET S, NEW x \in s PROVE H[s] = f[x] + H[s \ {x}]
  <2>1. image(s \ {x}) = image(s) \ {h[x]}
    OBVIOUS
  <2>2. h[x] \in image(s)
    OBVIOUS
  <2>3. image(s) \in SUBSET T
    BY <1>2
  <2>4. H[s] = G[image(s)] /\ H[s \ {x}] = G[image(s \ {x})]
    OBVIOUS
  <2>5. f[x] = g[h[x]]
    OBVIOUS
  <2> HIDE DEF H, image
  <2>6. G[image(s)] = g[h[x]] + G[image(s) \ {h[x]}]
    <3>1. \A u \in SUBSET T : \A y \in u : G[u] = g[y] + G[u \ {y}]
      BY <1>1 DEF Totals
    <3>2. QED
      BY <2>2, <2>3, <3>1, Zenon
  <2>7. QED
    BY <2>1, <2>4, <2>5, <2>6
<1>5. image(S) = T
  OBVIOUS
<1>6. H[S] = G[image(S)]
  OBVIOUS
<1> HIDE DEF H, image
<1>7. Totals(H, f, S)
  BY <1>3, <1>4 DEF Totals
<1>8. QED
  BY <1>1, <1>5, <1>6, <1>7, SumIsTotal

\* A sequence of numbers adds up to its head and the sum of its tail.
LEMMA SumOfTail ==
  ASSUME NEW s \in Seq(Int)
  PROVE  /\ SumFunction(s) \in Int
         /\ s = <<>> => SumFunction(s) = 0
         /\ s # <<>> => SumFunction(s) = Head(s) + SumFunction(Tail(s))
<1> DEFINE n == Len(s)
           S == 1..n
<1>1. n \in Nat /\ DOMAIN s = S /\ \A i \in S : s[i] \in Int
  OBVIOUS
<1>2. IsFiniteSet(S)
  BY <1>1, FS_Interval
<1>3. SumFunction(s) = SumFunctionOnSet(s, S)
  BY <1>1 DEF SumFunction
<1>4. /\ SumFunctionOnSet(s, S) \in Int
      /\ \A i \in S : SumFunctionOnSet(s, S) = s[i] + SumFunctionOnSet(s, S \ {i})
  BY <1>1, <1>2, SumWithout
<1>5. ASSUME s = <<>> PROVE SumFunction(s) = 0
  <2>1. S = {}
    BY <1>5
  <2>2. QED
    BY <1>3, <2>1, SumOfNone
<1>6. ASSUME s # <<>> PROVE SumFunction(s) = Head(s) + SumFunction(Tail(s))
  <2> DEFINE R == S \ {1}
             T == 1..(n - 1)
             t == Tail(s)
             h == [i \in R |-> i - 1]
  <2>1. n >= 1 /\ 1 \in S /\ Head(s) = s[1]
    BY <1>1, <1>6
  <2>2. t \in Seq(Int) /\ DOMAIN t = T /\ \A i \in T : t[i] = s[i + 1] /\ t[i] \in Int
    BY <1>6
  <2>3. h \in [R -> T]
    BY <1>1, <2>1
  <2>4. \A i, j \in R : h[i] = h[j] => i = j
    BY <1>1
  <2>5. ASSUME NEW j \in T PROVE \E i \in R : h[i] = j
    <3>1. j + 1 \in R /\ (j + 1) - 1 = j
      BY <1>1, <2>5
    <3>2. QED
      BY <3>1
  <2>6. \A i \in R : s[i] = t[h[i]]
    <3> TAKE i \in R
    <3>1. i - 1 \in T /\ (i - 1) + 1 = i /\ h[i] = i - 1
      BY <1>1
    <3>2. QED
      BY <2>2, <3>1
  <2>7. IsFiniteSet(R) /\ IsFiniteSet(T)
    <3>1. n - 1 \in Int /\ R \in SUBSET S
      BY <1>1
    <3>2. IsFiniteSet(T)
      BY <3>1, FS_Interval
    <3>3. IsFiniteSet(R)
      BY <1>2, <3>1, FS_Subset
    <3>4. QED
      BY <3>2, <3>3
  <2> HIDE DEF S, R, T, t, h
  <2>8. SumFunctionOnSet(s, R) = SumFunctionOnSet(t, T)
    <3>1. Renamed(h, s, R, t, T)
      BY <2>3, <2>4, <2>5, <2>6 DEF Renamed
    <3>2. \A j \in T : t[j] \in Int
      BY <2>2
    <3>3. QED
      BY <2>7, <3>1, <3>2, SumRenamed
  <2>9. SumFunction(t) = SumFunctionOnSet(t, T)
    BY <2>2 DEF SumFunction
  <2>10. SumFunctionOnSet(s, S) = s[1] + SumFunctionOnSet(s, R)
    BY <1>4, <2>1 DEF R
  <2>11. QED
    BY <1>3, <2>1, <2>8, <2>9, <2>10 DEF t
<1>7. QED
  BY <1>3, <1>4, <1>5, <1>6

LEMMA SumOfCons ==
  ASSUME NEW s \in Seq(Int), NEW q \in Int
  PROVE  /\ SumFunction(s) \in Int
         /\ SumFunction(<<q>> \o s) = q + SumFunction(s)
<1> DEFINE t == <<q>> \o s
<1>1. t \in Seq(Int) /\ t # <<>> /\ Head(t) = q /\ Tail(t) = s
  OBVIOUS
<1> HIDE DEF t
<1>2. SumFunction(t) = q + SumFunction(s)
  BY <1>1, SumOfTail
<1>3. QED
  BY <1>2, SumOfTail DEF t

-----------------------------------------------------------------------------
(* Lemmas about movements *)

LEMMA MovedFields ==
  ASSUME NEW b \in Balance, NEW d \in Int
  PROVE  /\ Moved(b, d) \in Balance
         /\ Moved(b, d).hand = b.hand + d
         /\ Moved(b, d).avail = b.avail + d
         /\ Moved(b, d).reserved = b.reserved
<1> DEFINE h == b.hand + d
           v == b.avail + d
<1>1. h \in Int /\ v \in Int
  BY DEF Balance
<1>2. Moved(b, d) = [b EXCEPT !.hand = h, !.avail = v]
  BY DEF Moved
<1> HIDE DEF h, v
<1>3. /\ Moved(b, d) \in Balance
      /\ Moved(b, d).hand = h
      /\ Moved(b, d).avail = v
      /\ Moved(b, d).reserved = b.reserved
  BY <1>1, <1>2 DEF Balance
<1>4. QED
  BY <1>3 DEF h, v

LEMMA WithheldFields ==
  ASSUME NEW b \in Balance, NEW q \in Int
  PROVE  LET c == [b EXCEPT !.avail = @ - q, !.reserved = @ + q]
         IN  /\ c \in Balance
             /\ c.hand = b.hand
             /\ c.avail = b.avail - q
             /\ c.reserved = b.reserved + q
<1> DEFINE v == b.avail - q
           r == b.reserved + q
           c == [b EXCEPT !.avail = v, !.reserved = r]
<1>1. v \in Int /\ r \in Int
  BY DEF Balance
<1> HIDE DEF v, r
<1>2. c \in Balance /\ c.hand = b.hand /\ c.avail = v /\ c.reserved = r
  BY <1>1 DEF Balance
<1>3. QED
  BY <1>2 DEF v, r

LEMMA PostedFields ==
  ASSUME NEW a \in Account, NEW b \in Balance, NEW d \in Int
  PROVE  /\ Posted(a, d, b) \in Account
         /\ Posted(a, d, b).sum = a.sum + d
         /\ Posted(a, d, b).last = b.hand
BY DEF Posted, Account, Balance

\* A movement at one location that is posted keeps the books.
LEMMA EntryKeepsBooks ==
  ASSUME NEW bs \in [Locations -> Balance], NEW as \in [Locations -> Account],
         Consistent(bs, as), NEW l \in Locations, NEW d \in Int,
         NEW b, b = Moved(bs[l], d)
  PROVE  /\ [bs EXCEPT ![l] = b] \in [Locations -> Balance]
         /\ [as EXCEPT ![l] = Posted(as[l], d, b)] \in [Locations -> Account]
         /\ Consistent([bs EXCEPT ![l] = b], [as EXCEPT ![l] = Posted(as[l], d, b)])
<1> DEFINE a == Posted(as[l], d, b)
<1>1. b \in Balance /\ b.hand = bs[l].hand + d /\ b.avail = bs[l].avail + d
      /\ b.reserved = bs[l].reserved
  BY MovedFields
<1>2. a \in Account /\ a.sum = as[l].sum + d /\ a.last = b.hand
  BY <1>1, PostedFields
<1> HIDE DEF a
<1>3. /\ [bs EXCEPT ![l] = b] \in [Locations -> Balance]
      /\ [as EXCEPT ![l] = a] \in [Locations -> Account]
  BY <1>1, <1>2
<1>4. bs[l].avail = bs[l].hand - bs[l].reserved /\ as[l].sum = bs[l].hand
  BY DEF Consistent
<1>5. b.avail = b.hand - b.reserved /\ a.sum = b.hand /\ a.last = b.hand
  <2>1. bs[l] \in Balance
    OBVIOUS
  <2>2. bs[l].hand \in Int /\ bs[l].reserved \in Int
    BY <2>1 DEF Balance
  <2>3. QED
    BY <1>1, <1>2, <1>4, <2>2
<1>6. Consistent([bs EXCEPT ![l] = b], [as EXCEPT ![l] = a])
  BY <1>5 DEF Consistent
<1>7. QED
  BY <1>3, <1>6 DEF a

LEMMA PostKeepsBooks ==
  ASSUME TypeOK, BooksAgree, NEW l \in Locations, NEW d \in Int, Post(l, d)
  PROVE  /\ bal' \in [Locations -> Balance]
         /\ ledger' \in [Locations -> Account]
         /\ BooksAgree'
<1> DEFINE b == Moved(bal[l], d)
<1>1. bal' = [bal EXCEPT ![l] = b] /\ ledger' = [ledger EXCEPT ![l] = Posted(ledger[l], d, b)]
  BY DEF Post
<1> HIDE DEF b
<1>2. QED
  BY <1>1, EntryKeepsBooks DEF TypeOK, BooksAgree, b

\* The two entries of a movement, the second made from the row that the first
\* one left: this is what keeps an issue from a location to itself balanced.
LEMMA CarryKeepsBooks ==
  ASSUME TypeOK, BooksAgree, NEW f \in Locations, NEW t \in Locations, NEW q \in Int,
         Carry(f, t, q)
  PROVE  /\ rows' \in SUBSET Locations
         /\ bal' \in [Locations -> Balance]
         /\ ledger' \in [Locations -> Account]
         /\ BooksAgree'
<1> DEFINE b1 == Moved(bal[f], -q)
           out == [bal EXCEPT ![f] = b1]
           as1 == [ledger EXCEPT ![f] = Posted(ledger[f], -q, b1)]
           b2 == Moved(out[t], q)
           in == [out EXCEPT ![t] = b2]
           as2 == [as1 EXCEPT ![t] = Posted(as1[t], q, b2)]
<1>1. bal \in [Locations -> Balance] /\ ledger \in [Locations -> Account] /\ -q \in Int
  BY DEF TypeOK
<1>2. out[f] = b1
  BY <1>1
<1>3. in[t] = b2
  BY <1>1
<1>4. bal' = in /\ ledger' = as2 /\ rows' = rows \cup {t}
  BY <1>2, <1>3 DEF Carry
<1> HIDE DEF b1, b2
<1>5. /\ out \in [Locations -> Balance] /\ as1 \in [Locations -> Account]
      /\ Consistent(out, as1)
  BY <1>1, EntryKeepsBooks DEF BooksAgree, b1
<1> HIDE DEF out, as1
<1>6. /\ in \in [Locations -> Balance] /\ as2 \in [Locations -> Account]
      /\ Consistent(in, as2)
  BY <1>5, EntryKeepsBooks DEF b2
<1>7. QED
  BY <1>4, <1>6 DEF BooksAgree, TypeOK

LEMMA LotCarriedType ==
  ASSUME lots \in [Locations -> [Lots -> Nat]], NEW f \in Locations, NEW t \in Locations,
         NEW n \in Lots, NEW q \in Nat
  PROVE  LotCarried(f, t, n, q) \in [Locations -> [Lots -> Nat]]
<1> DEFINE x == IF lots[f][n] > q THEN lots[f][n] - q ELSE 0
           left == [lots EXCEPT ![f][n] = x]
<1>1. lots[f][n] \in Nat
  OBVIOUS
<1>2. x \in Nat
  BY <1>1
<1> HIDE DEF x
<1>3. left \in [Locations -> [Lots -> Nat]]
  BY <1>2
<1> HIDE DEF left
<1>4. left[t][n] + q \in Nat
  BY <1>3
<1>5. [left EXCEPT ![t][n] = left[t][n] + q] \in [Locations -> [Lots -> Nat]]
  BY <1>3, <1>4
<1>6. QED
  BY <1>5 DEF LotCarried, left, x

-----------------------------------------------------------------------------
(* Transactions *)

LEMMA OpenType ==
  ASSUME BooksInv, NEW k \in {"issue", "return"}, NEW lines \in LineLists,
         txn' = Open(k, lines), UNCHANGED <<rows, bal, ledger, lots>>
  PROVE  /\ txn' \in [kind: Kinds \ {"none"}, todo: Seq(Line), saved: Saved]
         /\ SavedAgrees'
<1>1. lines \in Seq(Line)
  BY StockAssumption DEF StockAssumption
<1> DEFINE s == [rows |-> rows, bal |-> bal, ledger |-> ledger, lots |-> lots,
                 issues |-> issues]
<1>2. s \in Saved
  BY DEF BooksInv, TypeOK, Saved
<1>3. Consistent(s.bal, s.ledger)
  BY DEF BooksInv, BooksAgree
<1>4. txn' = [kind |-> k, todo |-> lines, saved |-> s]
  BY DEF Open
<1> HIDE DEF s
<1>5. txn' \in [kind: Kinds \ {"none"}, todo: Seq(Line), saved: Saved]
  BY <1>1, <1>2, <1>4 DEF Kinds
<1>6. SavedAgrees'
  BY <1>3, <1>4 DEF SavedAgrees
<1>7. QED
  BY <1>5, <1>6

LEMMA OpenTxn ==
  ASSUME TypeOK, txn.kind # "none"
  PROVE  txn \in [kind: Kinds \ {"none"}, todo: Seq(Line), saved: Saved]
BY DEF TypeOK, Closed

LEMMA NextLineType ==
  ASSUME BooksInv, txn.kind # "none", txn.todo # <<>>,
         txn' = [txn EXCEPT !.todo = Tail(txn.todo)]
  PROVE  /\ Head(txn.todo) \in Line
         /\ txn' \in [kind: Kinds \ {"none"}, todo: Seq(Line), saved: Saved]
         /\ SavedAgrees'
<1>1. txn \in [kind: Kinds \ {"none"}, todo: Seq(Line), saved: Saved]
  BY OpenTxn DEF BooksInv
<1>2. Head(txn.todo) \in Line /\ Tail(txn.todo) \in Seq(Line)
  BY <1>1
<1>3. txn' \in [kind: Kinds \ {"none"}, todo: Seq(Line), saved: Saved]
      /\ txn'.saved = txn.saved
  BY <1>1, <1>2
<1>4. SavedAgrees'
  BY <1>3 DEF BooksInv, SavedAgrees
<1>5. QED
  BY <1>2, <1>3, <1>4

LEMMA ClosedAgrees == Closed.kind = "none"
BY DEF Closed

LEMMA BooksInit == Init => BooksInv
<1> SUFFICES ASSUME Init PROVE BooksInv
  OBVIOUS
<1>1. TypeOK
  BY StockAssumption DEF Init, TypeOK, Balance, Account, StockAssumption
<1>2. BooksAgree
  BY DEF Init, BooksAgree, Consistent
<1>3. SavedAgrees
  BY ClosedAgrees DEF Init, SavedAgrees
<1>4. QED
  BY <1>1, <1>2, <1>3 DEF BooksInv

LEMMA BooksStep ==
  ASSUME BooksInv, [Next]_vars
  PROVE  BooksInv'
<1>a. \A q \in Quantity : q \in Nat \ {0}
  BY StockAssumption DEF Quantity, StockAssumption
<1>b. \A d \in -MaxStock..MaxStock : d \in Int
  OBVIOUS
<1>c. TypeOK /\ BooksAgree /\ SavedAgrees
  BY DEF BooksInv
<1>1. CASE UNCHANGED vars
  BY <1>1, <1>c DEF BooksInv, TypeOK, BooksAgree, SavedAgrees, vars
<1>2. ASSUME NEW l \in Locations, NEW n \in Lots, NEW q \in Quantity, Receive(l, n, q)
      PROVE  BooksInv'
  <2>1. Post(l, q) /\ q \in Nat /\ UNCHANGED <<rows, rsv, issues, consumed, txn>>
    BY <1>2, <1>a DEF Receive
  <2>2. lots' \in [Locations -> [Lots -> Nat]]
    <3>1. lots[l][n] + q \in Nat
      BY <1>c, <2>1 DEF TypeOK
    <3>2. QED
      BY <1>2, <1>c, <3>1 DEF Receive, TypeOK
  <2>3. QED
    BY <1>c, <2>1, <2>2, PostKeepsBooks DEF BooksInv, TypeOK, SavedAgrees
<1>3. ASSUME NEW l \in Locations, NEW r \in Refs, NEW q \in Quantity, Reserve(l, r, q)
      PROVE  BooksInv'
  <2> DEFINE b == [bal[l] EXCEPT !.avail = @ - q, !.reserved = @ + q]
  <2>1. bal[l] \in Balance /\ q \in Nat
    BY <1>c, <1>a DEF TypeOK
  <2>2. b \in Balance /\ b.hand = bal[l].hand /\ b.avail = bal[l].avail - q
        /\ b.reserved = bal[l].reserved + q
    <3>1. q \in Int
      BY <2>1
    <3>2. b = [bal[l] EXCEPT !.avail = @ - q, !.reserved = @ + q]
      OBVIOUS
    <3> HIDE DEF b
    <3>3. QED
      BY <2>1, <3>1, <3>2, WithheldFields
  <2>3. bal' = [bal EXCEPT ![l] = b] /\ UNCHANGED <<rows, ledger, lots, issues, consumed, txn>>
    BY <1>3, <1>c DEF Reserve, TypeOK
  <2> HIDE DEF b
  <2>4. bal' \in [Locations -> Balance]
    BY <1>c, <2>2, <2>3 DEF TypeOK
  <2>5. rsv' \in [Locations -> [Refs -> Seq(Int)]]
    <3>1. rsv[l][r] \in Seq(Int)
      BY <1>c DEF TypeOK
    <3>2. <<q>> \o rsv[l][r] \in Seq(Int)
      BY <2>1, <3>1
    <3>3. QED
      BY <1>3, <1>c, <3>2 DEF Reserve, TypeOK
  <2>6. BooksAgree'
    <3>1. bal[l].avail = bal[l].hand - bal[l].reserved
      BY <1>c DEF BooksAgree, Consistent
    <3>2. b.avail = b.hand - b.reserved
      BY <2>1, <2>2, <3>1 DEF Balance
    <3>3. QED
      BY <1>c, <2>2, <2>3, <3>2 DEF BooksAgree, Consistent, TypeOK
  <2>7. QED
    BY <1>c, <2>3, <2>4, <2>5, <2>6 DEF BooksInv, TypeOK, SavedAgrees
<1>4. ASSUME NEW l \in Locations, NEW r \in Refs, NEW q \in Quantity, Release(l, r, q)
      PROVE  BooksInv'
  <2> DEFINE s == rsv[l][r]
             rel == Released(q, Head(s))
             b == [bal[l] EXCEPT !.avail = @ + rel, !.reserved = @ - rel]
  <2>1. s \in Seq(Int) /\ s # <<>> /\ bal[l] \in Balance /\ q \in Nat
    BY <1>4, <1>c, <1>a DEF TypeOK, Release
  <2>2. Head(s) \in Int /\ Tail(s) \in Seq(Int)
    BY <2>1
  <2>3. rel \in Int
    BY <2>1, <2>2 DEF Released
  <2>4. bal' = [bal EXCEPT ![l] = b] /\ UNCHANGED <<rows, ledger, lots, issues, consumed, txn>>
    BY <1>4, <1>c DEF Release, TypeOK
  <2>5. rsv' = [rsv EXCEPT ![l][r] = IF rel = Head(s) THEN Tail(s)
                                     ELSE <<Head(s) - rel>> \o Tail(s)]
    BY <1>4 DEF Release
  <2> HIDE DEF rel, s
  <2>6. b \in Balance /\ b.hand = bal[l].hand /\ b.avail = bal[l].avail + rel
        /\ b.reserved = bal[l].reserved - rel
    <3>1. -rel \in Int
      BY <2>3
    <3>2. /\ bal[l].avail - (-rel) = bal[l].avail + rel
          /\ bal[l].reserved + (-rel) = bal[l].reserved - rel
      BY <2>1, <2>3 DEF Balance
    <3>3. b = [bal[l] EXCEPT !.avail = @ - (-rel), !.reserved = @ + (-rel)]
      BY <3>2
    <3> HIDE DEF b
    <3>4. QED
      BY <2>1, <3>1, <3>2, <3>3, WithheldFields
  <2> HIDE DEF b
  <2>7. bal' \in [Locations -> Balance]
    BY <1>c, <2>4, <2>6 DEF TypeOK
  <2>8. rsv' \in [Locations -> [Refs -> Seq(Int)]]
    <3>1. <<Head(s) - rel>> \o Tail(s) \in Seq(Int)
      BY <2>2, <2>3
    <3>2. QED
      BY <1>c, <2>2, <2>5, <3>1 DEF TypeOK
  <2>9. BooksAgree'
    <3>1. bal[l].avail = bal[l].hand - bal[l].reserved
      BY <1>c DEF BooksAgree, Consistent
    <3>2. b.avail = b.hand - b.reserved
      BY <2>1, <2>3, <2>6, <3>1 DEF Balance
    <3>3. QED
      BY <1>c, <2>4, <2>6, <3>2 DEF BooksAgree, Consistent, TypeOK
  <2>10. QED
    BY <1>c, <2>4, <2>7, <2>8, <2>9 DEF BooksInv, TypeOK, SavedAgrees
<1>5. ASSUME NEW f \in Locations, NEW t \in Locations, NEW n \in Lots \cup {NoLot},
             NEW q \in Quantity, Transfer(f, t, n, q)
      PROVE  BooksInv'
  <2>1. Carry(f, t, q) /\ q \in Nat /\ UNCHANGED <<rsv, issues, consumed, txn>>
    BY <1>5, <1>a DEF Transfer
  <2>2. lots' \in [Locations -> [Lots -> Nat]]
    BY <1>5, <1>c, <2>1, LotCarriedType DEF Transfer, TypeOK
  <2>3. QED
    BY <1>c, <2>1, <2>2, CarryKeepsBooks DEF BooksInv, TypeOK, SavedAgrees
<1>6. ASSUME NEW l \in Locations, NEW d \in -MaxStock..MaxStock, Adjust(l, d)
      PROVE  BooksInv'
  <2> DEFINE new == bal[l].hand + d
             b == [bal[l] EXCEPT !.hand = new, !.avail = new - bal[l].reserved]
             a == [sum |-> ledger[l].sum + d, last |-> new]
  <2>1. bal[l] \in Balance /\ ledger[l] \in Account /\ d \in Int
    BY <1>c, <1>b DEF TypeOK
  <2>2. new \in Int
    BY <2>1 DEF Balance
  <2>3. b \in Balance /\ b.hand = new /\ b.avail = new - bal[l].reserved
        /\ b.reserved = bal[l].reserved
    <3> DEFINE v == new - bal[l].reserved
    <3>1. v \in Int
      BY <2>1, <2>2 DEF Balance
    <3>a. b = [bal[l] EXCEPT !.hand = new, !.avail = v]
      OBVIOUS
    <3> HIDE DEF new, v, b
    <3>2. b \in Balance /\ b.hand = new /\ b.avail = v /\ b.reserved = bal[l].reserved
      BY <2>1, <2>2, <3>1, <3>a DEF Balance
    <3>3. QED
      BY <3>2 DEF v
  <2>4. a \in Account /\ a.sum = ledger[l].sum + d /\ a.last = new
    BY <2>1, <2>2 DEF Account
  <2>5. /\ bal' = [bal EXCEPT ![l] = b] /\ ledger' = [ledger EXCEPT ![l] = a]
        /\ UNCHANGED <<rows, lots, rsv, issues, consumed, txn>>
    BY <1>6, <1>c DEF Adjust, TypeOK
  <2>6. ledger[l].sum = bal[l].hand
    BY <1>c DEF BooksAgree, Consistent
  <2> HIDE DEF a, b
  <2>7. bal' \in [Locations -> Balance] /\ ledger' \in [Locations -> Account]
    BY <1>c, <2>3, <2>4, <2>5 DEF TypeOK
  <2>8. BooksAgree'
    BY <1>c, <2>3, <2>4, <2>5, <2>6 DEF BooksAgree, Consistent, TypeOK
  <2>9. QED
    BY <1>c, <2>5, <2>7, <2>8 DEF BooksInv, TypeOK, SavedAgrees
<1>7. ASSUME NEW l \in Locations, NEW q \in Quantity, Withdraw(l, q),
             consumed' \in SUBSET Keys
      PROVE  BooksInv'
  <2>1. Post(l, -q) /\ -q \in Int /\ UNCHANGED <<rows, lots, rsv, issues, txn>>
    BY <1>7, <1>a DEF Withdraw
  <2>2. QED
    BY <1>7, <1>c, <2>1, PostKeepsBooks DEF BooksInv, TypeOK, SavedAgrees
<1>7a. ASSUME NEW l \in Locations, NEW q \in Quantity,
              Waste(l, q) \/ \E k \in Keys : Consume(k, l, q)
       PROVE  BooksInv'
  <2>1. Withdraw(l, q) /\ consumed' \in SUBSET Keys
    BY <1>7a, <1>c DEF Waste, Consume, TypeOK
  <2>2. QED
    BY <1>7, <2>1
<1>8. ASSUME NEW k \in Keys, NEW lines \in LineLists, BeginIssue(k, lines)
      PROVE  BooksInv'
  <2>1. txn' = Open("issue", lines) /\ UNCHANGED <<rows, bal, ledger, lots, rsv, consumed>>
    BY <1>8 DEF BeginIssue
  <2>2. issues' \in SUBSET Issue
    BY <1>8, <1>c DEF BeginIssue, TypeOK, Issue
  <2>3. QED
    BY <1>c, <2>1, <2>2, OpenType DEF BooksInv, TypeOK, BooksAgree
<1>9. ASSUME NEW lines \in LineLists, BeginReturn(lines)
      PROVE  BooksInv'
  <2>1. txn' = Open("return", lines) /\ UNCHANGED <<rows, bal, ledger, lots, rsv, issues, consumed>>
    BY <1>9 DEF BeginReturn
  <2>2. QED
    BY <1>c, <2>1, OpenType DEF BooksInv, TypeOK, BooksAgree
<1>10. CASE IssueLine
  <2> DEFINE n == Head(txn.todo)
  <2>1. /\ txn.kind # "none" /\ txn.todo # <<>>
        /\ txn' = [txn EXCEPT !.todo = Tail(txn.todo)]
        /\ Carry(n.from, n.to, n.qty) /\ UNCHANGED <<rsv, issues, consumed>>
    BY <1>10 DEF IssueLine
  <2>2. lots' = IF n.lot # NoLot THEN LotCarried(n.from, n.to, n.lot, n.qty) ELSE lots
    BY <1>10 DEF IssueLine
  <2>3. /\ n \in Line
        /\ txn' \in [kind: Kinds \ {"none"}, todo: Seq(Line), saved: Saved]
        /\ SavedAgrees'
    BY <2>1, NextLineType
  <2> HIDE DEF n
  <2>4. n.from \in Locations /\ n.to \in Locations /\ n.qty \in Nat
        /\ n.lot \in Lots \cup {NoLot}
    BY <2>3 DEF Line
  <2>5. lots' \in [Locations -> [Lots -> Nat]]
    BY <1>c, <2>2, <2>4, LotCarriedType DEF TypeOK
  <2>6. QED
    BY <1>c, <2>1, <2>3, <2>4, <2>5, CarryKeepsBooks DEF BooksInv, TypeOK
<1>11. CASE ReturnLine
  <2> DEFINE n == Head(txn.todo)
  <2>1. /\ txn.kind # "none" /\ txn.todo # <<>>
        /\ txn' = [txn EXCEPT !.todo = Tail(txn.todo)]
        /\ Post(n.to, n.qty) /\ UNCHANGED <<rows, lots, rsv, issues, consumed>>
    BY <1>11 DEF ReturnLine
  <2>2. /\ n \in Line
        /\ txn' \in [kind: Kinds \ {"none"}, todo: Seq(Line), saved: Saved]
        /\ SavedAgrees'
    BY <2>1, NextLineType
  <2> HIDE DEF n
  <2>3. n.to \in Locations /\ n.qty \in Int
    BY <2>2 DEF Line
  <2>4. QED
    BY <1>c, <2>1, <2>2, <2>3, PostKeepsBooks DEF BooksInv, TypeOK
<1>12. CASE Commit
  BY <1>12, <1>c, ClosedAgrees DEF Commit, moved, BooksInv, TypeOK, BooksAgree, SavedAgrees
<1>13. CASE Rollback
  <2>1. txn.saved \in Saved /\ Consistent(txn.saved.bal, txn.saved.ledger)
    BY <1>13, <1>c, OpenTxn DEF Rollback, Free, SavedAgrees
  <2>2. bal' = txn.saved.bal /\ ledger' = txn.saved.ledger /\ txn' = Closed
    BY <1>13 DEF Rollback
  <2>3. BooksAgree' /\ SavedAgrees'
    BY <2>1, <2>2, ClosedAgrees DEF BooksAgree, SavedAgrees
  <2>4. TypeOK'
    BY <1>13, <1>c, <2>1 DEF Rollback, TypeOK, Saved
  <2>5. QED
    BY <2>3, <2>4 DEF BooksInv
<1>14. QED
  BY <1>1, <1>2, <1>3, <1>4, <1>5, <1>6, <1>7a, <1>8, <1>9, <1>10, <1>11, <1>12, <1>13
  DEF Next, Receipts, Reservations, Movements, Adjustments

\* All tables, the open transaction and its saved tables keep their types; no
\* lot becomes negative, however much of it a line asks for.
THEOREM StockTypeCorrect == Spec => []TypeOK
<1>1. BooksInv => TypeOK
  BY DEF BooksInv
<1>2. QED
  BY <1>1, BooksInit, BooksStep, PTL DEF Spec

\* Balance and ledger are never inconsistent (inventory/services.py,
\* warehouse/services.py): for any number of locations, lots, lines and
\* quantities, between any two statements, and after a rollback.
THEOREM BooksAlwaysAgree == Spec => []BooksAgree
<1>1. BooksInv => BooksAgree
  BY DEF BooksInv
<1>2. QED
  BY <1>1, BooksInit, BooksStep, PTL DEF Spec

-----------------------------------------------------------------------------
(* What the lines of a document come to at a location *)

Into(lines, l) == [i \in DOMAIN lines |-> IF lines[i].to = l THEN lines[i].qty ELSE 0]
OutOf(lines, l) == [i \in DOMAIN lines |-> IF lines[i].from = l THEN lines[i].qty ELSE 0]

\* The greatest of the numbers up to n that are in S.
LEMMA MaxMember ==
  ASSUME NEW n \in Nat, NEW S, S \subseteq 1..n, S # {}
  PROVE  Max(S) \in S
<1> DEFINE N == {n - i : i \in S}
<1>1. N \subseteq Nat /\ N # {}
  <2>1. \A i \in S : i \in 1..n /\ n - i \in Nat
    OBVIOUS
  <2>2. QED
    BY <2>1
<1>2. Least(N) \in N /\ \A j \in N : Least(N) <= j
  BY <1>1, LeastMember
<1>3. PICK i \in S : Least(N) = n - i
  BY <1>2
<1>4. ASSUME NEW j \in S PROVE i >= j
  <2>1. n - j \in N /\ i \in 1..n /\ j \in 1..n
    OBVIOUS
  <2>2. n - i <= n - j
    BY <1>2, <1>3, <2>1
  <2>3. QED
    BY <2>1, <2>2
<1>5. QED
  BY <1>4 DEF Max

\* One step of a fold from the left over lines that count f, the last of them
\* taken out first; a line that counts nothing is passed over.
FoldTable(H, f, S) ==
    [s \in SUBSET S |->
        IF s = {} THEN 0
        ELSE IF f[Max(s)] = 0 THEN H[s \ {Max(s)}] ELSE H[s \ {Max(s)}] + f[Max(s)]]

\* The table of the sums of f is the one table that such a fold computes.
LEMMA FoldTableIsTotals ==
  ASSUME NEW n \in Nat, NEW f, \A i \in 1..n : f[i] \in Int, NEW G, Totals(G, f, 1..n)
  PROVE  /\ G = FoldTable(G, f, 1..n)
         /\ \A H : H = FoldTable(H, f, 1..n) => H = G
<1> DEFINE S == 1..n
           c == [s \in SUBSET S |-> Max(s)]
<1>1. IsFiniteSet(S)
  BY FS_Interval
<1>2. ASSUME NEW s \in SUBSET S, s # {}
      PROVE  c[s] = Max(s) /\ c[s] \in s /\ c[s] \in S /\ f[c[s]] \in Int
  BY <1>2, MaxMember
<1>3. ASSUME NEW H, NEW s \in SUBSET S
      PROVE  /\ s = {} => FoldTable(H, f, S)[s] = 0
             /\ s # {} => FoldTable(H, f, S)[s] = IF f[c[s]] = 0 THEN H[s \ {c[s]}]
                                                  ELSE H[s \ {c[s]}] + f[c[s]]
  BY <1>2 DEF FoldTable
<1>4. G = [s \in SUBSET S |-> G[s]]
  BY DEF Totals
<1> HIDE DEF c
<1>5. G = FoldTable(G, f, S)
  <2>1. ASSUME NEW s \in SUBSET S PROVE G[s] = FoldTable(G, f, S)[s]
    <3>1. CASE s = {}
      BY <1>3, <3>1 DEF Totals
    <3>2. CASE s # {}
      <4>1. PICK x : x = c[s]
        OBVIOUS
      <4>2. x \in s /\ f[x] \in Int
        BY <1>2, <3>2, <4>1
      <4>3. FoldTable(G, f, S)[s] = IF f[x] = 0 THEN G[s \ {x}] ELSE G[s \ {x}] + f[x]
        BY <1>3, <3>2, <4>1
      <4>4. G[s] = f[x] + G[s \ {x}] /\ G[s \ {x}] \in Int
        BY <4>2 DEF Totals
      <4>5. QED
        BY <4>2, <4>3, <4>4
    <3>3. QED
      BY <3>1, <3>2
  <2>2. FoldTable(G, f, S) = [s \in SUBSET S |-> FoldTable(G, f, S)[s]]
    BY DEF FoldTable
  <2>3. QED
    BY <1>4, <2>1, <2>2
<1>6. ASSUME NEW H, H = FoldTable(H, f, S) PROVE H = G
  <2>1. H[{}] = 0
    <3>1. {} \in SUBSET S /\ H[{}] = FoldTable(H, f, S)[{}]
      BY <1>6
    <3>2. QED
      BY <1>3, <3>1
  <2>2. ASSUME NEW s \in SUBSET S, s # {}
        PROVE  /\ c[s] \in s
               /\ H[s \ {c[s]}] \in Int => H[s] = f[c[s]] + H[s \ {c[s]}]
    <3>1. PICK x : x = c[s]
      OBVIOUS
    <3>2. H[s] = FoldTable(H, f, S)[s]
      BY <1>6
    <3>3. H[s] = IF f[x] = 0 THEN H[s \ {x}] ELSE H[s \ {x}] + f[x]
      BY <1>3, <2>2, <3>1, <3>2
    <3>4. x \in s /\ f[x] \in Int
      BY <1>2, <2>2, <3>1
    <3>5. H[s \ {x}] \in Int => H[s] = f[x] + H[s \ {x}]
      BY <3>3, <3>4
    <3>6. QED
      BY <3>1, <3>4, <3>5
  <2>3. Folded(H, c, f, S)
    BY <2>1, <2>2 DEF Folded
  <2>4. \A s \in SUBSET S : H[s] = G[s]
    BY <1>1, <2>3, TotalsUnique
  <2>5. H = [s \in SUBSET S |-> H[s]]
    BY <1>6 DEF FoldTable
  <2>6. QED
    BY <1>4, <2>4, <2>5
<1>7. QED
  BY <1>5, <1>6

\* Arrives and Leaves of StockPromise fold from the left; they are sums.
LEMMA ArrivesIsSum ==
  ASSUME NEW lines \in Seq(Line), NEW l
  PROVE  /\ Into(lines, l) \in Seq(Int)
         /\ Promise!Arrives(lines, l) = SumFunction(Into(lines, l))
<1> DEFINE f == Into(lines, l)
           n == Len(lines)
           S == DOMAIN lines
           E(H) == [s \in SUBSET S |->
                      IF s = {} THEN 0
                      ELSE LET x == Max(s)
                           IN  IF lines[x].to = l THEN H[s \ {x}] + lines[x].qty ELSE H[s \ {x}]]
<1>1. n \in Nat /\ S = 1..n /\ IsFiniteSet(1..n)
  BY FS_Interval
<1>2. ASSUME NEW i \in S
      PROVE  /\ f[i] \in Int /\ lines[i].qty # 0
             /\ f[i] = IF lines[i].to = l THEN lines[i].qty ELSE 0
  <2>1. lines[i] \in Line
    OBVIOUS
  <2>2. QED
    BY <2>1 DEF Line, Into
<1>3. DOMAIN f = S /\ f \in Seq(Int)
  BY <1>2 DEF Into
<1> HIDE DEF f, n
<1>4. PICK G : Totals(G, f, 1..n)
  BY <1>1, <1>2, TotalsExist
<1>5. G = FoldTable(G, f, 1..n) /\ \A H : H = FoldTable(H, f, 1..n) => H = G
  BY <1>1, <1>2, <1>4, FoldTableIsTotals
<1>6. ASSUME NEW H PROVE E(H) = FoldTable(H, f, 1..n)
  <2>1. ASSUME NEW s \in SUBSET S PROVE E(H)[s] = FoldTable(H, f, S)[s]
    <3>1. CASE s = {}
      BY <3>1 DEF FoldTable
    <3>2. CASE s # {}
      <4>1. Max(s) \in S
        BY <1>1, <3>2, MaxMember
      <4>2. QED
        BY <1>2, <3>2, <4>1 DEF FoldTable
    <3>3. QED
      BY <3>1, <3>2
  <2>2. QED
    BY <1>1, <2>1 DEF FoldTable
<1>7. Promise!Arrives(lines, l) = G[S]
  <2>1. G = E(G) /\ \A H : H = E(H) => H = G
    BY <1>5, <1>6
  <2>2. QED
    BY <2>1, Zenon
    DEF Promise!Arrives, Promise!FoldLeft, Promise!MapThenFoldSet, Promise!Max, Max
<1>8. SumFunction(f) = G[S]
  BY <1>1, <1>3, <1>4, SumIsTotal DEF SumFunction
<1>9. QED
  BY <1>3, <1>7, <1>8 DEF f

LEMMA LeavesIsSum ==
  ASSUME NEW lines \in Seq(Line), NEW l
  PROVE  /\ OutOf(lines, l) \in Seq(Int)
         /\ Promise!Leaves(lines, l) = SumFunction(OutOf(lines, l))
<1> DEFINE f == OutOf(lines, l)
           n == Len(lines)
           S == DOMAIN lines
           E(H) == [s \in SUBSET S |->
                      IF s = {} THEN 0
                      ELSE LET x == Max(s)
                           IN  IF lines[x].from = l THEN H[s \ {x}] + lines[x].qty ELSE H[s \ {x}]]
<1>1. n \in Nat /\ S = 1..n /\ IsFiniteSet(1..n)
  BY FS_Interval
<1>2. ASSUME NEW i \in S
      PROVE  /\ f[i] \in Int /\ lines[i].qty # 0
             /\ f[i] = IF lines[i].from = l THEN lines[i].qty ELSE 0
  <2>1. lines[i] \in Line
    OBVIOUS
  <2>2. QED
    BY <2>1 DEF Line, OutOf
<1>3. DOMAIN f = S /\ f \in Seq(Int)
  BY <1>2 DEF OutOf
<1> HIDE DEF f, n
<1>4. PICK G : Totals(G, f, 1..n)
  BY <1>1, <1>2, TotalsExist
<1>5. G = FoldTable(G, f, 1..n) /\ \A H : H = FoldTable(H, f, 1..n) => H = G
  BY <1>1, <1>2, <1>4, FoldTableIsTotals
<1>6. ASSUME NEW H PROVE E(H) = FoldTable(H, f, 1..n)
  <2>1. ASSUME NEW s \in SUBSET S PROVE E(H)[s] = FoldTable(H, f, S)[s]
    <3>1. CASE s = {}
      BY <3>1 DEF FoldTable
    <3>2. CASE s # {}
      <4>1. Max(s) \in S
        BY <1>1, <3>2, MaxMember
      <4>2. QED
        BY <1>2, <3>2, <4>1 DEF FoldTable
    <3>3. QED
      BY <3>1, <3>2
  <2>2. QED
    BY <1>1, <2>1 DEF FoldTable
<1>7. Promise!Leaves(lines, l) = G[S]
  <2>1. G = E(G) /\ \A H : H = E(H) => H = G
    BY <1>5, <1>6
  <2>2. QED
    BY <2>1, Zenon
    DEF Promise!Leaves, Promise!FoldLeft, Promise!MapThenFoldSet, Promise!Max, Max
<1>8. SumFunction(f) = G[S]
  BY <1>1, <1>3, <1>4, SumIsTotal DEF SumFunction
<1>9. QED
  BY <1>3, <1>7, <1>8 DEF f

\* Line by line.
LEMMA ArrivesStep ==
  ASSUME NEW lines \in Seq(Line), NEW l
  PROVE  /\ Promise!Arrives(lines, l) \in Int
         /\ lines = <<>> => Promise!Arrives(lines, l) = 0
         /\ lines # <<>> =>
              Promise!Arrives(lines, l) = (IF Head(lines).to = l THEN Head(lines).qty ELSE 0)
                                          + Promise!Arrives(Tail(lines), l)
<1> DEFINE f == Into(lines, l)
           t == Tail(lines)
<1>1. f \in Seq(Int) /\ Promise!Arrives(lines, l) = SumFunction(f)
  BY ArrivesIsSum
<1>2. Len(f) = Len(lines)
  BY <1>1 DEF Into
<1>3. ASSUME lines = <<>> PROVE Promise!Arrives(lines, l) = 0
  <2>1. f = <<>>
    BY <1>1, <1>2, <1>3
  <2> HIDE DEF f
  <2>2. QED
    BY <1>1, <2>1, SumOfTail
<1>4. ASSUME lines # <<>>
      PROVE  Promise!Arrives(lines, l) = (IF Head(lines).to = l THEN Head(lines).qty ELSE 0)
                                          + Promise!Arrives(t, l)
  <2> DEFINE g == Into(t, l)
  <2>1. t \in Seq(Line) /\ Len(t) = Len(lines) - 1 /\ \A i \in 1..Len(t) : t[i] = lines[i + 1]
    BY <1>4
  <2>2. g \in Seq(Int) /\ Promise!Arrives(t, l) = SumFunction(g)
    BY <2>1, ArrivesIsSum
  <2>3. Len(g) = Len(t) /\ \A i \in 1..Len(t) : g[i] = IF t[i].to = l THEN t[i].qty ELSE 0
    BY <2>1, <2>2 DEF Into
  <2>4. f # <<>>
    BY <1>1, <1>2, <1>4
  <2>5. \A i \in 1..Len(lines) : f[i] = IF lines[i].to = l THEN lines[i].qty ELSE 0
    BY DEF Into
  <2>6. Head(f) = IF Head(lines).to = l THEN Head(lines).qty ELSE 0
    BY <1>1, <1>2, <1>4, <2>4, <2>5
  <2> HIDE DEF f, t, g
  <2>7. Tail(f) \in Seq(Int) /\ Len(Tail(f)) = Len(f) - 1
        /\ \A i \in 1..Len(Tail(f)) : Tail(f)[i] = f[i + 1]
    BY <1>1, <2>4
  <2>8. g = Tail(f)
    <3>1. Len(g) = Len(Tail(f))
      BY <1>2, <2>1, <2>3, <2>7
    <3>2. ASSUME NEW i \in 1..Len(g) PROVE g[i] = Tail(f)[i]
      <4>1. i \in 1..Len(t) /\ i \in 1..Len(Tail(f)) /\ i + 1 \in 1..Len(lines)
        BY <1>2, <2>1, <2>3, <2>7
      <4>2. QED
        BY <2>1, <2>3, <2>5, <2>7, <4>1
    <3>3. QED
      BY <2>2, <2>7, <3>1, <3>2
  <2>9. SumFunction(f) = Head(f) + SumFunction(Tail(f))
    BY <1>1, <2>4, SumOfTail
  <2>10. QED
    BY <1>1, <2>2, <2>6, <2>8, <2>9
<1>5. Promise!Arrives(lines, l) \in Int
  <2> HIDE DEF f
  <2>1. QED
    BY <1>1, SumOfTail
<1>6. QED
  BY <1>3, <1>4, <1>5

LEMMA LeavesStep ==
  ASSUME NEW lines \in Seq(Line), NEW l
  PROVE  /\ Promise!Leaves(lines, l) \in Int
         /\ lines = <<>> => Promise!Leaves(lines, l) = 0
         /\ lines # <<>> =>
              Promise!Leaves(lines, l) = (IF Head(lines).from = l THEN Head(lines).qty ELSE 0)
                                          + Promise!Leaves(Tail(lines), l)
<1> DEFINE f == OutOf(lines, l)
           t == Tail(lines)
<1>1. f \in Seq(Int) /\ Promise!Leaves(lines, l) = SumFunction(f)
  BY LeavesIsSum
<1>2. Len(f) = Len(lines)
  BY <1>1 DEF OutOf
<1>3. ASSUME lines = <<>> PROVE Promise!Leaves(lines, l) = 0
  <2>1. f = <<>>
    BY <1>1, <1>2, <1>3
  <2> HIDE DEF f
  <2>2. QED
    BY <1>1, <2>1, SumOfTail
<1>4. ASSUME lines # <<>>
      PROVE  Promise!Leaves(lines, l) = (IF Head(lines).from = l THEN Head(lines).qty ELSE 0)
                                          + Promise!Leaves(t, l)
  <2> DEFINE g == OutOf(t, l)
  <2>1. t \in Seq(Line) /\ Len(t) = Len(lines) - 1 /\ \A i \in 1..Len(t) : t[i] = lines[i + 1]
    BY <1>4
  <2>2. g \in Seq(Int) /\ Promise!Leaves(t, l) = SumFunction(g)
    BY <2>1, LeavesIsSum
  <2>3. Len(g) = Len(t) /\ \A i \in 1..Len(t) : g[i] = IF t[i].from = l THEN t[i].qty ELSE 0
    BY <2>1, <2>2 DEF OutOf
  <2>4. f # <<>>
    BY <1>1, <1>2, <1>4
  <2>5. \A i \in 1..Len(lines) : f[i] = IF lines[i].from = l THEN lines[i].qty ELSE 0
    BY DEF OutOf
  <2>6. Head(f) = IF Head(lines).from = l THEN Head(lines).qty ELSE 0
    BY <1>1, <1>2, <1>4, <2>4, <2>5
  <2> HIDE DEF f, t, g
  <2>7. Tail(f) \in Seq(Int) /\ Len(Tail(f)) = Len(f) - 1
        /\ \A i \in 1..Len(Tail(f)) : Tail(f)[i] = f[i + 1]
    BY <1>1, <2>4
  <2>8. g = Tail(f)
    <3>1. Len(g) = Len(Tail(f))
      BY <1>2, <2>1, <2>3, <2>7
    <3>2. ASSUME NEW i \in 1..Len(g) PROVE g[i] = Tail(f)[i]
      <4>1. i \in 1..Len(t) /\ i \in 1..Len(Tail(f)) /\ i + 1 \in 1..Len(lines)
        BY <1>2, <2>1, <2>3, <2>7
      <4>2. QED
        BY <2>1, <2>3, <2>5, <2>7, <4>1
    <3>3. QED
      BY <2>2, <2>7, <3>1, <3>2
  <2>9. SumFunction(f) = Head(f) + SumFunction(Tail(f))
    BY <1>1, <2>4, SumOfTail
  <2>10. QED
    BY <1>1, <2>2, <2>6, <2>8, <2>9
<1>5. Promise!Leaves(lines, l) \in Int
  <2> HIDE DEF f
  <2>1. QED
    BY <1>1, SumOfTail
<1>6. QED
  BY <1>3, <1>4, <1>5

-----------------------------------------------------------------------------
(* Reservations *)

\* What the reservations v hold back at l, by reference.
HeldIn(v, l) == [r \in Refs |-> SumFunction(v[l][r])]

LEMMA HeldIsInt ==
  ASSUME NEW v \in StockReservations, NEW l \in Locations
  PROVE  HeldIn(v, l) \in [Refs -> Int] /\ SumFunction(HeldIn(v, l)) \in Int
<1>1. \A r \in Refs : v[l][r] \in Seq(Int)
  OBVIOUS
<1>2. \A r \in Refs : SumFunction(v[l][r]) \in Int
  BY <1>1, SumOfTail
<1>3. HeldIn(v, l) \in [Refs -> Int]
  BY <1>2 DEF HeldIn
<1>4. \A r \in Refs : HeldIn(v, l)[r] \in Int
  BY <1>3
<1>5. SumFunctionOnSet(HeldIn(v, l), Refs) \in Int
  BY <1>4, StockAssumption, SumWithout DEF StockAssumption
<1>6. DOMAIN HeldIn(v, l) = Refs
  BY DEF HeldIn
<1>7. QED
  BY <1>3, <1>5, <1>6 DEF SumFunction

\* The reservations of one reference at one location change.
Replaced(w, v, l, r, s) == w = [v EXCEPT ![l][r] = s]

HeldChange(w, v, l, r, s) ==
    /\ SumFunction(HeldIn(w, l)) = SumFunction(HeldIn(v, l)) - SumFunction(v[l][r]) + SumFunction(s)
    /\ \A k \in Locations : k # l => HeldIn(w, k) = HeldIn(v, k)
    /\ \A k \in Locations, x \in Refs : w[k][x] = IF k = l /\ x = r THEN s ELSE v[k][x]

LEMMA HeldExcept ==
  ASSUME NEW v \in StockReservations, NEW l \in Locations, NEW r \in Refs,
         NEW s \in Seq(Int), NEW w, Replaced(w, v, l, r, s)
  PROVE  HeldChange(w, v, l, r, s)
<1> USE DEF Replaced
<1>2. \A k \in Locations, x \in Refs : w[k][x] = IF k = l /\ x = r THEN s ELSE v[k][x]
  OBVIOUS
<1>3. \A k \in Locations : k # l => HeldIn(w, k) = HeldIn(v, k)
  BY <1>2 DEF HeldIn
<1> DEFINE f == HeldIn(v, l)
           q == SumFunction(s)
<1>4. f \in [Refs -> Int] /\ f[r] = SumFunction(v[l][r])
  BY HeldIsInt DEF HeldIn
<1>5. q \in Int
  BY SumOfTail
<1>6. HeldIn(w, l) = [f EXCEPT ![r] = q]
  BY <1>2 DEF HeldIn
<1>7. SumFunction([f EXCEPT ![r] = q]) = SumFunction(f) - f[r] + q
  <2> HIDE DEF f, q
  <2>1. QED
    <3>1. IsFiniteSet(Refs)
      BY StockAssumption DEF StockAssumption
    <3>2. f \in [Refs -> Int]
      BY <1>4
    <3>3. QED
      BY <1>5, <3>1, <3>2, SumExcept, Zenon
<1>8. QED
  BY <1>2, <1>3, <1>4, <1>6, <1>7 DEF HeldChange

Positive(v) == \A l \in Locations, r \in Refs : \A i \in DOMAIN v[l][r] : v[l][r][i] > 0

LEMMA BackedMeans ==
  ReservationsBacked <=> /\ \A l \in Locations : bal[l].reserved = SumFunction(HeldIn(rsv, l))
                         /\ Positive(rsv)
BY DEF ReservationsBacked, HeldIn, Positive

\* What is withheld is never negative, and no less than a reservation.
LEMMA WithheldBounds ==
  ASSUME TypeOK, ReservationsBacked, NEW l \in Locations
  PROVE  /\ bal[l].reserved \in Nat
         /\ \A r \in Refs : rsv[l][r] # <<>> =>
               Head(rsv[l][r]) \in Nat \ {0} /\ Head(rsv[l][r]) <= bal[l].reserved
<1>1. ASSUME NEW r \in Refs
      PROVE  /\ HeldIn(rsv, l)[r] \in Nat
             /\ rsv[l][r] # <<>> => /\ Head(rsv[l][r]) \in Nat \ {0}
                                    /\ Head(rsv[l][r]) <= HeldIn(rsv, l)[r]
  <2> DEFINE s == rsv[l][r]
  <2>1. s \in Seq(Int) /\ \A i \in DOMAIN s : s[i] > 0
    BY DEF TypeOK, ReservationsBacked
  <2>2. HeldIn(rsv, l)[r] = SumFunction(s)
    BY DEF HeldIn
  <2> HIDE DEF s
  <2>3. IsFiniteSet(DOMAIN s) /\ \A i \in DOMAIN s : s[i] \in Nat
    <3>1. DOMAIN s = 1..Len(s) /\ Len(s) \in Nat
      BY <2>1
    <3>2. IsFiniteSet(1..Len(s))
      BY <3>1, FS_Interval
    <3>3. QED
      BY <2>1, <3>1, <3>2
  <2>4. /\ SumFunctionOnSet(s, DOMAIN s) \in Nat
        /\ \A i \in DOMAIN s : s[i] <= SumFunctionOnSet(s, DOMAIN s)
    BY <2>3, SumOfNaturals
  <2>5. s # <<>> => 1 \in DOMAIN s /\ Head(s) = s[1]
    BY <2>1
  <2>6. QED
    BY <2>1, <2>2, <2>3, <2>4, <2>5 DEF SumFunction, s
<1>2. DOMAIN HeldIn(rsv, l) = Refs
  BY DEF HeldIn
<1> DEFINE f == HeldIn(rsv, l)
<1>3. bal[l].reserved = SumFunctionOnSet(f, Refs)
  BY <1>2, BackedMeans DEF SumFunction
<1> HIDE DEF f
<1>4. \A r \in Refs : f[r] \in Nat
  BY <1>1 DEF f
<1>5. /\ SumFunctionOnSet(f, Refs) \in Nat
      /\ \A r \in Refs : f[r] <= SumFunctionOnSet(f, Refs)
  BY <1>4, StockAssumption, SumOfNaturals DEF StockAssumption
<1>6. ASSUME NEW r \in Refs, rsv[l][r] # <<>>
      PROVE  Head(rsv[l][r]) \in Nat \ {0} /\ Head(rsv[l][r]) <= bal[l].reserved
  <2>1. Head(rsv[l][r]) \in Nat \ {0} /\ Head(rsv[l][r]) <= f[r]
    BY <1>1, <1>6 DEF f
  <2>2. f[r] \in Nat /\ f[r] <= bal[l].reserved /\ bal[l].reserved \in Nat
    BY <1>3, <1>4, <1>5
  <2>3. QED
    BY <2>1, <2>2
<1>7. QED
  BY <1>3, <1>5, <1>6

\* A movement changes what is on hand and withholds nothing.
LEMMA PostEffect ==
  ASSUME TypeOK, NEW l \in Locations, NEW d \in Int, Post(l, d), NEW k \in Locations
  PROVE  /\ bal'[k].reserved = bal[k].reserved
         /\ bal'[k].hand = IF k = l THEN bal[k].hand + d ELSE bal[k].hand
<1> DEFINE b == Moved(bal[l], d)
<1>1. bal' = [bal EXCEPT ![l] = b] /\ bal \in [Locations -> Balance]
  BY DEF Post, TypeOK
<1>2. b.hand = bal[l].hand + d /\ b.reserved = bal[l].reserved
  BY <1>1, MovedFields
<1> HIDE DEF b
<1>3. QED
  BY <1>1, <1>2

LEMMA CarryEffect ==
  ASSUME TypeOK, NEW f \in Locations, NEW t \in Locations, NEW q \in Int,
         Carry(f, t, q), NEW k \in Locations
  PROVE  /\ bal'[k].reserved = bal[k].reserved
         /\ bal'[k].hand = bal[k].hand - (IF k = f THEN q ELSE 0) + (IF k = t THEN q ELSE 0)
<1> DEFINE b1 == Moved(bal[f], -q)
           out == [bal EXCEPT ![f] = b1]
           b2 == Moved(out[t], q)
<1>1. bal \in [Locations -> Balance] /\ -q \in Int
  BY DEF TypeOK
<1>2. bal' = [out EXCEPT ![t] = b2]
  BY <1>1 DEF Carry
<1>3. b1 \in Balance /\ b1.hand = bal[f].hand + (-q) /\ b1.reserved = bal[f].reserved
  BY <1>1, MovedFields
<1> HIDE DEF b1
<1>4. out \in [Locations -> Balance]
  BY <1>1, <1>3
<1>5. b2.hand = out[t].hand + q /\ b2.reserved = out[t].reserved
  BY <1>4, MovedFields
<1> HIDE DEF b2
<1>6. /\ out[k].reserved = bal[k].reserved
      /\ out[k].hand = bal[k].hand - (IF k = f THEN q ELSE 0)
  <2>1. bal[k] \in Balance
    BY <1>1
  <2>2. QED
    BY <1>1, <1>3, <2>1 DEF Balance
<1>7. out[k] \in Balance
  BY <1>4
<1> HIDE DEF out
<1>8. /\ bal'[k].reserved = out[k].reserved
      /\ bal'[k].hand = out[k].hand + (IF k = t THEN q ELSE 0)
  <2>1. out[k].hand \in Int
    BY <1>7 DEF Balance
  <2>2. QED
    BY <1>2, <1>4, <1>5, <2>1
<1>9. QED
  BY <1>6, <1>8

\* No line of an open transaction withholds or frees anything, so that a
\* rollback cannot take back what a reservation withholds.
SavedReserved ==
    txn.kind # "none" => \A l \in Locations : txn.saved.bal[l].reserved = bal[l].reserved

BackedInv == BooksInv /\ ReservationsBacked /\ SavedReserved

LEMMA OpenSaves ==
  ASSUME NEW kind, NEW lines, txn' = Open(kind, lines)
  PROVE  /\ txn'.kind = kind /\ txn'.todo = lines
         /\ txn'.saved.bal = bal /\ txn'.saved.issues = issues
BY DEF Open

LEMMA TodoOnly ==
  ASSUME TypeOK, txn.kind # "none", txn' = [txn EXCEPT !.todo = Tail(txn.todo)]
  PROVE  txn'.kind = txn.kind /\ txn'.saved = txn.saved /\ txn'.todo = Tail(txn.todo)
<1>1. txn \in [kind: Kinds \ {"none"}, todo: Seq(Line), saved: Saved]
  BY OpenTxn
<1>2. QED
  BY <1>1

\* Reservations and what is withheld stay as they are.
LEMMA QuietIsBacked ==
  ASSUME ReservationsBacked, rsv' = rsv,
         \A l \in Locations : bal'[l].reserved = bal[l].reserved
  PROVE  ReservationsBacked'
<1>1. \A l \in Locations : bal[l].reserved = SumFunction(HeldIn(rsv, l))
  BY BackedMeans
<1>2. Positive(rsv)
  BY BackedMeans
<1>3. \A l \in Locations : bal'[l].reserved = SumFunction(HeldIn(rsv', l))
  BY <1>1
<1>4. Positive(rsv')
  BY <1>2
<1>5. QED
  BY <1>3, <1>4 DEF ReservationsBacked, HeldIn, Positive

LEMMA BackedInit == Init => BackedInv
<1> SUFFICES ASSUME Init PROVE BackedInv
  OBVIOUS
<1>1. BooksInv
  BY BooksInit
<1>2. SavedReserved
  BY ClosedAgrees DEF Init, SavedReserved
<1>3. ASSUME NEW l \in Locations PROVE bal[l].reserved = SumFunction(HeldIn(rsv, l))
  <2> DEFINE f == HeldIn(rsv, l)
  <2>1. bal[l].reserved = 0
    BY DEF Init
  <2>2. SumFunction(<<>>) = 0
    <3>1. <<>> \in Seq(Int)
      OBVIOUS
    <3>2. QED
      BY <3>1, SumOfTail
  <2>3. \A r \in Refs : f[r] = 0
    BY <2>2 DEF Init, HeldIn
  <2>4. DOMAIN f = Refs
    BY DEF HeldIn
  <2> HIDE DEF f
  <2>5. Totals([s \in SUBSET Refs |-> 0], f, Refs)
    BY <2>3 DEF Totals
  <2>6. PICK G : G = [s \in SUBSET Refs |-> 0]
    OBVIOUS
  <2>7. SumFunctionOnSet(f, Refs) = G[Refs]
    BY <2>5, <2>6, StockAssumption, SumIsTotal DEF StockAssumption
  <2>8. QED
    BY <2>1, <2>4, <2>6, <2>7 DEF SumFunction, f
<1>4. Positive(rsv)
  BY DEF Init, Positive
<1>5. QED
  BY <1>1, <1>2, <1>3, <1>4, BackedMeans DEF BackedInv

LEMMA BackedStep ==
  ASSUME BackedInv, [Next]_vars
  PROVE  BackedInv'
<1>a. \A q \in Quantity : q \in Nat \ {0} /\ -q \in Int
  BY StockAssumption DEF Quantity, StockAssumption
<1>b. TypeOK /\ ReservationsBacked /\ SavedReserved /\ BooksInv
  BY DEF BackedInv, BooksInv
<1>c. BooksInv'
  BY <1>b, BooksStep
<1>d. ASSUME rsv' = rsv, \A l \in Locations : bal'[l].reserved = bal[l].reserved,
             txn'.kind # "none" =>
                \A l \in Locations : txn'.saved.bal[l].reserved = bal[l].reserved
      PROVE  BackedInv'
  <2>1. ReservationsBacked'
    BY <1>b, <1>d, QuietIsBacked
  <2>2. SavedReserved'
    BY <1>d DEF SavedReserved
  <2>3. QED
    BY <1>c, <2>1, <2>2 DEF BackedInv
<1>e. ASSUME txn' = txn \/ (txn.kind # "none" /\ txn' = [txn EXCEPT !.todo = Tail(txn.todo)])
      PROVE  txn'.kind # "none" =>
                \A l \in Locations : txn'.saved.bal[l].reserved = bal[l].reserved
  BY <1>b, <1>e, TodoOnly DEF SavedReserved
<1>1. CASE UNCHANGED vars
  BY <1>1, <1>d, <1>e DEF vars
<1>2. ASSUME NEW l \in Locations, NEW n \in Lots, NEW q \in Quantity, Receive(l, n, q)
      PROVE  BackedInv'
  <2>1. Post(l, q) /\ q \in Int /\ rsv' = rsv /\ txn' = txn
    BY <1>2, <1>a DEF Receive
  <2>2. \A k \in Locations : bal'[k].reserved = bal[k].reserved
    BY <1>b, <2>1, PostEffect
  <2>3. QED
    BY <1>d, <1>e, <2>1, <2>2
<1>3. ASSUME NEW l \in Locations, NEW r \in Refs, NEW q \in Quantity, Reserve(l, r, q)
      PROVE  BackedInv'
  <2> DEFINE s == <<q>> \o rsv[l][r]
  <2>1. /\ rsv' = [rsv EXCEPT ![l][r] = s] /\ txn' = txn /\ txn.kind = "none"
        /\ bal' = [bal EXCEPT ![l] = [bal[l] EXCEPT !.avail = @ - q, !.reserved = @ + q]]
    BY <1>3, <1>b DEF Reserve, Free, TypeOK
  <2>2. rsv \in StockReservations /\ bal \in [Locations -> Balance] /\ q \in Int /\ q > 0
    BY <1>a, <1>b DEF TypeOK
  <2>3. rsv[l][r] \in Seq(Int)
    BY <2>2
  <2>4. s \in Seq(Int) /\ SumFunction(rsv[l][r]) \in Int
        /\ SumFunction(s) = q + SumFunction(rsv[l][r])
    BY <2>2, <2>3, SumOfCons
  <2>5. \A i \in DOMAIN s : s[i] > 0
    <3>1. \A i \in DOMAIN rsv[l][r] : rsv[l][r][i] > 0
      BY <1>b DEF ReservationsBacked
    <3>2. QED
      BY <2>2, <2>3, <3>1
  <2>6. \A k \in Locations : bal'[k].reserved = bal[k].reserved + (IF k = l THEN q ELSE 0)
    <3>1. bal[l] \in Balance /\ \A k \in Locations : bal[k].reserved \in Int
      BY <2>2 DEF Balance
    <3>2. [bal[l] EXCEPT !.avail = @ - q, !.reserved = @ + q].reserved = bal[l].reserved + q
      BY <2>2, <3>1, WithheldFields
    <3>3. QED
      BY <2>1, <2>2, <3>1, <3>2
  <2> HIDE DEF s
  <2>7. /\ SumFunction(HeldIn(rsv', l))
             = SumFunction(HeldIn(rsv, l)) - SumFunction(rsv[l][r]) + SumFunction(s)
        /\ \A k \in Locations : k # l => HeldIn(rsv', k) = HeldIn(rsv, k)
        /\ \A k \in Locations, x \in Refs :
              rsv'[k][x] = IF k = l /\ x = r THEN s ELSE rsv[k][x]
    <3>1. PICK w : w = rsv'
      OBVIOUS
    <3>2. PICK v : v = rsv
      OBVIOUS
    <3>3. Replaced(w, v, l, r, s)
      BY <2>1, <3>1, <3>2 DEF Replaced
    <3>4. v \in StockReservations /\ s \in Seq(Int)
      BY <2>2, <2>4, <3>2
    <3>5. HeldChange(w, v, l, r, s)
      BY <3>3, <3>4, HeldExcept
    <3>6. QED
      BY <3>1, <3>2, <3>5 DEF HeldChange
  <2>8. ASSUME NEW k \in Locations PROVE bal'[k].reserved = SumFunction(HeldIn(rsv', k))
    <3>1. bal[k].reserved = SumFunction(HeldIn(rsv, k)) /\ SumFunction(HeldIn(rsv, k)) \in Int
      BY <1>b, <2>2, BackedMeans, HeldIsInt
    <3>2. CASE k = l
      BY <2>2, <2>4, <2>6, <2>7, <3>1, <3>2
    <3>3. CASE k # l
      BY <2>6, <2>7, <3>1, <3>3
    <3>4. QED
      BY <3>2, <3>3
  <2>9. Positive(rsv')
    BY <1>b, <2>5, <2>7, BackedMeans DEF Positive
  <2>10. ReservationsBacked'
    BY <2>8, <2>9 DEF ReservationsBacked, HeldIn, Positive
  <2>11. SavedReserved'
    BY <2>1 DEF SavedReserved
  <2>12. QED
    BY <1>c, <2>10, <2>11 DEF BackedInv
<1>4. ASSUME NEW l \in Locations, NEW r \in Refs, NEW q \in Quantity, Release(l, r, q)
      PROVE  BackedInv'
  <2> DEFINE old == rsv[l][r]
             rel == Released(q, Head(old))
             s == IF rel = Head(old) THEN Tail(old) ELSE <<Head(old) - rel>> \o Tail(old)
  <2>1. /\ rsv' = [rsv EXCEPT ![l][r] = s] /\ txn' = txn /\ txn.kind = "none" /\ old # <<>>
        /\ bal' = [bal EXCEPT ![l] = [bal[l] EXCEPT !.avail = @ + rel, !.reserved = @ - rel]]
    BY <1>4, <1>b DEF Release, Free, TypeOK
  <2>2. rsv \in StockReservations /\ bal \in [Locations -> Balance] /\ q \in Int /\ q > 0
    BY <1>a, <1>b DEF TypeOK
  <2>3. old \in Seq(Int) /\ Head(old) \in Int /\ Tail(old) \in Seq(Int)
    <3>1. old \in Seq(Int)
      BY <2>2
    <3>2. QED
      BY <2>1, <3>1
  <2>4. \A i \in DOMAIN old : old[i] > 0
    BY <1>b DEF ReservationsBacked
  <2>5. Head(old) > 0 /\ \A i \in DOMAIN Tail(old) : Tail(old)[i] > 0
    <3> HIDE DEF old
    <3>1. QED
      BY <2>1, <2>3, <2>4
  <2>6. rel \in Int /\ 0 < rel /\ rel <= Head(old)
    BY <2>2, <2>3, <2>5 DEF Released
  <2>7. SumFunction(old) = Head(old) + SumFunction(Tail(old)) /\ SumFunction(Tail(old)) \in Int
    BY <2>1, <2>3, SumOfTail
  <2> HIDE DEF rel, old
  <2>8. /\ s \in Seq(Int) /\ SumFunction(s) = SumFunction(old) - rel
        /\ \A i \in DOMAIN s : s[i] > 0
    <3>1. CASE rel = Head(old)
      BY <2>3, <2>5, <2>6, <2>7, <3>1
    <3>2. CASE rel # Head(old)
      <4> DEFINE h == Head(old) - rel
                 t == Tail(old)
      <4>1. h \in Int /\ h > 0
        BY <2>3, <2>6, <3>2
      <4>2. s = <<h>> \o t
        BY <3>2
      <4>3. t \in Seq(Int) /\ \A i \in DOMAIN t : t[i] > 0
        BY <2>3, <2>5
      <4>4. SumFunction(s) = h + SumFunction(t)
        <5> HIDE DEF h, t, s
        <5>1. QED
          BY <4>1, <4>2, <4>3, SumOfCons
      <4>5. s \in Seq(Int) /\ \A i \in DOMAIN s : s[i] > 0
        <5> HIDE DEF h, t, s
        <5>1. QED
          BY <4>1, <4>2, <4>3
      <4>6. SumFunction(s) = SumFunction(old) - rel
        BY <2>3, <2>6, <2>7, <4>4
      <4>7. QED
        BY <4>5, <4>6
    <3>3. QED
      BY <3>1, <3>2
  <2>9. \A k \in Locations : bal'[k].reserved = bal[k].reserved - (IF k = l THEN rel ELSE 0)
    <3>1. bal[l] \in Balance /\ \A k \in Locations : bal[k].reserved \in Int /\ bal[k].avail \in Int
      BY <2>2 DEF Balance
    <3> DEFINE v == bal[l].avail + rel
               w == bal[l].reserved - rel
    <3>2. [bal[l] EXCEPT !.avail = @ + rel, !.reserved = @ - rel]
            = [bal[l] EXCEPT !.avail = v, !.reserved = w]
      OBVIOUS
    <3>3. [bal[l] EXCEPT !.avail = v, !.reserved = w].reserved = w
      <4> HIDE DEF v, w
      <4>1. QED
        BY <3>1 DEF Balance
    <3>4. QED
      BY <2>1, <2>2, <2>6, <3>1, <3>2, <3>3
  <2> HIDE DEF s
  <2>10. /\ SumFunction(HeldIn(rsv', l))
              = SumFunction(HeldIn(rsv, l)) - SumFunction(old) + SumFunction(s)
         /\ \A k \in Locations : k # l => HeldIn(rsv', k) = HeldIn(rsv, k)
         /\ \A k \in Locations, x \in Refs :
               rsv'[k][x] = IF k = l /\ x = r THEN s ELSE rsv[k][x]
    <3>1. PICK w : w = rsv'
      OBVIOUS
    <3>2. PICK v : v = rsv
      OBVIOUS
    <3>3. Replaced(w, v, l, r, s)
      BY <2>1, <3>1, <3>2 DEF Replaced
    <3>4. v \in StockReservations /\ s \in Seq(Int)
      BY <2>2, <2>8, <3>2
    <3>5. HeldChange(w, v, l, r, s)
      BY <3>3, <3>4, HeldExcept
    <3>6. QED
      BY <3>1, <3>2, <3>5 DEF HeldChange, old
  <2>11. ASSUME NEW k \in Locations PROVE bal'[k].reserved = SumFunction(HeldIn(rsv', k))
    <3>1. bal[k].reserved = SumFunction(HeldIn(rsv, k)) /\ SumFunction(HeldIn(rsv, k)) \in Int
      BY <1>b, <2>2, BackedMeans, HeldIsInt
    <3>2. SumFunction(old) \in Int
      BY <2>3, <2>7
    <3>3. CASE k = l
      BY <2>6, <2>8, <2>9, <2>10, <3>1, <3>2, <3>3
    <3>4. CASE k # l
      BY <2>9, <2>10, <3>1, <3>4
    <3>5. QED
      BY <3>3, <3>4
  <2>12. Positive(rsv')
    BY <1>b, <2>8, <2>10, BackedMeans DEF Positive
  <2>13. ReservationsBacked'
    BY <2>11, <2>12 DEF ReservationsBacked, HeldIn, Positive
  <2>14. SavedReserved'
    BY <2>1 DEF SavedReserved
  <2>15. QED
    BY <1>c, <2>13, <2>14 DEF BackedInv
<1>5. ASSUME NEW f \in Locations, NEW t \in Locations, NEW n \in Lots \cup {NoLot},
             NEW q \in Quantity, Transfer(f, t, n, q)
      PROVE  BackedInv'
  <2>1. Carry(f, t, q) /\ q \in Int /\ rsv' = rsv /\ txn' = txn
    BY <1>5, <1>a DEF Transfer
  <2>2. \A k \in Locations : bal'[k].reserved = bal[k].reserved
    BY <1>b, <2>1, CarryEffect
  <2>3. QED
    BY <1>d, <1>e, <2>1, <2>2
<1>6. ASSUME NEW l \in Locations, NEW d \in -MaxStock..MaxStock, Adjust(l, d)
      PROVE  BackedInv'
  <2> DEFINE h == bal[l].hand + d
             v == h - bal[l].reserved
  <2>1. bal' = [bal EXCEPT ![l] = [bal[l] EXCEPT !.hand = h, !.avail = v]] /\ rsv' = rsv /\ txn' = txn
    BY <1>6, <1>b DEF Adjust, TypeOK
  <2> HIDE DEF h, v
  <2>2. \A k \in Locations : bal'[k].reserved = bal[k].reserved
    <3>1. bal \in [Locations -> Balance] /\ bal[l] \in Balance
      BY <1>b DEF TypeOK
    <3>2. [bal[l] EXCEPT !.hand = h, !.avail = v].reserved = bal[l].reserved
      BY <3>1 DEF Balance
    <3>3. QED
      BY <2>1, <3>1, <3>2
  <2>3. QED
    BY <1>d, <1>e, <2>1, <2>2
<1>7. ASSUME NEW l \in Locations, NEW q \in Quantity,
             Waste(l, q) \/ \E k \in Keys : Consume(k, l, q)
      PROVE  BackedInv'
  <2>1. Post(l, -q) /\ -q \in Int /\ rsv' = rsv /\ txn' = txn
    BY <1>7, <1>a DEF Waste, Consume, Withdraw
  <2>2. \A k \in Locations : bal'[k].reserved = bal[k].reserved
    BY <1>b, <2>1, PostEffect
  <2>3. QED
    BY <1>d, <1>e, <2>1, <2>2
<1>8. ASSUME NEW lines, NEW kind, txn' = Open(kind, lines), rsv' = rsv, bal' = bal
      PROVE  BackedInv'
  <2>1. txn'.saved.bal = bal
    BY <1>8, OpenSaves
  <2>2. QED
    BY <1>d, <1>8, <2>1
<1>9. ASSUME NEW k \in Keys, NEW lines \in LineLists, BeginIssue(k, lines)
      PROVE  BackedInv'
  BY <1>8, <1>9 DEF BeginIssue
<1>10. ASSUME NEW lines \in LineLists, BeginReturn(lines)
       PROVE  BackedInv'
  BY <1>8, <1>10 DEF BeginReturn
<1>11. CASE IssueLine
  <2> DEFINE n == Head(txn.todo)
  <2>1. /\ txn.kind # "none" /\ txn.todo # <<>>
        /\ txn' = [txn EXCEPT !.todo = Tail(txn.todo)]
        /\ Carry(n.from, n.to, n.qty) /\ rsv' = rsv
    BY <1>11 DEF IssueLine
  <2>2. n \in Line
    BY <1>b, <2>1, NextLineType
  <2> HIDE DEF n
  <2>3. n.from \in Locations /\ n.to \in Locations /\ n.qty \in Int
    BY <2>2 DEF Line
  <2>4. \A k \in Locations : bal'[k].reserved = bal[k].reserved
    BY <1>b, <2>1, <2>3, CarryEffect
  <2>5. QED
    BY <1>d, <1>e, <2>1, <2>4
<1>12. CASE ReturnLine
  <2> DEFINE n == Head(txn.todo)
  <2>1. /\ txn.kind # "none" /\ txn.todo # <<>>
        /\ txn' = [txn EXCEPT !.todo = Tail(txn.todo)]
        /\ Post(n.to, n.qty) /\ rsv' = rsv
    BY <1>12 DEF ReturnLine
  <2>2. n \in Line
    BY <1>b, <2>1, NextLineType
  <2> HIDE DEF n
  <2>3. n.to \in Locations /\ n.qty \in Int
    BY <2>2 DEF Line
  <2>4. \A k \in Locations : bal'[k].reserved = bal[k].reserved
    BY <1>b, <2>1, <2>3, PostEffect
  <2>5. QED
    BY <1>d, <1>e, <2>1, <2>4
<1>13. CASE Commit
  <2>1. rsv' = rsv /\ bal' = bal /\ txn'.kind = "none"
    BY <1>13, ClosedAgrees DEF Commit, moved
  <2>2. QED
    BY <1>d, <2>1
<1>14. CASE Rollback
  <2>1. /\ txn.kind # "none" /\ rsv' = rsv /\ bal' = txn.saved.bal /\ txn'.kind = "none"
    BY <1>14, ClosedAgrees DEF Rollback, Free
  <2>2. \A k \in Locations : bal'[k].reserved = bal[k].reserved
    BY <1>b, <2>1 DEF SavedReserved
  <2>3. QED
    BY <1>d, <2>1, <2>2
<1>15. QED
  BY <1>1, <1>2, <1>3, <1>4, <1>5, <1>6, <1>7, <1>9, <1>10, <1>11, <1>12, <1>13, <1>14
  DEF Next, Receipts, Reservations, Movements, Adjustments

\* Every unit that a balance withholds is withheld by an active reservation
\* (reserve_stock and release_reservation of inventory/services.py), for any
\* locations, references and reservations, and after any rollback.
THEOREM ReservationsAlwaysBacked == Spec => []ReservationsBacked
<1>1. BackedInv => ReservationsBacked
  BY DEF BackedInv
<1>2. QED
  BY <1>1, BackedInit, BackedStep, PTL DEF Spec

-----------------------------------------------------------------------------
(* The promise: what is so between the lines of an open transaction         *)

\* Nothing is owed at any location.
NoDebt == \A l \in Locations : bal[l].hand >= 0

\* A location that has less than before the transaction still has what it
\* withholds.
Underway ==
    txn.kind # "none" =>
        \A l \in Locations :
            /\ txn.saved.bal[l].hand >= 0
            /\ bal[l].hand < txn.saved.bal[l].hand => bal[l].hand >= bal[l].reserved

\* With the lines that are still to do, the lines of i have been done.
DoneButTodo(lines) ==
    \A l \in Locations :
        bal[l].hand + Promise!Arrives(txn.todo, l) - Promise!Leaves(txn.todo, l)
          = txn.saved.bal[l].hand + Promise!Arrives(lines, l) - Promise!Leaves(lines, l)

IssueUnderway ==
    txn.kind = "issue" =>
        \E i \in Issue : /\ \A j \in txn.saved.issues : j.key # i.key
                         /\ issues = txn.saved.issues \cup {i}
                         /\ DoneButTodo(i.lines)

ReturnedButTodo(lines) ==
    \A l \in Locations :
        bal[l].hand + Promise!Arrives(txn.todo, l)
          = txn.saved.bal[l].hand + Promise!Arrives(lines, l)

ReturnUnderway ==
    txn.kind = "return" =>
        /\ issues = txn.saved.issues
        /\ \E lines \in LineLists : ReturnedButTodo(lines)

PromiseInv == BackedInv /\ NoDebt /\ Underway /\ IssueUnderway /\ ReturnUnderway

\* What is covered can be taken away and leaves what is withheld.
LEMMA CoveredLeaves ==
  ASSUME PromiseInv, NEW l \in Locations, NEW q, Coverable(l, q), q \in Nat
  PROVE  /\ bal[l].hand \in Int /\ bal[l].reserved \in Nat
         /\ bal[l].hand - q >= bal[l].reserved
<1>1. bal[l] \in Balance /\ bal[l].avail >= q
  BY DEF PromiseInv, BackedInv, BooksInv, TypeOK, Coverable
<1>2. bal[l].avail = bal[l].hand - bal[l].reserved
  BY DEF PromiseInv, BackedInv, BooksInv, BooksAgree, Consistent
<1>3. bal[l].reserved \in Nat
  BY WithheldBounds DEF PromiseInv, BackedInv, BooksInv
<1>4. bal[l].hand \in Int /\ bal[l].avail \in Int
  BY <1>1 DEF Balance
<1>5. QED
  BY <1>1, <1>2, <1>3, <1>4

LEMMA KindsApart == "issue" # "none" /\ "return" # "none" /\ "issue" # "return"
OBVIOUS

LEMMA PromiseInit == Init => PromiseInv
<1> SUFFICES ASSUME Init PROVE PromiseInv
  OBVIOUS
<1>1. BackedInv
  BY BackedInit
<1>2. txn.kind = "none" /\ \A l \in Locations : bal[l].hand = 0
  BY ClosedAgrees DEF Init
<1>3. QED
  BY <1>1, <1>2 DEF PromiseInv, NoDebt, Underway, IssueUnderway, ReturnUnderway

\* Between transactions only NoDebt has to be shown.
LEMMA ClosedIsKept ==
  ASSUME BackedInv', txn'.kind = "none", \A l \in Locations : bal'[l].hand >= 0
  PROVE  PromiseInv'
BY DEF PromiseInv, NoDebt, Underway, IssueUnderway, ReturnUnderway

LEMMA PromiseInvStep ==
  ASSUME PromiseInv, [Next]_vars
  PROVE  PromiseInv'
<1>a. \A q \in Quantity : q \in Nat \ {0} /\ -q \in Int
  BY StockAssumption DEF Quantity, StockAssumption
<1>b. BackedInv /\ BooksInv /\ TypeOK /\ NoDebt
  BY DEF PromiseInv, BackedInv, BooksInv
<1>c. BackedInv'
  BY <1>b, BackedStep
<1>d. \A l \in Locations : bal[l].hand \in Int /\ bal[l].hand >= 0 /\ bal[l].reserved \in Nat
  <2> TAKE l \in Locations
  <2>1. bal[l] \in Balance
    BY <1>b DEF TypeOK
  <2>2. QED
    BY <1>b, <2>1, WithheldBounds DEF BackedInv, Balance, NoDebt
<1>e. txn.kind # "none" => txn \in [kind: Kinds \ {"none"}, todo: Seq(Line), saved: Saved]
  BY <1>b, OpenTxn
<1>f. txn.kind # "none" =>
        \A l \in Locations : txn.saved.bal[l].hand \in Int /\ txn.saved.bal[l].hand >= 0
  <2> SUFFICES ASSUME txn.kind # "none", NEW l \in Locations
               PROVE  txn.saved.bal[l].hand \in Int /\ txn.saved.bal[l].hand >= 0
    OBVIOUS
  <2>1. txn.saved \in Saved
    BY <1>e
  <2>2. txn.saved.bal[l] \in Balance
    BY <2>1 DEF Saved
  <2>3. QED
    BY <2>2 DEF PromiseInv, Underway, Balance
<1>1. CASE UNCHANGED vars
  <2>1. txn' = txn /\ bal' = bal /\ issues' = issues
    BY <1>1 DEF vars
  <2>2. NoDebt' /\ Underway'
    BY <2>1 DEF PromiseInv, NoDebt, Underway
  <2>3. IssueUnderway' /\ ReturnUnderway'
    BY <2>1 DEF PromiseInv, IssueUnderway, ReturnUnderway, DoneButTodo, ReturnedButTodo
  <2>4. QED
    BY <1>c, <2>2, <2>3 DEF PromiseInv
<1>2. ASSUME NEW l \in Locations, NEW n \in Lots, NEW q \in Quantity, Receive(l, n, q)
      PROVE  PromiseInv'
  <2>1. Post(l, q) /\ q \in Nat /\ txn' = txn /\ txn.kind = "none"
    BY <1>2, <1>a DEF Receive, Free
  <2>2. \A k \in Locations : bal'[k].hand = IF k = l THEN bal[k].hand + q ELSE bal[k].hand
    BY <1>b, <2>1, PostEffect
  <2>3. QED
    BY <1>c, <1>d, <2>1, <2>2, ClosedIsKept
<1>3. ASSUME NEW l \in Locations, NEW r \in Refs, NEW q \in Quantity,
             Reserve(l, r, q) \/ Release(l, r, q)
      PROVE  PromiseInv'
  <2>1. txn' = txn /\ txn.kind = "none"
    BY <1>3 DEF Reserve, Release, Free
  <2>2. \A k \in Locations : bal'[k].hand = bal[k].hand
    <3>1. bal \in [Locations -> Balance] /\ bal[l] \in Balance
      BY <1>b DEF TypeOK
    <3>2. \E v, w : bal' = [bal EXCEPT ![l] = [bal[l] EXCEPT !.avail = v, !.reserved = w]]
      <4>1. CASE Reserve(l, r, q)
        BY <3>1, <4>1 DEF Reserve
      <4>2. CASE Release(l, r, q)
        BY <3>1, <4>2 DEF Release
      <4>3. QED
        BY <1>3, <4>1, <4>2
    <3>3. PICK v, w : bal' = [bal EXCEPT ![l] = [bal[l] EXCEPT !.avail = v, !.reserved = w]]
      BY <3>2
    <3>4. [bal[l] EXCEPT !.avail = v, !.reserved = w].hand = bal[l].hand
      BY <3>1 DEF Balance
    <3>5. QED
      BY <3>1, <3>3, <3>4
  <2>3. QED
    BY <1>c, <1>d, <2>1, <2>2, ClosedIsKept
<1>4. ASSUME NEW f \in Locations, NEW t \in Locations, NEW n \in Lots \cup {NoLot},
             NEW q \in Quantity, Transfer(f, t, n, q)
      PROVE  PromiseInv'
  <2>1. Carry(f, t, q) /\ q \in Nat /\ txn' = txn /\ txn.kind = "none" /\ Coverable(f, q)
    BY <1>4, <1>a DEF Transfer, Free
  <2>2. \A k \in Locations : bal'[k].hand = bal[k].hand - (IF k = f THEN q ELSE 0)
                                           + (IF k = t THEN q ELSE 0)
    BY <1>b, <2>1, CarryEffect
  <2>3. bal[f].hand - q >= 0
    BY <2>1, <1>d, CoveredLeaves
  <2>4. QED
    BY <1>c, <1>d, <2>1, <2>2, <2>3, ClosedIsKept
<1>5. ASSUME NEW l \in Locations, NEW d \in -MaxStock..MaxStock, Adjust(l, d)
      PROVE  PromiseInv'
  <2> DEFINE h == bal[l].hand + d
             v == h - bal[l].reserved
  <2>1. bal' = [bal EXCEPT ![l] = [bal[l] EXCEPT !.hand = h, !.avail = v]] /\ h >= 0
        /\ txn' = txn /\ txn.kind = "none"
    BY <1>5, <1>b DEF Adjust, TypeOK, Free
  <2> HIDE DEF h, v
  <2>2. \A k \in Locations : bal'[k].hand = IF k = l THEN h ELSE bal[k].hand
    <3>1. bal \in [Locations -> Balance] /\ bal[l] \in Balance
      BY <1>b DEF TypeOK
    <3>2. [bal[l] EXCEPT !.hand = h, !.avail = v].hand = h
      BY <3>1 DEF Balance
    <3>3. QED
      BY <2>1, <3>1, <3>2
  <2>3. QED
    BY <1>c, <1>d, <2>1, <2>2, ClosedIsKept
<1>6. ASSUME NEW l \in Locations, NEW q \in Quantity,
             Waste(l, q) \/ \E k \in Keys : Consume(k, l, q)
      PROVE  PromiseInv'
  <2>1. Post(l, -q) /\ -q \in Int /\ q \in Nat /\ txn' = txn /\ txn.kind = "none" /\ Coverable(l, q)
    BY <1>6, <1>a DEF Waste, Consume, Withdraw, Free
  <2>2. \A k \in Locations : bal'[k].hand = IF k = l THEN bal[k].hand + (-q) ELSE bal[k].hand
    BY <1>b, <2>1, PostEffect
  <2>3. bal[l].hand - q >= 0
    BY <2>1, <1>d, CoveredLeaves
  <2>4. QED
    BY <1>c, <1>d, <2>1, <2>2, <2>3, ClosedIsKept
<1>7. ASSUME NEW k \in Keys, NEW lines \in LineLists, BeginIssue(k, lines)
      PROVE  PromiseInv'
  <2> DEFINE i == [key |-> k, lines |-> lines]
  <2>1. /\ txn' = Open("issue", lines) /\ bal' = bal /\ issues' = issues \cup {i}
        /\ \A j \in issues : j.key # k
    BY <1>7 DEF BeginIssue, Unused
  <2>2. txn'.kind = "issue" /\ txn'.todo = lines /\ txn'.saved.bal = bal /\ txn'.saved.issues = issues
    BY <2>1, OpenSaves
  <2>3. i \in Issue /\ i.key = k /\ i.lines = lines
    BY DEF Issue
  <2> HIDE DEF i
  <2>4. NoDebt' /\ Underway'
    BY <1>b, <1>d, <2>1, <2>2 DEF NoDebt, Underway
  <2>5. DoneButTodo(i.lines)'
    BY <2>1, <2>2, <2>3 DEF DoneButTodo
  <2>6. IssueUnderway' /\ ReturnUnderway'
    BY <2>1, <2>2, <2>3, <2>5 DEF IssueUnderway, ReturnUnderway
  <2>7. QED
    BY <1>c, <2>4, <2>6 DEF PromiseInv
<1>8. ASSUME NEW lines \in LineLists, BeginReturn(lines)
      PROVE  PromiseInv'
  <2>1. txn' = Open("return", lines) /\ bal' = bal /\ issues' = issues
    BY <1>8 DEF BeginReturn
  <2>2. txn'.kind = "return" /\ txn'.todo = lines /\ txn'.saved.bal = bal /\ txn'.saved.issues = issues
    BY <2>1, OpenSaves
  <2>3. NoDebt' /\ Underway'
    BY <1>b, <1>d, <2>1, <2>2 DEF NoDebt, Underway
  <2>4. ReturnedButTodo(lines)'
    BY <2>1, <2>2 DEF ReturnedButTodo
  <2>5. IssueUnderway' /\ ReturnUnderway'
    BY <2>1, <2>2, <2>4 DEF IssueUnderway, ReturnUnderway
  <2>6. QED
    BY <1>c, <2>3, <2>5 DEF PromiseInv
<1>9. CASE IssueLine
  <2> DEFINE n == Head(txn.todo)
             todo == txn.todo
             old == txn.saved
  <2>1. /\ txn.kind = "issue" /\ todo # <<>>
        /\ txn' = [txn EXCEPT !.todo = Tail(txn.todo)]
        /\ Coverable(n.from, n.qty)
        /\ Carry(n.from, n.to, n.qty) /\ issues' = issues
    BY <1>9 DEF IssueLine, LineFits
  <2>2. n \in Line /\ todo \in Seq(Line)
    BY <1>b, <1>e, <2>1, NextLineType
  <2>3. n.from \in Locations /\ n.to \in Locations /\ n.qty \in Nat
    BY <2>2 DEF Line
  <2>4. txn'.kind = "issue" /\ txn'.saved = old /\ txn'.todo = Tail(todo)
    BY <1>b, <2>1, TodoOnly
  <2>5. ASSUME NEW l \in Locations
        PROVE  bal'[l].hand = bal[l].hand - (IF l = n.from THEN n.qty ELSE 0)
                                          + (IF l = n.to THEN n.qty ELSE 0)
               /\ bal'[l].reserved = bal[l].reserved
    <3> HIDE DEF n
    <3>1. QED
      BY <1>b, <2>1, <2>3, CarryEffect
  <2>6. bal[n.from].hand - n.qty >= bal[n.from].reserved
    <3> HIDE DEF n
    <3>1. QED
      BY <2>1, <2>3, CoveredLeaves
  <2>7. PICK f, t, q : f = n.from /\ t = n.to /\ q = n.qty
    OBVIOUS
  <2>8. f \in Locations /\ t \in Locations /\ q \in Nat /\ bal[f].hand - q >= bal[f].reserved
    BY <2>3, <2>6, <2>7
  <2>9. \A l \in Locations :
           /\ bal'[l].hand = bal[l].hand - (IF l = f THEN q ELSE 0) + (IF l = t THEN q ELSE 0)
           /\ bal'[l].reserved = bal[l].reserved
    BY <2>5, <2>7
  <2>10. NoDebt'
    BY <1>d, <2>8, <2>9 DEF NoDebt
  <2>11. ASSUME NEW l \in Locations
         PROVE  /\ old.bal[l].hand >= 0
                /\ bal'[l].hand < old.bal[l].hand => bal'[l].hand >= bal'[l].reserved
    <3>1. /\ old.bal[l].hand \in Int /\ old.bal[l].hand >= 0
          /\ bal[l].hand < old.bal[l].hand => bal[l].hand >= bal[l].reserved
      BY <1>f, <2>1 DEF PromiseInv, Underway
    <3> HIDE DEF old, n, todo
    <3>2. QED
      BY <1>d, <2>8, <2>9, <3>1
  <2>12. Underway'
    BY <2>4, <2>11 DEF Underway
  <2>13. PICK i \in Issue : /\ \A j \in old.issues : j.key # i.key
                            /\ issues = old.issues \cup {i}
                            /\ DoneButTodo(i.lines)
    BY <2>1 DEF PromiseInv, IssueUnderway
  <2>14. i.lines \in Seq(Line)
    BY StockAssumption DEF Issue, StockAssumption
  <2>15. ASSUME NEW l \in Locations
         PROVE  bal'[l].hand + Promise!Arrives(Tail(todo), l) - Promise!Leaves(Tail(todo), l)
                  = old.bal[l].hand + Promise!Arrives(i.lines, l) - Promise!Leaves(i.lines, l)
    <3>1. bal[l].hand + Promise!Arrives(todo, l) - Promise!Leaves(todo, l)
            = old.bal[l].hand + Promise!Arrives(i.lines, l) - Promise!Leaves(i.lines, l)
      BY <2>13 DEF DoneButTodo
    <3>2. Promise!Arrives(todo, l) = (IF t = l THEN q ELSE 0) + Promise!Arrives(Tail(todo), l)
      BY <2>1, <2>2, <2>7, ArrivesStep
    <3>3. Promise!Leaves(todo, l) = (IF f = l THEN q ELSE 0) + Promise!Leaves(Tail(todo), l)
      BY <2>1, <2>2, <2>7, LeavesStep
    <3>4. Tail(todo) \in Seq(Line)
      BY <2>1, <2>2
    <3> DEFINE a == Promise!Arrives(Tail(todo), l)
               b == Promise!Leaves(Tail(todo), l)
               x == old.bal[l].hand + Promise!Arrives(i.lines, l) - Promise!Leaves(i.lines, l)
    <3>5. a \in Int /\ b \in Int
      BY <3>4, ArrivesStep, LeavesStep
    <3> HIDE DEF a, b, x, old, todo, n
    <3>6. bal[l].hand + ((IF t = l THEN q ELSE 0) + a) - ((IF f = l THEN q ELSE 0) + b) = x
      BY <3>1, <3>2, <3>3 DEF a, b, x
    <3>7. bal'[l].hand + a - b = x
      BY <1>d, <2>8, <2>9, <3>5, <3>6
    <3>8. QED
      BY <3>7 DEF a, b, x
  <2>16. DoneButTodo(i.lines)'
    BY <2>4, <2>15 DEF DoneButTodo
  <2>17. IssueUnderway' /\ ReturnUnderway'
    BY <2>1, <2>4, <2>13, <2>16 DEF IssueUnderway, ReturnUnderway
  <2>18. QED
    BY <1>c, <2>10, <2>12, <2>17 DEF PromiseInv
<1>10. CASE ReturnLine
  <2> DEFINE n == Head(txn.todo)
             todo == txn.todo
             old == txn.saved
  <2>1. /\ txn.kind = "return" /\ todo # <<>>
        /\ txn' = [txn EXCEPT !.todo = Tail(txn.todo)]
        /\ Post(n.to, n.qty) /\ issues' = issues
    BY <1>10 DEF ReturnLine
  <2>2. n \in Line /\ todo \in Seq(Line)
    BY <1>b, <1>e, <2>1, NextLineType
  <2>3. n.to \in Locations /\ n.qty \in Nat
    BY <2>2 DEF Line
  <2>4. txn'.kind = "return" /\ txn'.saved = old /\ txn'.todo = Tail(todo)
    BY <1>b, <2>1, TodoOnly
  <2>5. PICK t, q : t = n.to /\ q = n.qty
    OBVIOUS
  <2>6. t \in Locations /\ q \in Nat
    BY <2>3, <2>5
  <2>7. \A l \in Locations : /\ bal'[l].hand = IF l = t THEN bal[l].hand + q ELSE bal[l].hand
                             /\ bal'[l].reserved = bal[l].reserved
    <3>1. Post(t, q)
      BY <2>1, <2>5
    <3>2. QED
      BY <1>b, <2>6, <3>1, PostEffect
  <2>8. NoDebt'
    BY <1>d, <2>6, <2>7 DEF NoDebt
  <2>9. ASSUME NEW l \in Locations
        PROVE  /\ old.bal[l].hand >= 0
               /\ bal'[l].hand < old.bal[l].hand => bal'[l].hand >= bal'[l].reserved
    <3>1. /\ old.bal[l].hand \in Int /\ old.bal[l].hand >= 0
          /\ bal[l].hand < old.bal[l].hand => bal[l].hand >= bal[l].reserved
      BY <1>f, <2>1 DEF PromiseInv, Underway
    <3> HIDE DEF old, n, todo
    <3>2. QED
      BY <1>d, <2>6, <2>7, <3>1
  <2>10. Underway'
    BY <2>4, <2>9 DEF Underway
  <2>11. PICK lines \in LineLists : ReturnedButTodo(lines)
    BY <2>1 DEF PromiseInv, ReturnUnderway
  <2>12. issues = old.issues
    BY <2>1 DEF PromiseInv, ReturnUnderway
  <2>13. ASSUME NEW l \in Locations
         PROVE  bal'[l].hand + Promise!Arrives(Tail(todo), l)
                  = old.bal[l].hand + Promise!Arrives(lines, l)
    <3>1. bal[l].hand + Promise!Arrives(todo, l) = old.bal[l].hand + Promise!Arrives(lines, l)
      BY <2>11 DEF ReturnedButTodo
    <3>2. Promise!Arrives(todo, l) = (IF t = l THEN q ELSE 0) + Promise!Arrives(Tail(todo), l)
      BY <2>1, <2>2, <2>5, ArrivesStep
    <3>3. Tail(todo) \in Seq(Line)
      BY <2>1, <2>2
    <3> DEFINE a == Promise!Arrives(Tail(todo), l)
               x == old.bal[l].hand + Promise!Arrives(lines, l)
    <3>4. a \in Int
      BY <3>3, ArrivesStep
    <3> HIDE DEF a, x, old, todo, n
    <3>5. bal[l].hand + ((IF t = l THEN q ELSE 0) + a) = x
      BY <3>1, <3>2 DEF a, x
    <3>6. bal'[l].hand + a = x
      BY <1>d, <2>6, <2>7, <3>4, <3>5
    <3>7. QED
      BY <3>6 DEF a, x
  <2>14. ReturnedButTodo(lines)'
    BY <2>4, <2>13 DEF ReturnedButTodo
  <2>15. IssueUnderway' /\ ReturnUnderway'
    BY <2>1, <2>4, <2>11, <2>12, <2>14 DEF IssueUnderway, ReturnUnderway
  <2>16. QED
    BY <1>c, <2>8, <2>10, <2>15 DEF PromiseInv
<1>11. CASE Commit
  <2>1. bal' = bal /\ txn'.kind = "none"
    BY <1>11, ClosedAgrees DEF Commit, moved
  <2>2. QED
    BY <1>c, <1>d, <2>1, ClosedIsKept
<1>12. CASE Rollback
  <2>1. txn.kind # "none" /\ bal' = txn.saved.bal /\ txn'.kind = "none"
    BY <1>12, ClosedAgrees DEF Rollback, Free
  <2>2. QED
    BY <1>c, <1>f, <2>1, ClosedIsKept
<1>13. QED
  BY <1>1, <1>2, <1>3, <1>4, <1>5, <1>6, <1>7, <1>8, <1>9, <1>10, <1>11, <1>12
  DEF Next, Receipts, Reservations, Movements, Adjustments

-----------------------------------------------------------------------------
(* The committed tables, as StockPromise sees them                          *)

HandBar == [l \in Locations |-> IF Free THEN bal[l].hand ELSE txn.saved.bal[l].hand]
ReservedBar == [l \in Locations |-> bal[l].reserved]
DocumentsBar == IF Free THEN issues ELSE txn.saved.issues

\* What the goods at l become, and what stays as it is.
OnlyHand(h) == HandBar' = h /\ ReservedBar' = ReservedBar /\ DocumentsBar' = DocumentsBar

LEMMA InPromised ==
  ASSUME NEW l \in Locations, NEW q \in Quantity, consumed' = consumed,
         OnlyHand([HandBar EXCEPT ![l] = @ + q])
  PROVE  Promise!Next
<1>1. Promise!In(l, q)
  BY DEF Promise!In, OnlyHand, HandBar, ReservedBar, DocumentsBar
<1>2. QED
  BY <1>1 DEF Promise!Next

LEMMA OutPromised ==
  ASSUME NEW l \in Locations, NEW q \in Quantity, HandBar[l] - q >= ReservedBar[l],
         OnlyHand([HandBar EXCEPT ![l] = @ - q]),
         consumed' = consumed \/ \E k \in Keys : k \notin consumed /\ consumed' = consumed \cup {k}
  PROVE  Promise!Next
<1>1. CASE consumed' = consumed
  <2>1. Promise!Out(l, q)
    BY <1>1 DEF Promise!Out, OnlyHand, HandBar, ReservedBar, DocumentsBar
  <2>2. QED
    BY <2>1 DEF Promise!Next
<1>2. ASSUME NEW k \in Keys, k \notin consumed, consumed' = consumed \cup {k}
      PROVE  Promise!Next
  <2>1. Promise!Consume(k, l, q)
    BY <1>2 DEF Promise!Consume, OnlyHand, HandBar, ReservedBar, DocumentsBar
  <2>2. QED
    BY <2>1 DEF Promise!Next
<1>3. QED
  BY <1>1, <1>2

LEMMA TransferPromised ==
  ASSUME NEW f \in Locations, NEW t \in Locations, f # t, NEW q \in Quantity,
         HandBar[f] - q >= ReservedBar[f], consumed' = consumed,
         OnlyHand([HandBar EXCEPT ![f] = @ - q, ![t] = @ + q])
  PROVE  Promise!Next
<1>1. Promise!Transfer(f, t, q)
  BY DEF Promise!Transfer, OnlyHand, HandBar, ReservedBar, DocumentsBar
<1>2. QED
  BY <1>1 DEF Promise!Next

LEMMA CountPromised ==
  ASSUME NEW l \in Locations, NEW n \in Quantity \cup {0}, consumed' = consumed,
         OnlyHand([HandBar EXCEPT ![l] = n])
  PROVE  Promise!Next
<1>1. Promise!Count(l, n)
  BY DEF Promise!Count, OnlyHand, HandBar, ReservedBar, DocumentsBar
<1>2. QED
  BY <1>1 DEF Promise!Next

LEMMA WithheldPromised ==
  ASSUME NEW l \in Locations, NEW q \in Quantity, HandBar' = HandBar,
         DocumentsBar' = DocumentsBar, consumed' = consumed,
         \/ /\ ReservedBar[l] + q <= HandBar[l]
            /\ ReservedBar' = [ReservedBar EXCEPT ![l] = @ + q]
         \/ /\ q <= ReservedBar[l]
            /\ ReservedBar' = [ReservedBar EXCEPT ![l] = @ - q]
  PROVE  Promise!Next
<1>1. Promise!Reserve(l, q) \/ Promise!Release(l, q)
  BY DEF Promise!Reserve, Promise!Release, HandBar, ReservedBar, DocumentsBar
<1>2. QED
  BY <1>1 DEF Promise!Next

LEMMA IssuePromised ==
  ASSUME NEW i \in Issue, \A j \in DocumentsBar : j.key # i.key,
         HandBar' = [l \in Locations |-> HandBar[l] + Promise!Arrives(i.lines, l)
                                                    - Promise!Leaves(i.lines, l)],
         \A l \in Locations : HandBar'[l] < HandBar[l] => HandBar'[l] >= ReservedBar[l],
         DocumentsBar' = DocumentsBar \cup {i}, ReservedBar' = ReservedBar,
         consumed' = consumed
  PROVE  Promise!Next
<1>1. Promise!MakeIssue(i)
  BY DEF Promise!MakeIssue, HandBar, ReservedBar, DocumentsBar
<1>2. QED
  BY <1>1 DEF Promise!Next

LEMMA ReturnPromised ==
  ASSUME NEW lines \in LineLists, consumed' = consumed,
         OnlyHand([l \in Locations |-> HandBar[l] + Promise!Arrives(lines, l)])
  PROVE  Promise!Next
<1>1. Promise!Return(lines)
  BY DEF Promise!Return, OnlyHand, HandBar, ReservedBar, DocumentsBar
<1>2. QED
  BY <1>1 DEF Promise!Next

LEMMA StutterPromised ==
  ASSUME OnlyHand(HandBar), consumed' = consumed
  PROVE  UNCHANGED Promise!vars
BY DEF Promise!vars, OnlyHand, HandBar, ReservedBar, DocumentsBar

LEMMA ClosedBars ==
  ASSUME txn.kind = "none"
  PROVE  HandBar = [l \in Locations |-> bal[l].hand] /\ DocumentsBar = issues
BY DEF HandBar, DocumentsBar, Free

LEMMA OpenBars ==
  ASSUME txn.kind # "none"
  PROVE  /\ HandBar = [l \in Locations |-> txn.saved.bal[l].hand]
         /\ DocumentsBar = txn.saved.issues
BY DEF HandBar, DocumentsBar, Free

LEMMA ClosedBarsAfter ==
  ASSUME txn'.kind = "none"
  PROVE  HandBar' = [l \in Locations |-> bal'[l].hand] /\ DocumentsBar' = issues'
BY DEF HandBar, DocumentsBar, Free

LEMMA OpenBarsAfter ==
  ASSUME txn'.kind # "none"
  PROVE  /\ HandBar' = [l \in Locations |-> txn'.saved.bal[l].hand]
         /\ DocumentsBar' = txn'.saved.issues
BY DEF HandBar, DocumentsBar, Free

LEMMA WithheldBars ==
  ASSUME \A l \in Locations : bal'[l].reserved = bal[l].reserved
  PROVE  ReservedBar' = ReservedBar
BY DEF ReservedBar

\* A line changes no committed table.
LEMMA LineStutters ==
  ASSUME txn.kind # "none", txn'.kind # "none", txn'.saved = txn.saved,
         \A l \in Locations : bal'[l].reserved = bal[l].reserved, consumed' = consumed
  PROVE  UNCHANGED Promise!vars
<1>1. OnlyHand(HandBar)
  BY OpenBars, OpenBarsAfter, WithheldBars DEF OnlyHand
<1>2. QED
  BY <1>1, StutterPromised

\* A count is what the shelves can hold, if they hold what the books say.
LEMMA CountedFits ==
  ASSUME TypeOK, NoDebt, NEW l \in Locations, NEW d \in Int, TotalHand + d <= MaxStock,
         bal[l].hand + d >= 0
  PROVE  bal[l].hand + d \in Quantity \cup {0}
<1> DEFINE f == [k \in Locations |-> bal[k].hand]
<1>1. \A k \in Locations : f[k] \in Nat
  <2> TAKE k \in Locations
  <2>1. bal[k] \in Balance
    BY DEF TypeOK
  <2>2. QED
    BY <2>1 DEF Balance, NoDebt
<1>2. DOMAIN f = Locations /\ f[l] = bal[l].hand
  OBVIOUS
<1>3. TotalHand = SumFunctionOnSet(f, Locations)
  BY <1>2 DEF TotalHand, SumFunction
<1> HIDE DEF f
<1>4. IsFiniteSet(Locations)
  BY StockAssumption DEF StockAssumption
<1>5. /\ SumFunctionOnSet(f, Locations) \in Nat
      /\ \A k \in Locations : f[k] <= SumFunctionOnSet(f, Locations)
  BY <1>1, <1>4, SumOfNaturals
<1>6. TotalHand \in Nat /\ f[l] <= TotalHand /\ f[l] \in Nat /\ MaxStock \in Nat
  BY <1>1, <1>3, <1>5, StockAssumption DEF StockAssumption
<1>7. QED
  BY <1>2, <1>6 DEF Quantity

\* Every step of the services is a step of the promise, or none.
LEMMA PromiseStep ==
  ASSUME PromiseInv, [Next]_vars
  PROVE  [Promise!Next]_(Promise!vars)
<1>a. \A q \in Quantity : q \in Nat \ {0} /\ -q \in Int
  BY StockAssumption DEF Quantity, StockAssumption
<1>b. BackedInv /\ BooksInv /\ TypeOK /\ NoDebt /\ ReservationsBacked
  BY DEF PromiseInv, BackedInv, BooksInv
<1>c. bal \in [Locations -> Balance]
  BY <1>b DEF TypeOK
<1>d. \A l \in Locations : bal[l].hand \in Int /\ bal[l].hand >= 0 /\ bal[l].reserved \in Nat
  <2> TAKE l \in Locations
  <2>1. bal[l] \in Balance
    BY <1>c
  <2>2. QED
    BY <1>b, <2>1, WithheldBounds DEF Balance, NoDebt
<1>1. CASE UNCHANGED vars
  <2>1. txn' = txn /\ bal' = bal /\ issues' = issues /\ consumed' = consumed
    BY <1>1 DEF vars
  <2>2. OnlyHand(HandBar)
    BY <2>1 DEF OnlyHand, HandBar, ReservedBar, DocumentsBar, Free
  <2>3. QED
    BY <2>1, <2>2, StutterPromised
<1>2. ASSUME NEW l \in Locations, NEW n \in Lots, NEW q \in Quantity, Receive(l, n, q)
      PROVE  Promise!Next
  <2>1. Post(l, q) /\ q \in Int /\ txn' = txn /\ txn.kind = "none" /\ issues' = issues
        /\ consumed' = consumed
    BY <1>2, <1>a DEF Receive, Free
  <2>2. \A k \in Locations : /\ bal'[k].hand = IF k = l THEN bal[k].hand + q ELSE bal[k].hand
                             /\ bal'[k].reserved = bal[k].reserved
    BY <1>b, <2>1, PostEffect
  <2>3. HandBar' = [HandBar EXCEPT ![l] = @ + q]
    BY <2>1, <2>2, ClosedBars, ClosedBarsAfter
  <2>4. OnlyHand([HandBar EXCEPT ![l] = @ + q])
    BY <2>1, <2>2, <2>3, ClosedBars, ClosedBarsAfter, WithheldBars DEF OnlyHand
  <2>5. QED
    BY <2>1, <2>4, InPromised
<1>3. ASSUME NEW l \in Locations, NEW r \in Refs, NEW q \in Quantity, Reserve(l, r, q)
      PROVE  Promise!Next
  <2> DEFINE v == bal[l].avail - q
             w == bal[l].reserved + q
  <2>1. /\ bal' = [bal EXCEPT ![l] = [bal[l] EXCEPT !.avail = v, !.reserved = w]]
        /\ txn' = txn /\ txn.kind = "none" /\ issues' = issues /\ consumed' = consumed
        /\ Coverable(l, q)
    BY <1>3, <1>c DEF Reserve, Free
  <2>2. bal[l].reserved + q <= bal[l].hand
    BY <1>a, <1>d, <2>1, CoveredLeaves
  <2> HIDE DEF v, w
  <2>3. \A k \in Locations : /\ bal'[k].hand = bal[k].hand
                             /\ bal'[k].reserved = IF k = l THEN w ELSE bal[k].reserved
    <3>1. bal[l] \in Balance
      BY <1>c
    <3>2. /\ [bal[l] EXCEPT !.avail = v, !.reserved = w].hand = bal[l].hand
          /\ [bal[l] EXCEPT !.avail = v, !.reserved = w].reserved = w
      BY <3>1 DEF Balance
    <3>3. QED
      BY <1>c, <2>1, <3>2
  <2>4. HandBar' = HandBar /\ DocumentsBar' = DocumentsBar
    BY <2>1, <2>3, ClosedBars, ClosedBarsAfter
  <2>5. ReservedBar' = [ReservedBar EXCEPT ![l] = @ + q]
    BY <2>3 DEF ReservedBar, w
  <2>6. ReservedBar[l] + q <= HandBar[l]
    BY <2>1, <2>2, ClosedBars DEF ReservedBar
  <2>7. QED
    BY <2>1, <2>4, <2>5, <2>6, WithheldPromised
<1>4. ASSUME NEW l \in Locations, NEW r \in Refs, NEW q \in Quantity, Release(l, r, q)
      PROVE  Promise!Next
  <2> DEFINE rel == Released(q, Head(rsv[l][r]))
             v == bal[l].avail + rel
             w == bal[l].reserved - rel
  <2>1. /\ bal' = [bal EXCEPT ![l] = [bal[l] EXCEPT !.avail = v, !.reserved = w]]
        /\ txn' = txn /\ txn.kind = "none" /\ issues' = issues /\ consumed' = consumed
        /\ rsv[l][r] # <<>>
    BY <1>4, <1>c DEF Release, Free
  <2>2. Head(rsv[l][r]) \in Nat \ {0} /\ Head(rsv[l][r]) <= bal[l].reserved
    BY <1>b, <2>1, WithheldBounds
  <2>3. rel \in Quantity /\ rel <= bal[l].reserved
    <3>1. q \in 1..MaxStock /\ MaxStock \in Nat
      BY StockAssumption DEF Quantity, StockAssumption
    <3> DEFINE h == Head(rsv[l][r])
    <3>2. rel = IF q < h THEN q ELSE h
      BY DEF Released
    <3>3. h \in Nat \ {0} /\ h <= bal[l].reserved /\ bal[l].reserved \in Nat
      BY <1>d, <2>2
    <3> HIDE DEF h, rel
    <3>4. QED
      BY <3>1, <3>2, <3>3 DEF Quantity
  <2> HIDE DEF rel, v, w
  <2>4. \A k \in Locations : /\ bal'[k].hand = bal[k].hand
                             /\ bal'[k].reserved = IF k = l THEN w ELSE bal[k].reserved
    <3>1. bal[l] \in Balance
      BY <1>c
    <3>2. /\ [bal[l] EXCEPT !.avail = v, !.reserved = w].hand = bal[l].hand
          /\ [bal[l] EXCEPT !.avail = v, !.reserved = w].reserved = w
      BY <3>1 DEF Balance
    <3>3. QED
      BY <1>c, <2>1, <3>2
  <2>5. HandBar' = HandBar /\ DocumentsBar' = DocumentsBar
    BY <2>1, <2>4, ClosedBars, ClosedBarsAfter
  <2>6. ReservedBar' = [ReservedBar EXCEPT ![l] = @ - rel]
    BY <2>4 DEF ReservedBar, w
  <2>7. rel <= ReservedBar[l]
    BY <2>3 DEF ReservedBar
  <2>8. QED
    BY <2>1, <2>3, <2>5, <2>6, <2>7, WithheldPromised
<1>5. ASSUME NEW f \in Locations, NEW t \in Locations, NEW n \in Lots \cup {NoLot},
             NEW q \in Quantity, Transfer(f, t, n, q)
      PROVE  Promise!Next
  <2>1. /\ Carry(f, t, q) /\ q \in Nat /\ Coverable(f, q) /\ f # t
        /\ txn' = txn /\ txn.kind = "none" /\ issues' = issues /\ consumed' = consumed
    BY <1>5, <1>a DEF Transfer, Free
  <2>2. \A k \in Locations : /\ bal'[k].hand = bal[k].hand - (IF k = f THEN q ELSE 0)
                                                           + (IF k = t THEN q ELSE 0)
                             /\ bal'[k].reserved = bal[k].reserved
    BY <1>b, <2>1, CarryEffect
  <2>3. HandBar[f] - q >= ReservedBar[f]
    BY <2>1, CoveredLeaves, ClosedBars DEF ReservedBar
  <2>4. HandBar' = [HandBar EXCEPT ![f] = @ - q, ![t] = @ + q]
    BY <1>d, <2>1, <2>2, ClosedBars, ClosedBarsAfter
  <2>5. OnlyHand([HandBar EXCEPT ![f] = @ - q, ![t] = @ + q])
    BY <2>1, <2>2, <2>4, ClosedBars, ClosedBarsAfter, WithheldBars DEF OnlyHand
  <2>6. QED
    BY <2>1, <2>3, <2>5, TransferPromised
<1>6. ASSUME NEW l \in Locations, NEW d \in -MaxStock..MaxStock, Adjust(l, d)
      PROVE  Promise!Next
  <2> DEFINE h == bal[l].hand + d
             v == h - bal[l].reserved
  <2>1. /\ bal' = [bal EXCEPT ![l] = [bal[l] EXCEPT !.hand = h, !.avail = v]]
        /\ h >= 0 /\ TotalHand + d <= MaxStock
        /\ txn' = txn /\ txn.kind = "none" /\ issues' = issues /\ consumed' = consumed
    BY <1>6, <1>c DEF Adjust, Free
  <2>2. d \in Int
    BY StockAssumption DEF StockAssumption
  <2>3. h \in Quantity \cup {0}
    BY <1>b, <2>1, <2>2, CountedFits
  <2> HIDE DEF h, v
  <2>4. \A k \in Locations : /\ bal'[k].hand = IF k = l THEN h ELSE bal[k].hand
                             /\ bal'[k].reserved = bal[k].reserved
    <3>1. bal[l] \in Balance
      BY <1>c
    <3>2. /\ [bal[l] EXCEPT !.hand = h, !.avail = v].hand = h
          /\ [bal[l] EXCEPT !.hand = h, !.avail = v].reserved = bal[l].reserved
      BY <3>1 DEF Balance
    <3>3. QED
      BY <1>c, <2>1, <3>2
  <2>5. HandBar' = [HandBar EXCEPT ![l] = h]
    BY <2>1, <2>4, ClosedBars, ClosedBarsAfter
  <2>6. OnlyHand([HandBar EXCEPT ![l] = h])
    BY <2>1, <2>4, <2>5, ClosedBars, ClosedBarsAfter, WithheldBars DEF OnlyHand
  <2>7. QED
    BY <2>1, <2>3, <2>6, CountPromised
<1>7. ASSUME NEW l \in Locations, NEW q \in Quantity,
             Waste(l, q) \/ \E k \in Keys : Consume(k, l, q)
      PROVE  Promise!Next
  <2>1. /\ Post(l, -q) /\ -q \in Int /\ q \in Nat /\ Coverable(l, q)
        /\ txn' = txn /\ txn.kind = "none" /\ issues' = issues
        /\ consumed' = consumed \/ \E k \in Keys : k \notin consumed /\ consumed' = consumed \cup {k}
    BY <1>7, <1>a DEF Waste, Consume, Withdraw, Free
  <2>2. \A k \in Locations : /\ bal'[k].hand = IF k = l THEN bal[k].hand + (-q) ELSE bal[k].hand
                             /\ bal'[k].reserved = bal[k].reserved
    BY <1>b, <2>1, PostEffect
  <2>3. HandBar[l] - q >= ReservedBar[l]
    BY <2>1, CoveredLeaves, ClosedBars DEF ReservedBar
  <2>4. HandBar' = [HandBar EXCEPT ![l] = @ - q]
    BY <1>d, <2>1, <2>2, ClosedBars, ClosedBarsAfter
  <2>5. OnlyHand([HandBar EXCEPT ![l] = @ - q])
    BY <2>1, <2>2, <2>4, ClosedBars, ClosedBarsAfter, WithheldBars DEF OnlyHand
  <2>6. QED
    BY <2>1, <2>3, <2>5, OutPromised
<1>8. ASSUME NEW kind \in {"issue", "return"}, NEW lines \in LineLists, txn.kind = "none",
             txn' = Open(kind, lines), bal' = bal, consumed' = consumed
      PROVE  UNCHANGED Promise!vars
  <2>1. txn'.kind # "none" /\ txn'.saved.bal = bal /\ txn'.saved.issues = issues
    BY <1>8, OpenSaves
  <2>2. OnlyHand(HandBar)
    BY <1>8, <2>1, ClosedBars, OpenBarsAfter, WithheldBars DEF OnlyHand
  <2>3. QED
    BY <1>8, <2>2, StutterPromised
<1>9. ASSUME NEW lines \in LineLists,
             (\E k \in Keys : BeginIssue(k, lines)) \/ BeginReturn(lines)
      PROVE  UNCHANGED Promise!vars
  <2>1. /\ txn.kind = "none" /\ bal' = bal /\ consumed' = consumed
        /\ txn' = Open("issue", lines) \/ txn' = Open("return", lines)
    BY <1>9 DEF BeginIssue, BeginReturn, Free
  <2>2. QED
    BY <1>8, <2>1
<1>10. CASE IssueLine
  <2> DEFINE n == Head(txn.todo)
  <2>1. /\ txn.kind # "none" /\ txn.todo # <<>>
        /\ txn' = [txn EXCEPT !.todo = Tail(txn.todo)]
        /\ Carry(n.from, n.to, n.qty) /\ consumed' = consumed
    BY <1>10, KindsApart DEF IssueLine
  <2>2. n \in Line
    BY <1>b, <2>1, NextLineType
  <2>3. n.from \in Locations /\ n.to \in Locations /\ n.qty \in Int
    BY <2>2 DEF Line
  <2>4. txn'.kind # "none" /\ txn'.saved = txn.saved
    BY <1>b, <2>1, TodoOnly
  <2> HIDE DEF n
  <2>5. \A l \in Locations : bal'[l].reserved = bal[l].reserved
    BY <1>b, <2>1, <2>3, CarryEffect
  <2>6. QED
    BY <2>1, <2>4, <2>5, LineStutters
<1>11. CASE ReturnLine
  <2> DEFINE n == Head(txn.todo)
  <2>1. /\ txn.kind # "none" /\ txn.todo # <<>>
        /\ txn' = [txn EXCEPT !.todo = Tail(txn.todo)]
        /\ Post(n.to, n.qty) /\ consumed' = consumed
    BY <1>11, KindsApart DEF ReturnLine
  <2>2. n \in Line
    BY <1>b, <2>1, NextLineType
  <2>3. n.to \in Locations /\ n.qty \in Int
    BY <2>2 DEF Line
  <2>4. txn'.kind # "none" /\ txn'.saved = txn.saved
    BY <1>b, <2>1, TodoOnly
  <2> HIDE DEF n
  <2>5. \A l \in Locations : bal'[l].reserved = bal[l].reserved
    BY <1>b, <2>1, <2>3, PostEffect
  <2>6. QED
    BY <2>1, <2>4, <2>5, LineStutters
<1>12. CASE Rollback
  <2>1. /\ txn.kind # "none" /\ txn'.kind = "none" /\ bal' = txn.saved.bal
        /\ issues' = txn.saved.issues /\ consumed' = consumed
    BY <1>12, ClosedAgrees DEF Rollback, Free
  <2>2. \A l \in Locations : bal'[l].reserved = bal[l].reserved
    BY <1>b, <2>1 DEF BackedInv, SavedReserved
  <2>3. OnlyHand(HandBar)
    BY <2>1, <2>2, OpenBars, ClosedBarsAfter, WithheldBars DEF OnlyHand
  <2>4. QED
    BY <2>1, <2>3, StutterPromised
<1>13. CASE Commit
  <2>1. /\ txn.kind # "none" /\ txn.todo = <<>> /\ txn'.kind = "none"
        /\ bal' = bal /\ issues' = issues /\ consumed' = consumed
    BY <1>13, ClosedAgrees DEF Commit, Free, moved
  <2>2. \A l : Promise!Arrives(<<>>, l) = 0 /\ Promise!Leaves(<<>>, l) = 0
    <3>1. <<>> \in Seq(Line)
      OBVIOUS
    <3>2. QED
      BY <3>1, ArrivesStep, LeavesStep
  <2>3. HandBar' = [l \in Locations |-> bal[l].hand] /\ DocumentsBar' = issues
    BY <2>1, ClosedBarsAfter
  <2>4. /\ HandBar = [l \in Locations |-> txn.saved.bal[l].hand]
        /\ DocumentsBar = txn.saved.issues
    BY <2>1, OpenBars
  <2>5. ReservedBar' = ReservedBar
    BY <2>1, WithheldBars
  <2>6. CASE txn.kind = "issue"
    <3>1. PICK i \in Issue : /\ \A j \in txn.saved.issues : j.key # i.key
                             /\ issues = txn.saved.issues \cup {i}
                             /\ DoneButTodo(i.lines)
      BY <2>6 DEF PromiseInv, IssueUnderway
    <3>2. ASSUME NEW l \in Locations
          PROVE  bal[l].hand = HandBar[l] + Promise!Arrives(i.lines, l)
                                          - Promise!Leaves(i.lines, l)
      <4>1. bal[l].hand + 0 - 0 = HandBar[l] + Promise!Arrives(i.lines, l)
                                             - Promise!Leaves(i.lines, l)
        BY <2>1, <2>2, <2>4, <3>1 DEF DoneButTodo
      <4>2. bal[l].hand + 0 - 0 = bal[l].hand
        BY <1>d
      <4>3. QED
        BY <4>1, <4>2
    <3>3. HandBar' = [l \in Locations |-> HandBar[l] + Promise!Arrives(i.lines, l)
                                                     - Promise!Leaves(i.lines, l)]
      BY <2>3, <3>2
    <3>4. \A l \in Locations : HandBar'[l] < HandBar[l] => HandBar'[l] >= ReservedBar[l]
      BY <2>1, <2>3, <2>4 DEF PromiseInv, Underway, ReservedBar
    <3>5. \A j \in DocumentsBar : j.key # i.key
      BY <2>4, <3>1
    <3>6. DocumentsBar' = DocumentsBar \cup {i}
      BY <2>3, <2>4, <3>1
    <3>7. QED
      BY <2>1, <2>5, <3>3, <3>4, <3>5, <3>6, IssuePromised
  <2>7. CASE txn.kind = "return"
    <3>1. PICK lines \in LineLists : ReturnedButTodo(lines)
      BY <2>7 DEF PromiseInv, ReturnUnderway
    <3>2. issues = txn.saved.issues
      BY <2>7 DEF PromiseInv, ReturnUnderway
    <3>3. ASSUME NEW l \in Locations
          PROVE  bal[l].hand = HandBar[l] + Promise!Arrives(lines, l)
      <4>1. bal[l].hand + 0 = HandBar[l] + Promise!Arrives(lines, l)
        BY <2>1, <2>2, <2>4, <3>1 DEF ReturnedButTodo
      <4>2. bal[l].hand + 0 = bal[l].hand
        BY <1>d
      <4>3. QED
        BY <4>1, <4>2
    <3>4. HandBar' = [l \in Locations |-> HandBar[l] + Promise!Arrives(lines, l)]
      BY <2>3, <3>3
    <3>5. OnlyHand([l \in Locations |-> HandBar[l] + Promise!Arrives(lines, l)])
      BY <2>3, <2>4, <2>5, <3>2, <3>4 DEF OnlyHand
    <3>6. QED
      BY <2>1, <3>5, ReturnPromised
  <2>8. txn.kind \in {"issue", "return"}
    BY <1>b, <2>1, OpenTxn DEF Kinds
  <2>9. QED
    BY <2>6, <2>7, <2>8
<1>14. Next => Promise!Next \/ UNCHANGED Promise!vars
  <2>1. Receipts => Promise!Next
    BY <1>2 DEF Receipts
  <2>2. Reservations => Promise!Next
    BY <1>3, <1>4 DEF Reservations
  <2>3. Adjustments => Promise!Next
    BY <1>6 DEF Adjustments
  <2>4. ASSUME Movements PROVE Promise!Next \/ UNCHANGED Promise!vars
    <3>1. CASE \E f, t \in Locations, n \in Lots \cup {NoLot}, q \in Quantity : Transfer(f, t, n, q)
      BY <1>5, <3>1
    <3>2. CASE \E l \in Locations, q \in Quantity :
                   Waste(l, q) \/ \E k \in Keys : Consume(k, l, q)
      BY <1>7, <3>2
    <3>3. CASE \E k \in Keys, lines \in LineLists : BeginIssue(k, lines)
      BY <1>9, <3>3
    <3>4. CASE \E lines \in LineLists : BeginReturn(lines)
      BY <1>9, <3>4
    <3>5. QED
      BY <2>4, <3>1, <3>2, <3>3, <3>4, <1>10, <1>11, <1>12, <1>13 DEF Movements
  <2>5. QED
    BY <2>1, <2>2, <2>3, <2>4 DEF Next
<1>15. QED
  BY <1>1, <1>14

LEMMA PromiseBegins == Init => Promise!Init
<1> SUFFICES ASSUME Init PROVE Promise!Init
  OBVIOUS
<1>1. /\ txn.kind = "none" /\ issues = {} /\ consumed = {}
      /\ \A l \in Locations : bal[l].hand = 0 /\ bal[l].reserved = 0
  BY ClosedAgrees DEF Init
<1>2. QED
  BY <1>1 DEF Promise!Init, Free

\* The services keep the promise of the stock: what they do to the committed
\* tables is what StockPromise allows, with every issue and every return of
\* several lines a single step of it, whatever fails between the lines.
THEOREM PromiseAlwaysKept == Spec => PromiseKept
<1>1. Init => PromiseInv /\ Promise!Init
  BY PromiseInit, PromiseBegins
<1>2. PromiseInv /\ [Next]_vars => PromiseInv' /\ [Promise!Next]_(Promise!vars)
  BY PromiseInvStep, PromiseStep
<1>3. QED
  BY <1>1, <1>2, PTL DEF Spec, PromiseKept, Promise!Spec
=============================================================================
