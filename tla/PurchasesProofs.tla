---------------------------- MODULE PurchasesProofs ----------------------------
(***************************************************************************)
(* Theorems about purchasing, for any number of requests, names, rows and   *)
(* quantities: the tables stay sound, goods are booked once, and the stock   *)
(* of a material is negative only for a reason.                             *)
(***************************************************************************)
EXTENDS Purchases, FiniteSetTheorems, SequenceTheorems, WellFoundedInduction, TLAPS

-----------------------------------------------------------------------------
(* Lemmas about sequences and sets of keys *)

\* A function on 1..n is a sequence of length n.
LEMMA SeqOf ==
  ASSUME NEW S, NEW n \in Nat, NEW f \in [1..n -> S]
  PROVE  f \in Seq(S) /\ Len(f) = n
<1>1. f \in Seq(S)
  BY SeqDef
<1>2. Len(f) \in Nat /\ 1..Len(f) = 1..n
  BY <1>1, LenProperties
<1>3. Len(f) = n
  <2>1. Len(f) >= 1 => Len(f) \in 1..n
    BY <1>2
  <2>2. n >= 1 => n \in 1..Len(f)
    BY <1>2
  <2>3. QED
    BY <1>2, <2>1, <2>2
<1>4. QED
  BY <1>1, <1>3

\* The rank of a key: how many keys do not exceed it.
Rank(S, i) == Cardinality({j \in S : j <= i})

LEMMA RankBounds ==
  ASSUME NEW S \in SUBSET Int, IsFiniteSet(S), NEW i \in S
  PROVE  Rank(S, i) \in 1..Cardinality(S)
<1> DEFINE below == {j \in S : j <= i}
<1>1. IsFiniteSet(below) /\ Cardinality(below) <= Cardinality(S)
  BY FS_Subset
<1>2. i \in below
  OBVIOUS
<1>3. Cardinality(below) # 0
  BY <1>1, <1>2, FS_EmptySet
<1>4. Cardinality(below) \in Nat /\ Cardinality(S) \in Nat
  BY <1>1, FS_CardinalityType
<1>5. QED
  BY <1>1, <1>3, <1>4 DEF Rank

LEMMA RankIsInjective ==
  ASSUME NEW S \in SUBSET Int, IsFiniteSet(S), NEW i \in S, NEW j \in S, i < j
  PROVE  Rank(S, i) # Rank(S, j)
<1> DEFINE low == {x \in S : x <= i}
           high == {x \in S : x <= j}
<1>1. IsFiniteSet(high)
  BY FS_Subset
<1>2. low \subseteq high /\ j \in high /\ j \notin low
  <2>1. \A x \in S : x \in Int
    OBVIOUS
  <2>2. \A x \in S : x <= i => x <= j
    BY <2>1
  <2>3. ~(j <= i) /\ j <= j
    BY <2>1
  <2>4. QED
    BY <2>2, <2>3
<1>3. Cardinality(high) # Cardinality(low)
  BY <1>1, <1>2, FS_Subset
<1>4. QED
  BY <1>3 DEF Rank

\* Every rank up to the number of keys belongs to one key.
LEMMA NthKey ==
  ASSUME NEW S \in SUBSET Int, IsFiniteSet(S)
  PROVE  /\ \A k \in 1..Cardinality(S) : Nth(S, k) \in S /\ Rank(S, Nth(S, k)) = k
         /\ \A i \in S : Nth(S, Rank(S, i)) = i
<1> DEFINE T == 1..Cardinality(S)
           f == [i \in S |-> Rank(S, i)]
<1>1. Cardinality(S) \in Nat
  BY FS_CardinalityType
<1>2. IsFiniteSet(T) /\ Cardinality(T) = Cardinality(S)
  BY <1>1, FS_Interval
<1>3. f \in Injection(S, T)
  <2>1. f \in [S -> T]
    BY RankBounds
  <2>2. ASSUME NEW i \in S, NEW j \in S, f[i] = f[j] PROVE i = j
    <3>1. Rank(S, i) = Rank(S, j)
      BY <2>2
    <3>2. ~(i < j) /\ ~(j < i)
      BY <3>1, RankIsInjective
    <3>3. QED
      BY <3>2
  <2>3. QED
    BY <2>1, <2>2, Z3 DEF Injection, IsInjective
<1>4. f \in Surjection(S, T)
  BY <1>2, <1>3, FS_Injection
<1>5. \A k \in T : \E i \in S : Rank(S, i) = k
  BY <1>4 DEF Surjection
<1>6. \A k \in T : Nth(S, k) \in S /\ Rank(S, Nth(S, k)) = k
  BY <1>5 DEF Nth, Rank
<1>7. ASSUME NEW i \in S PROVE Nth(S, Rank(S, i)) = i
  <2>1. Rank(S, i) \in T
    BY RankBounds
  <2> DEFINE j == Nth(S, Rank(S, i))
  <2>2. j \in S /\ Rank(S, j) = Rank(S, i)
    BY <1>6, <2>1
  <2> HIDE DEF j
  <2>3. ~(i < j) /\ ~(j < i)
    BY <2>2, RankIsInjective
  <2>4. i \in Int /\ j \in Int
    BY <2>2
  <2>5. QED
    BY <2>3, <2>4 DEF j
<1>8. QED
  BY <1>6, <1>7

-----------------------------------------------------------------------------
(* Tables *)

AnyRow == {None} \cup (UNION {RowTypes[t] : t \in Tables})

\* Every table holds rows of its type.
RowsTyped ==
  /\ db \in [Tables -> Seq(AnyRow)]
  /\ \A t \in Tables : \A k \in Rows(t) : db[t][k] \in RowTypes[t]

\* A row of table t refers to the row k of table u.
Links(t, row, u, k) ==
  \/ t = "materials" /\ u = "categories" /\ k = row.category
  \/ t = "movements" /\ u = "materials" /\ k = row.raw_material
  \/ t = "movements" /\ u = "suppliers" /\ k = row.supplier /\ k # None
  \/ t = "orders" /\ u = "suppliers" /\ k = row.supplier
  \/ t = "items" /\ u = "orders" /\ k = row.purchase_order
  \/ t = "items" /\ u = "materials" /\ k = row.raw_material

LEMMA RefersLinks ==
  ASSUME NEW t \in Tables, NEW row
  PROVE  Refers(t, row) <=> \A u \in Tables : \A m : Links(t, row, u, m) => m \in Rows(u)
BY DEF Refers, Links, Tables

\* What rows refer to exists.
RefsExist ==
  \A t \in Tables : \A k \in Rows(t) : \A u \in Tables : \A m :
    Links(t, db[t][k], u, m) => m \in Rows(u)

\* The key a row is saved under.
KeyOf(rows, id) == IF id = None THEN Len(rows) + 1 ELSE id

LEMMA NoneIsNoRow ==
  /\ None \notin Nat
  /\ \A t \in Tables : None \notin RowTypes[t]
BY NoneAssumption DEF NoneAssumption

LEMMA RowsAreAny == None \in AnyRow /\ \A t \in Tables : RowTypes[t] \subseteq AnyRow
<1>1. None \in AnyRow
  BY DEF AnyRow
<1>2. \A t \in Tables : RowTypes[t] \subseteq AnyRow
  BY DEF AnyRow
<1>3. QED
  BY <1>1, <1>2

LEMMA TableKeys ==
  ASSUME RowsTyped, NEW t \in Tables
  PROVE  /\ db[t] \in Seq(AnyRow) /\ Len(db[t]) \in Nat
         /\ DOMAIN db[t] = 1..Len(db[t])
         /\ Rows(t) \subseteq 1..Len(db[t])
         /\ Rows(t) \subseteq Nat
         /\ IsFiniteSet(Rows(t))
<1>1. db[t] \in Seq(AnyRow)
  BY DEF RowsTyped
<1>2. Len(db[t]) \in Nat /\ DOMAIN db[t] = 1..Len(db[t])
  BY <1>1, LenProperties
<1>3. Rows(t) \subseteq 1..Len(db[t])
  BY <1>2 DEF Rows
<1>4. Rows(t) \subseteq Nat
  BY <1>2, <1>3
<1>5. IsFiniteSet(Rows(t))
  <2>1. IsFiniteSet(1..Len(db[t]))
    BY <1>2, FS_Interval
  <2>2. QED
    BY <1>3, <2>1, FS_Subset
<1>6. QED
  BY <1>1, <1>2, <1>3, <1>4, <1>5

\* Saving a row: an UPDATE or an INSERT.
LEMMA PutProperties ==
  ASSUME NEW S, NEW rows \in Seq(S), NEW row \in S, NEW id,
         id = None \/ id \in 1..Len(rows)
  PROVE  /\ Put(rows, id, row) \in Seq(S)
         /\ Len(Put(rows, id, row)) >= Len(rows)
         /\ KeyOf(rows, id) \in 1..Len(Put(rows, id, row))
         /\ \A k \in 1..Len(Put(rows, id, row)) :
              /\ Put(rows, id, row)[k] = IF k = KeyOf(rows, id) THEN row ELSE rows[k]
              /\ k # KeyOf(rows, id) => k \in 1..Len(rows)
         /\ \A k \in 1..Len(rows) : k \in 1..Len(Put(rows, id, row))
<1>1. Len(rows) \in Nat
  BY LenProperties
<1>2. CASE id = None
  <2>1. /\ Append(rows, row) \in Seq(S)
        /\ Len(Append(rows, row)) = Len(rows) + 1
        /\ \A k \in 1..Len(rows) : Append(rows, row)[k] = rows[k]
        /\ Append(rows, row)[Len(rows) + 1] = row
    BY AppendProperties
  <2>2. Put(rows, id, row) = Append(rows, row) /\ KeyOf(rows, id) = Len(rows) + 1
    BY <1>2 DEF Put, KeyOf
  <2>3. QED
    BY <1>1, <2>1, <2>2
<1>3. CASE id # None
  <2>1. /\ [rows EXCEPT ![id] = row] \in Seq(S)
        /\ Len([rows EXCEPT ![id] = row]) = Len(rows)
        /\ \A k \in 1..Len(rows) : [rows EXCEPT ![id] = row][k] = IF k = id THEN row ELSE rows[k]
    BY <1>3, ExceptSeq
  <2>2. Put(rows, id, row) = [rows EXCEPT ![id] = row] /\ KeyOf(rows, id) = id
    BY <1>3 DEF Put, KeyOf
  <2>3. QED
    BY <1>1, <1>3, <2>1, <2>2
<1>4. QED
  BY <1>2, <1>3

\* The change of the tables when a row is saved.
Saves(t, id, row) == db' = [db EXCEPT ![t] = Put(@, id, row)]

\* The tables after a row was saved.
LEMMA SavedTables ==
  ASSUME RowsTyped, NEW t \in Tables, NEW row \in RowTypes[t], NEW id,
         id = None \/ id \in 1..Len(db[t]),
         Saves(t, id, row)
  PROVE  /\ RowsTyped'
         /\ \A u \in Tables : Len(db'[u]) >= Len(db[u])
         /\ \A u \in Tables : u # t => db'[u] = db[u] /\ Rows(u)' = Rows(u)
         /\ KeyOf(db[t], id) \in Nat /\ KeyOf(db[t], id) \in 1..Len(db'[t])
         /\ Rows(t)' = Rows(t) \cup {KeyOf(db[t], id)}
         /\ db'[t][KeyOf(db[t], id)] = row
         /\ \A k \in Rows(t) : k # KeyOf(db[t], id) => db'[t][k] = db[t][k]
<1> DEFINE n == KeyOf(db[t], id)
           new == Put(db[t], id, row)
<1>1. row \in AnyRow /\ row # None
  BY RowsAreAny, NoneIsNoRow
<1>2. db[t] \in Seq(AnyRow) /\ Len(db[t]) \in Nat /\ DOMAIN db[t] = 1..Len(db[t])
  BY TableKeys
<1>3. /\ new \in Seq(AnyRow)
      /\ Len(new) >= Len(db[t])
      /\ n \in 1..Len(new)
      /\ \A k \in 1..Len(new) : /\ new[k] = IF k = n THEN row ELSE db[t][k]
                                /\ k # n => k \in 1..Len(db[t])
      /\ \A k \in 1..Len(db[t]) : k \in 1..Len(new)
  BY <1>1, <1>2, PutProperties
<1>4. Len(new) \in Nat /\ DOMAIN new = 1..Len(new)
  BY <1>3, LenProperties
<1>5. db \in [Tables -> Seq(AnyRow)]
  BY DEF RowsTyped
<1> HIDE DEF n, new
<1>6. db' = [db EXCEPT ![t] = new]
  BY DEF new, Saves
<1>7. db' \in [Tables -> Seq(AnyRow)]
  BY <1>3, <1>5, <1>6
<1>8. db'[t] = new /\ \A u \in Tables : u # t => db'[u] = db[u]
  BY <1>5, <1>6
<1>9. \A u \in Tables : u # t => Rows(u)' = Rows(u)
  BY <1>8 DEF Rows
<1>10. Rows(t)' = Rows(t) \cup {n}
  <2>1. Rows(t)' = {k \in DOMAIN new : new[k] # None}
    BY <1>8 DEF Rows
  <2>2. \A k : k \in Rows(t)' <=> k \in Rows(t) \/ k = n
    BY <1>1, <1>2, <1>3, <1>4, <2>1 DEF Rows
  <2>3. QED
    BY <2>2
<1>11. \A k \in Rows(t) : k # n => db'[t][k] = db[t][k]
  BY <1>2, <1>3, <1>8 DEF Rows
<1>12. db'[t][n] = row
  BY <1>3, <1>8
<1>13. \A u \in Tables : Len(db'[u]) >= Len(db[u])
  <2> SUFFICES ASSUME NEW u \in Tables PROVE Len(db'[u]) >= Len(db[u])
    OBVIOUS
  <2>1. Len(db[u]) \in Nat
    BY TableKeys
  <2>2. QED
    BY <1>3, <1>8, <2>1
<1>14. \A u \in Tables : \A k \in Rows(u)' : db'[u][k] \in RowTypes[u]
  BY <1>8, <1>9, <1>10, <1>11, <1>12 DEF RowsTyped
<1>15. RowsTyped'
  BY <1>7, <1>14 DEF RowsTyped
<1>16. n \in Nat
  BY <1>3, <1>4
<1>17. QED
  BY <1>3, <1>8, <1>9, <1>10, <1>11, <1>12, <1>13, <1>15, <1>16 DEF n

LEMMA SavedRefs ==
  ASSUME RowsTyped, RefsExist, NEW t \in Tables, NEW row \in RowTypes[t], NEW id,
         id = None \/ id \in 1..Len(db[t]), Refers(t, row),
         Saves(t, id, row)
  PROVE  RefsExist'
<1> DEFINE n == KeyOf(db[t], id)
<1>1. /\ \A u \in Tables : u # t => db'[u] = db[u] /\ Rows(u)' = Rows(u)
      /\ Rows(t)' = Rows(t) \cup {n}
      /\ db'[t][n] = row
      /\ \A k \in Rows(t) : k # n => db'[t][k] = db[t][k]
  BY SavedTables
<1> HIDE DEF n
<1>2. \A u \in Tables : Rows(u) \subseteq Rows(u)'
  BY <1>1
<1>3. \A u \in Tables : \A m : Links(t, row, u, m) => m \in Rows(u)
  BY RefersLinks
<1>4. QED
  BY <1>1, <1>2, <1>3 DEF RefsExist

-----------------------------------------------------------------------------
(* Deletions *)

\* No movement is ever deleted.
MovementsKept == Rows("movements") = 1..Len(db.movements)

TablesInv == RowsTyped /\ RefsExist /\ MovementsKept

\* A step that books nothing: orders and items may go, movements stay.
BookRowsKept ==
  /\ \A u \in Tables : Len(db'[u]) >= Len(db[u])
  /\ \A u \in {"orders", "items"} :
       Rows(u)' \subseteq Rows(u) /\ \A k \in Rows(u)' : db'[u][k] = db[u][k]
  /\ Rows("movements")' = Rows("movements")
  /\ \A k \in Rows("movements") : /\ db'["movements"][k].item = db["movements"][k].item
                                  /\ db'["movements"][k].quantity = db["movements"][k].quantity

LEMMA ErasedRow ==
  ASSUME RowsTyped, NEW t \in Tables, NEW id \in Rows(t)
  PROVE  /\ [db[t] EXCEPT ![id] = None] \in Seq(AnyRow)
         /\ Len([db[t] EXCEPT ![id] = None]) = Len(db[t])
         /\ \A k \in 1..Len(db[t]) : [db[t] EXCEPT ![id] = None][k] = IF k = id THEN None
                                                                     ELSE db[t][k]
<1>1. id \in 1..Len(db[t]) /\ db[t] \in Seq(AnyRow) /\ None \in AnyRow
  BY TableKeys, RowsAreAny
<1>2. QED
  BY <1>1, ExceptSeq

LEMMA WithoutRows ==
  ASSUME RowsTyped, NEW t \in Tables, NEW gone
  PROVE  /\ Without(t, gone) \in Seq(AnyRow)
         /\ Len(Without(t, gone)) = Len(db[t])
         /\ \A k \in 1..Len(db[t]) : Without(t, gone)[k] = IF k \in gone THEN None
                                                           ELSE db[t][k]
<1>1. /\ Len(db[t]) \in Nat /\ DOMAIN db[t] = 1..Len(db[t])
      /\ \A k \in 1..Len(db[t]) : db[t][k] \in AnyRow
  BY TableKeys, ElementOfSeq
<1>2. Without(t, gone) \in [1..Len(db[t]) -> AnyRow]
  BY <1>1, RowsAreAny DEF Without
<1>3. QED
  BY <1>1, <1>2, SeqOf DEF Without

\* Tables of which some lose rows, and rows are left as they were.
LEMMA ShrunkTables ==
  ASSUME TablesInv, db' \in [Tables -> Seq(AnyRow)],
         \A u \in Tables : Len(db'[u]) = Len(db[u]),
         \A u \in Tables : \A k \in 1..Len(db[u]) : db'[u][k] \in {db[u][k], None},
         db'["movements"] = db["movements"],
         \A t, u \in Tables : \A k \in Rows(t), m \in Rows(u) :
            Links(t, db[t][k], u, m) /\ db'[t][k] # None => db'[u][m] # None
  PROVE  TablesInv' /\ BookRowsKept
<1>1. \A u \in Tables : DOMAIN db'[u] = 1..Len(db[u]) /\ DOMAIN db[u] = 1..Len(db[u])
  BY LenProperties, TableKeys DEF TablesInv
<1>2. \A u \in Tables : Rows(u)' \subseteq Rows(u) /\ \A k \in Rows(u)' : db'[u][k] = db[u][k]
  BY <1>1 DEF Rows
<1>3. RowsTyped'
  BY <1>2 DEF TablesInv, RowsTyped
<1>4. RefsExist'
  <2> SUFFICES ASSUME NEW t \in Tables, NEW k \in Rows(t)', NEW u \in Tables, NEW m,
                      Links(t, db'[t][k], u, m)
               PROVE  m \in Rows(u)'
    BY DEF RefsExist
  <2>1. k \in Rows(t) /\ db'[t][k] = db[t][k] /\ db'[t][k] # None
    BY <1>2 DEF Rows
  <2>2. m \in Rows(u)
    BY <2>1 DEF TablesInv, RefsExist
  <2>3. db'[u][m] # None
    BY <2>1, <2>2
  <2>4. QED
    BY <1>1, <2>2, <2>3 DEF Rows
<1>5. Rows("movements")' = Rows("movements")
  BY DEF Rows
<1>6. MovementsKept'
  BY <1>5 DEF TablesInv, MovementsKept
<1>7. BookRowsKept
  <2>1. \A u \in Tables : Len(db[u]) \in Nat
    BY TableKeys DEF TablesInv
  <2>2. QED
    BY <1>2, <1>5, <2>1 DEF BookRowsKept, Tables
<1>8. QED
  BY <1>3, <1>4, <1>6, <1>7 DEF TablesInv

\* One row goes, and nothing refers to it.
Erases(t, id) == db' = [db EXCEPT ![t] = [@ EXCEPT ![id] = None]]

LEMMA OneErased ==
  ASSUME TablesInv, NEW t \in Tables, t # "movements", NEW id \in Rows(t), Erases(t, id),
         \A u \in Tables : \A k \in Rows(u) : ~Links(u, db[u][k], t, id)
  PROVE  TablesInv' /\ BookRowsKept
<1> DEFINE new == [db[t] EXCEPT ![id] = None]
<1>1. RowsTyped
  BY DEF TablesInv
<1>2. /\ new \in Seq(AnyRow) /\ Len(new) = Len(db[t])
      /\ \A k \in 1..Len(db[t]) : new[k] = IF k = id THEN None ELSE db[t][k]
  BY <1>1, ErasedRow
<1>3. db' = [db EXCEPT ![t] = new]
  BY DEF Erases
<1> HIDE DEF new
<1>4. \A u \in Tables : db'[u] = IF u = t THEN new ELSE db[u]
  BY <1>1, <1>3 DEF RowsTyped
<1>5. db' \in [Tables -> Seq(AnyRow)]
  BY <1>1, <1>2, <1>3 DEF RowsTyped
<1>6. /\ \A u \in Tables : Len(db'[u]) = Len(db[u])
      /\ \A u \in Tables : \A k \in 1..Len(db[u]) : db'[u][k] \in {db[u][k], None}
      /\ db'["movements"] = db["movements"]
  BY <1>2, <1>4 DEF Tables
<1>7. \A u \in Tables : \A m \in Rows(u) : u # t \/ m # id => db'[u][m] # None
  BY <1>1, <1>2, <1>4, TableKeys DEF Rows
<1>8. QED
  BY <1>5, <1>6, <1>7, ShrunkTables

LEMMA CategoryDeletes ==
  ASSUME TablesInv, NEW id, CategoryDelete(id)
  PROVE  TablesInv' /\ BookRowsKept
<1>1. Erases("categories", id) /\ id \in Rows("categories")
  BY DEF CategoryDelete, Erases
<1>2. \A k \in Rows("materials") : db["materials"][k].category # id
  BY DEF CategoryDelete
<1>3. \A u \in Tables : \A k \in Rows(u) : ~Links(u, db[u][k], "categories", id)
  BY <1>2 DEF Links
<1>4. "categories" \in Tables
  BY DEF Tables
<1>5. QED
  BY <1>1, <1>3, <1>4, OneErased

LEMMA RawMaterialDeletes ==
  ASSUME TablesInv, NEW id, RawMaterialDelete(id)
  PROVE  TablesInv' /\ BookRowsKept
<1>1. Erases("materials", id) /\ id \in Rows("materials")
  BY DEF RawMaterialDelete, Erases
<1>2. /\ \A k \in Rows("movements") : db["movements"][k].raw_material # id
      /\ \A k \in Rows("items") : db["items"][k].raw_material # id
  BY DEF RawMaterialDelete, MovementsOf
<1>3. \A u \in Tables : \A k \in Rows(u) : ~Links(u, db[u][k], "materials", id)
  BY <1>2 DEF Links
<1>4. "materials" \in Tables
  BY DEF Tables
<1>5. QED
  BY <1>1, <1>3, <1>4, OneErased

LEMMA ItemDeletes ==
  ASSUME TablesInv, NEW id, ItemDelete(id)
  PROVE  TablesInv' /\ BookRowsKept
<1>1. Erases("items", id) /\ id \in Rows("items")
  BY DEF ItemDelete, Erases
<1>2. \A u \in Tables : \A k \in Rows(u) : ~Links(u, db[u][k], "items", id)
  BY DEF Links
<1>3. "items" \in Tables
  BY DEF Tables
<1>4. QED
  BY <1>1, <1>2, <1>3, OneErased

LEMMA PurchaseOrderDeletes ==
  ASSUME TablesInv, NEW o, PurchaseOrderDelete(o)
  PROVE  TablesInv' /\ BookRowsKept
<1> DEFINE gone == {i \in Rows("items") : db["items"][i].purchase_order = o}
           orders == [db["orders"] EXCEPT ![o] = None]
           items == Without("items", gone)
<1>1. o \in Rows("orders") /\ RowsTyped /\ {"orders", "items"} \subseteq Tables
  BY DEF PurchaseOrderDelete, TablesInv, Tables
<1>2. /\ orders \in Seq(AnyRow) /\ Len(orders) = Len(db["orders"])
      /\ \A k \in 1..Len(db["orders"]) : orders[k] = IF k = o THEN None ELSE db["orders"][k]
  BY <1>1, ErasedRow
<1>3. /\ items \in Seq(AnyRow) /\ Len(items) = Len(db["items"])
      /\ \A k \in 1..Len(db["items"]) : items[k] = IF k \in gone THEN None ELSE db["items"][k]
  BY <1>1, WithoutRows
<1>4. db' = [db EXCEPT !["orders"] = orders, !["items"] = items]
  BY DEF PurchaseOrderDelete
<1>5. \A i \in Rows("items") : i \in gone <=> db["items"][i].purchase_order = o
  OBVIOUS
<1> HIDE DEF orders, items, gone
<1>6. \A u \in Tables : db'[u] = IF u = "orders" THEN orders
                                 ELSE IF u = "items" THEN items ELSE db[u]
  BY <1>1, <1>4 DEF RowsTyped
<1>7. db' \in [Tables -> Seq(AnyRow)]
  BY <1>1, <1>2, <1>3, <1>4 DEF RowsTyped
<1>8. /\ \A u \in Tables : Len(db'[u]) = Len(db[u])
      /\ \A u \in Tables : \A k \in 1..Len(db[u]) : db'[u][k] \in {db[u][k], None}
      /\ db'["movements"] = db["movements"]
  BY <1>2, <1>3, <1>6 DEF Tables
<1>9. /\ \A u \in Tables \ {"orders", "items"} : \A m \in Rows(u) : db'[u][m] # None
      /\ \A m \in Rows("orders") : m # o => db'["orders"][m] # None
      /\ \A i \in Rows("items") : db["items"][i].purchase_order = o => db'["items"][i] = None
  BY <1>1, <1>2, <1>3, <1>5, <1>6, TableKeys DEF Rows
<1>10. \A t, u \in Tables : \A k \in Rows(t), m \in Rows(u) :
         Links(t, db[t][k], u, m) /\ db'[t][k] # None => db'[u][m] # None
  BY <1>9 DEF Links
<1>11. QED
  BY <1>7, <1>8, <1>10, ShrunkTables

\* The movements of a supplier who goes stay without him.
LEMMA SupplierDeletes ==
  ASSUME TablesInv, NEW id, SupplierDelete(id)
  PROVE  TablesInv' /\ BookRowsKept
<1> DEFINE old == db["movements"]
           suppliers == [db["suppliers"] EXCEPT ![id] = None]
           movements == [k \in DOMAIN old |->
                           IF old[k].supplier = id THEN [old[k] EXCEPT !.supplier = None]
                                                   ELSE old[k]]
<1>1. id \in Rows("suppliers") /\ RowsTyped /\ {"suppliers", "movements"} \subseteq Tables
  BY DEF SupplierDelete, TablesInv, Tables
<1>2. /\ suppliers \in Seq(AnyRow) /\ Len(suppliers) = Len(db["suppliers"])
      /\ \A k \in 1..Len(db["suppliers"]) : suppliers[k] = IF k = id THEN None
                                                             ELSE db["suppliers"][k]
  BY <1>1, ErasedRow
<1>3. /\ DOMAIN old = 1..Len(old) /\ Len(old) \in Nat /\ Rows("movements") = 1..Len(old)
      /\ \A k \in 1..Len(old) : old[k] \in MovementRow
  BY <1>1, TableKeys DEF TablesInv, MovementsKept, RowsTyped, RowTypes
<1>4. \A k \in 1..Len(old) : /\ movements[k] \in MovementRow
                              /\ movements[k].item = old[k].item
                              /\ movements[k].quantity = old[k].quantity
                              /\ movements[k].raw_material = old[k].raw_material
                              /\ \/ movements[k].supplier = None
                                 \/ /\ movements[k].supplier = old[k].supplier
                                    /\ movements[k].supplier # id
  BY <1>3 DEF MovementRow
<1>5. MovementRow \subseteq AnyRow /\ None \notin MovementRow
  BY <1>1, RowsAreAny, NoneIsNoRow DEF RowTypes
<1>6. movements \in Seq(AnyRow) /\ Len(movements) = Len(old)
  <2>1. movements \in [1..Len(old) -> AnyRow]
    BY <1>3, <1>4, <1>5
  <2>2. QED
    BY <1>3, <2>1, SeqOf
<1>7. db' = [db EXCEPT !["suppliers"] = suppliers, !["movements"] = movements]
  BY DEF SupplierDelete
<1>8. \A k \in Rows("orders") : db["orders"][k].supplier # id
  BY DEF SupplierDelete
<1> HIDE DEF suppliers, movements, old
<1>9. \A u \in Tables : db'[u] = IF u = "suppliers" THEN suppliers
                                 ELSE IF u = "movements" THEN movements ELSE db[u]
  BY <1>1, <1>7 DEF RowsTyped
<1>10. db' \in [Tables -> Seq(AnyRow)]
  BY <1>1, <1>2, <1>6, <1>7 DEF RowsTyped
<1>11. \A u \in Tables : Len(db'[u]) = Len(db[u])
  BY <1>2, <1>6, <1>9 DEF old
<1>12. /\ Rows("movements")' = Rows("movements")
       /\ \A k \in Rows("movements") :
            /\ db'["movements"][k] \in MovementRow
            /\ db'["movements"][k].item = db["movements"][k].item
            /\ db'["movements"][k].quantity = db["movements"][k].quantity
            /\ db'["movements"][k].raw_material = db["movements"][k].raw_material
            /\ \/ db'["movements"][k].supplier = None
               \/ /\ db'["movements"][k].supplier = db["movements"][k].supplier
                  /\ db'["movements"][k].supplier # id
  <2>1. DOMAIN movements = 1..Len(old)
    BY <1>6, LenProperties
  <2>2. db'["movements"] = movements
    BY <1>1, <1>9
  <2>3. \A k \in 1..Len(old) : movements[k] # None
    BY <1>4, <1>5
  <2>4. Rows("movements")' = 1..Len(old)
    BY <2>1, <2>2, <2>3 DEF Rows
  <2>5. QED
    BY <1>3, <1>4, <2>2, <2>4 DEF old
<1>13. /\ Rows("suppliers")' = Rows("suppliers") \ {id}
       /\ \A k \in Rows("suppliers")' : db'["suppliers"][k] = db["suppliers"][k]
  <2>1. DOMAIN suppliers = 1..Len(db["suppliers"]) /\ DOMAIN db["suppliers"] = 1..Len(db["suppliers"])
    BY <1>1, <1>2, LenProperties, TableKeys
  <2>2. QED
    BY <1>1, <1>2, <1>9, <2>1 DEF Rows
<1>14. \A u \in Tables \ {"suppliers", "movements"} : Rows(u)' = Rows(u) /\ db'[u] = db[u]
  BY <1>9 DEF Rows
<1>15. RowsTyped'
  <2> SUFFICES ASSUME NEW u \in Tables, NEW k \in Rows(u)' PROVE db'[u][k] \in RowTypes[u]
    BY <1>10 DEF RowsTyped
  <2>1. CASE u = "movements"
    BY <1>12, <2>1 DEF RowTypes
  <2>2. CASE u # "movements"
    BY <1>1, <1>13, <1>14, <2>2 DEF RowsTyped
  <2>3. QED
    BY <2>1, <2>2
<1>16. RefsExist'
  <2> SUFFICES ASSUME NEW t \in Tables, NEW k \in Rows(t)', NEW u \in Tables, NEW m,
                      Links(t, db'[t][k], u, m)
               PROVE  m \in Rows(u)'
    BY DEF RefsExist
  <2>1. CASE t = "movements"
    <3>0. k \in Rows("movements")
      BY <1>12, <2>1
    <3>1. Links(t, db[t][k], u, m)
      BY <1>12, <2>1, <3>0 DEF Links
    <3>2. u = "suppliers" => m # id
      BY <1>12, <2>1, <3>0 DEF Links
    <3>3. u # "movements"
      BY DEF Links
    <3>4. m \in Rows(u)
      BY <1>12, <2>1, <3>1 DEF TablesInv, RefsExist
    <3>5. QED
      BY <1>13, <1>14, <3>2, <3>3, <3>4
  <2>2. CASE t # "movements"
    <3>1. k \in Rows(t) /\ db'[t][k] = db[t][k]
      BY <1>13, <1>14, <2>2
    <3>2. m \in Rows(u)
      BY <3>1 DEF TablesInv, RefsExist
    <3>3. u # "movements" /\ (u = "suppliers" => m # id)
      BY <1>8, <2>2, <3>1 DEF Links
    <3>4. QED
      BY <1>13, <1>14, <3>2, <3>3
  <2>3. QED
    BY <2>1, <2>2
<1>17. MovementsKept'
  BY <1>1, <1>3, <1>11, <1>12 DEF MovementsKept, old
<1>18. BookRowsKept
  <2>1. \A u \in Tables : Len(db[u]) \in Nat
    BY <1>1, TableKeys
  <2>2. {"orders", "items"} \subseteq Tables \ {"suppliers", "movements"}
    BY DEF Tables
  <2>3. \A u \in Tables : Len(db'[u]) >= Len(db[u])
    BY <1>11, <2>1
  <2>4. QED
    BY <1>12, <1>14, <2>2, <2>3 DEF BookRowsKept
<1>19. QED
  BY <1>15, <1>16, <1>17, <1>18 DEF TablesInv

-----------------------------------------------------------------------------
(* The desk *)

Form == [table : Tables, id : Nat \cup {None}, row : AnyRow, overtaken : BOOLEAN]

\* A validated form can be saved in a table that has ever had n rows: a new
\* movement was made for no item, a new item has received nothing.
Fits(f, n) ==
  /\ f.row \in RowTypes[f.table]
  /\ f.id = None \/ f.id \in 1..n
  /\ f.table = "movements" => f.id = None /\ f.row.item = None
  /\ f.table = "items" => f.id = None /\ f.row.received_quantity = 0

DeskTyped ==
  /\ desk \in [Requests -> Form \cup {None}]
  /\ \A r \in Requests : desk[r] # None => Fits(desk[r], Len(db[desk[r].table]))

SameForm(new, old) == new.table = old.table /\ new.id = old.id /\ new.row = old.row

\* Forms stay good while tables only grow.
LEMMA DeskKept ==
  ASSUME RowsTyped, RowsTyped', DeskTyped,
         \A u \in Tables : Len(db'[u]) >= Len(db[u]),
         desk' \in [Requests -> Form \cup {None}],
         \A q \in Requests : desk'[q] # None => desk[q] # None /\ SameForm(desk'[q], desk[q])
  PROVE  DeskTyped'
<1> SUFFICES ASSUME NEW r \in Requests, desk'[r] # None
             PROVE  Fits(desk'[r], Len(db'[desk'[r].table]))
  BY DEF DeskTyped
<1>1. desk[r] # None /\ SameForm(desk'[r], desk[r]) /\ desk[r] \in Form
  BY DEF DeskTyped
<1> DEFINE t == desk[r].table
<1>2. t \in Tables /\ desk'[r].table = t
  BY <1>1 DEF Form, SameForm
<1>3. Fits(desk[r], Len(db[t]))
  BY <1>1 DEF DeskTyped
<1>4. Len(db[t]) \in Nat /\ Len(db'[t]) \in Nat /\ Len(db'[t]) >= Len(db[t])
  <2>1. Len(db[t]) \in Nat
    BY <1>2, TableKeys
  <2>2. db'[t] \in Seq(AnyRow)
    BY <1>2 DEF RowsTyped
  <2>3. QED
    BY <1>2, <2>1, <2>2, LenProperties
<1> HIDE DEF t
<1>5. QED
  BY <1>1, <1>2, <1>3, <1>4 DEF Fits, SameForm

\* A task that draws material marks the forms it overtakes and changes no
\* other part of them.
LEMMA OvertakenForms ==
  ASSUME DeskTyped, NEW r, NEW m
  PROVE  /\ Overtaken(r, m) \in [Requests -> Form \cup {None}]
         /\ \A q \in Requests : Overtaken(r, m)[q] # None =>
               desk[q] # None /\ SameForm(Overtaken(r, m)[q], desk[q])
<1> SUFFICES ASSUME NEW q \in Requests
             PROVE  /\ Overtaken(r, m)[q] \in Form \cup {None}
                    /\ Overtaken(r, m)[q] # None =>
                         desk[q] # None /\ SameForm(Overtaken(r, m)[q], desk[q])
  BY DEF Overtaken
<1>1. desk[q] \in Form \cup {None}
  BY DEF DeskTyped
<1>2. Overtaken(r, m)[q] = desk[q] \/
      (desk[q] # None /\ Overtaken(r, m)[q] = [desk[q] EXCEPT !.overtaken = TRUE])
  BY Zenon DEF Overtaken
<1>3. ASSUME desk[q] # None
      PROVE  LET f == [desk[q] EXCEPT !.overtaken = TRUE] IN f \in Form /\ SameForm(f, desk[q])
  <2>1. desk[q] \in Form
    BY <1>1, <1>3
  <2>2. QED
    BY <2>1 DEF Form, SameForm
<1>4. SameForm(desk[q], desk[q])
  BY DEF SameForm
<1>5. QED
  BY <1>1, <1>2, <1>3, <1>4

\* The step that puts a valid form on the desk.
LEMMA FormTaken ==
  ASSUME RowsTyped, DeskTyped, NEW r \in Requests, NEW t \in Tables, NEW id, NEW row \in RowTypes[t],
         Validated(r, t, id, row),
         t = "movements" => id = None /\ row.item = None,
         t = "items" => id = None /\ row.received_quantity = 0
  PROVE  DeskTyped'
<1> DEFINE f == [table |-> t, id |-> id, row |-> row, overtaken |-> FALSE]
<1>1. db' = db /\ desk' = [desk EXCEPT ![r] = f] /\ (id # None => id \in Rows(t))
  BY DEF Validated
<1>2. id = None \/ (id \in 1..Len(db[t]) /\ id \in Nat)
  <2>1. Rows(t) \subseteq 1..Len(db[t]) /\ Rows(t) \subseteq Nat
    BY TableKeys
  <2>2. QED
    BY <1>1, <2>1
<1>3. f \in Form
  BY <1>2, RowsAreAny DEF Form
<1>4. f.table = t /\ Fits(f, Len(db[t]))
  BY <1>2 DEF Fits
<1> HIDE DEF f
<1>5. desk' \in [Requests -> Form \cup {None}]
  BY <1>1, <1>3 DEF DeskTyped
<1>6. \A q \in Requests : desk'[q] = IF q = r THEN f ELSE desk[q]
  BY <1>1 DEF DeskTyped
<1>7. \A q \in Requests : desk'[q] # None => Fits(desk'[q], Len(db'[desk'[q].table]))
  BY <1>1, <1>4, <1>6 DEF DeskTyped
<1>8. QED
  BY <1>5, <1>7 DEF DeskTyped

-----------------------------------------------------------------------------
(* The books *)

PastTyped == past \in [byHand : SUBSET Nat, late : SUBSET Nat, drawn : SUBSET Nat, raced : SUBSET Nat]

\* What was booked was booked for an item that was there once.
BookingsRefer ==
  \A k \in Rows("movements") : \/ db["movements"][k].item = None
                               \/ db["movements"][k].item \in 1..Len(db["items"])

BooksInv == BookingsRefer /\ ReceivedOnce /\ ReceivedIsInStock

LEMMA BooksKept ==
  ASSUME TablesInv, TablesInv', BookRowsKept, BooksInv, past' = past
  PROVE  BooksInv'
<1>1. /\ {"movements", "orders", "items"} \subseteq Tables
      /\ RowsTyped /\ RefsExist'
  BY DEF TablesInv, Tables
<1>2. /\ Rows("movements")' = Rows("movements")
      /\ \A k \in Rows("movements") : /\ db'["movements"][k].item = db["movements"][k].item
                                      /\ db'["movements"][k].quantity = db["movements"][k].quantity
  BY DEF BookRowsKept
<1>3. /\ Rows("items")' \subseteq Rows("items")
      /\ \A i \in Rows("items")' : db'["items"][i] = db["items"][i]
      /\ \A o \in Rows("orders")' : db'["orders"][o] = db["orders"][o]
  BY DEF BookRowsKept
<1>4. \A i \in Rows("items")' : db'["items"][i].purchase_order \in Rows("orders")'
  BY <1>1 DEF RefsExist, Links
<1>5. \A i : BookedFor(i)' = BookedFor(i)
  BY <1>2 DEF BookedFor
<1>6. ReceivedOnce'
  <2> SUFFICES ASSUME NEW i \in Rows("items")'
               PROVE  \/ db'["items"][i].received_quantity = 0 /\ BookedFor(i)' = {}
                      \/ /\ db'["items"][i].received_quantity = db'["items"][i].quantity
                         /\ \E k \in BookedFor(i)' :
                              /\ BookedFor(i)' = {k}
                              /\ db'["movements"][k].quantity = db'["items"][i].quantity
    BY DEF ReceivedOnce
  <2>1. i \in Rows("items") /\ db'["items"][i] = db["items"][i] /\ BookedFor(i)' = BookedFor(i)
    BY <1>3, <1>5
  <2>2. \/ db["items"][i].received_quantity = 0 /\ BookedFor(i) = {}
        \/ /\ db["items"][i].received_quantity = db["items"][i].quantity
           /\ \E k \in BookedFor(i) :
                /\ BookedFor(i) = {k}
                /\ db["movements"][k].quantity = db["items"][i].quantity
    BY <2>1 DEF BooksInv, ReceivedOnce
  <2>3. \A k \in BookedFor(i) : db'["movements"][k].quantity = db["movements"][k].quantity
    BY <1>2 DEF BookedFor
  <2>4. QED
    BY <2>1, <2>2, <2>3
<1>7. ReceivedIsInStock'
  BY <1>3, <1>4 DEF BooksInv, ReceivedIsInStock
<1>8. BookingsRefer'
  <2>1. Len(db["items"]) \in Nat /\ Len(db'["items"]) \in Nat /\ Len(db'["items"]) >= Len(db["items"])
    <3>1. Len(db["items"]) \in Nat
      BY <1>1, TableKeys
    <3>2. db'["items"] \in Seq(AnyRow)
      BY <1>1 DEF TablesInv, RowsTyped
    <3>3. QED
      BY <1>1, <3>1, <3>2, LenProperties DEF BookRowsKept
  <2>2. 1..Len(db["items"]) \subseteq 1..Len(db'["items"])
    BY <2>1
  <2>3. QED
    BY <1>2, <2>2 DEF BooksInv, BookingsRefer
<1>9. QED
  BY <1>6, <1>7, <1>8 DEF BooksInv

\* Saving a row keeps the tables sound.
LEMMA SaveKeepsTables ==
  ASSUME TablesInv, NEW t \in Tables, NEW row \in RowTypes[t], NEW id,
         id = None \/ id \in 1..Len(db[t]), Refers(t, row), Saves(t, id, row)
  PROVE  TablesInv'
<1>1. RowsTyped /\ RefsExist /\ RowsTyped' /\ RefsExist'
  BY SavedTables, SavedRefs DEF TablesInv
<1>2. CASE t # "movements"
  <2>1. "movements" \in Tables
    BY DEF Tables
  <2>2. db'["movements"] = db["movements"] /\ Rows("movements")' = Rows("movements")
    BY <1>1, <1>2, <2>1, SavedTables
  <2>3. QED
    BY <1>1, <2>2 DEF TablesInv, MovementsKept
<1>3. CASE t = "movements"
  <2>1. Rows("movements")' = Rows("movements") \cup {KeyOf(db["movements"], id)}
    BY <1>1, <1>3, SavedTables
  <2>2. Rows("movements") = 1..Len(db["movements"])
    BY DEF TablesInv, MovementsKept
  <2>3. /\ row \in AnyRow /\ db["movements"] \in Seq(AnyRow)
        /\ id = None \/ id \in 1..Len(db["movements"])
    BY <1>1, <1>3, RowsAreAny, TableKeys
  <2> DEFINE new == Put(db["movements"], id, row)
             n == KeyOf(db["movements"], id)
  <2>4. /\ new \in Seq(AnyRow)
        /\ Len(new) >= Len(db["movements"])
        /\ n \in 1..Len(new)
        /\ \A k \in 1..Len(new) :
             /\ new[k] = IF k = n THEN row ELSE db["movements"][k]
             /\ k # n => k \in 1..Len(db["movements"])
        /\ \A k \in 1..Len(db["movements"]) : k \in 1..Len(new)
    BY <2>3, PutProperties
  <2>5. db'["movements"] = new
    BY <1>1, <1>3 DEF Saves, RowsTyped
  <2> HIDE DEF new, n
  <2>6. 1..Len(db'["movements"]) = 1..Len(db["movements"]) \cup {n}
    BY <2>4, <2>5
  <2>7. QED
    BY <1>1, <2>1, <2>2, <2>6 DEF TablesInv, MovementsKept, n
<1>4. QED
  BY <1>2, <1>3

\* Suppliers, categories and materials are in no book.
LEMMA OtherSaves ==
  ASSUME TablesInv, BooksInv, NEW t \in {"suppliers", "categories", "materials"},
         NEW row \in RowTypes[t], NEW id,
         id = None \/ id \in 1..Len(db[t]), Refers(t, row), Saves(t, id, row), past' = past
  PROVE  BooksInv'
<1>1. t \in Tables /\ RowsTyped /\ {"movements", "orders", "items"} \subseteq Tables \ {t}
  BY DEF TablesInv, Tables
<1>2. TablesInv'
  BY <1>1, SaveKeepsTables
<1>3. /\ \A u \in Tables : Len(db'[u]) >= Len(db[u])
      /\ \A u \in Tables : u # t => db'[u] = db[u] /\ Rows(u)' = Rows(u)
  BY <1>1, SavedTables
<1>4. BookRowsKept
  BY <1>1, <1>3 DEF BookRowsKept
<1>5. QED
  BY <1>2, <1>4, BooksKept

\* Saving an order: one that a form makes received is remembered.
LEMMA OrderSaves ==
  ASSUME TablesInv, BooksInv, PastTyped, NEW row \in OrderRow, NEW id,
         id = None \/ id \in 1..Len(db["orders"]),
         Refers("orders", row), Saves("orders", id, row),
         NEW f, f.table = "orders", f.id = id, f.row = row, past' = Recorded(f)
  PROVE  BooksInv' /\ PastTyped'
<1> DEFINE n == KeyOf(db["orders"], id)
<1>1. /\ {"movements", "orders", "items"} \subseteq Tables
      /\ RowsTyped /\ RefsExist /\ row \in RowTypes["orders"]
  BY DEF TablesInv, Tables, RowTypes
<1>2. /\ \A u \in Tables : u # "orders" => db'[u] = db[u] /\ Rows(u)' = Rows(u)
      /\ n \in Nat
      /\ Rows("orders")' = Rows("orders") \cup {n}
      /\ db'["orders"][n] = row
      /\ \A k \in Rows("orders") : k # n => db'["orders"][k] = db["orders"][k]
  BY <1>1, SavedTables
<1>3. /\ db'["movements"] = db["movements"] /\ Rows("movements")' = Rows("movements")
      /\ db'["items"] = db["items"] /\ Rows("items")' = Rows("items")
  BY <1>1, <1>2
<1>4. past' = [past EXCEPT !.byHand =
                 IF row.status # "received" THEN @ \ {n}
                 ELSE IF n \in Rows("orders") /\ db["orders"][n].status = "received" THEN @
                 ELSE @ \cup {n}]
  BY Zenon DEF Recorded, KeyOf
<1> HIDE DEF n
<1>5. PastTyped'
  BY <1>2, <1>4 DEF PastTyped
<1>6. past'.late = past.late
  BY <1>4 DEF PastTyped
<1>7. \A o : o # n => (o \in past'.byHand <=> o \in past.byHand)
  BY <1>4 DEF PastTyped
<1>8. row.status = "received" /\ n \notin past'.byHand =>
        n \in Rows("orders") /\ db["orders"][n].status = "received" /\ n \notin past.byHand
  BY <1>4 DEF PastTyped
<1>9. BookingsRefer' /\ ReceivedOnce'
  BY <1>3 DEF BooksInv, BookingsRefer, ReceivedOnce, BookedFor
<1>10. ReceivedIsInStock'
  <2> SUFFICES ASSUME NEW i \in Rows("items")',
                      db'["orders"][db'["items"][i].purchase_order].status = "received",
                      db'["items"][i].purchase_order \notin past'.byHand,
                      i \notin past'.late, db'["items"][i].quantity > 0
               PROVE  db'["items"][i].received_quantity = db'["items"][i].quantity
    BY DEF ReceivedIsInStock
  <2> DEFINE o == db["items"][i].purchase_order
  <2>1. i \in Rows("items") /\ o \in Rows("orders")
    BY <1>1, <1>3 DEF RefsExist, Links
  <2>2. db["orders"][o].status = "received" /\ o \notin past.byHand
    BY <1>2, <1>3, <1>7, <1>8, <2>1
  <2>3. i \notin past.late /\ db["items"][i].quantity > 0
    BY <1>3, <1>6
  <2>4. QED
    BY <1>3, <2>1, <2>2, <2>3 DEF BooksInv, ReceivedIsInStock
<1>11. QED
  BY <1>5, <1>9, <1>10 DEF BooksInv

\* A new item has received nothing and nothing was booked for it.
LEMMA ItemSaves ==
  ASSUME TablesInv, BooksInv, PastTyped, NEW row \in ItemRow, row.received_quantity = 0,
         Refers("items", row), Saves("items", None, row),
         NEW f, f.table = "items", f.id = None, f.row = row, past' = Recorded(f)
  PROVE  BooksInv' /\ PastTyped'
<1> DEFINE n == KeyOf(db["items"], None)
<1>1. /\ {"movements", "orders", "items"} \subseteq Tables
      /\ RowsTyped /\ RefsExist /\ row \in RowTypes["items"]
  BY DEF TablesInv, Tables, RowTypes
<1>2. /\ \A u \in Tables : Len(db'[u]) >= Len(db[u])
      /\ \A u \in Tables : u # "items" => db'[u] = db[u] /\ Rows(u)' = Rows(u)
      /\ n \in Nat /\ n \in 1..Len(db'["items"])
      /\ Rows("items")' = Rows("items") \cup {n}
      /\ db'["items"][n] = row
      /\ \A k \in Rows("items") : k # n => db'["items"][k] = db["items"][k]
  BY <1>1, SavedTables
<1>3. /\ db'["movements"] = db["movements"] /\ Rows("movements")' = Rows("movements")
      /\ db'["orders"] = db["orders"]
  BY <1>1, <1>2
<1>4. Len(db["items"]) \in Nat /\ Rows("items") \subseteq 1..Len(db["items"])
  BY <1>1, TableKeys
<1>5. n = Len(db["items"]) + 1
  BY DEF KeyOf
<1>6. past' = [past EXCEPT !.late = IF db["orders"][row.purchase_order].status = "received"
                                    THEN @ \cup {n} ELSE @]
  BY Zenon DEF Recorded, KeyOf
<1> HIDE DEF n
<1>7. PastTyped'
  BY <1>2, <1>6 DEF PastTyped
<1>8. /\ past'.byHand = past.byHand /\ past.late \subseteq past'.late
      /\ db["orders"][row.purchase_order].status = "received" => n \in past'.late
  BY <1>6 DEF PastTyped
<1>9. n \notin Rows("items") /\ n \notin 1..Len(db["items"]) /\ n # None
  BY <1>2, <1>4, <1>5, NoneIsNoRow
<1>10. \A i : BookedFor(i)' = BookedFor(i)
  BY <1>3 DEF BookedFor
<1>11. BookedFor(n) = {}
  BY <1>9 DEF BookedFor, BooksInv, BookingsRefer
<1>12. ReceivedOnce'
  <2> SUFFICES ASSUME NEW i \in Rows("items")'
               PROVE  \/ db'["items"][i].received_quantity = 0 /\ BookedFor(i)' = {}
                      \/ /\ db'["items"][i].received_quantity = db'["items"][i].quantity
                         /\ \E k \in BookedFor(i)' :
                              /\ BookedFor(i)' = {k}
                              /\ db'["movements"][k].quantity = db'["items"][i].quantity
    BY DEF ReceivedOnce
  <2>1. CASE i = n
    BY <1>2, <1>10, <1>11, <2>1
  <2>2. CASE i # n
    <3>1. i \in Rows("items") /\ db'["items"][i] = db["items"][i] /\ BookedFor(i)' = BookedFor(i)
      BY <1>2, <1>10, <2>2
    <3>2. QED
      BY <1>3, <3>1 DEF BooksInv, ReceivedOnce
  <2>3. QED
    BY <2>1, <2>2
<1>13. ReceivedIsInStock'
  BY <1>2, <1>3, <1>8 DEF BooksInv, ReceivedIsInStock
<1>14. BookingsRefer'
  <2>1. 1..Len(db["items"]) \subseteq 1..Len(db'["items"])
    BY <1>2, <1>4, <1>5
  <2>2. QED
    BY <1>3, <2>1 DEF BooksInv, BookingsRefer
<1>15. QED
  BY <1>7, <1>12, <1>13, <1>14 DEF BooksInv

\* A movement that was made for no item.
LEMMA MovementSaves ==
  ASSUME TablesInv, BooksInv, NEW row \in MovementRow, row.item = None,
         Refers("movements", row), Saves("movements", None, row),
         past'.byHand = past.byHand, past'.late = past.late
  PROVE  BooksInv'
<1> DEFINE n == KeyOf(db["movements"], None)
<1>1. /\ {"movements", "orders", "items"} \subseteq Tables
      /\ RowsTyped /\ row \in RowTypes["movements"]
  BY DEF TablesInv, Tables, RowTypes
<1>2. /\ \A u \in Tables : u # "movements" => db'[u] = db[u] /\ Rows(u)' = Rows(u)
      /\ Rows("movements")' = Rows("movements") \cup {n}
      /\ db'["movements"][n] = row
      /\ \A k \in Rows("movements") : k # n => db'["movements"][k] = db["movements"][k]
  BY <1>1, SavedTables
<1>3. /\ db'["items"] = db["items"] /\ Rows("items")' = Rows("items")
      /\ db'["orders"] = db["orders"]
  BY <1>1, <1>2
<1>4. Rows("items") \subseteq Nat /\ n \notin Rows("movements")
  <2>1. Rows("items") \subseteq Nat /\ Rows("movements") \subseteq 1..Len(db["movements"])
        /\ Len(db["movements"]) \in Nat
    BY <1>1, TableKeys
  <2>2. n = Len(db["movements"]) + 1
    BY DEF KeyOf
  <2>3. QED
    BY <2>1, <2>2
<1> HIDE DEF n
<1>5. \A i \in Rows("items") : BookedFor(i)' = BookedFor(i)
  <2> SUFFICES ASSUME NEW i \in Rows("items"), NEW k PROVE k \in BookedFor(i)' <=> k \in BookedFor(i)
    OBVIOUS
  <2>1. i # None
    BY <1>4, NoneIsNoRow
  <2>2. QED
    BY <1>2, <1>4, <2>1 DEF BookedFor
<1>6. \A k \in Rows("movements") : db'["movements"][k] = db["movements"][k]
  BY <1>2, <1>4
<1>7. ReceivedOnce'
  <2> SUFFICES ASSUME NEW i \in Rows("items")
               PROVE  \/ db["items"][i].received_quantity = 0 /\ BookedFor(i)' = {}
                      \/ /\ db["items"][i].received_quantity = db["items"][i].quantity
                         /\ \E k \in BookedFor(i)' :
                              /\ BookedFor(i)' = {k}
                              /\ db'["movements"][k].quantity = db["items"][i].quantity
    BY <1>3 DEF ReceivedOnce
  <2>1. BookedFor(i) \subseteq Rows("movements")
    BY DEF BookedFor
  <2>2. QED
    BY <1>5, <1>6, <2>1 DEF BooksInv, ReceivedOnce
<1>8. ReceivedIsInStock'
  BY <1>3 DEF BooksInv, ReceivedIsInStock
<1>9. BookingsRefer'
  BY <1>2, <1>3 DEF BooksInv, BookingsRefer
<1>10. QED
  BY <1>7, <1>8, <1>9 DEF BooksInv

-----------------------------------------------------------------------------
(* The receipt *)

LEMMA OpenItems ==
  ASSUME TablesInv, NEW o
  PROVE  /\ Open(o) \subseteq Rows("items") /\ Open(o) \in SUBSET Int
         /\ IsFiniteSet(Open(o)) /\ Cardinality(Open(o)) \in Nat
<1>1. "items" \in Tables /\ RowsTyped
  BY DEF TablesInv, Tables
<1>2. Rows("items") \subseteq Nat /\ IsFiniteSet(Rows("items"))
  BY <1>1, TableKeys
<1>3. Open(o) \subseteq Rows("items")
  BY DEF Open
<1>4. QED
  BY <1>2, <1>3, FS_Subset, FS_CardinalityType

\* What is booked for an open item.
LEMMA Lines ==
  ASSUME TablesInv, NEW o \in Rows("orders"), NEW i \in Open(o)
  PROVE  /\ Line(o, i) \in MovementRow
         /\ Line(o, i).item = i /\ i \in Nat
         /\ Line(o, i).quantity = db["items"][i].quantity - db["items"][i].received_quantity
         /\ Line(o, i).raw_material = db["items"][i].raw_material
         /\ Line(o, i).supplier = db["orders"][o].supplier
<1>1. {"items", "orders"} \subseteq Tables /\ RowsTyped
  BY DEF TablesInv, Tables
<1>2. i \in Rows("items") /\ Rows("items") \subseteq Nat
  BY <1>1, TableKeys DEF Open
<1>3. db["items"][i] \in ItemRow /\ db["orders"][o] \in OrderRow
  BY <1>1, <1>2 DEF RowsTyped, RowTypes
<1> DEFINE m == db["items"][i].raw_material
           q == db["items"][i].quantity - db["items"][i].received_quantity
           s == db["orders"][o].supplier
<1>4. m \in Nat /\ q \in Int /\ s \in Nat
  BY <1>3 DEF ItemRow, OrderRow
<1>5. Line(o, i) = [raw_material |-> m, movement_type |-> "purchase", quantity |-> q,
                    supplier |-> s, item |-> i]
  BY DEF Line, Movement
<1> HIDE DEF m, q, s
<1>6. Line(o, i) \in MovementRow
  BY <1>2, <1>4, <1>5 DEF MovementRow
<1>7. /\ Line(o, i).item = i /\ Line(o, i).quantity = q
      /\ Line(o, i).raw_material = m /\ Line(o, i).supplier = s
  BY <1>5
<1>8. QED
  BY <1>2, <1>6, <1>7 DEF m, q, s

LEMMA EnteredLines ==
  ASSUME TablesInv, NEW o \in Rows("orders")
  PROVE  /\ Entered(o) \in Seq(AnyRow)
         /\ Len(Entered(o)) = Cardinality(Open(o))
         /\ \A k \in 1..Cardinality(Open(o)) :
              Entered(o)[k] = Line(o, Nth(Open(o), k)) /\ Nth(Open(o), k) \in Open(o)
<1>1. Open(o) \in SUBSET Int /\ IsFiniteSet(Open(o)) /\ Cardinality(Open(o)) \in Nat
  BY OpenItems
<1>2. \A k \in 1..Cardinality(Open(o)) : Nth(Open(o), k) \in Open(o)
  BY <1>1, NthKey
<1>3. \A i \in Open(o) : Line(o, i) \in AnyRow
  <2>1. MovementRow \subseteq AnyRow
    BY RowsAreAny DEF Tables, RowTypes
  <2>2. QED
    BY <2>1, Lines
<1>4. /\ Entered(o) \in [1..Cardinality(Open(o)) -> AnyRow]
      /\ \A k \in 1..Cardinality(Open(o)) : Entered(o)[k] = Line(o, Nth(Open(o), k))
  BY <1>2, <1>3 DEF Entered
<1>5. QED
  BY <1>1, <1>2, <1>4, SeqOf

LEMMA BookedRows ==
  ASSUME TablesInv, NEW o
  PROVE  /\ BookedItems(o) \in Seq(AnyRow)
         /\ Len(BookedItems(o)) = Len(db["items"])
         /\ \A i \in 1..Len(db["items"]) :
              i \notin Open(o) => BookedItems(o)[i] = db["items"][i]
         /\ \A i \in Open(o) :
              /\ BookedItems(o)[i] \in ItemRow
              /\ BookedItems(o)[i].received_quantity = db["items"][i].quantity
              /\ BookedItems(o)[i].quantity = db["items"][i].quantity
              /\ BookedItems(o)[i].purchase_order = db["items"][i].purchase_order
              /\ BookedItems(o)[i].raw_material = db["items"][i].raw_material
<1>1. "items" \in Tables /\ RowsTyped
  BY DEF TablesInv, Tables
<1>2. /\ db["items"] \in Seq(AnyRow) /\ Len(db["items"]) \in Nat
      /\ DOMAIN db["items"] = 1..Len(db["items"])
      /\ Rows("items") \subseteq 1..Len(db["items"])
  BY <1>1, TableKeys
<1>3. Open(o) \subseteq Rows("items")
  BY OpenItems
<1>4. \A i \in Rows("items") : db["items"][i] \in ItemRow
  BY <1>1 DEF RowsTyped, RowTypes
<1>5. \A i \in 1..Len(db["items"]) :
        BookedItems(o)[i] = IF i \in Open(o)
                            THEN [db["items"][i] EXCEPT !.received_quantity = db["items"][i].quantity]
                            ELSE db["items"][i]
  BY <1>2 DEF BookedItems
<1>6. ASSUME NEW row \in ItemRow
      PROVE  LET new == [row EXCEPT !.received_quantity = row.quantity]
             IN /\ new \in ItemRow /\ new.received_quantity = row.quantity
                /\ new.quantity = row.quantity /\ new.purchase_order = row.purchase_order
                /\ new.raw_material = row.raw_material
  BY DEF ItemRow
<1>7. \A i \in Open(o) :
        /\ BookedItems(o)[i] \in ItemRow
        /\ BookedItems(o)[i].received_quantity = db["items"][i].quantity
        /\ BookedItems(o)[i].quantity = db["items"][i].quantity
        /\ BookedItems(o)[i].purchase_order = db["items"][i].purchase_order
        /\ BookedItems(o)[i].raw_material = db["items"][i].raw_material
  <2> SUFFICES ASSUME NEW i \in Open(o)
               PROVE  /\ BookedItems(o)[i] \in ItemRow
                      /\ BookedItems(o)[i].received_quantity = db["items"][i].quantity
                      /\ BookedItems(o)[i].quantity = db["items"][i].quantity
                      /\ BookedItems(o)[i].purchase_order = db["items"][i].purchase_order
                      /\ BookedItems(o)[i].raw_material = db["items"][i].raw_material
    OBVIOUS
  <2>1. i \in 1..Len(db["items"]) /\ db["items"][i] \in ItemRow
    BY <1>2, <1>3, <1>4
  <2>2. BookedItems(o)[i] = [db["items"][i] EXCEPT !.received_quantity = db["items"][i].quantity]
    BY <1>5, <2>1
  <2>3. QED
    BY <1>6, <2>1, <2>2
<1>8. \A i \in 1..Len(db["items"]) : db["items"][i] \in AnyRow
  BY <1>2, ElementOfSeq
<1>9. ItemRow \subseteq AnyRow
  BY RowsAreAny DEF Tables, RowTypes
<1>10. \A i \in 1..Len(db["items"]) : BookedItems(o)[i] \in AnyRow
  BY <1>5, <1>7, <1>8, <1>9
<1>11. BookedItems(o) \in [1..Len(db["items"]) -> AnyRow]
  BY <1>2, <1>10 DEF BookedItems
<1>12. QED
  BY <1>2, <1>5, <1>7, <1>11, SeqOf

\* What a receipt does to the tables.
Receipt(o) ==
  /\ \A u \in Tables : Len(db'[u]) >= Len(db[u])
  /\ Rows("orders")' = Rows("orders")
  /\ \A p \in Rows("orders") : p # o => db'["orders"][p] = db["orders"][p]
  /\ Rows("items")' = Rows("items")
  /\ \A i \in Rows("items") \ Open(o) : db'["items"][i] = db["items"][i]
  /\ \A i \in Open(o) : /\ db'["items"][i].received_quantity = db["items"][i].quantity
                        /\ db'["items"][i].quantity = db["items"][i].quantity
                        /\ db'["items"][i].purchase_order = db["items"][i].purchase_order
  /\ Rows("movements")' =
       Rows("movements") \cup {Len(db["movements"]) + j : j \in 1..Cardinality(Open(o))}
  /\ \A k \in Rows("movements") : db'["movements"][k] = db["movements"][k]
  /\ \A j \in 1..Cardinality(Open(o)) :
       db'["movements"][Len(db["movements"]) + j] = Line(o, Nth(Open(o), j))

LEMMA Received ==
  ASSUME TablesInv, NEW o, PurchaseOrderReceive(o)
  PROVE  TablesInv' /\ Receipt(o)
<1> DEFINE old == db["movements"]
           c == Cardinality(Open(o))
           movements == old \o Entered(o)
           items == BookedItems(o)
           orders == [db["orders"] EXCEPT ![o] = [@ EXCEPT !.status = "received"]]
<1>1. /\ {"orders", "items", "movements"} \subseteq Tables
      /\ RowsTyped /\ RefsExist /\ MovementsKept /\ o \in Rows("orders")
  BY DEF TablesInv, Tables, PurchaseOrderReceive
<1>2. /\ Open(o) \subseteq Rows("items") /\ c \in Nat
      /\ old \in Seq(AnyRow) /\ Len(old) \in Nat /\ DOMAIN old = 1..Len(old)
      /\ Rows("movements") = 1..Len(old)
      /\ Rows("items") \subseteq 1..Len(db["items"]) /\ Len(db["items"]) \in Nat
      /\ Rows("orders") \subseteq 1..Len(db["orders"]) /\ Len(db["orders"]) \in Nat
  <2>1. Open(o) \subseteq Rows("items") /\ c \in Nat
    BY OpenItems
  <2>2. /\ old \in Seq(AnyRow) /\ Len(old) \in Nat /\ DOMAIN old = 1..Len(old)
        /\ Rows("items") \subseteq 1..Len(db["items"]) /\ Len(db["items"]) \in Nat
        /\ Rows("orders") \subseteq 1..Len(db["orders"]) /\ Len(db["orders"]) \in Nat
    BY <1>1, TableKeys
  <2>3. QED
    BY <1>1, <2>1, <2>2 DEF MovementsKept
<1>3. /\ Entered(o) \in Seq(AnyRow) /\ Len(Entered(o)) = c
      /\ \A j \in 1..c : Entered(o)[j] = Line(o, Nth(Open(o), j)) /\ Nth(Open(o), j) \in Open(o)
  BY <1>1, EnteredLines
<1>4. /\ items \in Seq(AnyRow)
      /\ Len(items) = Len(db["items"])
      /\ \A i \in 1..Len(db["items"]) : i \notin Open(o) => items[i] = db["items"][i]
      /\ \A i \in Open(o) : /\ items[i] \in ItemRow
                            /\ items[i].received_quantity = db["items"][i].quantity
                            /\ items[i].quantity = db["items"][i].quantity
                            /\ items[i].purchase_order = db["items"][i].purchase_order
                            /\ items[i].raw_material = db["items"][i].raw_material
  BY BookedRows
<1>5. db["orders"][o] \in OrderRow
  BY <1>1 DEF RowsTyped, RowTypes
<1>6. ASSUME NEW row \in OrderRow
      PROVE  LET new == [row EXCEPT !.status = "received"]
             IN new \in OrderRow /\ new.supplier = row.supplier
  BY DEF OrderRow
<1>7. OrderRow \subseteq AnyRow /\ ItemRow \subseteq AnyRow /\ MovementRow \subseteq AnyRow
  BY <1>1, RowsAreAny DEF RowTypes
<1>8. None \notin OrderRow /\ None \notin ItemRow /\ None \notin MovementRow
  BY <1>1, NoneIsNoRow DEF RowTypes
<1>9. /\ orders \in Seq(AnyRow) /\ Len(orders) = Len(db["orders"])
      /\ \A k \in 1..Len(db["orders"]) : k # o => orders[k] = db["orders"][k]
      /\ orders[o] \in OrderRow /\ orders[o].supplier = db["orders"][o].supplier
  <2> DEFINE row == [db["orders"][o] EXCEPT !.status = "received"]
  <2>1. row \in OrderRow /\ row.supplier = db["orders"][o].supplier
    BY <1>5, <1>6
  <2>2. orders = [db["orders"] EXCEPT ![o] = row]
    OBVIOUS
  <2> HIDE DEF row, orders
  <2>3. o \in 1..Len(db["orders"]) /\ db["orders"] \in Seq(AnyRow) /\ row \in AnyRow
    BY <1>1, <1>2, <1>7, <2>1, TableKeys
  <2>4. /\ [db["orders"] EXCEPT ![o] = row] \in Seq(AnyRow)
        /\ Len([db["orders"] EXCEPT ![o] = row]) = Len(db["orders"])
        /\ \A k \in 1..Len(db["orders"]) :
             [db["orders"] EXCEPT ![o] = row][k] = IF k = o THEN row ELSE db["orders"][k]
    BY <2>3, ExceptSeq
  <2>5. QED
    BY <2>1, <2>2, <2>3, <2>4
<1>10. /\ movements \in Seq(AnyRow) /\ Len(movements) = Len(old) + c
       /\ \A k \in 1..Len(old) : movements[k] = old[k]
       /\ \A j \in 1..c : movements[Len(old) + j] = Line(o, Nth(Open(o), j))
  <2>1. /\ movements \in Seq(AnyRow) /\ Len(movements) = Len(old) + Len(Entered(o))
        /\ \A k \in 1..Len(old) + Len(Entered(o)) :
             movements[k] = IF k <= Len(old) THEN old[k] ELSE Entered(o)[k - Len(old)]
    BY <1>2, <1>3, ConcatProperties
  <2> HIDE DEF movements, old, c
  <2>2. \A k \in 1..Len(old) : movements[k] = old[k]
    BY <1>2, <1>3, <2>1
  <2>3. \A j \in 1..c : movements[Len(old) + j] = Line(o, Nth(Open(o), j))
    <3> SUFFICES ASSUME NEW j \in 1..c PROVE movements[Len(old) + j] = Line(o, Nth(Open(o), j))
      OBVIOUS
    <3>1. /\ Len(old) + j \in 1..Len(old) + Len(Entered(o)) /\ ~(Len(old) + j <= Len(old))
          /\ (Len(old) + j) - Len(old) = j
      BY <1>2, <1>3
    <3>2. QED
      BY <1>3, <2>1, <3>1
  <2>4. QED
    BY <1>3, <2>1, <2>2, <2>3
<1>11. db' = [db EXCEPT !["movements"] = movements, !["items"] = items, !["orders"] = orders]
  BY DEF PurchaseOrderReceive
<1> HIDE DEF movements, items, orders, old, c
<1>12. /\ db'["movements"] = movements /\ db'["items"] = items /\ db'["orders"] = orders
       /\ \A u \in Tables \ {"movements", "items", "orders"} : db'[u] = db[u]
       /\ db' \in [Tables -> Seq(AnyRow)]
  BY <1>1, <1>4, <1>9, <1>10, <1>11 DEF RowsTyped
<1>13. \A u \in Tables : Len(db'[u]) >= Len(db[u])
  <2> SUFFICES ASSUME NEW u \in Tables PROVE Len(db'[u]) >= Len(db[u])
    OBVIOUS
  <2>1. Len(db[u]) \in Nat
    BY <1>1, TableKeys
  <2>2. CASE u = "movements"
    BY <1>2, <1>10, <1>12, <2>2 DEF old
  <2>3. CASE u = "items"
    BY <1>4, <1>12, <2>1, <2>3
  <2>4. CASE u = "orders"
    BY <1>9, <1>12, <2>1, <2>4
  <2>5. CASE u \notin {"movements", "items", "orders"}
    BY <1>12, <2>1, <2>5
  <2>6. QED
    BY <2>2, <2>3, <2>4, <2>5
<1>14. Rows("orders")' = Rows("orders")
  <2>1. DOMAIN orders = 1..Len(db["orders"]) /\ DOMAIN db["orders"] = 1..Len(db["orders"])
    BY <1>1, <1>9, LenProperties, TableKeys
  <2>2. QED
    BY <1>1, <1>8, <1>9, <1>12, <2>1 DEF Rows
<1>15. Rows("items")' = Rows("items")
  <2>1. DOMAIN items = 1..Len(db["items"]) /\ DOMAIN db["items"] = 1..Len(db["items"])
    BY <1>1, <1>4, LenProperties, TableKeys
  <2>2. QED
    BY <1>2, <1>4, <1>8, <1>12, <2>1 DEF Rows
<1>16. \A j \in 1..c : /\ Nth(Open(o), j) \in Open(o)
                       /\ movements[Len(old) + j] \in MovementRow
                       /\ movements[Len(old) + j] = Line(o, Nth(Open(o), j))
  BY <1>1, <1>3, <1>10, Lines
<1>17. /\ Rows("movements")' = Rows("movements") \cup {Len(old) + j : j \in 1..c}
       /\ Rows("movements")' = 1..(Len(old) + c)
  <2>1. DOMAIN movements = 1..(Len(old) + c)
    BY <1>10, LenProperties
  <2>2. \A k \in 1..Len(old) : movements[k] # None
    BY <1>2, <1>10 DEF Rows, old
  <2>3. \A k : k \in 1..(Len(old) + c) <=> k \in 1..Len(old) \/ \E j \in 1..c : k = Len(old) + j
    <3>1. ASSUME NEW k \in 1..(Len(old) + c), k \notin 1..Len(old)
          PROVE  \E j \in 1..c : k = Len(old) + j
      <4>1. k - Len(old) \in 1..c /\ k = Len(old) + (k - Len(old))
        BY <1>2, <3>1
      <4>2. QED
        BY <4>1
    <3>2. \A k \in 1..Len(old) : k \in 1..(Len(old) + c)
      BY <1>2
    <3>3. \A j \in 1..c : Len(old) + j \in 1..(Len(old) + c)
      BY <1>2
    <3>4. QED
      BY <3>1, <3>2, <3>3
  <2>4. \A k \in 1..(Len(old) + c) : movements[k] # None
    BY <1>8, <1>16, <2>2, <2>3
  <2>5. Rows("movements")' = 1..(Len(old) + c)
    BY <1>12, <2>1, <2>4 DEF Rows
  <2>6. QED
    BY <1>2, <2>3, <2>5
<1>18. Receipt(o)
  BY <1>2, <1>4, <1>9, <1>10, <1>12, <1>13, <1>14, <1>15, <1>17 DEF Receipt, old, c
<1>19. MovementsKept'
  BY <1>10, <1>12, <1>17 DEF MovementsKept
<1>20. RowsTyped'
  <2> SUFFICES ASSUME NEW u \in Tables, NEW k \in Rows(u)' PROVE db'[u][k] \in RowTypes[u]
    BY <1>12 DEF RowsTyped
  <2>1. CASE u = "movements"
    <3>1. CASE k \in Rows("movements")
      BY <1>1, <1>2, <1>10, <1>12, <2>1, <3>1 DEF RowsTyped, old
    <3>2. CASE k \notin Rows("movements")
      BY <1>12, <1>16, <1>17, <2>1, <3>2 DEF RowTypes
    <3>3. QED
      BY <3>1, <3>2
  <2>2. CASE u = "items"
    BY <1>1, <1>2, <1>4, <1>12, <1>15, <2>2 DEF RowsTyped, RowTypes
  <2>3. CASE u = "orders"
    BY <1>1, <1>2, <1>9, <1>12, <1>14, <2>3 DEF RowsTyped, RowTypes
  <2>4. CASE u \notin {"movements", "items", "orders"}
    BY <1>1, <1>12, <2>4 DEF RowsTyped, Rows
  <2>5. QED
    BY <2>1, <2>2, <2>3, <2>4
<1>21. \A u \in Tables : Rows(u) \subseteq Rows(u)'
  BY <1>12, <1>14, <1>15, <1>17 DEF Rows
<1>22. RefsExist'
  <2> SUFFICES ASSUME NEW t \in Tables, NEW k \in Rows(t)', NEW u \in Tables, NEW m,
                      Links(t, db'[t][k], u, m)
               PROVE  m \in Rows(u)
    BY <1>21 DEF RefsExist
  <2>1. CASE t = "movements" /\ k \notin Rows("movements")
    <3>1. PICK j \in 1..c : k = Len(old) + j
      BY <1>17, <2>1
    <3> DEFINE i == Nth(Open(o), j)
    <3>2. i \in Open(o) /\ db'[t][k] = Line(o, i)
      BY <1>12, <1>16, <2>1, <3>1
    <3> HIDE DEF i
    <3>3. /\ Line(o, i).raw_material = db["items"][i].raw_material
          /\ Line(o, i).supplier = db["orders"][o].supplier
          /\ i \in Rows("items")
      BY <1>1, <1>2, <3>2, Lines
    <3>4. CASE u = "materials"
      <4>1. m = db["items"][i].raw_material
        BY <2>1, <3>2, <3>3, <3>4 DEF Links
      <4>2. Links("items", db["items"][i], u, m)
        BY <3>4, <4>1 DEF Links
      <4>3. QED
        BY <1>1, <3>3, <4>2 DEF RefsExist
    <3>5. CASE u = "suppliers"
      <4>1. m = db["orders"][o].supplier
        BY <2>1, <3>2, <3>3, <3>5 DEF Links
      <4>2. Links("orders", db["orders"][o], u, m)
        BY <3>5, <4>1 DEF Links
      <4>3. QED
        BY <1>1, <4>2 DEF RefsExist
    <3>6. QED
      BY <2>1, <3>4, <3>5 DEF Links
  <2>2. CASE ~(t = "movements" /\ k \notin Rows("movements"))
    <3>1. k \in Rows(t)
      BY <1>12, <1>14, <1>15, <2>2 DEF Rows
    <3>2. Links(t, db[t][k], u, m)
      <4>1. CASE t = "movements"
        BY <1>2, <1>10, <1>12, <3>1, <4>1 DEF old
      <4>2. CASE t = "items" /\ k \in Open(o)
        <5>1. /\ db'[t][k].purchase_order = db[t][k].purchase_order
              /\ db'[t][k].raw_material = db[t][k].raw_material
          BY <1>4, <1>12, <4>2
        <5>2. QED
          BY <4>2, <5>1 DEF Links
      <4>3. CASE t = "orders" /\ k = o
        BY <1>9, <1>12, <4>3 DEF Links
      <4>4. CASE t # "movements" /\ ~(t = "items" /\ k \in Open(o)) /\ ~(t = "orders" /\ k = o)
        <5>1. db'[t][k] = db[t][k]
          BY <1>2, <1>4, <1>9, <1>12, <3>1, <4>4
        <5>2. QED
          BY <5>1
      <4>5. QED
        BY <4>1, <4>2, <4>3, <4>4
    <3>3. QED
      BY <1>1, <3>1, <3>2 DEF RefsExist
  <2>3. QED
    BY <2>1, <2>2
<1>23. QED
  BY <1>18, <1>19, <1>20, <1>22 DEF TablesInv

\* Open items had received nothing, and get one movement each.
LEMMA ReceivedBooks ==
  ASSUME TablesInv, BooksInv, PastTyped, NEW o, PurchaseOrderReceive(o)
  PROVE  BooksInv' /\ PastTyped'
<1> DEFINE L == Len(db["movements"])
           c == Cardinality(Open(o))
<1>1. /\ {"orders", "items", "movements"} \subseteq Tables
      /\ RowsTyped /\ RefsExist /\ MovementsKept /\ o \in Rows("orders")
      /\ Receipt(o) /\ TablesInv'
  BY Received DEF TablesInv, Tables, PurchaseOrderReceive
<1>2. /\ L \in Nat /\ Rows("movements") = 1..L
      /\ Rows("items") \subseteq Nat /\ Rows("items") \subseteq 1..Len(db["items"])
      /\ Len(db["items"]) \in Nat
  BY <1>1, TableKeys DEF MovementsKept
<1>3. /\ Open(o) \subseteq Rows("items") /\ Open(o) \in SUBSET Int
      /\ IsFiniteSet(Open(o)) /\ c \in Nat
  BY OpenItems
<1>4. /\ \A j \in 1..c : Nth(Open(o), j) \in Open(o) /\ Rank(Open(o), Nth(Open(o), j)) = j
      /\ \A i \in Open(o) : Rank(Open(o), i) \in 1..c /\ Nth(Open(o), Rank(Open(o), i)) = i
  BY <1>3, NthKey, RankBounds
<1> HIDE DEF L, c
<1>5. /\ Rows("movements")' = Rows("movements") \cup {L + j : j \in 1..c}
      /\ \A k \in Rows("movements") : db'["movements"][k] = db["movements"][k]
      /\ \A j \in 1..c : db'["movements"][L + j] = Line(o, Nth(Open(o), j))
  BY <1>1 DEF Receipt, L, c
<1>6. \A j \in 1..c : /\ L + j \notin Rows("movements")
                      /\ db'["movements"][L + j].item = Nth(Open(o), j)
  <2> SUFFICES ASSUME NEW j \in 1..c
               PROVE  /\ L + j \notin Rows("movements")
                      /\ db'["movements"][L + j].item = Nth(Open(o), j)
    OBVIOUS
  <2>1. L + j \notin 1..L
    BY <1>2, <1>3 DEF c
  <2>2. Line(o, Nth(Open(o), j)).item = Nth(Open(o), j)
    BY <1>1, <1>4, Lines
  <2>3. QED
    BY <1>2, <1>5, <2>1, <2>2
<1>7. \A i \in Rows("items") \ Open(o) : BookedFor(i)' = BookedFor(i)
  <2> SUFFICES ASSUME NEW i \in Rows("items"), i \notin Open(o), NEW k
               PROVE  k \in BookedFor(i)' <=> k \in BookedFor(i)
    OBVIOUS
  <2>1. CASE k \in Rows("movements")
    BY <1>5, <2>1 DEF BookedFor
  <2>2. CASE k \notin Rows("movements")
    <3>1. k \notin BookedFor(i)
      BY <2>2 DEF BookedFor
    <3>2. ASSUME k \in BookedFor(i)' PROVE FALSE
      <4>1. k \in Rows("movements")' /\ db'["movements"][k].item = i
        BY <3>2 DEF BookedFor
      <4>2. PICK j \in 1..c : k = L + j
        BY <1>5, <2>2, <4>1
      <4>3. i = Nth(Open(o), j)
        BY <1>6, <4>1, <4>2
      <4>4. QED
        BY <1>4, <4>3
    <3>3. QED
      BY <3>1, <3>2
  <2>3. QED
    BY <2>1, <2>2
<1>8. \A i \in Rows("items") :
        \/ db["items"][i].received_quantity = 0 /\ BookedFor(i) = {}
        \/ /\ db["items"][i].received_quantity = db["items"][i].quantity
           /\ \E k \in BookedFor(i) : /\ BookedFor(i) = {k}
                                     /\ db["movements"][k].quantity = db["items"][i].quantity
  BY DEF BooksInv, ReceivedOnce
<1>9. \A i \in Rows("items") : /\ db["items"][i].quantity \in Int
                               /\ db["items"][i].received_quantity \in Int
  BY <1>1 DEF RowsTyped, RowTypes, ItemRow
<1>10. \A i \in Open(o) : db["items"][i].received_quantity = 0 /\ BookedFor(i) = {}
  <2> SUFFICES ASSUME NEW i \in Open(o)
               PROVE  db["items"][i].received_quantity = 0 /\ BookedFor(i) = {}
    OBVIOUS
  <2>1. i \in Rows("items") /\ db["items"][i].quantity > db["items"][i].received_quantity
    BY DEF Open
  <2>2. db["items"][i].quantity # db["items"][i].received_quantity
    BY <1>9, <2>1
  <2>3. QED
    BY <1>8, <2>1, <2>2
<1>11. \A i \in Open(o) : LET k == L + Rank(Open(o), i)
                          IN /\ BookedFor(i)' = {k}
                             /\ db'["movements"][k].quantity = db["items"][i].quantity
  <2> SUFFICES ASSUME NEW i \in Open(o)
               PROVE  /\ BookedFor(i)' = {L + Rank(Open(o), i)}
                      /\ db'["movements"][L + Rank(Open(o), i)].quantity = db["items"][i].quantity
    OBVIOUS
  <2> DEFINE n == Rank(Open(o), i)
  <2>1. n \in 1..c /\ Nth(Open(o), n) = i
    BY <1>4
  <2>2. /\ \A j \in 1..c : Nth(Open(o), j) = i => j = n
    BY <1>4
  <2> HIDE DEF n
  <2>3. \A k : k \in BookedFor(i)' <=> k = L + n
    <3> SUFFICES ASSUME NEW k PROVE k \in BookedFor(i)' <=> k = L + n
      OBVIOUS
    <3>1. CASE k \in Rows("movements")
      <4>1. k # L + n
        BY <1>6, <2>1, <3>1
      <4>2. db["movements"][k].item # i
        BY <1>10, <3>1 DEF BookedFor
      <4>3. QED
        BY <1>5, <3>1, <4>1, <4>2 DEF BookedFor
    <3>2. CASE k \notin Rows("movements")
      <4>1. ASSUME k \in BookedFor(i)' PROVE k = L + n
        <5>1. k \in Rows("movements")' /\ db'["movements"][k].item = i
          BY <4>1 DEF BookedFor
        <5>2. PICK j \in 1..c : k = L + j
          BY <1>5, <3>2, <5>1
        <5>3. QED
          BY <1>6, <2>2, <5>1, <5>2
      <4>2. ASSUME k = L + n PROVE k \in BookedFor(i)'
        BY <1>5, <1>6, <2>1, <4>2 DEF BookedFor
      <4>3. QED
        BY <4>1, <4>2
    <3>3. QED
      BY <3>1, <3>2
  <2>4. BookedFor(i)' = {L + n}
    BY <2>3
  <2>5. Line(o, i).quantity = db["items"][i].quantity - db["items"][i].received_quantity
    BY <1>1, Lines
  <2>6. i \in Rows("items") /\ db["items"][i].received_quantity = 0
    BY <1>3, <1>10
  <2>7. db'["movements"][L + n].quantity = db["items"][i].quantity - 0
    BY <1>5, <2>1, <2>5, <2>6
  <2>8. QED
    BY <1>9, <2>4, <2>6, <2>7 DEF n
<1>12. /\ Rows("items")' = Rows("items")
       /\ \A i \in Rows("items") \ Open(o) : db'["items"][i] = db["items"][i]
       /\ \A i \in Open(o) : /\ db'["items"][i].received_quantity = db["items"][i].quantity
                             /\ db'["items"][i].quantity = db["items"][i].quantity
                             /\ db'["items"][i].purchase_order = db["items"][i].purchase_order
       /\ \A p \in Rows("orders") : p # o => db'["orders"][p] = db["orders"][p]
  BY <1>1 DEF Receipt
<1>13. ReceivedOnce'
  <2> SUFFICES ASSUME NEW i \in Rows("items")
               PROVE  \/ db'["items"][i].received_quantity = 0 /\ BookedFor(i)' = {}
                      \/ /\ db'["items"][i].received_quantity = db'["items"][i].quantity
                         /\ \E k \in BookedFor(i)' :
                              /\ BookedFor(i)' = {k}
                              /\ db'["movements"][k].quantity = db'["items"][i].quantity
    BY <1>12 DEF ReceivedOnce
  <2>1. CASE i \in Open(o)
    BY <1>11, <1>12, <2>1
  <2>2. CASE i \notin Open(o)
    <3>1. db'["items"][i] = db["items"][i] /\ BookedFor(i)' = BookedFor(i)
      BY <1>7, <1>12, <2>2
    <3>2. BookedFor(i) \subseteq Rows("movements")
      BY DEF BookedFor
    <3>3. QED
      BY <1>5, <1>8, <3>1, <3>2
  <2>3. QED
    BY <2>1, <2>2
<1>14. past' = [past EXCEPT !.byHand = @ \ {o},
                            !.late = @ \ {i \in Rows("items") : db["items"][i].purchase_order = o}]
  BY DEF PurchaseOrderReceive
<1>15. PastTyped'
  BY <1>14 DEF PastTyped
<1>16. /\ past'.byHand = past.byHand \ {o}
       /\ past'.late = past.late \ {i \in Rows("items") : db["items"][i].purchase_order = o}
  BY <1>14 DEF PastTyped
<1>17. ReceivedIsInStock'
  <2> SUFFICES ASSUME NEW i \in Rows("items"),
                      db'["orders"][db'["items"][i].purchase_order].status = "received",
                      db'["items"][i].purchase_order \notin past'.byHand,
                      i \notin past'.late, db'["items"][i].quantity > 0
               PROVE  db'["items"][i].received_quantity = db'["items"][i].quantity
    BY <1>12 DEF ReceivedIsInStock
  <2> DEFINE p == db["items"][i].purchase_order
  <2>1. CASE i \in Open(o)
    BY <1>12, <2>1
  <2>2. CASE i \notin Open(o)
    <3>1. db'["items"][i] = db["items"][i]
      BY <1>12, <2>2
    <3>2. CASE p = o
      <4>1. ~(db["items"][i].quantity > db["items"][i].received_quantity)
        BY <2>2, <3>2 DEF Open
      <4>2. db["items"][i].received_quantity # 0
        BY <1>9, <3>1, <4>1
      <4>3. QED
        BY <1>8, <3>1, <4>2
    <3>3. CASE p # o
      <4>1. p \in Rows("orders")
        BY <1>1 DEF RefsExist, Links
      <4>2. db["orders"][p].status = "received" /\ p \notin past.byHand
        BY <1>12, <1>16, <3>1, <3>3, <4>1
      <4>3. i \notin past.late /\ db["items"][i].quantity > 0
        BY <1>16, <3>1, <3>3
      <4>4. QED
        BY <3>1, <4>2, <4>3 DEF BooksInv, ReceivedIsInStock
    <3>4. QED
      BY <3>2, <3>3
  <2>3. QED
    BY <2>1, <2>2
<1>18. BookingsRefer'
  <2>1. 1..Len(db["items"]) \subseteq 1..Len(db'["items"])
    <3>1. db'["items"] \in Seq(AnyRow) /\ Len(db'["items"]) >= Len(db["items"])
      BY <1>1 DEF TablesInv, RowsTyped, Receipt
    <3>2. Len(db'["items"]) \in Nat
      BY <3>1, LenProperties
    <3>3. QED
      BY <1>2, <3>1, <3>2
  <2>2. \A j \in 1..c : db'["movements"][L + j].item \in 1..Len(db'["items"])
    BY <1>2, <1>3, <1>4, <1>6, <2>1
  <2>3. QED
    BY <1>5, <2>1, <2>2 DEF BooksInv, BookingsRefer
<1>19. QED
  BY <1>13, <1>15, <1>17, <1>18 DEF BooksInv

-----------------------------------------------------------------------------
(* The invariant *)

FormsCounted == forms \in 0..MaxForms

PurchasesInv == TablesInv /\ DeskTyped /\ BooksInv /\ PastTyped /\ FormsCounted

\* The books when no row changes.
LEMMA NothingBooked ==
  ASSUME PurchasesInv, db' = db, past' = past
  PROVE  TablesInv' /\ BooksInv' /\ PastTyped'
<1>1. TablesInv /\ BooksInv /\ PastTyped
  BY DEF PurchasesInv
<1>2. \A t : Rows(t)' = Rows(t)
  BY DEF Rows
<1>3. TablesInv'
  BY <1>1, <1>2 DEF TablesInv, RowsTyped, RefsExist, MovementsKept
<1>4. BooksInv'
  BY <1>1, <1>2 DEF BooksInv, BookingsRefer, ReceivedOnce, BookedFor, ReceivedIsInStock
<1>5. QED
  BY <1>1, <1>3, <1>4 DEF PastTyped

LEMMA FormCounted ==
  ASSUME FormsCounted, Counted
  PROVE  FormsCounted'
BY BoundAssumption DEF FormsCounted, Counted, BoundAssumption

\* The office puts a form on a desk, and nothing else.
LEMMA OfficeForms ==
  ASSUME PurchasesInv, NEW r \in Requests, OfficeSends(r)
  PROVE  DeskTyped' /\ FormsCounted' /\ db' = db /\ past' = past
<1>1. RowsTyped /\ DeskTyped /\ FormsCounted
  BY DEF PurchasesInv, TablesInv
<1>2. {"suppliers", "categories", "materials", "orders", "items", "movements"} \subseteq Tables
  BY DEF Tables
<1>3. /\ Rows("suppliers") \subseteq Nat /\ Rows("categories") \subseteq Nat
      /\ Rows("materials") \subseteq Nat /\ Rows("orders") \subseteq Nat
  BY <1>1, <1>2, TableKeys
<1>4. ASSUME NEW t \in {"suppliers", "categories", "materials", "orders"}, NEW id,
             NEW row \in RowTypes[t], Validated(r, t, id, row)
      PROVE  DeskTyped' /\ FormsCounted' /\ db' = db /\ past' = past
  <2>1. DeskTyped'
    BY <1>1, <1>2, <1>4, FormTaken
  <2>2. FormsCounted'
    BY <1>1, <1>4, FormCounted DEF Validated
  <2>3. QED
    BY <1>4, <2>1, <2>2 DEF Validated
<1>5. CASE \E row \in SupplierRow : \/ SupplierCreate(r, row)
                                    \/ \E id \in Rows("suppliers") : SupplierEdit(r, id, row)
  BY <1>4, <1>5 DEF SupplierCreate, SupplierEdit, RowTypes
<1>6. CASE \E row \in CategoryRow : \/ CategoryCreate(r, row)
                                    \/ \E id \in Rows("categories") : CategoryEdit(r, id, row)
  BY <1>4, <1>6 DEF CategoryCreate, CategoryEdit, RowTypes
<1>7. CASE \E c \in Rows("categories"), n \in Names, a \in Alerts, active \in BOOLEAN :
             LET row == [category |-> c, name |-> n, min_stock_alert |-> a, is_active |-> active]
             IN RawMaterialCreate(r, row) \/ \E id \in Rows("materials") : RawMaterialEdit(r, id, row)
  <2>1. PICK c \in Rows("categories"), n \in Names, a \in Alerts, active \in BOOLEAN :
             LET row == [category |-> c, name |-> n, min_stock_alert |-> a, is_active |-> active]
             IN RawMaterialCreate(r, row) \/ \E id \in Rows("materials") : RawMaterialEdit(r, id, row)
    BY <1>7
  <2> DEFINE row == [category |-> c, name |-> n, min_stock_alert |-> a, is_active |-> active]
  <2>2. RawMaterialCreate(r, row) \/ \E id \in Rows("materials") : RawMaterialEdit(r, id, row)
    BY <2>1
  <2>3. row \in RowTypes["materials"]
    BY <1>3 DEF MaterialRow, RowTypes
  <2> HIDE DEF row
  <2>4. QED
    BY <1>4, <2>2, <2>3 DEF RawMaterialCreate, RawMaterialEdit
<1>8. CASE \E s \in Rows("suppliers"), status \in {"draft", "ordered", "received"} :
             LET row == [supplier |-> s, status |-> status]
             IN PurchaseOrderCreate(r, row) \/ \E o \in Rows("orders") : PurchaseOrderEdit(r, o, row)
  <2>1. PICK s \in Rows("suppliers"), status \in {"draft", "ordered", "received"} :
             LET row == [supplier |-> s, status |-> status]
             IN PurchaseOrderCreate(r, row) \/ \E o \in Rows("orders") : PurchaseOrderEdit(r, o, row)
    BY <1>8
  <2> DEFINE row == [supplier |-> s, status |-> status]
  <2>2. PurchaseOrderCreate(r, row) \/ \E o \in Rows("orders") : PurchaseOrderEdit(r, o, row)
    BY <2>1
  <2>3. row \in RowTypes["orders"]
    BY <1>3 DEF OrderRow, RowTypes
  <2> HIDE DEF row
  <2>4. QED
    BY <1>4, <2>2, <2>3 DEF PurchaseOrderCreate, PurchaseOrderEdit
<1>9. CASE \E o \in Rows("orders"), m \in Rows("materials"), q \in Quantities : ItemAdd(r, o, m, q)
  <2>1. PICK o \in Rows("orders"), m \in Rows("materials"), q \in Quantities : ItemAdd(r, o, m, q)
    BY <1>9
  <2> DEFINE row == [purchase_order |-> o, raw_material |-> m, quantity |-> q, received_quantity |-> 0]
  <2>2. Validated(r, "items", None, row)
    BY <2>1 DEF ItemAdd
  <2>3. row \in RowTypes["items"] /\ row.received_quantity = 0
    BY <1>3, QuantityAssumption DEF ItemRow, RowTypes, QuantityAssumption
  <2> HIDE DEF row
  <2>4. DeskTyped'
    BY <1>1, <1>2, <2>2, <2>3, FormTaken
  <2>5. FormsCounted'
    BY <1>1, <2>2, FormCounted DEF Validated
  <2>6. QED
    BY <2>2, <2>4, <2>5 DEF Validated
<1>10. CASE \E m \in Rows("materials"), q \in Quantities, s \in Rows("suppliers") \cup {None},
               type \in {"purchase", "consumption", "adjustment", "return"} :
              StockMovementCreate(r, Movement(m, type, q, s, None))
  <2>1. PICK m \in Rows("materials"), q \in Quantities, s \in Rows("suppliers") \cup {None},
             type \in {"purchase", "consumption", "adjustment", "return"} :
               StockMovementCreate(r, Movement(m, type, q, s, None))
    BY <1>10
  <2> DEFINE row == Movement(m, type, q, s, None)
  <2>2. Validated(r, "movements", None, row)
    BY <2>1 DEF StockMovementCreate
  <2>3. row \in RowTypes["movements"] /\ row.item = None
    BY <1>3, QuantityAssumption DEF MovementRow, Movement, RowTypes, QuantityAssumption
  <2> HIDE DEF row
  <2>4. DeskTyped'
    BY <1>1, <1>2, <2>2, <2>3, FormTaken
  <2>5. FormsCounted'
    BY <1>1, <2>2, FormCounted DEF Validated
  <2>6. QED
    BY <2>2, <2>4, <2>5 DEF Validated
<1>11. QED
  BY <1>5, <1>6, <1>7, <1>8, <1>9, <1>10 DEF OfficeSends

\* A save that the database takes.
LEMMA FormSaved ==
  ASSUME TablesInv, BooksInv, PastTyped, NEW f \in Form, Fits(f, Len(db[f.table])),
         Refers(f.table, f.row), Saves(f.table, f.id, f.row), past' = Recorded(f)
  PROVE  TablesInv' /\ BooksInv' /\ PastTyped'
<1> DEFINE t == f.table
           id == f.id
           row == f.row
<1>1. /\ t \in Tables /\ row \in RowTypes[t] /\ (id = None \/ id \in 1..Len(db[t]))
      /\ Refers(t, row) /\ Saves(t, id, row)
      /\ t = "movements" => id = None /\ row.item = None
      /\ t = "items" => id = None /\ row.received_quantity = 0
  BY DEF Form, Fits
<1>2. f.table = t /\ f.id = id /\ f.row = row
  OBVIOUS
<1> HIDE DEF t, id, row
<1>3. TablesInv'
  BY <1>1, SaveKeepsTables
<1>4. CASE t \in {"suppliers", "categories", "materials"}
  <2>1. past' = past
    BY <1>2, <1>4 DEF Recorded
  <2>2. BooksInv'
    BY <1>1, <1>4, <2>1, OtherSaves
  <2>3. QED
    BY <1>3, <2>1, <2>2 DEF PastTyped
<1>5. CASE t = "orders"
  <2>1. /\ row \in OrderRow /\ (id = None \/ id \in 1..Len(db["orders"]))
        /\ Refers("orders", row) /\ Saves("orders", id, row) /\ f.table = "orders"
    BY <1>1, <1>2, <1>5 DEF RowTypes
  <2>2. QED
    BY <1>2, <1>3, <2>1, OrderSaves
<1>6. CASE t = "items"
  <2>1. /\ row \in ItemRow /\ row.received_quantity = 0 /\ f.id = None
        /\ Refers("items", row) /\ Saves("items", None, row) /\ f.table = "items"
    BY <1>1, <1>2, <1>6 DEF RowTypes
  <2>2. QED
    BY <1>2, <1>3, <2>1, ItemSaves
<1>7. CASE t = "movements"
  <2>1. /\ row \in MovementRow /\ row.item = None
        /\ Refers("movements", row) /\ Saves("movements", None, row)
    BY <1>1, <1>7 DEF RowTypes
  <2>2. past' = [past EXCEPT !.raced = IF f.overtaken THEN @ \cup {row.raw_material} ELSE @]
    BY <1>2, <1>7, Zenon DEF Recorded
  <2>3. row.raw_material \in Nat
    BY <2>1 DEF MovementRow
  <2>4. past'.byHand = past.byHand /\ past'.late = past.late /\ PastTyped'
    BY <2>2, <2>3 DEF PastTyped
  <2>5. BooksInv'
    BY <2>1, <2>4, MovementSaves
  <2>6. QED
    BY <1>3, <2>4, <2>5
<1>8. QED
  BY <1>1, <1>4, <1>5, <1>6, <1>7 DEF Tables

LEMMA SaveKeeps ==
  ASSUME PurchasesInv, NEW r \in Requests, Save(r)
  PROVE  PurchasesInv'
<1> DEFINE d == desk[r]
           left == IF Takes(d) THEN Overtaken(r, d.row.raw_material) ELSE desk
<1>1. TablesInv /\ DeskTyped /\ BooksInv /\ PastTyped /\ FormsCounted /\ RowsTyped
  BY DEF PurchasesInv, TablesInv
<1>2. d # None /\ forms' = forms
  BY DEF Save
<1>3. d \in Form /\ Fits(d, Len(db[d.table])) /\ d.table \in Tables
  BY <1>1, <1>2 DEF DeskTyped, Form
<1>4. /\ left \in [Requests -> Form \cup {None}]
      /\ \A q \in Requests : left[q] # None => desk[q] # None /\ SameForm(left[q], desk[q])
  <2>1. CASE Takes(d)
    BY <1>1, <2>1, OvertakenForms
  <2>2. CASE ~Takes(d)
    BY <1>1, <2>2 DEF DeskTyped, SameForm
  <2>3. QED
    BY <2>1, <2>2
<1>5. FormsCounted'
  BY <1>1, <1>2 DEF FormsCounted
<1>6. CASE Refers(d.table, d.row) /\ Unique(d.table, d.id, d.row)
  <2>1. /\ Saves(d.table, d.id, d.row) /\ past' = Recorded(d)
        /\ desk' = [left EXCEPT ![r] = None]
    BY <1>6, Zenon DEF Save, Saves
  <2> HIDE DEF d, left
  <2>2. TablesInv' /\ BooksInv' /\ PastTyped'
    BY <1>1, <1>3, <1>6, <2>1, FormSaved
  <2>3. \A u \in Tables : Len(db'[u]) >= Len(db[u])
    BY <1>1, <1>3, <2>1, SavedTables DEF Fits
  <2>4. /\ desk' \in [Requests -> Form \cup {None}]
        /\ \A q \in Requests : desk'[q] # None => desk[q] # None /\ SameForm(desk'[q], desk[q])
    BY <1>4, <2>1
  <2>5. DeskTyped'
    BY <1>1, <2>2, <2>3, <2>4, DeskKept DEF TablesInv
  <2>6. QED
    BY <1>5, <2>2, <2>5 DEF PurchasesInv
<1>7. CASE ~(Refers(d.table, d.row) /\ Unique(d.table, d.id, d.row))
  <2>1. db' = db /\ past' = past /\ desk' = [desk EXCEPT ![r] = None]
    BY <1>7, Zenon DEF Save
  <2>2. DeskTyped'
    BY <1>1, <2>1 DEF DeskTyped
  <2>3. TablesInv' /\ BooksInv' /\ PastTyped'
    BY <2>1, NothingBooked
  <2>4. QED
    BY <1>5, <2>2, <2>3 DEF PurchasesInv
<1>8. QED
  BY <1>6, <1>7

LEMMA DrawKeeps ==
  ASSUME PurchasesInv, NEW m, NEW q \in Drawn, ConsumeMaterialForTask(m, q)
  PROVE  PurchasesInv'
<1> DEFINE row == Movement(m, "consumption", q, None, None)
<1>1. TablesInv /\ DeskTyped /\ BooksInv /\ PastTyped /\ FormsCounted /\ RowsTyped
  BY DEF PurchasesInv, TablesInv
<1>2. {"materials", "movements"} \subseteq Tables
  BY DEF Tables
<1>3. m \in Rows("materials") /\ m \in Nat /\ q \in Int
  <2>1. Rows("materials") \subseteq Nat
    BY <1>1, <1>2, TableKeys
  <2>2. QED
    BY <2>1, QuantityAssumption DEF ConsumeMaterialForTask, QuantityAssumption
<1>4. row \in MovementRow /\ row.item = None /\ row.raw_material = m /\ row.supplier = None
  BY <1>3 DEF MovementRow, Movement
<1>5. db' = [db EXCEPT !["movements"] = Append(@, row)]
  BY DEF ConsumeMaterialForTask
<1>6. Counted /\ desk' = Overtaken(None, m) /\ past' = [past EXCEPT !.drawn = @ \cup {m}]
  BY DEF ConsumeMaterialForTask
<1> HIDE DEF row
<1>7. Saves("movements", None, row)
  BY <1>5 DEF Saves, Put
<1>8. Refers("movements", row) /\ row \in RowTypes["movements"]
  BY <1>3, <1>4 DEF Refers, RowTypes
<1>9. TablesInv'
  BY <1>1, <1>2, <1>7, <1>8, SaveKeepsTables
<1>10. \A u \in Tables : Len(db'[u]) >= Len(db[u])
  BY <1>1, <1>2, <1>7, <1>8, SavedTables
<1>11. past'.byHand = past.byHand /\ past'.late = past.late /\ PastTyped'
  BY <1>1, <1>3, <1>6 DEF PastTyped
<1>12. BooksInv'
  BY <1>1, <1>4, <1>7, <1>8, <1>11, MovementSaves
<1>13. /\ desk' \in [Requests -> Form \cup {None}]
       /\ \A r \in Requests : desk'[r] # None => desk[r] # None /\ SameForm(desk'[r], desk[r])
  BY <1>1, <1>6, OvertakenForms
<1>14. DeskTyped'
  BY <1>1, <1>9, <1>10, <1>13, DeskKept DEF TablesInv
<1>15. FormsCounted'
  BY <1>1, <1>6, FormCounted
<1>16. QED
  BY <1>9, <1>11, <1>12, <1>14, <1>15 DEF PurchasesInv

\* Deletions leave the desk and the past alone.
LEMMA DeletionKeeps ==
  ASSUME PurchasesInv, TablesInv', BookRowsKept, UNCHANGED <<desk, forms, past>>
  PROVE  PurchasesInv'
<1>1. TablesInv /\ DeskTyped /\ BooksInv /\ PastTyped /\ FormsCounted /\ RowsTyped /\ RowsTyped'
  BY DEF PurchasesInv, TablesInv
<1>2. desk' = desk /\ past' = past /\ forms' = forms
  OBVIOUS
<1>3. BooksInv'
  BY <1>1, <1>2, BooksKept
<1>4. /\ desk' \in [Requests -> Form \cup {None}]
      /\ \A q \in Requests : desk'[q] # None => desk[q] # None /\ SameForm(desk'[q], desk[q])
  BY <1>1, <1>2 DEF DeskTyped, SameForm
<1>5. DeskTyped'
  BY <1>1, <1>4, DeskKept DEF BookRowsKept
<1>6. QED
  BY <1>1, <1>2, <1>3, <1>5 DEF PurchasesInv, PastTyped, FormsCounted

LEMMA ReceiveKeeps ==
  ASSUME PurchasesInv, NEW o, PurchaseOrderReceive(o)
  PROVE  PurchasesInv'
<1>1. TablesInv /\ DeskTyped /\ BooksInv /\ PastTyped /\ FormsCounted /\ RowsTyped
  BY DEF PurchasesInv, TablesInv
<1>2. desk' = desk /\ forms' = forms
  BY DEF PurchaseOrderReceive
<1>3. TablesInv' /\ Receipt(o)
  BY <1>1, Received
<1>4. BooksInv' /\ PastTyped'
  BY <1>1, ReceivedBooks
<1>5. /\ \A u \in Tables : Len(db'[u]) >= Len(db[u])
      /\ desk' \in [Requests -> Form \cup {None}]
      /\ \A q \in Requests : desk'[q] # None => desk[q] # None /\ SameForm(desk'[q], desk[q])
  BY <1>1, <1>2, <1>3 DEF DeskTyped, SameForm, Receipt
<1>6. DeskTyped'
  BY <1>1, <1>3, <1>5, DeskKept DEF TablesInv
<1>7. QED
  BY <1>1, <1>2, <1>3, <1>4, <1>6 DEF PurchasesInv, FormsCounted

LEMMA PurchasesInit ==
  ASSUME Init
  PROVE  PurchasesInv
<1>1. PICK n \in Names, a \in Alerts :
        db = [suppliers |-> <<[is_active |-> TRUE]>>, categories |-> <<[name |-> n]>>,
              materials |-> <<[category |-> 1, name |-> n, min_stock_alert |-> a, is_active |-> TRUE]>>,
              movements |-> <<>>, orders |-> <<>>, items |-> <<>>]
  BY DEF Init
<1> DEFINE s == [is_active |-> TRUE]
           c == [name |-> n]
           m == [category |-> 1, name |-> n, min_stock_alert |-> a, is_active |-> TRUE]
<1>2. /\ s \in SupplierRow /\ c \in CategoryRow /\ m \in MaterialRow /\ m.category = 1
  BY DEF SupplierRow, CategoryRow, MaterialRow
<1>3. s \in AnyRow /\ c \in AnyRow /\ m \in AnyRow
  BY <1>2, RowsAreAny DEF RowTypes, Tables
<1>4. s # None /\ c # None /\ m # None
  BY <1>2, NoneIsNoRow DEF RowTypes, Tables
<1>5. db = [suppliers |-> <<s>>, categories |-> <<c>>, materials |-> <<m>>,
            movements |-> <<>>, orders |-> <<>>, items |-> <<>>]
  BY <1>1
<1> HIDE DEF s, c, m
<1>6. /\ db["suppliers"] = <<s>> /\ db["categories"] = <<c>> /\ db["materials"] = <<m>>
      /\ db["movements"] = <<>> /\ db["orders"] = <<>> /\ db["items"] = <<>>
  BY <1>5
<1>7. db \in [Tables -> Seq(AnyRow)]
  <2>1. DOMAIN db = Tables /\ db = [t \in Tables |-> db[t]]
    BY <1>5 DEF Tables
  <2>2. /\ <<s>> \in Seq(AnyRow) /\ <<c>> \in Seq(AnyRow) /\ <<m>> \in Seq(AnyRow)
        /\ <<>> \in Seq(AnyRow)
    BY <1>3
  <2>3. \A t \in Tables : db[t] \in Seq(AnyRow)
    BY <1>6, <2>2 DEF Tables
  <2>4. QED
    BY <2>1, <2>3
<1>8. /\ \A t \in {"suppliers", "categories", "materials"} : Rows(t) = {1}
      /\ \A t \in {"movements", "orders", "items"} : Rows(t) = {}
  BY <1>4, <1>6 DEF Rows
<1>9. RowsTyped
  BY <1>2, <1>6, <1>7, <1>8 DEF RowsTyped, RowTypes, Tables
<1>10. RefsExist
  BY <1>2, <1>6, <1>8 DEF RefsExist, Links, Tables
<1>11. MovementsKept
  <2>1. Len(db["movements"]) = 0
    BY <1>6
  <2>2. 1..Len(db["movements"]) = {} /\ Rows("movements") = {}
    BY <1>8, <2>1
  <2>3. Len(db["movements"]) = Len(db.movements)
    OBVIOUS
  <2>4. QED
    BY <2>2, <2>3 DEF MovementsKept
<1>12. BooksInv
  BY <1>8 DEF BooksInv, BookingsRefer, ReceivedOnce, ReceivedIsInStock
<1>13. DeskTyped /\ PastTyped
  BY DEF Init, DeskTyped, PastTyped
<1>14. FormsCounted
  BY BoundAssumption DEF Init, FormsCounted, BoundAssumption
<1>15. QED
  BY <1>9, <1>10, <1>11, <1>12, <1>13, <1>14 DEF PurchasesInv, TablesInv

LEMMA PurchasesNext ==
  ASSUME PurchasesInv, [Next]_vars
  PROVE  PurchasesInv'
<1>1. TablesInv
  BY DEF PurchasesInv
<1>2. ASSUME NEW r \in Requests, OfficeSends(r) PROVE PurchasesInv'
  <2>1. DeskTyped' /\ FormsCounted' /\ db' = db /\ past' = past
    BY <1>2, OfficeForms
  <2>2. QED
    BY <2>1, NothingBooked DEF PurchasesInv
<1>3. ASSUME NEW r \in Requests, Save(r) PROVE PurchasesInv'
  BY <1>3, SaveKeeps
<1>4. ASSUME NEW id, SupplierDelete(id) PROVE PurchasesInv'
  <2>1. TablesInv' /\ BookRowsKept
    BY <1>1, <1>4, SupplierDeletes
  <2>2. UNCHANGED <<desk, forms, past>>
    BY <1>4 DEF SupplierDelete
  <2>3. QED
    BY <2>1, <2>2, DeletionKeeps
<1>5. ASSUME NEW id, CategoryDelete(id) PROVE PurchasesInv'
  <2>1. TablesInv' /\ BookRowsKept
    BY <1>1, <1>5, CategoryDeletes
  <2>2. UNCHANGED <<desk, forms, past>>
    BY <1>5 DEF CategoryDelete
  <2>3. QED
    BY <2>1, <2>2, DeletionKeeps
<1>6. ASSUME NEW id, RawMaterialDelete(id) PROVE PurchasesInv'
  <2>1. TablesInv' /\ BookRowsKept
    BY <1>1, <1>6, RawMaterialDeletes
  <2>2. UNCHANGED <<desk, forms, past>>
    BY <1>6 DEF RawMaterialDelete
  <2>3. QED
    BY <2>1, <2>2, DeletionKeeps
<1>7. ASSUME NEW o, PurchaseOrderDelete(o) PROVE PurchasesInv'
  <2>1. TablesInv' /\ BookRowsKept
    BY <1>1, <1>7, PurchaseOrderDeletes
  <2>2. UNCHANGED <<desk, forms, past>>
    BY <1>7 DEF PurchaseOrderDelete
  <2>3. QED
    BY <2>1, <2>2, DeletionKeeps
<1>8. ASSUME NEW i, ItemDelete(i) PROVE PurchasesInv'
  <2>1. TablesInv' /\ BookRowsKept
    BY <1>1, <1>8, ItemDeletes
  <2>2. UNCHANGED <<desk, forms, past>>
    BY <1>8 DEF ItemDelete
  <2>3. QED
    BY <2>1, <2>2, DeletionKeeps
<1>9. ASSUME NEW o, PurchaseOrderReceive(o) PROVE PurchasesInv'
  BY <1>9, ReceiveKeeps
<1>10. ASSUME NEW m, NEW q \in Drawn, ConsumeMaterialForTask(m, q) PROVE PurchasesInv'
  BY <1>10, DrawKeeps
<1>11. CASE UNCHANGED vars
  <2>1. db' = db /\ past' = past /\ desk' = desk /\ forms' = forms
    BY <1>11 DEF vars
  <2>2. DeskTyped' /\ FormsCounted'
    BY <2>1 DEF PurchasesInv, DeskTyped, FormsCounted
  <2>3. QED
    BY <2>1, <2>2, NothingBooked DEF PurchasesInv
<1>12. QED
  BY <1>2, <1>3, <1>4, <1>5, <1>6, <1>7, <1>8, <1>9, <1>10, <1>11 DEF Next

LEMMA SoundTables ==
  ASSUME PurchasesInv
  PROVE  BooksAreSound
<1>1. TablesInv /\ DeskTyped /\ BooksInv /\ FormsCounted
  BY DEF PurchasesInv
<1>2. DOMAIN db = Tables /\ \A t \in Tables : \A k \in Rows(t) : db[t][k] \in RowTypes[t]
  BY <1>1 DEF TablesInv, RowsTyped
<1>3. \A t \in Tables : \A k \in Rows(t) : Refers(t, db[t][k])
  BY <1>1, RefersLinks DEF TablesInv, RefsExist
<1>4. \A r \in Requests : desk[r] = None \/ desk[r].table \in Tables
  BY <1>1 DEF DeskTyped, Form
<1>5. TypeOK
  BY <1>1, <1>2, <1>3, <1>4 DEF TypeOK, FormsCounted
<1>6. QED
  BY <1>1, <1>5 DEF BooksInv, BooksAreSound, ReceiptsAreBooked

\* Whatever the office saves late or again, however suppliers, materials and
\* orders are deleted in between and whenever tasks draw material, rows refer
\* to rows that exist, and the goods of an order item are booked once or not
\* at all: however often purchase_order_receive runs, once.
THEOREM BooksAlwaysSound == Spec => []BooksAreSound
<1>1. Spec => []PurchasesInv
  BY PurchasesInit, PurchasesNext, PTL DEF Spec
<1>2. PurchasesInv => BooksAreSound
  BY SoundTables
<1>3. QED
  BY <1>1, <1>2, PTL

-----------------------------------------------------------------------------
(* Sums over a finite set.  Totals says what a table of the sums of w over    *)
(* every subset of S is; a fold over S is the entry of S in that table.      *)

Totals(G, w, S) ==
    /\ G \in [SUBSET S -> Int]
    /\ G[{}] = 0
    /\ \A s \in SUBSET S : \A x \in s : G[s] = w[x] + G[s \ {x}]

Least(N) == CHOOSE i \in N : \A j \in N : i <= j

\* A set of numbers that is not empty has a first one.
LEMMA LeastMember ==
  ASSUME NEW N, N \subseteq Nat, N # {}
  PROVE  Least(N) \in N /\ \A j \in N : Least(N) <= j
<1>1. PICK t \in N : \A u \in N : ~(<<u, t>> \in OpToRel(<, Nat))
  <2>1. \E t \in N : \A u \in N : ~(<<u, t>> \in OpToRel(<, Nat))
    BY NatLessThanWellFounded, WFMin
  <2>2. QED
    BY <2>1
<1>2. OpToRel(<, Nat) = {p \in Nat \X Nat : p[1] < p[2]}
  BY Zenon DEF OpToRel
<1>3. ASSUME NEW u \in N PROVE t <= u
  <2>1. <<u, t>> \notin {p \in Nat \X Nat : p[1] < p[2]}
    BY <1>1, <1>2, Zenon
  <2>2. u \in Nat /\ t \in Nat
    OBVIOUS
  <2>3. QED
    BY <2>1, <2>2
<1>4. QED
  BY <1>3 DEF Least

\* A family of subsets of a finite set that is not empty has a member of which
\* no member lacks one element only: what is so of {}, and of a set when it is
\* so of the set without an element, is so of all.
LEMMA MinimalMember ==
  ASSUME NEW S, IsFiniteSet(S), NEW B, B \subseteq SUBSET S, B # {}
  PROVE  \E s \in B : \A x \in s : s \ {x} \notin B
<1> DEFINE N == {Cardinality(s) : s \in B}
<1>1. \A s \in B : IsFiniteSet(s) /\ Cardinality(s) \in Nat
  <2> TAKE s \in B
  <2>1. IsFiniteSet(s)
    BY FS_Subset
  <2>2. QED
    BY <2>1, FS_CardinalityType
<1>2. N \subseteq Nat /\ N # {}
  BY <1>1
<1> DEFINE n == Least(N)
<1>3. n \in N /\ \A j \in N : n <= j
  BY <1>2, LeastMember
<1> HIDE DEF n
<1>4. PICK s \in B : Cardinality(s) = n
  BY <1>3
<1>5. ASSUME NEW x \in s, s \ {x} \in B PROVE FALSE
  <2>1. IsFiniteSet(s) /\ Cardinality(s) \in Nat
    BY <1>1
  <2>2. Cardinality(s \ {x}) = Cardinality(s) - 1
    BY <2>1, FS_RemoveElement
  <2>3. Cardinality(s \ {x}) \in N
    BY <1>5
  <2>4. n <= Cardinality(s) - 1
    BY <1>3, <2>2, <2>3
  <2>5. QED
    BY <1>4, <2>1, <2>4
<1>6. QED
  BY <1>5

LEMMA TotalsEmpty ==
  ASSUME NEW w
  PROVE  Totals([s \in SUBSET {} |-> 0], w, {})
<1> DEFINE G == [s \in SUBSET {} |-> 0]
<1>1. SUBSET {} = {{}}
  OBVIOUS
<1>2. QED
  BY <1>1 DEF Totals

\* One more element.
LEMMA TotalsExtend ==
  ASSUME NEW S, NEW x \in S, NEW w, NEW G, Totals(G, w, S \ {x}),
         \A y \in S : w[y] \in Int
  PROVE  \E H : Totals(H, w, S)
<1> DEFINE R == S \ {x}
           H == [s \in SUBSET S |-> IF x \in s THEN w[x] + G[s \ {x}] ELSE G[s]]
<1>1. /\ G \in [SUBSET R -> Int] /\ G[{}] = 0
      /\ \A s \in SUBSET R : \A y \in s : G[s] = w[y] + G[s \ {y}]
  BY DEF Totals
<1>2. \A s \in SUBSET S : s \ {x} \in SUBSET R /\ (x \notin s => s \in SUBSET R)
  OBVIOUS
<1>3. \A s \in SUBSET R : G[s] \in Int
  BY <1>1
<1>4. H \in [SUBSET S -> Int]
  <2> SUFFICES ASSUME NEW s \in SUBSET S
               PROVE  (IF x \in s THEN w[x] + G[s \ {x}] ELSE G[s]) \in Int
    OBVIOUS
  <2>1. G[s \ {x}] \in Int /\ (x \notin s => G[s] \in Int)
    BY <1>2, <1>3
  <2>2. QED
    BY <2>1
<1>5. H[{}] = 0
  BY <1>1
<1>6. ASSUME NEW s \in SUBSET S, NEW y \in s PROVE H[s] = w[y] + H[s \ {y}]
  <2>1. s \ {y} \in SUBSET S
    OBVIOUS
  <2>2. H[s] = IF x \in s THEN w[x] + G[s \ {x}] ELSE G[s]
    OBVIOUS
  <2>3. H[s \ {y}] = IF x \in s \ {y} THEN w[x] + G[(s \ {y}) \ {x}] ELSE G[s \ {y}]
    BY <2>1
  <2> HIDE DEF H
  <2>4. CASE y = x
    BY <2>2, <2>3, <2>4
  <2>5. CASE y # x /\ x \in s
    <3>1. (s \ {y}) \ {x} = (s \ {x}) \ {y}
      OBVIOUS
    <3>2. s \ {x} \in SUBSET R /\ y \in s \ {x}
      BY <1>2, <2>5
    <3>3. G[s \ {x}] = w[y] + G[(s \ {x}) \ {y}]
      BY <1>1, <3>2
    <3>4. (s \ {x}) \ {y} \in SUBSET R
      OBVIOUS
    <3>5. G[s \ {x}] \in Int /\ G[(s \ {x}) \ {y}] \in Int
      BY <1>3, <3>2, <3>4
    <3>6. H[s] = w[x] + G[s \ {x}] /\ H[s \ {y}] = w[x] + G[(s \ {x}) \ {y}]
      BY <2>2, <2>3, <2>5, <3>1
    <3> DEFINE a == G[s \ {x}]
               b == G[(s \ {x}) \ {y}]
    <3> HIDE DEF a, b
    <3>7. a \in Int /\ b \in Int /\ a = w[y] + b /\ H[s] = w[x] + a /\ H[s \ {y}] = w[x] + b
      BY <3>3, <3>5, <3>6 DEF a, b
    <3>8. w[y] + (w[x] + b) = w[x] + (w[y] + b)
      <4>1. w[y] \in Int /\ w[x] \in Int
        OBVIOUS
      <4>2. QED
        BY <3>7, <4>1
    <3>9. QED
      BY <3>7, <3>8
  <2>6. CASE x \notin s
    <3>1. s \in SUBSET R /\ x \notin s \ {y}
      BY <1>2, <2>6
    <3>2. QED
      BY <1>1, <2>2, <2>3, <2>6, <3>1
  <2>7. QED
    BY <2>4, <2>5, <2>6
<1> HIDE DEF H
<1>7. Totals(H, w, S)
  BY <1>4, <1>5, <1>6 DEF Totals
<1>8. QED
  BY <1>7

LEMMA TotalsExist ==
  ASSUME NEW S, IsFiniteSet(S), NEW w, \A x \in S : w[x] \in Int
  PROVE  \E G : Totals(G, w, S)
<1> DEFINE B == {T \in SUBSET S : ~\E G : Totals(G, w, T)}
<1>1. B = {}
  <2> SUFFICES ASSUME B # {} PROVE FALSE
    OBVIOUS
  <2>1. B \subseteq SUBSET S
    OBVIOUS
  <2>2. PICK T \in B : \A x \in T : T \ {x} \notin B
    <3> HIDE DEF B
    <3>1. QED
      BY <2>1, MinimalMember
  <2>3. CASE T = {}
    BY <2>3, TotalsEmpty
  <2>4. CASE T # {}
    <3>1. PICK x \in T : TRUE
      BY <2>4
    <3>2. T \ {x} \in SUBSET S /\ T \ {x} \notin B /\ x \in S
      BY <2>2
    <3>3. PICK G : Totals(G, w, T \ {x})
      BY <3>2
    <3>4. \E H : Totals(H, w, T)
      BY <3>2, <3>3, TotalsExtend
    <3>5. QED
      BY <3>4
  <2>5. QED
    BY <2>3, <2>4
<1>2. QED
  BY <1>1

\* H is what a fold computes that takes out the element c[s] of s first.
Folded(H, c, w, S) ==
    /\ H[{}] = 0
    /\ \A s \in SUBSET S : s # {} =>
          /\ c[s] \in s
          /\ H[s \ {c[s]}] \in Int => H[s] = w[c[s]] + H[s \ {c[s]}]

\* It does not matter which.
LEMMA TotalsUnique ==
  ASSUME NEW S, IsFiniteSet(S), NEW w, NEW G, Totals(G, w, S), NEW H, NEW c,
         Folded(H, c, w, S)
  PROVE  \A s \in SUBSET S : H[s] = G[s]
<1> DEFINE B == {s \in SUBSET S : H[s] # G[s]}
<1>1. B = {}
  <2> SUFFICES ASSUME B # {} PROVE FALSE
    OBVIOUS
  <2>1. B \subseteq SUBSET S
    OBVIOUS
  <2>2. PICK s \in B : \A x \in s : s \ {x} \notin B
    <3> HIDE DEF B
    <3>1. QED
      BY <2>1, MinimalMember
  <2>3. s # {}
    BY <2>2 DEF Totals, Folded
  <2>4. PICK x : x = c[s]
    OBVIOUS
  <2>5. x \in s /\ (H[s \ {x}] \in Int => H[s] = w[x] + H[s \ {x}])
    BY <2>2, <2>3, <2>4 DEF Folded
  <2>6. H[s \ {x}] = G[s \ {x}] /\ H[s \ {x}] \in Int
    BY <2>2, <2>5 DEF Totals
  <2>7. G[s] = w[x] + G[s \ {x}]
    BY <2>5 DEF Totals
  <2>8. QED
    BY <2>2, <2>5, <2>6, <2>7
<1>2. QED
  BY <1>1

LEMMA TotalsSub ==
  ASSUME NEW S, NEW T \in SUBSET S, NEW w, NEW G, Totals(G, w, S)
  PROVE  \E H : Totals(H, w, T) /\ H[T] = G[T]
<1> DEFINE H == [s \in SUBSET T |-> G[s]]
<1>1. H \in [SUBSET T -> Int] /\ H[{}] = 0
  BY DEF Totals
<1>2. ASSUME NEW s \in SUBSET T, NEW x \in s PROVE H[s] = w[x] + H[s \ {x}]
  <2>1. s \in SUBSET S /\ s \ {x} \in SUBSET T
    OBVIOUS
  <2>2. G[s] = w[x] + G[s \ {x}]
    BY <2>1 DEF Totals
  <2>3. QED
    BY <2>1, <2>2
<1>3. H[T] = G[T]
  OBVIOUS
<1> HIDE DEF H
<1>4. Totals(H, w, T)
  BY <1>1, <1>2 DEF Totals
<1>5. QED
  BY <1>3, <1>4

\* Elements that take nothing away.
LEMMA TotalsGrow ==
  ASSUME NEW S, IsFiniteSet(S), NEW T \in SUBSET S, NEW w, NEW G, Totals(G, w, S),
         \A x \in S \ T : w[x] \in Nat
  PROVE  G[S] >= G[T]
<1> DEFINE B == {s \in SUBSET S : T \subseteq s /\ ~(G[s] >= G[T])}
<1>1. B = {}
  <2> SUFFICES ASSUME B # {} PROVE FALSE
    OBVIOUS
  <2>1. B \subseteq SUBSET S
    OBVIOUS
  <2>2. PICK s \in B : \A x \in s : s \ {x} \notin B
    <3> HIDE DEF B
    <3>1. QED
      BY <2>1, MinimalMember
  <2>3. G[T] \in Int
    BY DEF Totals
  <2>4. s \in SUBSET S /\ T \subseteq s /\ s # T
    BY <2>2, <2>3
  <2>5. PICK x \in s : x \notin T
    BY <2>4
  <2>6. s \ {x} \in SUBSET S /\ T \subseteq s \ {x}
    BY <2>4, <2>5
  <2>7. G[s \ {x}] >= G[T]
    BY <2>2, <2>5, <2>6
  <2>8. G[s] = w[x] + G[s \ {x}] /\ G[s \ {x}] \in Int
    BY <2>4, <2>6 DEF Totals
  <2>9. w[x] \in Nat
    BY <2>4, <2>5
  <2>10. G[s] >= G[T]
    BY <2>3, <2>7, <2>8, <2>9
  <2>11. QED
    BY <2>2, <2>10
<1>2. S \notin B
  BY <1>1
<1>3. QED
  BY <1>2

-----------------------------------------------------------------------------
(* The stock of a material, by the movements that come to it                *)

Worth(row) == IF row.movement_type = "consumption" THEN -row.quantity ELSE row.quantity

Of(rows, m) == {k \in DOMAIN rows : rows[k] # None /\ rows[k].raw_material = m}

StockIn(rows, m) == FoldSet(LAMBDA k, sum : Worth(rows[k]) + sum, 0, Of(rows, m))

LEMMA StockIsIn ==
  ASSUME NEW m
  PROVE  CurrentStock(m) = StockIn(db["movements"], m)
BY Zenon DEF CurrentStock, Sum, MovementsOf, Rows, Signed, StockIn, Of, Worth,
             FoldSet, MapThenFoldSet

LEMMA StockIsInAfter ==
  ASSUME NEW m
  PROVE  CurrentStock(m)' = StockIn(db'["movements"], m)
BY Zenon DEF CurrentStock, Sum, MovementsOf, Rows, Signed, StockIn, Of, Worth,
             FoldSet, MapThenFoldSet

Worths(rows) == [k \in DOMAIN rows |-> Worth(rows[k])]

LEMMA RowsOf ==
  ASSUME NEW rows \in Seq(MovementRow), NEW m
  PROVE  /\ Len(rows) \in Nat /\ DOMAIN rows = 1..Len(rows)
         /\ Of(rows, m) = {k \in 1..Len(rows) : rows[k].raw_material = m}
         /\ IsFiniteSet(Of(rows, m))
         /\ \A k \in 1..Len(rows) : Worths(rows)[k] \in Int
<1>1. Len(rows) \in Nat /\ DOMAIN rows = 1..Len(rows) /\ \A k \in 1..Len(rows) : rows[k] \in MovementRow
  BY LenProperties, ElementOfSeq
<1>2. None \notin MovementRow
  BY NoneIsNoRow DEF Tables, RowTypes
<1>3. Of(rows, m) = {k \in 1..Len(rows) : rows[k].raw_material = m}
  BY <1>1, <1>2 DEF Of
<1>4. IsFiniteSet(1..Len(rows))
  BY <1>1, FS_Interval
<1>5. IsFiniteSet(Of(rows, m))
  BY <1>3, <1>4, FS_Subset
<1>6. \A k \in 1..Len(rows) : Worth(rows[k]) \in Int
  BY <1>1 DEF Worth, MovementRow
<1>7. \A k \in 1..Len(rows) : Worths(rows)[k] \in Int
  BY <1>1, <1>6 DEF Worths
<1>8. QED
  BY <1>1, <1>3, <1>5, <1>7

\* What w says the movements of m are worth.
Weighs(w, rows, m) == \A k \in Of(rows, m) : w[k] = Worth(rows[k])

\* The stock is the entry of any table of sums.
LEMMA StockIsTotal ==
  ASSUME NEW rows, NEW m, NEW w, NEW G, IsFiniteSet(Of(rows, m)), Weighs(w, rows, m),
         Totals(G, w, Of(rows, m))
  PROVE  StockIn(rows, m) = G[Of(rows, m)]
<1> DEFINE S == Of(rows, m)
           E(H) == [s \in SUBSET S |->
                      IF s = {} THEN 0
                      ELSE LET x == CHOOSE x \in s : TRUE IN Worth(rows[x]) + H[s \ {x}]]
           c == [s \in SUBSET S |-> CHOOSE x \in s : TRUE]
<1>1. \A s \in SUBSET S : s # {} => c[s] \in s
  OBVIOUS
<1>2. \A s \in SUBSET S : c[s] = CHOOSE x \in s : TRUE
  OBVIOUS
<1>3. \A H : \A s \in SUBSET S : s # {} => E(H)[s] = w[c[s]] + H[s \ {c[s]}]
  <2> TAKE H
  <2> TAKE s \in SUBSET S
  <2> HAVE s # {}
  <2>1. c[s] \in S /\ w[c[s]] = Worth(rows[c[s]])
    BY <1>1 DEF Weighs
  <2>2. E(H)[s] = Worth(rows[c[s]]) + H[s \ {c[s]}]
    BY <1>2
  <2>3. QED
    BY <2>1, <2>2
<1>4. \A H : E(H) = [s \in SUBSET S |-> E(H)[s]] /\ E(H)[{}] = 0
  OBVIOUS
<1>5. G = E(G)
  <2>1. \A s \in SUBSET S : G[s] = E(G)[s]
    <3> TAKE s \in SUBSET S
    <3>1. CASE s = {}
      BY <3>1 DEF Totals
    <3>2. CASE s # {}
      <4>1. E(G)[s] = w[c[s]] + G[s \ {c[s]}]
        BY <1>3, <3>2
      <4>2. c[s] \in s
        BY <1>1, <3>2
      <4> HIDE DEF E, c
      <4>3. QED
        BY <4>1, <4>2 DEF Totals
    <3>3. QED
      BY <3>1, <3>2
  <2>2. G \in [SUBSET S -> Int]
    BY DEF Totals
  <2>3. QED
    BY <2>1, <2>2
<1>6. ASSUME NEW H, H = E(H) PROVE H = G
  <2>1. H[{}] = 0
    BY <1>6
  <2>2. \A s \in SUBSET S : s # {} => c[s] \in s /\ H[s] = w[c[s]] + H[s \ {c[s]}]
    <3> TAKE s \in SUBSET S
    <3>1. H[s] = E(H)[s]
      BY <1>6
    <3>2. s # {} => E(H)[s] = w[c[s]] + H[s \ {c[s]}]
      BY <1>3
    <3>3. QED
      BY <1>1, <3>1, <3>2
  <2>3. DOMAIN H = SUBSET S /\ H = [s \in SUBSET S |-> H[s]]
    BY <1>6
  <2> HIDE DEF c, E
  <2>4. \A s \in SUBSET S : H[s] = G[s]
    <3>1. Folded(H, c, w, S)
      BY <2>1, <2>2 DEF Folded
    <3>2. QED
      BY <3>1, TotalsUnique
  <2>5. G = [s \in SUBSET S |-> G[s]]
    BY DEF Totals
  <2>6. QED
    BY <2>3, <2>4, <2>5
<1>7. QED
  BY <1>5, <1>6, Zenon DEF StockIn, FoldSet, MapThenFoldSet

\* Rows were added, or rows were changed in what does not count.
Grown(new, old) ==
  /\ Len(new) >= Len(old)
  /\ \A k \in 1..Len(old) : /\ new[k].raw_material = old[k].raw_material
                            /\ Worth(new[k]) = Worth(old[k])

\* One table of sums for the rows before and after.
LEMMA GrownTable ==
  ASSUME NEW old \in Seq(MovementRow), NEW new \in Seq(MovementRow), Grown(new, old), NEW m
  PROVE  /\ IsFiniteSet(Of(new, m)) /\ Of(old, m) \in SUBSET Of(new, m)
         /\ \A k \in Of(new, m) \ Of(old, m) :
              k \in 1..Len(new) /\ k \notin 1..Len(old) /\ new[k].raw_material = m
         /\ \A k \in 1..Len(new) : k \notin 1..Len(old) /\ new[k].raw_material = m =>
              k \in Of(new, m) \ Of(old, m)
         /\ \E G : /\ Totals(G, Worths(new), Of(new, m))
                   /\ StockIn(new, m) = G[Of(new, m)]
                   /\ StockIn(old, m) = G[Of(old, m)]
<1>1. /\ Len(old) \in Nat /\ DOMAIN old = 1..Len(old)
      /\ Of(old, m) = {k \in 1..Len(old) : old[k].raw_material = m}
      /\ IsFiniteSet(Of(old, m))
  BY RowsOf
<1>2. /\ Len(new) \in Nat /\ DOMAIN new = 1..Len(new)
      /\ Of(new, m) = {k \in 1..Len(new) : new[k].raw_material = m}
      /\ IsFiniteSet(Of(new, m))
      /\ \A k \in 1..Len(new) : Worths(new)[k] \in Int
  BY RowsOf
<1>3. \A k \in 1..Len(old) : k \in 1..Len(new)
  BY <1>1, <1>2 DEF Grown
<1>4. Of(old, m) \in SUBSET Of(new, m)
  BY <1>1, <1>2, <1>3 DEF Grown
<1>5. \A k \in Of(new, m) : Worths(new)[k] \in Int
  BY <1>2
<1>6. PICK G : Totals(G, Worths(new), Of(new, m))
  BY <1>2, <1>5, TotalsExist
<1>7. StockIn(new, m) = G[Of(new, m)]
  <2>1. Weighs(Worths(new), new, m)
    BY <1>2 DEF Weighs, Worths
  <2>2. QED
    BY <1>2, <1>6, <2>1, StockIsTotal
<1>8. StockIn(old, m) = G[Of(old, m)]
  <2>1. Weighs(Worths(new), old, m)
    BY <1>1, <1>2, <1>3 DEF Weighs, Worths, Grown
  <2>2. PICK H : Totals(H, Worths(new), Of(old, m)) /\ H[Of(old, m)] = G[Of(old, m)]
    BY <1>4, <1>6, TotalsSub
  <2>3. QED
    BY <1>1, <2>1, <2>2, StockIsTotal
<1>9. \A k \in Of(new, m) \ Of(old, m) :
        k \in 1..Len(new) /\ k \notin 1..Len(old) /\ new[k].raw_material = m
  BY <1>1, <1>2 DEF Grown
<1>10. \A k \in 1..Len(new) : k \notin 1..Len(old) /\ new[k].raw_material = m =>
         k \in Of(new, m) \ Of(old, m)
  BY <1>1, <1>2
<1>11. QED
  BY <1>2, <1>4, <1>6, <1>7, <1>8, <1>9, <1>10

LEMMA StockIsInt ==
  ASSUME NEW rows \in Seq(MovementRow), NEW m
  PROVE  StockIn(rows, m) \in Int
<1>1. Grown(rows, rows)
  <2>1. Len(rows) \in Nat
    BY RowsOf
  <2>2. QED
    BY <2>1 DEF Grown
<1>2. PICK G : Totals(G, Worths(rows), Of(rows, m)) /\ StockIn(rows, m) = G[Of(rows, m)]
  BY <1>1, GrownTable
<1>3. QED
  BY <1>2 DEF Totals

\* Goods that come in leave no material with less.
LEMMA StockGrows ==
  ASSUME NEW old \in Seq(MovementRow), NEW new \in Seq(MovementRow), Grown(new, old),
         \A k \in 1..Len(new) : k \notin 1..Len(old) => Worth(new[k]) \in Nat,
         NEW m
  PROVE  StockIn(new, m) >= StockIn(old, m)
<1>1. PICK G : /\ Totals(G, Worths(new), Of(new, m))
               /\ StockIn(new, m) = G[Of(new, m)]
               /\ StockIn(old, m) = G[Of(old, m)]
  BY GrownTable
<1>2. DOMAIN new = 1..Len(new)
  BY RowsOf
<1>3. \A k \in Of(new, m) \ Of(old, m) : Worths(new)[k] \in Nat
  <2> TAKE k \in Of(new, m) \ Of(old, m)
  <2>1. k \in 1..Len(new) /\ k \notin 1..Len(old)
    BY GrownTable
  <2>2. QED
    BY <1>2, <2>1 DEF Worths
<1>4. IsFiniteSet(Of(new, m)) /\ Of(old, m) \in SUBSET Of(new, m)
  BY GrownTable
<1>5. QED
  BY <1>1, <1>3, <1>4, TotalsGrow

\* One movement counts for its material, and for no other.
LEMMA StockMoves ==
  ASSUME NEW old \in Seq(MovementRow), NEW row \in MovementRow, NEW m
  PROVE  StockIn(Append(old, row), m)
           = StockIn(old, m) + (IF row.raw_material = m THEN Worth(row) ELSE 0)
<1> DEFINE new == Append(old, row)
           n == Len(old) + 1
<1>1. Len(old) \in Nat
  BY RowsOf
<1>2. /\ new \in Seq(MovementRow) /\ Len(new) = n /\ new[n] = row
      /\ \A k \in 1..Len(old) : new[k] = old[k]
  BY AppendProperties
<1> HIDE DEF new
<1>3. n \in 1..Len(new) /\ n \notin 1..Len(old) /\ 1..Len(new) = 1..Len(old) \cup {n}
  BY <1>1, <1>2
<1>4. Grown(new, old)
  BY <1>1, <1>2 DEF Grown
<1> HIDE DEF n
<1>5. PICK G : /\ Totals(G, Worths(new), Of(new, m))
               /\ StockIn(new, m) = G[Of(new, m)]
               /\ StockIn(old, m) = G[Of(old, m)]
  BY <1>2, <1>4, GrownTable
<1>6. Of(old, m) \in SUBSET Of(new, m)
  BY <1>2, <1>4, GrownTable
<1>7. CASE row.raw_material = m
  <2>1. n \in Of(new, m) \ Of(old, m)
    BY <1>2, <1>3, <1>4, <1>7, GrownTable
  <2>2. \A k \in Of(new, m) \ Of(old, m) : k = n
    BY <1>2, <1>3, <1>4, GrownTable
  <2>3. Of(old, m) = Of(new, m) \ {n}
    BY <1>6, <2>1, <2>2
  <2>4. G[Of(new, m)] = Worths(new)[n] + G[Of(old, m)]
    BY <1>5, <2>1, <2>3 DEF Totals
  <2>5. Worths(new)[n] = Worth(row)
    <3>1. DOMAIN new = 1..Len(new)
      BY <1>2, RowsOf
    <3>2. QED
      BY <1>2, <1>3, <3>1 DEF Worths
  <2>6. G[Of(old, m)] \in Int /\ Worth(row) \in Int
    <3>1. G[Of(old, m)] \in Int
      BY <1>5, <1>6 DEF Totals
    <3>2. QED
      BY <3>1 DEF Worth, MovementRow
  <2>7. QED
    BY <1>5, <1>7, <2>4, <2>5, <2>6 DEF new
<1>8. CASE row.raw_material # m
  <2>1. \A k \in Of(new, m) \ Of(old, m) : k = n /\ new[k].raw_material = m
    BY <1>2, <1>3, <1>4, GrownTable
  <2>2. Of(new, m) = Of(old, m)
    BY <1>2, <1>6, <1>8, <2>1
  <2>3. StockIn(new, m) = StockIn(old, m) /\ StockIn(old, m) \in Int
    BY <1>5, <2>2, StockIsInt
  <2>4. QED
    BY <1>8, <2>3 DEF new
<1>9. QED
  BY <1>7, <1>8

-----------------------------------------------------------------------------
(* The check of a consumption, and what may come between it and the save     *)

\* What was checked still holds, or the form is marked as overtaken.
Checked(d, rows) ==
  d # None /\ d.table = "movements" =>
    /\ d.row.quantity \in Nat \ {0}
    /\ d.row.movement_type = "consumption" /\ ~d.overtaken =>
         StockIn(rows, d.row.raw_material) >= d.row.quantity

Explained(rows, p) == \A m \in Nat : StockIn(rows, m) < 0 => m \in p.drawn \cup p.raced

StockInv == /\ Explained(db["movements"], past)
            /\ \A q \in Requests : Checked(desk[q], db["movements"])

\* Nothing is taken back from what explains a debt.
Remembered(new, old) == old.drawn \subseteq new.drawn /\ old.raced \subseteq new.raced

LEMMA LedgerTyped ==
  ASSUME TablesInv
  PROVE  db["movements"] \in Seq(MovementRow)
<1> DEFINE rows == db["movements"]
<1>1. /\ Len(rows) \in Nat /\ DOMAIN rows = 1..Len(rows) /\ rows \in Seq(AnyRow)
      /\ \A k \in 1..Len(rows) : rows[k] \in MovementRow
  BY TableKeys DEF TablesInv, MovementsKept, RowsTyped, RowTypes, Tables
<1> HIDE DEF rows
<1>2. rows = [k \in 1..Len(rows) |-> rows[k]]
  BY <1>1
<1>3. rows \in [1..Len(rows) -> MovementRow]
  BY <1>1, <1>2
<1>4. rows \in Seq(MovementRow)
  BY <1>1, <1>3, SeqOf
<1>5. QED
  BY <1>4 DEF rows

LEMMA LedgerTypedAfter ==
  ASSUME TablesInv'
  PROVE  db'["movements"] \in Seq(MovementRow)
<1> DEFINE rows == db'["movements"]
<1>1. /\ rows \in Seq(AnyRow) /\ Rows("movements")' = 1..Len(rows)
      /\ \A k \in Rows("movements")' : rows[k] \in MovementRow
  BY DEF TablesInv, MovementsKept, RowsTyped, RowTypes, Tables
<1> HIDE DEF rows
<1>2. Len(rows) \in Nat /\ DOMAIN rows = 1..Len(rows)
  BY <1>1, LenProperties
<1>3. rows = [k \in 1..Len(rows) |-> rows[k]]
  BY <1>1, <1>2
<1>4. rows \in [1..Len(rows) -> MovementRow]
  BY <1>1, <1>3
<1>5. rows \in Seq(MovementRow)
  BY <1>2, <1>4, SeqOf
<1>6. QED
  BY <1>5 DEF rows

\* A step that takes nothing out.
LEMMA MoreStock ==
  ASSUME TablesInv, TablesInv', StockInv, Grown(db'["movements"], db["movements"]),
         \A k \in 1..Len(db'["movements"]) :
           k \notin 1..Len(db["movements"]) => Worth(db'["movements"][k]) \in Nat,
         Remembered(past', past),
         \A q \in Requests : Checked(desk'[q], db["movements"])
  PROVE  StockInv'
<1> DEFINE old == db["movements"]
           new == db'["movements"]
<1>1. old \in Seq(MovementRow) /\ new \in Seq(MovementRow)
  BY LedgerTyped, LedgerTypedAfter
<1>2. /\ Grown(new, old)
      /\ \A k \in 1..Len(new) : k \notin 1..Len(old) => Worth(new[k]) \in Nat
      /\ Explained(old, past) /\ \A q \in Requests : Checked(desk'[q], old)
  BY DEF StockInv
<1> HIDE DEF old, new
<1>3. \A m : /\ StockIn(new, m) >= StockIn(old, m)
             /\ StockIn(new, m) \in Int /\ StockIn(old, m) \in Int
  BY <1>1, <1>2, StockGrows, StockIsInt
<1>4. Explained(new, past')
  <2> SUFFICES ASSUME NEW m \in Nat, StockIn(new, m) < 0 PROVE m \in past'.drawn \cup past'.raced
    BY DEF Explained
  <2>1. StockIn(old, m) < 0
    BY <1>3
  <2>2. QED
    BY <1>2, <2>1 DEF Explained, Remembered
<1>5. ASSUME NEW q \in Requests PROVE Checked(desk'[q], new)
  <2>1. PICK d : d = desk'[q]
    OBVIOUS
  <2>2. Checked(d, old)
    BY <1>2, <2>1
  <2>3. PICK m : m = d.row.raw_material
    OBVIOUS
  <2>4. PICK a, b : a = StockIn(old, m) /\ b = StockIn(new, m)
    OBVIOUS
  <2>5. a \in Int /\ b \in Int /\ b >= a
    BY <1>3, <2>4
  <2>6. PICK n : n = d.row.quantity
    OBVIOUS
  <2>7. n \in Nat /\ a >= n => b >= n
    BY <2>5
  <2>8. Checked(d, new)
    BY <2>2, <2>3, <2>4, <2>6, <2>7 DEF Checked
  <2>9. QED
    BY <2>1, <2>8
<1>6. QED
  BY <1>4, <1>5 DEF StockInv, new

\* A step that takes something out of one material.
LEMMA LessStock ==
  ASSUME TablesInv, DeskTyped, StockInv, NEW row \in MovementRow,
         row.movement_type = "consumption", row.raw_material \in Nat,
         db'["movements"] = Append(db["movements"], row),
         \/ StockIn(db["movements"], row.raw_material) >= row.quantity
         \/ row.raw_material \in past'.drawn \cup past'.raced,
         Remembered(past', past),
         NEW r,
         \A q \in Requests : \/ desk'[q] = None
                             \/ q # r /\ desk'[q] = Overtaken(r, row.raw_material)[q]
  PROVE  StockInv'
<1> DEFINE old == db["movements"]
           new == db'["movements"]
<1>1. old \in Seq(MovementRow)
  BY LedgerTyped
<1>2. \A m : /\ StockIn(new, m) = StockIn(old, m) + (IF row.raw_material = m THEN Worth(row) ELSE 0)
             /\ StockIn(old, m) \in Int
  BY <1>1, StockMoves, StockIsInt
<1>3. Worth(row) = -row.quantity /\ row.quantity \in Int
  BY DEF Worth, MovementRow
<1>4. Explained(old, past) /\ \A q \in Requests : Checked(desk[q], old)
  BY DEF StockInv
<1>5. \/ StockIn(old, row.raw_material) >= row.quantity
      \/ row.raw_material \in past'.drawn \cup past'.raced
  OBVIOUS
<1> HIDE DEF old, new
<1>6. Explained(new, past')
  <2> SUFFICES ASSUME NEW m \in Nat, StockIn(new, m) < 0 PROVE m \in past'.drawn \cup past'.raced
    BY DEF Explained
  <2>1. CASE row.raw_material = m
    <3>1. StockIn(new, m) = StockIn(old, m) - row.quantity
      BY <1>2, <1>3, <2>1
    <3>2. ~(StockIn(old, m) >= row.quantity)
      BY <1>2, <1>3, <3>1
    <3>3. QED
      BY <1>5, <2>1, <3>2
  <2>2. CASE row.raw_material # m
    <3>1. StockIn(old, m) < 0
      BY <1>2, <2>2
    <3>2. QED
      BY <1>4, <3>1 DEF Explained, Remembered
  <2>3. QED
    BY <2>1, <2>2
<1>7. ASSUME NEW q \in Requests PROVE Checked(desk'[q], new)
  <2>1. CASE desk'[q] = None
    BY <2>1 DEF Checked
  <2>2. CASE desk'[q] # None
    <3>1. q # r /\ desk'[q] = Overtaken(r, row.raw_material)[q]
      BY <2>2
    <3>2. CASE /\ desk[q] # None /\ desk[q].table = "movements"
               /\ desk[q].row.raw_material = row.raw_material
               /\ desk[q].row.movement_type = "consumption"
      <4>1. desk'[q] = [desk[q] EXCEPT !.overtaken = TRUE]
        BY <3>1, <3>2, Zenon DEF Overtaken
      <4>2. Checked(desk[q], old)
        BY <1>4
      <4>3. desk[q] \in Form
        BY <3>2 DEF DeskTyped
      <4>4. QED
        BY <3>2, <4>1, <4>2, <4>3 DEF Checked, Form
    <3>3. CASE ~(/\ desk[q] # None /\ desk[q].table = "movements"
                 /\ desk[q].row.raw_material = row.raw_material
                 /\ desk[q].row.movement_type = "consumption")
      <4>1. desk'[q] = desk[q]
        BY <3>1, <3>3, Zenon DEF Overtaken
      <4>2. Checked(desk[q], old)
        BY <1>4
      <4>3. PICK m : m = desk[q].row.raw_material
        OBVIOUS
      <4>4. m # row.raw_material => StockIn(new, m) = StockIn(old, m)
        BY <1>2
      <4>5. Checked(desk[q], new)
        BY <3>3, <4>2, <4>3, <4>4 DEF Checked
      <4>6. QED
        BY <4>1, <4>5
    <3>4. QED
      BY <3>2, <3>3
  <2>3. QED
    BY <2>1, <2>2
<1>8. QED
  BY <1>6, <1>7 DEF StockInv, new

\* No movement is made, and none changes in what counts.
CountsKept ==
  LET old == db["movements"]
      new == db'["movements"]
  IN /\ Len(new) = Len(old)
     /\ \A k \in 1..Len(old) : /\ new[k].raw_material = old[k].raw_material
                               /\ Worth(new[k]) = Worth(old[k])

LEMMA SameStock ==
  ASSUME TablesInv, TablesInv', StockInv, CountsKept, Remembered(past', past),
         \A q \in Requests : Checked(desk'[q], db["movements"])
  PROVE  StockInv'
<1>1. Len(db["movements"]) \in Nat
  <2>1. db["movements"] \in Seq(MovementRow)
    BY LedgerTyped
  <2>2. QED
    BY <2>1, LenProperties
<1>2. Grown(db'["movements"], db["movements"])
  BY <1>1 DEF Grown, CountsKept
<1>3. \A k \in 1..Len(db'["movements"]) :
        k \notin 1..Len(db["movements"]) => Worth(db'["movements"][k]) \in Nat
  BY DEF CountsKept
<1>4. QED
  BY <1>2, <1>3, MoreStock

LEMMA FormChecked ==
  ASSUME DeskTyped, StockInv, NEW r \in Requests, NEW t, NEW id, NEW row, Validated(r, t, id, row),
         t = "movements" =>
           /\ row.quantity \in Nat \ {0}
           /\ row.movement_type = "consumption" =>
                StockIn(db["movements"], row.raw_material) >= row.quantity
  PROVE  \A q \in Requests : Checked(desk'[q], db["movements"])
<1> DEFINE f == [table |-> t, id |-> id, row |-> row, overtaken |-> FALSE]
<1>1. desk' = [desk EXCEPT ![r] = f]
  BY DEF Validated
<1>2. f.table = t /\ f.row = row
  OBVIOUS
<1> HIDE DEF f
<1>3. Checked(f, db["movements"])
  BY <1>2 DEF Checked
<1>4. \A q \in Requests : desk'[q] = IF q = r THEN f ELSE desk[q]
  BY <1>1 DEF DeskTyped
<1>5. QED
  BY <1>3, <1>4 DEF StockInv

LEMMA OfficeKeepsStock ==
  ASSUME PurchasesInv, PurchasesInv', StockInv, NEW r \in Requests, OfficeSends(r)
  PROVE  StockInv'
<1>1. TablesInv /\ DeskTyped /\ TablesInv'
  BY DEF PurchasesInv
<1>2. db' = db /\ past' = past
  BY OfficeForms
<1>3. ASSUME NEW t \in {"suppliers", "categories", "materials", "orders", "items"}, NEW id, NEW row,
             Validated(r, t, id, row)
      PROVE  \A q \in Requests : Checked(desk'[q], db["movements"])
  BY <1>1, <1>3, FormChecked
<1>4. ASSUME NEW row, row.quantity \in Int, StockMovementCreate(r, row)
      PROVE  \A q \in Requests : Checked(desk'[q], db["movements"])
  <2>1. /\ Validated(r, "movements", None, row) /\ row.quantity > 0
        /\ row.movement_type = "consumption" => CurrentStock(row.raw_material) >= row.quantity
    BY <1>4 DEF StockMovementCreate, MovementClean
  <2>2. row.movement_type = "consumption" =>
          StockIn(db["movements"], row.raw_material) >= row.quantity
    BY <2>1, StockIsIn
  <2>3. row.quantity \in Nat \ {0}
    BY <1>4, <2>1
  <2>4. QED
    BY <1>1, <2>1, <2>2, <2>3, FormChecked
<1>5. \A q \in Requests : Checked(desk'[q], db["movements"])
  <2>1. CASE \E row \in SupplierRow : \/ SupplierCreate(r, row)
                                      \/ \E id \in Rows("suppliers") : SupplierEdit(r, id, row)
    BY <1>3, <2>1 DEF SupplierCreate, SupplierEdit
  <2>2. CASE \E row \in CategoryRow : \/ CategoryCreate(r, row)
                                      \/ \E id \in Rows("categories") : CategoryEdit(r, id, row)
    BY <1>3, <2>2 DEF CategoryCreate, CategoryEdit
  <2>3. CASE \E c \in Rows("categories"), n \in Names, a \in Alerts, active \in BOOLEAN :
               LET row == [category |-> c, name |-> n, min_stock_alert |-> a, is_active |-> active]
               IN RawMaterialCreate(r, row) \/ \E id \in Rows("materials") : RawMaterialEdit(r, id, row)
    BY <1>3, <2>3 DEF RawMaterialCreate, RawMaterialEdit
  <2>4. CASE \E s \in Rows("suppliers"), status \in {"draft", "ordered", "received"} :
               LET row == [supplier |-> s, status |-> status]
               IN PurchaseOrderCreate(r, row) \/ \E o \in Rows("orders") : PurchaseOrderEdit(r, o, row)
    BY <1>3, <2>4 DEF PurchaseOrderCreate, PurchaseOrderEdit
  <2>5. CASE \E o \in Rows("orders"), m \in Rows("materials"), q \in Quantities : ItemAdd(r, o, m, q)
    BY <1>3, <2>5 DEF ItemAdd
  <2>6. CASE \E m \in Rows("materials"), q \in Quantities, s \in Rows("suppliers") \cup {None},
                type \in {"purchase", "consumption", "adjustment", "return"} :
               StockMovementCreate(r, Movement(m, type, q, s, None))
    <3>1. PICK m \in Rows("materials"), q \in Quantities, s \in Rows("suppliers") \cup {None},
               type \in {"purchase", "consumption", "adjustment", "return"} :
                 StockMovementCreate(r, Movement(m, type, q, s, None))
      BY <2>6
    <3>2. Movement(m, type, q, s, None).quantity \in Int
      BY QuantityAssumption DEF Movement, QuantityAssumption
    <3>3. QED
      BY <1>4, <3>1, <3>2
  <2>7. QED
    BY <2>1, <2>2, <2>3, <2>4, <2>5, <2>6 DEF OfficeSends
<1>6. CountsKept
  BY <1>2 DEF CountsKept
<1>7. Remembered(past', past)
  BY <1>2 DEF Remembered
<1>8. QED
  BY <1>1, <1>5, <1>6, <1>7, SameStock

LEMMA DeletionKeepsStock ==
  ASSUME PurchasesInv, PurchasesInv', StockInv, CountsKept, UNCHANGED <<desk, past>>
  PROVE  StockInv'
<1>1. TablesInv /\ TablesInv' /\ desk' = desk /\ past' = past
  BY DEF PurchasesInv
<1>2. Remembered(past', past) /\ \A q \in Requests : Checked(desk'[q], db["movements"])
  BY <1>1 DEF Remembered, StockInv
<1>3. QED
  BY <1>1, <1>2, SameStock

LEMMA SupplierKeepsCounts ==
  ASSUME PurchasesInv, NEW id, SupplierDelete(id)
  PROVE  CountsKept
<1> DEFINE old == db["movements"]
           new == [k \in DOMAIN old |->
                     IF old[k].supplier = id THEN [old[k] EXCEPT !.supplier = None] ELSE old[k]]
<1>1. old \in Seq(MovementRow) /\ RowsTyped /\ {"suppliers", "movements"} \subseteq Tables
  BY LedgerTyped DEF PurchasesInv, TablesInv, Tables
<1>2. /\ Len(old) \in Nat /\ DOMAIN old = 1..Len(old)
      /\ \A k \in 1..Len(old) : old[k] \in MovementRow
  BY <1>1, LenProperties, ElementOfSeq
<1>3. \A k \in 1..Len(old) : /\ new[k] \in MovementRow
                              /\ new[k].raw_material = old[k].raw_material
                              /\ new[k].movement_type = old[k].movement_type
                              /\ new[k].quantity = old[k].quantity
  BY <1>2 DEF MovementRow
<1>4. Len(new) = Len(old)
  <2>1. new \in [1..Len(old) -> MovementRow]
    BY <1>2, <1>3
  <2>2. QED
    BY <1>2, <2>1, SeqOf
<1>5. db'["movements"] = new
  <2>1. db' = [db EXCEPT !["suppliers"] = [@ EXCEPT ![id] = None], !["movements"] = new]
    BY DEF SupplierDelete
  <2> HIDE DEF new, old
  <2>2. QED
    BY <1>1, <2>1 DEF RowsTyped
<1> HIDE DEF new
<1>6. QED
  BY <1>3, <1>4, <1>5 DEF CountsKept, Worth

\* The other deletions do not touch the movements.
LEMMA OthersKeepCounts ==
  ASSUME db'["movements"] = db["movements"]
  PROVE  CountsKept
BY DEF CountsKept

LEMMA ReceiveKeepsStock ==
  ASSUME PurchasesInv, PurchasesInv', StockInv, NEW o, PurchaseOrderReceive(o)
  PROVE  StockInv'
<1> DEFINE old == db["movements"]
           new == db'["movements"]
           c == Cardinality(Open(o))
<1>1. TablesInv /\ TablesInv' /\ PastTyped /\ "items" \in Tables
  BY DEF PurchasesInv, Tables
<1>2. o \in Rows("orders") /\ desk' = desk
      /\ past' = [past EXCEPT !.byHand = @ \ {o},
                              !.late = @ \ {i \in Rows("items") : db["items"][i].purchase_order = o}]
  BY DEF PurchaseOrderReceive
<1>3. Receipt(o)
  BY <1>1, Received
<1>4. old \in Seq(MovementRow) /\ new \in Seq(MovementRow)
  BY <1>1, LedgerTyped, LedgerTypedAfter
<1>5. /\ Len(old) \in Nat /\ Len(new) \in Nat /\ c \in Nat
      /\ Rows("movements") = 1..Len(old) /\ Rows("movements")' = 1..Len(new)
  BY <1>1, <1>4, LenProperties, OpenItems DEF TablesInv, MovementsKept
<1>6. /\ 1..Len(new) = 1..Len(old) \cup {Len(old) + j : j \in 1..c}
      /\ \A k \in 1..Len(old) : new[k] = old[k]
      /\ \A j \in 1..c : new[Len(old) + j] = Line(o, Nth(Open(o), j))
      /\ Len(new) >= Len(old)
  <2>1. "movements" \in Tables
    BY DEF Tables
  <2>2. QED
    BY <1>3, <1>5, <2>1 DEF Receipt
<1>7. \A j \in 1..c : Worth(Line(o, Nth(Open(o), j))) \in Nat
  <2> TAKE j \in 1..c
  <2>1. Nth(Open(o), j) \in Open(o)
    BY <1>1, <1>2, EnteredLines
  <2>2. PICK i : i = Nth(Open(o), j)
    OBVIOUS
  <2>3. i \in Rows("items") /\ db["items"][i].quantity > db["items"][i].received_quantity
    BY <2>1, <2>2 DEF Open
  <2>4. db["items"][i] \in ItemRow
    BY <1>1, <2>3 DEF TablesInv, RowsTyped, RowTypes
  <2>5. db["items"][i].quantity \in Int /\ db["items"][i].received_quantity \in Int
    BY <2>4 DEF ItemRow
  <2>6. Worth(Line(o, i)) = db["items"][i].quantity - db["items"][i].received_quantity
    BY DEF Worth, Line, Movement
  <2>7. QED
    BY <2>2, <2>3, <2>5, <2>6
<1> HIDE DEF old, new, c
<1>8. Grown(new, old)
  BY <1>6 DEF Grown
<1>9. \A k \in 1..Len(new) : k \notin 1..Len(old) => Worth(new[k]) \in Nat
  BY <1>6, <1>7
<1>10. Remembered(past', past) /\ \A q \in Requests : Checked(desk'[q], old)
  BY <1>1, <1>2 DEF Remembered, PastTyped, StockInv, old
<1>11. QED
  BY <1>1, <1>8, <1>9, <1>10, MoreStock DEF old, new

LEMMA DrawKeepsStock ==
  ASSUME PurchasesInv, StockInv, NEW m, NEW q \in Drawn, ConsumeMaterialForTask(m, q)
  PROVE  StockInv'
<1> DEFINE row == Movement(m, "consumption", q, None, None)
<1>1. TablesInv /\ DeskTyped /\ PastTyped
  BY DEF PurchasesInv
<1>2. m \in Nat /\ q \in Int
  <2>1. Rows("materials") \subseteq Nat
    BY <1>1, TableKeys DEF TablesInv, Tables
  <2>2. QED
    BY <2>1, QuantityAssumption DEF ConsumeMaterialForTask, QuantityAssumption
<1>3. /\ row \in MovementRow /\ row.movement_type = "consumption"
      /\ row.raw_material = m /\ m \in Nat
  BY <1>2 DEF MovementRow, Movement
<1>4. db'["movements"] = Append(db["movements"], row)
  <2>1. "movements" \in Tables /\ db' = [db EXCEPT !["movements"] = Append(@, row)]
    BY DEF ConsumeMaterialForTask, Tables
  <2> HIDE DEF row
  <2>2. QED
    BY <1>1, <2>1 DEF TablesInv, RowsTyped
<1>5. past' = [past EXCEPT !.drawn = @ \cup {m}] /\ desk' = Overtaken(None, m)
  BY DEF ConsumeMaterialForTask
<1> HIDE DEF row
<1>6. Remembered(past', past) /\ m \in past'.drawn
  BY <1>1, <1>5 DEF Remembered, PastTyped
<1>7. \A x \in Requests : x # None /\ desk'[x] = Overtaken(None, row.raw_material)[x]
  BY <1>3, <1>5, NoneAssumption DEF NoneAssumption
<1>8. QED
  BY <1>1, <1>3, <1>4, <1>6, <1>7, LessStock

\* A movement that is saved: less only where the check has been overtaken.
LEMMA MovementKeepsStock ==
  ASSUME PurchasesInv, PurchasesInv', StockInv, NEW r \in Requests, Save(r),
         desk[r].table = "movements",
         Refers("movements", desk[r].row) /\ Unique("movements", desk[r].id, desk[r].row)
  PROVE  StockInv'
<1> DEFINE d == desk[r]
           row == d.row
           left == IF Takes(d) THEN Overtaken(r, row.raw_material) ELSE desk
           old == db["movements"]
<1>1. TablesInv /\ TablesInv' /\ DeskTyped /\ PastTyped /\ "movements" \in Tables
  BY DEF PurchasesInv, Tables
<1>2. /\ Saves("movements", d.id, row) /\ past' = Recorded(d)
      /\ desk' = [left EXCEPT ![r] = None] /\ d # None
  BY Zenon DEF Save, Saves
<1>3. d \in Form /\ Fits(d, Len(db["movements"]))
  BY <1>1, <1>2 DEF DeskTyped
<1>4. d.id = None /\ row \in MovementRow /\ row.raw_material \in Nat
  BY <1>3 DEF Fits, RowTypes, MovementRow
<1>5. db'["movements"] = Append(old, row)
  <2>1. db' = [db EXCEPT !["movements"] = Append(@, row)]
    BY <1>2, <1>4 DEF Saves, Put
  <2> HIDE DEF d, row
  <2>2. QED
    BY <1>1, <2>1 DEF TablesInv, RowsTyped
<1>6. past' = [past EXCEPT !.raced = IF d.overtaken THEN @ \cup {row.raw_material} ELSE @]
  BY <1>2, Zenon DEF Recorded
<1>7. Checked(d, old)
  BY DEF StockInv
<1>8. d.table = "movements" /\ (Takes(d) <=> row.movement_type = "consumption")
  BY DEF Takes
<1>9. /\ row.quantity \in Nat \ {0}
      /\ row.movement_type = "consumption" /\ ~d.overtaken =>
           StockIn(old, row.raw_material) >= row.quantity
  BY <1>2, <1>7, <1>8 DEF Checked
<1>10. /\ Remembered(past', past)
       /\ d.overtaken => row.raw_material \in past'.raced
  BY <1>1, <1>4, <1>6 DEF Remembered, PastTyped
<1>11. DOMAIN left = Requests
  BY <1>1, Zenon DEF Overtaken, DeskTyped
<1>12. CASE row.movement_type = "consumption"
  <2>1. left = Overtaken(r, row.raw_material)
    BY <1>8, <1>12
  <2> HIDE DEF d, row, left
  <2>2. \A q \in Requests : \/ desk'[q] = None
                            \/ q # r /\ desk'[q] = Overtaken(r, row.raw_material)[q]
    BY <1>2, <1>11, <2>1
  <2>3. \/ StockIn(old, row.raw_material) >= row.quantity
        \/ row.raw_material \in past'.drawn \cup past'.raced
    BY <1>9, <1>10, <1>12
  <2>4. QED
    BY <1>1, <1>4, <1>5, <1>10, <1>12, <2>2, <2>3, LessStock
<1>13. CASE row.movement_type # "consumption"
  <2>1. left = desk
    BY <1>8, <1>13
  <2> HIDE DEF d, row, left
  <2>2. Worth(row) \in Nat
    BY <1>9, <1>13 DEF Worth
  <2>3. old \in Seq(MovementRow)
    BY <1>1, LedgerTyped
  <2> HIDE DEF old
  <2>4. /\ Len(old) \in Nat
        /\ Append(old, row) \in Seq(MovementRow) /\ Len(Append(old, row)) = Len(old) + 1
        /\ \A k \in 1..Len(old) : Append(old, row)[k] = old[k]
        /\ Append(old, row)[Len(old) + 1] = row
    BY <1>4, <2>3, AppendProperties, LenProperties
  <2>5. Grown(Append(old, row), old)
    BY <2>4 DEF Grown
  <2>6. \A k \in 1..Len(Append(old, row)) : k \notin 1..Len(old) => Worth(Append(old, row)[k]) \in Nat
    BY <2>2, <2>4
  <2>7. \A q \in Requests : Checked(desk'[q], old)
    <3>1. \A q \in Requests : desk'[q] = None \/ desk'[q] = desk[q]
      BY <1>2, <1>11, <2>1
    <3>2. QED
      BY <3>1 DEF StockInv, Checked, old
  <2>8. QED
    BY <1>1, <1>5, <1>10, <2>5, <2>6, <2>7, MoreStock DEF old
<1>14. QED
  BY <1>12, <1>13

LEMMA SaveKeepsStock ==
  ASSUME PurchasesInv, PurchasesInv', StockInv, NEW r \in Requests, Save(r)
  PROVE  StockInv'
<1> DEFINE d == desk[r]
           left == IF Takes(d) THEN Overtaken(r, d.row.raw_material) ELSE desk
<1>1. TablesInv /\ TablesInv' /\ DeskTyped /\ PastTyped
  BY DEF PurchasesInv
<1>2. CASE ~(Refers(d.table, d.row) /\ Unique(d.table, d.id, d.row))
  <2>1. db' = db /\ past' = past /\ desk' = [desk EXCEPT ![r] = None]
    BY <1>2, Zenon DEF Save
  <2>2. \A q \in Requests : desk'[q] = None \/ desk'[q] = desk[q]
    BY <1>1, <2>1 DEF DeskTyped
  <2>3. \A q \in Requests : Checked(desk'[q], db["movements"])
    BY <2>2 DEF StockInv, Checked
  <2>4. CountsKept /\ Remembered(past', past)
    BY <2>1 DEF CountsKept, Remembered
  <2>5. QED
    BY <1>1, <2>3, <2>4, SameStock
<1>3. CASE Refers(d.table, d.row) /\ Unique(d.table, d.id, d.row) /\ d.table = "movements"
  BY <1>3, MovementKeepsStock
<1>4. CASE Refers(d.table, d.row) /\ Unique(d.table, d.id, d.row) /\ d.table # "movements"
  <2>1. /\ Saves(d.table, d.id, d.row) /\ past' = Recorded(d)
        /\ desk' = [left EXCEPT ![r] = None]
    BY <1>4, Zenon DEF Save, Saves
  <2>2. left = desk
    BY <1>4 DEF Takes
  <2>3. \A q \in Requests : desk'[q] = None \/ desk'[q] = desk[q]
    <3> HIDE DEF d, left
    <3>1. QED
      BY <1>1, <2>1, <2>2 DEF DeskTyped
  <2>4. \A q \in Requests : Checked(desk'[q], db["movements"])
    BY <2>3 DEF StockInv, Checked
  <2>5. db'["movements"] = db["movements"]
    BY <1>1, <1>4, <2>1 DEF Saves, TablesInv, RowsTyped, Tables
  <2>6. past'.drawn = past.drawn /\ past'.raced = past.raced
    <3>1. \/ past' = past
          \/ \E v : past' = [past EXCEPT !.byHand = v]
          \/ \E v : past' = [past EXCEPT !.late = v]
      BY <1>4, <2>1, Zenon DEF Recorded
    <3>2. QED
      BY <1>1, <3>1 DEF PastTyped
  <2>7. CountsKept /\ Remembered(past', past)
    BY <2>5, <2>6 DEF CountsKept, Remembered
  <2>8. QED
    BY <1>1, <2>4, <2>7, SameStock
<1>5. QED
  BY <1>2, <1>3, <1>4

LEMMA StockInit ==
  ASSUME Init
  PROVE  StockInv
<1>1. db["movements"] = <<>>
  BY DEF Init
<1>2. \A q \in Requests : desk[q] = None
  BY DEF Init
<1>3. \A m : StockIn(<<>>, m) = 0
  <2> TAKE m
  <2>1. Of(<<>>, m) = {}
    BY DEF Of
  <2>2. IsFiniteSet({})
    BY FS_EmptySet
  <2> DEFINE G == [s \in SUBSET {} |-> 0]
  <2>3. Totals(G, <<>>, {}) /\ G[{}] = 0
    BY TotalsEmpty
  <2> HIDE DEF G
  <2>4. Weighs(<<>>, <<>>, m)
    BY <2>1 DEF Weighs
  <2>5. QED
    BY <2>1, <2>2, <2>3, <2>4, StockIsTotal
<1>4. QED
  BY <1>1, <1>2, <1>3 DEF StockInv, Explained, Checked

LEMMA StockNext ==
  ASSUME PurchasesInv, PurchasesInv', StockInv, [Next]_vars
  PROVE  StockInv'
<1>1. TablesInv /\ RowsTyped /\ Tables = {"suppliers", "categories", "materials", "movements", "orders", "items"}
  BY DEF PurchasesInv, TablesInv, Tables
<1>2. ASSUME NEW r \in Requests, OfficeSends(r) PROVE StockInv'
  BY <1>2, OfficeKeepsStock
<1>3. ASSUME NEW r \in Requests, Save(r) PROVE StockInv'
  BY <1>3, SaveKeepsStock
<1>4. ASSUME NEW id, SupplierDelete(id) PROVE StockInv'
  <2>1. CountsKept
    BY <1>4, SupplierKeepsCounts
  <2>2. UNCHANGED <<desk, past>>
    BY <1>4 DEF SupplierDelete
  <2>3. QED
    BY <2>1, <2>2, DeletionKeepsStock
<1>5. ASSUME NEW id, \/ CategoryDelete(id) \/ RawMaterialDelete(id)
                     \/ PurchaseOrderDelete(id) \/ ItemDelete(id)
      PROVE StockInv'
  <2>1. UNCHANGED <<desk, past>>
    BY <1>5 DEF CategoryDelete, RawMaterialDelete, PurchaseOrderDelete, ItemDelete
  <2>2. db'["movements"] = db["movements"]
    BY <1>1, <1>5 DEF CategoryDelete, RawMaterialDelete, PurchaseOrderDelete, ItemDelete, RowsTyped
  <2>3. CountsKept
    BY <2>2, OthersKeepCounts
  <2>4. QED
    BY <2>1, <2>3, DeletionKeepsStock
<1>6. ASSUME NEW o, PurchaseOrderReceive(o) PROVE StockInv'
  BY <1>6, ReceiveKeepsStock
<1>7. ASSUME NEW m, NEW q \in Drawn, ConsumeMaterialForTask(m, q) PROVE StockInv'
  BY <1>7, DrawKeepsStock
<1>8. CASE UNCHANGED vars
  <2>1. db' = db /\ UNCHANGED <<desk, past>>
    BY <1>8 DEF vars
  <2>2. CountsKept
    BY <2>1, OthersKeepCounts
  <2>3. QED
    BY <2>1, <2>2, DeletionKeepsStock
<1>9. QED
  BY <1>2, <1>3, <1>4, <1>5, <1>6, <1>7, <1>8 DEF Next

\* The stock of a material is negative only where a task drew it without
\* asking (consume_materials_for_task), or where two requests of
\* stock_movement_create had been let through by the same stock: a check whose
\* form was saved before anybody else took some of the material has held.
THEOREM OverdrawnOnlyForAReason == Spec => []OverdrawnForAReason
<1>1. Init => PurchasesInv /\ StockInv
  BY PurchasesInit, StockInit
<1>2. PurchasesInv /\ StockInv /\ [Next]_vars => PurchasesInv' /\ StockInv'
  BY PurchasesNext, StockNext
<1>3. ASSUME PurchasesInv, StockInv PROVE OverdrawnForAReason
  <2> SUFFICES ASSUME NEW m \in Rows("materials"), CurrentStock(m) < 0
               PROVE  m \in past.drawn \cup past.raced
    BY DEF OverdrawnForAReason
  <2>1. m \in Nat
    BY <1>3, TableKeys DEF PurchasesInv, TablesInv, Tables
  <2>2. StockIn(db["movements"], m) < 0
    BY StockIsIn
  <2>3. QED
    BY <1>3, <2>1, <2>2 DEF StockInv, Explained
<1>4. QED
  BY <1>1, <1>2, <1>3, PTL DEF Spec
=============================================================================
