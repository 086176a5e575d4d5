---------------------------- MODULE MigrationProofs ----------------------------
(***************************************************************************)
(* Theorems about the V1 to V2 migration, for any catalogue, any growth of   *)
(* it, and any number of runs that are killed, raise or are rolled back.     *)
(***************************************************************************)
EXTENDS Migration, FiniteSetTheorems, WellFoundedInduction, TLAPS

(* Tables and the steps of a transaction                                     *)

\* A function, and a record of tables.
IsTable(f) == f = [x \in DOMAIN f |-> f[x]]
IsDb(db) == db = [v2 |-> db.v2, maps |-> db.maps, next |-> db.next]

\* The tables as a transaction may find them.
DbOK(db) ==
    /\ IsDb(db)
    /\ db.next \in Nat \ {0}
    /\ IsTable(db.v2)
    /\ DOMAIN db.v2 \subseteq 1..(db.next - 1)
    /\ \A i \in DOMAIN db.v2 : db.v2[i] \in V2Row
    /\ IsTable(db.maps)
    /\ DOMAIN db.maps \subseteq Types \X Rows
    /\ \A k \in DOMAIN db.maps : db.maps[k] \in MapRow /\ db.maps[k].new < db.next

\* A map row of the tables new: one of db, one of this run that names a row, or
\* a first one that says that the row was passed over.
KeptOrOwn(db, new, k, run) ==
    \/ k \in DOMAIN db.maps /\ new.maps[k] = db.maps[k]
    \/ new.maps[k].run = run /\ new.maps[k].new \in DOMAIN new.v2
    \/ k \notin DOMAIN db.maps /\ new.maps[k] = [new |-> None, run |-> run]

\* What a step of the run may do to the tables: rows of some tables are added,
\* and some maps are written.
Grows(db, new, run, keys, tabs) ==
    /\ DbOK(new) /\ db.next <= new.next
    /\ DOMAIN db.v2 \subseteq DOMAIN new.v2
    /\ \A i \in DOMAIN db.v2 : new.v2[i] = db.v2[i]
    /\ \A i \in DOMAIN new.v2 :
          i \in DOMAIN db.v2 \/ (db.next <= i /\ new.v2[i].table \in tabs)
    /\ DOMAIN db.maps \subseteq DOMAIN new.maps
    /\ \A k \in DOMAIN new.maps : KeptOrOwn(db, new, k, run)
    /\ \A k \in DOMAIN new.maps :
          k \in keys \/ (k \in DOMAIN db.maps /\ new.maps[k] = db.maps[k])

LEMMA PutIsTable ==
  ASSUME NEW f, NEW k, NEW e
  PROVE  IsTable(Put(f, k, e))
BY DEF Put, IsTable

LEMMA RecordIsDb ==
  ASSUME NEW a, NEW b, NEW c
  PROVE  IsDb([v2 |-> a, maps |-> b, next |-> c])
BY DEF IsDb

\* The maps of a record of tables are replaced.
LEMMA DbExcept ==
  ASSUME NEW db, IsDb(db), NEW m
  PROVE  [db EXCEPT !.maps = m] = [v2 |-> db.v2, maps |-> m, next |-> db.next]
<1>1. PICK a, b, c : db = [v2 |-> a, maps |-> b, next |-> c]
  BY DEF IsDb
<1>2. db.v2 = a /\ db.maps = b /\ db.next = c
  BY <1>1
<1>3. [db EXCEPT !.maps = m] = [v2 |-> a, maps |-> m, next |-> c]
  BY <1>1
<1>4. QED
  BY <1>2, <1>3, Zenon

\* A set of numbers that is not empty has a first one.
LEMMA LeastMember ==
  ASSUME NEW S, S \subseteq Nat, S # {}
  PROVE  Least(S) \in S /\ \A j \in S : Least(S) <= j
<1>1. \E t \in S : \A u \in S : ~(<<u, t>> \in OpToRel(<, Nat))
  BY NatLessThanWellFounded, WFMin
<1>2. PICK t \in S : \A u \in S : ~(<<u, t>> \in OpToRel(<, Nat))
  BY <1>1
<1>3. OpToRel(<, Nat) = {p \in Nat \X Nat : p[1] < p[2]}
  BY Zenon DEF OpToRel
<1>4. ASSUME NEW u \in S PROVE t <= u
  <2>1. <<u, t>> \notin {p \in Nat \X Nat : p[1] < p[2]}
    BY <1>2, <1>3, Zenon
  <2>2. u \in Nat /\ t \in Nat
    OBVIOUS
  <2>3. QED
    BY <2>1, <2>2
<1>5. QED
  BY <1>4 DEF Least

LEMMA FirstMember ==
  ASSUME NEW S, S \subseteq Nat, S # {}
  PROVE  First(S) \in S
BY LeastMember DEF First

\* Steps can be put together.
LEMMA GrowsTransitive ==
  ASSUME NEW a, NEW b, NEW c, NEW run \in Nat, NEW K, NEW L, NEW T, NEW U,
         DbOK(a), Grows(a, b, run, K, T), Grows(b, c, run, L, U)
  PROVE  Grows(a, c, run, K \cup L, T \cup U)
<1>1. \A k \in DOMAIN c.maps : KeptOrOwn(a, c, k, run)
  BY DEF Grows, KeptOrOwn
<1>2. \A k \in DOMAIN c.maps :
        k \in K \cup L \/ (k \in DOMAIN a.maps /\ c.maps[k] = a.maps[k])
  BY DEF Grows
<1>3. \A i \in DOMAIN c.v2 :
        i \in DOMAIN a.v2 \/ (a.next <= i /\ c.v2[i].table \in T \cup U)
  <2>1. a.next \in Nat /\ b.next \in Nat /\ DOMAIN c.v2 \subseteq Nat /\ a.next <= b.next
    BY DEF Grows, DbOK
  <2>2. \A i \in DOMAIN c.v2 : i \in DOMAIN b.v2 \/ (b.next <= i /\ c.v2[i].table \in U)
    BY DEF Grows
  <2>3. \A i \in DOMAIN b.v2 : i \in DOMAIN a.v2 \/ (a.next <= i /\ b.v2[i].table \in T)
    BY DEF Grows
  <2>4. \A i \in DOMAIN b.v2 : c.v2[i] = b.v2[i]
    BY DEF Grows
  <2>5. QED
    BY <2>1, <2>2, <2>3, <2>4
<1>4. /\ DOMAIN a.v2 \subseteq DOMAIN c.v2 /\ DOMAIN a.maps \subseteq DOMAIN c.maps
      /\ \A i \in DOMAIN a.v2 : c.v2[i] = a.v2[i]
      /\ DbOK(c) /\ a.next <= c.next
  BY DEF Grows, DbOK
<1>5. QED
  BY <1>1, <1>2, <1>3, <1>4, Zenon DEF Grows

LEMMA GrowsNot ==
  ASSUME NEW db, DbOK(db), NEW run, NEW K, NEW T
  PROVE  Grows(db, db, run, K, T)
BY DEF Grows, KeptOrOwn, DbOK

\* A map is written.
LEMMA EnsuredGrows ==
  ASSUME NEW db, DbOK(db), txn.run \in RunIds,
         NEW type \in Types, NEW r \in Rows, NEW id \in DOMAIN db.v2
  PROVE  /\ Grows(db, Ensured(db, type, r, id), txn.run, {<<type, r>>}, {})
         /\ <<type, r>> \in DOMAIN Ensured(db, type, r, id).maps
         /\ Ensured(db, type, r, id).maps[<<type, r>>] = [new |-> id, run |-> txn.run]
         /\ Ensured(db, type, r, id).v2 = db.v2
<1> DEFINE new == Ensured(db, type, r, id)
           key == <<type, r>>
           entry == [new |-> id, run |-> txn.run]
<1>1. new = [v2 |-> db.v2, maps |-> Put(db.maps, key, entry), next |-> db.next]
  BY DbExcept DEF Ensured, DbOK
<1>2. entry \in MapRow /\ key \in Types \X Rows
  BY DEF MapRow, DbOK
<1>3. new.v2 = db.v2 /\ new.maps = Put(db.maps, key, entry) /\ new.next = db.next
  BY <1>1
<1> HIDE DEF new, entry
<1>4. DOMAIN new.maps = DOMAIN db.maps \cup {key} /\ new.maps[key] = entry
      /\ \A x \in DOMAIN db.maps : x # key => new.maps[x] = db.maps[x]
  <2>1. new.maps = Put(db.maps, key, entry)
    BY <1>3
  <2>2. QED
    BY <2>1 DEF Put
<1>5. DbOK(new)
  <2>1. IsTable(new.maps) /\ IsDb(new)
    BY <1>1, <1>3, PutIsTable, RecordIsDb, Zenon
  <2>2. QED
    BY <2>1, <1>2, <1>3, <1>4 DEF DbOK, entry
<1>6. entry.run = txn.run /\ entry.new = id
  BY DEF entry
<1>7. QED
  <2>1. \A x \in DOMAIN new.maps : KeptOrOwn(db, new, x, txn.run)
    BY <1>3, <1>4, <1>6 DEF KeptOrOwn
  <2>2. Grows(db, new, txn.run, {key}, {})
    BY <2>1, <1>3, <1>4, <1>5 DEF Grows, DbOK
  <2>3. QED
    BY <2>2, <1>3, <1>4 DEF new, entry

\* A row is passed over.
LEMMA SkippedGrows ==
  ASSUME NEW db, DbOK(db), txn.run \in RunIds, NEW type \in Types, NEW r \in Rows
  PROVE  /\ Grows(db, Skipped(db, type, r), txn.run, {<<type, r>>}, {})
         /\ <<type, r>> \in DOMAIN Skipped(db, type, r).maps
         /\ Skipped(db, type, r).v2 = db.v2
         /\ <<type, r>> \notin DOMAIN db.maps =>
               Skipped(db, type, r).maps[<<type, r>>] = [new |-> None, run |-> txn.run]
<1> DEFINE new == Skipped(db, type, r)
           key == <<type, r>>
           entry == [new |-> None, run |-> txn.run]
<1>1. CASE key \in DOMAIN db.maps
  <2>1. new = db
    BY <1>1 DEF Skipped
  <2>2. QED
    BY <2>1, <1>1, GrowsNot
<1>2. CASE key \notin DOMAIN db.maps
  <2>1. new = [v2 |-> db.v2, maps |-> Put(db.maps, key, entry), next |-> db.next]
    BY <1>2, DbExcept DEF Skipped, DbOK
  <2>2. entry \in MapRow /\ key \in Types \X Rows
    BY DEF MapRow, None
  <2>3. new.v2 = db.v2 /\ new.maps = Put(db.maps, key, entry) /\ new.next = db.next
    BY <2>1
  <2> HIDE DEF new, entry
  <2>4. DOMAIN new.maps = DOMAIN db.maps \cup {key} /\ new.maps[key] = entry
        /\ \A x \in DOMAIN db.maps : x # key => new.maps[x] = db.maps[x]
    <3>1. new.maps = Put(db.maps, key, entry)
      BY <2>3
    <3>2. QED
      BY <3>1 DEF Put
  <2>5. DbOK(new)
    <3>1. IsTable(new.maps) /\ IsDb(new)
      BY <2>1, <2>3, PutIsTable, RecordIsDb, Zenon
    <3>2. QED
      BY <3>1, <2>2, <2>3, <2>4 DEF DbOK, entry, None
  <2>6. \A x \in DOMAIN new.maps : KeptOrOwn(db, new, x, txn.run)
    <3>1. new.maps[key] = [new |-> None, run |-> txn.run]
      BY <2>4 DEF entry
    <3>2. QED
      BY <1>2, <2>4, <3>1 DEF KeptOrOwn
  <2>7. Grows(db, new, txn.run, {key}, {})
    BY <2>6, <2>3, <2>4, <2>5 DEF Grows, DbOK
  <2>8. QED
    <3>1. new.maps[key] = [new |-> None, run |-> txn.run]
      BY <2>4 DEF entry
    <3>2. QED
      BY <3>1, <2>7, <2>3, <2>4 DEF new
<1>3. QED
  BY <1>1, <1>2

\* A row is added.
LEMMA CreatedGrows ==
  ASSUME NEW db, DbOK(db), NEW run, NEW row \in V2Row
  PROVE  /\ Grows(db, Created(db, row), run, {}, {row.table})
         /\ db.next \in DOMAIN Created(db, row).v2
         /\ db.next \notin DOMAIN db.v2
         /\ Created(db, row).v2[db.next] = row
         /\ DOMAIN Created(db, row).v2 = DOMAIN db.v2 \cup {db.next}
         /\ Created(db, row).maps = db.maps
<1> DEFINE new == Created(db, row)
<1>1. new = [v2 |-> Put(db.v2, db.next, row), maps |-> db.maps, next |-> db.next + 1]
  BY Zenon DEF Created
<1>2. new.v2 = Put(db.v2, db.next, row) /\ new.maps = db.maps /\ new.next = db.next + 1
  BY <1>1
<1>3. db.next \notin DOMAIN db.v2 /\ db.next \in Nat \ {0}
  BY DEF DbOK
<1> HIDE DEF new
<1>4. DOMAIN new.v2 = DOMAIN db.v2 \cup {db.next} /\ new.v2[db.next] = row
      /\ \A x \in DOMAIN db.v2 : new.v2[x] = db.v2[x]
  <2>1. new.v2 = Put(db.v2, db.next, row)
    BY <1>2
  <2>2. DOMAIN new.v2 = DOMAIN db.v2 \cup {db.next} /\ new.v2[db.next] = row
    BY <2>1 DEF Put
  <2>3. ASSUME NEW x \in DOMAIN db.v2 PROVE new.v2[x] = db.v2[x]
    BY <2>1, <1>3 DEF Put
  <2>4. QED
    BY <2>2, <2>3
<1>5. DOMAIN new.v2 \subseteq 1..(new.next - 1)
  <2>1. DOMAIN db.v2 \subseteq 1..(db.next - 1)
    BY DEF DbOK
  <2>2. QED
    BY <2>1, <1>2, <1>3, <1>4
<1>6. DbOK(new)
  <2>1. IsTable(new.v2) /\ IsDb(new)
    BY <1>1, <1>2, PutIsTable, RecordIsDb, Zenon
  <2>2. QED
    <3>1. \A k \in DOMAIN db.maps : db.maps[k] \in MapRow /\ db.maps[k].new < new.next
      <4>1. \A k \in DOMAIN db.maps : db.maps[k] \in MapRow /\ db.maps[k].new < db.next
        BY DEF DbOK
      <4>2. QED
        BY <4>1, <1>2, <1>3 DEF MapRow
    <3>2. IsTable(new.maps) /\ DOMAIN new.maps \subseteq Types \X Rows
      BY <1>2 DEF DbOK
    <3>3. \A i \in DOMAIN new.v2 : new.v2[i] \in V2Row
      BY <1>4 DEF DbOK
    <3>4. QED
      BY <3>1, <3>2, <3>3, <2>1, <1>2, <1>3, <1>5 DEF DbOK
<1>7. \A x \in DOMAIN new.maps : KeptOrOwn(db, new, x, run)
  BY <1>2 DEF KeptOrOwn
<1>8. QED
  <2>1. Grows(db, new, run, {}, {row.table})
    BY <1>2, <1>3, <1>4, <1>6, <1>7 DEF Grows
  <2>2. QED
    BY <2>1, <1>2, <1>3, <1>4 DEF new

\* Whether a row was found or added: the map names a row of that table and key,
\* and no other row is new.
Got(db, new, run, k, row) ==
    /\ Grows(db, new, run, {k}, {row.table})
    /\ k \in DOMAIN new.maps
    /\ new.maps[k].run = run
    /\ new.maps[k].new \in DOMAIN new.v2
    /\ new.v2[new.maps[k].new].table = row.table
    /\ new.v2[new.maps[k].new].key = row.key
    /\ new.maps[k].new \in DOMAIN db.v2 \/ new.v2[new.maps[k].new] = row
    /\ DOMAIN new.v2 \subseteq DOMAIN db.v2 \cup {new.maps[k].new}

LEMMA GotGrows ==
  ASSUME NEW db, NEW new, NEW run, NEW k, NEW row, Got(db, new, run, k, row)
  PROVE  /\ Grows(db, new, run, {k}, {row.table}) /\ DbOK(new)
         /\ k \in DOMAIN new.maps /\ new.maps[k].new \in DOMAIN new.v2
BY DEF Got, Grows

\* A row is added and mapped.
LEMMA AddedGot ==
  ASSUME NEW db, DbOK(db), txn.run \in RunIds,
         NEW type \in Types, NEW r \in Rows, NEW row \in V2Row
  PROVE  /\ Got(db, Ensured(Created(db, row), type, r, db.next), txn.run, <<type, r>>, row)
         /\ Ensured(Created(db, row), type, r, db.next).maps[<<type, r>>].new \notin DOMAIN db.v2
<1> DEFINE mid == Created(db, row)
           new == Ensured(mid, type, r, db.next)
<1>1. /\ Grows(db, mid, txn.run, {}, {row.table})
      /\ db.next \in DOMAIN mid.v2 /\ db.next \notin DOMAIN db.v2
      /\ mid.v2[db.next] = row
      /\ DOMAIN mid.v2 = DOMAIN db.v2 \cup {db.next}
  BY CreatedGrows
<1>2. DbOK(mid)
  BY <1>1 DEF Grows
<1> HIDE DEF mid
<1>3. /\ Grows(mid, new, txn.run, {<<type, r>>}, {})
      /\ <<type, r>> \in DOMAIN new.maps
      /\ new.maps[<<type, r>>] = [new |-> db.next, run |-> txn.run]
      /\ new.v2 = mid.v2
  BY <1>1, <1>2, EnsuredGrows
<1> HIDE DEF new
<1>4. Grows(db, new, txn.run, {} \cup {<<type, r>>}, {row.table} \cup {})
  BY <1>1, <1>3, GrowsTransitive DEF RunIds
<1>5. Grows(db, new, txn.run, {<<type, r>>}, {row.table})
  BY <1>4
<1>6. new.maps[<<type, r>>].new = db.next /\ new.maps[<<type, r>>].run = txn.run
  BY <1>3
<1>7. QED
  BY <1>1, <1>3, <1>5, <1>6, Zenon DEF Got, new, mid

LEMMA FoundOrAdded ==
  ASSUME NEW db, DbOK(db), txn.run \in RunIds,
         NEW type \in Types, NEW r \in Rows, NEW row \in V2Row
  PROVE  Got(db, GotOrCreated(db, type, r, row), txn.run, <<type, r>>, row)
<1>1. CASE Same(db, row) # {}
  <2> DEFINE id == First(Same(db, row))
             new == Ensured(db, type, r, id)
  <2>1. Same(db, row) \subseteq Nat
    BY DEF Same, DbOK
  <2>2. id \in Same(db, row)
    BY <1>1, <2>1, FirstMember
  <2>3. id \in DOMAIN db.v2 /\ db.v2[id].table = row.table /\ db.v2[id].key = row.key
    BY <2>2 DEF Same
  <2>4. GotOrCreated(db, type, r, row) = new
    BY <1>1 DEF GotOrCreated
  <2> HIDE DEF id
  <2>5. /\ Grows(db, new, txn.run, {<<type, r>>}, {})
        /\ <<type, r>> \in DOMAIN new.maps
        /\ new.maps[<<type, r>>] = [new |-> id, run |-> txn.run]
        /\ new.v2 = db.v2
    BY <2>3, EnsuredGrows
  <2> HIDE DEF new
  <2>6. Grows(db, new, txn.run, {<<type, r>>}, {row.table})
    BY <2>5 DEF Grows
  <2>7. new.maps[<<type, r>>].new = id /\ new.maps[<<type, r>>].run = txn.run
    BY <2>5
  <2>8. QED
    BY <2>3, <2>4, <2>5, <2>6, <2>7 DEF Got
<1>2. CASE Same(db, row) = {}
  <2>1. GotOrCreated(db, type, r, row) = Ensured(Created(db, row), type, r, db.next)
    BY <1>2 DEF GotOrCreated
  <2>2. QED
    BY <2>1, AddedGot
<1>3. QED
  BY <1>1, <1>2

(* What is looked up                                                         *)

LEMMA RowFacts ==
  ASSUME NEW r \in Rows
  PROVE  /\ r \in Nat /\ r # None /\ Name[r] \in Nat /\ Strip[Name[r]] \in Nat
         /\ Ref[r] \in Rows \cup {None} /\ PartOf[r] \in Rows \cup {None}
         /\ MaterialOf[r] \in Rows \cup {None} /\ Kind[r] \in Kinds
BY MigrationAssumption DEF MigrationAssumption, None

\* A V2 row that the name and the category of the V1 product q find.
ProductLike(db, i, q) ==
    /\ i \in DOMAIN db.v2 /\ db.v2[i].table = "Product" /\ db.v2[i].name = Name[q]
    /\ \E c \in DOMAIN db.v2 :
          /\ db.v2[c].table = "ProductCategory" /\ db.v2[c].name = Strip[Name[Ref[q]]]
          /\ db.v2[i].uses = {c}

LEMMA CategoryFound ==
  ASSUME NEW db, DbOK(db), NEW c, CatMap(db, c) # None
  PROVE  /\ CatMap(db, c) \in DOMAIN db.v2
         /\ db.v2[CatMap(db, c)].table = "ProductCategory"
         /\ db.v2[CatMap(db, c)].name = Strip[Name[c]]
<1> DEFINE S == {i \in DOMAIN db.v2 :
             /\ Strip[Name[c]] # 0
             /\ db.v2[i].table = "ProductCategory" /\ db.v2[i].name = Strip[Name[c]]}
<1>1. CatMap(db, c) = First(S)
  BY DEF CatMap
<1>2. S \subseteq Nat
  BY DEF DbOK
<1>3. S # {}
  BY <1>1, Zenon DEF First
<1>4. CatMap(db, c) \in S
  BY <1>1, <1>2, <1>3, FirstMember
<1>5. QED
  BY <1>4

LEMMA ProductFound ==
  ASSUME NEW db, DbOK(db), NEW p, ProductMap(db, p) # None
  PROVE  p # None /\ ProductLike(db, ProductMap(db, p), p)
<1> DEFINE S == {i \in DOMAIN db.v2 :
                  /\ db.v2[i].table = "Product" /\ db.v2[i].name = Name[p]
                  /\ db.v2[i].uses = {CatMap(db, Ref[p])}}
<1>1. p # None /\ CatMap(db, Ref[p]) # None
  BY Zenon DEF ProductMap
<1>2. ProductMap(db, p) = First(S)
  BY <1>1, Zenon DEF ProductMap
<1>3. S \subseteq Nat
  BY DEF DbOK
<1>4. S # {}
  BY <1>2, Zenon DEF First
<1>5. ProductMap(db, p) \in S
  BY <1>2, <1>3, <1>4, FirstMember
<1>6. /\ ProductMap(db, p) \in DOMAIN db.v2 /\ db.v2[ProductMap(db, p)].table = "Product"
      /\ db.v2[ProductMap(db, p)].name = Name[p]
      /\ db.v2[ProductMap(db, p)].uses = {CatMap(db, Ref[p])}
  BY <1>5
<1>7. /\ CatMap(db, Ref[p]) \in DOMAIN db.v2
      /\ db.v2[CatMap(db, Ref[p])].table = "ProductCategory"
      /\ db.v2[CatMap(db, Ref[p])].name = Strip[Name[Ref[p]]]
  BY <1>1, CategoryFound
<1> HIDE DEF S
<1>8. QED
  BY <1>1, <1>6, <1>7, Zenon DEF ProductLike

\* A V2 row that the f3 of the V1 part p, and the product of its last BOM line, find.
PartFinds(db, u, p) ==
    /\ u \in DOMAIN db.v2 /\ db.v2[u].table = "ProductPart"
    /\ db.v2[u].name = Strip[Name[p]]
    /\ db.v2[u].within = ProductMap(db, BomProduct(p))

LEMMA PartFound ==
  ASSUME NEW db, DbOK(db), NEW p, PartMap(db, p) # None
  PROVE  /\ p # None /\ ProductMap(db, BomProduct(p)) # None /\ Kind[p] = "part"
         /\ PartFinds(db, PartMap(db, p), p)
<1> DEFINE S == {i \in DOMAIN db.v2 :
                  /\ db.v2[i].table = "ProductPart" /\ db.v2[i].name = Strip[Name[p]]
                  /\ db.v2[i].within = ProductMap(db, BomProduct(p))}
<1>1. p # None /\ ProductMap(db, BomProduct(p)) # None /\ Kind[p] = "part"
  BY Zenon DEF PartMap
<1>2. PartMap(db, p) = First(S)
  BY <1>1, Zenon DEF PartMap
<1>3. S \subseteq Nat
  BY DEF DbOK
<1>4. S # {}
  BY <1>2, Zenon DEF First
<1>5. PartMap(db, p) \in S
  BY <1>2, <1>3, <1>4, FirstMember
<1>6. PartFinds(db, PartMap(db, p), p)
  BY <1>5, Zenon DEF PartFinds
<1>7. QED
  BY <1>1, <1>6

\* The rows the command writes have their types.
LEMMA RecordTyped ==
  ASSUME NEW table \in Tables, NEW a \in Nat, NEW b \in Nat, NEW name \in Nat,
         NEW within \in Nat, NEW uses \in SUBSET Nat
  PROVE  /\ Record(table, <<a, b>>, name, within, uses) \in V2Row
         /\ Record(table, <<a, b>>, name, within, uses).table = table
         /\ Record(table, <<a, b>>, name, within, uses).key = <<a, b>>
         /\ Record(table, <<a, b>>, name, within, uses).name = name
         /\ Record(table, <<a, b>>, name, within, uses).within = within
         /\ Record(table, <<a, b>>, name, within, uses).uses = uses
BY DEF Record, V2Row

(* What the mappers do with a V1 row                                         *)

\* A mapper that passes over a row, leaves it as it is because it was migrated
\* before, or finds or adds its V2 row.
Outcome(db, new, skip, type, r, row) ==
    /\ skip => new = Skipped(db, type, r)
    /\ ~skip /\ Migrated(db, type, r) => new = db
    /\ ~skip /\ ~Migrated(db, type, r) => Got(db, new, txn.run, <<type, r>>, row)

NamedRow(table, r) == Record(table, <<Strip[Name[r]], 0>>, Strip[Name[r]], None, {})
ProductRow(db, p) == Record("Product", <<p, 0>>, Name[p], None, {CatMap(db, Ref[p])})
PartRow(db, p) ==
    Record("ProductPart", <<p, 0>>, Name[p], ProductMap(db, BomProduct(p)), {})
VariationRow(db, v) ==
    Record("ProductionPart", <<v, 0>>, Name[v], None,
           {PartMap(db, Ref[v]), ProductMap(db, BomProduct(Ref[v]))})
StageRow(db, s) ==
    Record("PaintingProcessStage", <<ProcessMap(db, Ref[s]), Name[s]>>, Name[s],
           ProcessMap(db, Ref[s]), {})
BomRow(product) == Record("BOM", <<product, 0>>, 0, product, {})
ItemRow(bom, part) == Record("BOMItem", <<bom, part>>, 0, bom, {part})

LEMMA GrowsMore ==
  ASSUME NEW a, NEW b, NEW run, NEW K, NEW T, NEW L, NEW U,
         Grows(a, b, run, K, T), K \subseteq L, T \subseteq U
  PROVE  Grows(a, b, run, L, U)
BY DEF Grows

LEMMA IndexNat ==
  ASSUME NEW db, DbOK(db), NEW i \in DOMAIN db.v2
  PROVE  i \in Nat /\ i # None
BY DEF DbOK, None

LEMMA OutcomeGrows ==
  ASSUME NEW db, DbOK(db), txn.run \in RunIds, NEW new, NEW skip,
         NEW type \in Types, NEW r \in Rows, NEW row,
         Outcome(db, new, skip, type, r, row)
  PROVE  /\ Grows(db, new, txn.run, {<<type, r>>}, {row.table})
         /\ <<type, r>> \in DOMAIN new.maps
<1>1. CASE skip
  <2>1. new = Skipped(db, type, r)
    BY <1>1 DEF Outcome
  <2>2. QED
    BY <2>1, SkippedGrows, GrowsMore
<1>2. CASE ~skip /\ Migrated(db, type, r)
  <2>1. new = db /\ <<type, r>> \in DOMAIN db.maps
    BY <1>2 DEF Outcome, Migrated
  <2>2. QED
    BY <2>1, GrowsNot
<1>3. CASE ~skip /\ ~Migrated(db, type, r)
  <2>1. Got(db, new, txn.run, <<type, r>>, row)
    BY <1>3 DEF Outcome
  <2>2. QED
    BY <2>1 DEF Got
<1>4. QED
  BY <1>1, <1>2, <1>3

\* What was migrated stays migrated.
LEMMA StaysMigrated ==
  ASSUME NEW db, DbOK(db), NEW new, NEW run, NEW K, NEW T, Grows(db, new, run, K, T),
         NEW type, NEW r, Migrated(db, type, r)
  PROVE  Migrated(new, type, r)
<1> DEFINE key == <<type, r>>
<1>1. key \in DOMAIN db.maps /\ db.maps[key].new # None
  BY DEF Migrated
<1>2. key \in DOMAIN new.maps /\ KeptOrOwn(db, new, key, run) /\ DbOK(new)
  BY <1>1 DEF Grows
<1>3. new.maps[key].new # None
  BY <1>1, <1>2, IndexNat DEF KeptOrOwn
<1>4. QED
  BY <1>2, <1>3 DEF Migrated

LEMMA GotMigrates ==
  ASSUME NEW db, NEW new, NEW run, NEW type, NEW r, NEW row,
         Got(db, new, run, <<type, r>>, row)
  PROVE  Migrated(new, type, r)
<1> DEFINE key == <<type, r>>
<1>1. key \in DOMAIN new.maps /\ new.maps[key].new \in DOMAIN new.v2 /\ DbOK(new)
  BY DEF Got, Grows
<1>2. new.maps[key].new # None
  BY <1>1, IndexNat
<1>3. QED
  BY <1>1, <1>2 DEF Migrated

LEMMA NamedOutcome ==
  ASSUME NEW db, DbOK(db), txn.run \in RunIds, NEW r \in Rows,
         NEW type \in Types, NEW table \in Tables
  PROVE  Outcome(db, Named(db, type, table, r), Strip[Name[r]] = 0, type, r, NamedRow(table, r))
<1>1. NamedRow(table, r) \in V2Row
  BY RowFacts, RecordTyped DEF NamedRow, None
<1>2. Got(db, GotOrCreated(db, type, r, NamedRow(table, r)), txn.run, <<type, r>>,
          NamedRow(table, r))
  BY <1>1, FoundOrAdded
<1>3. QED
  BY <1>2, Zenon DEF Outcome, Named, NamedRow

LEMMA ProductOutcome ==
  ASSUME NEW db, DbOK(db), txn.run \in RunIds, NEW p \in Rows
  PROVE  Outcome(db, ProductStep(db, p), CatMap(db, Ref[p]) = None, "product", p, ProductRow(db, p))
<1>1. ASSUME CatMap(db, Ref[p]) # None
      PROVE  Got(db, GotOrCreated(db, "product", p, ProductRow(db, p)), txn.run,
                 <<"product", p>>, ProductRow(db, p))
  <2>1. CatMap(db, Ref[p]) \in Nat
    BY <1>1, CategoryFound, IndexNat
  <2>2. ProductRow(db, p) \in V2Row
    BY <2>1, RowFacts, RecordTyped DEF ProductRow, None, Tables
  <2>3. QED
    BY <2>2, FoundOrAdded DEF Types
<1>2. QED
  BY <1>1, Zenon DEF Outcome, ProductStep, ProductRow

LEMMA RawOutcome ==
  ASSUME NEW db, DbOK(db), txn.run \in RunIds, NEW r \in Rows
  PROVE  Outcome(db, RawStep(db, r), FALSE, "raw_material", r,
                 Record("Item", <<r, 1>>, Name[r], None, {}))
<1> DEFINE row == Record("Item", <<r, 1>>, Name[r], None, {})
<1>1. row \in V2Row
  BY RowFacts, RecordTyped DEF None, Tables
<1>2. Got(db, GotOrCreated(db, "raw_material", r, row), txn.run, <<"raw_material", r>>, row)
  BY <1>1, FoundOrAdded DEF Types
<1>3. QED
  BY <1>2, Zenon DEF Outcome, RawStep

LEMMA PartOutcome ==
  ASSUME NEW db, DbOK(db), txn.run \in RunIds, NEW p \in Rows
  PROVE  /\ Outcome(db, PartStep(db, p), ProductMap(db, BomProduct(p)) = None, "part", p,
                    PartRow(db, p))
         /\ ProductMap(db, BomProduct(p)) # None /\ ~Migrated(db, "part", p) =>
              PartStep(db, p).maps[<<"part", p>>].new \notin DOMAIN db.v2
<1>1. ASSUME ProductMap(db, BomProduct(p)) # None
      PROVE  /\ Got(db, Ensured(Created(db, PartRow(db, p)), "part", p, db.next), txn.run,
                    <<"part", p>>, PartRow(db, p))
             /\ Ensured(Created(db, PartRow(db, p)), "part", p, db.next).maps[<<"part", p>>].new
                  \notin DOMAIN db.v2
  <2>1. ProductMap(db, BomProduct(p)) \in Nat
    BY <1>1, ProductFound, IndexNat DEF ProductLike
  <2>2. PartRow(db, p) \in V2Row
    BY <2>1, RowFacts, RecordTyped DEF PartRow, None, Tables
  <2>3. QED
    BY <2>2, AddedGot DEF Types
<1>2. QED
  BY <1>1, Zenon DEF Outcome, PartStep, PartRow

LEMMA VariationOutcome ==
  ASSUME NEW db, DbOK(db), txn.run \in RunIds, NEW v \in Rows
  PROVE  /\ Outcome(db, VariationStep(db, v),
                    PartMap(db, Ref[v]) = None \/ ProductMap(db, BomProduct(Ref[v])) = None,
                    "production_part", v, VariationRow(db, v))
         /\ PartMap(db, Ref[v]) # None /\ ~Migrated(db, "production_part", v) =>
              VariationStep(db, v).maps[<<"production_part", v>>].new \notin DOMAIN db.v2
<1>1. ASSUME PartMap(db, Ref[v]) # None
      PROVE  /\ ProductMap(db, BomProduct(Ref[v])) # None
             /\ Got(db, Ensured(Created(db, VariationRow(db, v)), "production_part", v, db.next),
                    txn.run, <<"production_part", v>>, VariationRow(db, v))
             /\ Ensured(Created(db, VariationRow(db, v)), "production_part", v, db.next)
                  .maps[<<"production_part", v>>].new \notin DOMAIN db.v2
  <2>1. ProductMap(db, BomProduct(Ref[v])) # None
    BY <1>1, PartFound
  <2>2. ProductMap(db, BomProduct(Ref[v])) \in Nat
    BY <2>1, ProductFound, IndexNat DEF ProductLike
  <2>3. PartMap(db, Ref[v]) \in Nat
    BY <1>1, PartFound, IndexNat DEF PartFinds
  <2>4. VariationRow(db, v) \in V2Row
    BY <2>2, <2>3, RowFacts, RecordTyped DEF VariationRow, None, Tables
  <2>5. QED
    BY <2>1, <2>4, AddedGot DEF Types
<1>2. QED
  BY <1>1, Zenon DEF Outcome, VariationStep, VariationRow

LEMMA StageOutcome ==
  ASSUME NEW db, DbOK(db), txn.run \in RunIds, NEW s \in Rows
  PROVE  Outcome(db, StageStep(db, s), ProcessMap(db, Ref[s]) = None, "painting_stage", s,
                 StageRow(db, s))
<1>1. ASSUME ProcessMap(db, Ref[s]) # None
      PROVE  Got(db, GotOrCreated(db, "painting_stage", s, StageRow(db, s)), txn.run,
                 <<"painting_stage", s>>, StageRow(db, s))
  <2>1. ProcessMap(db, Ref[s]) \in DOMAIN db.v2
    BY <1>1, Zenon DEF ProcessMap
  <2>2. ProcessMap(db, Ref[s]) \in Nat
    BY <2>1, IndexNat
  <2>3. StageRow(db, s) \in V2Row
    BY <2>2, RowFacts, RecordTyped DEF StageRow, None, Tables
  <2>4. QED
    BY <2>3, FoundOrAdded DEF Types
<1>2. QED
  BY <1>1, Zenon DEF Outcome, StageStep, StageRow

RawKeys == {<<"raw_material", q>> : q \in Rows}

LEMMA MaterialOutcome ==
  ASSUME NEW db, DbOK(db), txn.run \in RunIds, NEW m \in Rows, v1 \subseteq Rows
  PROVE  LET new == MaterialStep(db, m)
             skip == Cardinality(Candidates(m)) > 1
         IN  /\ skip => new = Skipped(db, "material", m)
             /\ ~skip /\ Migrated(db, "material", m) => new = db
             /\ ~skip /\ ~Migrated(db, "material", m) =>
                  /\ Grows(db, new, txn.run, {<<"material", m>>} \cup RawKeys, {"Item"})
                  /\ Migrated(new, "material", m)
<1> DEFINE row == Record("Item", <<m, 0>>, Name[m], None, {})
           got == GotOrCreated(db, "material", m, row)
           item == got.maps[<<"material", m>>].new
           raw == First(Candidates(m))
           both == Ensured(got, "raw_material", raw, item)
<1>1. row \in V2Row /\ row.table = "Item"
  <2>1. "Item" \in Tables /\ m \in Nat /\ 0 \in Nat /\ Name[m] \in Nat /\ None \in Nat
    BY RowFacts DEF None, Tables
  <2>2. QED
    BY <2>1, RecordTyped
<1>2. Got(db, got, txn.run, <<"material", m>>, row)
  BY <1>1, FoundOrAdded DEF Types
<1>3. Grows(db, got, txn.run, {<<"material", m>>} \cup RawKeys, {"Item"})
  <2> HIDE DEF got
  <2>1. Grows(db, got, txn.run, {<<"material", m>>}, {"Item"})
    BY <1>1, <1>2, GotGrows
  <2>2. QED
    BY <2>1, GrowsMore
<1>4. Migrated(got, "material", m)
  BY <1>2, GotMigrates
<1>5. DbOK(got) /\ item \in DOMAIN got.v2
  BY <1>2, GotGrows
<1>6. ASSUME Candidates(m) # {}
      PROVE  /\ Grows(db, both, txn.run, {<<"material", m>>} \cup RawKeys, {"Item"})
             /\ Migrated(both, "material", m)
  <2>1. Candidates(m) \subseteq Rows /\ Rows \subseteq Nat
    BY MigrationAssumption DEF Candidates, OfKind, MigrationAssumption
  <2>2. raw \in Rows
    BY <1>6, <2>1, FirstMember
  <2> HIDE DEF got, item, raw, row
  <2>3. Grows(got, both, txn.run, {<<"raw_material", raw>>}, {})
    BY <1>5, <2>2, EnsuredGrows DEF Types
  <2> HIDE DEF both
  <2>4. Grows(got, both, txn.run, RawKeys, {})
    BY <2>2, <2>3, GrowsMore DEF RawKeys
  <2>5. Grows(db, both, txn.run, ({<<"material", m>>} \cup RawKeys) \cup RawKeys, {"Item"} \cup {})
    BY <1>3, <2>4, GrowsTransitive DEF RunIds
  <2>6. QED
    BY <2>4, <2>5, <1>4, <1>5, StaysMigrated, GrowsMore
<1>7. ASSUME ~(Cardinality(Candidates(m)) > 1), ~Migrated(db, "material", m)
      PROVE  MaterialStep(db, m) = IF Candidates(m) = {} THEN got ELSE both
  BY <1>7, Zenon DEF MaterialStep
<1> HIDE DEF got, both
<1>8. Cardinality(Candidates(m)) > 1 => MaterialStep(db, m) = Skipped(db, "material", m)
  BY Zenon DEF MaterialStep
<1>9. ~(Cardinality(Candidates(m)) > 1) /\ Migrated(db, "material", m) => MaterialStep(db, m) = db
  BY Zenon DEF MaterialStep
<1>10. QED
  BY <1>3, <1>4, <1>6, <1>7, <1>8, <1>9, Zenon

\* The item of a BOM line is passed over or got, and then perhaps a rule.
LineOutcome(got, new, b, bom) ==
    \/ PartMap(got, PartOf[b]) = None /\ new = Skipped(got, "bom_item", b)
    \/ /\ PartMap(got, PartOf[b]) # None
       /\ \E mid : /\ Got(got, mid, txn.run, <<"bom_item", b>>,
                          ItemRow(bom, PartMap(got, PartOf[b])))
                   /\ Grows(mid, new, txn.run, {<<"bom_item_material_rule", b>>}, {"Rule"})

LEMMA LineOutcomes ==
  ASSUME NEW db, DbOK(db), txn.run \in RunIds, NEW b \in Rows, NEW bom \in Nat
  PROVE  LineOutcome(db, LineStep(db, b, bom), b, bom)
<1> DEFINE part == PartMap(db, PartOf[b])
           row == ItemRow(bom, part)
           got == GotOrCreated(db, "bom_item", b, row)
           item == got.maps[<<"bom_item", b>>].new
           m == MaterialOf[PartOf[b]]
           material == got.maps[<<"material", m>>].new
           rule == Record("Rule", <<item, material>>, 0, item, {material})
           both == GotOrCreated(got, "bom_item_material_rule", b, rule)
<1>1. CASE part = None
  <2>1. LineStep(db, b, bom) = Skipped(db, "bom_item", b)
    BY <1>1, Zenon DEF LineStep
  <2>2. QED
    BY <1>1, <2>1 DEF LineOutcome
<1>2. CASE part # None
  <2>1. part \in Nat
    BY <1>2, PartFound, IndexNat DEF PartFinds
  <2>2. row \in V2Row
    <3>1. "BOMItem" \in Tables /\ bom \in Nat /\ 0 \in Nat
      BY DEF Tables
    <3>2. Record("BOMItem", <<bom, part>>, 0, bom, {part}) \in V2Row
      BY <2>1, <3>1, RecordTyped
    <3>3. QED
      BY <3>2, Zenon DEF ItemRow
  <2>3. Got(db, got, txn.run, <<"bom_item", b>>, row)
    BY <2>2, FoundOrAdded DEF Types
  <2>4. DbOK(got) /\ item \in DOMAIN got.v2
    BY <2>3, GotGrows
  <2>5. LineStep(db, b, bom) = IF ~Migrated(got, "material", m) THEN got ELSE both
    BY <1>2, Zenon DEF LineStep, ItemRow
  <2> HIDE DEF got, row
  <2>6. Grows(got, LineStep(db, b, bom), txn.run, {<<"bom_item_material_rule", b>>}, {"Rule"})
    <3>1. CASE ~Migrated(got, "material", m)
      BY <3>1, <2>4, <2>5, GrowsNot
    <3>2. CASE Migrated(got, "material", m)
      <4>1. material \in Nat
        BY <3>2, <2>4 DEF Migrated, DbOK, MapRow
      <4>2. item \in Nat
        BY <2>4, IndexNat
      <4> HIDE DEF item, material
      <4>3. rule \in V2Row /\ rule.table = "Rule"
        BY <4>1, <4>2, RecordTyped DEF Tables
      <4> HIDE DEF rule
      <4>4. Got(got, both, txn.run, <<"bom_item_material_rule", b>>, rule)
        BY <4>3, <2>4, FoundOrAdded DEF Types
      <4>5. QED
        BY <4>3, <4>4, <3>2, <2>5 DEF Got
    <3>3. QED
      BY <3>1, <3>2
  <2>7. QED
    BY <1>2, <2>3, <2>6, Zenon DEF LineOutcome, row
<1>3. QED
  BY <1>1, <1>2

\* A BOM line is passed over, left as it was, or its BOM is got and then its item.
BomSkips(db, b) == ProductMap(db, Ref[b]) = None \/ b \in ColorMapped

LEMMA BomOutcome ==
  ASSUME NEW db, DbOK(db), txn.run \in RunIds, NEW b \in Rows
  PROVE  /\ BomSkips(db, b) => BomStep(db, b) = Skipped(db, "bom", b)
         /\ ~BomSkips(db, b) /\ Migrated(db, "bom", b) => BomStep(db, b) = db
         /\ ~BomSkips(db, b) /\ ~Migrated(db, "bom", b) =>
              \E got : /\ Got(db, got, txn.run, <<"bom", b>>, BomRow(ProductMap(db, Ref[b])))
                       /\ LineOutcome(got, BomStep(db, b), b, got.maps[<<"bom", b>>].new)
<1>1. ASSUME ~BomSkips(db, b), ~Migrated(db, "bom", b)
      PROVE  \E got : /\ Got(db, got, txn.run, <<"bom", b>>, BomRow(ProductMap(db, Ref[b])))
                      /\ LineOutcome(got, BomStep(db, b), b, got.maps[<<"bom", b>>].new)
  <2> DEFINE product == ProductMap(db, Ref[b])
             got == GotOrCreated(db, "bom", b, BomRow(product))
  <2>1. product \in Nat
    BY <1>1, ProductFound, IndexNat DEF ProductLike, BomSkips
  <2>2. BomRow(product) \in V2Row
    BY <2>1, RecordTyped DEF BomRow, Tables
  <2>3. Got(db, got, txn.run, <<"bom", b>>, BomRow(product))
    BY <2>2, FoundOrAdded DEF Types
  <2>4. BomStep(db, b) = LineStep(got, b, got.maps[<<"bom", b>>].new)
    BY <1>1, Zenon DEF BomStep, BomSkips, BomRow
  <2> HIDE DEF got
  <2>5. DbOK(got) /\ got.maps[<<"bom", b>>].new \in Nat
    BY <2>3, IndexNat DEF Got, Grows
  <2>6. LineOutcome(got, BomStep(db, b), b, got.maps[<<"bom", b>>].new)
    BY <2>4, <2>5, LineOutcomes
  <2>7. QED
    BY <2>3, <2>6
<1>2. BomSkips(db, b) => BomStep(db, b) = Skipped(db, "bom", b)
  BY Zenon DEF BomStep, BomSkips
<1>3. ~BomSkips(db, b) /\ Migrated(db, "bom", b) => BomStep(db, b) = db
  BY Zenon DEF BomStep, BomSkips
<1>4. QED
  BY <1>1, <1>2, <1>3

BomKeys(b) == {<<"bom", b>>, <<"bom_item", b>>, <<"bom_item_material_rule", b>>}

\* The maps a mapper writes for the row r, and the tables it adds rows to.
KeysOf(r) ==
    CASE Kind[r] = "material" -> {<<"material", r>>} \cup RawKeys
      [] Kind[r] = "bom"      -> BomKeys(r)
      [] Kind[r] = "order"    -> {}
      [] OTHER                -> {<<TypeOf(Kind[r]), r>>}

TablesOf ==
    [category |-> {"ProductCategory"}, product |-> {"Product"}, customer |-> {"Customer"},
     worker |-> {"Worker"}, material |-> {"Item"}, raw |-> {"Item"}, part |-> {"ProductPart"},
     variation |-> {"ProductionPart"}, bom |-> {"BOM", "BOMItem", "Rule"},
     process |-> {"PaintingProcess"}, stage |-> {"PaintingProcessStage"}, order |-> {}]

\* What the mapper of a kind does is what a step does with a row of it.
LEMMA SteppedIs ==
  ASSUME NEW db, NEW r \in Rows
  PROVE  /\ Kind[r] = "category" => Stepped(db, r) = CategoryStep(db, r)
         /\ Kind[r] = "product" => Stepped(db, r) = ProductStep(db, r)
         /\ Kind[r] = "customer" => Stepped(db, r) = CustomerStep(db, r)
         /\ Kind[r] = "worker" => Stepped(db, r) = WorkerStep(db, r)
         /\ Kind[r] = "material" => Stepped(db, r) = MaterialStep(db, r)
         /\ Kind[r] = "raw" => Stepped(db, r) = RawStep(db, r)
         /\ Kind[r] = "part" => Stepped(db, r) = PartStep(db, r)
         /\ Kind[r] = "variation" => Stepped(db, r) = VariationStep(db, r)
         /\ Kind[r] = "bom" => Stepped(db, r) = BomStep(db, r)
         /\ Kind[r] = "process" => Stepped(db, r) = ProcessStep(db, r)
         /\ Kind[r] = "stage" => Stepped(db, r) = StageStep(db, r)
         /\ Kind[r] = "order" => Stepped(db, r) = db
BY DEF Stepped

LEMMA KeysAre ==
  ASSUME NEW r \in Rows
  PROVE  /\ Kind[r] = "category" => KeysOf(r) = {<<"product_category", r>>}
                                    /\ TypeOf(Kind[r]) = "product_category"
         /\ Kind[r] = "raw" => KeysOf(r) = {<<"raw_material", r>>}
                               /\ TypeOf(Kind[r]) = "raw_material"
         /\ Kind[r] = "variation" => KeysOf(r) = {<<"production_part", r>>}
                                     /\ TypeOf(Kind[r]) = "production_part"
         /\ Kind[r] = "process" => KeysOf(r) = {<<"painting_process", r>>}
                                   /\ TypeOf(Kind[r]) = "painting_process"
         /\ Kind[r] = "stage" => KeysOf(r) = {<<"painting_stage", r>>}
                                 /\ TypeOf(Kind[r]) = "painting_stage"
         /\ Kind[r] = "product" => KeysOf(r) = {<<"product", r>>}
         /\ Kind[r] = "customer" => KeysOf(r) = {<<"customer", r>>}
         /\ Kind[r] = "worker" => KeysOf(r) = {<<"worker", r>>}
         /\ Kind[r] = "part" => KeysOf(r) = {<<"part", r>>}
         /\ Kind[r] = "material" => KeysOf(r) = {<<"material", r>>} \cup RawKeys
         /\ Kind[r] = "bom" => KeysOf(r) = BomKeys(r)
         /\ Kind[r] = "order" => KeysOf(r) = {}
         /\ Kind[r] \in {"product", "customer", "worker", "material", "part", "bom"}
               => TypeOf(Kind[r]) = Kind[r]
BY DEF KeysOf, TypeOf

LEMMA LineGrows ==
  ASSUME NEW got, DbOK(got), txn.run \in RunIds, NEW b \in Rows, NEW bom, NEW new,
         LineOutcome(got, new, b, bom)
  PROVE  /\ Grows(got, new, txn.run, {<<"bom_item", b>>, <<"bom_item_material_rule", b>>},
                  {"BOMItem", "Rule"})
         /\ <<"bom_item", b>> \in DOMAIN new.maps
         /\ <<"bom_item", b>> \notin DOMAIN got.maps =>
               new.maps[<<"bom_item", b>>].run = txn.run
<1> DEFINE key == <<"bom_item", b>>
           rule == <<"bom_item_material_rule", b>>
<1>1. CASE new = Skipped(got, "bom_item", b)
  <2>1. /\ Grows(got, new, txn.run, {key}, {}) /\ key \in DOMAIN new.maps
        /\ key \notin DOMAIN got.maps => new.maps[key] = [new |-> None, run |-> txn.run]
    BY <1>1, SkippedGrows DEF Types
  <2>2. Grows(got, new, txn.run, {key, rule}, {"BOMItem", "Rule"})
    BY <2>1, GrowsMore
  <2>3. QED
    BY <2>1, <2>2
<1>2. ASSUME NEW mid, NEW part, Got(got, mid, txn.run, key, ItemRow(bom, part)),
             Grows(mid, new, txn.run, {rule}, {"Rule"})
      PROVE  /\ Grows(got, new, txn.run, {key, rule}, {"BOMItem", "Rule"})
             /\ key \in DOMAIN new.maps /\ new.maps[key].run = txn.run
  <2>1. ItemRow(bom, part).table = "BOMItem"
    BY DEF ItemRow, Record
  <2>2. Grows(got, mid, txn.run, {key}, {"BOMItem"}) /\ DbOK(mid) /\ key \in DOMAIN mid.maps
        /\ mid.maps[key].run = txn.run
    BY <1>2, <2>1 DEF Got, Grows
  <2>3. Grows(got, new, txn.run, {key} \cup {rule}, {"BOMItem"} \cup {"Rule"})
    BY <1>2, <2>2, GrowsTransitive DEF RunIds
  <2>4. key # rule
    OBVIOUS
  <2>5. key \in DOMAIN new.maps /\ new.maps[key] = mid.maps[key]
    BY <1>2, <2>2, <2>4 DEF Grows
  <2>6. QED
    BY <2>2, <2>3, <2>5, GrowsMore
<1>3. QED
  BY <1>1, <1>2, Zenon DEF LineOutcome

LEMMA BomGrows ==
  ASSUME NEW db, DbOK(db), txn.run \in RunIds, NEW b \in Rows
  PROVE  /\ Grows(db, BomStep(db, b), txn.run, BomKeys(b), {"BOM", "BOMItem", "Rule"})
         /\ <<"bom", b>> \in DOMAIN BomStep(db, b).maps
<1> DEFINE new == BomStep(db, b)
           key == <<"bom", b>>
<1>1. CASE BomSkips(db, b)
  <2>1. new = Skipped(db, "bom", b)
    BY <1>1, BomOutcome
  <2>2. Grows(db, new, txn.run, {key}, {}) /\ key \in DOMAIN new.maps
    BY <2>1, SkippedGrows DEF Types
  <2>3. QED
    BY <2>2, GrowsMore DEF BomKeys
<1>2. CASE ~BomSkips(db, b) /\ Migrated(db, "bom", b)
  <2>1. new = db
    BY <1>2, BomOutcome
  <2>2. QED
    BY <2>1, <1>2, GrowsNot DEF Migrated
<1>3. CASE ~BomSkips(db, b) /\ ~Migrated(db, "bom", b)
  <2>1. PICK got : /\ Got(db, got, txn.run, key, BomRow(ProductMap(db, Ref[b])))
                   /\ LineOutcome(got, new, b, got.maps[key].new)
    BY <1>3, BomOutcome
  <2>2. BomRow(ProductMap(db, Ref[b])).table = "BOM"
    BY DEF BomRow, Record
  <2>3. Grows(db, got, txn.run, {key}, {"BOM"}) /\ DbOK(got) /\ key \in DOMAIN got.maps
    BY <2>1, <2>2 DEF Got, Grows
  <2> HIDE DEF new
  <2>4. Grows(got, new, txn.run, {<<"bom_item", b>>, <<"bom_item_material_rule", b>>},
              {"BOMItem", "Rule"})
    BY <2>1, <2>3, LineGrows
  <2>5. Grows(db, new, txn.run,
              {key} \cup {<<"bom_item", b>>, <<"bom_item_material_rule", b>>},
              {"BOM"} \cup {"BOMItem", "Rule"})
    BY <2>3, <2>4, GrowsTransitive DEF RunIds
  <2>6. Grows(db, new, txn.run, BomKeys(b), {"BOM", "BOMItem", "Rule"})
    BY <2>5, GrowsMore DEF BomKeys
  <2>7. QED
    BY <2>3, <2>4, <2>6 DEF new, Grows
<1>4. QED
  BY <1>1, <1>2, <1>3

\* A step of a run adds to the tables of its row's kind, writes its row's maps, and
\* leaves the row accounted for.
LEMMA StepGrows ==
  ASSUME NEW db, DbOK(db), txn.run \in RunIds, NEW r \in Rows, v1 \subseteq Rows
  PROVE  /\ Grows(db, Stepped(db, r), txn.run, KeysOf(r), TablesOf[Kind[r]])
         /\ Kind[r] # "order" => <<TypeOf(Kind[r]), r>> \in DOMAIN Stepped(db, r).maps
<1>0. ASSUME NEW type \in Types, NEW skip, NEW row,
             Outcome(db, Stepped(db, r), skip, type, r, row), KeysOf(r) = {<<type, r>>},
             TypeOf(Kind[r]) = type, TablesOf[Kind[r]] = {row.table}
      PROVE  /\ Grows(db, Stepped(db, r), txn.run, KeysOf(r), TablesOf[Kind[r]])
             /\ <<TypeOf(Kind[r]), r>> \in DOMAIN Stepped(db, r).maps
  <2>1. /\ Grows(db, Stepped(db, r), txn.run, {<<type, r>>}, {row.table})
        /\ <<type, r>> \in DOMAIN Stepped(db, r).maps
    BY <1>0, OutcomeGrows
  <2>2. QED
    BY <1>0, <2>1
<1>1. ASSUME NEW kind, NEW type \in Types, NEW table \in Tables, Kind[r] = kind,
             Stepped(db, r) = Named(db, type, table, r), KeysOf(r) = {<<type, r>>},
             TypeOf(Kind[r]) = type, TablesOf[kind] = {table}
      PROVE  /\ Grows(db, Stepped(db, r), txn.run, KeysOf(r), TablesOf[Kind[r]])
             /\ <<TypeOf(Kind[r]), r>> \in DOMAIN Stepped(db, r).maps
  <2>1. Outcome(db, Named(db, type, table, r), Strip[Name[r]] = 0, type, r, NamedRow(table, r))
    BY NamedOutcome
  <2>2. NamedRow(table, r).table = table
    BY DEF NamedRow, Record
  <2>3. QED
    BY <1>0, <1>1, <2>1, <2>2
<1>2. CASE Kind[r] = "category"
  <2>1. Stepped(db, r) = Named(db, "product_category", "ProductCategory", r)
    BY <1>2, SteppedIs DEF CategoryStep
  <2>2. TablesOf["category"] = {"ProductCategory"}
    BY DEF TablesOf
  <2>3. QED
    BY <1>1, <1>2, <2>1, <2>2, KeysAre DEF Types, Tables
<1>3. CASE Kind[r] = "customer"
  <2>1. Stepped(db, r) = Named(db, "customer", "Customer", r)
    BY <1>3, SteppedIs DEF CustomerStep
  <2>2. TablesOf["customer"] = {"Customer"}
    BY DEF TablesOf
  <2>3. QED
    BY <1>1, <1>3, <2>1, <2>2, KeysAre DEF Types, Tables
<1>4. CASE Kind[r] = "worker"
  <2>1. Stepped(db, r) = Named(db, "worker", "Worker", r)
    BY <1>4, SteppedIs DEF WorkerStep
  <2>2. TablesOf["worker"] = {"Worker"}
    BY DEF TablesOf
  <2>3. QED
    BY <1>1, <1>4, <2>1, <2>2, KeysAre DEF Types, Tables
<1>5. CASE Kind[r] = "process"
  <2>1. Stepped(db, r) = Named(db, "painting_process", "PaintingProcess", r)
    BY <1>5, SteppedIs DEF ProcessStep
  <2>2. TablesOf["process"] = {"PaintingProcess"}
    BY DEF TablesOf
  <2>3. QED
    BY <1>1, <1>5, <2>1, <2>2, KeysAre DEF Types, Tables
<1>6. CASE Kind[r] = "product"
  <2>1. Outcome(db, Stepped(db, r), CatMap(db, Ref[r]) = None, "product", r, ProductRow(db, r))
    BY <1>6, SteppedIs, ProductOutcome
  <2>2. ProductRow(db, r).table = "Product" /\ TablesOf["product"] = {"Product"}
    BY DEF ProductRow, Record, TablesOf
  <2>3. "product" \in Types /\ TypeOf(Kind[r]) = "product" /\ KeysOf(r) = {<<"product", r>>}
    BY <1>6, KeysAre DEF Types
  <2>4. QED
    BY <1>0, <1>6, <2>1, <2>2, <2>3
<1>7. CASE Kind[r] = "raw"
  <2>1. Outcome(db, Stepped(db, r), FALSE, "raw_material", r,
                Record("Item", <<r, 1>>, Name[r], None, {}))
    <3>1. Stepped(db, r) = RawStep(db, r)
      BY <1>7, SteppedIs
    <3>2. QED
      BY <3>1, RawOutcome
  <2>2. Record("Item", <<r, 1>>, Name[r], None, {}).table = "Item" /\ TablesOf["raw"] = {"Item"}
    BY DEF Record, TablesOf
  <2>3. "raw_material" \in Types /\ TypeOf(Kind[r]) = "raw_material"
        /\ KeysOf(r) = {<<"raw_material", r>>}
    BY <1>7, KeysAre DEF Types
  <2>4. QED
    BY <1>0, <1>7, <2>1, <2>2, <2>3
<1>8. CASE Kind[r] = "part"
  <2>1. Outcome(db, Stepped(db, r), ProductMap(db, BomProduct(r)) = None, "part", r, PartRow(db, r))
    <3>1. Outcome(db, PartStep(db, r), ProductMap(db, BomProduct(r)) = None, "part", r,
                  PartRow(db, r))
      BY PartOutcome
    <3>2. Stepped(db, r) = PartStep(db, r)
      BY <1>8, SteppedIs
    <3>3. QED
      BY <3>1, <3>2, Zenon
  <2>2. PartRow(db, r).table = "ProductPart" /\ TablesOf["part"] = {"ProductPart"}
    BY DEF PartRow, Record, TablesOf
  <2>3. "part" \in Types /\ TypeOf(Kind[r]) = "part" /\ KeysOf(r) = {<<"part", r>>}
    BY <1>8, KeysAre DEF Types
  <2>4. QED
    BY <1>0, <1>8, <2>1, <2>2, <2>3
<1>9. CASE Kind[r] = "variation"
  <2>1. Outcome(db, Stepped(db, r),
                PartMap(db, Ref[r]) = None \/ ProductMap(db, BomProduct(Ref[r])) = None,
                "production_part", r, VariationRow(db, r))
    BY <1>9, SteppedIs, VariationOutcome
  <2>2. VariationRow(db, r).table = "ProductionPart" /\ TablesOf["variation"] = {"ProductionPart"}
    BY DEF VariationRow, Record, TablesOf
  <2>3. "production_part" \in Types /\ TypeOf(Kind[r]) = "production_part"
        /\ KeysOf(r) = {<<"production_part", r>>}
    BY <1>9, KeysAre DEF Types
  <2>4. QED
    BY <1>0, <1>9, <2>1, <2>2, <2>3
<1>10. CASE Kind[r] = "stage"
  <2>1. Outcome(db, Stepped(db, r), ProcessMap(db, Ref[r]) = None, "painting_stage", r,
                StageRow(db, r))
    BY <1>10, SteppedIs, StageOutcome
  <2>2. StageRow(db, r).table = "PaintingProcessStage"
        /\ TablesOf["stage"] = {"PaintingProcessStage"}
    BY DEF StageRow, Record, TablesOf
  <2>3. "painting_stage" \in Types /\ TypeOf(Kind[r]) = "painting_stage"
        /\ KeysOf(r) = {<<"painting_stage", r>>}
    BY <1>10, KeysAre DEF Types
  <2>4. QED
    BY <1>0, <1>10, <2>1, <2>2, <2>3
<1>11. CASE Kind[r] = "material"
  <2> DEFINE new == MaterialStep(db, r)
             key == <<"material", r>>
             skip == Cardinality(Candidates(r)) > 1
  <2>1. Stepped(db, r) = new /\ KeysOf(r) = {key} \cup RawKeys /\ TypeOf(Kind[r]) = "material"
        /\ TablesOf[Kind[r]] = {"Item"}
    BY <1>11, SteppedIs, KeysAre DEF TablesOf
  <2>2. /\ skip => new = Skipped(db, "material", r)
        /\ ~skip /\ Migrated(db, "material", r) => new = db
        /\ ~skip /\ ~Migrated(db, "material", r) =>
             Grows(db, new, txn.run, {key} \cup RawKeys, {"Item"}) /\ Migrated(new, "material", r)
    BY MaterialOutcome
  <2> HIDE DEF new, skip
  <2>3. CASE skip
    <3>1. Grows(db, new, txn.run, {key}, {}) /\ key \in DOMAIN new.maps
      BY <2>2, <2>3, SkippedGrows DEF Types
    <3>2. QED
      BY <2>1, <3>1, GrowsMore
  <2>4. CASE ~skip /\ Migrated(db, "material", r)
    BY <2>1, <2>2, <2>4, GrowsNot DEF Migrated
  <2>5. CASE ~skip /\ ~Migrated(db, "material", r)
    BY <2>1, <2>2, <2>5 DEF Migrated
  <2>6. QED
    BY <2>3, <2>4, <2>5
<1>12. CASE Kind[r] = "bom"
  <2>1. Stepped(db, r) = BomStep(db, r) /\ KeysOf(r) = BomKeys(r) /\ TypeOf(Kind[r]) = "bom"
        /\ TablesOf[Kind[r]] = {"BOM", "BOMItem", "Rule"}
    BY <1>12, SteppedIs, KeysAre DEF TablesOf
  <2>2. QED
    BY <2>1, BomGrows
<1>13. CASE Kind[r] = "order"
  <2>1. Stepped(db, r) = db /\ KeysOf(r) = {} /\ TablesOf[Kind[r]] = {}
    BY <1>13, SteppedIs, KeysAre DEF TablesOf
  <2>2. QED
    BY <2>1, <1>13, GrowsNot
<1>14. Kind[r] \in Kinds
  BY RowFacts
<1>15. QED
  BY <1>2, <1>3, <1>4, <1>5, <1>6, <1>7, <1>8, <1>9, <1>10, <1>11, <1>12, <1>13, <1>14
     DEF Kinds, Rank

(* BOM lines and their items                                                 *)

\* A BOM line that was migrated has a map for its item, of the same run, and no
\* other BOM line has one.
Paired(db, b) ==
    /\ <<"bom_item", b>> \in DOMAIN db.maps <=> Migrated(db, "bom", b)
    /\ Migrated(db, "bom", b) => db.maps[<<"bom_item", b>>].run = db.maps[<<"bom", b>>].run

Sound(db) == DbOK(db) /\ \A b \in Rows : Paired(db, b)

LEMMA PairUntouched ==
  ASSUME NEW db, NEW new, NEW run, NEW K, NEW T, Grows(db, new, run, K, T),
         NEW b, Paired(db, b), <<"bom", b>> \notin K, <<"bom_item", b>> \notin K
  PROVE  Paired(new, b)
<1> DEFINE bom == <<"bom", b>>
           item == <<"bom_item", b>>
<1>1. /\ bom \in DOMAIN new.maps <=> bom \in DOMAIN db.maps
      /\ bom \in DOMAIN db.maps => new.maps[bom] = db.maps[bom]
  BY DEF Grows
<1>2. /\ item \in DOMAIN new.maps <=> item \in DOMAIN db.maps
      /\ item \in DOMAIN db.maps => new.maps[item] = db.maps[item]
  BY DEF Grows
<1>3. QED
  BY <1>1, <1>2 DEF Paired, Migrated

LEMMA BomStaysPaired ==
  ASSUME NEW db, DbOK(db), txn.run \in RunIds, NEW b \in Rows, Paired(db, b)
  PROVE  Paired(BomStep(db, b), b)
<1> DEFINE new == BomStep(db, b)
           bom == <<"bom", b>>
           item == <<"bom_item", b>>
           rule == <<"bom_item_material_rule", b>>
<1>0. bom # item /\ bom # rule /\ item # rule
  OBVIOUS
<1>1. CASE BomSkips(db, b)
  <2>1. new = Skipped(db, "bom", b)
    BY <1>1, BomOutcome
  <2>2. CASE bom \in DOMAIN db.maps
    BY <2>1, <2>2 DEF Skipped
  <2>3. CASE bom \notin DOMAIN db.maps
    <3>1. /\ Grows(db, new, txn.run, {bom}, {})
          /\ new.maps[bom] = [new |-> None, run |-> txn.run]
      BY <2>1, <2>3, SkippedGrows DEF Types
    <3>2. item \notin DOMAIN db.maps
      BY <2>3 DEF Paired, Migrated
    <3>3. item \notin DOMAIN new.maps
      BY <3>1, <3>2, <1>0 DEF Grows
    <3>4. ~Migrated(new, "bom", b)
      BY <3>1 DEF Migrated
    <3>5. QED
      BY <3>3, <3>4 DEF Paired
  <2>4. QED
    BY <2>2, <2>3
<1>2. CASE ~BomSkips(db, b) /\ Migrated(db, "bom", b)
  <2>1. new = db
    BY <1>2, BomOutcome
  <2>2. QED
    BY <2>1
<1>3. CASE ~BomSkips(db, b) /\ ~Migrated(db, "bom", b)
  <2>1. PICK got : /\ Got(db, got, txn.run, bom, BomRow(ProductMap(db, Ref[b])))
                   /\ LineOutcome(got, new, b, got.maps[bom].new)
    BY <1>3, BomOutcome
  <2>2. /\ Grows(db, got, txn.run, {bom}, {"BOM"}) /\ DbOK(got)
        /\ bom \in DOMAIN got.maps /\ got.maps[bom].run = txn.run
    <3>1. BomRow(ProductMap(db, Ref[b])).table = "BOM"
      BY DEF BomRow, Record
    <3>2. QED
      BY <2>1, <3>1 DEF Got, Grows
  <2>3. Migrated(got, "bom", b)
    BY <2>1, GotMigrates
  <2>4. item \notin DOMAIN got.maps
    <3>1. item \notin DOMAIN db.maps
      BY <1>3 DEF Paired
    <3>2. QED
      BY <3>1, <2>2, <1>0 DEF Grows
  <2> HIDE DEF new
  <2>5. /\ Grows(got, new, txn.run, {item, rule}, {"BOMItem", "Rule"})
        /\ item \in DOMAIN new.maps /\ new.maps[item].run = txn.run
    BY <2>1, <2>2, <2>4, LineGrows
  <2>6. bom \in DOMAIN new.maps /\ new.maps[bom] = got.maps[bom]
    BY <2>2, <2>5, <1>0 DEF Grows
  <2>7. Migrated(new, "bom", b) /\ new.maps[bom].run = txn.run
    BY <2>2, <2>3, <2>6 DEF Migrated
  <2>8. QED
    BY <2>5, <2>7 DEF Paired, new
<1>4. QED
  BY <1>1, <1>2, <1>3

LEMMA KeysElsewhere ==
  ASSUME NEW r \in Rows, NEW b, ~(Kind[r] = "bom" /\ b = r)
  PROVE  <<"bom", b>> \notin KeysOf(r) /\ <<"bom_item", b>> \notin KeysOf(r)
<1>1. Kind[r] \in Kinds
  BY RowFacts
<1>2. CASE Kind[r] = "bom"
  BY <1>2, KeysAre DEF BomKeys
<1>3. CASE Kind[r] = "material"
  BY <1>3, KeysAre DEF RawKeys
<1>4. CASE Kind[r] \in {"category", "product", "customer", "worker"}
  BY <1>4, KeysAre
<1>5. CASE Kind[r] \in {"raw", "part", "variation", "process", "stage", "order"}
  BY <1>5, KeysAre
<1>6. QED
  BY <1>1, <1>2, <1>3, <1>4, <1>5 DEF Kinds, Rank

LEMMA StepSound ==
  ASSUME NEW db, Sound(db), txn.run \in RunIds, NEW r \in Rows, v1 \subseteq Rows
  PROVE  Sound(Stepped(db, r))
<1> DEFINE new == Stepped(db, r)
<1>1. Grows(db, new, txn.run, KeysOf(r), TablesOf[Kind[r]])
  BY StepGrows DEF Sound
<1>2. DbOK(new)
  BY <1>1 DEF Grows
<1>3. ASSUME NEW b \in Rows
      PROVE  Paired(new, b)
  <2>1. CASE Kind[r] = "bom" /\ b = r
    <3>1. new = BomStep(db, b)
      BY <2>1, SteppedIs
    <3>2. QED
      BY <3>1, BomStaysPaired DEF Sound
  <2>2. CASE ~(Kind[r] = "bom" /\ b = r)
    BY <1>1, <2>2, KeysElsewhere, PairUntouched DEF Sound
  <2>3. QED
    BY <2>1, <2>2
<1>4. QED
  BY <1>2, <1>3 DEF Sound

(* The inductive invariant                                                   *)

\* The tables to which the open transaction would go back.
Snapshot == [v2 |-> txn.v2, maps |-> txn.maps, next |-> txn.next]

Resolves(db) == \A k \in DOMAIN db.maps : db.maps[k].new \in DOMAIN db.v2 \cup {None}

\* The maps m belong to runs that are there and that committed.
OfDoneRuns(m) ==
    \A k \in DOMAIN m :
        m[k].run \in DOMAIN runs /\ runs[m[k].run].status \in {"running", "completed"}

\* The variables besides the tables.
OthersTyped ==
    /\ v1 \subseteq Rows
    /\ DOMAIN runs \subseteq RunIds /\ \A r \in DOMAIN runs : runs[r] \in RunRow
    /\ proc \in [RunIds -> {"none", "start", "open", "committed", "raised", "ended"}]
    /\ txn.run \in RunIds \cup {None} /\ txn.todo \subseteq Rows
    /\ settled \in BOOLEAN /\ mixed \in BOOLEAN

\* How far the process of a run is, and what its row says.
ProcessesKnown ==
    /\ \A r \in RunIds : proc[r] = "none" => r \notin DOMAIN runs
    /\ \A r \in DOMAIN runs : proc[r] \in {"start", "open", "raised"} =>
          runs[r].status = "pending"
    /\ \A r \in RunIds : proc[r] = "open" <=> txn.run = r

MasterRows == v1 \ OfKind("order")

\* Rows of the phase that are not to be done any more are accounted for.
Accounted ==
    runs[txn.run].phase = "master-data" =>
        \A r \in MasterRows \ txn.todo : <<TypeOf(Kind[r]), r>> \in DOMAIN maps

\* An open transaction: what it would go back to, and what it has done.
TxnKnown ==
    /\ txn = [run |-> txn.run, todo |-> txn.todo, v2 |-> txn.v2, maps |-> txn.maps,
              next |-> txn.next]
    /\ Open => /\ txn.run \in DOMAIN runs
               /\ Sound(Snapshot) /\ OfDoneRuns(txn.maps)
               /\ ~mixed => Resolves(Snapshot)
               /\ Accounted

MigInv ==
    /\ OthersTyped /\ Sound(Db) /\ MapsResolve /\ FailedRunsLeaveNothing
    /\ ProcessesKnown /\ TxnKnown

LEMMA Typed == MigInv => TypeOK
BY DEF MigInv, OthersTyped, Sound, DbOK, Db, TypeOK

LEMMA DbFields == Db.v2 = v2 /\ Db.maps = maps /\ Db.next = next /\ IsDb(Db)
BY DEF Db, IsDb

LEMMA MigInit == Init => MigInv
<1> SUFFICES ASSUME Init
             PROVE  MigInv
  OBVIOUS
<1> USE DEF Init
<1>1. OthersTyped
  <2>1. v1 \subseteq Rows /\ DOMAIN runs = {} /\ settled = FALSE /\ mixed = FALSE
    BY MigrationAssumption DEF MigrationAssumption
  <2>2. proc \in [RunIds -> {"none", "start", "open", "committed", "raised", "ended"}]
    OBVIOUS
  <2>3. txn.run = None /\ txn.todo = {}
    BY DEF NoTxn
  <2>4. QED
    BY <2>1, <2>2, <2>3, Zenon DEF OthersTyped
<1>2. Sound(Db)
  <2>1. DOMAIN v2 = {} /\ DOMAIN maps = {}
    OBVIOUS
  <2>2. IsTable(v2) /\ IsTable(maps)
    BY DEF IsTable
  <2>3. DbOK(Db)
    BY <2>1, <2>2, DbFields DEF DbOK
  <2>4. QED
    BY <2>1, <2>3, DbFields DEF Sound, Paired, Migrated
<1>3. MapsResolve /\ FailedRunsLeaveNothing
  BY DEF MapsResolve, FailedRunsLeaveNothing
<1>4. ProcessesKnown
  BY DEF ProcessesKnown, NoTxn, RunIds, None
<1>5. TxnKnown
  BY DEF TxnKnown, NoTxn, Open
<1>6. QED
  BY <1>1, <1>2, <1>3, <1>4, <1>5 DEF MigInv

\* A run is created.
LEMMA CreateRunStep ==
  ASSUME MigInv, NEW phase \in Phases, CreateRun(phase)
  PROVE  MigInv'
<1>1. PICK r \in RunIds :
        /\ proc[r] = "none" /\ ~Open
        /\ runs' = Put(runs, r, [phase |-> phase, status |-> "pending"])
        /\ proc' = [proc EXCEPT ![r] = "start"]
        /\ UNCHANGED <<v1, tables, txn, settled, mixed>>
  BY Zenon DEF CreateRun
<1> DEFINE row == [phase |-> phase, status |-> "pending"]
<1>2. /\ v1' = v1 /\ v2' = v2 /\ maps' = maps /\ next' = next /\ txn' = txn
      /\ settled' = settled /\ mixed' = mixed
  BY <1>1 DEF tables
<1>3. row \in RunRow
  BY MigrationAssumption DEF MigrationAssumption, RunRow
<1>4. DOMAIN runs' = DOMAIN runs \cup {r} /\ runs'[r] = row
      /\ \A q \in DOMAIN runs : q # r => runs'[q] = runs[q]
  BY <1>1 DEF Put
<1>5. r \notin DOMAIN runs
  BY <1>1 DEF MigInv, ProcessesKnown
<1>6. row.status = "pending"
  OBVIOUS
<1> HIDE DEF row
<1>7. OthersTyped'
  BY <1>1, <1>2, <1>3, <1>4 DEF MigInv, OthersTyped
<1>8. Sound(Db)'
  BY <1>2 DEF MigInv, Db
<1>9. MapsResolve'
  BY <1>2 DEF MigInv, MapsResolve
<1>10. FailedRunsLeaveNothing'
  BY <1>2, <1>4, <1>5 DEF MigInv, FailedRunsLeaveNothing
<1>11. ProcessesKnown'
  BY <1>1, <1>2, <1>4, <1>5, <1>6 DEF MigInv, ProcessesKnown, OthersTyped, Open
<1>12. TxnKnown'
  BY <1>1, <1>2 DEF MigInv, TxnKnown, Open
<1>13. QED
  BY <1>7, <1>8, <1>9, <1>10, <1>11, <1>12 DEF MigInv

\* A transaction is opened.
LEMMA BeginStep ==
  ASSUME MigInv, NEW r \in RunIds, Begin(r)
  PROVE  MigInv'
<1>1. /\ ~Open /\ proc[r] = "start" /\ r \in DOMAIN runs
      /\ txn' = [run |-> r, todo |-> RowsOf(runs[r].phase), v2 |-> v2, maps |-> maps,
                 next |-> next]
      /\ proc' = [proc EXCEPT ![r] = "open"]
  BY DEF Begin
<1>2. /\ v1' = v1 /\ v2' = v2 /\ maps' = maps /\ next' = next /\ runs' = runs
      /\ settled' = settled /\ mixed' = mixed
  BY DEF Begin, tables
<1>3. txn'.run = r /\ txn'.todo = RowsOf(runs[r].phase) /\ txn'.v2 = v2 /\ txn'.maps = maps
      /\ txn'.next = next
  BY <1>1
<1>4. RowsOf(runs[r].phase) \subseteq v1
  BY DEF RowsOf, OfKind
<1>5. r # None /\ txn.run = None
  BY <1>1 DEF RunIds, None, Open
<1>6. OthersTyped'
  BY <1>1, <1>2, <1>3, <1>4 DEF MigInv, OthersTyped
<1>7. Sound(Db)'
  BY <1>2 DEF MigInv, Db
<1>8. MapsResolve'
  BY <1>2 DEF MigInv, MapsResolve
<1>9. OfDoneRuns(maps)
  <2>1. \A q \in RunIds : q # None
    BY DEF RunIds, None
  <2>2. QED
    BY <1>5, <2>1 DEF MigInv, OthersTyped, FailedRunsLeaveNothing, OfDoneRuns
<1>10. FailedRunsLeaveNothing'
  BY <1>2, <1>9 DEF FailedRunsLeaveNothing, OfDoneRuns
<1>11. ProcessesKnown'
  <2>1. \A q \in RunIds : proc[q] # "open"
    BY <1>5 DEF MigInv, ProcessesKnown, RunIds, None
  <2>2. \A q \in RunIds : proc'[q] = "open" <=> q = r
    BY <1>1, <2>1 DEF MigInv, OthersTyped
  <2>3. \A q \in RunIds : proc'[q] = "none" => proc[q] = "none"
    BY <1>1 DEF MigInv, OthersTyped
  <2>4. \A q \in RunIds : proc'[q] \in {"start", "open", "raised"} =>
           proc[q] \in {"start", "open", "raised"}
    BY <1>1 DEF MigInv, OthersTyped
  <2>5. DOMAIN runs \subseteq RunIds
    BY DEF MigInv, OthersTyped
  <2>6. QED
    BY <1>2, <1>3, <2>2, <2>3, <2>4, <2>5 DEF MigInv, ProcessesKnown
<1>12. TxnKnown'
  <2>1. Snapshot' = Db
    BY <1>3 DEF Snapshot, Db
  <2>2. Sound(Snapshot)'
    BY <2>1 DEF MigInv
  <2>3. OfDoneRuns(txn.maps)'
    BY <1>2, <1>3, <1>9 DEF OfDoneRuns
  <2>4. (~mixed => Resolves(Snapshot))'
    BY <1>2, <2>1 DEF MigInv, MapsResolve, Resolves, Db
  <2>5. Accounted'
    BY <1>2, <1>3 DEF Accounted, RowsOf, MasterRows, OfKind
  <2>6. QED
    BY <1>1, <1>2, <1>3, <2>2, <2>3, <2>4, <2>5 DEF TxnKnown
<1>13. QED
  BY <1>6, <1>7, <1>8, <1>10, <1>11, <1>12 DEF MigInv

\* A row is migrated.
LEMMA MigrateRowStep ==
  ASSUME MigInv, MigrateRow
  PROVE  MigInv'
<1> DEFINE r == Least(txn.todo)
           new == Stepped(Db, r)
<1>1. /\ Open /\ txn.todo # {} /\ v2' = new.v2 /\ maps' = new.maps /\ next' = new.next
      /\ txn' = [txn EXCEPT !.todo = @ \ {r}]
  BY DEF MigrateRow
<1>2. v1' = v1 /\ runs' = runs /\ proc' = proc /\ settled' = settled /\ mixed' = mixed
  BY DEF MigrateRow
<1>3. r \in txn.todo /\ r \in Rows
  <2>1. txn.todo \subseteq Rows /\ Rows \subseteq Nat
    BY MigrationAssumption DEF MigInv, OthersTyped, MigrationAssumption
  <2>2. QED
    BY <1>1, <2>1, LeastMember
<1>4. txn.run \in RunIds
  BY <1>1 DEF MigInv, OthersTyped, Open
<1>5. Sound(new)
  BY <1>3, <1>4, StepSound DEF MigInv, OthersTyped
<1>6. /\ Grows(Db, new, txn.run, KeysOf(r), TablesOf[Kind[r]])
      /\ Kind[r] # "order" => <<TypeOf(Kind[r]), r>> \in DOMAIN new.maps
  BY <1>3, <1>4, StepGrows DEF MigInv, OthersTyped, Sound
<1> HIDE DEF r, new
<1>7. Db' = new
  <2>1. new = [v2 |-> new.v2, maps |-> new.maps, next |-> new.next]
    BY <1>5 DEF Sound, DbOK, IsDb
  <2>2. QED
    BY <1>1, <2>1, Zenon DEF Db
<1>8. /\ txn'.run = txn.run /\ txn'.todo = txn.todo \ {r} /\ txn'.v2 = txn.v2
      /\ txn'.maps = txn.maps /\ txn'.next = txn.next
      /\ txn' = [run |-> txn'.run, todo |-> txn'.todo, v2 |-> txn'.v2, maps |-> txn'.maps,
                 next |-> txn'.next]
  <2>1. txn = [run |-> txn.run, todo |-> txn.todo, v2 |-> txn.v2, maps |-> txn.maps,
               next |-> txn.next]
    BY DEF MigInv, TxnKnown
  <2>2. PICK a, b, c, d, e :
          txn = [run |-> a, todo |-> b, v2 |-> c, maps |-> d, next |-> e]
    BY <2>1
  <2>3. txn' = [run |-> a, todo |-> b \ {r}, v2 |-> c, maps |-> d, next |-> e]
    BY <1>1, <2>2
  <2>4. QED
    BY <2>2, <2>3
<1>9. OthersTyped'
  BY <1>2, <1>8 DEF MigInv, OthersTyped
<1>10. Sound(Db)'
  BY <1>5, <1>7
<1>11. /\ \A k \in DOMAIN maps' : KeptOrOwn(Db, new, k, txn.run)
       /\ DOMAIN v2 \subseteq DOMAIN v2' /\ DOMAIN maps \subseteq DOMAIN maps'
       /\ maps' = new.maps /\ v2' = new.v2
  BY <1>1, <1>6, DbFields DEF Grows
<1>12. MapsResolve'
  <2>1. ASSUME ~mixed, NEW k \in DOMAIN maps'
        PROVE  maps'[k].new \in DOMAIN v2' \cup {None}
    <3>1. CASE k \in DOMAIN maps /\ maps'[k] = maps[k]
      BY <1>11, <2>1, <3>1 DEF MigInv, MapsResolve
    <3>2. CASE maps'[k].new \in DOMAIN v2'
      BY <3>2
    <3>3. CASE maps'[k] = [new |-> None, run |-> txn.run]
      BY <3>3
    <3>4. QED
      BY <1>11, <2>1, <3>1, <3>2, <3>3, DbFields DEF KeptOrOwn
  <2>2. QED
    BY <1>2, <2>1 DEF MapsResolve
<1>13. FailedRunsLeaveNothing'
  <2>1. txn.run \in DOMAIN runs
    BY <1>1 DEF MigInv, TxnKnown
  <2>2. ASSUME NEW k \in DOMAIN maps'
        PROVE  /\ maps'[k].run \in DOMAIN runs
               /\ txn.run = maps'[k].run \/ runs[maps'[k].run].status \in {"running", "completed"}
    <3>1. CASE k \in DOMAIN maps /\ maps'[k] = maps[k]
      BY <3>1 DEF MigInv, FailedRunsLeaveNothing
    <3>2. CASE maps'[k].run = txn.run
      BY <2>1, <3>2
    <3>3. CASE maps'[k] = [new |-> None, run |-> txn.run]
      BY <2>1, <3>3
    <3>4. QED
      BY <1>11, <2>2, <3>1, <3>2, <3>3, DbFields DEF KeptOrOwn
  <2>3. QED
    BY <1>2, <1>8, <2>2 DEF FailedRunsLeaveNothing
<1>14. ProcessesKnown'
  BY <1>2, <1>8 DEF MigInv, ProcessesKnown
<1>15. TxnKnown'
  <2>1. Snapshot' = Snapshot
    BY <1>8 DEF Snapshot
  <2>2. txn.run \in DOMAIN runs /\ Sound(Snapshot) /\ OfDoneRuns(txn.maps)
        /\ (~mixed => Resolves(Snapshot)) /\ Accounted
    BY <1>1 DEF MigInv, TxnKnown
  <2>3. Sound(Snapshot)' /\ (~mixed => Resolves(Snapshot))'
    BY <1>2, <2>1, <2>2
  <2>4. OfDoneRuns(txn.maps)'
    BY <1>2, <1>8, <2>2 DEF OfDoneRuns
  <2>5. Accounted'
    <3>1. ASSUME runs[txn.run].phase = "master-data", NEW q \in MasterRows, q \notin txn.todo \ {r}
          PROVE  <<TypeOf(Kind[q]), q>> \in DOMAIN maps'
      <4>1. CASE q = r
        <5>1. Kind[q] # "order"
          BY <3>1 DEF MasterRows, OfKind
        <5>2. QED
          BY <4>1, <5>1, <1>6, <1>11
      <4>2. CASE q # r
        BY <1>11, <2>2, <3>1, <4>2 DEF Accounted
      <4>3. QED
        BY <4>1, <4>2
    <3>2. MasterRows' = MasterRows
      BY <1>2 DEF MasterRows, OfKind
    <3>3. QED
      BY <1>2, <1>8, <3>1, <3>2 DEF Accounted
  <2>6. QED
    BY <1>2, <1>8, <2>2, <2>3, <2>4, <2>5 DEF TxnKnown
<1>16. QED
  BY <1>9, <1>10, <1>12, <1>13, <1>14, <1>15 DEF MigInv

\* No transaction is open.
LEMMA NoTxnFields ==
  /\ NoTxn.run = None /\ NoTxn.todo = {}
  /\ NoTxn = [run |-> NoTxn.run, todo |-> NoTxn.todo, v2 |-> NoTxn.v2, maps |-> NoTxn.maps,
              next |-> NoTxn.next]
BY DEF NoTxn

LEMMA CommitStep ==
  ASSUME MigInv, Commit
  PROVE  MigInv'
<1> DEFINE r == txn.run
<1>1. /\ Open /\ runs' = [runs EXCEPT ![r].status = "running"]
      /\ proc' = [proc EXCEPT ![r] = "committed"]
      /\ settled' = (settled \/ runs[r].phase = "master-data")
      /\ txn' = NoTxn
      /\ v1' = v1 /\ v2' = v2 /\ maps' = maps /\ next' = next /\ mixed' = mixed
  BY DEF Commit, tables
<1>2. r \in RunIds /\ r \in DOMAIN runs /\ proc[r] = "open"
  BY <1>1 DEF MigInv, OthersTyped, TxnKnown, ProcessesKnown, Open
<1>3. /\ DOMAIN runs' = DOMAIN runs /\ runs'[r].status = "running"
      /\ \A q \in DOMAIN runs : q # r => runs'[q] = runs[q]
      /\ \A q \in DOMAIN runs : runs'[q] \in RunRow
  <2>1. \A q \in DOMAIN runs : runs[q] \in RunRow
    BY DEF MigInv, OthersTyped
  <2>2. QED
    BY <1>1, <1>2, <2>1 DEF RunRow
<1>4. \A q \in RunIds : proc'[q] = IF q = r THEN "committed" ELSE proc[q]
  BY <1>1, <1>2 DEF MigInv, OthersTyped
<1>5. proc' \in [RunIds -> {"none", "start", "open", "committed", "raised", "ended"}]
  BY <1>1 DEF MigInv, OthersTyped
<1>6. txn'.run = None /\ txn'.todo = {}
  BY <1>1, NoTxnFields
<1>7. OthersTyped'
  <2>1. settled' \in BOOLEAN
    BY <1>1 DEF MigInv, OthersTyped
  <2>2. QED
    BY <1>1, <1>3, <1>5, <1>6, <2>1 DEF MigInv, OthersTyped
<1>8. Sound(Db)'
  BY <1>1 DEF MigInv, Db
<1>9. MapsResolve'
  BY <1>1 DEF MigInv, MapsResolve
<1>10. FailedRunsLeaveNothing'
  <2>1. ASSUME NEW k \in DOMAIN maps
        PROVE  maps[k].run \in DOMAIN runs /\ runs'[maps[k].run].status \in {"running", "completed"}
    BY <1>3, <2>1 DEF MigInv, FailedRunsLeaveNothing
  <2>2. QED
    BY <1>1, <1>3, <2>1 DEF FailedRunsLeaveNothing
<1>11. ProcessesKnown'
  <2>1. \A q \in RunIds : q # None
    BY DEF RunIds, None
  <2>2. \A q \in RunIds : proc'[q] # "open"
    BY <1>2, <1>4 DEF MigInv, ProcessesKnown
  <2>3. \A q \in RunIds : proc'[q] = "none" => proc[q] = "none"
    BY <1>4
  <2>4. \A q \in RunIds : proc'[q] \in {"start", "open", "raised"} =>
          q # r /\ proc[q] \in {"start", "open", "raised"}
    BY <1>4
  <2>5. DOMAIN runs \subseteq RunIds
    BY DEF MigInv, OthersTyped
  <2>6. QED
    BY <1>3, <1>6, <2>1, <2>2, <2>3, <2>4, <2>5 DEF MigInv, ProcessesKnown
<1>12. TxnKnown'
  BY <1>1, <1>6, NoTxnFields DEF TxnKnown, Open
<1>13. QED
  BY <1>7, <1>8, <1>9, <1>10, <1>11, <1>12 DEF MigInv

\* The transaction is rolled back.
LEMMA UndoGoesBack ==
  ASSUME MigInv, Open, Undo, v1' = v1, runs' = runs, mixed' = mixed
  PROVE  /\ Sound(Db)' /\ MapsResolve' /\ FailedRunsLeaveNothing' /\ TxnKnown'
         /\ txn'.run = None /\ txn'.todo = {}
<1>1. v2' = txn.v2 /\ maps' = txn.maps /\ next' = txn.next /\ txn' = NoTxn
  BY DEF Undo
<1>2. Sound(Snapshot) /\ OfDoneRuns(txn.maps) /\ (~mixed => Resolves(Snapshot))
  BY DEF MigInv, TxnKnown
<1>3. Db' = Snapshot
  BY <1>1 DEF Db, Snapshot
<1>4. Sound(Db)'
  BY <1>2, <1>3
<1>5. MapsResolve'
  BY <1>1, <1>2 DEF MapsResolve, Resolves, Snapshot
<1>6. FailedRunsLeaveNothing'
  BY <1>1, <1>2 DEF FailedRunsLeaveNothing, OfDoneRuns
<1>7. TxnKnown' /\ txn'.run = None /\ txn'.todo = {}
  BY <1>1, NoTxnFields DEF TxnKnown, Open
<1>8. QED
  BY <1>4, <1>5, <1>6, <1>7

LEMMA RaiseStep ==
  ASSUME MigInv, Raise
  PROVE  MigInv'
<1> DEFINE r == txn.run
<1>1. /\ Open /\ Undo /\ proc' = [proc EXCEPT ![r] = "raised"]
      /\ v1' = v1 /\ runs' = runs /\ settled' = settled /\ mixed' = mixed
  BY DEF Raise
<1>2. r \in RunIds /\ r \in DOMAIN runs /\ proc[r] = "open"
  BY <1>1 DEF MigInv, OthersTyped, TxnKnown, ProcessesKnown, Open
<1>3. /\ Sound(Db)' /\ MapsResolve' /\ FailedRunsLeaveNothing' /\ TxnKnown'
      /\ txn'.run = None /\ txn'.todo = {}
  BY <1>1, UndoGoesBack
<1>4. \A q \in RunIds : proc'[q] = IF q = r THEN "raised" ELSE proc[q]
  BY <1>1, <1>2 DEF MigInv, OthersTyped
<1>5. OthersTyped'
  BY <1>1, <1>3 DEF MigInv, OthersTyped
<1>6. ProcessesKnown'
  <2>1. \A q \in RunIds : q # None
    BY DEF RunIds, None
  <2>2. \A q \in RunIds : proc'[q] # "open"
    BY <1>2, <1>4 DEF MigInv, ProcessesKnown
  <2>3. \A q \in RunIds : proc'[q] = "none" => proc[q] = "none"
    BY <1>4
  <2>4. \A q \in RunIds : proc'[q] \in {"start", "open", "raised"} =>
          proc[q] \in {"start", "open", "raised"}
    BY <1>2, <1>4
  <2>5. DOMAIN runs \subseteq RunIds
    BY DEF MigInv, OthersTyped
  <2>6. QED
    BY <1>1, <1>3, <2>1, <2>2, <2>3, <2>4, <2>5 DEF MigInv, ProcessesKnown
<1>7. QED
  BY <1>3, <1>5, <1>6 DEF MigInv

\* The process of a run is killed.
LEMMA CrashStep ==
  ASSUME MigInv, NEW r \in RunIds, Crash(r)
  PROVE  MigInv'
<1>1. /\ proc[r] \in {"start", "open", "committed", "raised"}
      /\ proc' = [proc EXCEPT ![r] = "ended"]
      /\ v1' = v1 /\ runs' = runs /\ settled' = settled /\ mixed' = mixed
      /\ IF proc[r] = "open" THEN Undo ELSE UNCHANGED <<tables, txn>>
  BY DEF Crash
<1>2. \A q \in RunIds : proc'[q] = IF q = r THEN "ended" ELSE proc[q]
  BY <1>1 DEF MigInv, OthersTyped
<1>3. /\ Sound(Db)' /\ MapsResolve' /\ FailedRunsLeaveNothing' /\ TxnKnown'
      /\ txn'.run \in RunIds \cup {None} /\ txn'.todo \subseteq Rows
      /\ \A q \in RunIds : q # r => (proc[q] = "open" <=> txn'.run = q)
      /\ txn'.run # r
  <2>1. CASE proc[r] = "open"
    <3>1. txn.run = r /\ r # None /\ \A q \in RunIds : q # None
      BY <2>1 DEF MigInv, ProcessesKnown, RunIds, None
    <3>2. Open /\ Undo
      BY <1>1, <2>1, <3>1 DEF Open
    <3>3. /\ Sound(Db)' /\ MapsResolve' /\ FailedRunsLeaveNothing' /\ TxnKnown'
          /\ txn'.run = None /\ txn'.todo = {}
      BY <1>1, <3>2, UndoGoesBack
    <3>4. \A q \in RunIds : q # r => proc[q] # "open"
      BY <3>1 DEF MigInv, ProcessesKnown
    <3>5. QED
      BY <3>1, <3>3, <3>4
  <2>2. CASE proc[r] # "open"
    <3>1. v2' = v2 /\ maps' = maps /\ next' = next /\ txn' = txn
      BY <1>1, <2>2 DEF tables
    <3>2. Sound(Db)'
      BY <3>1 DEF MigInv, Db
    <3>3. MapsResolve' /\ FailedRunsLeaveNothing'
      BY <1>1, <3>1 DEF MigInv, MapsResolve, FailedRunsLeaveNothing
    <3>4. TxnKnown'
      <4>1. Snapshot' = Snapshot /\ (Open' <=> Open)
        BY <3>1 DEF Snapshot, Open
      <4>2. Accounted' <=> Accounted
        BY <1>1, <3>1 DEF Accounted, MasterRows, OfKind
      <4>3. OfDoneRuns(txn.maps)' <=> OfDoneRuns(txn.maps)
        BY <1>1, <3>1 DEF OfDoneRuns
      <4>4. (Sound(Snapshot))' <=> Sound(Snapshot)
        BY <4>1
      <4>5. (~mixed => Resolves(Snapshot))' <=> (~mixed => Resolves(Snapshot))
        BY <1>1, <4>1
      <4>6. QED
        BY <1>1, <3>1, <4>1, <4>2, <4>3, <4>4, <4>5 DEF MigInv, TxnKnown
    <3>5. /\ txn'.run \in RunIds \cup {None} /\ txn'.todo \subseteq Rows
          /\ \A q \in RunIds : q # r => (proc[q] = "open" <=> txn'.run = q)
          /\ txn'.run # r
      BY <2>2, <3>1 DEF MigInv, OthersTyped, ProcessesKnown
    <3>6. QED
      BY <3>2, <3>3, <3>4, <3>5
  <2>3. QED
    BY <2>1, <2>2
<1>4. OthersTyped'
  BY <1>1, <1>3 DEF MigInv, OthersTyped
<1>5. ProcessesKnown'
  <2>1. \A q \in RunIds : proc'[q] = "none" => proc[q] = "none"
    BY <1>2
  <2>2. \A q \in RunIds : proc'[q] \in {"start", "open", "raised"} =>
          proc[q] \in {"start", "open", "raised"}
    BY <1>2
  <2>3. DOMAIN runs \subseteq RunIds
    BY DEF MigInv, OthersTyped
  <2>4. \A q \in RunIds : proc'[q] = "open" <=> txn'.run = q
    BY <1>2, <1>3
  <2>5. QED
    BY <1>1, <2>1, <2>2, <2>3, <2>4 DEF MigInv, ProcessesKnown
<1>6. QED
  BY <1>3, <1>4, <1>5 DEF MigInv

\* The outcome of a run is written.
LEMMA FinishStep ==
  ASSUME MigInv, NEW r \in RunIds, Finish(r)
  PROVE  MigInv'
<1> DEFINE outcome == IF proc[r] = "committed" THEN "completed" ELSE "failed"
<1>1. /\ ~Open /\ r \in DOMAIN runs /\ proc[r] \in {"committed", "raised"}
      /\ runs' = [runs EXCEPT ![r].status = outcome]
      /\ proc' = [proc EXCEPT ![r] = "ended"]
  BY DEF Finish
<1>2. /\ v1' = v1 /\ v2' = v2 /\ maps' = maps /\ next' = next /\ txn' = txn
      /\ settled' = settled /\ mixed' = mixed
  BY DEF Finish, tables
<1>3. outcome \in {"completed", "failed"}
  OBVIOUS
<1>4. proc[r] = "raised" => runs[r].status = "pending"
  BY <1>1 DEF MigInv, ProcessesKnown
<1>5. proc[r] = "committed" => outcome = "completed"
  OBVIOUS
<1> HIDE DEF outcome
<1>6. /\ DOMAIN runs' = DOMAIN runs /\ runs'[r].status = outcome
      /\ \A q \in DOMAIN runs : q # r => runs'[q] = runs[q]
      /\ \A q \in DOMAIN runs : runs'[q] \in RunRow
  <2>1. \A q \in DOMAIN runs : runs[q] \in RunRow
    BY DEF MigInv, OthersTyped
  <2>2. QED
    BY <1>1, <1>3, <2>1 DEF RunRow
<1>7. \A q \in RunIds : proc'[q] = IF q = r THEN "ended" ELSE proc[q]
  BY <1>1 DEF MigInv, OthersTyped
<1>8. proc' \in [RunIds -> {"none", "start", "open", "committed", "raised", "ended"}]
  BY <1>1 DEF MigInv, OthersTyped
<1>9. OthersTyped'
  BY <1>2, <1>6, <1>8 DEF MigInv, OthersTyped
<1>10. Sound(Db)' /\ MapsResolve'
  BY <1>2 DEF MigInv, Db, MapsResolve
<1>11. FailedRunsLeaveNothing'
  <2>1. \A q \in RunIds : txn.run # q
    BY <1>1 DEF Open, RunIds, None
  <2>2. ASSUME NEW k \in DOMAIN maps
        PROVE  maps[k].run \in DOMAIN runs /\ runs'[maps[k].run].status \in {"running", "completed"}
    <3>1. maps[k].run \in DOMAIN runs /\ runs[maps[k].run].status \in {"running", "completed"}
      BY <2>1 DEF MigInv, OthersTyped, FailedRunsLeaveNothing
    <3>2. CASE maps[k].run = r
      BY <1>1, <1>4, <1>5, <1>6, <3>1, <3>2
    <3>3. CASE maps[k].run # r
      BY <1>6, <3>1, <3>3
    <3>4. QED
      BY <3>2, <3>3
  <2>3. QED
    BY <1>2, <1>6, <2>2 DEF FailedRunsLeaveNothing
<1>12. ProcessesKnown'
  <2>1. \A q \in RunIds : proc'[q] = "none" => proc[q] = "none"
    BY <1>7
  <2>2. \A q \in RunIds : proc'[q] \in {"start", "open", "raised"} =>
          q # r /\ proc[q] \in {"start", "open", "raised"}
    BY <1>7
  <2>3. DOMAIN runs \subseteq RunIds
    BY DEF MigInv, OthersTyped
  <2>4. \A q \in RunIds : proc'[q] = "open" <=> proc[q] = "open"
    BY <1>1, <1>7
  <2>5. QED
    BY <1>2, <1>6, <2>1, <2>2, <2>3, <2>4 DEF MigInv, ProcessesKnown
<1>13. TxnKnown'
  BY <1>1, <1>2 DEF MigInv, TxnKnown, Open
<1>14. QED
  BY <1>9, <1>10, <1>11, <1>12, <1>13 DEF MigInv

\* A run is rolled back.
LEMMA RollBackStep ==
  ASSUME MigInv, NEW r \in RunIds, RollBack(r)
  PROVE  MigInv'
<1> DEFINE gone == DeletedBy(r, Len(DeleteOrder))
           own == OwnMaps(r)
<1>1. /\ ~Open /\ r \in DOMAIN runs
      /\ v2' = Without(v2, gone) /\ maps' = Without(maps, own) /\ runs' = Without(runs, {r})
      /\ settled' = FALSE
      /\ mixed' = (mixed \/ \E k \in DOMAIN maps : maps[k].run # r)
      /\ v1' = v1 /\ next' = next /\ proc' = proc /\ txn' = txn
  BY DEF RollBack
<1>2. own = {k \in DOMAIN maps : maps[k].run = r}
  BY DEF OwnMaps
<1> HIDE DEF gone, own
<1>3. /\ DOMAIN v2' = DOMAIN v2 \ gone /\ \A i \in DOMAIN v2' : v2'[i] = v2[i]
      /\ IsTable(v2')
  BY <1>1 DEF Without, IsTable
<1>4. /\ DOMAIN maps' = DOMAIN maps \ own /\ \A k \in DOMAIN maps' : maps'[k] = maps[k]
      /\ IsTable(maps')
  BY <1>1 DEF Without, IsTable
<1>5. DOMAIN runs' = DOMAIN runs \ {r} /\ \A q \in DOMAIN runs' : runs'[q] = runs[q]
  BY <1>1 DEF Without
<1>6. OthersTyped'
  BY <1>1, <1>5 DEF MigInv, OthersTyped
<1>7. Db'.v2 = v2' /\ Db'.maps = maps' /\ Db'.next = next' /\ IsDb(Db')
  BY DEF Db, IsDb
<1>8. DbOK(Db')
  <2>1. DbOK(Db)
    BY DEF MigInv, Sound
  <2>2. QED
    BY <2>1, <1>1, <1>3, <1>4, <1>7, DbFields DEF DbOK
<1>9. ASSUME NEW b \in Rows
      PROVE  Paired(Db', b)
  <2> DEFINE bom == <<"bom", b>>
             item == <<"bom_item", b>>
  <2>1. /\ item \in DOMAIN maps <=> bom \in DOMAIN maps /\ maps[bom].new # None
        /\ bom \in DOMAIN maps /\ maps[bom].new # None => maps[item].run = maps[bom].run
    BY DbFields DEF MigInv, Sound, Paired, Migrated
  <2>2. /\ item \in DOMAIN maps' <=> bom \in DOMAIN maps' /\ maps'[bom].new # None
        /\ bom \in DOMAIN maps' /\ maps'[bom].new # None => maps'[item].run = maps'[bom].run
    BY <2>1, <1>2, <1>4
  <2>3. QED
    BY <2>2, <1>7 DEF Paired, Migrated
<1>10. MapsResolve'
  <2>1. ASSUME ~mixed' PROVE DOMAIN maps' = {}
    BY <2>1, <1>1, <1>2, <1>4
  <2>2. QED
    BY <2>1 DEF MapsResolve
<1>11. FailedRunsLeaveNothing'
  <2>1. ASSUME NEW k \in DOMAIN maps'
        PROVE  /\ maps'[k].run \in DOMAIN runs'
               /\ txn.run = maps'[k].run \/ runs'[maps'[k].run].status \in {"running", "completed"}
    <3>1. k \in DOMAIN maps /\ maps'[k] = maps[k] /\ maps[k].run # r
      BY <1>2, <1>4, <2>1
    <3>2. /\ maps[k].run \in DOMAIN runs
          /\ txn.run = maps[k].run \/ runs[maps[k].run].status \in {"running", "completed"}
      BY <3>1 DEF MigInv, FailedRunsLeaveNothing
    <3>3. QED
      BY <1>5, <3>1, <3>2
  <2>2. QED
    BY <1>1, <2>1 DEF FailedRunsLeaveNothing
<1>12. ProcessesKnown'
  BY <1>1, <1>5 DEF MigInv, ProcessesKnown
<1>13. TxnKnown'
  BY <1>1 DEF MigInv, TxnKnown, Open
<1>14. QED
  BY <1>6, <1>8, <1>9, <1>10, <1>11, <1>12, <1>13 DEF MigInv, Sound

\* V1 and V2 in daily use.
LEMMA AddRowStep ==
  ASSUME MigInv, NEW r \in Rows, AddRow(r)
  PROVE  MigInv'
<1>1. /\ ~Open /\ v1' = v1 \cup {r} /\ settled' = FALSE
      /\ v2' = v2 /\ maps' = maps /\ next' = next /\ runs' = runs /\ proc' = proc /\ txn' = txn
      /\ mixed' = mixed
  BY DEF AddRow, tables
<1>2. OthersTyped'
  BY <1>1 DEF MigInv, OthersTyped
<1>3. Sound(Db)'
  BY <1>1 DEF MigInv, Db
<1>4. MapsResolve' /\ FailedRunsLeaveNothing' /\ ProcessesKnown'
  BY <1>1 DEF MigInv, MapsResolve, FailedRunsLeaveNothing, ProcessesKnown
<1>5. TxnKnown'
  BY <1>1 DEF MigInv, TxnKnown, Open
<1>6. QED
  BY <1>2, <1>3, <1>4, <1>5 DEF MigInv

LEMMA OfficeStep ==
  ASSUME MigInv, NEW n \in OfficeNames, OfficeAddsCustomer(n)
  PROVE  MigInv'
<1> DEFINE row == Record("Customer", <<n, 0>>, n, None, {})
           new == Created(Db, row)
<1>1. /\ ~Open /\ v2' = new.v2 /\ next' = next + 1 /\ settled' = FALSE
      /\ v1' = v1 /\ maps' = maps /\ runs' = runs /\ proc' = proc /\ txn' = txn
      /\ mixed' = mixed
  BY DEF OfficeAddsCustomer
<1>2. row \in V2Row
  <2>1. "Customer" \in Tables /\ n \in Nat /\ 0 \in Nat /\ None \in Nat
    BY MigrationAssumption DEF MigrationAssumption, Tables, None
  <2>2. QED
    BY <2>1, RecordTyped
<1>3. DbOK(Db)
  BY DEF MigInv, Sound
<1>4. Db' = new
  BY <1>1, DbFields DEF Created, Db
<1> HIDE DEF row
<1>5. Grows(Db, new, None, {}, {row.table})
  BY <1>2, <1>3, CreatedGrows
<1> HIDE DEF new
<1>6. Sound(Db)'
  <2>1. DbOK(new)
    BY <1>5 DEF Grows
  <2>2. ASSUME NEW b \in Rows PROVE Paired(new, b)
    <3>1. Paired(Db, b)
      BY <2>2 DEF MigInv, Sound
    <3> DEFINE keys == {}
    <3>2. <<"bom", b>> \notin keys /\ <<"bom_item", b>> \notin keys
      OBVIOUS
    <3>3. Grows(Db, new, None, keys, {row.table})
      BY <1>5
    <3> HIDE DEF keys
    <3>4. QED
      BY <3>1, <3>2, <3>3, PairUntouched
  <2>3. QED
    BY <1>4, <2>1, <2>2 DEF Sound
<1>7. DOMAIN v2 \subseteq DOMAIN v2'
  BY <1>1, <1>5, DbFields DEF Grows
<1>8. MapsResolve' /\ FailedRunsLeaveNothing' /\ ProcessesKnown'
  BY <1>1, <1>7 DEF MigInv, MapsResolve, FailedRunsLeaveNothing, ProcessesKnown
<1>9. OthersTyped'
  BY <1>1 DEF MigInv, OthersTyped
<1>10. TxnKnown'
  BY <1>1 DEF MigInv, TxnKnown, Open
<1>11. QED
  BY <1>6, <1>8, <1>9, <1>10 DEF MigInv

LEMMA MigStutter ==
  ASSUME MigInv, UNCHANGED vars
  PROVE  MigInv'
<1>1. /\ v1' = v1 /\ v2' = v2 /\ maps' = maps /\ next' = next /\ runs' = runs /\ proc' = proc
      /\ txn' = txn /\ settled' = settled /\ mixed' = mixed
  BY DEF vars, tables
<1>2. OthersTyped' /\ ProcessesKnown'
  BY <1>1 DEF MigInv, OthersTyped, ProcessesKnown
<1>3. Sound(Db)'
  BY <1>1 DEF MigInv, Db
<1>4. MapsResolve' /\ FailedRunsLeaveNothing'
  BY <1>1 DEF MigInv, MapsResolve, FailedRunsLeaveNothing
<1>5. TxnKnown'
  <2>1. Snapshot' = Snapshot /\ (Open' <=> Open)
    BY <1>1 DEF Snapshot, Open
  <2>2. Accounted' <=> Accounted
    BY <1>1 DEF Accounted, MasterRows, OfKind
  <2>3. OfDoneRuns(txn.maps)' <=> OfDoneRuns(txn.maps)
    BY <1>1 DEF OfDoneRuns
  <2>4. (Sound(Snapshot))' <=> Sound(Snapshot)
    BY <2>1
  <2>5. (~mixed => Resolves(Snapshot))' <=> (~mixed => Resolves(Snapshot))
    BY <1>1, <2>1
  <2>6. QED
    BY <1>1, <2>1, <2>2, <2>3, <2>4, <2>5 DEF MigInv, TxnKnown
<1>6. QED
  BY <1>2, <1>3, <1>4, <1>5 DEF MigInv

LEMMA MigNext ==
  ASSUME MigInv, [Next]_vars
  PROVE  MigInv'
<1>1. CASE UNCHANGED vars
  BY <1>1, MigStutter
<1>2. CASE \E phase \in Phases : CreateRun(phase)
  BY <1>2, CreateRunStep
<1>3. CASE \E r \in RunIds : Begin(r) \/ Finish(r) \/ Crash(r) \/ RollBack(r)
  BY <1>3, BeginStep, FinishStep, CrashStep, RollBackStep
<1>4. CASE MigrateRow \/ Commit \/ Raise
  BY <1>4, MigrateRowStep, CommitStep, RaiseStep
<1>5. CASE \E r \in Rows \ v1 : AddRow(r)
  BY <1>5, AddRowStep
<1>6. CASE \E n \in OfficeNames : OfficeAddsCustomer(n)
  BY <1>6, OfficeStep
<1>7. QED
  BY <1>1, <1>2, <1>3, <1>4, <1>5, <1>6 DEF Next

\* The V1 and V2 tables, the maps and the runs keep their types, for any catalogue
\* and any runs of the command.
THEOREM MigrationTypeCorrect == Spec => []TypeOK
<1>1. Spec => []MigInv
  BY MigInit, MigNext, PTL DEF Spec
<1>2. QED
  BY <1>1, Typed, PTL

\* When a master-data run commits, every V1 row of the phase has its map, and every
\* BOM line that was migrated has one for its item too.
THEOREM EveryRowAlwaysAccounted == Spec => EveryRowAccounted
<1> DEFINE All ==
        \A r \in v1 \ OfKind("order") :
            /\ <<TypeOf(Kind[r]), r>> \in DOMAIN maps
            /\ Kind[r] = "bom" /\ Migrated(Db, "bom", r) => <<"bom_item", r>> \in DOMAIN maps
<1>1. ASSUME MigInv, Commit, runs[txn.run].phase = "master-data"
      PROVE  All
  <2>1. Open /\ txn.todo = {}
    BY <1>1 DEF Commit
  <2>2. Accounted
    BY <1>1, <2>1 DEF MigInv, TxnKnown
  <2>3. ASSUME NEW r \in v1 \ OfKind("order")
        PROVE  <<TypeOf(Kind[r]), r>> \in DOMAIN maps
    BY <1>1, <2>1, <2>2, <2>3 DEF Accounted, MasterRows
  <2>4. ASSUME NEW r \in v1, Migrated(Db, "bom", r)
        PROVE  <<"bom_item", r>> \in DOMAIN maps
    BY <1>1, <2>4, DbFields DEF MigInv, OthersTyped, Sound, Paired
  <2>5. QED
    BY <2>3, <2>4
<1>2. Spec => []MigInv
  BY MigInit, MigNext, PTL DEF Spec
<1>3. MigInv => [Commit /\ runs[txn.run].phase = "master-data" => All]_vars
  BY <1>1
<1>4. QED
  BY <1>2, <1>3, PTL DEF EveryRowAccounted

(* Runs over what was migrated before                                        *)

LEMMA CategorySame ==
  ASSUME NEW db, NEW new, NEW run, NEW K, NEW T, Grows(db, new, run, K, T),
         "ProductCategory" \notin T, NEW c
  PROVE  CatMap(new, c) = CatMap(db, c)
<1> DEFINE S(d) == {i \in DOMAIN d.v2 :
             /\ Strip[Name[c]] # 0
             /\ d.v2[i].table = "ProductCategory" /\ d.v2[i].name = Strip[Name[c]]}
<1>1. S(new) = S(db)
  BY DEF Grows
<1>2. CatMap(new, c) = First(S(new)) /\ CatMap(db, c) = First(S(db))
  BY DEF CatMap
<1>3. QED
  BY <1>1, <1>2

LEMMA ProductSame ==
  ASSUME NEW db, NEW new, NEW run, NEW K, NEW T, Grows(db, new, run, K, T),
         "ProductCategory" \notin T, "Product" \notin T, NEW p
  PROVE  ProductMap(new, p) = ProductMap(db, p)
<1> DEFINE S(d, cat) == {i \in DOMAIN d.v2 :
                  /\ d.v2[i].table = "Product" /\ d.v2[i].name = Name[p]
                  /\ d.v2[i].uses = {cat}}
<1>1. CatMap(new, Ref[p]) = CatMap(db, Ref[p])
  BY CategorySame
<1>2. \A cat : S(new, cat) = S(db, cat)
  BY DEF Grows
<1>3. \A d : ProductMap(d, p) = IF p = None \/ CatMap(d, Ref[p]) = None THEN None
                                ELSE First(S(d, CatMap(d, Ref[p])))
  BY Zenon DEF ProductMap
<1> HIDE DEF S
<1>4. QED
  BY <1>1, <1>2, <1>3

LEMMA PartSame ==
  ASSUME NEW db, NEW new, NEW run, NEW K, NEW T, Grows(db, new, run, K, T),
         "ProductCategory" \notin T, "Product" \notin T, "ProductPart" \notin T, NEW p
  PROVE  PartMap(new, p) = PartMap(db, p)
<1> DEFINE S(d, product) == {i \in DOMAIN d.v2 :
                  /\ d.v2[i].table = "ProductPart" /\ d.v2[i].name = Strip[Name[p]]
                  /\ d.v2[i].within = product}
           product(d) == ProductMap(d, BomProduct(p))
<1>1. product(new) = product(db)
  BY ProductSame
<1>2. \A i : S(new, i) = S(db, i)
  BY DEF Grows
<1>3. \A d : PartMap(d, p) = IF p = None \/ product(d) = None \/ Kind[p] # "part" THEN None
                             ELSE First(S(d, product(d)))
  BY Zenon DEF PartMap
<1> HIDE DEF S, product
<1>4. QED
  BY <1>1, <1>2, <1>3

LEMMA ProcessSame ==
  ASSUME NEW db, DbOK(db), NEW new, NEW run, NEW K, NEW T, Grows(db, new, run, K, T),
         NEW p, <<"painting_process", p>> \notin K
  PROVE  ProcessMap(new, p) = ProcessMap(db, p)
<1> DEFINE key == <<"painting_process", p>>
<1>1. /\ key \in DOMAIN new.maps <=> key \in DOMAIN db.maps
      /\ key \in DOMAIN db.maps => new.maps[key] = db.maps[key]
  BY DEF Grows
<1>2. ASSUME key \in DOMAIN db.maps
      PROVE  db.maps[key].new \in DOMAIN new.v2 <=> db.maps[key].new \in DOMAIN db.v2
  <2>1. db.maps[key].new \in Nat /\ db.next \in Nat /\ db.maps[key].new < db.next
    BY <1>2 DEF DbOK, MapRow
  <2>2. QED
    BY <2>1 DEF Grows
<1>3. \A d : ProcessMap(d, p) =
          IF key \in DOMAIN d.maps /\ d.maps[key].new # None /\ d.maps[key].new \in DOMAIN d.v2
          THEN d.maps[key].new ELSE None
  BY DEF ProcessMap, Migrated
<1>4. QED
  BY <1>1, <1>2, <1>3

\* The rows that a mapper passes over.
Skips(db, r) ==
    \/ Kind[r] \in {"category", "customer", "worker", "process"} /\ Strip[Name[r]] = 0
    \/ Kind[r] = "product" /\ CatMap(db, Ref[r]) = None
    \/ Kind[r] = "material" /\ Cardinality(Candidates(r)) > 1
    \/ Kind[r] = "part" /\ ProductMap(db, BomProduct(r)) = None
    \/ Kind[r] = "variation" /\ (PartMap(db, Ref[r]) = None
                                 \/ ProductMap(db, BomProduct(Ref[r])) = None)
    \/ Kind[r] = "bom" /\ BomSkips(db, r)
    \/ Kind[r] = "stage" /\ ProcessMap(db, Ref[r]) = None

\* A row with which a run has nothing left to do.
Firm(db, r) ==
    /\ <<TypeOf(Kind[r]), r>> \in DOMAIN db.maps
    /\ ~Skips(db, r) => Migrated(db, TypeOf(Kind[r]), r)

\* The mappers of later kinds do not change what an earlier one looks up.
LEMMA SkipsSame ==
  ASSUME NEW db, DbOK(db), NEW new, NEW run, NEW r \in Rows, NEW q \in Rows,
         Grows(db, new, run, KeysOf(q), TablesOf[Kind[q]]),
         Rank[Kind[r]] <= Rank[Kind[q]]
  PROVE  Skips(new, r) <=> Skips(db, r)
<1> DEFINE T == TablesOf[Kind[q]]
<1>0. Kind[r] \in Kinds /\ Kind[q] \in Kinds
  BY RowFacts
<1>1. CASE Kind[r] = "product"
  <2>1. Kind[q] # "category"
    BY <1>1 DEF Rank
  <2>2. "ProductCategory" \notin T
    BY <1>0, <2>1 DEF TablesOf, Kinds, Rank
  <2>3. CatMap(new, Ref[r]) = CatMap(db, Ref[r])
    BY <2>2, CategorySame
  <2>4. QED
    BY <1>1, <2>3 DEF Skips
<1>2. CASE Kind[r] \in {"part", "bom"}
  <2>1. Kind[q] # "category" /\ Kind[q] # "product"
    BY <1>2 DEF Rank
  <2>2. "ProductCategory" \notin T /\ "Product" \notin T
    BY <1>0, <2>1 DEF TablesOf, Kinds, Rank
  <2>3. \A p : ProductMap(new, p) = ProductMap(db, p)
    BY <2>2, ProductSame
  <2>4. QED
    BY <1>2, <2>3 DEF Skips, BomSkips
<1>3. CASE Kind[r] = "variation"
  <2>1. Kind[q] # "category" /\ Kind[q] # "product" /\ Kind[q] # "part"
    BY <1>3 DEF Rank
  <2>2. "ProductCategory" \notin T /\ "Product" \notin T /\ "ProductPart" \notin T
    BY <1>0, <2>1 DEF TablesOf, Kinds, Rank
  <2>3. PartMap(new, Ref[r]) = PartMap(db, Ref[r])
    BY <2>2, PartSame
  <2>4. ProductMap(new, BomProduct(Ref[r])) = ProductMap(db, BomProduct(Ref[r]))
    BY <2>2, ProductSame
  <2>5. QED
    BY <1>3, <2>3, <2>4 DEF Skips
<1>4. CASE Kind[r] = "stage"
  <2>1. Kind[q] \in {"stage", "order"}
    BY <1>0, <1>4 DEF Rank, Kinds
  <2>2. <<"painting_process", Ref[r]>> \notin KeysOf(q)
    BY <2>1, KeysAre
  <2>3. ProcessMap(new, Ref[r]) = ProcessMap(db, Ref[r])
    BY <2>2, ProcessSame
  <2>4. QED
    BY <1>4, <2>3 DEF Skips
<1>5. CASE Kind[r] \in {"category", "customer", "worker", "material", "raw", "process", "order"}
  BY <1>5 DEF Skips
<1>6. QED
  BY <1>0, <1>1, <1>2, <1>3, <1>4, <1>5 DEF Kinds, Rank

\* What a row is mapped to after its mapper, and what it leaves to a second one.
LEMMA OutcomeFirm ==
  ASSUME NEW db, DbOK(db), txn.run \in RunIds, NEW new, NEW skip,
         NEW type, NEW r, NEW row, Outcome(db, new, skip, type, r, row)
  PROVE  /\ ~skip => Migrated(new, type, r)
         /\ <<type, r>> \in DOMAIN db.maps /\ (~skip => Migrated(db, type, r)) => new = db
<1>1. ASSUME ~skip PROVE Migrated(new, type, r)
  <2>1. CASE Migrated(db, type, r)
    BY <1>1, <2>1 DEF Outcome
  <2>2. CASE ~Migrated(db, type, r)
    BY <1>1, <2>2, GotMigrates DEF Outcome
  <2>3. QED
    BY <2>1, <2>2
<1>2. ASSUME <<type, r>> \in DOMAIN db.maps, ~skip => Migrated(db, type, r) PROVE new = db
  <2>1. CASE skip
    BY <1>2, <2>1 DEF Outcome, Skipped
  <2>2. CASE ~skip
    BY <1>2, <2>2 DEF Outcome
  <2>3. QED
    BY <2>1, <2>2
<1>3. QED
  BY <1>1, <1>2

\* What a mapper does with a row is settled by whether it skips it and by its map.
FirmBy(db, new, skip, type, r) ==
    /\ ~skip => Migrated(new, type, r)
    /\ <<type, r>> \in DOMAIN db.maps /\ (~skip => Migrated(db, type, r)) => new = db

LEMMA StepFirm ==
  ASSUME NEW db, DbOK(db), txn.run \in RunIds, NEW r \in Rows, v1 \subseteq Rows,
         Kind[r] # "order"
  PROVE  FirmBy(db, Stepped(db, r), Skips(db, r), TypeOf(Kind[r]), r)
<1>1. ASSUME NEW skip, NEW type, NEW row, Outcome(db, Stepped(db, r), skip, type, r, row),
             TypeOf(Kind[r]) = type, Skips(db, r) <=> skip
      PROVE  FirmBy(db, Stepped(db, r), Skips(db, r), TypeOf(Kind[r]), r)
  <2>1. FirmBy(db, Stepped(db, r), skip, type, r)
    BY <1>1, OutcomeFirm DEF FirmBy
  <2>2. QED
    BY <1>1, <2>1 DEF FirmBy
<1>2. CASE Kind[r] = "category"
  <2>1. Outcome(db, Stepped(db, r), Strip[Name[r]] = 0, "product_category", r,
                NamedRow("ProductCategory", r))
    BY <1>2, SteppedIs, NamedOutcome DEF CategoryStep, Types, Tables
  <2>2. Skips(db, r) <=> Strip[Name[r]] = 0
    BY <1>2 DEF Skips
  <2>3. QED
    BY <1>1, <1>2, <2>1, <2>2, KeysAre
<1>3. CASE Kind[r] = "customer"
  <2>1. Outcome(db, Stepped(db, r), Strip[Name[r]] = 0, "customer", r, NamedRow("Customer", r))
    BY <1>3, SteppedIs, NamedOutcome DEF CustomerStep, Types, Tables
  <2>2. Skips(db, r) <=> Strip[Name[r]] = 0
    BY <1>3 DEF Skips
  <2>3. QED
    BY <1>1, <1>3, <2>1, <2>2, KeysAre
<1>4. CASE Kind[r] = "worker"
  <2>1. Outcome(db, Stepped(db, r), Strip[Name[r]] = 0, "worker", r, NamedRow("Worker", r))
    BY <1>4, SteppedIs, NamedOutcome DEF WorkerStep, Types, Tables
  <2>2. Skips(db, r) <=> Strip[Name[r]] = 0
    BY <1>4 DEF Skips
  <2>3. QED
    BY <1>1, <1>4, <2>1, <2>2, KeysAre
<1>5. CASE Kind[r] = "process"
  <2>1. Outcome(db, Stepped(db, r), Strip[Name[r]] = 0, "painting_process", r,
                NamedRow("PaintingProcess", r))
    BY <1>5, SteppedIs, NamedOutcome DEF ProcessStep, Types, Tables
  <2>2. Skips(db, r) <=> Strip[Name[r]] = 0
    BY <1>5 DEF Skips
  <2>3. QED
    BY <1>1, <1>5, <2>1, <2>2, KeysAre
<1>6. CASE Kind[r] = "product"
  <2>1. Outcome(db, Stepped(db, r), CatMap(db, Ref[r]) = None, "product", r, ProductRow(db, r))
    BY <1>6, SteppedIs, ProductOutcome
  <2>2. Skips(db, r) <=> CatMap(db, Ref[r]) = None
    BY <1>6 DEF Skips
  <2>3. TypeOf(Kind[r]) = "product"
    BY <1>6, KeysAre
  <2>4. QED
    BY <1>1, <2>1, <2>2, <2>3
<1>7. CASE Kind[r] = "raw"
  <2>1. Stepped(db, r) = RawStep(db, r)
    BY <1>7, SteppedIs
  <2>2. Outcome(db, Stepped(db, r), FALSE, "raw_material", r,
                Record("Item", <<r, 1>>, Name[r], None, {}))
    BY <2>1, RawOutcome
  <2>3. Skips(db, r) <=> FALSE
    BY <1>7 DEF Skips
  <2>4. TypeOf(Kind[r]) = "raw_material"
    BY <1>7, KeysAre
  <2>5. QED
    BY <1>1, <2>2, <2>3, <2>4
<1>8. CASE Kind[r] = "part"
  <2>1. Outcome(db, Stepped(db, r), ProductMap(db, BomProduct(r)) = None, "part", r, PartRow(db, r))
    <3>1. Outcome(db, PartStep(db, r), ProductMap(db, BomProduct(r)) = None, "part", r,
                  PartRow(db, r))
      BY PartOutcome
    <3>2. Stepped(db, r) = PartStep(db, r)
      BY <1>8, SteppedIs
    <3>3. QED
      BY <3>1, <3>2, Zenon
  <2>2. Skips(db, r) <=> ProductMap(db, BomProduct(r)) = None
    BY <1>8 DEF Skips
  <2>3. TypeOf(Kind[r]) = "part"
    BY <1>8, KeysAre
  <2>4. QED
    BY <1>1, <2>1, <2>2, <2>3
<1>9. CASE Kind[r] = "variation"
  <2>1. Outcome(db, Stepped(db, r),
                PartMap(db, Ref[r]) = None \/ ProductMap(db, BomProduct(Ref[r])) = None,
                "production_part", r, VariationRow(db, r))
    BY <1>9, SteppedIs, VariationOutcome
  <2>2. Skips(db, r) <=> PartMap(db, Ref[r]) = None \/ ProductMap(db, BomProduct(Ref[r])) = None
    BY <1>9 DEF Skips
  <2>3. TypeOf(Kind[r]) = "production_part"
    BY <1>9, KeysAre
  <2>4. QED
    BY <1>1, <2>1, <2>2, <2>3
<1>10. CASE Kind[r] = "stage"
  <2>1. Outcome(db, Stepped(db, r), ProcessMap(db, Ref[r]) = None, "painting_stage", r,
                StageRow(db, r))
    BY <1>10, SteppedIs, StageOutcome
  <2>2. Skips(db, r) <=> ProcessMap(db, Ref[r]) = None
    BY <1>10 DEF Skips
  <2>3. TypeOf(Kind[r]) = "painting_stage"
    BY <1>10, KeysAre
  <2>4. QED
    BY <1>1, <2>1, <2>2, <2>3
<1>11. CASE Kind[r] = "material"
  <2> DEFINE new == MaterialStep(db, r)
             skip == Cardinality(Candidates(r)) > 1
  <2>1. Stepped(db, r) = new /\ TypeOf(Kind[r]) = "material" /\ (Skips(db, r) <=> skip)
    BY <1>11, SteppedIs, KeysAre DEF Skips
  <2>2. /\ skip => new = Skipped(db, "material", r)
        /\ ~skip /\ Migrated(db, "material", r) => new = db
        /\ ~skip /\ ~Migrated(db, "material", r) => Migrated(new, "material", r)
    BY MaterialOutcome
  <2>3. <<"material", r>> \in DOMAIN db.maps => Skipped(db, "material", r) = db
    BY DEF Skipped
  <2> HIDE DEF new, skip
  <2>4. QED
    BY <2>1, <2>2, <2>3 DEF FirmBy
<1>12. CASE Kind[r] = "bom"
  <2> DEFINE new == BomStep(db, r)
             skip == BomSkips(db, r)
  <2>1. Stepped(db, r) = new /\ TypeOf(Kind[r]) = "bom" /\ (Skips(db, r) <=> skip)
    BY <1>12, SteppedIs, KeysAre DEF Skips
  <2>2. /\ skip => new = Skipped(db, "bom", r)
        /\ ~skip /\ Migrated(db, "bom", r) => new = db
    <3>1. /\ BomSkips(db, r) => BomStep(db, r) = Skipped(db, "bom", r)
          /\ ~BomSkips(db, r) /\ Migrated(db, "bom", r) => BomStep(db, r) = db
      BY BomOutcome
    <3>2. QED
      BY <3>1, Zenon
  <2>3. ASSUME ~skip, ~Migrated(db, "bom", r)
        PROVE  Migrated(new, "bom", r)
    <3>1. PICK got : /\ Got(db, got, txn.run, <<"bom", r>>, BomRow(ProductMap(db, Ref[r])))
                     /\ LineOutcome(got, new, r, got.maps[<<"bom", r>>].new)
      BY <2>3, BomOutcome
    <3>2. DbOK(got) /\ Migrated(got, "bom", r)
      BY <3>1, GotMigrates, GotGrows
    <3> HIDE DEF new
    <3>3. Grows(got, new, txn.run, {<<"bom_item", r>>, <<"bom_item_material_rule", r>>},
                {"BOMItem", "Rule"})
      BY <3>1, <3>2, LineGrows
    <3>4. QED
      BY <3>2, <3>3, StaysMigrated
  <2>4. <<"bom", r>> \in DOMAIN db.maps => Skipped(db, "bom", r) = db
    BY DEF Skipped
  <2> HIDE DEF new, skip
  <2>5. QED
    BY <2>1, <2>2, <2>3, <2>4 DEF FirmBy
<1>13. Kind[r] \in Kinds
  BY RowFacts
<1>14. QED
  BY <1>2, <1>3, <1>4, <1>5, <1>6, <1>7, <1>8, <1>9, <1>10, <1>11, <1>12, <1>13 DEF Kinds, Rank

\* After its mapper a row is firm; a later row leaves it so; and a firm row leaves
\* the tables as they are.
LEMMA FirmAfter ==
  ASSUME NEW db, DbOK(db), txn.run \in RunIds, NEW r \in Rows, v1 \subseteq Rows,
         Kind[r] # "order"
  PROVE  Firm(Stepped(db, r), r)
<1> DEFINE new == Stepped(db, r)
<1>1. /\ Grows(db, new, txn.run, KeysOf(r), TablesOf[Kind[r]])
      /\ <<TypeOf(Kind[r]), r>> \in DOMAIN new.maps
  BY StepGrows
<1>2. FirmBy(db, new, Skips(db, r), TypeOf(Kind[r]), r)
  BY StepFirm
<1> HIDE DEF new
<1>3. Rank[Kind[r]] <= Rank[Kind[r]]
  <2>1. Kind[r] \in Kinds
    BY RowFacts
  <2>2. QED
    BY <2>1 DEF Kinds, Rank
<1>4. Skips(new, r) <=> Skips(db, r)
  BY <1>1, <1>3, SkipsSame
<1>5. Firm(new, r)
  BY <1>1, <1>2, <1>4 DEF Firm, FirmBy
<1>6. QED
  BY <1>5 DEF new

LEMMA FirmStays ==
  ASSUME NEW db, DbOK(db), txn.run \in RunIds, NEW r \in Rows, NEW q \in Rows,
         v1 \subseteq Rows, r < q, Firm(db, r)
  PROVE  Firm(Stepped(db, q), r)
<1> DEFINE new == Stepped(db, q)
<1>1. Grows(db, new, txn.run, KeysOf(q), TablesOf[Kind[q]])
  BY StepGrows
<1> HIDE DEF new
<1>2. Rank[Kind[r]] <= Rank[Kind[q]]
  <2>1. Kind[r] \in Kinds /\ Kind[q] \in Kinds /\ r \in Nat /\ q \in Nat
    BY RowFacts
  <2>2. Rank[Kind[q]] < Rank[Kind[r]] => q < r
    BY MigrationAssumption DEF MigrationAssumption
  <2>3. \A k \in Kinds : Rank[k] \in Nat
    BY DEF Kinds, Rank
  <2>4. QED
    BY <2>1, <2>2, <2>3
<1>3. Skips(new, r) <=> Skips(db, r)
  BY <1>1, <1>2, SkipsSame
<1>4. Migrated(db, TypeOf(Kind[r]), r) => Migrated(new, TypeOf(Kind[r]), r)
  BY <1>1, StaysMigrated
<1>5. <<TypeOf(Kind[r]), r>> \in DOMAIN db.maps => <<TypeOf(Kind[r]), r>> \in DOMAIN new.maps
  BY <1>1 DEF Grows
<1>6. Firm(new, r)
  BY <1>3, <1>4, <1>5 DEF Firm
<1>7. QED
  BY <1>6 DEF new

LEMMA FirmIsFixed ==
  ASSUME NEW db, DbOK(db), txn.run \in RunIds, NEW r \in Rows, v1 \subseteq Rows,
         Kind[r] # "order", Firm(db, r)
  PROVE  Stepped(db, r) = db
BY StepFirm DEF FirmBy, Firm

\* The V1 rows do not change while a run is at work.
LEMMA FirmPrimed ==
  ASSUME v1' = v1, NEW db, Db' = db, NEW r
  PROVE  Firm(Db, r)' <=> Firm(db, r)
<1>1. OfKind("raw")' = OfKind("raw") /\ OfKind("bom")' = OfKind("bom")
  BY DEF OfKind
<1>2. ASSUME NEW p
      PROVE  BomProduct(p)' = BomProduct(p)
  <2> DEFINE lines == {b \in OfKind("bom") : PartOf[b] = p}
             last(L) == IF L = {} THEN None ELSE Ref[CHOOSE b \in L : \A c \in L : c <= b]
  <2>1. lines' = lines
    BY <1>1
  <2>2. BomProduct(p) = last(lines)
    BY Zenon DEF BomProduct
  <2>3. BomProduct(p)' = last(lines')
    BY Zenon DEF BomProduct
  <2> HIDE DEF lines, last
  <2>4. QED
    BY <2>1, <2>2, <2>3
<1>3. Candidates(r)' = Candidates(r)
  BY <1>1 DEF Candidates
<1>4. \A p : PartMap(Db, p)' = PartMap(db, p)
  BY <1>2 DEF PartMap
<1>5. Skips(Db, r)' <=> Skips(db, r)
  BY <1>2, <1>3, <1>4, Zenon DEF Skips, BomSkips
<1>6. QED
  BY <1>5 DEF Firm

\* The rows a run still has to do are the last ones of its phase, the others are
\* firm; and what a master-data run left behind is firm altogether.
ReRunInv ==
    /\ Open => txn.todo \subseteq RowsOf(runs[txn.run].phase)
    /\ Open /\ runs[txn.run].phase = "master-data" =>
          \A r \in MasterRows \ txn.todo : Firm(Db, r) /\ \A q \in txn.todo : r < q
    /\ settled => \A r \in MasterRows : Firm(Db, r)
    /\ settled /\ Open => Snapshot = Db

\* What a run migrates next is a row of the master data.
LEMMA NextRow ==
  ASSUME MigInv, ReRunInv, MigrateRow
  PROVE  /\ Least(txn.todo) \in txn.todo /\ Least(txn.todo) \in MasterRows
         /\ \A q \in txn.todo : Least(txn.todo) <= q
         /\ runs[txn.run].phase = "master-data" /\ txn.run \in RunIds
<1> DEFINE r == Least(txn.todo)
<1>1. Open /\ txn.todo # {} /\ ~Raises(Db, r)
  BY DEF MigrateRow
<1>2. txn.todo \subseteq Nat
  BY MigrationAssumption DEF MigInv, OthersTyped, MigrationAssumption
<1>3. r \in txn.todo /\ \A q \in txn.todo : r <= q
  BY <1>1, <1>2, LeastMember
<1>4. Kind[r] # "order"
  BY <1>1 DEF Raises
<1>5. r \in RowsOf(runs[txn.run].phase)
  BY <1>1, <1>3 DEF ReRunInv
<1>6. runs[txn.run].phase = "master-data" /\ r \in MasterRows
  BY <1>4, <1>5 DEF RowsOf, OfKind, MasterRows
<1>7. QED
  BY <1>1, <1>3, <1>6 DEF MigInv, OthersTyped, Open

LEMMA MasterRow ==
  ASSUME MigInv, NEW r \in MasterRows
  PROVE  r \in Rows /\ r \in Nat /\ Kind[r] # "order"
BY RowFacts DEF MigInv, OthersTyped, MasterRows, OfKind

LEMMA ReRunMigrate ==
  ASSUME MigInv, ReRunInv, MigrateRow
  PROVE  /\ ReRunInv'
         /\ settled => v2' = v2 /\ maps' = maps
<1> DEFINE r == Least(txn.todo)
           new == Stepped(Db, r)
<1>1. /\ v2' = new.v2 /\ maps' = new.maps /\ next' = new.next /\ Open
      /\ txn' = [txn EXCEPT !.todo = @ \ {r}]
      /\ v1' = v1 /\ runs' = runs /\ settled' = settled
  BY DEF MigrateRow
<1>2. /\ r \in txn.todo /\ r \in MasterRows /\ \A q \in txn.todo : r <= q
      /\ runs[txn.run].phase = "master-data" /\ txn.run \in RunIds
  BY NextRow
<1>3. DbOK(Db) /\ v1 \subseteq Rows /\ r \in Rows /\ Kind[r] # "order"
  BY <1>2, MasterRow DEF MigInv, Sound, OthersTyped
<1>4. Firm(new, r)
  BY <1>2, <1>3, FirmAfter
<1>5. \A q \in Rows : q < r /\ Firm(Db, q) => Firm(new, q)
  BY <1>2, <1>3, FirmStays
<1>6. Firm(Db, r) => new = Db
  BY <1>2, <1>3, FirmIsFixed
<1>7. DbOK(new)
  BY <1>2, <1>3, StepGrows DEF Grows
<1> HIDE DEF r, new
<1>8. Db' = new
  <2>1. new = [v2 |-> new.v2, maps |-> new.maps, next |-> new.next]
    BY <1>7 DEF DbOK, IsDb
  <2>2. QED
    BY <1>1, <2>1, Zenon DEF Db
<1>9. \A q : Firm(Db, q)' <=> Firm(new, q)
  <2>1. PICK d : d = new
    OBVIOUS
  <2>2. Db' = d
    BY <1>8, <2>1
  <2>3. \A q : Firm(Db, q)' <=> Firm(d, q)
    BY <1>1, <2>2, FirmPrimed
  <2>4. QED
    BY <2>1, <2>3
<1>10. /\ txn'.run = txn.run /\ txn'.todo = txn.todo \ {r} /\ txn'.v2 = txn.v2
       /\ txn'.maps = txn.maps /\ txn'.next = txn.next
  <2>1. PICK a, b, c, d, e :
          txn = [run |-> a, todo |-> b, v2 |-> c, maps |-> d, next |-> e]
    BY DEF MigInv, TxnKnown
  <2>2. txn' = [run |-> a, todo |-> b \ {r}, v2 |-> c, maps |-> d, next |-> e]
    BY <1>1, <2>1
  <2>3. QED
    BY <2>1, <2>2
<1>11. MasterRows' = MasterRows /\ RowsOf(runs[txn.run].phase)' = RowsOf(runs[txn.run].phase)
       /\ (Open' <=> Open)
  BY <1>1, <1>10 DEF MasterRows, OfKind, RowsOf, Open
<1>12. ASSUME NEW q \in MasterRows, q \notin txn'.todo
       PROVE  Firm(new, q) /\ \A s \in txn'.todo : q < s
  <2>1. q \in Nat /\ q \in Rows /\ r \in Nat
    BY <1>2, <1>12, MasterRow
  <2>2. txn.todo \subseteq Nat
    BY MigrationAssumption DEF MigInv, OthersTyped, MigrationAssumption
  <2>3. CASE q = r
    BY <1>2, <1>4, <1>10, <2>1, <2>2, <2>3
  <2>4. CASE q # r
    <3>1. q \notin txn.todo
      BY <1>10, <1>12, <2>4
    <3>2. Firm(Db, q) /\ \A s \in txn.todo : q < s
      BY <1>1, <1>2, <1>12, <3>1 DEF ReRunInv
    <3>3. QED
      BY <1>2, <1>5, <1>10, <2>1, <3>2
  <2>5. QED
    BY <2>3, <2>4
<1>13. ASSUME settled PROVE new = Db
  BY <1>2, <1>6, <1>13 DEF ReRunInv
<1>14. settled => v2' = v2 /\ maps' = maps
  BY <1>8, <1>13 DEF Db
<1>15. (Open => txn.todo \subseteq RowsOf(runs[txn.run].phase))'
  BY <1>1, <1>10, <1>11 DEF ReRunInv
<1>16. (Open /\ runs[txn.run].phase = "master-data" =>
          \A q \in MasterRows \ txn.todo : Firm(Db, q) /\ \A s \in txn.todo : q < s)'
  BY <1>9, <1>11, <1>12
<1>17. (settled => \A q \in MasterRows : Firm(Db, q))'
  BY <1>1, <1>9, <1>11, <1>13 DEF ReRunInv
<1>18. (settled /\ Open => Snapshot = Db)'
  <2>1. Snapshot' = Snapshot
    BY <1>10 DEF Snapshot
  <2>2. QED
    BY <1>1, <1>8, <1>13, <2>1 DEF ReRunInv
<1>19. ReRunInv'
  BY <1>15, <1>16, <1>17, <1>18 DEF ReRunInv
<1>20. QED
  BY <1>14, <1>19

\* A step that changes neither V1, the tables nor the open transaction.
LEMMA ReRunKept ==
  ASSUME ReRunInv, v1' = v1, v2' = v2, maps' = maps, next' = next, txn' = txn,
         settled' = settled, Open => runs'[txn.run] = runs[txn.run]
  PROVE  ReRunInv'
<1>1. PICK d : d = Db
  OBVIOUS
<1>2. Db' = d
  BY <1>1 DEF Db
<1>3. \A q : Firm(Db, q)' <=> Firm(Db, q)
  <2>1. \A q : Firm(Db, q)' <=> Firm(d, q)
    BY <1>2, FirmPrimed
  <2>2. QED
    BY <1>1, <2>1
<1>4. MasterRows' = MasterRows /\ (Open' <=> Open) /\ Snapshot' = Snapshot /\ Db' = Db
  BY <1>1, <1>2 DEF MasterRows, OfKind, Open, Snapshot
<1>5. Open => RowsOf(runs[txn.run].phase)' = RowsOf(runs[txn.run].phase)
  BY DEF RowsOf, OfKind
<1>6. (Open => txn.todo \subseteq RowsOf(runs[txn.run].phase))'
  BY <1>4, <1>5 DEF ReRunInv
<1>7. (Open /\ runs[txn.run].phase = "master-data" =>
          \A q \in MasterRows \ txn.todo : Firm(Db, q) /\ \A s \in txn.todo : q < s)'
  BY <1>3, <1>4 DEF ReRunInv
<1>8. (settled => \A q \in MasterRows : Firm(Db, q))' /\ (settled /\ Open => Snapshot = Db)'
  BY <1>3, <1>4 DEF ReRunInv
<1>9. QED
  BY <1>6, <1>7, <1>8 DEF ReRunInv

\* A transaction that is rolled back when everything was firm had changed nothing.
LEMMA ReRunUndo ==
  ASSUME MigInv, ReRunInv, Open, Undo, v1' = v1, settled' = settled
  PROVE  ReRunInv'
<1>1. v2' = txn.v2 /\ maps' = txn.maps /\ next' = txn.next /\ txn' = NoTxn
  BY DEF Undo
<1>2. ~Open'
  BY <1>1, NoTxnFields DEF Open
<1>3. ASSUME settled
      PROVE  \A q \in MasterRows' : Firm(Db, q)'
  <2>1. PICK d : d = Db
    OBVIOUS
  <2>2. Snapshot = Db
    BY <1>3 DEF ReRunInv
  <2>3. Db' = Snapshot
    BY <1>1 DEF Db, Snapshot
  <2>4. Db' = d
    BY <2>1, <2>2, <2>3
  <2>5. \A q : Firm(Db, q)' <=> Firm(d, q)
    BY <2>4, FirmPrimed
  <2>6. MasterRows' = MasterRows
    BY DEF MasterRows, OfKind
  <2>7. QED
    BY <1>3, <2>1, <2>5, <2>6 DEF ReRunInv
<1>4. QED
  BY <1>2, <1>3 DEF ReRunInv

LEMMA ReRunBegin ==
  ASSUME MigInv, ReRunInv, NEW r \in RunIds, Begin(r)
  PROVE  ReRunInv'
<1>1. /\ txn' = [run |-> r, todo |-> RowsOf(runs[r].phase), v2 |-> v2, maps |-> maps,
                 next |-> next]
      /\ v1' = v1 /\ v2' = v2 /\ maps' = maps /\ next' = next /\ runs' = runs
      /\ settled' = settled
  BY DEF Begin, tables
<1>2. txn'.run = r /\ txn'.todo = RowsOf(runs[r].phase) /\ Snapshot' = Db
  BY <1>1 DEF Snapshot, Db
<1>3. PICK d : d = Db
  OBVIOUS
<1>4. Db' = d
  BY <1>1, <1>3 DEF Db
<1>5. \A q : Firm(Db, q)' <=> Firm(d, q)
  BY <1>1, <1>4, FirmPrimed
<1>6. MasterRows' = MasterRows /\ RowsOf(runs[r].phase)' = RowsOf(runs[r].phase)
  BY <1>1 DEF MasterRows, OfKind, RowsOf
<1>7. runs[r].phase = "master-data" => RowsOf(runs[r].phase) = MasterRows
  BY DEF RowsOf, MasterRows
<1>8. (Open => txn.todo \subseteq RowsOf(runs[txn.run].phase))'
  <2>1. PICK p : p = runs[r].phase
    OBVIOUS
  <2>2. runs'[txn'.run].phase = p
    BY <1>1, <1>2, <2>1
  <2>3. txn'.todo = RowsOf(p)
    BY <1>2, <2>1
  <2>4. RowsOf(p)' = RowsOf(p)
    BY <1>1 DEF RowsOf, OfKind
  <2>5. QED
    BY <2>2, <2>3, <2>4
<1>9. (Open /\ runs[txn.run].phase = "master-data" =>
          \A q \in MasterRows \ txn.todo : Firm(Db, q) /\ \A s \in txn.todo : q < s)'
  BY <1>1, <1>2, <1>6, <1>7
<1>10. (settled => \A q \in MasterRows : Firm(Db, q))'
  BY <1>1, <1>3, <1>5, <1>6 DEF ReRunInv
<1>11. (settled /\ Open => Snapshot = Db)'
  BY <1>2, <1>3, <1>4
<1>12. QED
  BY <1>8, <1>9, <1>10, <1>11 DEF ReRunInv

\* A master-data run that commits leaves every row firm.
LEMMA ReRunCommit ==
  ASSUME MigInv, ReRunInv, Commit
  PROVE  ReRunInv'
<1>1. /\ Open /\ txn.todo = {} /\ txn' = NoTxn
      /\ settled' = (settled \/ runs[txn.run].phase = "master-data")
      /\ v1' = v1 /\ v2' = v2 /\ maps' = maps /\ next' = next
  BY DEF Commit, tables
<1>2. ~Open'
  BY <1>1, NoTxnFields DEF Open
<1>3. ASSUME settled'
      PROVE  \A q \in MasterRows' : Firm(Db, q)'
  <2>1. PICK d : d = Db
    OBVIOUS
  <2>2. Db' = d
    BY <1>1, <2>1 DEF Db
  <2>3. \A q : Firm(Db, q)' <=> Firm(d, q)
    BY <1>1, <2>2, FirmPrimed
  <2>4. MasterRows' = MasterRows
    BY <1>1 DEF MasterRows, OfKind
  <2>5. \A q \in MasterRows : Firm(Db, q)
    BY <1>1, <1>3 DEF ReRunInv
  <2>6. QED
    BY <2>1, <2>3, <2>4, <2>5
<1>4. QED
  BY <1>2, <1>3 DEF ReRunInv

LEMMA ReRunInit == Init => ReRunInv
<1> SUFFICES ASSUME Init PROVE ReRunInv
  OBVIOUS
<1>1. ~settled /\ ~Open
  BY NoTxnFields DEF Init, Open
<1>2. QED
  BY <1>1 DEF ReRunInv

LEMMA ReRunNext ==
  ASSUME MigInv, ReRunInv, [Next]_vars
  PROVE  ReRunInv'
<1>1. CASE UNCHANGED vars
  BY <1>1, ReRunKept DEF vars, tables
<1>2. CASE \E phase \in Phases : CreateRun(phase)
  BY <1>2, ReRunKept DEF CreateRun, tables
<1>3. ASSUME NEW r \in RunIds, Begin(r) PROVE ReRunInv'
  BY <1>3, ReRunBegin
<1>4. ASSUME NEW r \in RunIds, Finish(r) PROVE ReRunInv'
  BY <1>4, ReRunKept DEF Finish, tables
<1>5. ASSUME NEW r \in RunIds, Crash(r) PROVE ReRunInv'
  <2>1. CASE proc[r] = "open"
    <3>1. Open
      BY <2>1 DEF MigInv, ProcessesKnown, RunIds, None, Open
    <3>2. Undo /\ v1' = v1 /\ settled' = settled
      BY <1>5, <2>1 DEF Crash
    <3>3. QED
      BY <3>1, <3>2, ReRunUndo
  <2>2. CASE proc[r] # "open"
    BY <1>5, <2>2, ReRunKept DEF Crash, tables
  <2>3. QED
    BY <2>1, <2>2
<1>6. ASSUME NEW r \in RunIds, RollBack(r) PROVE ReRunInv'
  <2>1. ~Open /\ txn' = txn /\ settled' = FALSE
    BY <1>6 DEF RollBack
  <2>2. QED
    BY <2>1 DEF ReRunInv, Open
<1>7. CASE MigrateRow
  BY <1>7, ReRunMigrate
<1>8. CASE Commit
  BY <1>8, ReRunCommit
<1>9. CASE Raise
  BY <1>9, ReRunUndo DEF Raise
<1>10. ASSUME NEW r \in Rows \ v1, AddRow(r) PROVE ReRunInv'
  <2>1. ~Open /\ txn' = txn /\ settled' = FALSE
    BY <1>10 DEF AddRow
  <2>2. QED
    BY <2>1 DEF ReRunInv, Open
<1>11. ASSUME NEW n \in OfficeNames, OfficeAddsCustomer(n) PROVE ReRunInv'
  <2>1. ~Open /\ txn' = txn /\ settled' = FALSE
    BY <1>11 DEF OfficeAddsCustomer
  <2>2. QED
    BY <2>1 DEF ReRunInv, Open
<1>12. QED
  BY <1>1, <1>2, <1>3, <1>4, <1>5, <1>6, <1>7, <1>8, <1>9, <1>10, <1>11 DEF Next

\* A run over what the last master-data run left changes neither the V2 tables nor
\* the maps, whatever was migrated, killed or rolled back before.
THEOREM ReRunNeverChangesAnything == Spec => ReRunChangesNothing
<1>1. Spec => [](MigInv /\ ReRunInv)
  BY MigInit, MigNext, ReRunInit, ReRunNext, PTL DEF Spec
<1>2. MigInv /\ ReRunInv => [settled /\ MigrateRow => UNCHANGED <<v2, maps>>]_vars
  BY ReRunMigrate
<1>3. QED
  BY <1>1, <1>2, PTL DEF ReRunChangesNothing

(* Parts that can be found again                                             *)

\* A V2 row that the product of a BOM line of the V1 part p finds.
ProductOf(db, rows, i, p) ==
    \E b \in rows : Kind[b] = "bom" /\ PartOf[b] = p /\ ProductLike(db, i, Ref[b])

\* A V2 part below a product of p.
PartLike(db, rows, u, p) ==
    /\ u \in DOMAIN db.v2 /\ db.v2[u].table = "ProductPart"
    /\ ProductOf(db, rows, db.v2[u].within, p)

\* What PartMap finds for p.
Found(db, rows, u, p) == PartLike(db, rows, u, p) /\ db.v2[u].name = Strip[Name[p]]

\* Every V2 product comes from a V1 product, which is mapped to it.
OwnsProduct(db, i, q) ==
    /\ Kind[q] = "product" /\ <<"product", q>> \in DOMAIN db.maps
    /\ db.maps[<<"product", q>>].new = i
    /\ db.v2[i].key = <<q, 0>> /\ ProductLike(db, i, q)
OwnedProducts(db, rows) ==
    \A i \in DOMAIN db.v2 : db.v2[i].table = "Product" => \E q \in rows : OwnsProduct(db, i, q)

\* Every V2 part comes from a V1 part.
OwnsPart(db, rows, i, p) ==
    /\ Kind[p] = "part" /\ <<"part", p>> \in DOMAIN db.maps
    /\ db.maps[<<"part", p>>].new = i
    /\ db.v2[i].name = Name[p] /\ PartLike(db, rows, i, p)
OwnedParts(db, rows) ==
    \A i \in DOMAIN db.v2 :
        db.v2[i].table = "ProductPart" => \E p \in rows : OwnsPart(db, rows, i, p)

\* What the maps of parts, variations and BOM lines name.
PartRight(db, rows, p) ==
    Migrated(db, "part", p) => PartLike(db, rows, db.maps[<<"part", p>>].new, p)

VariationOf(db, rows, i, v) ==
    /\ i \in DOMAIN db.v2
    /\ \E x, y : db.v2[i].uses = {x, y} /\ Found(db, rows, x, Ref[v])
                 /\ ProductOf(db, rows, y, Ref[v])
VariationRight(db, rows, v) ==
    Migrated(db, "production_part", v) =>
        VariationOf(db, rows, db.maps[<<"production_part", v>>].new, v)

LineOf(db, rows, i, bom, b) ==
    /\ i \in DOMAIN db.v2 /\ bom \in DOMAIN db.v2
    /\ db.v2[i].within = bom /\ ProductLike(db, db.v2[bom].within, Ref[b])
    /\ \E u : db.v2[i].uses = {u} /\ Found(db, rows, u, PartOf[b])
LineRight(db, rows, b) ==
    Migrated(db, "bom_item", b) =>
        /\ Migrated(db, "bom", b)
        /\ LineOf(db, rows, db.maps[<<"bom_item", b>>].new, db.maps[<<"bom", b>>].new, b)

\* The natural keys of BOMs and their items.
BomShapes(db) ==
    \A i \in DOMAIN db.v2 :
        /\ db.v2[i].table = "BOM" => db.v2[i].key = <<db.v2[i].within, 0>>
        /\ db.v2[i].table = "BOMItem" =>
              \E u : db.v2[i].key = <<db.v2[i].within, u>> /\ db.v2[i].uses = {u}

Exact(db, rows) ==
    /\ OwnedProducts(db, rows) /\ OwnedParts(db, rows) /\ BomShapes(db)
    /\ \A r \in Rows : PartRight(db, rows, r) /\ VariationRight(db, rows, r)
                      /\ LineRight(db, rows, r)

\* What a V1 row refers to exists.
Closed == \A r \in v1 : {Ref[r], PartOf[r], MaterialOf[r]} \subseteq v1 \cup {None}

ExactInv ==
    /\ Closed
    /\ ~mixed => Exact(Db, v1) /\ (Open => Exact(Snapshot, v1))
    /\ Open => txn.todo \subseteq v1

\* A finite set of numbers that is not empty has a last one.
LEMMA GreatestMember ==
  ASSUME NEW S, S \subseteq Nat, IsFiniteSet(S), S # {}
  PROVE  \E b \in S : \A c \in S : c <= b
<1>1. PICK n \in Nat : ExistsSurjection(1..n, S)
  BY FS_NatSurjection
<1>2. PICK f \in [1..n -> S] : \A c \in S : \E k \in 1..n : f[k] = c
  BY <1>1 DEF ExistsSurjection, Surjection
<1> DEFINE Bound(k, m) == \A j \in 1..k : f[j] <= m
           open == {k \in 0..n : \A m \in Nat : ~Bound(k, m)}
<1>3. \A k \in 0..n : k \notin open => \E m \in Nat : Bound(k, m)
  OBVIOUS
<1>4. \A k \in open : k \in 0..n /\ \A m \in Nat : ~Bound(k, m)
  OBVIOUS
<1>5. Bound(0, 0)
  OBVIOUS
<1>6. ASSUME NEW k \in 1..n, NEW m \in Nat, Bound(k - 1, m)
      PROVE  \E t \in Nat : Bound(k, t)
  <2>1. f[k] \in Nat
    OBVIOUS
  <2>2. m + f[k] \in Nat /\ m <= m + f[k] /\ f[k] <= m + f[k]
    BY <2>1
  <2> DEFINE t == m + f[k]
  <2> HIDE DEF t
  <2>3. t \in Nat /\ m <= t /\ f[k] <= t
    BY <2>2 DEF t
  <2>4. ASSUME NEW j \in 1..k PROVE f[j] <= t
    <3>1. j \in 1..n /\ f[j] \in S /\ f[j] \in Nat
      <4>1. j \in 1..n
        BY <2>4
      <4>2. QED
        BY <4>1
    <3>2. CASE j = k
      BY <2>3, <3>2
    <3>3. CASE j # k
      <4>1. j \in 1..(k - 1)
        BY <3>3
      <4>2. f[j] <= m
        BY <1>6, <4>1
      <4>3. QED
        BY <2>3, <3>1, <4>2
    <3>4. QED
      BY <3>2, <3>3
  <2>5. QED
    BY <2>3, <2>4
<1> HIDE DEF Bound, open
<1>7. open = {}
  <2> SUFFICES ASSUME open # {} PROVE FALSE
    OBVIOUS
  <2>1. open \subseteq Nat
    BY <1>4
  <2> DEFINE k == Least(open)
  <2>2. k \in open /\ \A j \in open : k <= j
    BY <2>1, LeastMember
  <2> HIDE DEF k
  <2>3. k \in 0..n /\ \A m \in Nat : ~Bound(k, m)
    BY <1>4, <2>2
  <2>4. k # 0
    BY <1>5, <2>3
  <2>5. k \in 1..n /\ k - 1 \in 0..n /\ ~(k <= k - 1)
    BY <2>3, <2>4
  <2>6. k - 1 \notin open
    BY <2>2, <2>5
  <2>7. PICK m \in Nat : Bound(k - 1, m)
    BY <1>3, <2>5, <2>6
  <2>8. QED
    BY <1>6, <2>3, <2>5, <2>7
<1>8. PICK m \in Nat : Bound(n, m)
  <2>1. n \in 0..n /\ n \notin open
    BY <1>7
  <2>2. QED
    BY <1>3, <2>1
<1> DEFINE bounds == {t \in Nat : \A c \in S : c <= t}
<1>9. m \in bounds
  BY <1>2, <1>8 DEF Bound
<1> DEFINE b == Least(bounds)
<1>10. b \in bounds /\ \A t \in bounds : b <= t
  BY <1>9, LeastMember
<1> HIDE DEF b
<1>11. b \in S
  <2> SUFFICES ASSUME b \notin S PROVE FALSE
    OBVIOUS
  <2>1. \A c \in S : c \in Nat /\ c <= b - 1
    BY <1>10
  <2>2. b - 1 \in Nat
    <3>1. PICK c \in S : TRUE
      OBVIOUS
    <3>2. QED
      BY <1>10, <2>1, <3>1
  <2>3. b - 1 \in bounds
    BY <2>1, <2>2
  <2>4. QED
    BY <1>10, <2>3
<1>12. QED
  BY <1>10, <1>11

\* The product by which the parts of a V1 part are looked up is that of a line.
LEMMA BomProductIs ==
  ASSUME v1 \subseteq Rows, NEW p, BomProduct(p) # None
  PROVE  \E b \in v1 : Kind[b] = "bom" /\ PartOf[b] = p /\ BomProduct(p) = Ref[b]
<1> DEFINE lines == {b \in OfKind("bom") : PartOf[b] = p}
<1>1. lines # {} /\ BomProduct(p) = Ref[CHOOSE b \in lines : \A c \in lines : c <= b]
  BY Zenon DEF BomProduct
<1>2. lines \subseteq Rows /\ Rows \subseteq Nat /\ IsFiniteSet(Rows)
  BY MigrationAssumption DEF MigrationAssumption, OfKind
<1>3. \A b \in lines : b \in v1 /\ Kind[b] = "bom" /\ PartOf[b] = p
  BY DEF OfKind
<1> HIDE DEF lines
<1>4. IsFiniteSet(lines) /\ lines \subseteq Nat
  BY <1>2, FS_Subset
<1>5. \E b \in lines : \A c \in lines : c <= b
  BY <1>1, <1>4, GreatestMember
<1>6. PICK b : b \in lines /\ b = CHOOSE a \in lines : \A c \in lines : c <= a
  BY <1>5
<1>7. QED
  BY <1>1, <1>3, <1>6

\* What the lookups find for the rows of V1.
LEMMA BomProductFound ==
  ASSUME NEW db, DbOK(db), v1 \subseteq Rows, NEW p, ProductMap(db, BomProduct(p)) # None
  PROVE  ProductOf(db, v1, ProductMap(db, BomProduct(p)), p)
<1>1. BomProduct(p) # None /\ ProductLike(db, ProductMap(db, BomProduct(p)), BomProduct(p))
  BY ProductFound
<1>2. PICK b \in v1 : Kind[b] = "bom" /\ PartOf[b] = p /\ BomProduct(p) = Ref[b]
  BY <1>1, BomProductIs
<1>3. ProductLike(db, ProductMap(db, BomProduct(p)), Ref[b])
  BY <1>1, <1>2
<1>4. QED
  BY <1>2, <1>3 DEF ProductOf

LEMMA PartMapFound ==
  ASSUME NEW db, DbOK(db), v1 \subseteq Rows, NEW p, PartMap(db, p) # None
  PROVE  Found(db, v1, PartMap(db, p), p)
<1>1. ProductMap(db, BomProduct(p)) # None /\ PartFinds(db, PartMap(db, p), p)
  BY PartFound
<1>2. ProductOf(db, v1, ProductMap(db, BomProduct(p)), p)
  BY <1>1, BomProductFound
<1>3. QED
  BY <1>1, <1>2 DEF PartFinds, Found, PartLike

\* What is found stays so, and what was mapped stays mapped.
LEMMA LikeStays ==
  ASSUME NEW db, NEW new, NEW run, NEW keys, NEW tabs, Grows(db, new, run, keys, tabs),
         NEW rows
  PROVE  /\ \A i, q : ProductLike(db, i, q) => ProductLike(new, i, q)
         /\ \A i, p : ProductOf(db, rows, i, p) => ProductOf(new, rows, i, p)
         /\ \A i, p : PartLike(db, rows, i, p) => PartLike(new, rows, i, p)
         /\ \A i, p : Found(db, rows, i, p) => Found(new, rows, i, p)
<1>1. DOMAIN db.v2 \subseteq DOMAIN new.v2 /\ \A i \in DOMAIN db.v2 : new.v2[i] = db.v2[i]
  BY DEF Grows
<1>2. ASSUME NEW i, NEW q, ProductLike(db, i, q) PROVE ProductLike(new, i, q)
  <2>1. /\ i \in DOMAIN db.v2 /\ db.v2[i].table = "Product" /\ db.v2[i].name = Name[q]
    BY <1>2 DEF ProductLike
  <2>2. PICK c \in DOMAIN db.v2 : /\ db.v2[c].table = "ProductCategory"
                                  /\ db.v2[c].name = Strip[Name[Ref[q]]]
                                  /\ db.v2[i].uses = {c}
    BY <1>2 DEF ProductLike
  <2>3. QED
    BY <1>1, <2>1, <2>2 DEF ProductLike
<1>3. ASSUME NEW i, NEW p, ProductOf(db, rows, i, p) PROVE ProductOf(new, rows, i, p)
  BY <1>2, <1>3 DEF ProductOf
<1>4. ASSUME NEW i, NEW p, PartLike(db, rows, i, p) PROVE PartLike(new, rows, i, p)
  BY <1>1, <1>3, <1>4 DEF PartLike
<1>5. ASSUME NEW i, NEW p, Found(db, rows, i, p) PROVE Found(new, rows, i, p)
  <2>1. i \in DOMAIN db.v2
    BY <1>5 DEF Found, PartLike
  <2>2. QED
    BY <1>1, <1>4, <1>5, <2>1 DEF Found
<1>6. QED
  BY <1>2, <1>3, <1>4, <1>5

LEMMA MapsAlike ==
  ASSUME NEW db, NEW new, NEW run, NEW keys, NEW tabs, Grows(db, new, run, keys, tabs),
         NEW type, NEW r, <<type, r>> \notin keys
  PROVE  /\ Migrated(new, type, r) <=> Migrated(db, type, r)
         /\ Migrated(db, type, r) => new.maps[<<type, r>>] = db.maps[<<type, r>>]
<1> DEFINE key == <<type, r>>
<1>1. /\ key \in DOMAIN new.maps => key \in DOMAIN db.maps /\ new.maps[key] = db.maps[key]
      /\ key \in DOMAIN db.maps => key \in DOMAIN new.maps
  BY DEF Grows
<1>2. QED
  BY <1>1, Zenon DEF Migrated

\* Which rows write the maps and the tables this is about.
LEMMA KeysOnly ==
  ASSUME NEW r \in Rows, NEW q
  PROVE  /\ <<"product", q>> \in KeysOf(r) => Kind[r] = "product" /\ q = r
         /\ <<"part", q>> \in KeysOf(r) => Kind[r] = "part" /\ q = r
         /\ <<"production_part", q>> \in KeysOf(r) => Kind[r] = "variation" /\ q = r
         /\ <<"bom", q>> \in KeysOf(r) => Kind[r] = "bom" /\ q = r
         /\ <<"bom_item", q>> \in KeysOf(r) => Kind[r] = "bom" /\ q = r
<1>1. Kind[r] \in Kinds
  BY RowFacts
<1>2. CASE Kind[r] = "bom"
  BY <1>2, KeysAre DEF BomKeys
<1>3. CASE Kind[r] = "material"
  BY <1>3, KeysAre DEF RawKeys
<1>4. CASE Kind[r] \in {"category", "raw", "variation", "process", "stage"}
  BY <1>4, KeysAre
<1>5. CASE Kind[r] \in {"product", "customer", "worker", "part", "order"}
  BY <1>5, KeysAre
<1>6. QED
  BY <1>1, <1>2, <1>3, <1>4, <1>5 DEF Kinds, Rank

LEMMA TablesOnly ==
  ASSUME NEW r \in Rows
  PROVE  /\ "Product" \in TablesOf[Kind[r]] => Kind[r] = "product"
         /\ "ProductPart" \in TablesOf[Kind[r]] => Kind[r] = "part"
         /\ "BOM" \in TablesOf[Kind[r]] => Kind[r] = "bom"
         /\ "BOMItem" \in TablesOf[Kind[r]] => Kind[r] = "bom"
<1>1. Kind[r] \in Kinds
  BY RowFacts
<1>2. QED
  BY <1>1 DEF Kinds, Rank, TablesOf

\* An owner stays the owner.
LEMMA OwnerStays ==
  ASSUME NEW db, DbOK(db), NEW new, NEW run, NEW keys, NEW tabs,
         Grows(db, new, run, keys, tabs), NEW i \in DOMAIN db.v2, NEW q
  PROVE  /\ OwnsProduct(db, i, q) /\ <<"product", q>> \notin keys => OwnsProduct(new, i, q)
         /\ \A rows : OwnsPart(db, rows, i, q) /\ <<"part", q>> \notin keys =>
                OwnsPart(new, rows, i, q)
<1>1. i # None /\ new.v2[i] = db.v2[i]
  BY IndexNat DEF Grows
<1>2. ASSUME OwnsProduct(db, i, q), <<"product", q>> \notin keys
      PROVE  OwnsProduct(new, i, q)
  <2>1. Migrated(db, "product", q)
    BY <1>1, <1>2 DEF OwnsProduct, Migrated
  <2>2. /\ <<"product", q>> \in DOMAIN new.maps
        /\ new.maps[<<"product", q>>] = db.maps[<<"product", q>>]
    BY <1>2, <2>1, MapsAlike DEF Migrated
  <2>3. ProductLike(new, i, q)
    BY <1>2, LikeStays DEF OwnsProduct
  <2>4. QED
    BY <1>1, <1>2, <2>2, <2>3 DEF OwnsProduct
<1>3. ASSUME NEW rows, OwnsPart(db, rows, i, q), <<"part", q>> \notin keys
      PROVE  OwnsPart(new, rows, i, q)
  <2>1. Migrated(db, "part", q)
    BY <1>1, <1>3 DEF OwnsPart, Migrated
  <2>2. /\ <<"part", q>> \in DOMAIN new.maps
        /\ new.maps[<<"part", q>>] = db.maps[<<"part", q>>]
    BY <1>3, <2>1, MapsAlike DEF Migrated
  <2>3. PartLike(new, rows, i, q)
    BY <1>3, LikeStays DEF OwnsPart
  <2>4. QED
    BY <1>1, <1>3, <2>2, <2>3 DEF OwnsPart
<1>4. QED
  BY <1>2, <1>3

LEMMA OwnersStay ==
  ASSUME NEW db, DbOK(db), NEW new, NEW run, NEW keys, NEW tabs,
         Grows(db, new, run, keys, tabs), NEW rows
  PROVE  /\ /\ OwnedProducts(db, rows) /\ "Product" \notin tabs
            /\ \A q : Migrated(db, "product", q) => <<"product", q>> \notin keys
            => OwnedProducts(new, rows)
         /\ /\ OwnedParts(db, rows) /\ "ProductPart" \notin tabs
            /\ \A q : Migrated(db, "part", q) => <<"part", q>> \notin keys
            => OwnedParts(new, rows)
<1>1. \A i \in DOMAIN new.v2 : i \in DOMAIN db.v2 \/ new.v2[i].table \in tabs
  BY DEF Grows
<1>2. \A i \in DOMAIN db.v2 : new.v2[i] = db.v2[i] /\ i # None
  BY IndexNat DEF Grows
<1>3. ASSUME OwnedProducts(db, rows), "Product" \notin tabs,
             \A q : Migrated(db, "product", q) => <<"product", q>> \notin keys,
             NEW i \in DOMAIN new.v2, new.v2[i].table = "Product"
      PROVE  \E q \in rows : OwnsProduct(new, i, q)
  <2>1. i \in DOMAIN db.v2 /\ db.v2[i].table = "Product"
    BY <1>1, <1>2, <1>3
  <2>2. PICK q \in rows : OwnsProduct(db, i, q)
    BY <1>3, <2>1 DEF OwnedProducts
  <2>3. <<"product", q>> \notin keys
    BY <1>2, <1>3, <2>1, <2>2 DEF OwnsProduct, Migrated
  <2>4. QED
    BY <2>1, <2>2, <2>3, OwnerStays
<1>4. ASSUME OwnedParts(db, rows), "ProductPart" \notin tabs,
             \A q : Migrated(db, "part", q) => <<"part", q>> \notin keys,
             NEW i \in DOMAIN new.v2, new.v2[i].table = "ProductPart"
      PROVE  \E q \in rows : OwnsPart(new, rows, i, q)
  <2>1. i \in DOMAIN db.v2 /\ db.v2[i].table = "ProductPart"
    BY <1>1, <1>2, <1>4
  <2>2. PICK q \in rows : OwnsPart(db, rows, i, q)
    BY <1>4, <2>1 DEF OwnedParts
  <2>3. <<"part", q>> \notin keys
    BY <1>2, <1>4, <2>1, <2>2 DEF OwnsPart, Migrated
  <2>4. QED
    BY <2>1, <2>2, <2>3, OwnerStays
<1>5. QED
  BY <1>3, <1>4 DEF OwnedProducts, OwnedParts

\* What a map says of its V1 row stays so.
LEMMA LineStays ==
  ASSUME NEW db, NEW new, NEW run, NEW keys, NEW tabs, Grows(db, new, run, keys, tabs),
         NEW rows, NEW i, NEW bom, NEW b, LineOf(db, rows, i, bom, b)
  PROVE  LineOf(new, rows, i, bom, b)
<1>1. /\ i \in DOMAIN db.v2 /\ bom \in DOMAIN db.v2
      /\ db.v2[i].within = bom /\ ProductLike(db, db.v2[bom].within, Ref[b])
  BY DEF LineOf
<1>2. PICK u : db.v2[i].uses = {u} /\ Found(db, rows, u, PartOf[b])
  BY DEF LineOf
<1>3. /\ i \in DOMAIN new.v2 /\ bom \in DOMAIN new.v2
      /\ new.v2[i] = db.v2[i] /\ new.v2[bom] = db.v2[bom]
  BY <1>1 DEF Grows
<1>4. ProductLike(new, new.v2[bom].within, Ref[b]) /\ Found(new, rows, u, PartOf[b])
  BY <1>1, <1>2, <1>3, LikeStays
<1>5. QED
  BY <1>1, <1>2, <1>3, <1>4 DEF LineOf

LEMMA RightStays ==
  ASSUME NEW db, NEW new, NEW run, NEW keys, NEW tabs, Grows(db, new, run, keys, tabs),
         NEW rows, NEW r
  PROVE  /\ PartRight(db, rows, r) /\ <<"part", r>> \notin keys => PartRight(new, rows, r)
         /\ VariationRight(db, rows, r) /\ <<"production_part", r>> \notin keys =>
              VariationRight(new, rows, r)
         /\ LineRight(db, rows, r) /\ <<"bom", r>> \notin keys /\ <<"bom_item", r>> \notin keys =>
              LineRight(new, rows, r)
<1>1. ASSUME PartRight(db, rows, r), <<"part", r>> \notin keys, Migrated(new, "part", r)
      PROVE  PartLike(new, rows, new.maps[<<"part", r>>].new, r)
  <2>1. Migrated(db, "part", r) /\ new.maps[<<"part", r>>] = db.maps[<<"part", r>>]
    BY <1>1, MapsAlike
  <2>2. PartLike(db, rows, db.maps[<<"part", r>>].new, r)
    BY <1>1, <2>1 DEF PartRight
  <2>3. QED
    BY <2>1, <2>2, LikeStays
<1>2. ASSUME VariationRight(db, rows, r), <<"production_part", r>> \notin keys,
             Migrated(new, "production_part", r)
      PROVE  VariationOf(new, rows, new.maps[<<"production_part", r>>].new, r)
  <2> DEFINE i == db.maps[<<"production_part", r>>].new
  <2>1. Migrated(db, "production_part", r)
        /\ new.maps[<<"production_part", r>>] = db.maps[<<"production_part", r>>]
    BY <1>2, MapsAlike
  <2>2. VariationOf(db, rows, i, r)
    BY <1>2, <2>1 DEF VariationRight
  <2>3. PICK x, y : db.v2[i].uses = {x, y} /\ Found(db, rows, x, Ref[r])
                    /\ ProductOf(db, rows, y, Ref[r])
    BY <2>2 DEF VariationOf
  <2>4. i \in DOMAIN new.v2 /\ new.v2[i] = db.v2[i]
    BY <2>2 DEF VariationOf, Grows
  <2>5. Found(new, rows, x, Ref[r]) /\ ProductOf(new, rows, y, Ref[r])
    BY <2>3, LikeStays
  <2>6. VariationOf(new, rows, i, r)
    BY <2>3, <2>4, <2>5 DEF VariationOf
  <2>7. QED
    BY <2>1, <2>6
<1>3. ASSUME LineRight(db, rows, r), <<"bom", r>> \notin keys, <<"bom_item", r>> \notin keys,
             Migrated(new, "bom_item", r)
      PROVE  /\ Migrated(new, "bom", r)
             /\ LineOf(new, rows, new.maps[<<"bom_item", r>>].new, new.maps[<<"bom", r>>].new, r)
  <2>1. Migrated(db, "bom_item", r) /\ new.maps[<<"bom_item", r>>] = db.maps[<<"bom_item", r>>]
    BY <1>3, MapsAlike
  <2>2. /\ Migrated(db, "bom", r)
        /\ LineOf(db, rows, db.maps[<<"bom_item", r>>].new, db.maps[<<"bom", r>>].new, r)
    BY <1>3, <2>1 DEF LineRight
  <2>3. Migrated(new, "bom", r) /\ new.maps[<<"bom", r>>] = db.maps[<<"bom", r>>]
    BY <1>3, <2>2, MapsAlike
  <2>4. QED
    BY <2>1, <2>2, <2>3, LineStays
<1>4. QED
  BY <1>1, <1>2, <1>3 DEF PartRight, VariationRight, LineRight

LEMMA ShapesStay ==
  ASSUME NEW db, NEW new, NEW run, NEW keys, NEW tabs, Grows(db, new, run, keys, tabs),
         BomShapes(db), "BOM" \notin tabs, "BOMItem" \notin tabs
  PROVE  BomShapes(new)
<1>1. \A i \in DOMAIN new.v2 :
        (i \in DOMAIN db.v2 /\ new.v2[i] = db.v2[i]) \/ new.v2[i].table \in tabs
  BY DEF Grows
<1>2. QED
  BY <1>1 DEF BomShapes

\* A product is added where there was none, since only its own map names one of its key.
LEMMA ProductExact ==
  ASSUME NEW db, DbOK(db), txn.run \in RunIds, NEW p \in Rows, Kind[p] = "product",
         ~Migrated(db, "product", p), NEW rows, p \in rows, OwnedProducts(db, rows)
  PROVE  OwnedProducts(ProductStep(db, p), rows)
<1> DEFINE new == ProductStep(db, p)
           key == <<"product", p>>
           n == new.maps[key].new
<1>1. \A q : Migrated(db, "product", q) => <<"product", q>> \notin {key}
  OBVIOUS
<1>2. CASE CatMap(db, Ref[p]) = None
  <2>1. new = Skipped(db, "product", p)
    BY <1>2, Zenon DEF ProductStep
  <2>2. Grows(db, new, txn.run, {key}, {})
    BY <2>1, SkippedGrows DEF Types
  <2> HIDE DEF new
  <2> DEFINE tabs == {}
  <2>3. "Product" \notin tabs
    OBVIOUS
  <2>4. Grows(db, new, txn.run, {key}, tabs)
    BY <2>2
  <2> HIDE DEF tabs, key
  <2>5. OwnedProducts(new, rows)
    BY <1>1, <2>3, <2>4, OwnersStay
  <2>6. QED
    BY <2>5 DEF new
<1>3. CASE CatMap(db, Ref[p]) # None
  <2> DEFINE row == ProductRow(db, p)
             cat == CatMap(db, Ref[p])
  <2>1. Got(db, new, txn.run, key, row)
    <3>1. Outcome(db, ProductStep(db, p), CatMap(db, Ref[p]) = None, "product", p,
                  ProductRow(db, p))
      BY ProductOutcome
    <3>2. QED
      BY <1>3, <3>1 DEF Outcome
  <2>2. /\ cat \in DOMAIN db.v2 /\ db.v2[cat].table = "ProductCategory"
        /\ db.v2[cat].name = Strip[Name[Ref[p]]]
    BY <1>3, CategoryFound
  <2>3. /\ row.table = "Product" /\ row.key = <<p, 0>> /\ row.name = Name[p]
        /\ row.uses = {cat}
    BY DEF ProductRow, Record
  <2> HIDE DEF new, row, cat
  <2>4. /\ Grows(db, new, txn.run, {key}, {row.table}) /\ key \in DOMAIN new.maps
        /\ n \in DOMAIN new.v2 /\ new.v2[n].table = row.table /\ new.v2[n].key = row.key
        /\ n \in DOMAIN db.v2 \/ new.v2[n] = row
        /\ DOMAIN new.v2 \subseteq DOMAIN db.v2 \cup {n}
    BY <2>1 DEF Got
  <2> HIDE DEF n, key
  <2>5. \A i \in DOMAIN db.v2 : i \in DOMAIN new.v2 /\ new.v2[i] = db.v2[i] /\ i # None
    BY <2>4, IndexNat DEF Grows
  <2>6. n \notin DOMAIN db.v2
    <3> SUFFICES ASSUME n \in DOMAIN db.v2 PROVE FALSE
      OBVIOUS
    <3>1. db.v2[n].table = "Product" /\ db.v2[n].key = <<p, 0>>
      BY <2>3, <2>4, <2>5
    <3>2. PICK q \in rows : OwnsProduct(db, n, q)
      BY <3>1 DEF OwnedProducts
    <3>3. q = p
      BY <3>1, <3>2 DEF OwnsProduct
    <3>4. QED
      BY <2>5, <3>2, <3>3 DEF OwnsProduct, Migrated
  <2>7. new.v2[n] = row
    BY <2>4, <2>6
  <2>8. ProductLike(new, n, p)
    BY <2>2, <2>3, <2>4, <2>5, <2>7 DEF ProductLike
  <2>9. OwnsProduct(new, n, p)
    BY <2>3, <2>4, <2>7, <2>8 DEF OwnsProduct, n, key
  <2>10. ASSUME NEW i \in DOMAIN new.v2, new.v2[i].table = "Product"
         PROVE  \E q \in rows : OwnsProduct(new, i, q)
    <3>1. CASE i = n
      BY <2>9, <3>1
    <3>2. CASE i # n
      <4>1. i \in DOMAIN db.v2 /\ db.v2[i].table = "Product"
        BY <2>4, <2>5, <2>10, <3>2
      <4>2. PICK q \in rows : OwnsProduct(db, i, q)
        BY <4>1 DEF OwnedProducts
      <4>3. <<"product", q>> \notin {key}
        BY <1>1, <2>5, <4>1, <4>2 DEF OwnsProduct, Migrated
      <4>4. QED
        BY <2>4, <4>1, <4>2, <4>3, OwnerStays
    <3>3. QED
      BY <3>1, <3>2
  <2>11. OwnedProducts(new, rows)
    BY <2>10 DEF OwnedProducts
  <2>12. QED
    BY <2>11 DEF new
<1>4. QED
  BY <1>2, <1>3

\* A part is added below the product of its last BOM line.
LEMMA PartExact ==
  ASSUME NEW db, DbOK(db), txn.run \in RunIds, NEW p \in Rows, Kind[p] = "part",
         v1 \subseteq Rows, ~Migrated(db, "part", p), p \in v1, OwnedParts(db, v1)
  PROVE  OwnedParts(PartStep(db, p), v1) /\ PartRight(PartStep(db, p), v1, p)
<1> DEFINE new == PartStep(db, p)
           key == <<"part", p>>
           n == new.maps[key].new
           product == ProductMap(db, BomProduct(p))
<1>1. \A q : Migrated(db, "part", q) => <<"part", q>> \notin {key}
  OBVIOUS
<1>2. CASE product = None
  <2>1. new = Skipped(db, "part", p)
    BY <1>2, Zenon DEF PartStep
  <2>2. Grows(db, new, txn.run, {key}, {})
        /\ (key \notin DOMAIN db.maps => new.maps[key].new = None)
    BY <2>1, SkippedGrows DEF Types
  <2>3. ~Migrated(new, "part", p)
    <3>1. key \in DOMAIN db.maps => new = db
      BY <2>1 DEF Skipped
    <3>2. QED
      BY <2>2, <3>1 DEF Migrated
  <2> HIDE DEF new
  <2> DEFINE tabs == {}
  <2>4. "ProductPart" \notin tabs
    OBVIOUS
  <2>5. Grows(db, new, txn.run, {key}, tabs)
    BY <2>2
  <2> HIDE DEF tabs, key
  <2>6. OwnedParts(new, v1)
    BY <1>1, <2>4, <2>5, OwnersStay
  <2>7. QED
    BY <2>3, <2>6 DEF new, PartRight
<1>3. CASE product # None
  <2> DEFINE row == PartRow(db, p)
  <2>1. Got(db, new, txn.run, key, row) /\ n \notin DOMAIN db.v2
    <3>1. /\ Outcome(db, PartStep(db, p), ProductMap(db, BomProduct(p)) = None, "part", p,
                     PartRow(db, p))
          /\ ProductMap(db, BomProduct(p)) # None /\ ~Migrated(db, "part", p) =>
               PartStep(db, p).maps[<<"part", p>>].new \notin DOMAIN db.v2
      BY PartOutcome
    <3>2. QED
      BY <1>3, <3>1 DEF Outcome
  <2>2. ProductOf(db, v1, product, p)
    BY <1>3, BomProductFound
  <2>3. row.table = "ProductPart" /\ row.name = Name[p] /\ row.within = product
    BY DEF PartRow, Record
  <2> HIDE DEF new, row, product
  <2>4. /\ Grows(db, new, txn.run, {key}, {row.table}) /\ key \in DOMAIN new.maps
        /\ n \in DOMAIN new.v2 /\ new.v2[n] = row
        /\ DOMAIN new.v2 \subseteq DOMAIN db.v2 \cup {n}
    BY <2>1 DEF Got
  <2> HIDE DEF n, key
  <2>5. \A i \in DOMAIN db.v2 : i \in DOMAIN new.v2 /\ new.v2[i] = db.v2[i] /\ i # None
    BY <2>4, IndexNat DEF Grows
  <2>6. PartLike(new, v1, n, p)
    <3>1. ProductOf(new, v1, product, p)
      BY <2>2, <2>4, LikeStays
    <3>2. QED
      BY <2>3, <2>4, <3>1 DEF PartLike
  <2>7. OwnsPart(new, v1, n, p)
    BY <2>3, <2>4, <2>6 DEF OwnsPart, n, key
  <2>8. ASSUME NEW i \in DOMAIN new.v2, new.v2[i].table = "ProductPart"
        PROVE  \E q \in v1 : OwnsPart(new, v1, i, q)
    <3>1. CASE i = n
      BY <2>7, <3>1
    <3>2. CASE i # n
      <4>1. i \in DOMAIN db.v2 /\ db.v2[i].table = "ProductPart"
        BY <2>4, <2>5, <2>8, <3>2
      <4>2. PICK q \in v1 : OwnsPart(db, v1, i, q)
        BY <4>1 DEF OwnedParts
      <4>3. <<"part", q>> \notin {key}
        BY <1>1, <2>5, <4>1, <4>2 DEF OwnsPart, Migrated
      <4>4. QED
        BY <2>4, <4>1, <4>2, <4>3, OwnerStays
    <3>3. QED
      BY <3>1, <3>2
  <2>9. OwnedParts(new, v1) /\ PartRight(new, v1, p)
    BY <2>6, <2>8 DEF OwnedParts, PartRight, n, key
  <2>10. QED
    BY <2>9 DEF new
<1>4. QED
  BY <1>2, <1>3

LEMMA VariationExact ==
  ASSUME NEW db, DbOK(db), txn.run \in RunIds, NEW v \in Rows, v1 \subseteq Rows,
         ~Migrated(db, "production_part", v)
  PROVE  VariationRight(VariationStep(db, v), v1, v)
<1> DEFINE new == VariationStep(db, v)
           key == <<"production_part", v>>
           n == new.maps[key].new
           part == PartMap(db, Ref[v])
           product == ProductMap(db, BomProduct(Ref[v]))
<1>1. CASE part = None \/ product = None
  <2>1. new = Skipped(db, "production_part", v)
    BY <1>1, Zenon DEF VariationStep
  <2>2. key \notin DOMAIN db.maps =>
          Skipped(db, "production_part", v).maps[key] = [new |-> None, run |-> txn.run]
    <3>1. "production_part" \in Types
      BY DEF Types
    <3>2. QED
      BY <3>1, SkippedGrows
  <2>3. key \in DOMAIN db.maps => new = db
    BY <2>1 DEF Skipped
  <2>4. ~Migrated(new, "production_part", v)
    BY <2>1, <2>2, <2>3 DEF Migrated
  <2>5. QED
    BY <2>4 DEF VariationRight
<1>2. CASE ~(part = None \/ product = None)
  <2> DEFINE row == VariationRow(db, v)
  <2>1. Got(db, new, txn.run, key, row) /\ n \notin DOMAIN db.v2
    <3>1. /\ Outcome(db, VariationStep(db, v),
                     PartMap(db, Ref[v]) = None \/ ProductMap(db, BomProduct(Ref[v])) = None,
                     "production_part", v, VariationRow(db, v))
          /\ PartMap(db, Ref[v]) # None /\ ~Migrated(db, "production_part", v) =>
               VariationStep(db, v).maps[<<"production_part", v>>].new \notin DOMAIN db.v2
      BY VariationOutcome
    <3>2. QED
      BY <1>2, <3>1 DEF Outcome
  <2>2. Found(db, v1, part, Ref[v]) /\ ProductOf(db, v1, product, Ref[v])
    BY <1>2, PartMapFound, BomProductFound
  <2>3. row.uses = {part, product}
    BY DEF VariationRow, Record
  <2> HIDE DEF new, row, product, part
  <2>4. Grows(db, new, txn.run, {key}, {row.table}) /\ n \in DOMAIN new.v2 /\ new.v2[n] = row
    BY <2>1 DEF Got
  <2>5. Found(new, v1, part, Ref[v]) /\ ProductOf(new, v1, product, Ref[v])
    BY <2>2, <2>4, LikeStays
  <2>6. VariationOf(new, v1, n, v)
    BY <2>3, <2>4, <2>5 DEF VariationOf
  <2>7. VariationRight(new, v1, v)
    BY <2>6 DEF VariationRight
  <2>8. QED
    BY <2>7 DEF new
<1>3. QED
  BY <1>1, <1>2

\* The item of a BOM line hangs below the BOM that the line got, whether it was
\* found or added.
LEMMA LineExact ==
  ASSUME NEW got, DbOK(got), txn.run \in RunIds, NEW b \in Rows, v1 \subseteq Rows, NEW new,
         LineOutcome(got, new, b, got.maps[<<"bom", b>>].new),
         Migrated(got, "bom", b), <<"bom_item", b>> \notin DOMAIN got.maps, BomShapes(got),
         got.maps[<<"bom", b>>].new \in DOMAIN got.v2,
         ProductLike(got, got.v2[got.maps[<<"bom", b>>].new].within, Ref[b])
  PROVE  BomShapes(new) /\ LineRight(new, v1, b)
<1> DEFINE bom == got.maps[<<"bom", b>>].new
           key == <<"bom_item", b>>
           part == PartMap(got, PartOf[b])
<1>1. CASE part = None
  <2>1. new = Skipped(got, "bom_item", b)
    BY <1>1 DEF LineOutcome
  <2>2. /\ Grows(got, Skipped(got, "bom_item", b), txn.run, {key}, {})
        /\ Skipped(got, "bom_item", b).maps[key] = [new |-> None, run |-> txn.run]
    <3>1. "bom_item" \in Types
      BY DEF Types
    <3>2. QED
      BY <3>1, SkippedGrows
  <2>3. ~Migrated(new, "bom_item", b)
    BY <2>1, <2>2 DEF Migrated
  <2> DEFINE tabs == {}
  <2>4. Grows(got, new, txn.run, {key}, tabs) /\ "BOM" \notin tabs /\ "BOMItem" \notin tabs
    BY <2>1, <2>2
  <2> HIDE DEF tabs, key
  <2>5. BomShapes(new)
    BY <2>4, ShapesStay
  <2>6. QED
    BY <2>3, <2>5 DEF LineRight
<1>2. CASE part # None
  <2> DEFINE row == ItemRow(bom, part)
  <2>1. PICK mid : /\ Got(got, mid, txn.run, key, row)
                   /\ Grows(mid, new, txn.run, {<<"bom_item_material_rule", b>>}, {"Rule"})
    BY <1>2 DEF LineOutcome
  <2>2. Found(got, v1, part, PartOf[b])
    BY <1>2, PartMapFound
  <2>3. /\ row.table = "BOMItem" /\ row.key = <<bom, part>> /\ row.within = bom
        /\ row.uses = {part}
    BY DEF ItemRow, Record
  <2> DEFINE n == mid.maps[key].new
  <2> HIDE DEF row, part
  <2>4. /\ Grows(got, mid, txn.run, {key}, {row.table}) /\ key \in DOMAIN mid.maps
        /\ n \in DOMAIN mid.v2 /\ mid.v2[n].table = row.table /\ mid.v2[n].key = row.key
        /\ n \in DOMAIN got.v2 \/ mid.v2[n] = row
        /\ DOMAIN mid.v2 \subseteq DOMAIN got.v2 \cup {n}
    BY <2>1 DEF Got
  <2>5. \A i \in DOMAIN got.v2 : i \in DOMAIN mid.v2 /\ mid.v2[i] = got.v2[i]
    BY <2>4 DEF Grows
  <2>6. mid.v2[n].within = bom /\ mid.v2[n].uses = {part}
    <3> HIDE DEF n, bom
    <3>1. CASE mid.v2[n] = row
      BY <2>3, <3>1
    <3>2. CASE n \in DOMAIN got.v2
      <4>1. got.v2[n].table = "BOMItem" /\ got.v2[n].key = <<bom, part>>
        BY <2>3, <2>4, <2>5, <3>2
      <4>2. PICK u : got.v2[n].key = <<got.v2[n].within, u>> /\ got.v2[n].uses = {u}
        BY <3>2, <4>1 DEF BomShapes
      <4>3. got.v2[n].within = bom /\ u = part
        BY <4>1, <4>2
      <4>4. QED
        BY <2>5, <3>2, <4>2, <4>3
    <3>3. QED
      BY <2>4, <3>1, <3>2
  <2>7. BomShapes(mid)
    <3> HIDE DEF n, bom
    <3> SUFFICES ASSUME NEW i \in DOMAIN mid.v2
                 PROVE  /\ mid.v2[i].table = "BOM" => mid.v2[i].key = <<mid.v2[i].within, 0>>
                        /\ mid.v2[i].table = "BOMItem" =>
                             \E u : mid.v2[i].key = <<mid.v2[i].within, u>> /\ mid.v2[i].uses = {u}
      BY DEF BomShapes
    <3>1. CASE i \in DOMAIN got.v2
      BY <2>5, <3>1 DEF BomShapes
    <3>2. CASE i = n
      BY <2>3, <2>4, <2>6, <3>2
    <3>3. QED
      BY <2>4, <3>1, <3>2
  <2>8. LineOf(mid, v1, n, bom, b)
    <3>1. /\ Found(mid, v1, part, PartOf[b])
          /\ ProductLike(mid, got.v2[bom].within, Ref[b])
      BY <2>2, <2>4, LikeStays
    <3>2. bom \in DOMAIN mid.v2 /\ mid.v2[bom] = got.v2[bom]
      BY <2>5
    <3> HIDE DEF n, bom
    <3>3. QED
      BY <2>4, <2>6, <3>1, <3>2 DEF LineOf
  <2>9. LineRight(mid, v1, b)
    <3>1. <<"bom", b>> \notin {key}
      OBVIOUS
    <3>2. Migrated(mid, "bom", b) /\ mid.maps[<<"bom", b>>] = got.maps[<<"bom", b>>]
      BY <2>4, <3>1, MapsAlike
    <3>3. QED
      BY <2>8, <3>2 DEF LineRight
  <2> DEFINE keys == {<<"bom_item_material_rule", b>>}
             tabs == {"Rule"}
  <2>10. /\ <<"bom", b>> \notin keys /\ key \notin keys
         /\ "BOM" \notin tabs /\ "BOMItem" \notin tabs /\ Grows(mid, new, txn.run, keys, tabs)
    BY <2>1
  <2> HIDE DEF keys, tabs
  <2>11. LineRight(new, v1, b)
    BY <2>9, <2>10, RightStays
  <2>12. BomShapes(new)
    BY <2>7, <2>10, ShapesStay
  <2>13. QED
    BY <2>11, <2>12
<1>3. QED
  BY <1>1, <1>2

LEMMA BomExact ==
  ASSUME NEW db, DbOK(db), txn.run \in RunIds, NEW b \in Rows, v1 \subseteq Rows,
         ~Migrated(db, "bom", b), <<"bom_item", b>> \notin DOMAIN db.maps, BomShapes(db)
  PROVE  BomShapes(BomStep(db, b)) /\ LineRight(BomStep(db, b), v1, b)
<1> DEFINE new == BomStep(db, b)
           key == <<"bom", b>>
           product == ProductMap(db, Ref[b])
<1>1. CASE BomSkips(db, b)
  <2>1. new = Skipped(db, "bom", b)
    BY <1>1, BomOutcome
  <2>2. Grows(db, Skipped(db, "bom", b), txn.run, {key}, {})
    <3>1. "bom" \in Types
      BY DEF Types
    <3>2. QED
      BY <3>1, SkippedGrows
  <2> DEFINE tabs == {}
  <2>3. /\ Grows(db, new, txn.run, {key}, tabs) /\ "BOM" \notin tabs /\ "BOMItem" \notin tabs
        /\ <<"bom_item", b>> \notin {key}
    BY <2>1, <2>2
  <2> HIDE DEF tabs, new, key
  <2>4. BomShapes(new)
    BY <2>3, ShapesStay
  <2>5. ~Migrated(new, "bom_item", b)
    <3>1. ~Migrated(db, "bom_item", b)
      BY DEF Migrated
    <3>2. QED
      BY <2>3, <3>1, MapsAlike
  <2>6. BomShapes(new) /\ LineRight(new, v1, b)
    BY <2>4, <2>5 DEF LineRight
  <2>7. QED
    BY <2>6 DEF new
<1>2. CASE ~BomSkips(db, b)
  <2> DEFINE row == BomRow(product)
  <2>1. PICK got : /\ Got(db, got, txn.run, key, row)
                   /\ LineOutcome(got, new, b, got.maps[key].new)
    BY <1>2, BomOutcome
  <2>2. ProductLike(db, product, Ref[b])
    BY <1>2, ProductFound DEF BomSkips
  <2>3. row.table = "BOM" /\ row.key = <<product, 0>> /\ row.within = product
    BY DEF BomRow, Record
  <2> DEFINE n == got.maps[key].new
  <2> HIDE DEF row, product, new
  <2>4. /\ Grows(db, got, txn.run, {key}, {row.table}) /\ key \in DOMAIN got.maps
        /\ n \in DOMAIN got.v2 /\ got.v2[n].table = row.table /\ got.v2[n].key = row.key
        /\ n \in DOMAIN db.v2 \/ got.v2[n] = row
        /\ DOMAIN got.v2 \subseteq DOMAIN db.v2 \cup {n}
    BY <2>1 DEF Got
  <2>5. \A i \in DOMAIN db.v2 : i \in DOMAIN got.v2 /\ got.v2[i] = db.v2[i]
    BY <2>4 DEF Grows
  <2>6. got.v2[n].within = product
    <3> HIDE DEF n
    <3>1. CASE got.v2[n] = row
      BY <2>3, <3>1
    <3>2. CASE n \in DOMAIN db.v2
      <4>1. db.v2[n].table = "BOM" /\ db.v2[n].key = <<product, 0>>
        BY <2>3, <2>4, <2>5, <3>2
      <4>2. db.v2[n].key = <<db.v2[n].within, 0>>
        BY <3>2, <4>1 DEF BomShapes
      <4>3. db.v2[n].within = product
        BY <4>1, <4>2
      <4>4. QED
        BY <2>5, <3>2, <4>3
    <3>3. QED
      BY <2>4, <3>1, <3>2
  <2>7. BomShapes(got)
    <3> HIDE DEF n
    <3> SUFFICES ASSUME NEW i \in DOMAIN got.v2
                 PROVE  /\ got.v2[i].table = "BOM" => got.v2[i].key = <<got.v2[i].within, 0>>
                        /\ got.v2[i].table = "BOMItem" =>
                             \E u : got.v2[i].key = <<got.v2[i].within, u>> /\ got.v2[i].uses = {u}
      BY DEF BomShapes
    <3>1. CASE i \in DOMAIN db.v2
      BY <2>5, <3>1 DEF BomShapes
    <3>2. CASE i = n
      BY <2>3, <2>4, <2>6, <3>2
    <3>3. QED
      BY <2>4, <3>1, <3>2
  <2>8. DbOK(got) /\ Migrated(got, "bom", b)
    BY <2>1, GotGrows, GotMigrates
  <2>9. <<"bom_item", b>> \notin DOMAIN got.maps
    <3>1. <<"bom_item", b>> \notin {key}
      OBVIOUS
    <3>2. QED
      BY <2>4, <3>1 DEF Grows
  <2>10. ProductLike(got, got.v2[n].within, Ref[b])
    <3> HIDE DEF n, key
    <3>1. ProductLike(got, product, Ref[b])
      BY <2>2, <2>4, LikeStays
    <3>2. QED
      BY <2>6, <3>1
  <2>11. BomShapes(new) /\ LineRight(new, v1, b)
    BY <2>1, <2>4, <2>7, <2>8, <2>9, <2>10, LineExact
  <2>12. QED
    BY <2>11 DEF new
<1>3. QED
  BY <1>1, <1>2

LEMMA StepExact ==
  ASSUME NEW db, Sound(db), txn.run \in RunIds, v1 \subseteq Rows, NEW r \in v1, Exact(db, v1)
  PROVE  Exact(Stepped(db, r), v1)
<1> DEFINE new == Stepped(db, r)
           keys == KeysOf(r)
           tabs == TablesOf[Kind[r]]
<1>1. DbOK(db) /\ r \in Rows /\ \A b \in Rows : Paired(db, b)
  BY DEF Sound
<1>2. CASE Kind[r] = "order" \/ Migrated(db, TypeOf(Kind[r]), r)
  <2>1. new = db
    <3>1. CASE Kind[r] = "order"
      BY <1>1, <3>1, SteppedIs
    <3>2. CASE Kind[r] # "order" /\ Migrated(db, TypeOf(Kind[r]), r)
      BY <1>1, <3>2, FirmIsFixed DEF Firm, Migrated
    <3>3. QED
      BY <1>2, <3>1, <3>2
  <2>2. QED
    BY <2>1
<1>3. CASE Kind[r] # "order" /\ ~Migrated(db, TypeOf(Kind[r]), r)
  <2>1. Grows(db, new, txn.run, keys, tabs)
    BY <1>1, StepGrows
  <2>2. /\ Kind[r] = "product" => new = ProductStep(db, r) /\ ~Migrated(db, "product", r)
        /\ Kind[r] = "part" => new = PartStep(db, r) /\ ~Migrated(db, "part", r)
        /\ Kind[r] = "variation" =>
              new = VariationStep(db, r) /\ ~Migrated(db, "production_part", r)
        /\ Kind[r] = "bom" => new = BomStep(db, r) /\ ~Migrated(db, "bom", r)
    BY <1>1, <1>3, SteppedIs DEF TypeOf
  <2> HIDE DEF new
  <2>3. /\ OwnedProducts(db, v1) /\ OwnedParts(db, v1) /\ BomShapes(db)
        /\ \A q \in Rows : PartRight(db, v1, q) /\ VariationRight(db, v1, q)
                           /\ LineRight(db, v1, q)
    BY DEF Exact
  <2>4. OwnedProducts(new, v1)
    <3>1. CASE Kind[r] = "product"
      BY <1>1, <2>2, <2>3, <3>1, ProductExact
    <3>2. CASE Kind[r] # "product"
      <4>1. "Product" \notin tabs /\ \A q : <<"product", q>> \notin keys
        BY <1>1, <3>2, KeysOnly, TablesOnly
      <4> HIDE DEF keys, tabs
      <4>2. QED
        BY <1>1, <2>1, <2>3, <4>1, OwnersStay
    <3>3. QED
      BY <3>1, <3>2
  <2>5. OwnedParts(new, v1)
    <3>1. CASE Kind[r] = "part"
      BY <1>1, <2>2, <2>3, <3>1, PartExact
    <3>2. CASE Kind[r] # "part"
      <4>1. "ProductPart" \notin tabs /\ \A q : <<"part", q>> \notin keys
        BY <1>1, <3>2, KeysOnly, TablesOnly
      <4> HIDE DEF keys, tabs
      <4>2. QED
        BY <1>1, <2>1, <2>3, <4>1, OwnersStay
    <3>3. QED
      BY <3>1, <3>2
  <2>6. ASSUME Kind[r] = "bom"
        PROVE  BomShapes(new) /\ LineRight(new, v1, r)
    <3>1. <<"bom_item", r>> \notin DOMAIN db.maps
      BY <1>1, <2>2, <2>6 DEF Paired
    <3>2. QED
      BY <1>1, <2>2, <2>3, <2>6, <3>1, BomExact
  <2>7. BomShapes(new)
    <3>1. CASE Kind[r] = "bom"
      BY <2>6, <3>1
    <3>2. CASE Kind[r] # "bom"
      <4>1. "BOM" \notin tabs /\ "BOMItem" \notin tabs
        BY <1>1, <3>2, TablesOnly
      <4> HIDE DEF keys, tabs
      <4>2. QED
        BY <2>1, <2>3, <4>1, ShapesStay
    <3>3. QED
      BY <3>1, <3>2
  <2>8. ASSUME NEW q \in Rows
        PROVE  PartRight(new, v1, q) /\ VariationRight(new, v1, q) /\ LineRight(new, v1, q)
    <3>1. PartRight(new, v1, q)
      <4>1. CASE Kind[r] = "part" /\ q = r
        BY <1>1, <2>2, <2>3, <4>1, PartExact
      <4>2. CASE ~(Kind[r] = "part" /\ q = r)
        <5>1. <<"part", q>> \notin keys
          BY <1>1, <4>2, KeysOnly
        <5> HIDE DEF keys, tabs
        <5>2. QED
          BY <2>1, <2>3, <5>1, RightStays
      <4>3. QED
        BY <4>1, <4>2
    <3>2. VariationRight(new, v1, q)
      <4>1. CASE Kind[r] = "variation" /\ q = r
        BY <1>1, <2>2, <4>1, VariationExact
      <4>2. CASE ~(Kind[r] = "variation" /\ q = r)
        <5>1. <<"production_part", q>> \notin keys
          BY <1>1, <4>2, KeysOnly
        <5> HIDE DEF keys, tabs
        <5>2. QED
          BY <2>1, <2>3, <5>1, RightStays
      <4>3. QED
        BY <4>1, <4>2
    <3>3. LineRight(new, v1, q)
      <4>1. CASE Kind[r] = "bom" /\ q = r
        BY <2>6, <4>1
      <4>2. CASE ~(Kind[r] = "bom" /\ q = r)
        <5>1. <<"bom", q>> \notin keys /\ <<"bom_item", q>> \notin keys
          BY <1>1, <4>2, KeysOnly
        <5> HIDE DEF keys, tabs
        <5>2. QED
          BY <2>1, <2>3, <5>1, RightStays
      <4>3. QED
        BY <4>1, <4>2
    <3>4. QED
      BY <3>1, <3>2, <3>3
  <2>9. Exact(new, v1)
    BY <2>4, <2>5, <2>7, <2>8 DEF Exact
  <2>10. QED
    BY <2>9 DEF new
<1>4. QED
  BY <1>2, <1>3

\* New V1 rows make nothing wrong.
LEMMA ExactMore ==
  ASSUME NEW db, NEW rows, NEW more, rows \subseteq more, Exact(db, rows)
  PROVE  Exact(db, more)
<1>1. \A i, p : ProductOf(db, rows, i, p) => ProductOf(db, more, i, p)
  BY DEF ProductOf
<1>2. \A i, p : PartLike(db, rows, i, p) => PartLike(db, more, i, p)
  BY <1>1 DEF PartLike
<1>3. \A i, p : Found(db, rows, i, p) => Found(db, more, i, p)
  BY <1>2 DEF Found
<1>4. OwnedProducts(db, more) /\ BomShapes(db)
  BY DEF Exact, OwnedProducts
<1>5. OwnedParts(db, more)
  BY <1>2 DEF Exact, OwnedParts, OwnsPart
<1>6. ASSUME NEW r \in Rows
      PROVE  PartRight(db, more, r) /\ VariationRight(db, more, r) /\ LineRight(db, more, r)
  <2>1. PartRight(db, more, r)
    BY <1>2 DEF Exact, PartRight
  <2>2. VariationRight(db, more, r)
    BY <1>1, <1>3 DEF Exact, VariationRight, VariationOf
  <2>3. LineRight(db, more, r)
    BY <1>3 DEF Exact, LineRight, LineOf
  <2>4. QED
    BY <2>1, <2>2, <2>3
<1>7. QED
  BY <1>4, <1>5, <1>6 DEF Exact

\* The office adds customers, and nothing else.
LEMMA ExactBeside ==
  ASSUME NEW db, DbOK(db), NEW new, NEW run, NEW keys, NEW rows,
         Grows(db, new, run, keys, {"Customer"}), keys = {}, Exact(db, rows)
  PROVE  Exact(new, rows)
<1> DEFINE tabs == {"Customer"}
<1>1. /\ "Product" \notin tabs /\ "ProductPart" \notin tabs /\ "BOM" \notin tabs
      /\ "BOMItem" \notin tabs /\ Grows(db, new, run, keys, tabs)
  OBVIOUS
<1>2. \A k : k \notin keys
  OBVIOUS
<1>3. /\ OwnedProducts(db, rows) /\ OwnedParts(db, rows) /\ BomShapes(db)
      /\ \A r \in Rows : PartRight(db, rows, r) /\ VariationRight(db, rows, r)
                         /\ LineRight(db, rows, r)
  BY DEF Exact
<1> HIDE DEF tabs
<1>4. OwnedProducts(new, rows) /\ OwnedParts(new, rows)
  BY <1>1, <1>2, <1>3, OwnersStay
<1>5. BomShapes(new)
  BY <1>1, <1>3, ShapesStay
<1>6. ASSUME NEW r \in Rows
      PROVE  PartRight(new, rows, r) /\ VariationRight(new, rows, r) /\ LineRight(new, rows, r)
  BY <1>1, <1>2, <1>3, RightStays
<1>7. QED
  BY <1>4, <1>5, <1>6 DEF Exact

\* A run whose maps are the only ones takes every product and part along.
LEMMA ExactRollBack ==
  ASSUME MigInv, NEW r \in RunIds, RollBack(r), ~mixed', Exact(Db, v1)
  PROVE  Exact(Db, v1)'
<1> DEFINE gone == DeletedBy(r, Len(DeleteOrder))
<1>1. /\ v2' = Without(v2, gone) /\ maps' = Without(maps, OwnMaps(r)) /\ v1' = v1
      /\ \A k \in DOMAIN maps : maps[k].run = r
  BY DEF RollBack
<1>2. DOMAIN maps' = {}
  BY <1>1 DEF Without, OwnMaps
<1>3. ASSUME NEW k \in DOMAIN maps, k[1] \in {"product", "part"}, maps[k].new \in DOMAIN v2
      PROVE  maps[k].new \in gone
  <2> DEFINE types == UNION {DeleteOrder[i] : i \in 1..Len(DeleteOrder)}
  <2>1. "product" \in types /\ "part" \in types
    <3>1. Len(DeleteOrder) = 12 /\ DeleteOrder[4] = {"part"} /\ DeleteOrder[6] = {"product"}
      BY DEF DeleteOrder
    <3>2. 4 \in 1..12 /\ 6 \in 1..12
      OBVIOUS
    <3> HIDE DEF DeleteOrder
    <3>3. QED
      BY <3>1, <3>2
  <2> HIDE DEF types
  <2>2. maps[k].new \in NamedBy(r, types)
    BY <1>1, <1>3, <2>1 DEF NamedBy, OwnMaps
  <2>3. NamedBy(r, types) \subseteq Cascade(NamedBy(r, types))
    BY DEF Cascade, Inside
  <2>4. gone = Cascade(NamedBy(r, types))
    BY DEF DeletedBy, types
  <2>5. QED
    BY <2>2, <2>3, <2>4
<1> HIDE DEF gone
<1>4. DOMAIN v2' = DOMAIN v2 \ gone /\ \A i \in DOMAIN v2' : v2'[i] = v2[i]
  BY <1>1 DEF Without
<1>5. PICK d : d = Db'
  OBVIOUS
<1>6. d.v2 = v2' /\ d.maps = maps'
  BY <1>5 DEF Db
<1>7. ASSUME NEW i \in DOMAIN d.v2, d.v2[i].table \in {"Product", "ProductPart"} PROVE FALSE
  <2>1. i \in DOMAIN v2 /\ v2[i].table \in {"Product", "ProductPart"} /\ i \notin gone
    BY <1>4, <1>6, <1>7
  <2>2. CASE v2[i].table = "Product"
    <3>1. PICK q \in v1 : OwnsProduct(Db, i, q)
      BY <2>1, <2>2, DbFields DEF Exact, OwnedProducts
    <3>2. <<"product", q>> \in DOMAIN maps /\ maps[<<"product", q>>].new = i
      BY <3>1, DbFields DEF OwnsProduct
    <3>3. QED
      BY <1>3, <2>1, <3>2
  <2>3. CASE v2[i].table = "ProductPart"
    <3>1. PICK q \in v1 : OwnsPart(Db, v1, i, q)
      BY <2>1, <2>3, DbFields DEF Exact, OwnedParts
    <3>2. <<"part", q>> \in DOMAIN maps /\ maps[<<"part", q>>].new = i
      BY <3>1, DbFields DEF OwnsPart
    <3>3. QED
      BY <1>3, <2>1, <3>2
  <2>4. QED
    BY <2>1, <2>2, <2>3
<1>8. OwnedProducts(d, v1) /\ OwnedParts(d, v1)
  BY <1>7 DEF OwnedProducts, OwnedParts
<1>9. BomShapes(d)
  BY <1>4, <1>6, DbFields DEF Exact, BomShapes
<1>10. \A q \in Rows : PartRight(d, v1, q) /\ VariationRight(d, v1, q) /\ LineRight(d, v1, q)
  BY <1>2, <1>6 DEF PartRight, VariationRight, LineRight, Migrated
<1>11. Exact(d, v1)
  BY <1>8, <1>9, <1>10 DEF Exact
<1>12. QED
  BY <1>1, <1>5, <1>11

LEMMA ExactInit == Init => ExactInv
<1> SUFFICES ASSUME Init PROVE ExactInv
  OBVIOUS
<1>1. v1 = Early /\ ~Open /\ DOMAIN Db.v2 = {} /\ DOMAIN Db.maps = {}
  BY DbFields, NoTxnFields DEF Init, Open
<1>2. Closed
  BY <1>1, MigrationAssumption DEF MigrationAssumption, Closed
<1>3. Exact(Db, v1)
  BY <1>1 DEF Exact, OwnedProducts, OwnedParts, BomShapes, PartRight, VariationRight,
              LineRight, Migrated
<1>4. QED
  BY <1>1, <1>2, <1>3 DEF ExactInv

\* A step that changes neither V1, the tables nor the open transaction.
LEMMA ExactKept ==
  ASSUME ExactInv, v1' = v1, v2' = v2, maps' = maps, next' = next, txn' = txn, mixed' = mixed
  PROVE  ExactInv'
<1>1. Db' = Db /\ Snapshot' = Snapshot /\ (Open' <=> Open)
  BY DEF Db, Snapshot, Open
<1>2. (Exact(Db, v1))' <=> Exact(Db, v1)
  BY <1>1
<1>3. (Exact(Snapshot, v1))' <=> Exact(Snapshot, v1)
  BY <1>1
<1>4. Closed' <=> Closed
  BY DEF Closed
<1>5. QED
  BY <1>1, <1>2, <1>3, <1>4 DEF ExactInv

LEMMA ExactUndo ==
  ASSUME ExactInv, Open, Undo, v1' = v1, mixed' = mixed
  PROVE  ExactInv'
<1>1. Db' = Snapshot /\ ~Open'
  BY NoTxnFields DEF Undo, Db, Snapshot, Open
<1>2. (Exact(Db, v1))' <=> Exact(Snapshot, v1)
  BY <1>1
<1>3. Closed' <=> Closed
  BY DEF Closed
<1>4. QED
  BY <1>1, <1>2, <1>3 DEF ExactInv

LEMMA ExactNext ==
  ASSUME MigInv, ExactInv, [Next]_vars
  PROVE  ExactInv'
<1>1. CASE UNCHANGED vars
  BY <1>1, ExactKept DEF vars, tables
<1>2. CASE \E phase \in Phases : CreateRun(phase)
  BY <1>2, ExactKept DEF CreateRun, tables
<1>3. ASSUME NEW r \in RunIds, Begin(r) PROVE ExactInv'
  <2>1. /\ v1' = v1 /\ v2' = v2 /\ maps' = maps /\ next' = next /\ mixed' = mixed
        /\ txn' = [run |-> r, todo |-> RowsOf(runs[r].phase), v2 |-> v2, maps |-> maps,
                   next |-> next]
    BY <1>3 DEF Begin, tables
  <2>2. Db' = Db /\ Snapshot' = Db /\ txn'.todo = RowsOf(runs[r].phase)
    BY <2>1 DEF Db, Snapshot
  <2>3. (Exact(Db, v1))' <=> Exact(Db, v1)
    BY <2>1, <2>2
  <2>4. (Exact(Snapshot, v1))' <=> Exact(Db, v1)
    BY <2>1, <2>2
  <2>5. RowsOf(runs[r].phase) \subseteq v1
    BY DEF RowsOf, OfKind
  <2>6. Closed' <=> Closed
    BY <2>1 DEF Closed
  <2>7. QED
    BY <2>1, <2>2, <2>3, <2>4, <2>5, <2>6 DEF ExactInv
<1>4. ASSUME NEW r \in RunIds, Finish(r) PROVE ExactInv'
  BY <1>4, ExactKept DEF Finish, tables
<1>5. ASSUME NEW r \in RunIds, Crash(r) PROVE ExactInv'
  <2>1. CASE proc[r] = "open"
    <3>1. Open
      BY <2>1 DEF MigInv, ProcessesKnown, RunIds, None, Open
    <3>2. Undo /\ v1' = v1 /\ mixed' = mixed
      BY <1>5, <2>1 DEF Crash
    <3>3. QED
      BY <3>1, <3>2, ExactUndo
  <2>2. CASE proc[r] # "open"
    BY <1>5, <2>2, ExactKept DEF Crash, tables
  <2>3. QED
    BY <2>1, <2>2
<1>6. ASSUME NEW r \in RunIds, RollBack(r) PROVE ExactInv'
  <2>1. ~Open /\ txn' = txn /\ v1' = v1 /\ (mixed => mixed')
    BY <1>6 DEF RollBack
  <2>2. ~mixed' => Exact(Db, v1)'
    BY <1>6, <2>1, ExactRollBack DEF ExactInv
  <2>3. Closed' <=> Closed
    BY <2>1 DEF Closed
  <2>4. QED
    BY <2>1, <2>2, <2>3 DEF ExactInv, Open
<1>7. CASE MigrateRow
  <2> DEFINE r == Least(txn.todo)
             new == Stepped(Db, r)
  <2>1. /\ v2' = new.v2 /\ maps' = new.maps /\ next' = new.next /\ Open /\ txn.todo # {}
        /\ txn' = [txn EXCEPT !.todo = @ \ {r}]
        /\ v1' = v1 /\ mixed' = mixed
    BY <1>7 DEF MigrateRow
  <2>2. txn.todo \subseteq Nat /\ v1 \subseteq Rows /\ txn.run \in RunIds
    BY <2>1, MigrationAssumption DEF MigInv, OthersTyped, MigrationAssumption, Open
  <2>3. r \in txn.todo /\ r \in v1
    BY <2>1, <2>2, LeastMember DEF ExactInv
  <2>4. Sound(Db)
    BY DEF MigInv
  <2>5. Exact(Db, v1) => Exact(new, v1)
    BY <2>2, <2>3, <2>4, StepExact
  <2>6. Sound(new)
    BY <2>2, <2>3, <2>4, StepSound
  <2> HIDE DEF r, new
  <2>7. Db' = new
    <3>1. new = [v2 |-> new.v2, maps |-> new.maps, next |-> new.next]
      BY <2>6 DEF Sound, DbOK, IsDb
    <3>2. QED
      BY <2>1, <3>1, Zenon DEF Db
  <2>8. (Exact(Db, v1))' <=> Exact(new, v1)
    BY <2>1, <2>7
  <2>9. txn'.run = txn.run /\ txn'.todo = txn.todo \ {r} /\ txn'.v2 = txn.v2
        /\ txn'.maps = txn.maps /\ txn'.next = txn.next
    <3>1. PICK a, b, c, d, e :
            txn = [run |-> a, todo |-> b, v2 |-> c, maps |-> d, next |-> e]
      BY DEF MigInv, TxnKnown
    <3>2. txn' = [run |-> a, todo |-> b \ {r}, v2 |-> c, maps |-> d, next |-> e]
      BY <2>1, <3>1
    <3>3. QED
      BY <3>1, <3>2
  <2>10. Snapshot' = Snapshot
    BY <2>9 DEF Snapshot
  <2>11. (Exact(Snapshot, v1))' <=> Exact(Snapshot, v1)
    BY <2>1, <2>10
  <2>12. Closed' <=> Closed
    BY <2>1 DEF Closed
  <2>13. QED
    BY <2>1, <2>5, <2>8, <2>9, <2>11, <2>12 DEF ExactInv
<1>8. CASE Commit
  <2>1. v1' = v1 /\ v2' = v2 /\ maps' = maps /\ next' = next /\ mixed' = mixed /\ txn' = NoTxn
    BY <1>8 DEF Commit, tables
  <2>2. Db' = Db /\ ~Open'
    BY <2>1, NoTxnFields DEF Db, Open
  <2>3. (Exact(Db, v1))' <=> Exact(Db, v1)
    BY <2>1, <2>2
  <2>4. Closed' <=> Closed
    BY <2>1 DEF Closed
  <2>5. QED
    BY <2>1, <2>2, <2>3, <2>4 DEF ExactInv
<1>9. CASE Raise
  BY <1>9, ExactUndo DEF Raise
<1>10. ASSUME NEW r \in Rows \ v1, AddRow(r) PROVE ExactInv'
  <2>1. /\ ~Open /\ v1' = v1 \cup {r} /\ v2' = v2 /\ maps' = maps /\ next' = next /\ txn' = txn
        /\ mixed' = mixed /\ {Ref[r], PartOf[r], MaterialOf[r]} \subseteq v1 \cup {None}
    BY <1>10 DEF AddRow, tables
  <2>2. Db' = Db /\ ~Open'
    BY <2>1 DEF Db, Open
  <2>3. PICK more : more = v1'
    OBVIOUS
  <2>4. (Exact(Db, v1))' <=> Exact(Db, more)
    BY <2>2, <2>3
  <2>5. Exact(Db, v1) => Exact(Db, more)
    BY <2>1, <2>3, ExactMore
  <2>6. Closed'
    BY <2>1 DEF ExactInv, Closed
  <2>7. QED
    BY <2>1, <2>2, <2>4, <2>5, <2>6 DEF ExactInv
<1>11. ASSUME NEW n \in OfficeNames, OfficeAddsCustomer(n) PROVE ExactInv'
  <2> DEFINE row == Record("Customer", <<n, 0>>, n, None, {})
             new == Created(Db, row)
             keys == {}
  <2>1. /\ ~Open /\ v2' = new.v2 /\ next' = next + 1
        /\ v1' = v1 /\ maps' = maps /\ txn' = txn /\ mixed' = mixed
    BY <1>11 DEF OfficeAddsCustomer
  <2>2. row \in V2Row /\ row.table = "Customer"
    <3>1. "Customer" \in Tables /\ n \in Nat /\ 0 \in Nat /\ None \in Nat
      BY MigrationAssumption DEF MigrationAssumption, Tables, None
    <3>2. QED
      BY <3>1, RecordTyped
  <2>3. DbOK(Db)
    BY DEF MigInv, Sound
  <2>4. Db' = new
    BY <2>1, DbFields DEF Created, Db
  <2> HIDE DEF row
  <2>5. Grows(Db, new, None, {}, {row.table})
    BY <2>2, <2>3, CreatedGrows
  <2>6. Grows(Db, new, None, keys, {"Customer"}) /\ keys = {}
    BY <2>2, <2>5
  <2> HIDE DEF new, keys
  <2>7. Exact(Db, v1) => Exact(new, v1)
    BY <2>3, <2>6, ExactBeside
  <2>8. (Exact(Db, v1))' <=> Exact(new, v1)
    BY <2>1, <2>4
  <2>9. ~Open' /\ (Closed' <=> Closed)
    BY <2>1 DEF Open, Closed
  <2>10. QED
    BY <2>1, <2>7, <2>8, <2>9 DEF ExactInv
<1>12. QED
  BY <1>1, <1>2, <1>3, <1>4, <1>5, <1>6, <1>7, <1>8, <1>9, <1>10, <1>11 DEF Next

\* A part that can be found again is found, and so are its product and its lines.
LEMMA ClearProduct ==
  ASSUME MigInv, ExactInv, ~mixed, NEW p, Clear(p), NEW i, ProductOf(Db, v1, i, p)
  PROVE  i = New("product", BomProduct(p))
<1> DEFINE Q == BomProduct(p)
<1>1. PICK b \in v1 : Kind[b] = "bom" /\ PartOf[b] = p /\ ProductLike(Db, i, Ref[b])
  BY DEF ProductOf
<1>2. Ref[b] = Q
  BY <1>1 DEF Clear, OfKind
<1> HIDE DEF Q
<1>3. i \in DOMAIN v2 /\ v2[i].table = "Product" /\ v2[i].name = Name[Q]
  BY <1>1, <1>2, DbFields DEF ProductLike
<1>4. PICK c \in DOMAIN v2 : v2[c].name = Strip[Name[Ref[Q]]] /\ v2[i].uses = {c}
  BY <1>1, <1>2, DbFields DEF ProductLike
<1>5. PICK q \in v1 : OwnsProduct(Db, i, q)
  BY <1>3, DbFields DEF ExactInv, Exact, OwnedProducts
<1>6. Kind[q] = "product" /\ ProductLike(Db, i, q)
      /\ <<"product", q>> \in DOMAIN maps /\ maps[<<"product", q>>].new = i
  BY <1>5, DbFields DEF OwnsProduct
<1>7. v2[i].name = Name[q]
  BY <1>6, DbFields DEF ProductLike
<1>8. PICK d \in DOMAIN v2 : v2[d].name = Strip[Name[Ref[q]]] /\ v2[i].uses = {d}
  BY <1>6, DbFields DEF ProductLike
<1>9. d = c
  BY <1>4, <1>8
<1>10. Name[q] = Name[Q] /\ Strip[Name[Ref[q]]] = Strip[Name[Ref[Q]]]
  BY <1>3, <1>4, <1>7, <1>8, <1>9
<1>11. q = Q
  BY <1>6, <1>10 DEF Clear, OfKind, Q
<1>12. QED
  BY <1>6, <1>11 DEF New, Q

LEMMA ClearPart ==
  ASSUME MigInv, ExactInv, ~mixed, NEW p, Clear(p), NEW u, Found(Db, v1, u, p)
  PROVE  u = New("part", p)
<1> DEFINE Q == BomProduct(p)
           i == v2[u].within
<1>1. /\ u \in DOMAIN v2 /\ v2[u].table = "ProductPart" /\ v2[u].name = Strip[Name[p]]
      /\ ProductOf(Db, v1, i, p)
  BY DbFields DEF Found, PartLike
<1>2. i = New("product", Q)
  BY <1>1, ClearProduct
<1>3. PICK q \in v1 : OwnsPart(Db, v1, u, q)
  BY <1>1, DbFields DEF ExactInv, Exact, OwnedParts
<1>4. /\ <<"part", q>> \in DOMAIN maps /\ maps[<<"part", q>>].new = u
      /\ v2[u].name = Name[q] /\ ProductOf(Db, v1, i, q)
  BY <1>3, DbFields DEF OwnsPart, PartLike
<1>5. PICK b \in v1 : Kind[b] = "bom" /\ PartOf[b] = q /\ ProductLike(Db, i, Ref[b])
  BY <1>4 DEF ProductOf
<1>6. PICK a \in v1 : Kind[a] = "bom" /\ PartOf[a] = p /\ ProductLike(Db, i, Ref[a])
  BY <1>1 DEF ProductOf
<1>7. Ref[a] = Q
  BY <1>6 DEF Clear, OfKind
<1>8. Ref[b] \in v1 /\ Kind[Ref[b]] = "product"
  <2>1. b \in Rows
    BY <1>5 DEF MigInv, OthersTyped
  <2>2. Ref[b] # None /\ Kind[Ref[b]] = "product"
    BY <1>5, <2>1, MigrationAssumption DEF MigrationAssumption
  <2>3. Ref[b] \in v1 \cup {None}
    BY <1>5 DEF ExactInv, Closed
  <2>4. QED
    BY <2>2, <2>3
<1> HIDE DEF Q, i
<1>9. Name[Ref[b]] = Name[Q] /\ Strip[Name[Ref[Ref[b]]]] = Strip[Name[Ref[Q]]]
  <2>1. Name[Ref[b]] = v2[i].name /\ Name[Q] = v2[i].name
    BY <1>5, <1>6, <1>7, DbFields DEF ProductLike
  <2>2. PICK c \in DOMAIN v2 : v2[c].name = Strip[Name[Ref[Ref[b]]]] /\ v2[i].uses = {c}
    BY <1>5, DbFields DEF ProductLike
  <2>3. PICK d \in DOMAIN v2 : v2[d].name = Strip[Name[Ref[Q]]] /\ v2[i].uses = {d}
    BY <1>6, <1>7, DbFields DEF ProductLike
  <2>4. c = d
    BY <2>2, <2>3
  <2>5. QED
    BY <2>1, <2>2, <2>3, <2>4
<1>10. Ref[b] = Q
  BY <1>8, <1>9 DEF Clear, OfKind, Q
<1>11. Strip[Name[q]] = Name[p]
  <2>1. Strip[Name[p]] = Name[p]
    BY DEF Clear
  <2>2. QED
    BY <1>1, <1>4, <2>1
<1>12. q = p
  BY <1>5, <1>10, <1>11 DEF Clear, OfKind, Q
<1>13. QED
  BY <1>4, <1>12 DEF New

LEMMA ClearExact ==
  ASSUME MigInv, ExactInv
  PROVE  ClearPartsAreExact
<1> SUFFICES ASSUME ~mixed, NEW p \in OfKind("part"), Clear(p)
             PROVE  /\ New("part", p) # None =>
                          v2[New("part", p)].within = New("product", BomProduct(p))
                    /\ \A v \in OfKind("variation") :
                          Ref[v] = p /\ New("production_part", v) # None =>
                          v2[New("production_part", v)].uses
                            = {New("part", p), New("product", BomProduct(p))}
                    /\ \A b \in OfKind("bom") : PartOf[b] = p /\ New("bom_item", b) # None =>
                          /\ v2[New("bom_item", b)].uses = {New("part", p)}
                          /\ v2[New("bom_item", b)].within = New("bom", b)
                          /\ v2[New("bom", b)].within = New("product", Ref[b])
  BY DEF ClearPartsAreExact
<1>1. \A type, r : New(type, r) # None =>
         Migrated(Db, type, r) /\ New(type, r) = Db.maps[<<type, r>>].new
  BY DbFields, Zenon DEF New, Migrated
<1>2. \A type, r : Migrated(Db, type, r) => New(type, r) = Db.maps[<<type, r>>].new
  BY DbFields, Zenon DEF New, Migrated
<1>3. v1 \subseteq Rows /\ \A r \in Rows : /\ PartRight(Db, v1, r) /\ VariationRight(Db, v1, r)
                                          /\ LineRight(Db, v1, r)
  BY DEF MigInv, OthersTyped, ExactInv, Exact
<1>4. ASSUME New("part", p) # None
      PROVE  v2[New("part", p)].within = New("product", BomProduct(p))
  <2>1. PartLike(Db, v1, New("part", p), p)
    BY <1>1, <1>3, <1>4 DEF PartRight, OfKind
  <2>2. ProductOf(Db, v1, v2[New("part", p)].within, p)
    BY <2>1, DbFields DEF PartLike
  <2>3. QED
    BY <2>2, ClearProduct
<1>5. ASSUME NEW v \in OfKind("variation"), Ref[v] = p, New("production_part", v) # None
      PROVE  v2[New("production_part", v)].uses
               = {New("part", p), New("product", BomProduct(p))}
  <2>1. VariationOf(Db, v1, New("production_part", v), v)
    BY <1>1, <1>3, <1>5 DEF VariationRight, OfKind
  <2>2. PICK x, y : /\ v2[New("production_part", v)].uses = {x, y}
                    /\ Found(Db, v1, x, p) /\ ProductOf(Db, v1, y, p)
    BY <1>5, <2>1, DbFields DEF VariationOf
  <2>3. x = New("part", p) /\ y = New("product", BomProduct(p))
    BY <2>2, ClearPart, ClearProduct
  <2>4. QED
    BY <2>2, <2>3
<1>6. ASSUME NEW b \in OfKind("bom"), PartOf[b] = p, New("bom_item", b) # None
      PROVE  /\ v2[New("bom_item", b)].uses = {New("part", p)}
             /\ v2[New("bom_item", b)].within = New("bom", b)
             /\ v2[New("bom", b)].within = New("product", Ref[b])
  <2>1. LineOf(Db, v1, New("bom_item", b), New("bom", b), b)
    BY <1>1, <1>2, <1>3, <1>6 DEF LineRight, OfKind
  <2>2. /\ v2[New("bom_item", b)].within = New("bom", b)
        /\ ProductLike(Db, v2[New("bom", b)].within, Ref[b])
    BY <2>1, DbFields DEF LineOf
  <2>3. PICK u : v2[New("bom_item", b)].uses = {u} /\ Found(Db, v1, u, p)
    BY <1>6, <2>1, DbFields DEF LineOf
  <2>4. u = New("part", p)
    BY <2>3, ClearPart
  <2>5. ProductOf(Db, v1, v2[New("bom", b)].within, p)
    BY <1>6, <2>2 DEF ProductOf, OfKind
  <2>6. Ref[b] = BomProduct(p)
    BY <1>6 DEF Clear
  <2>7. v2[New("bom", b)].within = New("product", BomProduct(p))
    BY <2>5, ClearProduct
  <2>8. QED
    BY <2>2, <2>3, <2>4, <2>6, <2>7
<1>7. QED
  BY <1>4, <1>5, <1>6

\* Whatever runs are killed, raise or are rolled back, and however V1 grows: maps
\* resolve, failed runs leave nothing, and the V2 part, the variations and the BOM
\* lines of a part that can be found again are those of its own product.
THEOREM MapsAlwaysSound == Spec => []MapsAreSound
<1>1. Spec => [](MigInv /\ ExactInv)
  BY MigInit, MigNext, ExactInit, ExactNext, PTL DEF Spec
<1>2. MigInv /\ ExactInv => MapsAreSound
  BY Typed, ClearExact DEF MapsAreSound, MigInv
<1>3. QED
  BY <1>1, <1>2, PTL
================================================================================
