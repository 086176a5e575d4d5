------------------------- MODULE PaintingSetupProofs -------------------------
(***************************************************************************)
(* Theorems about the painting set-up, for any number of servers, colours,  *)
(* painters, items and rows: references survive, checked processes do not   *)
(* overlap, a cache is old only after another server's change, and painting *)
(* steps collide only when an old cache counted them.                       *)
(***************************************************************************)
EXTENDS PaintingSetup, FiniteSetTheorems, SequenceTheorems, TLAPS

-----------------------------------------------------------------------------
(* Lemmas about sequences, ranks and maxima *)

\* A function on 1..n is a sequence of length n.
LEMMA SeqOf ==
  ASSUME NEW S, NEW n \in Nat, NEW f \in [1..n -> S]
  PROVE  f \in Seq(S) /\ Len(f) = n
<1>1. f \in Seq(S)
  BY SeqDef
<1>2. Len(f) \in Nat /\ 1..Len(f) = 1..n
  BY <1>1, LenProperties
<1>3. Len(f) = n
  <2>1. Len(f) >= 1 => Len(f) \in 1..n
    BY <1>2
  <2>2. n >= 1 => n \in 1..Len(f)
    BY <1>2
  <2>3. QED
    BY <1>2, <2>1, <2>2
<1>4. QED
  BY <1>1, <1>3

\* The rank of a key: how many keys do not exceed it.
Rank(S, i) == Cardinality({j \in S : j <= i})

LEMMA RankBounds ==
  ASSUME NEW S \in SUBSET Int, IsFiniteSet(S), NEW i \in S
  PROVE  Rank(S, i) \in 1..Cardinality(S)
<1> DEFINE below == {j \in S : j <= i}
<1>1. IsFiniteSet(below) /\ Cardinality(below) <= Cardinality(S)
  BY FS_Subset
<1>2. i \in below
  OBVIOUS
<1>3. Cardinality(below) # 0
  BY <1>1, <1>2, FS_EmptySet
<1>4. Cardinality(below) \in Nat /\ Cardinality(S) \in Nat
  BY <1>1, FS_CardinalityType
<1>5. QED
  BY <1>1, <1>3, <1>4 DEF Rank

LEMMA RankIsInjective ==
  ASSUME NEW S \in SUBSET Int, IsFiniteSet(S), NEW i \in S, NEW j \in S, i < j
  PROVE  Rank(S, i) # Rank(S, j)
<1> DEFINE low == {x \in S : x <= i}
           high == {x \in S : x <= j}
<1>1. IsFiniteSet(high)
  BY FS_Subset
<1>2. low \subseteq high /\ j \in high /\ j \notin low
  <2>1. \A x \in S : x \in Int
    OBVIOUS
  <2>2. \A x \in S : x <= i => x <= j
    BY <2>1
  <2>3. ~(j <= i) /\ j <= j
    BY <2>1
  <2>4. QED
    BY <2>2, <2>3
<1>3. Cardinality(high) # Cardinality(low)
  BY <1>1, <1>2, FS_Subset
<1>4. QED
  BY <1>3 DEF Rank

\* A finite set of numbers that is not empty has a largest one.
LEMMA MaxOf ==
  ASSUME NEW S \in SUBSET Nat, IsFiniteSet(S), S # {}
  PROVE  Max(S) \in S
<1> DEFINE n == Cardinality(S)
           f == [i \in S |-> Rank(S, i)]
<1>1. n \in Nat /\ n # 0 /\ S \in SUBSET Int
  BY FS_CardinalityType, FS_EmptySet
<1>2. IsFiniteSet(1..n) /\ Cardinality(1..n) = n
  BY <1>1, FS_Interval
<1>3. f \in Injection(S, 1..n)
  <2>1. f \in [S -> 1..n]
    BY <1>1, RankBounds
  <2>2. ASSUME NEW i \in S, NEW j \in S, f[i] = f[j] PROVE i = j
    <3>1. Rank(S, i) = Rank(S, j)
      BY <2>2
    <3>2. ~(i < j) /\ ~(j < i)
      BY <1>1, <3>1, RankIsInjective
    <3>3. QED
      BY <3>2
  <2>3. QED
    BY <2>1, <2>2, Z3 DEF Injection, IsInjective
<1>4. f \in Surjection(S, 1..n)
  BY <1>2, <1>3, FS_Injection
<1>5. PICK i \in S : Rank(S, i) = n
  <2>1. n \in 1..n
    BY <1>1
  <2>2. QED
    BY <1>4, <2>1 DEF Surjection
<1>6. S = {j \in S : j <= i}
  BY <1>5, FS_Subset DEF Rank
<1>7. \A j \in S : i >= j
  BY <1>6
<1>8. QED
  BY <1>7 DEF Max

-----------------------------------------------------------------------------
(* Tables *)

AnyRow == {None} \cup (UNION {RowTypes[t] : t \in Tables})

\* Every table holds rows of its type.
RowsTyped ==
  /\ db \in [Tables -> Seq(AnyRow)]
  /\ \A t \in Tables : \A k \in Rows(t) : db[t][k] \in RowTypes[t]

\* A row of table t refers to the row k of table u.
Links(t, row, u, k) ==
  \/ t = "stages" /\ u = "processes" /\ k = row.process
  \/ t = "rules" /\ u = "workers" /\ k = row.worker
  \/ t = "rules" /\ u = "stages" /\ k = row.painting_stage /\ k # None
  \/ t = "rules" /\ u = "processes" /\ k = row.process /\ k # None

LEMMA RefersLinks ==
  ASSUME NEW t \in Tables, NEW row
  PROVE  Refers(t, row) <=> \A u \in Tables : \A m : Links(t, row, u, m) => m \in Rows(u)
BY DEF Refers, Links, Tables

\* What rows refer to exists.
RefsExist ==
  \A t \in Tables : \A k \in Rows(t) : \A u \in Tables : \A m :
    Links(t, db[t][k], u, m) => m \in Rows(u)

\* No process has two stages of one place.
StagesUnique ==
  \A j, k \in Rows("stages") :
    /\ db["stages"][j].process = db["stages"][k].process
    /\ db["stages"][j].order = db["stages"][k].order
    => j = k

TablesInv == RowsTyped /\ RefsExist /\ StagesUnique

\* The key a row is saved under.
KeyOf(rows, id) == IF id = None THEN Len(rows) + 1 ELSE id

LEMMA NoneIsNothing ==
  /\ None \notin Nat /\ None \notin BOOLEAN /\ None \notin Remembered
  /\ \A t \in Tables : None \notin RowTypes[t]
BY NoneAssumption DEF NoneAssumption

LEMMA RowsAreAny == None \in AnyRow /\ \A t \in Tables : RowTypes[t] \subseteq AnyRow
<1>1. None \in AnyRow
  BY DEF AnyRow
<1>2. \A t \in Tables : RowTypes[t] \subseteq AnyRow
  BY DEF AnyRow
<1>3. QED
  BY <1>1, <1>2

LEMMA TableKeys ==
  ASSUME RowsTyped, NEW t \in Tables
  PROVE  /\ db[t] \in Seq(AnyRow) /\ Len(db[t]) \in Nat
         /\ DOMAIN db[t] = 1..Len(db[t])
         /\ Rows(t) \subseteq 1..Len(db[t])
         /\ Rows(t) \subseteq Nat
         /\ IsFiniteSet(Rows(t))
<1>1. db[t] \in Seq(AnyRow)
  BY DEF RowsTyped
<1>2. Len(db[t]) \in Nat /\ DOMAIN db[t] = 1..Len(db[t])
  BY <1>1, LenProperties
<1>3. Rows(t) \subseteq 1..Len(db[t])
  BY <1>2 DEF Rows
<1>4. Rows(t) \subseteq Nat
  BY <1>2, <1>3
<1>5. IsFiniteSet(Rows(t))
  <2>1. IsFiniteSet(1..Len(db[t]))
    BY <1>2, FS_Interval
  <2>2. QED
    BY <1>3, <2>1, FS_Subset
<1>6. QED
  BY <1>1, <1>2, <1>3, <1>4, <1>5

\* Saving a row: an UPDATE or an INSERT.
LEMMA PutProperties ==
  ASSUME NEW S, NEW rows \in Seq(S), NEW row \in S, NEW id,
         id = None \/ id \in 1..Len(rows)
  PROVE  /\ Put(rows, id, row) \in Seq(S)
         /\ Len(Put(rows, id, row)) >= Len(rows)
         /\ KeyOf(rows, id) \in 1..Len(Put(rows, id, row))
         /\ \A k \in 1..Len(Put(rows, id, row)) :
              /\ Put(rows, id, row)[k] = IF k = KeyOf(rows, id) THEN row ELSE rows[k]
              /\ k # KeyOf(rows, id) => k \in 1..Len(rows)
         /\ \A k \in 1..Len(rows) : k \in 1..Len(Put(rows, id, row))
<1>1. Len(rows) \in Nat
  BY LenProperties
<1>2. CASE id = None
  <2>1. /\ Append(rows, row) \in Seq(S)
        /\ Len(Append(rows, row)) = Len(rows) + 1
        /\ \A k \in 1..Len(rows) : Append(rows, row)[k] = rows[k]
        /\ Append(rows, row)[Len(rows) + 1] = row
    BY AppendProperties
  <2>2. Put(rows, id, row) = Append(rows, row) /\ KeyOf(rows, id) = Len(rows) + 1
    BY <1>2 DEF Put, KeyOf
  <2>3. QED
    BY <1>1, <2>1, <2>2
<1>3. CASE id # None
  <2>1. /\ [rows EXCEPT ![id] = row] \in Seq(S)
        /\ Len([rows EXCEPT ![id] = row]) = Len(rows)
        /\ \A k \in 1..Len(rows) : [rows EXCEPT ![id] = row][k] = IF k = id THEN row ELSE rows[k]
    BY <1>3, ExceptSeq
  <2>2. Put(rows, id, row) = [rows EXCEPT ![id] = row] /\ KeyOf(rows, id) = id
    BY <1>3 DEF Put, KeyOf
  <2>3. QED
    BY <1>1, <1>3, <2>1, <2>2
<1>4. QED
  BY <1>2, <1>3

\* The change of the tables when a row is saved.
Saves(t, id, row) == db' = [db EXCEPT ![t] = Put(@, id, row)]

\* The tables after a row was saved.
LEMMA SavedTables ==
  ASSUME RowsTyped, NEW t \in Tables, NEW row \in RowTypes[t], NEW id,
         id = None \/ id \in 1..Len(db[t]),
         Saves(t, id, row)
  PROVE  /\ RowsTyped'
         /\ \A u \in Tables : Len(db'[u]) >= Len(db[u])
         /\ \A u \in Tables : u # t => db'[u] = db[u] /\ Rows(u)' = Rows(u)
         /\ KeyOf(db[t], id) \in Nat /\ KeyOf(db[t], id) \in 1..Len(db'[t])
         /\ Rows(t)' = Rows(t) \cup {KeyOf(db[t], id)}
         /\ db'[t][KeyOf(db[t], id)] = row
         /\ \A k \in Rows(t) : k # KeyOf(db[t], id) => db'[t][k] = db[t][k]
<1> DEFINE n == KeyOf(db[t], id)
           new == Put(db[t], id, row)
<1>1. row \in AnyRow /\ row # None
  BY RowsAreAny, NoneIsNothing
<1>2. db[t] \in Seq(AnyRow) /\ Len(db[t]) \in Nat /\ DOMAIN db[t] = 1..Len(db[t])
  BY TableKeys
<1>3. /\ new \in Seq(AnyRow)
      /\ Len(new) >= Len(db[t])
      /\ n \in 1..Len(new)
      /\ \A k \in 1..Len(new) : /\ new[k] = IF k = n THEN row ELSE db[t][k]
                                /\ k # n => k \in 1..Len(db[t])
      /\ \A k \in 1..Len(db[t]) : k \in 1..Len(new)
  BY <1>1, <1>2, PutProperties
<1>4. Len(new) \in Nat /\ DOMAIN new = 1..Len(new)
  BY <1>3, LenProperties
<1>5. db \in [Tables -> Seq(AnyRow)]
  BY DEF RowsTyped
<1> HIDE DEF n, new
<1>6. db' = [db EXCEPT ![t] = new]
  BY DEF new, Saves
<1>7. db' \in [Tables -> Seq(AnyRow)]
  BY <1>3, <1>5, <1>6
<1>8. db'[t] = new /\ \A u \in Tables : u # t => db'[u] = db[u]
  BY <1>5, <1>6
<1>9. \A u \in Tables : u # t => Rows(u)' = Rows(u)
  BY <1>8 DEF Rows
<1>10. Rows(t)' = Rows(t) \cup {n}
  <2>1. Rows(t)' = {k \in DOMAIN new : new[k] # None}
    BY <1>8 DEF Rows
  <2>2. \A k : k \in Rows(t)' <=> k \in Rows(t) \/ k = n
    BY <1>1, <1>2, <1>3, <1>4, <2>1 DEF Rows
  <2>3. QED
    BY <2>2
<1>11. \A k \in Rows(t) : k # n => db'[t][k] = db[t][k]
  BY <1>2, <1>3, <1>8 DEF Rows
<1>12. db'[t][n] = row
  BY <1>3, <1>8
<1>13. \A u \in Tables : Len(db'[u]) >= Len(db[u])
  <2> SUFFICES ASSUME NEW u \in Tables PROVE Len(db'[u]) >= Len(db[u])
    OBVIOUS
  <2>1. Len(db[u]) \in Nat
    BY TableKeys
  <2>2. QED
    BY <1>3, <1>8, <2>1
<1>14. \A u \in Tables : \A k \in Rows(u)' : db'[u][k] \in RowTypes[u]
  BY <1>8, <1>9, <1>10, <1>11, <1>12 DEF RowsTyped
<1>15. RowsTyped'
  BY <1>7, <1>14 DEF RowsTyped
<1>16. n \in Nat
  BY <1>3, <1>4
<1>17. QED
  BY <1>3, <1>8, <1>9, <1>10, <1>11, <1>12, <1>13, <1>15, <1>16 DEF n

LEMMA SavedRefs ==
  ASSUME RowsTyped, RefsExist, NEW t \in Tables, NEW row \in RowTypes[t], NEW id,
         id = None \/ id \in 1..Len(db[t]), Refers(t, row),
         Saves(t, id, row)
  PROVE  RefsExist'
<1> DEFINE n == KeyOf(db[t], id)
<1>1. /\ \A u \in Tables : u # t => db'[u] = db[u] /\ Rows(u)' = Rows(u)
      /\ Rows(t)' = Rows(t) \cup {n}
      /\ db'[t][n] = row
      /\ \A k \in Rows(t) : k # n => db'[t][k] = db[t][k]
  BY SavedTables
<1> HIDE DEF n
<1>2. \A u \in Tables : Rows(u) \subseteq Rows(u)'
  BY <1>1
<1>3. \A u \in Tables : \A m : Links(t, row, u, m) => m \in Rows(u)
  BY RefersLinks
<1>4. QED
  BY <1>1, <1>2, <1>3 DEF RefsExist

\* A saved stage takes a place of its own.
LEMMA SavedStages ==
  ASSUME TablesInv, NEW t \in Tables, NEW row \in RowTypes[t], NEW id,
         id = None \/ id \in 1..Len(db[t]), Refers(t, row), Unique(t, id, row),
         Saves(t, id, row)
  PROVE  TablesInv'
<1>1. RowsTyped /\ RefsExist /\ StagesUnique /\ "stages" \in Tables
  BY DEF TablesInv, Tables
<1>2. RowsTyped' /\ RefsExist'
  BY <1>1, SavedTables, SavedRefs
<1>3. StagesUnique'
  <2>1. CASE t # "stages"
    <3>1. db'["stages"] = db["stages"] /\ Rows("stages")' = Rows("stages")
      BY <1>1, <2>1, SavedTables
    <3>2. QED
      BY <1>1, <3>1 DEF StagesUnique
  <2>2. CASE t = "stages"
    <3> DEFINE n == KeyOf(db[t], id)
    <3>1. /\ Rows(t)' = Rows(t) \cup {n}
          /\ db'[t][n] = row
          /\ \A k \in Rows(t) : k # n => db'[t][k] = db[t][k]
      BY <1>1, SavedTables
    <3>2. \A k \in Rows(t) : k # n => k # id
      <4>1. id = None => \A k \in Rows(t) : k # id
        BY <1>1, TableKeys, NoneIsNothing
      <4>2. QED
        BY <4>1 DEF KeyOf
    <3> HIDE DEF n
    <3>3. \A k \in Rows(t) : k # n => <<db["stages"][k].process, db["stages"][k].order>>
                                       # <<row.process, row.order>>
      BY <2>2, <3>2 DEF Unique
    <3>4. QED
      BY <1>1, <2>2, <3>1, <3>3 DEF StagesUnique
  <2>3. QED
    BY <2>1, <2>2
<1>4. QED
  BY <1>2, <1>3 DEF TablesInv

-----------------------------------------------------------------------------
(* Deletions *)

\* Some rows go and the others stay as they were.
Erased(dead) ==
  /\ db' \in [Tables -> Seq(AnyRow)]
  /\ \A u \in Tables : /\ Len(db'[u]) = Len(db[u])
                       /\ \A k \in 1..Len(db[u]) :
                            db'[u][k] = IF k \in dead[u] THEN None ELSE db[u][k]

LEMMA ErasedRows ==
  ASSUME RowsTyped, NEW dead, Erased(dead)
  PROVE  \A u \in Tables : /\ Rows(u)' = Rows(u) \ dead[u]
                           /\ \A k \in Rows(u)' : db'[u][k] = db[u][k]
                           /\ Len(db'[u]) = Len(db[u])
<1> SUFFICES ASSUME NEW u \in Tables
             PROVE  /\ Rows(u)' = Rows(u) \ dead[u]
                    /\ \A k \in Rows(u)' : db'[u][k] = db[u][k]
                    /\ Len(db'[u]) = Len(db[u])
  OBVIOUS
<1>1. DOMAIN db'[u] = 1..Len(db[u]) /\ DOMAIN db[u] = 1..Len(db[u])
  BY LenProperties, TableKeys DEF Erased
<1>2. QED
  BY <1>1 DEF Erased, Rows

LEMMA ErasedTables ==
  ASSUME TablesInv, NEW dead, Erased(dead),
         \A t, u \in Tables : \A k \in Rows(t), m \in dead[u] :
            Links(t, db[t][k], u, m) => k \in dead[t]
  PROVE  TablesInv'
<1>1. RowsTyped /\ "stages" \in Tables
  BY DEF TablesInv, Tables
<1>2. \A u \in Tables : /\ Rows(u)' = Rows(u) \ dead[u]
                        /\ \A k \in Rows(u)' : db'[u][k] = db[u][k]
  BY <1>1, ErasedRows
<1>3. RowsTyped'
  BY <1>1, <1>2 DEF RowsTyped, Erased
<1>4. RefsExist'
  BY <1>2 DEF TablesInv, RefsExist
<1>5. StagesUnique'
  BY <1>1, <1>2 DEF TablesInv, StagesUnique
<1>6. QED
  BY <1>3, <1>4, <1>5 DEF TablesInv

LEMMA ErasedRow ==
  ASSUME RowsTyped, NEW t \in Tables, NEW id \in Rows(t)
  PROVE  /\ [db[t] EXCEPT ![id] = None] \in Seq(AnyRow)
         /\ Len([db[t] EXCEPT ![id] = None]) = Len(db[t])
         /\ \A k \in 1..Len(db[t]) : [db[t] EXCEPT ![id] = None][k] = IF k \in {id} THEN None
                                                                     ELSE db[t][k]
<1>1. id \in 1..Len(db[t]) /\ db[t] \in Seq(AnyRow) /\ None \in AnyRow
  BY TableKeys, RowsAreAny
<1>2. QED
  BY <1>1, ExceptSeq

LEMMA GoneRows ==
  ASSUME RowsTyped, NEW t \in Tables, NEW ids
  PROVE  /\ Gone(t, ids) \in Seq(AnyRow)
         /\ Len(Gone(t, ids)) = Len(db[t])
         /\ \A k \in 1..Len(db[t]) : Gone(t, ids)[k] = IF k \in ids THEN None ELSE db[t][k]
<1>1. /\ Len(db[t]) \in Nat /\ DOMAIN db[t] = 1..Len(db[t])
      /\ \A k \in 1..Len(db[t]) : db[t][k] \in AnyRow
  BY TableKeys, ElementOfSeq
<1>2. Gone(t, ids) \in [1..Len(db[t]) -> AnyRow]
  BY <1>1, RowsAreAny DEF Gone
<1>3. QED
  BY <1>1, <1>2, SeqOf DEF Gone

\* What a deletion erases.
DeadWith(processes, stages, workers, rules) ==
  [processes |-> processes, stages |-> stages, workers |-> workers, rules |-> rules]

LEMMA DeadIn ==
  ASSUME NEW p, NEW s, NEW w, NEW r
  PROVE  /\ DeadWith(p, s, w, r)["processes"] = p /\ DeadWith(p, s, w, r)["stages"] = s
         /\ DeadWith(p, s, w, r)["workers"] = w /\ DeadWith(p, s, w, r)["rules"] = r
BY DEF DeadWith

LEMMA ProcessDeletes ==
  ASSUME TablesInv, NEW s, NEW p, ProcessDelete(s, p)
  PROVE  \E r : Erased(DeadWith({p}, StagesOf(p), {}, r)) /\ TablesInv'
<1> DEFINE r == RulesOf("process", {p}) \cup RulesOf("painting_stage", StagesOf(p))
           processes == [db["processes"] EXCEPT ![p] = None]
           stages == Gone("stages", StagesOf(p))
           rules == Gone("rules", r)
           dead == DeadWith({p}, StagesOf(p), {}, r)
<1>1. p \in Rows("processes") /\ RowsTyped /\ {"processes", "stages", "rules"} \subseteq Tables
  BY DEF ProcessDelete, TablesInv, Tables
<1>2. /\ processes \in Seq(AnyRow) /\ Len(processes) = Len(db["processes"])
      /\ \A k \in 1..Len(db["processes"]) : processes[k] = IF k \in {p} THEN None
                                                             ELSE db["processes"][k]
  BY <1>1, ErasedRow
<1>3. /\ stages \in Seq(AnyRow) /\ Len(stages) = Len(db["stages"])
      /\ \A k \in 1..Len(db["stages"]) : stages[k] = IF k \in StagesOf(p) THEN None
                                                       ELSE db["stages"][k]
  BY <1>1, GoneRows
<1>4. \A k \in Rows("rules") : /\ db["rules"][k].process = p => k \in r
                               /\ db["rules"][k].painting_stage \in StagesOf(p) => k \in r
  BY DEF RulesOf
<1>5. db' = [db EXCEPT !["processes"] = processes, !["stages"] = stages, !["rules"] = rules]
  BY DEF ProcessDelete
<1> HIDE DEF r
<1>6. /\ rules \in Seq(AnyRow) /\ Len(rules) = Len(db["rules"])
      /\ \A k \in 1..Len(db["rules"]) : rules[k] = IF k \in r THEN None ELSE db["rules"][k]
  BY <1>1, GoneRows
<1>7. \A k \in Rows("stages") : db["stages"][k].process = p <=> k \in StagesOf(p)
  BY DEF StagesOf
<1> HIDE DEF processes, stages, rules
<1>8. /\ dead["processes"] = {p} /\ dead["stages"] = StagesOf(p)
      /\ dead["workers"] = {} /\ dead["rules"] = r
  BY DeadIn
<1> HIDE DEF dead
<1>9. \A u \in Tables : db'[u] = IF u = "processes" THEN processes
                                 ELSE IF u = "stages" THEN stages
                                 ELSE IF u = "rules" THEN rules ELSE db[u]
  BY <1>1, <1>5 DEF RowsTyped
<1>10. db' \in [Tables -> Seq(AnyRow)]
  BY <1>1, <1>2, <1>3, <1>5, <1>6 DEF RowsTyped
<1>11. Erased(dead)
  <2> SUFFICES ASSUME NEW u \in Tables
               PROVE  /\ Len(db'[u]) = Len(db[u])
                      /\ \A k \in 1..Len(db[u]) :
                           db'[u][k] = IF k \in dead[u] THEN None ELSE db[u][k]
    BY <1>10 DEF Erased
  <2>1. CASE u = "processes"
    BY <1>2, <1>8, <1>9, <2>1
  <2>2. CASE u = "stages"
    BY <1>3, <1>8, <1>9, <2>2
  <2>3. CASE u = "rules"
    BY <1>6, <1>8, <1>9, <2>3
  <2>4. CASE u = "workers"
    BY <1>8, <1>9, <2>4
  <2>5. QED
    BY <2>1, <2>2, <2>3, <2>4 DEF Tables
<1>12. \A t, u \in Tables : \A k \in Rows(t), m \in dead[u] :
         Links(t, db[t][k], u, m) => k \in dead[t]
  BY <1>4, <1>7, <1>8 DEF Links
<1>13. TablesInv'
  BY <1>11, <1>12, ErasedTables
<1>14. QED
  BY <1>11, <1>13 DEF dead

LEMMA StageDeletes ==
  ASSUME TablesInv, NEW s, NEW k, StageDelete(s, k)
  PROVE  \E r : Erased(DeadWith({}, {k}, {}, r)) /\ TablesInv'
<1> DEFINE r == RulesOf("painting_stage", {k})
           stages == [db["stages"] EXCEPT ![k] = None]
           rules == Gone("rules", r)
           dead == DeadWith({}, {k}, {}, r)
<1>1. k \in Rows("stages") /\ RowsTyped /\ {"stages", "rules"} \subseteq Tables
  BY DEF StageDelete, TablesInv, Tables
<1>2. /\ stages \in Seq(AnyRow) /\ Len(stages) = Len(db["stages"])
      /\ \A j \in 1..Len(db["stages"]) : stages[j] = IF j \in {k} THEN None ELSE db["stages"][j]
  BY <1>1, ErasedRow
<1>3. /\ rules \in Seq(AnyRow) /\ Len(rules) = Len(db["rules"])
      /\ \A j \in 1..Len(db["rules"]) : rules[j] = IF j \in r THEN None ELSE db["rules"][j]
  BY <1>1, GoneRows
<1>4. db' = [db EXCEPT !["stages"] = stages, !["rules"] = rules]
  BY DEF StageDelete
<1>5. \A j \in Rows("rules") : db["rules"][j].painting_stage = k => j \in r
  BY DEF RulesOf
<1> HIDE DEF stages, rules, r
<1>6. /\ dead["processes"] = {} /\ dead["stages"] = {k}
      /\ dead["workers"] = {} /\ dead["rules"] = r
  BY DeadIn
<1> HIDE DEF dead
<1>7. \A u \in Tables : db'[u] = IF u = "stages" THEN stages
                                 ELSE IF u = "rules" THEN rules ELSE db[u]
  BY <1>1, <1>4 DEF RowsTyped
<1>8. db' \in [Tables -> Seq(AnyRow)]
  BY <1>1, <1>2, <1>3, <1>4 DEF RowsTyped
<1>9. Erased(dead)
  BY <1>2, <1>3, <1>6, <1>7, <1>8 DEF Erased, Tables
<1>10. \A t, u \in Tables : \A j \in Rows(t), m \in dead[u] :
         Links(t, db[t][j], u, m) => j \in dead[t]
  BY <1>5, <1>6 DEF Links
<1>11. TablesInv'
  BY <1>9, <1>10, ErasedTables
<1>12. QED
  BY <1>9, <1>11 DEF dead

LEMMA WorkerDeletes ==
  ASSUME TablesInv, NEW s, NEW w, WorkerDelete(s, w)
  PROVE  \E r : Erased(DeadWith({}, {}, {w}, r)) /\ TablesInv'
<1> DEFINE r == RulesOf("worker", {w})
           workers == [db["workers"] EXCEPT ![w] = None]
           rules == Gone("rules", r)
           dead == DeadWith({}, {}, {w}, r)
<1>1. w \in Rows("workers") /\ RowsTyped /\ {"workers", "rules"} \subseteq Tables
  BY DEF WorkerDelete, TablesInv, Tables
<1>2. /\ workers \in Seq(AnyRow) /\ Len(workers) = Len(db["workers"])
      /\ \A j \in 1..Len(db["workers"]) : workers[j] = IF j \in {w} THEN None
                                                         ELSE db["workers"][j]
  BY <1>1, ErasedRow
<1>3. /\ rules \in Seq(AnyRow) /\ Len(rules) = Len(db["rules"])
      /\ \A j \in 1..Len(db["rules"]) : rules[j] = IF j \in r THEN None ELSE db["rules"][j]
  BY <1>1, GoneRows
<1>4. db' = [db EXCEPT !["workers"] = workers, !["rules"] = rules]
  BY DEF WorkerDelete
<1>5. \A j \in Rows("rules") : db["rules"][j].worker = w => j \in r
  BY DEF RulesOf
<1> HIDE DEF workers, rules, r
<1>6. /\ dead["processes"] = {} /\ dead["stages"] = {}
      /\ dead["workers"] = {w} /\ dead["rules"] = r
  BY DeadIn
<1> HIDE DEF dead
<1>7. \A u \in Tables : db'[u] = IF u = "workers" THEN workers
                                 ELSE IF u = "rules" THEN rules ELSE db[u]
  BY <1>1, <1>4 DEF RowsTyped
<1>8. db' \in [Tables -> Seq(AnyRow)]
  BY <1>1, <1>2, <1>3, <1>4 DEF RowsTyped
<1>9. Erased(dead)
  BY <1>2, <1>3, <1>6, <1>7, <1>8 DEF Erased, Tables
<1>10. \A t, u \in Tables : \A j \in Rows(t), m \in dead[u] :
         Links(t, db[t][j], u, m) => j \in dead[t]
  BY <1>5, <1>6 DEF Links
<1>11. TablesInv'
  BY <1>9, <1>10, ErasedTables
<1>12. QED
  BY <1>9, <1>11 DEF dead

LEMMA RuleDeletes ==
  ASSUME TablesInv, NEW s, NEW r, RuleDelete(s, r)
  PROVE  Erased(DeadWith({}, {}, {}, {r})) /\ TablesInv'
<1> DEFINE rules == [db["rules"] EXCEPT ![r] = None]
           dead == DeadWith({}, {}, {}, {r})
<1>1. r \in Rows("rules") /\ RowsTyped /\ "rules" \in Tables
  BY DEF RuleDelete, TablesInv, Tables
<1>2. /\ rules \in Seq(AnyRow) /\ Len(rules) = Len(db["rules"])
      /\ \A j \in 1..Len(db["rules"]) : rules[j] = IF j \in {r} THEN None ELSE db["rules"][j]
  BY <1>1, ErasedRow
<1>3. db' = [db EXCEPT !["rules"] = rules]
  BY DEF RuleDelete
<1> HIDE DEF rules
<1>4. /\ dead["processes"] = {} /\ dead["stages"] = {}
      /\ dead["workers"] = {} /\ dead["rules"] = {r}
  BY DeadIn
<1> HIDE DEF dead
<1>5. \A u \in Tables : db'[u] = IF u = "rules" THEN rules ELSE db[u]
  BY <1>1, <1>3 DEF RowsTyped
<1>6. db' \in [Tables -> Seq(AnyRow)]
  BY <1>1, <1>2, <1>3 DEF RowsTyped
<1>7. Erased(dead)
  BY <1>2, <1>4, <1>5, <1>6 DEF Erased, Tables
<1>8. \A t, u \in Tables : \A j \in Rows(t), m \in dead[u] :
         Links(t, db[t][j], u, m) => j \in dead[t]
  BY <1>4 DEF Links
<1>9. TablesInv'
  BY <1>7, <1>8, ErasedTables
<1>10. QED
  BY <1>7, <1>9 DEF dead

-----------------------------------------------------------------------------
(* The desk *)

Form == [table : Tables, id : Nat \cup {None}, row : AnyRow, checked : BOOLEAN,
         posted : BOOLEAN \cup {None}]

\* An edit can be saved in a table that has ever had n rows; only a painter
\* is posted with his bars.
Fits(f, n) ==
  /\ f.row \in RowTypes[f.table]
  /\ f.id = None \/ f.id \in 1..n
  /\ f.posted # None => f.table = "workers"

DeskTyped ==
  /\ desk \in [Servers -> Form \cup {None}]
  /\ \A s \in Servers : desk[s] # None => Fits(desk[s], Len(db[desk[s].table]))

\* A process that is still checked overlaps with no active one.
DeskChecked ==
  \A s \in Servers : desk[s] # None /\ desk[s].table = "processes" /\ desk[s].checked
                     => NoOverlap(desk[s].id, desk[s].row)

DeskInv == DeskTyped /\ DeskChecked

SameForm(new, old) ==
  /\ new.table = old.table /\ new.id = old.id /\ new.row = old.row /\ new.posted = old.posted
  /\ new.checked => old.checked

\* Forms stay good while tables keep their length or grow.
LEMMA DeskKept ==
  ASSUME RowsTyped, RowsTyped', DeskTyped,
         \A u \in Tables : Len(db'[u]) >= Len(db[u]),
         desk' \in [Servers -> Form \cup {None}],
         \A q \in Servers : desk'[q] # None => desk[q] # None /\ SameForm(desk'[q], desk[q])
  PROVE  DeskTyped'
<1> SUFFICES ASSUME NEW r \in Servers, desk'[r] # None
             PROVE  Fits(desk'[r], Len(db'[desk'[r].table]))
  BY DEF DeskTyped
<1>1. desk[r] # None /\ SameForm(desk'[r], desk[r]) /\ desk[r] \in Form
  BY DEF DeskTyped
<1> DEFINE t == desk[r].table
<1>2. t \in Tables /\ desk'[r].table = t
  BY <1>1 DEF Form, SameForm
<1>3. Fits(desk[r], Len(db[t]))
  BY <1>1 DEF DeskTyped
<1>4. Len(db[t]) \in Nat /\ Len(db'[t]) \in Nat /\ Len(db'[t]) >= Len(db[t])
  <2>1. Len(db[t]) \in Nat
    BY <1>2, TableKeys
  <2>2. db'[t] \in Seq(AnyRow)
    BY <1>2 DEF RowsTyped
  <2>3. QED
    BY <1>2, <2>1, <2>2, LenProperties
<1> HIDE DEF t
<1>5. QED
  BY <1>1, <1>2, <1>3, <1>4 DEF Fits, SameForm

\* Checks stay good while no process is saved.
LEMMA ChecksKept ==
  ASSUME DeskChecked,
         Rows("processes")' \subseteq Rows("processes"),
         \A p \in Rows("processes")' : db'["processes"][p] = db["processes"][p],
         \A q \in Servers : desk'[q] # None => desk[q] # None /\ SameForm(desk'[q], desk[q])
  PROVE  DeskChecked'
<1> SUFFICES ASSUME NEW s \in Servers, desk'[s] # None, desk'[s].table = "processes",
                    desk'[s].checked, NEW id, NEW row, id = desk'[s].id, row = desk'[s].row
             PROVE  row.is_active =>
                      \A p \in Rows("processes")' \ {id} :
                        db'["processes"][p].is_active =>
                          db'["processes"][p].color_codes \cap row.color_codes = {}
  BY DEF DeskChecked, NoOverlap, Active
<1>1. NoOverlap(desk[s].id, desk[s].row) /\ desk[s].id = id /\ desk[s].row = row
  BY DEF DeskChecked, SameForm
<1>2. QED
  BY <1>1 DEF NoOverlap, Active

LEMMA OvertakenForms ==
  ASSUME DeskTyped, NEW table
  PROVE  /\ Overtaken(table) \in [Servers -> Form \cup {None}]
         /\ \A q \in Servers : Overtaken(table)[q] # None =>
               /\ desk[q] # None /\ SameForm(Overtaken(table)[q], desk[q])
               /\ table = "processes" /\ desk[q].table = table => ~Overtaken(table)[q].checked
<1> SUFFICES ASSUME NEW q \in Servers
             PROVE  /\ Overtaken(table)[q] \in Form \cup {None}
                    /\ Overtaken(table)[q] # None =>
                         /\ desk[q] # None /\ SameForm(Overtaken(table)[q], desk[q])
                         /\ table = "processes" /\ desk[q].table = table
                            => ~Overtaken(table)[q].checked
  BY DEF Overtaken
<1>1. desk[q] \in Form \cup {None}
  BY DEF DeskTyped
<1>2. CASE table = "processes" /\ desk[q] # None /\ desk[q].table = table
  <2>1. Overtaken(table)[q] = [desk[q] EXCEPT !.checked = FALSE]
    BY <1>2, Zenon DEF Overtaken
  <2>2. desk[q] \in Form
    BY <1>1, <1>2
  <2>3. LET f == [desk[q] EXCEPT !.checked = FALSE]
        IN f \in Form /\ SameForm(f, desk[q]) /\ ~f.checked
    BY <2>2 DEF Form, SameForm
  <2>4. QED
    BY <1>2, <2>1, <2>3
<1>3. CASE ~(table = "processes" /\ desk[q] # None /\ desk[q].table = table)
  <2>1. Overtaken(table)[q] = desk[q]
    BY <1>3, Zenon DEF Overtaken
  <2>2. SameForm(desk[q], desk[q])
    BY DEF SameForm
  <2>3. QED
    BY <1>1, <1>3, <2>1, <2>2
<1>4. QED
  BY <1>2, <1>3

LEMMA FormPosted ==
  ASSUME RowsTyped, DeskInv, NEW s \in Servers, NEW t \in Tables, NEW id, NEW row \in RowTypes[t],
         NEW checked \in BOOLEAN, NEW posted \in BOOLEAN \cup {None},
         Posted(s, t, id, row, checked, posted),
         posted # None => t = "workers",
         t = "processes" /\ checked => NoOverlap(id, row)
  PROVE  DeskInv'
<1> DEFINE f == [table |-> t, id |-> id, row |-> row, checked |-> checked, posted |-> posted]
<1>1. db' = db /\ desk' = [desk EXCEPT ![s] = f] /\ (id # None => id \in Rows(t))
  BY DEF Posted
<1>2. id = None \/ (id \in 1..Len(db[t]) /\ id \in Nat)
  <2>1. Rows(t) \subseteq 1..Len(db[t]) /\ Rows(t) \subseteq Nat
    BY TableKeys
  <2>2. QED
    BY <1>1, <2>1
<1>3. f \in Form
  BY <1>2, RowsAreAny DEF Form
<1>4. f.table = t /\ f.id = id /\ f.row = row /\ f.checked = checked /\ Fits(f, Len(db[t]))
  BY <1>2 DEF Fits
<1> HIDE DEF f
<1>5. desk' \in [Servers -> Form \cup {None}]
  BY <1>1, <1>3 DEF DeskInv, DeskTyped
<1>6. \A q \in Servers : desk'[q] = IF q = s THEN f ELSE desk[q]
  BY <1>1 DEF DeskInv, DeskTyped
<1>7. DeskTyped'
  <2>1. \A q \in Servers : desk'[q] # None => Fits(desk'[q], Len(db'[desk'[q].table]))
    BY <1>1, <1>4, <1>6 DEF DeskInv, DeskTyped
  <2>2. QED
    BY <1>5, <2>1 DEF DeskTyped
<1>8. DeskChecked'
  <2> SUFFICES ASSUME NEW q \in Servers, desk'[q] # None, desk'[q].table = "processes",
                      desk'[q].checked, NEW i, NEW r, i = desk'[q].id, r = desk'[q].row
               PROVE  r.is_active =>
                        \A p \in Rows("processes")' \ {i} :
                          db'["processes"][p].is_active =>
                            db'["processes"][p].color_codes \cap r.color_codes = {}
    BY DEF DeskChecked, NoOverlap, Active
  <2>1. NoOverlap(i, r)
    BY <1>4, <1>6 DEF DeskInv, DeskChecked
  <2>2. Rows("processes")' = Rows("processes")
    BY <1>1 DEF Rows
  <2>3. QED
    BY <1>1, <2>1, <2>2 DEF NoOverlap, Active
<1>9. QED
  BY <1>7, <1>8 DEF DeskInv

-----------------------------------------------------------------------------
(* The caches *)

PastTyped == past \in [unchecked : SUBSET Nat, behind : SUBSET Servers, recounted : SUBSET Servers,
                       miscounted : SUBSET Items]

\* The active processes of a colour.
Owners(c) == {p \in Rows("processes") : /\ db["processes"][p].is_active
                                        /\ c \in db["processes"][p].color_codes}

Painters == [user : Users, skilled : BOOLEAN]

CacheTyped == cache \in [Servers -> [processes : {None} \cup [Colours -> {None} \cup Remembered],
                                     workers : {None} \cup SUBSET Painters]]

\* What a server that is not behind remembers of processes and painters.
CacheFresh ==
  \A s \in Servers \ past.behind :
    /\ cache[s].workers # None => cache[s].workers = WorkersInDb
    /\ cache[s].processes # None =>
         \A c \in Colours : /\ Owners(c) = {} => cache[s].processes[c] = None
                            /\ Owners(c) # {} => /\ cache[s].processes[c] # None
                                                 /\ cache[s].processes[c].process = Max(Owners(c))

\* What it remembers of their stages, while none was added or deleted.
CountsFresh ==
  \A s \in Servers \ (past.behind \cup past.recounted) :
    cache[s].processes # None =>
      \A c \in Colours : cache[s].processes[c] # None =>
        cache[s].processes[c].stages = Cardinality(StagesOf(cache[s].processes[c].process))

CacheInv == CacheTyped /\ CacheFresh /\ CountsFresh

\* What a server finds that remembers nothing.
LEMMA ProcessesLoaded ==
  ASSUME RowsTyped
  PROVE  /\ ProcessesInDb \in [Colours -> {None} \cup Remembered]
         /\ \A c \in Colours :
              /\ Owners(c) = {} => ProcessesInDb[c] = None
              /\ Owners(c) # {} => /\ ProcessesInDb[c] # None
                                   /\ ProcessesInDb[c].process = Max(Owners(c))
                                   /\ ProcessesInDb[c].stages =
                                        Cardinality(StagesOf(ProcessesInDb[c].process))
<1>1. {"processes", "stages"} \subseteq Tables
  BY DEF Tables
<1>2. \A c \in Colours : Owners(c) \in SUBSET Nat /\ IsFiniteSet(Owners(c))
  <2> SUFFICES ASSUME NEW c \in Colours
               PROVE  Owners(c) \in SUBSET Nat /\ IsFiniteSet(Owners(c))
    OBVIOUS
  <2>1. Owners(c) \subseteq Rows("processes")
    BY DEF Owners
  <2>2. Rows("processes") \subseteq Nat /\ IsFiniteSet(Rows("processes"))
    BY <1>1, TableKeys
  <2>3. QED
    BY <2>1, <2>2, FS_Subset
<1>3. \A p : Cardinality(StagesOf(p)) \in Nat
  <2> SUFFICES ASSUME NEW p PROVE Cardinality(StagesOf(p)) \in Nat
    OBVIOUS
  <2>1. StagesOf(p) \subseteq Rows("stages")
    BY DEF StagesOf
  <2>2. IsFiniteSet(Rows("stages"))
    BY <1>1, TableKeys
  <2>3. QED
    BY <2>1, <2>2, FS_Subset, FS_CardinalityType
<1>4. \A c \in Colours :
        ProcessesInDb[c] = IF Owners(c) = {} THEN None
                           ELSE [process |-> Max(Owners(c)),
                                 stages |-> Cardinality(StagesOf(Max(Owners(c))))]
  <2> SUFFICES ASSUME NEW c \in Colours
               PROVE  ProcessesInDb[c] =
                        IF Owners(c) = {} THEN None
                        ELSE [process |-> Max(Owners(c)),
                              stages |-> Cardinality(StagesOf(Max(Owners(c))))]
    OBVIOUS
  <2>1. {p \in Rows("processes") : Active(p) /\ c \in db.processes[p].color_codes} = Owners(c)
    BY DEF Owners, Active
  <2>2. QED
    BY <2>1, Zenon DEF ProcessesInDb
<1>5. ProcessesInDb = [c \in Colours |-> ProcessesInDb[c]]
  BY DEF ProcessesInDb
<1>6. \A c \in Colours : Owners(c) # {} => Max(Owners(c)) \in Nat
  BY <1>2, MaxOf
<1>7. ASSUME NEW c \in Colours
      PROVE  /\ ProcessesInDb[c] \in {None} \cup Remembered
             /\ Owners(c) = {} => ProcessesInDb[c] = None
             /\ Owners(c) # {} => /\ ProcessesInDb[c] # None
                                  /\ ProcessesInDb[c].process = Max(Owners(c))
                                  /\ ProcessesInDb[c].stages =
                                       Cardinality(StagesOf(ProcessesInDb[c].process))
  <2>1. CASE Owners(c) = {}
    BY <1>4, <2>1
  <2>2. CASE Owners(c) # {}
    <3> DEFINE m == Max(Owners(c))
               n == Cardinality(StagesOf(m))
    <3>1. ProcessesInDb[c] = [process |-> m, stages |-> n]
      BY <1>4, <2>2
    <3>2. m \in Nat /\ n \in Nat
      BY <1>3, <1>6, <2>2
    <3> HIDE DEF n
    <3>3. /\ ProcessesInDb[c] \in Remembered
          /\ ProcessesInDb[c].process = m /\ ProcessesInDb[c].stages = n
      BY <3>1, <3>2 DEF Remembered
    <3>4. ProcessesInDb[c] # None
      BY <3>3, NoneIsNothing
    <3>5. QED
      BY <2>2, <3>3, <3>4 DEF n
  <2>3. QED
    BY <2>1, <2>2
<1>8. QED
  BY <1>5, <1>7

LEMMA PaintersLoaded ==
  ASSUME RowsTyped
  PROVE  WorkersInDb \in SUBSET Painters
<1>1. \A w \in Rows("workers") : db["workers"][w] \in WorkerRow
  BY DEF RowsTyped, Tables, RowTypes
<1>2. QED
  BY <1>1 DEF WorkersInDb, WorkerRow, Painters

\* A step that changes no process and no painter: the stages are as they
\* were, or every server that remembers something is known to be recounted.
LEMMA CacheKept ==
  ASSUME CacheInv, cache' = cache,
         Rows("processes")' = Rows("processes"), Rows("workers")' = Rows("workers"),
         \A p \in Rows("processes") : db'["processes"][p] = db["processes"][p],
         \A w \in Rows("workers") : db'["workers"][w] = db["workers"][w],
         past'.behind = past.behind, past.recounted \subseteq past'.recounted,
         \/ \A p : StagesOf(p)' = StagesOf(p)
         \/ \A q \in Servers : Caching(q) => q \in past'.recounted
  PROVE  CacheInv'
<1>1. CacheTyped'
  BY DEF CacheInv, CacheTyped
<1>2. \A c : Owners(c)' = Owners(c)
  BY DEF Owners
<1>3. WorkersInDb' = WorkersInDb
  BY DEF WorkersInDb
<1>4. CacheFresh'
  BY <1>2, <1>3 DEF CacheInv, CacheFresh
<1>5. CountsFresh'
  <2> SUFFICES ASSUME NEW s \in Servers, s \notin past'.behind, s \notin past'.recounted,
                      cache[s].processes # None, NEW c \in Colours, NEW then,
                      then = cache[s].processes[c], then # None
               PROVE  then.stages = Cardinality(StagesOf(then.process)')
    BY DEF CountsFresh
  <2>1. then.stages = Cardinality(StagesOf(then.process))
    BY DEF CacheInv, CountsFresh
  <2>2. Caching(s)
    BY DEF Caching, Empty
  <2>3. StagesOf(then.process)' = StagesOf(then.process)
    BY <2>2
  <2>4. QED
    BY <2>1, <2>3
<1>6. QED
  BY <1>1, <1>4, <1>5 DEF CacheInv

\* A server that clears its cache and leaves the others behind.
LEMMA CacheCleared ==
  ASSUME CacheInv, PastTyped, NEW s \in Servers, cache' = InvalidateCaches(s),
         past'.behind = (past.behind \cup {q \in Servers : Caching(q)}) \ {s}
  PROVE  CacheInv'
<1>1. \A q \in Servers : cache'[q] = IF q = s THEN Empty ELSE cache[q]
  BY DEF CacheInv, CacheTyped, InvalidateCaches
<1>2. Empty \in [processes : {None} \cup [Colours -> {None} \cup Remembered],
                 workers : {None} \cup SUBSET Painters]
  BY DEF Empty
<1>3. CacheTyped'
  BY <1>2 DEF CacheInv, CacheTyped, InvalidateCaches
<1>4. \A q \in Servers : q \notin past'.behind => cache'[q].workers = None /\ cache'[q].processes = None
  BY <1>1 DEF Caching, Empty
<1>5. CacheFresh' /\ CountsFresh'
  BY <1>4 DEF CacheFresh, CountsFresh
<1>6. QED
  BY <1>3, <1>5 DEF CacheInv

\* What a server remembers or finds.
LEMMA ProcessesKnown ==
  ASSUME RowsTyped, CacheInv, NEW s \in Servers
  PROVE  /\ ProcessCache(s) \in [Colours -> {None} \cup Remembered]
         /\ s \notin past.behind =>
              \A c \in Colours : /\ Owners(c) = {} => ProcessCache(s)[c] = None
                                 /\ Owners(c) # {} => /\ ProcessCache(s)[c] # None
                                                      /\ ProcessCache(s)[c].process = Max(Owners(c))
         /\ s \notin past.behind /\ s \notin past.recounted =>
              \A c \in Colours : ProcessCache(s)[c] # None =>
                ProcessCache(s)[c].stages = Cardinality(StagesOf(ProcessCache(s)[c].process))
<1>1. CASE cache[s].processes = None
  <2>1. ProcessCache(s) = ProcessesInDb
    BY <1>1 DEF ProcessCache
  <2>2. QED
    BY <2>1, ProcessesLoaded
<1>2. CASE cache[s].processes # None
  <2>1. ProcessCache(s) = cache[s].processes
    BY <1>2 DEF ProcessCache
  <2>2. cache[s].processes \in [Colours -> {None} \cup Remembered]
    BY <1>2 DEF CacheInv, CacheTyped
  <2>3. QED
    BY <1>2, <2>1, <2>2 DEF CacheInv, CacheFresh, CountsFresh
<1>3. QED
  BY <1>1, <1>2

-----------------------------------------------------------------------------
(* The painting tasks *)

TasksTyped ==
  /\ tasks \subseteq TaskRow /\ IsFiniteSet(tasks)
  /\ \A t \in tasks : t.painting_stage \in Rows("stages") \cup {None}

TasksInv == TasksTyped /\ PaintStepsApart

\* The image of a finite set is finite.
LEMMA ImageFinite ==
  ASSUME NEW S, IsFiniteSet(S), NEW f, NEW T, \A x \in S : f[x] \in T, T \subseteq {f[x] : x \in S}
  PROVE  IsFiniteSet(T)
<1> DEFINE g == [x \in S |-> f[x]]
<1>1. g \in Surjection(S, T)
  BY Z3 DEF Surjection
<1> HIDE DEF g
<1>2. QED
  BY <1>1, FS_Surjection

\* Where a stage stands among the stages of its process.
Place(S, k) == Cardinality({j \in S : db["stages"][j].order <= db["stages"][k].order})

LEMMA Places ==
  ASSUME TablesInv, NEW p
  PROVE  /\ \A k \in StagesOf(p) : Place(StagesOf(p), k) \in 1..Cardinality(StagesOf(p))
         /\ \A j, k \in StagesOf(p) : Place(StagesOf(p), j) = Place(StagesOf(p), k) => j = k
         /\ IsFiniteSet(StagesOf(p)) /\ Cardinality(StagesOf(p)) \in Nat
         /\ StagesOf(p) \subseteq Rows("stages") /\ StagesOf(p) \subseteq Nat
<1> DEFINE S == StagesOf(p)
           order(k) == db["stages"][k].order
<1>1. RowsTyped /\ "stages" \in Tables
  BY DEF TablesInv, Tables
<1>2. S \subseteq Rows("stages")
  BY DEF StagesOf
<1>3. Rows("stages") \subseteq Nat /\ IsFiniteSet(Rows("stages"))
  BY <1>1, TableKeys
<1>4. IsFiniteSet(S) /\ Cardinality(S) \in Nat
  BY <1>2, <1>3, FS_Subset, FS_CardinalityType
<1>5. \A k \in S : order(k) \in Nat /\ db["stages"][k].process = p
  <2>1. \A k \in Rows("stages") : db["stages"][k] \in StageRow
    BY <1>1 DEF RowsTyped, RowTypes
  <2>2. QED
    BY <1>2, <2>1 DEF StageRow, StagesOf
<1>6. \A j, k \in S : order(j) = order(k) => j = k
  BY <1>2, <1>5 DEF TablesInv, StagesUnique
<1> HIDE DEF S, order
<1>7. ASSUME NEW k \in S
      PROVE  Cardinality({j \in S : order(j) <= order(k)}) \in 1..Cardinality(S)
  <2> DEFINE low == {j \in S : order(j) <= order(k)}
  <2>1. IsFiniteSet(low) /\ Cardinality(low) <= Cardinality(S) /\ Cardinality(low) \in Nat
    <3>1. low \in SUBSET S
      OBVIOUS
    <3> HIDE DEF low
    <3>2. QED
      BY <1>4, <3>1, FS_Subset, FS_CardinalityType
  <2>2. k \in low
    BY <1>5
  <2>3. Cardinality(low) # 0
    BY <2>1, <2>2, FS_EmptySet
  <2>4. QED
    BY <1>4, <2>1, <2>3
<1>8. ASSUME NEW j \in S, NEW k \in S, order(j) < order(k)
      PROVE  Cardinality({i \in S : order(i) <= order(j)}) # Cardinality({i \in S : order(i) <= order(k)})
  <2> DEFINE low == {i \in S : order(i) <= order(j)}
             high == {i \in S : order(i) <= order(k)}
  <2>1. low \subseteq high /\ k \in high /\ k \notin low
    <3>1. \A i \in S : order(i) <= order(j) => order(i) <= order(k)
      BY <1>5, <1>8
    <3>2. order(k) <= order(k) /\ ~(order(k) <= order(j))
      BY <1>5, <1>8
    <3>3. QED
      BY <3>1, <3>2
  <2>2. IsFiniteSet(high)
    <3>1. high \in SUBSET S
      OBVIOUS
    <3> HIDE DEF high
    <3>2. QED
      BY <1>4, <3>1, FS_Subset
  <2> HIDE DEF low, high
  <2>3. Cardinality(high) # Cardinality(low)
    BY <2>1, <2>2, FS_Subset
  <2>4. QED
    BY <2>3 DEF low, high
<1>9. \A k \in S : Place(S, k) \in 1..Cardinality(S)
  BY <1>7 DEF Place, order
<1>10. \A j, k \in S : Place(S, j) = Place(S, k) => j = k
  <2> SUFFICES ASSUME NEW j \in S, NEW k \in S, Place(S, j) = Place(S, k) PROVE j = k
    OBVIOUS
  <2>1. \A i \in S : Place(S, i) = Cardinality({h \in S : order(h) <= order(i)})
    BY DEF Place, order
  <2>2. ~(order(j) < order(k)) /\ ~(order(k) < order(j))
    BY <1>8, <2>1
  <2>3. order(j) = order(k)
    BY <1>5, <2>2
  <2>4. QED
    BY <1>6, <2>3
<1>11. S \subseteq Nat
  BY <1>2, <1>3
<1>12. QED
  BY <1>2, <1>4, <1>9, <1>10, <1>11 DEF S

LEMMA StageTasks ==
  ASSUME TablesInv, NEW item \in Items, NEW part \in Nat, NEW p, NEW base \in Nat
  PROVE  LET new == CreatePaintTasks(item, part, p, base)
         IN /\ new \subseteq TaskRow /\ IsFiniteSet(new)
            /\ \A t \in new : /\ t.order_item = item /\ t.painting_stage \in Rows("stages")
                              /\ t.step_order \in Nat
                              /\ t.step_order > base
                              /\ t.step_order <= base + Cardinality(StagesOf(p))
            /\ \A t, u \in new : t.step_order = u.step_order => t = u
<1> DEFINE S == StagesOf(p)
           f == [k \in S |-> [order_item |-> item, part |-> part, painting_stage |-> k,
                              step_order |-> base + Place(S, k), done |-> FALSE]]
           new == CreatePaintTasks(item, part, p, base)
<1>1. /\ \A k \in S : Place(S, k) \in 1..Cardinality(S)
      /\ \A j, k \in S : Place(S, j) = Place(S, k) => j = k
      /\ IsFiniteSet(S) /\ Cardinality(S) \in Nat
      /\ S \subseteq Rows("stages") /\ S \subseteq Nat
  BY Places
<1>2. new = {[order_item |-> item, part |-> part, painting_stage |-> k,
              step_order |-> base + Place(S, k), done |-> FALSE] : k \in S}
  BY DEF CreatePaintTasks, Place
<1> HIDE DEF S, new
<1>3. \A k \in S : base + Place(S, k) \in Nat /\ base + Place(S, k) > base
                   /\ base + Place(S, k) <= base + Cardinality(S)
  BY <1>1
<1>4. new = {f[k] : k \in S}
  BY <1>2
<1>5. \A k \in S : /\ f[k] \in TaskRow /\ f[k].order_item = item /\ f[k].painting_stage = k
                   /\ f[k].step_order = base + Place(S, k)
  BY <1>1, <1>3 DEF TaskRow
<1> HIDE DEF f
<1>6. IsFiniteSet(new)
  BY <1>1, <1>4, ImageFinite
<1>7. \A j, k \in S : f[j].step_order = f[k].step_order => j = k
  <2> SUFFICES ASSUME NEW j \in S, NEW k \in S, f[j].step_order = f[k].step_order PROVE j = k
    OBVIOUS
  <2>1. Place(S, j) \in Int /\ Place(S, k) \in Int /\ base + Place(S, j) = base + Place(S, k)
    BY <1>1, <1>5
  <2>2. \A a, b \in Int : base + a = base + b => a = b
    OBVIOUS
  <2>3. Place(S, j) = Place(S, k)
    BY <2>1, <2>2
  <2>4. QED
    BY <1>1, <2>3
<1>8. new \subseteq TaskRow
  BY <1>4, <1>5
<1>9. \A t \in new : /\ t.order_item = item /\ t.painting_stage \in Rows("stages")
                     /\ t.step_order \in Nat
                     /\ t.step_order > base
                     /\ t.step_order <= base + Cardinality(S)
  BY <1>1, <1>3, <1>4, <1>5
<1>10. \A t, u \in new : t.step_order = u.step_order => t = u
  BY <1>4, <1>7
<1>11. QED
  BY <1>6, <1>8, <1>9, <1>10 DEF new, S

\* What is left to the parts before one is a number, and grows by what the
\* parts are given.
LEMMA StepsBefore ==
  ASSUME NEW n \in Nat, NEW found \in [1..n -> {None} \cup Remembered]
  PROVE  /\ \A a \in 1..n : Before(a, found) \in Nat
         /\ \A a, b \in 1..n : a < b /\ found[a] # None =>
              Before(a, found) + found[a].stages <= Before(b, found)
<1> DEFINE Part(q) == StepsOf(q, found[q])
           Upto(a) == UNION {Part(q) : q \in 1..(a - 1)}
<1>1. \A q \in 1..n : IsFiniteSet(Part(q))
  <2> SUFFICES ASSUME NEW q \in 1..n PROVE IsFiniteSet(Part(q))
    OBVIOUS
  <2>1. CASE found[q] = None
    BY <2>1, FS_EmptySet DEF StepsOf
  <2>2. CASE found[q] # None
    <3>1. found[q] \in Remembered
      BY <2>2
    <3>2. found[q].stages \in Nat
      BY <3>1 DEF Remembered
    <3> DEFINE k == found[q].stages
    <3> HIDE DEF k
    <3>3. k \in Nat
      BY <3>2 DEF k
    <3>4. IsFiniteSet({q}) /\ IsFiniteSet(1..k)
      <4>1. IsFiniteSet({q})
        BY FS_Singleton
      <4>2. IsFiniteSet(1..k)
        BY <3>3, FS_Interval
      <4>3. QED
        BY <4>1, <4>2
    <3>5. IsFiniteSet({q} \X (1..k))
      BY <3>4, FS_Product
    <3>6. QED
      BY <2>2, <3>5 DEF StepsOf, k
  <2>3. QED
    BY <2>1, <2>2
<1> HIDE DEF Part
<1>2. \A a \in 1..n : IsFiniteSet(Upto(a))
  <2> SUFFICES ASSUME NEW a \in 1..n PROVE IsFiniteSet(Upto(a))
    OBVIOUS
  <2> DEFINE f == [q \in 1..(a - 1) |-> Part(q)]
             T == {Part(q) : q \in 1..(a - 1)}
  <2>1. IsFiniteSet(1..(a - 1))
    BY FS_Interval
  <2>2. \A q \in 1..(a - 1) : f[q] \in T
    OBVIOUS
  <2>3. T \subseteq {f[q] : q \in 1..(a - 1)}
    OBVIOUS
  <2>4. \A P \in T : IsFiniteSet(P)
    <3>1. \A q \in 1..(a - 1) : q \in 1..n
      OBVIOUS
    <3>2. QED
      BY <1>1, <3>1
  <2> HIDE DEF f, T
  <2>5. IsFiniteSet(T)
    BY <2>1, <2>2, <2>3, ImageFinite
  <2>6. IsFiniteSet(UNION T)
    BY <2>4, <2>5, FS_UNION
  <2>7. QED
    BY <2>6 DEF T
<1>3. \A a : Before(a, found) = Cardinality(Upto(a))
  BY DEF Before, Part
<1>4. ASSUME NEW a \in 1..n, NEW b \in 1..n, a < b, found[a] # None
      PROVE  Cardinality(Upto(a)) + found[a].stages <= Cardinality(Upto(b))
  <2> DEFINE k == found[a].stages
  <2>1. k \in Nat
    BY <1>4 DEF Remembered
  <2> HIDE DEF k
  <2> DEFINE own == {a} \X (1..k)
             A == Upto(a)
             B == Upto(b)
  <2>2. IsFiniteSet({a}) /\ Cardinality({a}) = 1 /\ IsFiniteSet(1..k) /\ Cardinality(1..k) = k
    <3>1. IsFiniteSet({a}) /\ Cardinality({a}) = 1
      BY FS_Singleton
    <3>2. IsFiniteSet(1..k) /\ Cardinality(1..k) = k
      BY <2>1, FS_Interval
    <3>3. QED
      BY <3>1, <3>2
  <2>3. IsFiniteSet(own) /\ Cardinality(own) = k
    <3>1. IsFiniteSet(own) /\ Cardinality(own) = Cardinality({a}) * Cardinality(1..k)
      BY <2>2, FS_Product
    <3> HIDE DEF own
    <3>2. 1 * k = k
      BY <2>1
    <3>3. QED
      BY <2>2, <3>1, <3>2
  <2>4. Part(a) = own
    BY <1>4 DEF Part, StepsOf, k
  <2>5. own \subseteq B
    BY <1>4, <2>4
  <2>6. A \subseteq B
    <3>1. \A q \in 1..(a - 1) : q \in 1..(b - 1)
      BY <1>4
    <3>2. QED
      BY <3>1
  <2>7. A \cap own = {}
    <3> SUFFICES ASSUME NEW x \in A, x \in own PROVE FALSE
      OBVIOUS
    <3>1. PICK q \in 1..(a - 1) : x \in Part(q)
      OBVIOUS
    <3>2. x[1] = q
      BY <3>1 DEF Part, StepsOf
    <3>3. x[1] = a
      OBVIOUS
    <3>4. QED
      BY <3>2, <3>3
  <2>8. IsFiniteSet(A) /\ IsFiniteSet(B)
    BY <1>2
  <2> HIDE DEF A, B, own
  <2>9. IsFiniteSet(A \cup own) /\ Cardinality(A \cup own) = Cardinality(A) + k
    <3>1. /\ IsFiniteSet(A \cup own)
          /\ Cardinality(A \cup own) = Cardinality(A) + Cardinality(own) - Cardinality(A \cap own)
      BY <2>3, <2>8, FS_Union
    <3>2. Cardinality(A \cap own) = 0 /\ Cardinality(A) \in Nat
      BY <2>7, <2>8, FS_EmptySet, FS_CardinalityType
    <3>3. QED
      BY <2>1, <2>3, <3>1, <3>2
  <2>10. Cardinality(A \cup own) <= Cardinality(B)
    BY <2>5, <2>6, <2>8, FS_Subset
  <2>11. QED
    BY <2>9, <2>10 DEF A, B, k
<1>5. \A a \in 1..n : Cardinality(Upto(a)) \in Nat
  BY <1>2, FS_CardinalityType
<1> HIDE DEF Upto
<1>6. QED
  BY <1>3, <1>4, <1>5

LEMMA ItemTasks ==
  ASSUME TablesInv, CacheInv, NEW s \in Servers, NEW item \in Items, NEW base \in Nat
  PROVE  LET new == NewTasks(s, item, base)
         IN /\ new \subseteq TaskRow /\ IsFiniteSet(new)
            /\ \A t \in new : t.order_item = item /\ t.painting_stage \in Rows("stages")
            /\ s \notin past.behind /\ s \notin past.recounted =>
                 \A t, u \in new : t.step_order = u.step_order => t = u
<1> DEFINE n == Len(ColourOf[item])
           found == Found(s, item)
           first(part) == base + Before(part, found)
           P(part) == TasksFound(item, part, found[part], first(part))
           new == NewTasks(s, item, base)
<1>1. /\ ColourOf[item] \in Seq(Colours) /\ n \in Nat /\ DOMAIN ColourOf[item] = 1..n
      /\ \A part \in 1..n : ColourOf[item][part] \in Colours
  <2>1. ColourOf[item] \in Seq(Colours)
    BY ColourAssumption DEF ColourAssumption
  <2>2. QED
    BY <2>1, LenProperties, ElementOfSeq
<1>2. RowsTyped
  BY DEF TablesInv
<1>3. /\ ProcessCache(s) \in [Colours -> {None} \cup Remembered]
      /\ s \notin past.behind /\ s \notin past.recounted =>
           \A c \in Colours : ProcessCache(s)[c] # None =>
             ProcessCache(s)[c].stages = Cardinality(StagesOf(ProcessCache(s)[c].process))
  BY <1>2, ProcessesKnown
<1>4. /\ found \in [1..n -> {None} \cup Remembered]
      /\ \A part \in 1..n : found[part] = ProcessCache(s)[ColourOf[item][part]]
  BY <1>1, <1>3 DEF Found
<1>5. new = UNION {P(part) : part \in 1..n}
  BY <1>1 DEF NewTasks
<1> HIDE DEF n, found, new
<1>6. /\ \A part \in 1..n : first(part) \in Nat
      /\ \A a, b \in 1..n : a < b /\ found[a] # None =>
           first(a) + found[a].stages <= first(b)
  <2>1. /\ \A a \in 1..n : Before(a, found) \in Nat
        /\ \A a, b \in 1..n : a < b /\ found[a] # None =>
             Before(a, found) + found[a].stages <= Before(b, found)
    BY <1>1, <1>4, StepsBefore
  <2>2. \A a \in 1..n : found[a] # None => found[a].stages \in Nat
    BY <1>4 DEF Remembered
  <2>3. \A part \in 1..n : first(part) \in Nat
    BY <2>1
  <2>4. ASSUME NEW a \in 1..n, NEW b \in 1..n, a < b, found[a] # None
        PROVE  first(a) + found[a].stages <= first(b)
    <3>1. \A x, y, z \in Nat : x + y <= z => base + x + y <= base + z
      OBVIOUS
    <3>2. QED
      BY <2>1, <2>2, <2>4, <3>1
  <2>5. QED
    BY <2>3, <2>4
<1> HIDE DEF first
<1>7. ASSUME NEW part \in 1..n
      PROVE  /\ P(part) \subseteq TaskRow /\ IsFiniteSet(P(part))
             /\ \A t \in P(part) : /\ found[part] # None
                                   /\ t.order_item = item /\ t.painting_stage \in Rows("stages")
                                   /\ t.step_order \in Nat
                                   /\ t.step_order > first(part)
                                   /\ t.step_order <= first(part)
                                                      + Cardinality(StagesOf(found[part].process))
             /\ \A t, u \in P(part) : t.step_order = u.step_order => t = u
  <2>1. CASE found[part] = None
    <3>1. P(part) = {}
      BY <2>1 DEF TasksFound
    <3>2. QED
      BY <3>1, FS_EmptySet
  <2>2. CASE found[part] # None
    <3>1. P(part) = CreatePaintTasks(item, part, found[part].process, first(part))
      BY <2>2 DEF TasksFound
    <3>2. part \in Nat /\ first(part) \in Nat
      BY <1>6
    <3> HIDE DEF P
    <3>3. QED
      BY <2>2, <3>1, <3>2, StageTasks
  <2>3. QED
    BY <2>1, <2>2
<1> HIDE DEF P
<1>8. IsFiniteSet(new)
  <2> DEFINE f == [part \in 1..n |-> P(part)]
             T == {P(part) : part \in 1..n}
  <2>1. IsFiniteSet(1..n)
    BY <1>1, FS_Interval
  <2>2. \A part \in 1..n : f[part] \in T
    OBVIOUS
  <2>3. T \subseteq {f[part] : part \in 1..n}
    OBVIOUS
  <2>4. \A Q \in T : IsFiniteSet(Q)
    BY <1>7
  <2> HIDE DEF f, T
  <2>5. IsFiniteSet(T)
    BY <2>1, <2>2, <2>3, ImageFinite
  <2>6. IsFiniteSet(UNION T)
    BY <2>4, <2>5, FS_UNION
  <2>7. QED
    BY <1>5, <2>6 DEF T
<1>9. /\ new \subseteq TaskRow
      /\ \A t \in new : t.order_item = item /\ t.painting_stage \in Rows("stages")
  BY <1>5, <1>7
<1>10. ASSUME s \notin past.behind, s \notin past.recounted, NEW t \in new, NEW u \in new,
              t.step_order = u.step_order
       PROVE  t = u
  <2>1. PICK a \in 1..n : t \in P(a)
    BY <1>5
  <2>2. PICK b \in 1..n : u \in P(b)
    BY <1>5
  <2>3. \A part \in 1..n : found[part] # None =>
          found[part].stages = Cardinality(StagesOf(found[part].process)) /\ found[part].stages \in Nat
    BY <1>1, <1>3, <1>4, <1>10 DEF Remembered
  <2>4. ASSUME NEW c \in 1..n, NEW d \in 1..n, c < d, NEW x \in P(c), NEW y \in P(d)
        PROVE  x.step_order # y.step_order
    <3>1. /\ found[c] # None /\ x.step_order \in Nat /\ y.step_order \in Nat
          /\ x.step_order <= first(c) + Cardinality(StagesOf(found[c].process))
          /\ y.step_order > first(d)
      BY <1>7
    <3>2. first(c) + found[c].stages <= first(d) /\ first(c) \in Nat /\ first(d) \in Nat
      BY <1>6, <2>4, <3>1
    <3>3. found[c].stages = Cardinality(StagesOf(found[c].process)) /\ found[c].stages \in Nat
      BY <2>3, <3>1
    <3>4. x.step_order <= first(c) + found[c].stages
      BY <3>1, <3>3
    <3>5. \A p, q, r, z \in Nat : p <= q + z /\ q + z <= r => p <= r
      OBVIOUS
    <3>6. x.step_order <= first(d)
      BY <3>1, <3>2, <3>3, <3>4, <3>5
    <3>7. QED
      BY <3>1, <3>2, <3>6
  <2>5. ~(a < b) /\ ~(b < a)
    BY <1>10, <2>1, <2>2, <2>4
  <2>6. a = b
    BY <2>5
  <2>7. QED
    BY <1>7, <1>10, <2>1, <2>2, <2>6
<1>11. QED
  BY <1>8, <1>9, <1>10 DEF new

\* The tasks when stages come or stay.
LEMMA TasksSame ==
  ASSUME TasksInv, tasks' = tasks, Rows("stages") \subseteq Rows("stages")',
         past'.miscounted = past.miscounted
  PROVE  TasksInv'
BY DEF TasksInv, TasksTyped, PaintStepsApart

\* The tasks when stages go.
LEMMA TasksUnstaged ==
  ASSUME TasksInv, NEW gone, tasks' = Unstaged(gone), Rows("stages")' = Rows("stages") \ gone,
         past'.miscounted = past.miscounted
  PROVE  TasksInv'
<1> DEFINE out(t) == [t EXCEPT !.painting_stage = IF @ \in gone THEN None ELSE @]
           f == [t \in tasks |-> out(t)]
<1>1. tasks \subseteq TaskRow /\ IsFiniteSet(tasks)
  BY DEF TasksInv, TasksTyped
<1>2. \A t \in TaskRow : /\ out(t) \in TaskRow /\ out(t).order_item = t.order_item
                         /\ out(t).step_order = t.step_order
                         /\ out(t).painting_stage = IF t.painting_stage \in gone THEN None
                                                    ELSE t.painting_stage
  <2> SUFFICES ASSUME NEW t \in TaskRow
               PROVE  /\ out(t) \in TaskRow /\ out(t).order_item = t.order_item
                      /\ out(t).step_order = t.step_order
                      /\ out(t).painting_stage = IF t.painting_stage \in gone THEN None
                                                 ELSE t.painting_stage
    OBVIOUS
  <2>1. CASE t.painting_stage \in gone
    <3>1. out(t) = [t EXCEPT !.painting_stage = None]
      BY <2>1
    <3>2. QED
      BY <2>1, <3>1 DEF TaskRow
  <2>2. CASE t.painting_stage \notin gone
    <3>1. out(t) = [t EXCEPT !.painting_stage = t.painting_stage]
      BY <2>2
    <3>2. QED
      BY <2>2, <3>1 DEF TaskRow
  <2>3. QED
    BY <2>1, <2>2
<1>3. tasks' = {out(t) : t \in tasks}
  BY DEF Unstaged
<1>4. tasks' \subseteq TaskRow
  BY <1>1, <1>2, <1>3
<1>5. IsFiniteSet(tasks')
  <2>1. \A t \in tasks : f[t] \in tasks'
    BY <1>3
  <2>2. tasks' \subseteq {f[t] : t \in tasks}
    BY <1>3
  <2> HIDE DEF f
  <2>3. QED
    BY <1>1, <2>1, <2>2, ImageFinite
<1>6. \A t \in tasks' : t.painting_stage \in Rows("stages")' \cup {None}
  <2>1. \A t \in tasks : t.painting_stage \in Rows("stages") \cup {None}
    BY DEF TasksInv, TasksTyped
  <2> HIDE DEF out
  <2>2. QED
    BY <1>1, <1>2, <1>3, <2>1
<1> HIDE DEF out
<1>7. PaintStepsApart'
  <2> SUFFICES ASSUME NEW t \in tasks, NEW u \in tasks,
                      out(t).order_item = out(u).order_item,
                      out(t).order_item \notin past'.miscounted,
                      out(t).step_order = out(u).step_order
               PROVE  t = u
    BY <1>3 DEF PaintStepsApart
  <2>1. t.order_item = u.order_item /\ t.order_item \notin past.miscounted
        /\ t.step_order = u.step_order
    BY <1>1, <1>2
  <2>2. QED
    BY <2>1 DEF TasksInv, PaintStepsApart
<1>8. QED
  BY <1>4, <1>5, <1>6, <1>7 DEF TasksInv, TasksTyped

LEMMA TaskCompleted ==
  ASSUME TasksInv, NEW t \in tasks, Complete(t)
  PROVE  TasksInv'
<1> DEFINE new == [t EXCEPT !.done = TRUE]
<1>1. tasks' = (tasks \ {t}) \cup {new} /\ db' = db /\ past' = past
  BY DEF Complete
<1>2. tasks \subseteq TaskRow /\ IsFiniteSet(tasks)
  BY DEF TasksInv, TasksTyped
<1>3. /\ new \in TaskRow /\ new.order_item = t.order_item /\ new.step_order = t.step_order
      /\ new.painting_stage = t.painting_stage
  BY <1>2 DEF TaskRow
<1> HIDE DEF new
<1>4. IsFiniteSet(tasks')
  <2>1. IsFiniteSet(tasks \ {t})
    BY <1>2, FS_Difference
  <2>2. QED
    BY <1>1, <2>1, FS_AddElement
<1>5. TasksTyped'
  BY <1>1, <1>2, <1>3, <1>4 DEF TasksInv, TasksTyped, Rows
<1>6. PaintStepsApart'
  BY <1>1, <1>3 DEF TasksInv, PaintStepsApart
<1>7. QED
  BY <1>5, <1>6 DEF TasksInv

LEMMA BaseIsNumber ==
  ASSUME NEW rest, rest \subseteq TaskRow, IsFiniteSet(rest)
  PROVE  Base(rest) \in Nat
<1> DEFINE steps == {t.step_order : t \in rest}
           f == [t \in rest |-> t.step_order]
<1>1. \A t \in rest : f[t] \in steps
  OBVIOUS
<1>2. steps \subseteq {f[t] : t \in rest}
  OBVIOUS
<1>3. steps \subseteq Nat
  BY DEF TaskRow
<1>4. Base(rest) = Max({0} \cup steps)
  BY DEF Base
<1> HIDE DEF f, steps
<1>5. IsFiniteSet(steps)
  BY <1>1, <1>2, ImageFinite
<1>6. IsFiniteSet({0} \cup steps)
  <2>1. IsFiniteSet({0})
    BY FS_Singleton
  <2>2. QED
    BY <1>5, <2>1, FS_Union
<1>7. {0} \cup steps \in SUBSET Nat /\ {0} \cup steps # {}
  BY <1>3
<1>8. QED
  BY <1>4, <1>6, <1>7, MaxOf

LEMMA TasksAssigned ==
  ASSUME TablesInv, CacheInv, PastTyped, TasksInv, NEW s \in Servers, NEW item \in Items,
         AssignPaintingProcess(s, item)
  PROVE  TasksInv' /\ PastTyped' /\ CacheInv'
<1> DEFINE rest == tasks \ TasksOf(item)
           new == NewTasks(s, item, Base(rest))
<1>1. /\ tasks' = rest \cup new /\ db' = db
      /\ cache' = [cache EXCEPT ![s].processes = ProcessCache(s)]
      /\ past' = [past EXCEPT !.miscounted = IF s \in past.recounted \cup past.behind
                                             THEN @ \cup {item} ELSE @ \ {item}]
  BY DEF AssignPaintingProcess
<1>2. /\ rest \subseteq TaskRow /\ IsFiniteSet(rest) /\ rest \subseteq tasks
      /\ \A t \in rest : t.order_item # item
  <2>1. tasks \subseteq TaskRow /\ IsFiniteSet(tasks)
    BY DEF TasksInv, TasksTyped
  <2>2. IsFiniteSet(rest)
    BY <2>1, FS_Difference
  <2>3. QED
    BY <2>1, <2>2 DEF TasksOf
<1>3. Base(rest) \in Nat
  BY <1>2, BaseIsNumber
<1>4. /\ new \subseteq TaskRow /\ IsFiniteSet(new)
      /\ \A t \in new : t.order_item = item /\ t.painting_stage \in Rows("stages")
      /\ s \notin past.behind /\ s \notin past.recounted =>
           \A t, u \in new : t.step_order = u.step_order => t = u
  BY <1>3, ItemTasks
<1> HIDE DEF rest, new
<1>5. IsFiniteSet(tasks')
  BY <1>1, <1>2, <1>4, FS_Union
<1>6. TasksTyped'
  BY <1>1, <1>2, <1>4, <1>5 DEF TasksInv, TasksTyped, Rows
<1>7. PastTyped'
  BY <1>1 DEF PastTyped
<1>8. /\ past'.behind = past.behind /\ past'.recounted = past.recounted
      /\ \A i \in Items : i # item => (i \in past'.miscounted <=> i \in past.miscounted)
      /\ item \notin past'.miscounted => s \notin past.behind /\ s \notin past.recounted
  BY <1>1 DEF PastTyped
<1>9. PaintStepsApart'
  <2> SUFFICES ASSUME NEW t \in tasks', NEW u \in tasks', t.order_item = u.order_item,
                      t.order_item \notin past'.miscounted, t.step_order = u.step_order
               PROVE  t = u
    BY DEF PaintStepsApart
  <2>1. CASE t.order_item = item
    <3>1. t \in new /\ u \in new
      BY <1>1, <1>2, <2>1
    <3>2. QED
      BY <1>4, <1>8, <2>1, <3>1
  <2>2. CASE t.order_item # item
    <3>1. t \in rest /\ u \in rest
      BY <1>1, <1>4, <2>2
    <3>2. t \in tasks /\ u \in tasks /\ t.order_item \in Items
      BY <1>2, <3>1 DEF TaskRow
    <3>3. t.order_item \notin past.miscounted
      BY <1>8, <2>2, <3>2
    <3>4. QED
      BY <3>2, <3>3 DEF TasksInv, PaintStepsApart
  <2>3. QED
    BY <2>1, <2>2
<1>10. CacheInv'
  <2> DEFINE known == ProcessCache(s)
  <2>1. RowsTyped
    BY DEF TablesInv
  <2>2. /\ known \in [Colours -> {None} \cup Remembered]
        /\ s \notin past.behind =>
              \A c \in Colours : /\ Owners(c) = {} => known[c] = None
                                 /\ Owners(c) # {} => /\ known[c] # None
                                                      /\ known[c].process = Max(Owners(c))
        /\ s \notin past.behind /\ s \notin past.recounted =>
              \A c \in Colours : known[c] # None =>
                known[c].stages = Cardinality(StagesOf(known[c].process))
    BY <2>1, ProcessesKnown
  <2> HIDE DEF known
  <2>3. /\ \A q \in Servers : q # s => cache'[q] = cache[q]
        /\ cache'[s].processes = known /\ cache'[s].workers = cache[s].workers
    BY <1>1 DEF known, CacheInv, CacheTyped
  <2>4. CacheTyped'
    BY <1>1, <2>2 DEF known, CacheInv, CacheTyped
  <2>5. /\ \A c : Owners(c)' = Owners(c) /\ StagesOf(c)' = StagesOf(c)
        /\ WorkersInDb' = WorkersInDb
    BY <1>1 DEF Owners, StagesOf, WorkersInDb, Rows
  <2>6. CacheFresh'
    <3> SUFFICES ASSUME NEW q \in Servers, q \notin past.behind
                 PROVE  /\ cache'[q].workers # None => cache'[q].workers = WorkersInDb
                        /\ cache'[q].processes # None =>
                             \A c \in Colours :
                               /\ Owners(c) = {} => cache'[q].processes[c] = None
                               /\ Owners(c) # {} => /\ cache'[q].processes[c] # None
                                                    /\ cache'[q].processes[c].process = Max(Owners(c))
      BY <1>8, <2>5 DEF CacheFresh
    <3>1. CASE q = s
      BY <2>2, <2>3, <3>1 DEF CacheInv, CacheFresh
    <3>2. CASE q # s
      BY <2>3, <3>2 DEF CacheInv, CacheFresh
    <3>3. QED
      BY <3>1, <3>2
  <2>7. CountsFresh'
    <3> SUFFICES ASSUME NEW q \in Servers, q \notin past.behind, q \notin past.recounted,
                        cache'[q].processes # None, NEW c \in Colours, NEW then,
                        then = cache'[q].processes[c], then # None
                 PROVE  then.stages = Cardinality(StagesOf(then.process))
      BY <1>8, <2>5 DEF CountsFresh
    <3>1. CASE q = s
      BY <2>2, <2>3, <3>1
    <3>2. CASE q # s
      BY <2>3, <3>2 DEF CacheInv, CountsFresh
    <3>3. QED
      BY <3>1, <3>2
  <2>8. QED
    BY <2>4, <2>6, <2>7 DEF CacheInv
<1>11. QED
  BY <1>6, <1>7, <1>9, <1>10 DEF TasksInv

-----------------------------------------------------------------------------
(* The invariant *)

BarsInv == bars \subseteq Rows("workers") \X Kinds

SetupInv ==
  TablesInv /\ DeskInv /\ BarsInv /\ CacheInv /\ TasksInv /\ OneProcessPerColour /\ PastTyped

LEMMA OnlyTheDesk ==
  ASSUME SetupInv, UNCHANGED <<db, bars, tasks, cache, past>>, DeskInv'
  PROVE  SetupInv'
<1>1. db' = db /\ bars' = bars /\ tasks' = tasks /\ cache' = cache /\ past' = past
  OBVIOUS
<1>2. \A t : Rows(t)' = Rows(t)
  BY <1>1 DEF Rows
<1>3. TablesInv'
  BY <1>1, <1>2 DEF SetupInv, TablesInv, RowsTyped, RefsExist, StagesUnique
<1>4. BarsInv' /\ PastTyped'
  BY <1>1, <1>2 DEF SetupInv, BarsInv, PastTyped
<1>5. TasksInv'
  BY <1>1, <1>2, TasksSame DEF SetupInv
<1>6. \A p : StagesOf(p)' = StagesOf(p)
  BY <1>1, <1>2 DEF StagesOf
<1>7. CacheInv'
  BY <1>1, <1>2, <1>6, CacheKept DEF SetupInv
<1>8. OneProcessPerColour'
  BY <1>1, <1>2 DEF SetupInv, OneProcessPerColour, Active
<1>9. QED
  BY <1>3, <1>4, <1>5, <1>7, <1>8 DEF SetupInv

\* A process that goes or stays as it was.
LEMMA ProcessesKept ==
  ASSUME OneProcessPerColour, Rows("processes")' \subseteq Rows("processes"),
         \A p \in Rows("processes")' : db'["processes"][p] = db["processes"][p],
         past'.unchecked = past.unchecked
  PROVE  OneProcessPerColour'
<1> SUFFICES ASSUME NEW p \in Rows("processes")', NEW q \in Rows("processes")', p # q,
                    db'["processes"][p].is_active, db'["processes"][q].is_active,
                    db'["processes"][p].color_codes \cap db'["processes"][q].color_codes # {}
             PROVE  {p, q} \cap past'.unchecked # {}
  BY DEF OneProcessPerColour, Active
<1>1. QED
  BY DEF OneProcessPerColour, Active

\* What Save remembers.
PastAfter(s, f) ==
  LET p == IF f.table = "stages" /\ f.id # None THEN
             (IF f.id \in Rows("stages") /\ db.stages[f.id].process = f.row.process
              THEN past ELSE Noticed(s, f.table))
           ELSE Noticed(s, f.table)
      id == KeyOf(db[f.table], f.id)
  IN IF f.table # "processes" THEN p
     ELSE [p EXCEPT !.unchecked = IF f.checked THEN @ \ {id} ELSE @ \cup {id}]

\* A process that is saved overlaps with no other, or is known as unchecked.
LEMMA ProcessSaved ==
  ASSUME TablesInv, PastTyped, OneProcessPerColour, NEW id, NEW row \in ProcessRow,
         id = None \/ id \in 1..Len(db["processes"]), Saves("processes", id, row),
         NEW checked \in BOOLEAN, checked => NoOverlap(id, row),
         past'.unchecked = IF checked THEN past.unchecked \ {KeyOf(db["processes"], id)}
                           ELSE past.unchecked \cup {KeyOf(db["processes"], id)}
  PROVE  OneProcessPerColour'
<1> DEFINE n == KeyOf(db["processes"], id)
<1>1. RowsTyped /\ "processes" \in Tables /\ row \in RowTypes["processes"]
  BY DEF TablesInv, Tables, RowTypes
<1>2. /\ Rows("processes")' = Rows("processes") \cup {n}
      /\ db'["processes"][n] = row
      /\ \A k \in Rows("processes") : k # n => db'["processes"][k] = db["processes"][k]
  BY <1>1, SavedTables
<1>3. \A k \in Rows("processes") : k # n => k # id
  <2>1. id = None => \A k \in Rows("processes") : k # id
    BY <1>1, TableKeys, NoneIsNothing
  <2>2. QED
    BY <2>1 DEF KeyOf
<1>4. past'.unchecked = IF checked THEN past.unchecked \ {n} ELSE past.unchecked \cup {n}
  OBVIOUS
<1> HIDE DEF n
<1>5. ASSUME checked, NEW q \in Rows("processes"), q # n, row.is_active,
             db["processes"][q].is_active
      PROVE  db["processes"][q].color_codes \cap row.color_codes = {}
  BY <1>3, <1>5 DEF NoOverlap, Active
<1> SUFFICES ASSUME NEW p \in Rows("processes")', NEW q \in Rows("processes")', p # q,
                    db'["processes"][p].is_active, db'["processes"][q].is_active,
                    db'["processes"][p].color_codes \cap db'["processes"][q].color_codes # {}
             PROVE  {p, q} \cap past'.unchecked # {}
  BY DEF OneProcessPerColour, Active
<1>6. CASE p # n /\ q # n
  <2>1. /\ p \in Rows("processes") /\ q \in Rows("processes")
        /\ db'["processes"][p] = db["processes"][p] /\ db'["processes"][q] = db["processes"][q]
    BY <1>2, <1>6
  <2>2. {p, q} \cap past.unchecked # {}
    BY <2>1 DEF OneProcessPerColour, Active
  <2>3. QED
    BY <1>4, <1>6, <2>2
<1>7. CASE (p = n \/ q = n) /\ ~checked
  BY <1>4, <1>7
<1>8. CASE p = n /\ checked
  <2>1. q \in Rows("processes") /\ q # n /\ db'["processes"][q] = db["processes"][q]
    BY <1>2, <1>8
  <2>2. QED
    BY <1>2, <1>5, <1>8, <2>1
<1>9. CASE q = n /\ checked
  <2>1. p \in Rows("processes") /\ p # n /\ db'["processes"][p] = db["processes"][p]
    BY <1>2, <1>9
  <2>2. QED
    BY <1>2, <1>5, <1>9, <2>1
<1>10. QED
  BY <1>6, <1>7, <1>8, <1>9

LEMMA BarsSet ==
  ASSUME BarsInv, NEW w, NEW kind \in Kinds, NEW some, NEW rows,
         Rows("workers") \subseteq rows, w \in rows
  PROVE  SetBars(w, kind, some) \subseteq rows \X Kinds
BY DEF BarsInv, SetBars

\* What Save does to the desk.
LEMMA DeskSaved ==
  ASSUME TablesInv, TablesInv', DeskInv, NEW s \in Servers, NEW t \in Tables,
         \A u \in Tables : Len(db'[u]) >= Len(db[u]),
         t # "processes" => /\ Rows("processes")' = Rows("processes")
                            /\ \A p \in Rows("processes") : db'["processes"][p] = db["processes"][p],
         desk' = [Overtaken(t) EXCEPT ![s] = None]
  PROVE  DeskInv'
<1>1. RowsTyped /\ RowsTyped' /\ DeskTyped /\ DeskChecked
  BY DEF TablesInv, DeskInv
<1>2. /\ Overtaken(t) \in [Servers -> Form \cup {None}]
      /\ \A q \in Servers : Overtaken(t)[q] # None =>
            /\ desk[q] # None /\ SameForm(Overtaken(t)[q], desk[q])
            /\ t = "processes" /\ desk[q].table = t => ~Overtaken(t)[q].checked
  BY <1>1, OvertakenForms
<1>3. /\ desk' \in [Servers -> Form \cup {None}]
      /\ \A q \in Servers : desk'[q] # None => desk[q] # None /\ SameForm(desk'[q], desk[q])
      /\ \A q \in Servers : desk'[q] # None /\ t = "processes" /\ desk[q].table = t
                            => ~desk'[q].checked
  BY <1>2
<1>4. DeskTyped'
  BY <1>1, <1>3, DeskKept
<1>5. CASE t = "processes"
  <2>1. DeskChecked'
    <3> SUFFICES ASSUME NEW q \in Servers, desk'[q] # None, desk'[q].table = "processes",
                        desk'[q].checked
                 PROVE  FALSE
      BY DEF DeskChecked
    <3>1. desk[q].table = "processes"
      BY <1>3 DEF SameForm
    <3>2. QED
      BY <1>3, <1>5, <3>1
  <2>2. QED
    BY <1>4, <2>1 DEF DeskInv
<1>6. CASE t # "processes"
  <2>1. DeskChecked'
    BY <1>1, <1>3, <1>6, ChecksKept
  <2>2. QED
    BY <1>4, <2>1 DEF DeskInv
<1>7. QED
  BY <1>5, <1>6

\* A save that the database takes.
LEMMA FormSaved ==
  ASSUME SetupInv, NEW s \in Servers, NEW f \in Form, Fits(f, Len(db[f.table])),
         f.table = "processes" /\ f.checked => NoOverlap(f.id, f.row),
         Refers(f.table, f.row), Unique(f.table, f.id, f.row),
         Saves(f.table, f.id, f.row), cache' = Invalidated(s, f.table),
         bars' = IF f.posted = None THEN bars
                 ELSE SetBars(KeyOf(db[f.table], f.id), "products", f.posted),
         past' = PastAfter(s, f), tasks' = tasks,
         desk' = [Overtaken(f.table) EXCEPT ![s] = None]
  PROVE  SetupInv'
<1> DEFINE t == f.table
           id == f.id
           row == f.row
           n == KeyOf(db[t], id)
<1>1. /\ TablesInv /\ DeskInv /\ BarsInv /\ CacheInv /\ TasksInv /\ OneProcessPerColour /\ PastTyped
      /\ RowsTyped
  BY DEF SetupInv, TablesInv
<1>2. /\ t \in Tables /\ row \in RowTypes[t] /\ (id = None \/ id \in 1..Len(db[t]))
      /\ Refers(t, row) /\ Unique(t, id, row) /\ Saves(t, id, row)
      /\ f.posted # None => t = "workers"
      /\ f.checked \in BOOLEAN
  BY DEF Form, Fits
<1>3. /\ cache' = Invalidated(s, t)
      /\ bars' = IF f.posted = None THEN bars ELSE SetBars(n, "products", f.posted)
      /\ desk' = [Overtaken(t) EXCEPT ![s] = None]
  OBVIOUS
<1>4. past' = LET p == IF t = "stages" /\ id # None THEN
                         (IF id \in Rows("stages") /\ db["stages"][id].process = row.process
                          THEN past ELSE Noticed(s, t))
                       ELSE Noticed(s, t)
              IN IF t # "processes" THEN p
                 ELSE [p EXCEPT !.unchecked = IF f.checked THEN @ \ {n} ELSE @ \cup {n}]
  BY Zenon DEF PastAfter
<1>5. t = "processes" /\ f.checked => NoOverlap(id, row)
  OBVIOUS
<1> HIDE DEF t, id, row
<1>6. TablesInv'
  BY <1>1, <1>2, SavedStages
<1>7. /\ \A u \in Tables : Len(db'[u]) >= Len(db[u])
      /\ \A u \in Tables : u # t => db'[u] = db[u] /\ Rows(u)' = Rows(u)
      /\ n \in Nat
      /\ Rows(t)' = Rows(t) \cup {n}
      /\ db'[t][n] = row
      /\ \A k \in Rows(t) : k # n => db'[t][k] = db[t][k]
  BY <1>1, <1>2, SavedTables
<1>8. {"processes", "stages", "workers", "rules"} \subseteq Tables
  BY DEF Tables
<1>9. \A u \in Tables : Rows(u) \subseteq Rows(u)'
  BY <1>7
<1>10. t # "processes" => /\ Rows("processes")' = Rows("processes")
                          /\ \A p \in Rows("processes") : db'["processes"][p] = db["processes"][p]
  BY <1>7, <1>8
<1>11. DeskInv'
  BY <1>1, <1>2, <1>3, <1>6, <1>7, <1>10, DeskSaved
<1>12. BarsInv'
  <2>1. CASE f.posted = None
    BY <1>1, <1>3, <1>8, <1>9, <2>1 DEF BarsInv
  <2>2. CASE f.posted # None
    <3>1. n \in Rows("workers")' /\ Rows("workers") \subseteq Rows("workers")' /\ "products" \in Kinds
      BY <1>2, <1>7, <1>8, <1>9, <2>2 DEF Kinds
    <3> HIDE DEF n
    <3>2. SetBars(n, "products", f.posted) \subseteq Rows("workers")' \X Kinds
      BY <1>1, <3>1, BarsSet
    <3>3. QED
      BY <1>3, <2>2, <3>2 DEF BarsInv
  <2>3. QED
    BY <2>1, <2>2
<1> HIDE DEF n
<1>13. CASE t = "processes"
  <2>1. past' = [[past EXCEPT !.behind = (@ \cup {q \in Servers : Caching(q)}) \ {s},
                              !.recounted = @ \ {s}]
                 EXCEPT !.unchecked = IF f.checked THEN @ \ {n} ELSE @ \cup {n}]
    BY <1>4, <1>13, Zenon DEF Noticed
  <2>2. /\ past'.behind = (past.behind \cup {q \in Servers : Caching(q)}) \ {s}
        /\ past'.unchecked = IF f.checked THEN past.unchecked \ {n} ELSE past.unchecked \cup {n}
        /\ past'.miscounted = past.miscounted
        /\ PastTyped'
    <3> DEFINE p == [past EXCEPT !.behind = (@ \cup {q \in Servers : Caching(q)}) \ {s},
                                 !.recounted = @ \ {s}]
               ids == IF f.checked THEN p.unchecked \ {n} ELSE p.unchecked \cup {n}
    <3>1. /\ p \in [unchecked : SUBSET Nat, behind : SUBSET Servers, recounted : SUBSET Servers,
                    miscounted : SUBSET Items]
          /\ p.behind = (past.behind \cup {q \in Servers : Caching(q)}) \ {s}
          /\ p.unchecked = past.unchecked /\ p.miscounted = past.miscounted
      BY <1>1 DEF PastTyped
    <3> HIDE DEF p
    <3>2. ids \in SUBSET Nat
      BY <1>7, <3>1
    <3>3. past' = [p EXCEPT !.unchecked = ids]
      BY <2>1 DEF p
    <3>4. ids = IF f.checked THEN past.unchecked \ {n} ELSE past.unchecked \cup {n}
      BY <3>1
    <3> HIDE DEF ids
    <3>5. QED
      BY <3>1, <3>2, <3>3, <3>4 DEF PastTyped
  <2>3. cache' = InvalidateCaches(s)
    BY <1>3, <1>13 DEF Invalidated
  <2>4. CacheInv'
    BY <1>1, <2>2, <2>3, CacheCleared
  <2>5. TasksInv'
    BY <1>1, <1>8, <1>9, <2>2, TasksSame
  <2>6. OneProcessPerColour'
    <3>1. /\ row \in ProcessRow /\ (id = None \/ id \in 1..Len(db["processes"]))
          /\ Saves("processes", id, row)
          /\ f.checked => NoOverlap(id, row)
          /\ n = KeyOf(db["processes"], id)
      BY <1>2, <1>5, <1>13 DEF RowTypes, n
    <3>2. past'.unchecked = IF f.checked THEN past.unchecked \ {KeyOf(db["processes"], id)}
                            ELSE past.unchecked \cup {KeyOf(db["processes"], id)}
      BY <2>2, <3>1
    <3>3. QED
      BY <1>1, <1>2, <3>1, <3>2, ProcessSaved
  <2>7. QED
    BY <1>6, <1>11, <1>12, <2>2, <2>4, <2>5, <2>6 DEF SetupInv
<1>14. CASE t = "workers"
  <2>1. past' = [past EXCEPT !.behind = (@ \cup {q \in Servers : Caching(q)}) \ {s},
                             !.recounted = @ \ {s}]
    BY <1>4, <1>14, Zenon DEF Noticed
  <2>2. /\ past'.behind = (past.behind \cup {q \in Servers : Caching(q)}) \ {s}
        /\ past'.unchecked = past.unchecked
        /\ past'.miscounted = past.miscounted
        /\ PastTyped'
    BY <1>1, <2>1 DEF PastTyped
  <2>3. cache' = InvalidateCaches(s)
    BY <1>3, <1>14 DEF Invalidated
  <2>4. CacheInv'
    BY <1>1, <2>2, <2>3, CacheCleared
  <2>5. TasksInv'
    BY <1>1, <1>8, <1>9, <2>2, TasksSame
  <2>6. OneProcessPerColour'
    BY <1>1, <1>10, <1>14, <2>2, ProcessesKept
  <2>7. QED
    BY <1>6, <1>11, <1>12, <2>2, <2>4, <2>5, <2>6 DEF SetupInv
<1>15. CASE t = "stages"
  <2>1. \/ past' = past /\ id \in Rows("stages") /\ db["stages"][id].process = row.process
        \/ past' = [past EXCEPT !.recounted = @ \cup {q \in Servers : Caching(q)}]
    BY <1>4, <1>15, Zenon DEF Noticed
  <2>2. /\ past'.behind = past.behind /\ past'.unchecked = past.unchecked
        /\ past'.miscounted = past.miscounted /\ past.recounted \subseteq past'.recounted
        /\ PastTyped'
    BY <1>1, <2>1 DEF PastTyped
  <2>3. \/ \A p : StagesOf(p)' = StagesOf(p)
        \/ \A q \in Servers : Caching(q) => q \in past'.recounted
    <3>1. CASE past' = past /\ id \in Rows("stages") /\ db["stages"][id].process = row.process
      <4>1. id # None /\ n = id
        <5>1. id \in Nat
          BY <1>1, <1>8, <3>1, TableKeys
        <5>2. QED
          BY <5>1, NoneIsNothing DEF n, KeyOf
      <4>2. /\ Rows("stages")' = Rows("stages")
            /\ \A k \in Rows("stages") : db'["stages"][k].process = db["stages"][k].process
        BY <1>7, <1>15, <3>1, <4>1
      <4>3. QED
        BY <4>2 DEF StagesOf
    <3>2. CASE past' = [past EXCEPT !.recounted = @ \cup {q \in Servers : Caching(q)}]
      BY <1>1, <3>2 DEF PastTyped
    <3>3. QED
      BY <2>1, <3>1, <3>2
  <2>4. cache' = cache
    BY <1>3, <1>15 DEF Invalidated
  <2>5. /\ Rows("workers")' = Rows("workers")
        /\ \A w \in Rows("workers") : db'["workers"][w] = db["workers"][w]
    BY <1>7, <1>8, <1>15
  <2>6. CacheInv'
    BY <1>1, <1>10, <1>15, <2>2, <2>3, <2>4, <2>5, CacheKept
  <2>7. TasksInv'
    BY <1>1, <1>8, <1>9, <2>2, TasksSame
  <2>8. OneProcessPerColour'
    BY <1>1, <1>10, <1>15, <2>2, ProcessesKept
  <2>9. QED
    BY <1>6, <1>11, <1>12, <2>2, <2>6, <2>7, <2>8 DEF SetupInv
<1>16. CASE t = "rules"
  <2>1. past' = past
    BY <1>4, <1>16 DEF Noticed
  <2>2. cache' = cache
    BY <1>3, <1>16 DEF Invalidated
  <2>3. /\ Rows("workers")' = Rows("workers")
        /\ \A w \in Rows("workers") : db'["workers"][w] = db["workers"][w]
        /\ db'["stages"] = db["stages"] /\ Rows("stages")' = Rows("stages")
    BY <1>7, <1>8, <1>16
  <2>4. \A p : StagesOf(p)' = StagesOf(p)
    BY <2>3 DEF StagesOf
  <2>5. CacheInv'
    BY <1>1, <1>10, <1>16, <2>1, <2>2, <2>3, <2>4, CacheKept
  <2>6. TasksInv'
    BY <1>1, <1>8, <1>9, <2>1, TasksSame
  <2>7. OneProcessPerColour'
    BY <1>1, <1>10, <1>16, <2>1, ProcessesKept
  <2>8. QED
    BY <1>1, <1>6, <1>11, <1>12, <2>1, <2>5, <2>6, <2>7 DEF SetupInv, PastTyped
<1>17. QED
  BY <1>2, <1>13, <1>14, <1>15, <1>16 DEF Tables

LEMMA SaveKeeps ==
  ASSUME SetupInv, NEW s \in Servers, Save(s)
  PROVE  SetupInv'
<1> DEFINE d == desk[s]
<1>1. d # None /\ tasks' = tasks
  BY DEF Save
<1>2. d \in Form /\ Fits(d, Len(db[d.table])) /\ d.table \in Tables
  BY <1>1 DEF SetupInv, DeskInv, DeskTyped, Form
<1>3. d.table = "processes" /\ d.checked => NoOverlap(d.id, d.row)
  BY <1>1 DEF SetupInv, DeskInv, DeskChecked
<1>4. CASE Refers(d.table, d.row) /\ Unique(d.table, d.id, d.row)
  <2>1. /\ Saves(d.table, d.id, d.row)
        /\ cache' = Invalidated(s, d.table)
        /\ bars' = IF d.posted = None THEN bars
                   ELSE SetBars(KeyOf(db[d.table], d.id), "products", d.posted)
        /\ past' = PastAfter(s, d)
        /\ desk' = [Overtaken(d.table) EXCEPT ![s] = None]
    BY <1>4, Zenon DEF Save, Saves, KeyOf, PastAfter
  <2> HIDE DEF d
  <2>2. QED
    BY <1>1, <1>2, <1>3, <1>4, <2>1, FormSaved
<1>5. CASE ~(Refers(d.table, d.row) /\ Unique(d.table, d.id, d.row))
  <2>1. db' = db /\ bars' = bars /\ cache' = cache /\ past' = past
        /\ desk' = [desk EXCEPT ![s] = None]
    BY <1>5, Zenon DEF Save
  <2>2. /\ desk' \in [Servers -> Form \cup {None}]
        /\ \A q \in Servers : desk'[q] # None => desk[q] # None /\ SameForm(desk'[q], desk[q])
    BY <2>1 DEF SetupInv, DeskInv, DeskTyped, SameForm
  <2>3. Rows("processes")' = Rows("processes")
    BY <2>1 DEF Rows
  <2>4. DeskTyped'
    BY <2>1, <2>2 DEF SetupInv, DeskInv, DeskTyped
  <2>5. DeskChecked'
    BY <2>1, <2>2, <2>3, ChecksKept DEF SetupInv, DeskInv
  <2>6. QED
    BY <1>1, <2>1, <2>4, <2>5, OnlyTheDesk DEF DeskInv
<1>6. QED
  BY <1>4, <1>5

\* A deletion leaves the desk as good as it was.
LEMMA DeskErased ==
  ASSUME SetupInv, TablesInv', NEW dead, Erased(dead), desk' = desk
  PROVE  DeskInv'
<1>1. RowsTyped /\ RowsTyped' /\ DeskTyped /\ DeskChecked /\ "processes" \in Tables
  BY DEF SetupInv, TablesInv, DeskInv, Tables
<1>2. \A u \in Tables : Len(db'[u]) >= Len(db[u])
  <2> SUFFICES ASSUME NEW u \in Tables PROVE Len(db'[u]) >= Len(db[u])
    OBVIOUS
  <2>1. Len(db[u]) \in Nat
    BY <1>1, TableKeys
  <2>2. Len(db'[u]) = Len(db[u])
    BY <1>1, ErasedRows
  <2>3. QED
    BY <2>1, <2>2
<1>3. /\ desk' \in [Servers -> Form \cup {None}]
      /\ \A q \in Servers : desk'[q] # None => desk[q] # None /\ SameForm(desk'[q], desk[q])
  BY <1>1 DEF DeskTyped, SameForm
<1>4. /\ Rows("processes")' \subseteq Rows("processes")
      /\ \A p \in Rows("processes")' : db'["processes"][p] = db["processes"][p]
  BY <1>1, ErasedRows
<1>5. DeskTyped' /\ DeskChecked'
  BY <1>1, <1>2, <1>3, <1>4, DeskKept, ChecksKept
<1>6. QED
  BY <1>5 DEF DeskInv

LEMMA ProcessDeleteKeeps ==
  ASSUME SetupInv, NEW s \in Servers, NEW p, ProcessDelete(s, p)
  PROVE  SetupInv'
<1>1. /\ TablesInv /\ DeskInv /\ BarsInv /\ CacheInv /\ TasksInv /\ OneProcessPerColour /\ PastTyped
      /\ RowsTyped
  BY DEF SetupInv, TablesInv
<1>2. PICK r : Erased(DeadWith({p}, StagesOf(p), {}, r)) /\ TablesInv'
  BY <1>1, ProcessDeletes
<1> DEFINE dead == DeadWith({p}, StagesOf(p), {}, r)
<1>3. /\ dead["processes"] = {p} /\ dead["stages"] = StagesOf(p) /\ dead["workers"] = {}
      /\ {"processes", "stages", "workers"} \subseteq Tables
  BY DeadIn DEF Tables
<1> HIDE DEF dead
<1>4. /\ Erased(dead) /\ TablesInv' /\ desk' = desk /\ bars' = bars
      /\ tasks' = Unstaged(StagesOf(p)) /\ cache' = InvalidateCaches(s)
      /\ past' = [past EXCEPT !.behind = (@ \cup {q \in Servers : Caching(q)}) \ {s},
                              !.recounted = @ \ {s}]
  BY <1>2, Zenon DEF ProcessDelete, Noticed, dead
<1>5. \A u \in Tables : /\ Rows(u)' = Rows(u) \ dead[u]
                        /\ \A k \in Rows(u)' : db'[u][k] = db[u][k]
  BY <1>1, <1>4, ErasedRows
<1>6. /\ past'.behind = (past.behind \cup {q \in Servers : Caching(q)}) \ {s}
      /\ past'.unchecked = past.unchecked
      /\ past'.miscounted = past.miscounted
      /\ PastTyped'
  BY <1>1, <1>4 DEF PastTyped
<1>7. DeskInv'
  BY <1>4, DeskErased
<1>8. BarsInv'
  BY <1>1, <1>3, <1>4, <1>5 DEF BarsInv
<1>9. CacheInv'
  BY <1>1, <1>4, <1>6, CacheCleared
<1>10. TasksInv'
  BY <1>1, <1>3, <1>4, <1>5, <1>6, TasksUnstaged
<1>11. OneProcessPerColour'
  <2>1. /\ Rows("processes")' \subseteq Rows("processes")
        /\ \A k \in Rows("processes")' : db'["processes"][k] = db["processes"][k]
    BY <1>3, <1>5
  <2>2. QED
    BY <1>1, <1>6, <2>1, ProcessesKept
<1>12. QED
  BY <1>4, <1>6, <1>7, <1>8, <1>9, <1>10, <1>11 DEF SetupInv

LEMMA StageDeleteKeeps ==
  ASSUME SetupInv, NEW s \in Servers, NEW k, StageDelete(s, k)
  PROVE  SetupInv'
<1>1. /\ TablesInv /\ DeskInv /\ BarsInv /\ CacheInv /\ TasksInv /\ OneProcessPerColour /\ PastTyped
      /\ RowsTyped
  BY DEF SetupInv, TablesInv
<1>2. PICK r : Erased(DeadWith({}, {k}, {}, r)) /\ TablesInv'
  BY <1>1, StageDeletes
<1> DEFINE dead == DeadWith({}, {k}, {}, r)
<1>3. /\ dead["processes"] = {} /\ dead["stages"] = {k} /\ dead["workers"] = {}
      /\ {"processes", "stages", "workers"} \subseteq Tables
  BY DeadIn DEF Tables
<1> HIDE DEF dead
<1>4. /\ Erased(dead) /\ TablesInv' /\ desk' = desk /\ bars' = bars
      /\ tasks' = Unstaged({k}) /\ cache' = cache
      /\ past' = [past EXCEPT !.recounted = @ \cup {q \in Servers : Caching(q)}]
  BY <1>2, Zenon DEF StageDelete, Noticed, dead
<1>5. \A u \in Tables : /\ Rows(u)' = Rows(u) \ dead[u]
                        /\ \A j \in Rows(u)' : db'[u][j] = db[u][j]
  BY <1>1, <1>4, ErasedRows
<1>6. /\ past'.behind = past.behind /\ past'.unchecked = past.unchecked
      /\ past'.miscounted = past.miscounted /\ past.recounted \subseteq past'.recounted
      /\ \A q \in Servers : Caching(q) => q \in past'.recounted
      /\ PastTyped'
  BY <1>1, <1>4 DEF PastTyped
<1>7. DeskInv'
  BY <1>4, DeskErased
<1>8. BarsInv'
  BY <1>1, <1>3, <1>4, <1>5 DEF BarsInv
<1>9. /\ Rows("processes")' = Rows("processes") /\ Rows("workers")' = Rows("workers")
      /\ \A p \in Rows("processes") : db'["processes"][p] = db["processes"][p]
      /\ \A w \in Rows("workers") : db'["workers"][w] = db["workers"][w]
  BY <1>3, <1>5
<1>10. CacheInv'
  BY <1>1, <1>4, <1>6, <1>9, CacheKept
<1>11. TasksInv'
  BY <1>1, <1>3, <1>4, <1>5, <1>6, TasksUnstaged
<1>12. OneProcessPerColour'
  BY <1>1, <1>6, <1>9, ProcessesKept
<1>13. QED
  BY <1>4, <1>6, <1>7, <1>8, <1>10, <1>11, <1>12 DEF SetupInv

LEMMA WorkerDeleteKeeps ==
  ASSUME SetupInv, NEW s \in Servers, NEW w, WorkerDelete(s, w)
  PROVE  SetupInv'
<1>1. /\ TablesInv /\ DeskInv /\ BarsInv /\ CacheInv /\ TasksInv /\ OneProcessPerColour /\ PastTyped
      /\ RowsTyped
  BY DEF SetupInv, TablesInv
<1>2. PICK r : Erased(DeadWith({}, {}, {w}, r)) /\ TablesInv'
  BY <1>1, WorkerDeletes
<1> DEFINE dead == DeadWith({}, {}, {w}, r)
<1>3. /\ dead["processes"] = {} /\ dead["stages"] = {} /\ dead["workers"] = {w}
      /\ {"processes", "stages", "workers"} \subseteq Tables
  BY DeadIn DEF Tables
<1> HIDE DEF dead
<1>4. /\ Erased(dead) /\ TablesInv' /\ desk' = desk /\ bars' = Unbarred(w)
      /\ tasks' = tasks /\ cache' = InvalidateCaches(s)
      /\ past' = [past EXCEPT !.behind = (@ \cup {q \in Servers : Caching(q)}) \ {s},
                              !.recounted = @ \ {s}]
  BY <1>2, Zenon DEF WorkerDelete, Noticed, dead
<1>5. \A u \in Tables : /\ Rows(u)' = Rows(u) \ dead[u]
                        /\ \A j \in Rows(u)' : db'[u][j] = db[u][j]
  BY <1>1, <1>4, ErasedRows
<1>6. /\ past'.behind = (past.behind \cup {q \in Servers : Caching(q)}) \ {s}
      /\ past'.unchecked = past.unchecked
      /\ past'.miscounted = past.miscounted
      /\ PastTyped'
  BY <1>1, <1>4 DEF PastTyped
<1>7. DeskInv'
  BY <1>4, DeskErased
<1>8. BarsInv'
  BY <1>1, <1>3, <1>4, <1>5 DEF BarsInv, Unbarred
<1>9. CacheInv'
  BY <1>1, <1>4, <1>6, CacheCleared
<1>10. /\ Rows("processes")' \subseteq Rows("processes") /\ Rows("stages") \subseteq Rows("stages")'
       /\ \A p \in Rows("processes")' : db'["processes"][p] = db["processes"][p]
  BY <1>3, <1>5
<1>11. TasksInv'
  BY <1>1, <1>4, <1>6, <1>10, TasksSame
<1>12. OneProcessPerColour'
  BY <1>1, <1>6, <1>10, ProcessesKept
<1>13. QED
  BY <1>4, <1>6, <1>7, <1>8, <1>9, <1>11, <1>12 DEF SetupInv

LEMMA RuleDeleteKeeps ==
  ASSUME SetupInv, NEW s \in Servers, NEW r, RuleDelete(s, r)
  PROVE  SetupInv'
<1>1. /\ TablesInv /\ DeskInv /\ BarsInv /\ CacheInv /\ TasksInv /\ OneProcessPerColour /\ PastTyped
      /\ RowsTyped
  BY DEF SetupInv, TablesInv
<1> DEFINE dead == DeadWith({}, {}, {}, {r})
<1>2. /\ dead["processes"] = {} /\ dead["stages"] = {} /\ dead["workers"] = {}
      /\ {"processes", "stages", "workers"} \subseteq Tables
  BY DeadIn DEF Tables
<1> HIDE DEF dead
<1>3. Erased(dead) /\ TablesInv'
  BY <1>1, RuleDeletes DEF dead
<1>4. desk' = desk /\ bars' = bars /\ tasks' = tasks /\ cache' = cache /\ past' = past
  BY DEF RuleDelete
<1>5. \A u \in Tables : /\ Rows(u)' = Rows(u) \ dead[u]
                        /\ \A j \in Rows(u)' : db'[u][j] = db[u][j]
  BY <1>1, <1>3, ErasedRows
<1>6. PastTyped'
  BY <1>1, <1>4 DEF PastTyped
<1>7. DeskInv'
  BY <1>3, <1>4, DeskErased
<1>8. BarsInv'
  BY <1>1, <1>2, <1>4, <1>5 DEF BarsInv
<1>9. /\ Rows("processes")' = Rows("processes") /\ Rows("workers")' = Rows("workers")
      /\ Rows("stages")' = Rows("stages")
      /\ \A p \in Rows("processes") : db'["processes"][p] = db["processes"][p]
      /\ \A w \in Rows("workers") : db'["workers"][w] = db["workers"][w]
      /\ \A k \in Rows("stages") : db'["stages"][k] = db["stages"][k]
  BY <1>2, <1>5
<1>10. \A p : StagesOf(p)' = StagesOf(p)
  BY <1>9 DEF StagesOf
<1>11. CacheInv'
  BY <1>1, <1>4, <1>9, <1>10, CacheKept
<1>12. TasksInv'
  BY <1>1, <1>4, <1>9, TasksSame
<1>13. OneProcessPerColour'
  BY <1>1, <1>4, <1>9, ProcessesKept
<1>14. QED
  BY <1>3, <1>6, <1>7, <1>8, <1>11, <1>12, <1>13 DEF SetupInv

LEMMA ExclusionsKeep ==
  ASSUME SetupInv, NEW s \in Servers, NEW w, NEW kind \in Kinds, NEW some,
         WorkerExclusions(s, w, kind, some)
  PROVE  SetupInv'
<1>1. /\ TablesInv /\ DeskInv /\ BarsInv /\ CacheInv /\ TasksInv /\ OneProcessPerColour /\ PastTyped
  BY DEF SetupInv
<1>2. /\ w \in Rows("workers") /\ bars' = SetBars(w, kind, some)
      /\ db' = db /\ tasks' = tasks /\ cache' = cache /\ desk' = desk /\ past' = past
  BY DEF WorkerExclusions
<1>3. \A t : Rows(t)' = Rows(t)
  BY <1>2 DEF Rows
<1>4. TablesInv'
  BY <1>1, <1>2, <1>3 DEF TablesInv, RowsTyped, RefsExist, StagesUnique
<1>5. BarsInv'
  <2>1. SetBars(w, kind, some) \subseteq Rows("workers") \X Kinds
    BY <1>1, <1>2, BarsSet
  <2>2. QED
    BY <1>2, <1>3, <2>1 DEF BarsInv
<1>6. PastTyped'
  BY <1>1, <1>2 DEF PastTyped
<1>7. DeskInv'
  BY <1>1, <1>2, <1>3 DEF DeskInv, DeskTyped, DeskChecked, NoOverlap, Active
<1>8. \A p : StagesOf(p)' = StagesOf(p)
  BY <1>2, <1>3 DEF StagesOf
<1>9. CacheInv'
  BY <1>1, <1>2, <1>3, <1>8, CacheKept
<1>10. TasksInv'
  BY <1>1, <1>2, <1>3, TasksSame
<1>11. OneProcessPerColour'
  BY <1>1, <1>2, <1>3 DEF OneProcessPerColour, Active
<1>12. QED
  BY <1>4, <1>5, <1>6, <1>7, <1>9, <1>10, <1>11 DEF SetupInv

\* The other parts when nobody edits.
LEMMA NothingEdited ==
  ASSUME SetupInv, db' = db, bars' = bars, desk' = desk, past'.unchecked = past.unchecked
  PROVE  TablesInv' /\ DeskInv' /\ BarsInv' /\ OneProcessPerColour'
<1>1. \A t : Rows(t)' = Rows(t)
  BY DEF Rows
<1>2. TablesInv'
  BY <1>1 DEF SetupInv, TablesInv, RowsTyped, RefsExist, StagesUnique
<1>3. DeskInv'
  BY <1>1 DEF SetupInv, DeskInv, DeskTyped, DeskChecked, NoOverlap, Active
<1>4. BarsInv' /\ OneProcessPerColour'
  BY <1>1 DEF SetupInv, BarsInv, OneProcessPerColour, Active
<1>5. QED
  BY <1>2, <1>3, <1>4

LEMMA LoadKeeps ==
  ASSUME SetupInv, NEW s \in Servers, LoadWorkers(s)
  PROVE  SetupInv'
<1>1. /\ TablesInv /\ DeskInv /\ BarsInv /\ CacheInv /\ TasksInv /\ OneProcessPerColour /\ PastTyped
      /\ RowsTyped
  BY DEF SetupInv, TablesInv
<1>2. /\ cache' = [cache EXCEPT ![s].workers = WorkersInDb]
      /\ db' = db /\ bars' = bars /\ tasks' = tasks /\ desk' = desk /\ past' = past
  BY DEF LoadWorkers
<1>3. TablesInv' /\ DeskInv' /\ BarsInv' /\ OneProcessPerColour'
  BY <1>2, NothingEdited
<1>4. PastTyped'
  BY <1>1, <1>2 DEF PastTyped
<1>5. \A t : Rows(t)' = Rows(t)
  BY <1>2 DEF Rows
<1>6. TasksInv'
  BY <1>1, <1>2, <1>5, TasksSame
<1>7. WorkersInDb \in SUBSET Painters
  BY <1>1, PaintersLoaded
<1>8. CacheInv'
  <2>1. CacheTyped'
    BY <1>1, <1>2, <1>7 DEF CacheInv, CacheTyped
  <2>2. \A q \in Servers : /\ cache'[q].processes = cache[q].processes
                           /\ cache'[q].workers = IF q = s THEN WorkersInDb ELSE cache[q].workers
    BY <1>1, <1>2 DEF CacheInv, CacheTyped
  <2>3. WorkersInDb' = WorkersInDb
    BY <1>2, <1>5 DEF WorkersInDb
  <2>4. \A c : Owners(c)' = Owners(c) /\ StagesOf(c)' = StagesOf(c)
    BY <1>2, <1>5 DEF Owners, StagesOf
  <2>5. CacheFresh'
    BY <1>1, <1>2, <2>2, <2>3, <2>4 DEF CacheInv, CacheFresh
  <2>6. CountsFresh'
    BY <1>1, <1>2, <2>2, <2>4 DEF CacheInv, CountsFresh
  <2>7. QED
    BY <2>1, <2>5, <2>6 DEF CacheInv
<1>9. QED
  BY <1>3, <1>4, <1>6, <1>8 DEF SetupInv

LEMMA AssignKeeps ==
  ASSUME SetupInv, NEW s \in Servers, NEW item \in Items, AssignPaintingProcess(s, item)
  PROVE  SetupInv'
<1>1. TasksInv' /\ PastTyped' /\ CacheInv'
  BY TasksAssigned DEF SetupInv
<1>2. past'.unchecked = past.unchecked /\ db' = db /\ bars' = bars /\ desk' = desk
  BY DEF AssignPaintingProcess, SetupInv, PastTyped
<1>3. QED
  BY <1>1, <1>2, NothingEdited DEF SetupInv

LEMMA CompleteKeeps ==
  ASSUME SetupInv, NEW t \in tasks, Complete(t)
  PROVE  SetupInv'
<1>1. db' = db /\ bars' = bars /\ desk' = desk /\ past' = past /\ cache' = cache
  BY DEF Complete
<1>2. TablesInv' /\ DeskInv' /\ BarsInv' /\ OneProcessPerColour'
  BY <1>1, NothingEdited
<1>3. TasksInv' /\ PastTyped'
  BY <1>1, TaskCompleted DEF SetupInv, PastTyped
<1>4. CacheInv'
  <2>1. \A u : Rows(u)' = Rows(u)
    BY <1>1 DEF Rows
  <2>2. \A p : StagesOf(p)' = StagesOf(p)
    BY <1>1, <2>1 DEF StagesOf
  <2>3. CacheInv
    BY DEF SetupInv
  <2>4. QED
    BY <1>1, <2>1, <2>2, <2>3, CacheKept
<1>5. QED
  BY <1>2, <1>3, <1>4 DEF SetupInv

\* A step that only posts an edit.
LEMMA PostKeeps ==
  ASSUME SetupInv, NEW s \in Servers, NEW t \in Tables, NEW id, NEW row \in RowTypes[t],
         NEW checked \in BOOLEAN, NEW posted \in BOOLEAN \cup {None},
         Posted(s, t, id, row, checked, posted),
         posted # None => t = "workers",
         t = "processes" /\ checked => NoOverlap(id, row)
  PROVE  SetupInv'
<1>1. RowsTyped /\ DeskInv
  BY DEF SetupInv, TablesInv
<1>2. DeskInv'
  BY <1>1, FormPosted
<1>3. UNCHANGED <<db, bars, tasks, cache, past>>
  BY DEF Posted
<1>4. QED
  BY <1>2, <1>3, OnlyTheDesk

\* The edits of the planner's pages, and of the Django admin.
LEMMA ProcessEditsKeep ==
  ASSUME SetupInv, NEW s \in Servers
  PROVE  /\ \A id, row : row \in ProcessRow /\ (ProcessSave(s, id, row) \/ ProcessAdmin(s, id, row))
                         => SetupInv'
         /\ \A p : ProcessToggleActive(s, p) => SetupInv'
<1>1. "processes" \in Tables /\ RowTypes["processes"] = ProcessRow
  BY DEF Tables, RowTypes
<1>2. ASSUME NEW id, NEW row \in ProcessRow, ProcessSave(s, id, row)
      PROVE  SetupInv'
  <2>1. NoOverlap(id, row) /\ Posted(s, "processes", id, row, TRUE, None)
    BY <1>2 DEF ProcessSave, Validated, Loaded
  <2>2. QED
    BY <1>1, <2>1, PostKeeps
<1>3. ASSUME NEW id, NEW row \in ProcessRow, ProcessAdmin(s, id, row)
      PROVE  SetupInv'
  <2>1. Posted(s, "processes", id, row, FALSE, None)
    BY <1>3 DEF ProcessAdmin, Loaded
  <2>2. QED
    BY <1>1, <2>1, PostKeeps
<1>4. ASSUME NEW p, ProcessToggleActive(s, p)
      PROVE  SetupInv'
  <2> DEFINE row == [db["processes"][p] EXCEPT !.is_active = ~@]
  <2>1. p \in Rows("processes") /\ Posted(s, "processes", p, row, FALSE, None)
    BY <1>4 DEF ProcessToggleActive, Loaded
  <2>2. db["processes"][p] \in ProcessRow
    BY <1>1, <2>1 DEF SetupInv, TablesInv, RowsTyped
  <2>3. row \in ProcessRow
    BY <2>2 DEF ProcessRow
  <2> HIDE DEF row
  <2>4. QED
    BY <1>1, <2>1, <2>3, PostKeeps
<1>5. QED
  BY <1>2, <1>3, <1>4

LEMMA StageEditsKeep ==
  ASSUME SetupInv, NEW s \in Servers, NEW id, NEW p \in Rows("processes"),
         NEW order \in 1..MaxRows["stages"], StageSave(s, id, [process |-> p, order |-> order])
  PROVE  SetupInv'
<1> DEFINE row == [process |-> p, order |-> order]
<1>1. {"stages", "processes"} \subseteq Tables /\ RowTypes["stages"] = StageRow
  BY DEF Tables, RowTypes
<1>2. p \in Nat
  BY <1>1, TableKeys DEF SetupInv, TablesInv
<1>3. row \in RowTypes["stages"]
  BY <1>1, <1>2 DEF StageRow
<1>4. Posted(s, "stages", id, row, TRUE, None)
  BY DEF StageSave, Validated, Loaded
<1> HIDE DEF row
<1>5. QED
  BY <1>1, <1>3, <1>4, PostKeeps

LEMMA WorkerEditsKeep ==
  ASSUME SetupInv, NEW s \in Servers
  PROVE  /\ \A row \in WorkerRow : WorkerCreate(s, row) => SetupInv'
         /\ \A id : \A row \in WorkerRow, barred \in BOOLEAN :
              WorkerFormSave(s, id, row, barred) => SetupInv'
         /\ \A w : \A stage \in {"paint", "cut"}, available \in BOOLEAN :
              WorkerPut(s, w, stage, available) => SetupInv'
         /\ \A w : \A skilled \in BOOLEAN : WorkerAssignSkills(s, w, skilled) => SetupInv'
<1>1. "workers" \in Tables /\ RowTypes["workers"] = WorkerRow
  BY DEF Tables, RowTypes
<1>2. \A w \in Rows("workers") : db["workers"][w] \in WorkerRow
  BY <1>1 DEF SetupInv, TablesInv, RowsTyped
<1>3. ASSUME NEW row \in WorkerRow, WorkerCreate(s, row)
      PROVE  SetupInv'
  <2>1. Posted(s, "workers", None, row, TRUE, None)
    BY <1>3 DEF WorkerCreate, Loaded
  <2>2. QED
    BY <1>1, <2>1, PostKeeps
<1>4. ASSUME NEW id, NEW row \in WorkerRow, NEW barred \in BOOLEAN,
             WorkerFormSave(s, id, row, barred)
      PROVE  SetupInv'
  <2>1. Posted(s, "workers", id, row, TRUE, barred)
    BY <1>4 DEF WorkerFormSave
  <2>2. QED
    BY <1>1, <2>1, PostKeeps
<1>5. ASSUME NEW w, NEW stage \in {"paint", "cut"}, NEW available \in BOOLEAN,
             WorkerPut(s, w, stage, available)
      PROVE  SetupInv'
  <2> DEFINE row == [db["workers"][w] EXCEPT !.stage = stage, !.is_available = available]
  <2>1. w \in Rows("workers") /\ Posted(s, "workers", w, row, TRUE, None)
    BY <1>5 DEF WorkerPut, Loaded
  <2>2. row \in WorkerRow
    BY <1>2, <2>1 DEF WorkerRow
  <2> HIDE DEF row
  <2>3. QED
    BY <1>1, <2>1, <2>2, PostKeeps
<1>6. ASSUME NEW w, NEW skilled \in BOOLEAN, WorkerAssignSkills(s, w, skilled)
      PROVE  SetupInv'
  <2> DEFINE row == [db["workers"][w] EXCEPT !.skilled = skilled]
  <2>1. w \in Rows("workers") /\ Posted(s, "workers", w, row, TRUE, None)
    BY <1>6 DEF WorkerAssignSkills, Loaded
  <2>2. row \in WorkerRow
    BY <1>2, <2>1 DEF WorkerRow
  <2> HIDE DEF row
  <2>3. QED
    BY <1>1, <2>1, <2>2, PostKeeps
<1>7. QED
  BY <1>3, <1>4, <1>5, <1>6

LEMMA RuleEditsKeep ==
  ASSUME SetupInv, NEW s \in Servers
  PROVE  /\ \A id : \A w \in Rows("workers"), k \in Rows("stages") \cup {None},
                       p \in Rows("processes") \cup {None} :
              RuleSave(s, id, [worker |-> w, painting_stage |-> k, process |-> p, is_active |-> TRUE])
              => SetupInv'
         /\ \A r : RuleToggleActive(s, r) => SetupInv'
<1>1. {"rules", "workers", "stages", "processes"} \subseteq Tables /\ RowTypes["rules"] = RuleRow
  BY DEF Tables, RowTypes
<1>2. /\ RowsTyped
      /\ Rows("workers") \subseteq Nat /\ Rows("stages") \subseteq Nat /\ Rows("processes") \subseteq Nat
  BY <1>1, TableKeys DEF SetupInv, TablesInv
<1>3. ASSUME NEW id, NEW w \in Rows("workers"), NEW k \in Rows("stages") \cup {None},
             NEW p \in Rows("processes") \cup {None},
             RuleSave(s, id, [worker |-> w, painting_stage |-> k, process |-> p, is_active |-> TRUE])
      PROVE  SetupInv'
  <2> DEFINE row == [worker |-> w, painting_stage |-> k, process |-> p, is_active |-> TRUE]
  <2>1. Posted(s, "rules", id, row, TRUE, None)
    BY <1>3 DEF RuleSave, Validated, Loaded
  <2>2. row \in RuleRow
    BY <1>2 DEF RuleRow
  <2> HIDE DEF row
  <2>3. QED
    BY <1>1, <2>1, <2>2, PostKeeps
<1>4. ASSUME NEW r, RuleToggleActive(s, r)
      PROVE  SetupInv'
  <2> DEFINE row == [db["rules"][r] EXCEPT !.is_active = ~@]
  <2>1. r \in Rows("rules") /\ Posted(s, "rules", r, row, TRUE, None)
    BY <1>4 DEF RuleToggleActive, Loaded
  <2>2. db["rules"][r] \in RuleRow
    BY <1>1, <1>2, <2>1 DEF RowsTyped
  <2>3. row \in RuleRow
    BY <2>2 DEF RuleRow
  <2> HIDE DEF row
  <2>4. QED
    BY <1>1, <2>1, <2>3, PostKeeps
<1>5. QED
  BY <1>3, <1>4

LEMMA PlannerKeeps ==
  ASSUME SetupInv, NEW s \in Servers, Planner(s)
  PROVE  SetupInv'
<1>1. \A w \in Rows("workers") : /\ (~db["workers"][w].is_available) \in BOOLEAN
                                 /\ (~db["workers"][w].skilled) \in BOOLEAN
  OBVIOUS
<1>2. CASE \E id \in Rows("processes") \cup {None}, row \in ProcessRow :
             ProcessSave(s, id, row) \/ ProcessAdmin(s, id, row)
  BY <1>2, ProcessEditsKeep
<1>3. CASE \E p \in Rows("processes") : ProcessToggleActive(s, p) \/ ProcessDelete(s, p)
  BY <1>3, ProcessEditsKeep, ProcessDeleteKeeps
<1>4. CASE \E id \in Rows("stages") \cup {None}, p \in Rows("processes"),
              order \in 1..MaxRows["stages"] : StageSave(s, id, [process |-> p, order |-> order])
  BY <1>4, StageEditsKeep
<1>5. CASE \E k \in Rows("stages") : StageDelete(s, k)
  BY <1>5, StageDeleteKeeps
<1>6. CASE \E row \in WorkerRow :
             \/ row.is_available /\ row.skilled /\ WorkerCreate(s, row)
             \/ \E id \in Rows("workers") \cup {None} :
                  row.skilled /\ \E barred \in BOOLEAN : WorkerFormSave(s, id, row, barred)
  BY <1>6, WorkerEditsKeep
<1>7. CASE \E w \in Rows("workers") :
             \/ WorkerDelete(s, w)
             \/ \E stage \in {"paint", "cut"} : WorkerPut(s, w, stage, ~db["workers"][w].is_available)
             \/ WorkerAssignSkills(s, w, ~db["workers"][w].skilled)
             \/ \E kind \in Kinds : WorkerExclusions(s, w, kind, <<w, kind>> \notin bars)
  BY <1>1, <1>7, WorkerEditsKeep, WorkerDeleteKeeps, ExclusionsKeep
<1>8. CASE \E id \in Rows("rules") \cup {None}, w \in Rows("workers"),
              k \in Rows("stages") \cup {None}, p \in Rows("processes") \cup {None} :
             RuleSave(s, id, [worker |-> w, painting_stage |-> k, process |-> p, is_active |-> TRUE])
  BY <1>8, RuleEditsKeep
<1>9. CASE \E r \in Rows("rules") : RuleToggleActive(s, r) \/ RuleDelete(s, r)
  BY <1>9, RuleEditsKeep, RuleDeleteKeeps
<1>10. QED
  BY <1>2, <1>3, <1>4, <1>5, <1>6, <1>7, <1>8, <1>9 DEF Planner

LEMMA SetupInit ==
  ASSUME Init
  PROVE  SetupInv
<1>1. PICK active \in BOOLEAN, u \in Users :
        db = [processes |-> <<[is_active |-> active, color_codes |-> Colours]>>,
              stages |-> <<[process |-> 1, order |-> 1]>>,
              workers |-> <<[user |-> u, stage |-> "paint", is_available |-> TRUE, skilled |-> TRUE]>>,
              rules |-> <<[worker |-> 1, painting_stage |-> 1, process |-> 1, is_active |-> TRUE]>>]
  BY DEF Init
<1>2. /\ bars = {<<1, "items">>} /\ tasks = {}
      /\ cache = [s \in Servers |-> Empty] /\ desk = [s \in Servers |-> None]
      /\ past = [unchecked |-> {}, behind |-> {}, recounted |-> {}, miscounted |-> {}]
  BY DEF Init
<1> DEFINE process == [is_active |-> active, color_codes |-> Colours]
           stage == [process |-> 1, order |-> 1]
           worker == [user |-> u, stage |-> "paint", is_available |-> TRUE, skilled |-> TRUE]
           rule == [worker |-> 1, painting_stage |-> 1, process |-> 1, is_active |-> TRUE]
<1>3. /\ process \in RowTypes["processes"] /\ stage \in RowTypes["stages"]
      /\ worker \in RowTypes["workers"] /\ rule \in RowTypes["rules"]
  BY DEF RowTypes, ProcessRow, StageRow, WorkerRow, RuleRow
<1>4. /\ stage.process = 1 /\ rule.worker = 1 /\ rule.painting_stage = 1 /\ rule.process = 1
  OBVIOUS
<1>5. /\ db["processes"] = <<process>> /\ db["stages"] = <<stage>>
      /\ db["workers"] = <<worker>> /\ db["rules"] = <<rule>>
      /\ DOMAIN db = Tables /\ db = [t \in Tables |-> db[t]]
  BY <1>1 DEF Tables
<1> HIDE DEF process, stage, worker, rule
<1>6. {"processes", "stages", "workers", "rules"} \subseteq Tables
  BY DEF Tables
<1>7. /\ process # None /\ stage # None /\ worker # None /\ rule # None
      /\ process \in AnyRow /\ stage \in AnyRow /\ worker \in AnyRow /\ rule \in AnyRow
  BY <1>3, <1>6, NoneIsNothing, RowsAreAny
<1>8. \A t \in Tables : Rows(t) = {1}
  <2> SUFFICES ASSUME NEW t \in Tables PROVE Rows(t) = {1}
    OBVIOUS
  <2>1. CASE t = "processes"
    BY <1>5, <1>7, <2>1 DEF Rows
  <2>2. CASE t = "stages"
    BY <1>5, <1>7, <2>2 DEF Rows
  <2>3. CASE t = "workers"
    BY <1>5, <1>7, <2>3 DEF Rows
  <2>4. CASE t = "rules"
    BY <1>5, <1>7, <2>4 DEF Rows
  <2>5. QED
    BY <2>1, <2>2, <2>3, <2>4 DEF Tables
<1>9. RowsTyped
  <2>1. /\ <<process>> \in Seq(AnyRow) /\ <<stage>> \in Seq(AnyRow)
        /\ <<worker>> \in Seq(AnyRow) /\ <<rule>> \in Seq(AnyRow)
    BY <1>7
  <2>2. \A t \in Tables : db[t] \in Seq(AnyRow)
    BY <1>5, <2>1 DEF Tables
  <2>3. db \in [Tables -> Seq(AnyRow)]
    BY <1>5, <2>2
  <2>4. \A t \in Tables : db[t][1] \in RowTypes[t]
    BY <1>3, <1>5 DEF Tables
  <2>5. QED
    BY <1>8, <2>3, <2>4 DEF RowsTyped
<1>10. RefsExist
  BY <1>4, <1>5, <1>8 DEF RefsExist, Links
<1>11. StagesUnique
  BY <1>6, <1>8 DEF StagesUnique
<1>12. DeskInv
  BY <1>2 DEF DeskInv, DeskTyped, DeskChecked
<1>13. BarsInv
  BY <1>2, <1>6, <1>8 DEF BarsInv, Kinds
<1>14. CacheInv
  BY <1>2 DEF CacheInv, CacheTyped, CacheFresh, CountsFresh, Empty
<1>15. TasksInv
  BY <1>2, FS_EmptySet DEF TasksInv, TasksTyped, PaintStepsApart
<1>16. OneProcessPerColour
  BY <1>6, <1>8 DEF OneProcessPerColour
<1>17. PastTyped
  BY <1>2 DEF PastTyped
<1>18. QED
  BY <1>9, <1>10, <1>11, <1>12, <1>13, <1>14, <1>15, <1>16, <1>17 DEF SetupInv, TablesInv

LEMMA SetupNext ==
  ASSUME SetupInv, [Next]_vars
  PROVE  SetupInv'
<1>1. CASE UNCHANGED vars
  <2>1. UNCHANGED <<db, bars, tasks, cache, past>> /\ desk' = desk
    BY <1>1 DEF vars
  <2>2. db' = db /\ bars' = bars /\ desk' = desk /\ past'.unchecked = past.unchecked
    BY <2>1
  <2>3. QED
    BY <2>1, <2>2, NothingEdited, OnlyTheDesk
<1>2. CASE \E s \in Servers : (Free(s) /\ edits < MaxEdits /\ Planner(s)) \/ Save(s) \/ LoadWorkers(s)
  BY <1>2, PlannerKeeps, SaveKeeps, LoadKeeps
<1>3. CASE \E s \in Servers, item \in Items : AssignPaintingProcess(s, item)
  BY <1>3, AssignKeeps
<1>4. CASE \E t \in tasks : Complete(t)
  BY <1>4, CompleteKeeps
<1>5. QED
  BY <1>1, <1>2, <1>3, <1>4 DEF Next

LEMMA SetupAlways == Spec => []SetupInv
<1>1. Init => SetupInv
  BY SetupInit
<1>2. SetupInv /\ [Next]_vars => SetupInv'
  BY SetupNext
<1>3. QED
  BY <1>1, <1>2, PTL DEF Spec

-----------------------------------------------------------------------------
(* The theorems *)

\* Whatever is deleted with a process, a stage or a painter (CASCADE,
\* SET_NULL) and inserted again by a save that was loaded before, every row,
\* bar and task refers to rows that exist.
THEOREM SetupTypeCorrect == Spec => []TypeOK
<1>1. SetupInv => TypeOK
  <2> SUFFICES ASSUME SetupInv PROVE TypeOK
    OBVIOUS
  <2>1. /\ RowsTyped /\ RefsExist /\ BarsInv /\ TasksTyped
    BY DEF SetupInv, TablesInv, TasksInv
  <2>2. DOMAIN db = Tables
    BY <2>1 DEF RowsTyped
  <2>3. \A t \in Tables : \A k \in Rows(t) : db[t][k] \in RowTypes[t] /\ Refers(t, db[t][k])
    <3> SUFFICES ASSUME NEW t \in Tables, NEW k \in Rows(t)
                 PROVE  db[t][k] \in RowTypes[t] /\ Refers(t, db[t][k])
      OBVIOUS
    <3>1. db[t][k] \in RowTypes[t]
      BY <2>1 DEF RowsTyped
    <3>2. \A u \in Tables : \A m : Links(t, db[t][k], u, m) => m \in Rows(u)
      BY <2>1 DEF RefsExist
    <3>3. Refers(t, db[t][k])
      BY <3>2, RefersLinks
    <3>4. QED
      BY <3>1, <3>3
  <2>4. QED
    BY <2>1, <2>2, <2>3 DEF TypeOK, BarsInv, TasksTyped
<1>2. QED
  BY <1>1, SetupAlways, PTL

\* Two active processes share a colour only when one of them was switched on
\* past the form (the list, the admin) or was saved after another save had
\* made the form's check worthless.
THEOREM AlwaysOneProcess == Spec => []OneProcessPerColour
<1>1. SetupInv => OneProcessPerColour
  BY DEF SetupInv
<1>2. QED
  BY <1>1, SetupAlways, PTL

\* A server no other has left behind remembers the painters and, for every
\* colour, the process the tables would give it.
THEOREM CacheAlwaysCurrent == Spec => []CacheIsCurrent
<1>1. SetupInv => CacheIsCurrent
  <2> SUFFICES ASSUME SetupInv, NEW s \in Servers, s \notin past.behind
               PROVE  /\ cache[s].workers # None => cache[s].workers = WorkersInDb
                      /\ cache[s].processes # None =>
                           \A c \in Colours :
                             IF cache[s].processes[c] = None THEN ProcessesInDb[c] = None
                             ELSE /\ ProcessesInDb[c] # None
                                  /\ ProcessesInDb[c].process = cache[s].processes[c].process
    BY Zenon DEF CacheIsCurrent
  <2>1. RowsTyped /\ CacheFresh
    BY DEF SetupInv, TablesInv, CacheInv
  <2>2. cache[s].workers # None => cache[s].workers = WorkersInDb
    BY <2>1 DEF CacheFresh
  <2>3. ASSUME cache[s].processes # None, NEW c \in Colours
        PROVE  IF cache[s].processes[c] = None THEN ProcessesInDb[c] = None
               ELSE /\ ProcessesInDb[c] # None
                    /\ ProcessesInDb[c].process = cache[s].processes[c].process
    <3>1. /\ Owners(c) = {} => cache[s].processes[c] = None
          /\ Owners(c) # {} => /\ cache[s].processes[c] # None
                               /\ cache[s].processes[c].process = Max(Owners(c))
      BY <2>1, <2>3 DEF CacheFresh
    <3>2. /\ Owners(c) = {} => ProcessesInDb[c] = None
          /\ Owners(c) # {} => /\ ProcessesInDb[c] # None
                               /\ ProcessesInDb[c].process = Max(Owners(c))
      BY <2>1, ProcessesLoaded
    <3>3. QED
      BY <3>1, <3>2
  <2>4. QED
    BY <2>2, <2>3
<1>2. QED
  BY <1>1, SetupAlways, PTL

\* The painting steps of an item never fall on one another, whichever
\* processes its colour parts were given and whatever was edited since,
\* unless a cache had counted the stages of an older state.
THEOREM PaintStepsAlwaysApart == Spec => []PaintStepsApart
<1>1. SetupInv => PaintStepsApart
  BY DEF SetupInv, TasksInv
<1>2. QED
  BY <1>1, SetupAlways, PTL
=============================================================================
