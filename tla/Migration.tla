------------------------------ MODULE Migration ------------------------------
(***************************************************************************)
(* The V1 to V2 migration command, craftflow_migrate_v2.                     *)
(*                                                                         *)
(* A run of the command creates a MigrationRun, migrates the V1 rows of a    *)
(* phase in one transaction, in an order fixed by their kind and id, and     *)
(* then writes the outcome on the run.  What became of a V1 row is a         *)
(* MigrationMap row, which a later run looks up first.  A run can be rolled  *)
(* back: the V2 rows its maps name are deleted, and the maps.                *)
(*                                                                         *)
(* V1 stays in use: rows are added between runs.  Ids and names are numbers. *)
(***************************************************************************)
EXTENDS Integers, Sequences, FiniteSets

CONSTANTS
    Rows,       \* V1 rows, numbered in the order in which a phase reaches them
    Early,      \* rows that are there before the first run
    Kind,       \* row -> what it is
    Names,      \* names; 0 is the empty one
    Name,       \* row -> its name, code, f3 or (a stage) its order
    Strip,      \* name -> the name without surrounding blanks
    Ref,        \* row -> category of a product, base of a variation,
                \* product of a BOM line, process of a stage; 0 for the others
    PartOf,     \* BOM line -> its part
    MaterialOf, \* part -> its material
    ColorMapped,\* the BOM lines with a color_material_map
    OfficeNames,\* names under which the V2 office creates customers
    Phases,     \* phases that are run
    MaxRuns,    \* bound: runs of the command
    MaxSame     \* bound: customers of one name when the office adds one

\* The kinds of V1 rows, in the order in which the command reaches them.
Rank == [category |-> 1, product |-> 2, customer |-> 3, worker |-> 4, material |-> 5,
         raw |-> 6, part |-> 7, variation |-> 8, bom |-> 9, process |-> 10,
         stage |-> 11, order |-> 12]
Kinds == DOMAIN Rank
AllPhases == {"master-data", "production", "inventory", "barcode"}

None == 0

ASSUME MigrationAssumption ==
    /\ Rows \subseteq Nat \ {0} /\ IsFiniteSet(Rows)
    /\ Kind \in [Rows -> Kinds]
    /\ \A q, r \in Rows : Rank[Kind[q]] < Rank[Kind[r]] => q < r
    /\ 0 \in Names /\ Names \subseteq Nat
    /\ Name \in [Rows -> Names] /\ Strip \in [Names -> Names]
    /\ Ref \in [Rows -> Rows \cup {None}]
    /\ PartOf \in [Rows -> Rows \cup {None}]
    /\ MaterialOf \in [Rows -> Rows \cup {None}]
    /\ \A r \in Rows : Kind[r] = "bom" =>
          Ref[r] # None /\ Kind[Ref[r]] = "product" /\ PartOf[r] # None
    /\ Early \subseteq Rows
    /\ \A r \in Early : {Ref[r], PartOf[r], MaterialOf[r]} \subseteq Early \cup {None}
    /\ ColorMapped \subseteq Rows
    /\ OfficeNames \subseteq Names \ {0}
    /\ Phases \subseteq AllPhases
    /\ MaxRuns \in Nat /\ MaxSame \in Nat

VARIABLES
    v1,      \* the V1 rows that exist
    v2,      \* the V2 tables: id -> row
    maps,    \* MigrationMap: <<migration_type, old_id>> -> new id and run
    next,    \* the next V2 id; ids are not used again
    runs,    \* MigrationRun: run -> phase and status
    proc,    \* how far the process of a run has come
    txn,     \* the open transaction
    settled, \* history: V1 and V2 are as the last master-data run left them
    mixed    \* history: a run was rolled back while another one had maps

tables == <<v2, maps, next>>
vars == <<v1, v2, maps, next, runs, proc, txn, settled, mixed>>

Types == {"product_category", "product", "customer", "worker", "material",
          "raw_material", "part", "production_part", "bom", "bom_item",
          "bom_item_material_rule", "painting_process", "painting_stage"}
Tables == {"ProductCategory", "Product", "Customer", "Worker", "Item",
           "ProductPart", "ProductionPart", "BOM", "BOMItem", "Rule",
           "PaintingProcess", "PaintingProcessStage"}

RunIds == 1..MaxRuns
V2Row == [table: Tables, key: Nat \X Nat, name: Nat, within: Nat, uses: SUBSET Nat]
MapRow == [new: Nat, run: RunIds]
RunRow == [phase: AllPhases, status: {"pending", "running", "completed", "failed"}]
NoTxn == [run |-> None, todo |-> {}, v2 |-> <<>>, maps |-> <<>>, next |-> 0]
Open == txn.run # None

\* The table f with the row e under k.
Put(f, k, e) == [x \in DOMAIN f \cup {k} |-> IF x = k THEN e ELSE f[x]]

----------------------------------------------------------------------------
(* The tables as a transaction sees them, and the helpers of the command.    *)

Db == [v2 |-> v2, maps |-> maps, next |-> next]

\* _find_map(...) with a new_id
Migrated(db, type, r) ==
    <<type, r>> \in DOMAIN db.maps /\ db.maps[<<type, r>>].new # None

\* _ensure_map: an existing row is brought up to date and taken over by the run.
Ensured(db, type, r, id) ==
    [db EXCEPT !.maps = Put(@, <<type, r>>, [new |-> id, run |-> txn.run])]

\* _skip: only when nothing is known of the row.
Skipped(db, type, r) ==
    IF <<type, r>> \in DOMAIN db.maps THEN db
    ELSE [db EXCEPT !.maps = Put(@, <<type, r>>, [new |-> None, run |-> txn.run])]

Least(S) == CHOOSE i \in S : \A j \in S : i <= j
First(S) == IF S = {} THEN None ELSE Least(S)

Created(db, row) ==
    [v2 |-> Put(db.v2, db.next, row), maps |-> db.maps, next |-> db.next + 1]

Same(db, row) ==
    {i \in DOMAIN db.v2 : db.v2[i].table = row.table /\ db.v2[i].key = row.key}

\* get_or_create(...) followed by _ensure_map(...)
GotOrCreated(db, type, r, row) ==
    IF Same(db, row) # {}
    THEN Ensured(db, type, r, First(Same(db, row)))
    ELSE Ensured(Created(db, row), type, r, db.next)

Record(table, key, name, within, uses) ==
    [table |-> table, key |-> key, name |-> name, within |-> within, uses |-> uses]

----------------------------------------------------------------------------
(* Finding V2 rows again by their natural keys.                              *)

OfKind(k) == {r \in v1 : Kind[r] = k}

\* _build_cat_map
CatMap(db, c) ==
    First({i \in DOMAIN db.v2 :
             /\ Strip[Name[c]] # 0
             /\ db.v2[i].table = "ProductCategory" /\ db.v2[i].name = Strip[Name[c]]})

\* _build_product_map: by name and category.
ProductMap(db, p) ==
    IF p = None \/ CatMap(db, Ref[p]) = None THEN None
    ELSE First({i \in DOMAIN db.v2 :
                  /\ db.v2[i].table = "Product" /\ db.v2[i].name = Name[p]
                  /\ db.v2[i].uses = {CatMap(db, Ref[p])}})

\* _bom_part_product_map: the last BOM line of a part decides.
BomProduct(p) ==
    LET lines == {b \in OfKind("bom") : PartOf[b] = p}
    IN  IF lines = {} THEN None
        ELSE Ref[CHOOSE b \in lines : \A c \in lines : c <= b]

\* _build_part_map: base parts by product and f3.
PartMap(db, p) ==
    IF p = None \/ ProductMap(db, BomProduct(p)) = None \/ Kind[p] # "part" THEN None
    ELSE First({i \in DOMAIN db.v2 :
                  /\ db.v2[i].table = "ProductPart" /\ db.v2[i].name = Strip[Name[p]]
                  /\ db.v2[i].within = ProductMap(db, BomProduct(p))})

\* The process_map of migrate_painting.
ProcessMap(db, p) ==
    IF Migrated(db, "painting_process", p)
       /\ db.maps[<<"painting_process", p>>].new \in DOMAIN db.v2
    THEN db.maps[<<"painting_process", p>>].new ELSE None

----------------------------------------------------------------------------
(* What the mapper of each domain does with one V1 row.                      *)

Named(db, type, table, r) ==
    IF Strip[Name[r]] = 0 THEN Skipped(db, type, r)
    ELSE IF Migrated(db, type, r) THEN db
    ELSE GotOrCreated(db, type, r, Record(table, <<Strip[Name[r]], 0>>, Strip[Name[r]], None, {}))

CategoryStep(db, c) == Named(db, "product_category", "ProductCategory", c)
CustomerStep(db, c) == Named(db, "customer", "Customer", c)
WorkerStep(db, w) == Named(db, "worker", "Worker", w)
ProcessStep(db, p) == Named(db, "painting_process", "PaintingProcess", p)

ProductStep(db, p) ==
    LET cat == CatMap(db, Ref[p])
    IN  IF cat = None THEN Skipped(db, "product", p)
        ELSE IF Migrated(db, "product", p) THEN db
        ELSE GotOrCreated(db, "product", p, Record("Product", <<p, 0>>, Name[p], None, {cat}))

\* The raw materials that share the name of a material.
Candidates(m) == {r \in OfKind("raw") : Strip[Name[r]] = Strip[Name[m]]}

MaterialStep(db, m) ==
    IF Cardinality(Candidates(m)) > 1 THEN Skipped(db, "material", m)
    ELSE IF Migrated(db, "material", m) THEN db
    ELSE LET got  == GotOrCreated(db, "material", m, Record("Item", <<m, 0>>, Name[m], None, {}))
             item == got.maps[<<"material", m>>].new
         IN  IF Candidates(m) = {} THEN got
             ELSE Ensured(got, "raw_material", First(Candidates(m)), item)

\* A raw material that was merged in this run has a map, and is left alone.
RawStep(db, r) ==
    IF Migrated(db, "raw_material", r) THEN db
    ELSE GotOrCreated(db, "raw_material", r, Record("Item", <<r, 1>>, Name[r], None, {}))

\* Fault: parts are created again, whatever the map says.
PartStep_Again(db, p) ==
    LET product == ProductMap(db, BomProduct(p))
    IN  IF product = None THEN Skipped(db, "part", p)
        ELSE Ensured(Created(db, Record("ProductPart", <<p, 0>>, Name[p], product, {})),
                     "part", p, db.next)

PartStep(db, p) ==
    LET product == ProductMap(db, BomProduct(p))
    IN  IF product = None THEN Skipped(db, "part", p)
        ELSE IF Migrated(db, "part", p) THEN db
        ELSE Ensured(Created(db, Record("ProductPart", <<p, 0>>, Name[p], product, {})),
                     "part", p, db.next)

VariationStep(db, v) ==
    LET part    == PartMap(db, Ref[v])
        product == ProductMap(db, BomProduct(Ref[v]))
    IN  IF part = None \/ product = None THEN Skipped(db, "production_part", v)
        ELSE IF Migrated(db, "production_part", v) THEN db
        ELSE Ensured(Created(db, Record("ProductionPart", <<v, 0>>, Name[v], None, {part, product})),
                     "production_part", v, db.next)

\* The item of a BOM line, and the rule of its material.
LineStep(db, b, bom) ==
    LET part == PartMap(db, PartOf[b])
        got  == GotOrCreated(db, "bom_item", b, Record("BOMItem", <<bom, part>>, 0, bom, {part}))
        item == got.maps[<<"bom_item", b>>].new
        m    == MaterialOf[PartOf[b]]
    IN  IF part = None THEN Skipped(db, "bom_item", b)
        ELSE IF ~Migrated(got, "material", m) THEN got
        ELSE LET material == got.maps[<<"material", m>>].new
             IN  GotOrCreated(got, "bom_item_material_rule", b,
                              Record("Rule", <<item, material>>, 0, item, {material}))

\* Fault: the item of a line hangs below the first BOM of the table.
BomStep_FirstBom(db, b) ==
    LET product == ProductMap(db, Ref[b])
        got     == GotOrCreated(db, "bom", b, Record("BOM", <<product, 0>>, 0, product, {}))
    IN  IF product = None \/ b \in ColorMapped THEN Skipped(db, "bom", b)
        ELSE IF Migrated(db, "bom", b) THEN db
        ELSE LineStep(got, b, First({i \in DOMAIN got.v2 : got.v2[i].table = "BOM"}))

BomStep(db, b) ==
    LET product == ProductMap(db, Ref[b])
        got     == GotOrCreated(db, "bom", b, Record("BOM", <<product, 0>>, 0, product, {}))
    IN  IF product = None \/ b \in ColorMapped THEN Skipped(db, "bom", b)
        ELSE IF Migrated(db, "bom", b) THEN db
        ELSE LineStep(got, b, got.maps[<<"bom", b>>].new)

\* Fault: a stage of a process that was not migrated is passed over in silence.
StageStep_Forgets(db, s) ==
    LET process == ProcessMap(db, Ref[s])
    IN  IF process = None THEN db
        ELSE IF Migrated(db, "painting_stage", s) THEN db
        ELSE GotOrCreated(db, "painting_stage", s,
                          Record("PaintingProcessStage", <<process, Name[s]>>, Name[s], process, {}))

StageStep(db, s) ==
    LET process == ProcessMap(db, Ref[s])
    IN  IF process = None THEN Skipped(db, "painting_stage", s)
        ELSE IF Migrated(db, "painting_stage", s) THEN db
        ELSE GotOrCreated(db, "painting_stage", s,
                          Record("PaintingProcessStage", <<process, Name[s]>>, Name[s], process, {}))

Stepped(db, r) ==
    CASE Kind[r] = "category"  -> CategoryStep(db, r)
      [] Kind[r] = "product"   -> ProductStep(db, r)
      [] Kind[r] = "customer"  -> CustomerStep(db, r)
      [] Kind[r] = "worker"    -> WorkerStep(db, r)
      [] Kind[r] = "material"  -> MaterialStep(db, r)
      [] Kind[r] = "raw"       -> RawStep(db, r)
      [] Kind[r] = "part"      -> PartStep(db, r)
      [] Kind[r] = "variation" -> VariationStep(db, r)
      [] Kind[r] = "bom"       -> BomStep(db, r)
      [] Kind[r] = "process"   -> ProcessStep(db, r)
      [] Kind[r] = "stage"     -> StageStep(db, r)
      [] OTHER                 -> db

\* Rows that raise.  A V2 order takes the V1 customer for a V2 one, which
\* Django refuses, and so no order is ever migrated; get_or_create refuses to
\* choose between two customers of the office.
Raises(db, r) ==
    \/ Kind[r] = "order"
    \/ /\ Kind[r] = "customer" /\ ~Migrated(db, "customer", r)
       /\ Cardinality({i \in DOMAIN db.v2 :
                         db.v2[i].table = "Customer" /\ db.v2[i].name = Strip[Name[r]]}) > 1

\* The phases that raise before their first row: they use names (V1StockMovement,
\* V1PackagingUnit) that the module does not import.
Broken(phase) == phase \in {"inventory", "barcode"}

----------------------------------------------------------------------------
(* The command.                                                              *)

RowsOf(phase) ==
    CASE phase = "master-data" -> v1 \ OfKind("order")
      [] phase = "production"  -> OfKind("order")
      [] OTHER                 -> {}

\* handle --execute: the run is created, in a transaction of its own.
CreateRun(phase) ==
    \E r \in RunIds :
        /\ proc[r] = "none" /\ \A q \in RunIds : q < r => proc[q] # "none"
        /\ ~Open
        /\ runs' = Put(runs, r, [phase |-> phase, status |-> "pending"])
        /\ proc' = [proc EXCEPT ![r] = "start"]
        /\ UNCHANGED <<v1, tables, txn, settled, mixed>>

\* The runner opens its transaction and marks the run as running.
Begin(r) ==
    /\ ~Open /\ proc[r] = "start" /\ r \in DOMAIN runs
    /\ txn' = [run |-> r, todo |-> RowsOf(runs[r].phase), v2 |-> v2, maps |-> maps, next |-> next]
    /\ proc' = [proc EXCEPT ![r] = "open"]
    /\ UNCHANGED <<v1, tables, runs, settled, mixed>>

MigrateRow ==
    /\ Open /\ txn.todo # {} /\ ~Broken(runs[txn.run].phase)
    /\ ~Raises(Db, Least(txn.todo))
    /\ LET db == Stepped(Db, Least(txn.todo))
       IN  v2' = db.v2 /\ maps' = db.maps /\ next' = db.next
    /\ txn' = [txn EXCEPT !.todo = @ \ {Least(@)}]
    /\ UNCHANGED <<v1, runs, proc, settled, mixed>>

\* Foreign keys are checked when the transaction commits.
RefsExist == \A i \in DOMAIN v2 : v2[i].uses \subseteq DOMAIN v2

Commit ==
    /\ Open /\ txn.todo = {} /\ ~Broken(runs[txn.run].phase) /\ RefsExist
    /\ runs' = [runs EXCEPT ![txn.run].status = "running"]
    /\ proc' = [proc EXCEPT ![txn.run] = "committed"]
    /\ settled' = (settled \/ runs[txn.run].phase = "master-data")
    /\ txn' = NoTxn
    /\ UNCHANGED <<v1, tables, mixed>>

\* The transaction is rolled back, by an exception or with its process.
Undo == v2' = txn.v2 /\ maps' = txn.maps /\ next' = txn.next /\ txn' = NoTxn

Raise ==
    /\ Open
    /\ \/ Broken(runs[txn.run].phase)
       \/ txn.todo # {} /\ Raises(Db, Least(txn.todo))
       \/ txn.todo = {} /\ ~RefsExist
    /\ Undo
    /\ proc' = [proc EXCEPT ![txn.run] = "raised"]
    /\ UNCHANGED <<v1, runs, settled, mixed>>

\* The outcome is written outside the transaction.
Finish(r) ==
    /\ ~Open /\ r \in DOMAIN runs /\ proc[r] \in {"committed", "raised"}
    /\ runs' = [runs EXCEPT ![r].status =
                  IF proc[r] = "committed" THEN "completed" ELSE "failed"]
    /\ proc' = [proc EXCEPT ![r] = "ended"]
    /\ UNCHANGED <<v1, tables, txn, settled, mixed>>

\* The process of a run is killed.
Crash(r) ==
    /\ proc[r] \in {"start", "open", "committed", "raised"}
    /\ IF proc[r] = "open" THEN Undo ELSE UNCHANGED <<tables, txn>>
    /\ proc' = [proc EXCEPT ![r] = "ended"]
    /\ UNCHANGED <<v1, runs, settled, mixed>>

----------------------------------------------------------------------------
(* --rollback.                                                               *)

\* The order in which _rollback goes through the types; those it mentions and
\* nothing creates are left out.
DeleteOrder ==
    <<{"bom_item_material_rule"}, {"bom_item"}, {"production_part"}, {"part"}, {"bom"},
      {"product"}, {"product_category"}, {"painting_stage"}, {"painting_process"},
      {"material", "raw_material"}, {"worker"}, {"customer"}>>

OwnMaps(r) == {k \in DOMAIN maps : maps[k].run = r}
NamedBy(r, types) ==
    {maps[k].new : k \in {k \in OwnMaps(r) : k[1] \in types}} \cap DOMAIN v2

\* Deleting a row deletes what is within it (CASCADE), three levels deep at most.
Inside(S) == S \cup {i \in DOMAIN v2 : v2[i].within \in S}
Cascade(S) == Inside(Inside(Inside(S)))

DeletedBy(r, k) == Cascade(NamedBy(r, UNION {DeleteOrder[i] : i \in 1..k}))

\* PROTECT: no row that is still there may use one that goes.
Protected(r) ==
    \E k \in DOMAIN DeleteOrder : \E i \in DOMAIN v2 \ DeletedBy(r, k - 1) :
        v2[i].uses \cap Cascade(NamedBy(r, DeleteOrder[k])) # {}

Without(f, S) == [x \in DOMAIN f \ S |-> f[x]]

RollBack(r) ==
    /\ ~Open /\ r \in DOMAIN runs /\ ~Protected(r)
    /\ v2' = Without(v2, DeletedBy(r, Len(DeleteOrder)))
    /\ maps' = Without(maps, OwnMaps(r))
    /\ runs' = Without(runs, {r})
    /\ settled' = FALSE
    /\ mixed' = (mixed \/ \E k \in DOMAIN maps : maps[k].run # r)
    /\ UNCHANGED <<v1, next, proc, txn>>

----------------------------------------------------------------------------
(* V1 and V2 in daily use.                                                   *)

AddRow(r) ==
    /\ ~Open /\ {Ref[r], PartOf[r], MaterialOf[r]} \subseteq v1 \cup {None}
    /\ \A q \in v1 : Kind[q] = Kind[r] => q < r
    /\ v1' = v1 \cup {r}
    /\ settled' = FALSE
    /\ UNCHANGED <<tables, runs, proc, txn, mixed>>

OfficeAddsCustomer(n) ==
    LET row == Record("Customer", <<n, 0>>, n, None, {})
    IN  /\ ~Open /\ Cardinality(Same(Db, row)) < MaxSame
        /\ v2' = Created(Db, row).v2 /\ next' = next + 1
        /\ settled' = FALSE
        /\ UNCHANGED <<v1, maps, runs, proc, txn, mixed>>

Init ==
    /\ v1 = Early /\ v2 = <<>> /\ maps = <<>> /\ next = 1 /\ runs = <<>>
    /\ proc = [r \in RunIds |-> "none"] /\ txn = NoTxn
    /\ settled = FALSE /\ mixed = FALSE

Next ==
    \/ \E phase \in Phases : CreateRun(phase)
    \/ \E r \in RunIds : Begin(r) \/ Finish(r) \/ Crash(r) \/ RollBack(r)
    \/ MigrateRow \/ Commit \/ Raise
    \/ \E r \in Rows \ v1 : AddRow(r)
    \/ \E n \in OfficeNames : OfficeAddsCustomer(n)

Spec == Init /\ [][Next]_vars

----------------------------------------------------------------------------
(* Properties.                                                               *)

\* Every table has rows of its type.
TypeOK ==
    /\ v1 \subseteq Rows /\ next \in Nat
    /\ DOMAIN v2 \subseteq 1..(next - 1) /\ \A i \in DOMAIN v2 : v2[i] \in V2Row
    /\ DOMAIN maps \subseteq Types \X Rows /\ \A k \in DOMAIN maps : maps[k] \in MapRow
    /\ DOMAIN runs \subseteq RunIds /\ \A r \in DOMAIN runs : runs[r] \in RunRow
    /\ proc \in [RunIds -> {"none", "start", "open", "committed", "raised", "ended"}]
    /\ txn.run \in RunIds \cup {None} /\ txn.todo \subseteq Rows
    /\ settled \in BOOLEAN /\ mixed \in BOOLEAN

\* A map that names a V2 row names one that exists, whatever runs were killed,
\* raised or were rolled back, as long as no run is rolled back while maps of
\* another one are there.
MapsResolve ==
    ~mixed => \A k \in DOMAIN maps : maps[k].new \in DOMAIN v2 \cup {None}

\* A run that raised or was killed leaves no map and no V2 row behind: every map
\* belongs to a run that is there and that committed, or is still at work.
FailedRunsLeaveNothing ==
    \A k \in DOMAIN maps :
        /\ maps[k].run \in DOMAIN runs
        /\ txn.run = maps[k].run \/ runs[maps[k].run].status \in {"running", "completed"}

TypeOf(kind) ==
    CASE kind = "category" -> "product_category" [] kind = "raw" -> "raw_material"
      [] kind = "variation" -> "production_part" [] kind = "process" -> "painting_process"
      [] kind = "stage" -> "painting_stage" [] OTHER -> kind

\* "Every migrated record gets a MigrationMap row": when a master-data run
\* commits, every V1 row is accounted for, and every BOM line twice.
EveryRowAccounted ==
    [][Commit /\ runs[txn.run].phase = "master-data" =>
         \A r \in v1 \ OfKind("order") :
            /\ <<TypeOf(Kind[r]), r>> \in DOMAIN maps
            /\ Kind[r] = "bom" /\ Migrated(Db, "bom", r) => <<"bom_item", r>> \in DOMAIN maps
      ]_vars

\* "Re-run is idempotent": a run over what the last master-data run left creates
\* nothing, maps nothing anew and takes no map over.
ReRunChangesNothing ==
    [][settled /\ MigrateRow => UNCHANGED <<v2, maps>>]_vars

\* V1 rows whose V2 counterparts can be found by their natural keys: a product
\* with a name of its own in its category, and a part with an f3 of its own and
\* without blanks, used in BOM lines of that one product.
Clear(p) ==
    /\ {b \in OfKind("bom") : PartOf[b] = p} # {}
    /\ \A b \in OfKind("bom") : PartOf[b] = p => Ref[b] = BomProduct(p)
    /\ \A q \in OfKind("product") \ {BomProduct(p)} :
          ~ (Name[q] = Name[BomProduct(p)] /\ Strip[Name[Ref[q]]] = Strip[Name[Ref[BomProduct(p)]]])
    /\ Strip[Name[p]] = Name[p]
    /\ \A b \in OfKind("bom") :
          PartOf[b] # p /\ Strip[Name[PartOf[b]]] = Name[p] => Ref[b] # BomProduct(p)

New(type, r) == IF <<type, r>> \in DOMAIN maps THEN maps[<<type, r>>].new ELSE None

\* A part that can be found again is below the V2 product of its V1 product, its
\* variations are variations of it, and its BOM lines are lines of that
\* product's BOM.
ClearPartsAreExact ==
    ~mixed => \A p \in OfKind("part") : Clear(p) =>
        /\ New("part", p) # None =>
              v2[New("part", p)].within = New("product", BomProduct(p))
        /\ \A v \in OfKind("variation") : Ref[v] = p /\ New("production_part", v) # None =>
              v2[New("production_part", v)].uses
                = {New("part", p), New("product", BomProduct(p))}
        /\ \A b \in OfKind("bom") : PartOf[b] = p /\ New("bom_item", b) # None =>
              /\ v2[New("bom_item", b)].uses = {New("part", p)}
              /\ v2[New("bom_item", b)].within = New("bom", b)
              /\ v2[New("bom", b)].within = New("product", Ref[b])

\* What the office may rely on whatever runs were killed, raised or rolled back:
\* maps resolve, failed runs left nothing, and parts are where they belong.
MapsAreSound == TypeOK /\ MapsResolve /\ FailedRunsLeaveNothing /\ ClearPartsAreExact
=============================================================================
