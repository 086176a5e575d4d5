----------------------------- MODULE Purchases -----------------------------
(***************************************************************************)
(* V1 raw materials and purchasing (src/inventory/views.py, models.py and   *)
(* forms.py): suppliers, categories, materials, stock movements, purchase   *)
(* orders and their items, as the office enters them and the shop floor     *)
(* draws on them.                                                           *)
(*                                                                         *)
(* A view that takes a form is two steps: it loads the row and validates    *)
(* the form, then saves the whole row.  Nothing holds the two together; a   *)
(* row that was deleted in between is inserted again, and what the database *)
(* refuses (a reference to nothing, a second row of one name) ends the      *)
(* request without a change.  Deletions and the receipt of an order are     *)
(* transactions.  Prices, units, notes and phone numbers are left out.      *)
(***************************************************************************)
EXTENDS Integers, Sequences, FiniteSets, FiniteSetsExt

CONSTANTS Requests,     \* requests that may hold a validated form at a time
          Names,        \* names of categories and of materials
          Alerts,       \* minimum stocks a material form can say
          Quantities,   \* quantities the forms can say
          Drawn,        \* quantities a production task draws
          MaxRows,      \* bound: table -> rows ever created
          MaxForms,     \* bound: forms sent in and tasks that draw material
          None          \* a null reference; a deleted row

ASSUME QuantityAssumption == Quantities \subseteq Int /\ Drawn \subseteq Nat /\ Alerts \subseteq Nat
ASSUME BoundAssumption == MaxForms \in Nat

VARIABLES db,     \* table -> sequence by primary key of rows, None where deleted
          desk,   \* request -> the form it has validated, or None
          forms,  \* counts what MaxForms bounds
          past    \* what happened, for the properties only

vars == <<db, desk, forms, past>>

Tables == {"suppliers", "categories", "materials", "movements", "orders", "items"}
Rows(t) == {k \in DOMAIN db[t] : db[t][k] # None}
Sum(S, f(_)) == FoldSet(LAMBDA k, sum : f(k) + sum, 0, S)

(* The rows.  Of a movement "item" is the purchase item it was made for.    *)
SupplierRow == [is_active : BOOLEAN]
CategoryRow == [name : Names]
MaterialRow == [category : Nat, name : Names, min_stock_alert : Alerts, is_active : BOOLEAN]
MovementRow == [raw_material : Nat, movement_type : {"purchase", "consumption", "adjustment", "return"},
                quantity : Int, supplier : Nat \cup {None}, item : Nat \cup {None}]
OrderRow == [supplier : Nat, status : {"draft", "ordered", "received"}]
ItemRow == [purchase_order : Nat, raw_material : Nat, quantity : Int, received_quantity : Int]
RowTypes == [suppliers |-> SupplierRow, categories |-> CategoryRow, materials |-> MaterialRow,
             movements |-> MovementRow, orders |-> OrderRow, items |-> ItemRow]

ASSUME NoneAssumption ==
  None \notin Nat /\ None \notin Requests /\ \A t \in Tables : None \notin RowTypes[t]

Movement(m, type, q, s, i) ==
  [raw_material |-> m, movement_type |-> type, quantity |-> q, supplier |-> s, item |-> i]

(* What a material's movements come to: consumption counts against it.      *)
Signed(k) == LET row == db.movements[k]
             IN IF row.movement_type = "consumption" THEN -row.quantity ELSE row.quantity
MovementsOf(m) == {k \in Rows("movements") : db.movements[k].raw_material = m}
CurrentStock(m) == Sum(MovementsOf(m), Signed)

(***************************************************************************)
(* Constraints of the database: foreign keys and unique columns.            *)
(***************************************************************************)
Refers(table, row) ==
  CASE table = "materials" -> row.category \in Rows("categories")
    [] table = "movements" -> /\ row.raw_material \in Rows("materials")
                              /\ row.supplier \in Rows("suppliers") \cup {None}
    [] table = "orders" -> row.supplier \in Rows("suppliers")
    [] table = "items" -> row.purchase_order \in Rows("orders") /\ row.raw_material \in Rows("materials")
    [] OTHER -> TRUE

Unique(table, id, row) ==
  \A k \in Rows(table) \ {id} :
    CASE table = "categories" -> db.categories[k].name # row.name
      [] table = "materials" -> \/ db.materials[k].category # row.category
                                \/ db.materials[k].name # row.name
      [] OTHER -> TRUE

Put(rows, id, row) == IF id = None THEN Append(rows, row) ELSE [rows EXCEPT ![id] = row]

(***************************************************************************)
(* A request: a valid form is put on the desk and saved later.              *)
(***************************************************************************)
Counted == forms < MaxForms /\ forms' = forms + 1
Validated(r, table, id, row) ==
  /\ Counted /\ desk[r] = None
  /\ id = None => Len(db[table]) < MaxRows[table]
  /\ id # None => id \in Rows(table)
  /\ Refers(table, row) /\ Unique(table, id, row)
  /\ desk' = [desk EXCEPT ![r] = [table |-> table, id |-> id, row |-> row, overtaken |-> FALSE]]
  /\ UNCHANGED <<db, past>>

SupplierCreate(r, row) == Validated(r, "suppliers", None, row)
SupplierEdit(r, id, row) == Validated(r, "suppliers", id, row)
CategoryCreate(r, row) == Validated(r, "categories", None, row)
CategoryEdit(r, id, row) == Validated(r, "categories", id, row)
RawMaterialCreate(r, row) == Validated(r, "materials", None, row)
RawMaterialEdit(r, id, row) == Validated(r, "materials", id, row)
PurchaseOrderCreate(r, row) == Validated(r, "orders", None, row)
PurchaseOrderEdit(r, id, row) == Validated(r, "orders", id, row)

(* In any status of the order; a new item has received nothing.             *)
ItemAdd(r, o, m, q) ==
  Validated(r, "items", None, [purchase_order |-> o, raw_material |-> m, quantity |-> q, received_quantity |-> 0])

MovementClean_Unsigned(row) ==
  /\ row.quantity > 0
  /\ row.movement_type = "purchase" => row.supplier # None
  /\ row.movement_type = "consumption" =>
       Sum(MovementsOf(row.raw_material), LAMBDA k : db.movements[k].quantity) >= row.quantity

MovementClean(row) ==
  /\ row.quantity > 0
  /\ row.movement_type = "purchase" => row.supplier # None
  /\ row.movement_type = "consumption" => CurrentStock(row.raw_material) >= row.quantity

StockMovementCreate(r, row) == MovementClean(row) /\ Validated(r, "movements", None, row)

(***************************************************************************)
(* past: orders a form made received (byHand), items added to a received    *)
(* order (late), materials a task drew (drawn), and materials of which a    *)
(* request took stock that another had taken since its check (raced).       *)
(***************************************************************************)
Recorded(d) ==
  LET id == IF d.id = None THEN Len(db[d.table]) + 1 ELSE d.id
      is(s) == d.row.status = s
      before == IF id \in Rows("orders") THEN db.orders[id].status ELSE "none"
  IN CASE d.table = "orders" ->
            [past EXCEPT !.byHand = IF ~is("received") THEN @ \ {id}
                                    ELSE IF before = "received" THEN @ ELSE @ \cup {id}]
       [] d.table = "items" ->
            [past EXCEPT !.late = IF db.orders[d.row.purchase_order].status = "received"
                                  THEN @ \cup {id} ELSE @]
       [] d.table = "movements" ->
            [past EXCEPT !.raced = IF d.overtaken THEN @ \cup {d.row.raw_material} ELSE @]
       [] OTHER -> past

(* Every other checked consumption of a material that is being drawn.       *)
Overtaken(r, m) == [q \in Requests |->
  IF q # r /\ desk[q] # None /\ desk[q].table = "movements" /\ desk[q].row.raw_material = m
     /\ desk[q].row.movement_type = "consumption"
  THEN [desk[q] EXCEPT !.overtaken = TRUE] ELSE desk[q]]
Takes(d) == d.table = "movements" /\ d.row.movement_type = "consumption"

(* The save: an UPDATE of every column, or an INSERT where no row is left.  *)
Save(r) ==
  LET d == desk[r]
      left == IF Takes(d) THEN Overtaken(r, d.row.raw_material) ELSE desk
  IN /\ d # None
     /\ d.id = None => Len(db[d.table]) < MaxRows[d.table]
     /\ IF Refers(d.table, d.row) /\ Unique(d.table, d.id, d.row)
        THEN /\ db' = [db EXCEPT ![d.table] = Put(@, d.id, d.row)]
             /\ past' = Recorded(d) /\ desk' = [left EXCEPT ![r] = None]
        ELSE desk' = [desk EXCEPT ![r] = None] /\ UNCHANGED <<db, past>>
     /\ UNCHANGED forms

(***************************************************************************)
(* Deletions: PROTECT refuses, CASCADE takes along, SET_NULL lets go.       *)
(***************************************************************************)
Without(table, gone) == [k \in DOMAIN db[table] |-> IF k \in gone THEN None ELSE db[table][k]]

SupplierDelete(id) ==
  /\ id \in Rows("suppliers") /\ \A o \in Rows("orders") : db.orders[o].supplier # id
  /\ db' = [db EXCEPT !.suppliers[id] = None,
                      !.movements = [k \in DOMAIN @ |->
                         IF @[k].supplier = id THEN [@[k] EXCEPT !.supplier = None] ELSE @[k]]]
  /\ UNCHANGED <<desk, forms, past>>

CategoryDelete(id) ==
  /\ id \in Rows("categories") /\ \A m \in Rows("materials") : db.materials[m].category # id
  /\ db' = [db EXCEPT !.categories[id] = None]
  /\ UNCHANGED <<desk, forms, past>>

RawMaterialDelete(id) ==
  /\ id \in Rows("materials") /\ MovementsOf(id) = {}
  /\ \A i \in Rows("items") : db.items[i].raw_material # id
  /\ db' = [db EXCEPT !.materials[id] = None]
  /\ UNCHANGED <<desk, forms, past>>

(* In any status; the movements of what was received stay.                  *)
PurchaseOrderDelete(o) ==
  /\ o \in Rows("orders")
  /\ db' = [db EXCEPT !.orders[o] = None,
                      !.items = Without("items", {i \in Rows("items") : db.items[i].purchase_order = o})]
  /\ UNCHANGED <<desk, forms, past>>

ItemDelete(i) == /\ i \in Rows("items")
                 /\ db' = [db EXCEPT !.items[i] = None]
                 /\ UNCHANGED <<desk, forms, past>>

(***************************************************************************)
(* The receipt books what is still open of every item of the order.         *)
(***************************************************************************)
Open(o) == {i \in Rows("items") : /\ db.items[i].purchase_order = o
                                  /\ db.items[i].quantity > db.items[i].received_quantity}
Line(o, i) == Movement(db.items[i].raw_material, "purchase",
                       db.items[i].quantity - db.items[i].received_quantity,
                       db.orders[o].supplier, i)
(* The items by their keys: the one that k of them do not exceed.           *)
Nth(S, k) == CHOOSE i \in S : Cardinality({j \in S : j <= i}) = k
Entered(o) == [k \in 1..Cardinality(Open(o)) |-> Line(o, Nth(Open(o), k))]
BookedItems_Unmarked(o) == db.items
BookedItems(o) == [i \in DOMAIN db.items |->
  IF i \in Open(o) THEN [db.items[i] EXCEPT !.received_quantity = db.items[i].quantity] ELSE db.items[i]]

PurchaseOrderReceive(o) ==
  /\ o \in Rows("orders") /\ db.orders[o].status # "received"
  /\ Len(db.movements) + Cardinality(Open(o)) <= MaxRows["movements"]
  /\ db' = [db EXCEPT !.movements = @ \o Entered(o), !.items = BookedItems(o),
                      !.orders[o].status = "received"]
  /\ past' = [past EXCEPT !.byHand = @ \ {o},
                          !.late = @ \ {i \in Rows("items") : db.items[i].purchase_order = o}]
  /\ UNCHANGED <<desk, forms>>

(* A finished task draws its material and asks nobody.                      *)
ConsumeMaterialForTask(m, q) ==
  /\ Counted /\ m \in Rows("materials") /\ q > 0 /\ Len(db.movements) < MaxRows["movements"]
  /\ db' = [db EXCEPT !.movements = Append(@, Movement(m, "consumption", q, None, None))]
  /\ past' = [past EXCEPT !.drawn = @ \cup {m}]
  /\ desk' = Overtaken(None, m)

(***************************************************************************)
(* One supplier, category and material to begin with.                       *)
(***************************************************************************)
Init ==
  /\ \E n \in Names, a \in Alerts :
       db = [suppliers |-> <<[is_active |-> TRUE]>>, categories |-> <<[name |-> n]>>,
             materials |-> <<[category |-> 1, name |-> n, min_stock_alert |-> a, is_active |-> TRUE]>>,
             movements |-> <<>>, orders |-> <<>>, items |-> <<>>]
  /\ desk = [r \in Requests |-> None] /\ forms = 0
  /\ past = [byHand |-> {}, late |-> {}, drawn |-> {}, raced |-> {}]

OfficeSends(r) ==
  \/ \E row \in SupplierRow : \/ SupplierCreate(r, row)
                              \/ \E id \in Rows("suppliers") : SupplierEdit(r, id, row)
  \/ \E row \in CategoryRow : \/ CategoryCreate(r, row)
                              \/ \E id \in Rows("categories") : CategoryEdit(r, id, row)
  \/ \E c \in Rows("categories"), n \in Names, a \in Alerts, active \in BOOLEAN :
       LET row == [category |-> c, name |-> n, min_stock_alert |-> a, is_active |-> active]
       IN RawMaterialCreate(r, row) \/ \E id \in Rows("materials") : RawMaterialEdit(r, id, row)
  \/ \E s \in Rows("suppliers"), status \in {"draft", "ordered", "received"} :
       LET row == [supplier |-> s, status |-> status]
       IN PurchaseOrderCreate(r, row) \/ \E o \in Rows("orders") : PurchaseOrderEdit(r, o, row)
  \/ \E o \in Rows("orders"), m \in Rows("materials"), q \in Quantities : ItemAdd(r, o, m, q)
  \/ \E m \in Rows("materials"), q \in Quantities, s \in Rows("suppliers") \cup {None},
        type \in {"purchase", "consumption", "adjustment", "return"} :
       StockMovementCreate(r, Movement(m, type, q, s, None))

Next == \/ \E r \in Requests : OfficeSends(r) \/ Save(r)
        \/ \E id \in Rows("suppliers") : SupplierDelete(id)
        \/ \E id \in Rows("categories") : CategoryDelete(id)
        \/ \E id \in Rows("materials") : RawMaterialDelete(id)
        \/ \E o \in Rows("orders") : PurchaseOrderDelete(o) \/ PurchaseOrderReceive(o)
        \/ \E i \in Rows("items") : ItemDelete(i)
        \/ \E m \in Rows("materials"), q \in Drawn : ConsumeMaterialForTask(m, q)

Spec == Init /\ [][Next]_vars

(***************************************************************************)
(* Properties.                                                              *)
(***************************************************************************)

\* Rows have the types of their models and refer to rows that exist,
\* whatever is deleted, and inserted again, around them.
TypeOK ==
  /\ DOMAIN db = Tables
  /\ \A t \in Tables : \A k \in Rows(t) : db[t][k] \in RowTypes[t] /\ Refers(t, db[t][k])
  /\ \A r \in Requests : desk[r] = None \/ desk[r].table \in Tables
  /\ forms \in 0..MaxForms

\* Goods enter the stock once: however often an order is received, reopened
\* by a form, deleted or inserted again, an item has received nothing and
\* nothing was booked for it, or all that was ordered, in one movement.
BookedFor(i) == {k \in Rows("movements") : db.movements[k].item = i}
ReceivedOnce ==
  \A i \in Rows("items") :
    \/ db.items[i].received_quantity = 0 /\ BookedFor(i) = {}
    \/ /\ db.items[i].received_quantity = db.items[i].quantity
       /\ \E k \in BookedFor(i) : /\ BookedFor(i) = {k}
                                 /\ db.movements[k].quantity = db.items[i].quantity

\* A received order has its goods in the stock, unless a form made it
\* received or the item was added later.
ReceivedIsInStock ==
  \A i \in Rows("items") :
    LET o == db.items[i].purchase_order
    IN (/\ db.orders[o].status = "received" /\ o \notin past.byHand
        /\ i \notin past.late /\ db.items[i].quantity > 0)
       => db.items[i].received_quantity = db.items[i].quantity

\* What purchase_order_receive promises: the goods of an order are booked
\* once, and all of them.
ReceiptsAreBooked == ReceivedOnce /\ ReceivedIsInStock

\* The books of the office: rows that exist and refer to rows that exist, and
\* goods booked once, whatever late saves insert again.
BooksAreSound == TypeOK /\ ReceiptsAreBooked

\* Stock is negative only where a task drew it without asking, or where two
\* requests were let through by the same stock.
OverdrawnForAReason ==
  \A m \in Rows("materials") : CurrentStock(m) < 0 => m \in past.drawn \cup past.raced
============================================================================
