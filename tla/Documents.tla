------------------------------ MODULE Documents ------------------------------
(***************************************************************************)
(* The documents of the V2 office: customer orders, production orders,       *)
(* inspections, packages, shipments and material issues, as the V2 API and   *)
(* its services create them.                                                *)
(*                                                                         *)
(* A view is one transaction that calls several services; here it is a list  *)
(* of calls, done one at a time.  A call that the code or a constraint of    *)
(* the database refuses raises, and the transaction is rolled back; a killed  *)
(* process rolls it back too.  SQLite has one writer at a time, so another    *)
(* request waits until it has ended.                                         *)
(*                                                                         *)
(* Ids and numbers are naturals, and a table is a sequence: no view of V2     *)
(* deletes a document.  Amounts and descriptions are left out.              *)
(***************************************************************************)
EXTENDS Naturals, Sequences

CONSTANTS
    Products,      \* V2 products, with a BOM
    Rules,         \* product -> the material rules of its first BOM
    Operations,    \* product -> the operations of its first routing
    Routed,        \* the products that have a routing
    OrderNumbers,  \* numbers a caller gives to an order; 0 is none
    ShipNumbers,   \* numbers a caller gives to a shipment; 0 is none, and k is
                   \* the one that is generated as the k-th
    Keys,          \* idempotency keys of issues; 0 is an empty one
    MaxItems,      \* bound: items, defects or lines of one request
    MaxRequests,   \* bound: requests
    Days           \* bound: days

ASSUME DocumentsAssumption ==
    /\ Products \subseteq Nat
    /\ Rules \in [Products -> Nat] /\ Operations \in [Products -> Nat]
    /\ Routed \subseteq Products
    /\ OrderNumbers \subseteq Nat /\ ShipNumbers \subseteq Nat /\ Keys \subseteq Nat
    /\ MaxItems \in Nat /\ MaxRequests \in Nat /\ Days \in Nat \ {0}

VARIABLES
    db,        \* the tables, as the open transaction sees them
    txn,       \* the open transaction: its view, the calls to come, and the
               \* tables as they were before
    requests,  \* requests so far
    day,       \* today, which numbers of inspections start with
    flows      \* history: the orders of the workflows that were answered

vars == <<db, txn, requests, day, flows>>

\* MaterialRequirement rows of an item, and QualityDefect rows, counted.
Requirements == Nat
Defects == Nat

OrderRow == [number: Nat]
ItemRow == [order: Nat, product: Products, needs: Requirements]
ProductionRow == [order: Nat, number: Nat]
PlannedItemRow == [po: Nat, item: Nat, rules: Nat, operations: Nat, done: Nat]
InspectionRow == [po: Nat, day: Nat, number: Nat, defects: Defects]
PackageRow == [item: Nat, number: Nat, status: {"packed", "shipped"}]
ShipmentRow == [order: Nat, number: Nat, given: BOOLEAN,
                status: {"ready", "in_transit", "delivered"}]
IssueRow == [number: Nat, key: Nat]
ReworkRow == [inspection: Nat, day: Nat, number: Nat,
              status: {"draft", "in_progress", "completed"}]
EventNames == {"order", "production order", "inspection", "defects of", "package",
               "shipment", "issue", "rework"}
EventRow == EventNames \X Nat

Tables == [orders: Seq(OrderRow), items: Seq(ItemRow), pos: Seq(ProductionRow),
           poItems: Seq(PlannedItemRow), inspections: Seq(InspectionRow),
           packages: Seq(PackageRow), shipments: Seq(ShipmentRow),
           issues: Seq(IssueRow), reworks: Seq(ReworkRow), events: SUBSET EventRow]

Views == {"order", "production", "issue", "inspection", "shipment", "workflow"}
Calls == {"create_order", "add_item", "create_production_order",
          "add_production_order_item", "create_operations", "create_requirements",
          "run_operations", "create_inspection", "add_defect", "create_package",
          "create_shipment", "issue_material", "add_issue_item",
          "log_order", "log_production"}

\* A call of a service: the document it is for (0: the last one made), and what
\* else it is given.
Step == [call: Calls, of: Nat, arg: Nat]
Do(call, of, arg) == [call |-> call, of |-> of, arg |-> arg]

NoTxn == [view |-> "none", todo |-> <<>>]
Open == txn.view # "none"

----------------------------------------------------------------------------
(* Numbers.                                                                  *)

\* The document a call is for.
Target(table, id) == IF id = 0 THEN Len(table) ELSE id

\* objects.count() + 1
NextNumber(table) == Len(table) + 1

\* Fault: the number is counted among the inspections of the production order.
NextInspection_OfOrder(d, po) ==
    1 + Len(SelectSeq(d.inspections, LAMBDA i : i.po = po))

\* _generate_inspection_number: one more than the last one of today.  (po, which
\* has no say, is the production order that is inspected.)
NextInspection(d, po) ==
    LET today == {d.inspections[i].number :
                    i \in {i \in DOMAIN d.inspections : d.inspections[i].day = day}}
    IN  IF today = {} THEN 1 ELSE 1 + CHOOSE n \in today : \A m \in today : m <= n

\* _generate_rework_number.
NextRework(d) ==
    LET today == {d.reworks[i].number : i \in {i \in DOMAIN d.reworks : d.reworks[i].day = day}}
    IN  IF today = {} THEN 1 ELSE 1 + CHOOSE n \in today : \A m \in today : m <= n

Taken(table, n) == \E i \in DOMAIN table : table[i].number = n

\* EventService.log_event, QualityService._log_event
Logged(d, name, id) == [d EXCEPT !.events = @ \cup {<<name, id>>}]

----------------------------------------------------------------------------
(* The services.                                                             *)

\* OrderService.create_order
CreateOrder(d, number) == [d EXCEPT !.orders = Append(@, [number |-> number])]

\* OrderService.add_item
AddItem(d, product) ==
    [d EXCEPT !.items = Append(@, [order |-> Len(d.orders), product |-> product, needs |-> 0])]

\* ProductionService.create_production_order: PO-<order>-<count + 1>
CreateProductionOrder(d, order) ==
    [d EXCEPT !.pos = Append(@, [order |-> order, number |-> NextNumber(@)])]

\* ProductionService.add_production_order_item, with a snapshot of the BOM
AddProductionOrderItem(d, item, product) ==
    [d EXCEPT !.poItems = Append(@, [po |-> Len(d.pos), item |-> item,
        rules |-> Rules[product], operations |-> 0, done |-> 0])]

\* ProductionService.create_operations_for_order_item
CreateOperations(d, product) ==
    [d EXCEPT !.poItems[Len(d.poItems)].operations = Operations[product]]

\* WarehouseService.create_material_requirement, for every rule of the BOM
CreateRequirements(d, product) ==
    [d EXCEPT !.items[Len(d.items)].needs = Rules[product]]

\* start_operation and complete_operation, for every operation of the item
RunOperations(d) ==
    [d EXCEPT !.poItems[Len(d.poItems)].done = d.poItems[Len(d.poItems)].operations]

\* QualityService.create_inspection
CreateInspection(d, po) ==
    Logged([d EXCEPT !.inspections =
              Append(@, [po |-> po, day |-> day, number |-> NextInspection(d, po), defects |-> 0])],
           "inspection", Len(d.inspections) + 1)

\* QualityService.add_defect
AddDefect(d) ==
    Logged([d EXCEPT !.inspections[Len(d.inspections)].defects = @ + 1],
           "defects of", Len(d.inspections))

\* PackagingService.create_package
CreatePackage(d, item) ==
    Logged([d EXCEPT !.packages =
              Append(@, [item |-> item, number |-> NextNumber(@), status |-> "packed"])],
           "package", Len(d.packages) + 1)

\* ShippingService.create_shipment
CreateShipment(d, order, number) ==
    Logged([d EXCEPT !.shipments =
              Append(@, [order |-> order, given |-> number # 0, status |-> "ready",
                         number |-> IF number # 0 THEN number ELSE NextNumber(@)])],
           "shipment", Len(d.shipments) + 1)

\* WarehouseService.issue_material, up to its lines
IssueMaterial(d, key) ==
    Logged([d EXCEPT !.issues = Append(@, [number |-> NextNumber(@), key |-> key])],
           "issue", Len(d.issues) + 1)

Done(d, s) ==
    LET order == Target(d.orders, s.of)
        po    == Target(d.pos, s.of)
        item  == Target(d.items, s.of)
    IN  CASE s.call = "create_order"              -> CreateOrder(d, s.arg)
          [] s.call = "add_item"                  -> AddItem(d, s.arg)
          [] s.call = "create_production_order"   -> CreateProductionOrder(d, order)
          [] s.call = "add_production_order_item" -> AddProductionOrderItem(d, item, s.arg)
          [] s.call = "create_operations"         -> CreateOperations(d, s.arg)
          [] s.call = "create_requirements"       -> CreateRequirements(d, s.arg)
          [] s.call = "run_operations"            -> RunOperations(d)
          [] s.call = "create_inspection"         -> CreateInspection(d, po)
          [] s.call = "add_defect"                -> AddDefect(d)
          [] s.call = "create_package"            -> CreatePackage(d, item)
          [] s.call = "create_shipment"           -> CreateShipment(d, order, s.arg)
          [] s.call = "issue_material"            -> IssueMaterial(d, s.arg)
          [] s.call = "log_order"                 -> Logged(d, "order", Len(d.orders))
          [] s.call = "log_production"            -> Logged(d, "production order", Len(d.pos))

\* What raises: a number that is taken, a key that is, an item without routing,
\* and any line of an issue, whose item comes as an id where issue_material
\* wants the object.
Raises(d, s) ==
    \/ s.call = "create_order" /\ Taken(d.orders, s.arg)
    \/ /\ s.call = "create_production_order"
       /\ \E i \in DOMAIN d.pos : /\ d.pos[i].order = Target(d.orders, s.of)
                                  /\ d.pos[i].number = NextNumber(d.pos)
    \/ s.call = "add_production_order_item" /\ s.arg \notin Routed
    \/ /\ s.call = "create_inspection"
       /\ \E i \in DOMAIN d.inspections :
             /\ d.inspections[i].day = day
             /\ d.inspections[i].number = NextInspection(d, Target(d.pos, s.of))
    \/ /\ s.call = "create_shipment"
       /\ Taken(d.shipments, IF s.arg # 0 THEN s.arg ELSE NextNumber(d.shipments))
    \/ /\ s.call = "issue_material"
       /\ \/ Taken(d.issues, NextNumber(d.issues))
          \/ \E i \in DOMAIN d.issues : d.issues[i].key = s.arg
    \/ s.call = "add_issue_item"

----------------------------------------------------------------------------
(* The views.                                                                *)

Times(k, s) == [i \in 1..k |-> s]

\* CustomerOrderListCreateView.post
OrderSteps(number, product, k) ==
    <<Do("create_order", 0, number)>> \o Times(k, Do("add_item", 0, product))
        \o <<Do("log_order", 0, 0)>>

\* ProductionOrderCreateView.post: the item may be one of another order.
ProductionSteps(order, item, product) ==
    <<Do("create_production_order", order, 0),
      Do("add_production_order_item", item, product),
      Do("create_operations", 0, product),
      Do("log_production", 0, 0)>>

\* MaterialIssueView.post
IssueSteps(key, k) == <<Do("issue_material", 0, key)>> \o Times(k, Do("add_issue_item", 0, 0))

\* QualityInspectionCreateView.post
InspectionSteps(po, k) ==
    <<Do("create_inspection", po, 0)>> \o Times(k, Do("add_defect", 0, 0))

\* ShipmentCreateView.post, which passes on a number that the request has
ShipmentSteps(order, number) == <<Do("create_shipment", order, number)>>

\* EndToEndWorkflowView.post.  Operations are created without a painting stage,
\* and so it never schedules painting.
WorkflowSteps(product) ==
    <<Do("create_order", 0, 0), Do("add_item", 0, product), Do("log_order", 0, 0),
      Do("create_production_order", 0, 0), Do("add_production_order_item", 0, product),
      Do("create_operations", 0, product), Do("log_production", 0, 0),
      Do("create_requirements", 0, product),
      Do("run_operations", 0, 0), Do("create_inspection", 0, 0),
      Do("create_package", 0, 0), Do("create_shipment", 0, 0)>>

Request(view, steps) ==
    /\ ~Open /\ requests < MaxRequests
    /\ requests' = requests + 1
    /\ txn' = [view |-> view, todo |-> steps, before |-> db]
    /\ UNCHANGED <<db, day, flows>>

PostOrder ==
    \E n \in OrderNumbers, p \in Products, k \in 0..MaxItems :
        Request("order", OrderSteps(n, p, k))

PostProduction ==
    \E o \in DOMAIN db.orders, i \in DOMAIN db.items, p \in Products :
        Request("production", ProductionSteps(o, i, p))

PostIssue == \E key \in Keys, k \in 0..MaxItems : Request("issue", IssueSteps(key, k))

PostInspection ==
    \E po \in DOMAIN db.pos, k \in 0..MaxItems : Request("inspection", InspectionSteps(po, k))

PostShipment ==
    \E o \in DOMAIN db.orders, n \in ShipNumbers : Request("shipment", ShipmentSteps(o, n))

PostWorkflow == \E p \in Products : Request("workflow", WorkflowSteps(p))

----------------------------------------------------------------------------
(* The transaction.                                                          *)

Call ==
    /\ Open /\ txn.todo # <<>> /\ ~Raises(db, Head(txn.todo))
    /\ db' = Done(db, Head(txn.todo))
    /\ txn' = [txn EXCEPT !.todo = Tail(@)]
    /\ UNCHANGED <<requests, day, flows>>

Commit ==
    /\ Open /\ txn.todo = <<>>
    /\ flows' = IF txn.view = "workflow" THEN flows \cup {Len(db.orders)} ELSE flows
    /\ txn' = NoTxn
    /\ UNCHANGED <<db, requests, day>>

\* Fault: the events are in a database of their own.
Undo_KeepsRows == db' = [db EXCEPT !.events = txn.before.events] /\ txn' = NoTxn

Undo == db' = txn.before /\ txn' = NoTxn

Raise ==
    /\ Open /\ txn.todo # <<>> /\ Raises(db, Head(txn.todo))
    /\ Undo
    /\ UNCHANGED <<requests, day, flows>>

\* The process is killed.
Crash ==
    /\ Open
    /\ Undo
    /\ UNCHANGED <<requests, day, flows>>

NextDay == /\ day < Days
           /\ day' = day + 1
           /\ UNCHANGED <<db, txn, requests, flows>>

----------------------------------------------------------------------------
(* Services that no view calls.  Each is a transaction of its own.           *)

Service(d) ==
    /\ ~Open /\ requests < MaxRequests
    /\ requests' = requests + 1 /\ db' = d
    /\ UNCHANGED <<txn, day, flows>>

\* PackagingService.ship_package
ShipPackage(p) == Service([db EXCEPT !.packages[p].status = "shipped"])

\* Fault: the status of a package.
MarkInTransit_AsPackage(s) == Service([db EXCEPT !.shipments[s].status = "shipped"])

\* ShippingService.mark_in_transit, from whatever status
MarkInTransit(s) == Service([db EXCEPT !.shipments[s].status = "in_transit"])

\* ShippingService.mark_delivered, from whatever status
MarkDelivered(s) == Service([db EXCEPT !.shipments[s].status = "delivered"])

\* QualityService.create_rework_order
CreateRework(i) ==
    Service(Logged([db EXCEPT !.reworks =
                      Append(@, [inspection |-> i, day |-> day, number |-> NextRework(db),
                                 status |-> "draft"])],
                   "rework", Len(db.reworks) + 1))

\* QualityService.start_rework, from whatever status
StartRework(r) ==
    Service(Logged([db EXCEPT !.reworks[r].status = "in_progress"], "rework", r))

\* QualityService.complete_rework, when no more is completed than there is
CompleteRework(r) ==
    Service(Logged([db EXCEPT !.reworks[r].status = "completed"], "rework", r))

Init ==
    /\ db = [orders |-> <<>>, items |-> <<>>, pos |-> <<>>, poItems |-> <<>>,
             inspections |-> <<>>, packages |-> <<>>, shipments |-> <<>>,
             issues |-> <<>>, reworks |-> <<>>, events |-> {}]
    /\ txn = NoTxn /\ requests = 0 /\ day = 1 /\ flows = {}

Next ==
    \/ PostOrder \/ PostProduction \/ PostIssue \/ PostInspection
    \/ PostShipment \/ PostWorkflow
    \/ Call \/ Commit \/ Raise \/ Crash \/ NextDay
    \/ \E p \in DOMAIN db.packages : ShipPackage(p)
    \/ \E s \in DOMAIN db.shipments : MarkInTransit(s) \/ MarkDelivered(s)
    \/ \E i \in DOMAIN db.inspections : CreateRework(i)
    \/ \E r \in DOMAIN db.reworks : StartRework(r) \/ CompleteRework(r)

Spec == Init /\ [][Next]_vars

----------------------------------------------------------------------------
(* Properties.                                                               *)

\* Every table, and the open transaction with what it would restore, has its
\* type.
TypeOK ==
    /\ db \in Tables
    /\ \/ txn = NoTxn
       \/ txn \in [view: Views, todo: Seq(Step), before: Tables]
    /\ requests \in Nat /\ day \in Nat
    /\ flows \subseteq Nat

\* A generated number is free when it is generated, and so no creation is ever
\* refused for it: production orders, packages and issues are numbered by a
\* count, inspections by the last number of the day, and shipments by a count
\* too, as long as no request brings a number of its own.
GeneratedNumbersAreFree ==
    /\ \A i \in DOMAIN db.pos : db.pos[i].number # NextNumber(db.pos)
    /\ ~Taken(db.packages, NextNumber(db.packages))
    /\ ~Taken(db.issues, NextNumber(db.issues))
    /\ \A i \in DOMAIN db.inspections : \A po \in DOMAIN db.pos :
          db.inspections[i].day = day => db.inspections[i].number # NextInspection(db, po)
    /\ (\A i \in DOMAIN db.shipments : ~db.shipments[i].given) =>
          ~Taken(db.shipments, NextNumber(db.shipments))

\* "Single endpoint that runs the full workflow": an order of a workflow that was
\* answered has an item that was planned, with the requirements of the very BOM
\* whose snapshot the production order has, made in full, inspected and packed,
\* and a shipment, whatever else was requested, refused or killed since.
WorkflowIsWhole ==
    \A o \in flows : \E i \in DOMAIN db.items, p \in DOMAIN db.pos, k \in DOMAIN db.poItems :
        /\ db.items[i].order = o /\ db.pos[p].order = o
        /\ db.poItems[k].po = p /\ db.poItems[k].item = i
        /\ db.items[i].needs = db.poItems[k].rules
        /\ db.poItems[k].done = db.poItems[k].operations
        /\ \E q \in DOMAIN db.inspections : db.inspections[q].po = p
        /\ \E q \in DOMAIN db.packages : db.packages[q].item = i
        /\ \E q \in DOMAIN db.shipments : db.shipments[q].order = o

\* "mutation with atomic + audit": between requests, every document has its event,
\* and every event its document.
EventsMatchDocuments ==
    ~Open => /\ {e[2] : e \in {e \in db.events : e[1] = "order"}} = DOMAIN db.orders
             /\ {e[2] : e \in {e \in db.events : e[1] = "production order"}} = DOMAIN db.pos
             /\ {e[2] : e \in {e \in db.events : e[1] = "inspection"}} = DOMAIN db.inspections
             /\ {e[2] : e \in {e \in db.events : e[1] = "package"}} = DOMAIN db.packages
             /\ {e[2] : e \in {e \in db.events : e[1] = "shipment"}} = DOMAIN db.shipments
             /\ {e[2] : e \in {e \in db.events : e[1] = "issue"}} = DOMAIN db.issues

\* No request is ever half done, whether it was answered, refused or killed.
NothingHalfDone == WorkflowIsWhole /\ EventsMatchDocuments
=============================================================================
