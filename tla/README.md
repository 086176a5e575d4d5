# CraftFlow in TLA+

CraftFlow is a Django monolith that runs a furniture factory: orders are exploded
into production tasks, workers scan QR codes to count and complete them, finished
units are packed and shipped, stock is drawn and purchased, and painting is planned
per worker and day. Two generations live side by side: V1 (`product`, and the V1
half of `inventory`) is what the factory works with; V2 (`sales`, `bom`, `planning`,
`production`, the V2 half of `inventory`, `warehouse`, `quality`, `packaging`,
`shipping`, `painting`, `reporting`, `v2_api`) is its replacement, filled by a
migration command.

This directory holds TLA+ models of its stateful parts, the TLC configurations that
check them on small instances, and theorems checked by TLAPS.

## The setting every model shares

Processes are HTTP requests. They share one SQLite database
(`selvi/settings.py:117`, no `ATOMIC_REQUESTS`), so

- a block of `transaction.atomic()` is isolated: a second writer waits, or is
  refused with "database is locked" and rolled back. It is one action, and `Abort`
  covers the refusal. `select_for_update()` does nothing on SQLite
  (`docs/PHASE_26_POSTGRESQL_READINESS.md:36`);
- outside such a block every statement commits by itself: one action per statement;
- an object loaded *before* the block, or in an earlier statement, is stale when it
  is used. Most of the hazards below come from this.

## The system's parts

| Part | State | Operations | What is hard | What makes it correct |
|---|---|---|---|---|
| V1 production tasks (`product/services.py`, `models.py`, `views.py`, `utils.py`) | `ProductionTask`, `Order.status`, `ProductionEvent`, consumption `StockMovement` | count a piece, scan a part, complete, reset, change in bulk, repair the chain, delete | two completion paths, one atomic and one statement by statement; stale rows; check-then-create | a step is activated by its predecessor, material is drawn once, order status and events agree with the tasks, the order gets done |
| V1 order intake and task generation (`product/models.py:174`, `utils.py`, `views.py`) | `Order`, `OrderItem`, `DynamicPart`, tasks | create, edit and delete orders and items, by staff and by customers; generate; delete tasks | a customer's check and write are two statements; step numbers run through the order while the next step is looked up by part | a waiting task will be woken, the tasks make what the items say, a barcode finds one part |
| V1 packaging and shipping (`product/views.py`) | `PackagingUnit`, `ShipmentLog`, `ProductionLog` | scan, undo, deliver, add units | full-row saves of stale units; counts read one after the other; pages that ask different tables | nothing unpacked is shipped, logs and pages agree with the units, everything gets shipped |
| V1 painting scheduler (`product/utils.py:305-1860`) | worker, time and status of painting tasks; holidays | plan, push into a day with a cascade, move, free, delete, repaint, finish | the plan is made in memory from a table read before; the cascade crosses workers | nobody is booked twice, a stage begins when the one before is dry, rules are respected, nothing waits for nobody |
| V1 painting set-up (`product/forms.py`, `views.py`) | processes, stages, painters, rules, per-process caches | pages, dialogues, admin; creating an item's painting tasks | caches of several server processes; whole-row saves after a validation | one process per colour, caches are current, steps do not collide |
| V1 inventory and purchasing (`inventory/`) | suppliers, categories, materials, `StockMovement`, `PurchaseOrder` and items | forms, deletions, receipt, consumption by tasks | a form is validated against one state and saved over another; a deleted row comes back | goods are booked once and all of them; stock is negative only where nobody asked |
| V2 inventory and warehouse (`inventory/services.py`, `warehouse/services.py`) | `StockBalance`, `StockLedger`, `StockLot`, `StockReservation`, `MaterialIssue`, `MaterialConsumption` | receive, reserve, release, transfer, adjust, issue, consume, return, waste | several rows per movement; several lines per transaction; retried requests | ledger and balance agree, an issue is all or nothing and happens once |
| V2 production (`production/services.py`) | `ProductionOperation`, `OperationExecution`, `WIPUnit` | start, pause, complete, complete in part, skip, fail, make ready, transfer | validation against a stale object; a dependency graph | completions are recorded, successors are released, work is where it may be |
| V2 sales, planning, quality, packaging, shipping, the API in front of them and their events (`v2_api/views.py` and the `services.py` of each) | documents with numbers and a status, `DomainEvent` | create, set status, the end-to-end workflow | numbers from `count() + 1`; one request that makes eight kinds of documents | a generated number is free, no request is half done |
| V2 painting scheduler (`painting/scheduler.py`) | as V1, and `PaintingScheduleItem` | schedule operations | as V1, but it looks at one day only | as V1, and an item for each scheduled stage |
| V1 to V2 migration (`craftflow_migrate_v2`) | `MigrationRun`, `MigrationMap`, V2 tables | run a phase, roll a run back | a crash inside a phase; a second run over a V1 that has grown | maps resolve, nothing is forgotten, nothing is migrated twice |
| V2 bill of materials | revisions | activate a revision | | (no caller) |
| Barcodes, selectors, accounts, exports, pages | none of their own | | | |

How they interact: views load rows and call services or `save()`; `save()` and
`complete_task` write the task, its event, its consumption, the next task and the
order; a packed or delivered unit writes production logs and shipment logs; V2
services call nothing of each other except through `EndToEndWorkflowView`, which runs
all of them in one transaction for a new order. The caches of processes and painters
are the only state outside the database. There are no queues, threads or
callbacks: all concurrency is between requests, through tables.

## Modules

| Module | What it is |
|---|---|
| `ProductionTasks`, `MCProductionTasks`, `ProductionTasksProofs` | V1 tasks of one order |
| `TaskGeneration` | what `generate_tasks` computes: parts, lengths, barcodes, steps |
| `Orders`, `MCOrders` | V1 order intake, on top of `TaskGeneration` |
| `PackagingUnits`, `MCPackagingUnits`, `PackagingUnitsProofs` | V1 units of one order item |
| `PaintingPlan` | the planning algorithms: gaps, candidates, a day's plan, the cascade |
| `Painting`, `MCPainting` | both schedulers as requests on a table, on top of `PaintingPlan` |
| `PaintingSetup`, `MCPaintingSetup`, `PaintingSetupProofs` | processes, painters, rules, caches |
| `Purchases`, `MCPurchases`, `PurchasesProofs` | V1 materials and purchasing |
| `StockBalances`, `MCStockBalances`, `StockBalancesProofs` | V2 stock of one item |
| `StockPromise` | what that stock promises, as an abstract specification |
| `OperationFlow`, `MCOperationFlow`, `OperationFlowProofs` | V2 operations of one production order item |
| `Documents`, `MCDocuments`, `DocumentsProofs` | V2 documents and the transactions that make them |
| `Migration`, `MCMigration`, `MigrationProofs` | the migration command |

In a module, the names of actions are those of the functions they stand for. An
operator whose comment begins with "Fault:" is a plausible bug of the operator below
it; nothing uses it, and `PROJECT.json` says which property it breaks when it takes
that operator's place. The variables `past`, `raced`, `late`, `cut`, `settled`, `mixed`
and `flows` are history: no guard reads them, and properties use them to say when they
speak.

### ProductionTasks

State: `task` is the table, a row being status and completed quantity or `Absent`;
`order` is `Order.status`; `doneEvents`, `movements` and `drawn` count the rows a
completion leaves, where `movements` are the consumptions that still reference the
task and `drawn` those that were ever made. `req` is the request a worker has in
flight, with the row it loaded (`mem`), the list it walks (`todo`, `rows`) and the
status of the order object it cached (`order`).

| Action | Code |
|---|---|
| `LoadTask`, then `CompleteTask` or `SaveProgress` | `mark_task_done`, `scan_part` and the admin's completion: the object is loaded, then `LegacyProductionService.complete_task` runs in one transaction. Which branch it takes depends on the object, what it does also on the row |
| `LoadSetStatus`, `LoadBulk`, `BulkNext`, `LoadFix`, `FixNext`, `LoopEnd` | `admin_order_tasks`, and `bulk_status` and `fix_chain` of `admin_tasks_management`, which call `save()` outside a transaction |
| `SaveSelect` ... `SaveOrder` | the statements of `ProductionTask.save()`, in their order |
| `DeleteTasks`, `DeleteAllTasks` | the deleting views |
| `Abort` | an exception, a refused lock, a killed process |

`Init` is the table `Order.generate_tasks` leaves. `LaneOf` groups steps that follow
each other, as the filter on part (or order item and colour part) does; two order
items may share a lane, which is why `Firsts` lists the first steps separately.

### PackagingUnits

State: `unit` has a mark for packed and for shipped, which stands for the three
columns the views set together; `shipLogs` and `logs` count `ShipmentLog` and
`ProductionLog` rows; `units` is the number of units. `Scan` and `Undo` load a unit,
`SaveUnit` writes all of it back, `CreateShipLog`, `CountTotal`, `CountMarked`,
`LogExists`, `CreateLog`, `DropShipLogs` and `DropLogs` are the statements that follow;
`CheckDelivery` and `Deliver` are `delivery_confirm`, `ScanItem` is the log of `scan_qr`,
and `EditItem` is `sync_packaging_units`. Four pages are operators over the tables
(`ReportReadyToShip`, `ReportShipped`, `CustomerShipments`, `OnDeliveryList`), which
`PagesAgree` compares. Only one user ships, delivers and takes shipments back: with two,
a delivery between the save of an undo and the deletion of its log leaves a shipped unit
without a `ShipmentLog`.

### StockBalances and StockPromise

State: `bal` and `rows` are the `StockBalance` table, `ledger` keeps of the rows of a
location their sum and the last `balance_after`, `lots` the `StockLot` quantities,
`rsv` the active reservations (newest first, as the model's ordering has them),
`issues` and `consumed` the documents with idempotency keys. One service is one action,
because every service loads its rows inside its transaction; an issue or a return of
several lines is `BeginIssue`, `IssueLine` ..., `Commit`, so that a failing line
(`Rollback`) is a state of its own. `txn.saved` is what a rollback restores.

`StockPromise` knows goods, reserved goods and documents, and makes an issue in one
step. `PromiseKept` is the refinement: while a transaction is open the abstract tables
are the saved ones, so that `Commit` is the abstract `MakeIssue` and a rolled-back issue
is a stutter.

### OperationFlow

State: `status` of each operation, the number of its executions, where each unit of
work in progress is, and the object each caller holds. `Load` and `Drop` are the
caller's, the other actions are `start_operation`, `pause_operation`,
`complete_operation`, `partial_complete_operation`, the targets of
`transition_operation` and `transfer_wip`. A
service checks the object (`MayBecome`) and writes the row, and reads successors and
predecessors afresh.

### TaskGeneration and Orders

`TaskGeneration` has no state: a product's bill of materials gives a dynamic part for
each item and line (`WantedPart`: material by colour map, length by size rule, barcode
with length and item), and a part's route gives tasks numbered through the order.
`SamePart` is what `get_or_create` asks, so items that agree share a part, whose barcode
the last of them overwrites. `Orders` keeps the tables of orders, items, parts and
tasks. A staff view is one step; a customer's view is `CustomerCheck`, which finds the
order a draft, and `CustomerWrite`. Deleting an order or an item follows the
`on_delete` rules of `models.py`. Races on one task belong to `ProductionTasks`; here
`MarkTaskDone` and the CNC scans count one piece at a time.

### PaintingPlan and Painting

`PaintingPlan` is a translation of the pure part: `FindGap` searches a day of a worker
around what he has and around lunch, `Candidates` filters by skill, bars and rules,
`PlanOne` chooses by score and stickiness and folds over the stages of the day, and the
push is the recursive `Rounds` with its limit of steps. `Painting` runs it as the code
does: `LoadDay` reads, `WriteDay` saves the plan made from what was read, and other
requests may come between. `version` is chosen in `Init`; V2 (`LoadOperations`,
`ApplyOperations`) plans by the product's default colour, since it looks for the ordered
one in a model that does not exist. Manual edits (`AssignWorker`, `UnassignWorker`,
`ClearSchedule`, deletions, `MarkDone`) are one step.

### PaintingSetup

`db` has processes, stages, painters and rules. An edit loads a row onto the `desk` of its
server process and saves all of it in a second step, so a row deleted in between is
inserted again. `cache` is what `utils.py` keeps per server process; `Save` clears the
caches of its own server, where the code does. `AssignPaintingProcess` makes the tasks of
an item from what the cache says.

### Purchases

`db` has six tables. `OfficeSends` validates a form against the tables and puts it on a
`desk`; `Save` writes the whole row, as an INSERT if it is gone, and is refused by a broken
reference or a repeated name. Deletions with their cascades, `PurchaseOrderReceive` and
`ConsumeMaterialForTask` are one transaction each.

### Documents

A POST view is a list of service calls (`txn.todo`), done one `Call` at a time on the
tables; `Raise` is any call that the code or a constraint refuses, `Crash` a killed
process, and both restore `txn.before`. As SQLite has one writer, a second request waits
for the end of the first. `PostWorkflow` is `EndToEndWorkflowView`.

### Migration

A run is `CreateRun`, `Begin`, one `MigrateRow` per V1 row in the order of the phase,
`Commit` and `Finish`; `Raise` and `Crash` take back the transaction, `RollBack` is the
command's own, and `AddRow` lets V1 grow between runs. `maps` is `MigrationMap`; `MaterialStep`,
`PartStep`, `BomStep` and the others are the migration of one row, including what they look
up by natural key instead of by map. The rows of V1 are numbered in the order in which the
mappers reach them (`Rank`). `Clear` says which parts those lookups cannot confuse; that no
BOM line of another part with the same `f3` may name its product is more than what is asked
of its own lines, and was found while proving: without it a part could be mixed up with
another one whose lines were only later seen to conflict.

## Runs

| Run | Instance | Shows |
|---|---|---|
| `tasks_atomic` | two requests, three tasks in one lane of two order items, every view that completes through the service, aborts | types; `ActivationEarned`, `ConsumedAtMostOnce`, `WorkIsAccounted`, `NeverReplanned` |
| `tasks_races` | a manager with unprotected saves and aborts, against counting, repairs and deletions; two steps | `RowsConsistent`, and `StrandedIsRepaired` under `RepairSpec` |
| `tasks_progress` | two workers counting pieces, two lanes, aborts | `OrderCompletes` under `FairSpec` |
| `orders` | two orders, two items of one product in two colours, one customer request under way | `WaitingWillWake` (every waiting task has one open task whose count wakes it), `TasksFollowItems` |
| `units_concurrent` | two packers, a shipper who delivers and undoes, an edit that adds a unit | `ShippedArePacked`, `FullItemIsLogged`, `PagesAgree`, and `AllShipped` under `FairSpec` |
| `painting` | two painters with different skills, two parts of two stages, a Friday, two holidays that come and go, two requests at once, both versions | `ScheduleIsSound` (no double booking, no lunch break, every stage on a page), `OrderKept`, `OpenDaysOnly`, `RulesRespected`, `WaitingHasWaker` |
| `painting_setup` | two servers, one colour, two processes, two painters | references, `OneProcessPerColour`, `CacheIsCurrent`, `PaintStepsApart` |
| `purchases` | two forms at a time, one order with two items, two materials | `BooksAreSound` (what was received was booked once and in full), `OverdrawnForAReason` |
| `stock_books` | two locations, one lot, two issues of two lines, two keys | types, `BooksAgree`, `ReservationsBacked`, `PromiseKept` |
| `operation_flow` | two predecessors and their successor, a terminal and a caller of all services, one unit of work | types, `CompletedIsRecorded`, `NoneLeftWaiting`, `WorkIsReleased` |
| `documents` | five requests on two days, with numbers and keys of their own, refused and killed ones included | `GeneratedNumbersAreFree`, `NothingHalfDone` |
| `migration` | two runs over 26 V1 rows that share names, three of which come later; crashes and rollbacks | `MapsAreSound`, `EveryRowAccounted`, `ReRunChangesNothing` |

A property that names exceptions (`past`, `raced` and so on) names exactly the requests
after which the code gives no guarantee; the list under "Disagreements" says which these are.

Bounds, and why they are enough for the question:

- two requests in flight: each hazard is one request using what it read before another
  wrote. Three are needed only by the edit during two packings, and
  `units_concurrent` has them;
- three tasks in two routes, quantities 1 and 2: the smallest tables in which a step
  has a predecessor, a successor is not the next task, and a count is not yet full;
- `MaxEvents` stops new requests once a task was completed or drawn more often than
  the property needs to fail. In `tasks_progress` it is 6 and is not reached, since it
  would otherwise end behaviours early; in `tasks_races` it is 0, and repairs and deletions
  go on past it;
- one unit that an edit makes two: an item that is full, and one that stops being full
  between two counts. `MaxUnits` and `MaxRequests` bound edits and requests;
- two pieces of stock, two locations and issues of two lines: a line that passes on what
  its predecessor brought, and one that fails because its predecessor took the last
  piece. `MaxStock`, `MaxLot` and `MaxActive` bound receipts, transfers into lots and
  reservations; what is proved about the books has no bound;
- `MaxExecs` 1 lets an operation be completed twice, which is once by a stale object;
- `orders`: `MaxItems` 2 and `MaxTasks` 4 are two items generated twice; `MaxEdits` and
  `Customers` bound edits and customer requests, of which one suffices to race staff;
- `painting`: `Horizon` 3 instead of 100 days, with a closed day and two that may close, so
  that a plan skips days and runs out of them; `MaxOps` 3 requests and edits are a plan, a
  plan that races it and an edit; `MaxGen` bounds how often an item is painted anew;
- `painting_setup`: `MaxEdits` 2 from an `Init` that already has processes, stages, a
  painter and a rule: an edit and a deletion that race, on one server or two;
- `purchases`: `MaxForms` 4 are an order with its item, its receipt and a late form;
- `documents`: `MaxRequests` 5 are an order, what refers to it, a refused number and the
  next request of its kind; `MaxItems` 1 because items of a document are alike;
- `migration`: `MaxRuns` 2 are a run and its repetition, resumption or rollback; the rows
  have a case of each branch of the lookups; `MaxSame` bounds customers of one name.

All runs set `CHECK_DEADLOCK FALSE`: an order that is done, an item that is shipped, a
migration that is over or a bound that is reached leaves nothing to do. Requests, names
or servers that are interchangeable are a symmetry set in four runs without liveness
(`painting`, whose properties of steps treat requests alike, is one of them); no run with
liveness has one.

### Fairness

- `FairSpec` of tasks: every worker keeps loading countable tasks while there are some
  (weak), and goes on with a request again and again if it is aborted again and again
  (strong): people repeat a scan that showed an error. Nothing is assumed of any other
  view.
- `RepairSpec`: requests proceed; whoever has `fix_chain` keeps running it, and not all
  of its runs are aborted at the same statement. The code runs it when a manager
  presses the button, so the result is conditional on that: without it a stranded
  step stays stranded.
- `FairSpec` of units: workers keep scanning units that are due and requests finish.

The other models are about what an office may do next and have no fairness: nothing in
the code makes anybody place, plan or receive an order.

## Disagreements met while modelling

Where the code gives less than a comment, a test or its own forms suggest. The models do
what the code does, and the properties name these cases as their exceptions or leave out
the view in question.

1. Two requests that loaded the same pending task both record its completion
   (`product/services.py:51` decides by the loaded object; `tests_legacy_service.py:178`
   expects one event). The consumption is still drawn once, since its check is in the
   same transaction.
2. `bulk_status` calls `save()` outside a transaction: two of them both find no
   consumption (`product/utils.py:70`) and draw the material twice. `tasks_atomic` and the
   theorems therefore restrict the views to those that complete through the service.
3. `undo_packaging_unit` takes back the packing of a shipped unit (`product/views.py:2944`).
4. `issue_material` checks balances, not lots (`warehouse/services.py:134`): an overdrawn
   lot goes to zero and its whole quantity appears at the target, against
   `docs/PHASE_6_INVENTORY_WAREHOUSE.md:21`. `stock_books` has lots, `BooksAgree` is about
   balances.
5. `order_generate_tasks` does not look for existing tasks (`product/views.py:856`): a
   second click doubles them, and the lookup of the next step then wakes one of each pair.
6. `customer_edit_order_info` saves the whole order: a planned order becomes a draft again,
   which customers may change although its tasks exist.
7. `ProductionOrderCreateView` accepts items of another order, and a workflow that is
   posted again with an empty order number makes a second order
   (`v2_api/views.py:442`, against the comment at 423).
8. A `shipment_number` given in a request can be the number that `count() + 1` yields
   later; from then on every shipment without a number is refused, since a refused one
   does not raise the count.
9. The migration finds V2 rows again by name, category and `f3`
   (`craftflow_migrate_v2.py:1488`) although its header promises explicit maps (line 21);
   rows that share them are taken for one. The production phase always raises, and the
   inventory and barcode phases use names that were never imported.
10. `V2PaintingScheduler` looks for the ordered colour in a model that does not exist
    (`painting/scheduler.py:84`) and plans by the product's default colour, although it is
    said to mirror V1; it never asks for holidays and keeps the order of stages only within
    a day.
11. `toggle_active` and the admin do not repeat the overlap check of the process form; that
    form's colour codes pass only as text, not as the list its own page sends; the reorder
    of stages first writes negative positions and always fails.
12. Caches of processes and painters are cleared in the server process that saved, and not
    at all when a stage is saved.
13. `scan_part` caches `task.order`: the last completion may compare with an old status
    and leave a finished order at `producing`, so progress is only checked for counting.
14. `scan_qr` logs an item twice when two workers of a stage scan at once.

## Proofs

Checked by TLAPS for all values of the constants, that is any number of tasks, requests,
units, users, locations, lots, lines, operations, dependencies, documents, suppliers,
materials, servers, colours, painters and rows:

| Theorem | States | Argument |
|---|---|---|
| `TypeCorrect` | `[]TypeOK` of tasks | inductive by itself; one lemma per operator that builds a row |
| `RowsAlwaysConsistent` | `[]RowsConsistent` | `RowsInv`: not only rows but also every copy in a request (`mem`, `rows`, `next`) is consistent, and what is about to be written is consistent with whatever row is there, which is what the statement-by-statement `save()` needs |
| `DrawnAtMostOnce`, `WorkAlwaysAccounted` | `[]ConsumedAtMostOnce` and `[]WorkIsAccounted` under `OnlyAtomic` | `AtomicInv` (lemma `AtomicAlways`): a copy that says done is the copy of a task that has its event, and `movements` and `drawn` agree while nothing is deleted. `OnlyAtomic` says that every view completes through the service and none deletes; without it 2 above refutes it |
| `ActivationAlwaysEarned` | `[]ActivationEarned` under `OnlyAtomic` | a copy that shows the next step pending is the copy of a step whose predecessor has its event, so that writing it back cannot wake a step that nobody earned |
| `NeverReplannedAtAll` | `NeverReplanned` under `OnlyAtomic` | a completed task never becomes undone, so the status derived from the tasks is never planned again once it was not |
| `UnitsTypeCorrect` | `[]TypeOK` of units | inductive by itself |
| `ShippedUnitsArePacked` | `[]ShippedArePacked` under `NoPackingUndo` | `PackedInv`: a stale copy that is shipped is packed, and a unit that a shipper holds is packed in the table, for packings are never undone (`NoPackingUndo`; without it 3 above refutes it) |
| `FullItemsAreLogged` | `[]FullItemIsLogged` under `NoPackingUndo` | `LoggedInv`: while everything is packed and no log exists, some packer is on the way to create it: one that has counted no more units than there are, and has yet to count the packed ones. It needs the cardinality of finite sets of units |
| `PagesAlwaysAgree` | `[]PagesAgree` under `NoPackingUndo` and `SoleShipper` | `ShippingInv`: a shipped unit has its log, except while the one who ships holds it between the save and the log, in one direction or the other. `SoleShipper` says that whoever takes shipments back is the only one who ships; with a second one, an undo deletes the log of the other's shipment |
| `StockTypeCorrect` | `[]TypeOK` of stock | inductive; lots never go below zero although they may be overdrawn |
| `BooksAlwaysAgree` | `[]BooksAgree` | `BooksInv`: the tables that a rollback would restore agree too |
| `ReservationsAlwaysBacked` | `[]ReservationsBacked` | `BackedInv`: no line of an open transaction withholds or frees anything (`SavedReserved`), so that the tables a rollback restores withhold what the reservations do. A reservation adds to one summand of one location, a release takes one away |
| `PromiseAlwaysKept` | the refinement `PromiseKept` | `PromiseInv`: nothing is owed; a location that has less than before the transaction still has what it withholds (`Underway`); the lines done and the lines still to do together make the lines of the issue or the return (`IssueUnderway`, `ReturnUnderway`). While a transaction is open the abstract tables are those it would restore, so that its lines and its rollback stutter; the commit is the one step in which the whole issue leaves the shelves, and its guard, every location covers what leaves it, follows from `Underway` |
| `FlowTypeCorrect`, `CompletionsRecorded`, `SuccessorsReleased`, `WorkAlwaysReleased` | the four invariants of operations | `FlowInv` adds `HeldReleased`: a held object is stale in one direction, an operation it does not show waiting does not wait, since no service writes waiting |
| `ReadyOnlyForAReason` | `ReadyForAReason`, if no operation depends on itself | a case analysis of the services |
| `TransitionsAlwaysRespected` | `TransitionsRespected` | every service but two validates the object in hand |
| `DocumentsTypeCorrect` | `[]TypeOK` of documents | with the tables a rollback would restore, and the calls that are left |
| `NumbersAlwaysFree` | `[]GeneratedNumbersAreFree` | the i-th row of a counted kind has number i at most, both in the tables and in those a rollback would restore; numbers of inspections of one day go up |
| `NothingEverHalfDone` | `[]NothingHalfDone` | `FlowInv`: after n calls of a workflow, the last rows of the tables are what the first n calls make of each other (`Made`); `EventInv`: documents without an event are those whose log call is still to come. At the commit no call is left |
| `BooksAlwaysSound` | `[]BooksAreSound` | `PurchasesInv`: references exist, also those of the booked movements; a movement that books an item is kept, agrees with the item and is alone, although forms on a desk may bring old orders back |
| `OverdrawnOnlyForAReason` | `[]OverdrawnForAReason` | `StockInv`: a consumption that was checked and is not marked overtaken still has the stock it was checked against, and a material in debt is in `past`. It needs, of every way in which the movements change, what it does to the sum for one material (`StockMoves`), and `PurchasesInv` for the keys |
| `SetupTypeCorrect` | `[]TypeOK` of the painting set-up | `SetupInv`: a deletion takes along exactly the rows that refer to what goes (`ErasedTables`), and a form on a desk is checked again by the constraints when it is saved |
| `AlwaysOneProcess` | `[]OneProcessPerColour` | a form that is still `checked` overlaps with no active process, since each save of a process takes the check of every other form away |
| `CacheAlwaysCurrent` | `[]CacheIsCurrent` | a server that is not in `past.behind` remembers the youngest active process of each colour; every action that changes processes or painters clears one cache and puts the others into `behind` |
| `PaintStepsAlwaysApart` | `[]PaintStepsApart` | stages of a process have different places (`StagesUnique`, kept by `Unique`), so their ranks differ and end where the next part begins, if the remembered numbers of stages are right (`CountsFresh`); deletions only take stages from tasks |
| `MigrationTypeCorrect` | `[]TypeOK` of the migration | with the tables a rollback would restore |
| `MapsAlwaysSound` | `[]MapsAreSound` | `MigInv`: the tables an open transaction would go back to resolve, and their maps belong to runs that committed. `Grows` says what a mapper may do to the tables: it drops nothing, changes no V2 row, adds rows of its own tables only, and writes maps under its own keys, of its own run. For `ClearPartsAreExact`, `ExactInv`: every V2 product and part is owned by the V1 row whose map names it, and what a lookup found for a part is below the product of one of its BOM lines (`Found`). A row that names one clearly then has one owner that can be meant. V1 only grows, so that this stays so; a rollback of the only run with maps takes every product and part along |
| `EveryRowAlwaysAccounted` | `EveryRowAccounted` | `Accounted`: in a master-data run, what is not to be done any more has its map. `Paired`: a BOM line's map and that of its item come and go together |
| `ReRunNeverChangesAnything` | `ReRunChangesNothing` | `ReRunInv`: a row with which a run has nothing left to do (`Firm`) stays so, since mappers of later kinds do not change what an earlier one looks up (`SkipsSame`). This is where the order of the kinds is needed, which `_run_master_data_phase` fixes (`craftflow_migrate_v2.py:1554-1574`) |

The assumptions are the named `ASSUME`s of the modules, which say what the constants are
(`ConstantsAssumption`, `UnitsAssumption`, `StockAssumption`, `FlowAssumption`,
`DocumentsAssumption`, `BoundAssumption`, `ColourAssumption`, `MigrationAssumption`,
`QuantityAssumption`) and that `None` is no key, no row and no request (`NoneAssumption`),
and the hypotheses named in the table. Locations and references are finite sets
(`StockAssumption`), being rows of a table and texts that fit a column. Products are numbers in
`Documents` because a call carries a product or a key in the same field.

Three definitions have a form the provers can use: the number a stage gets in
`CreatePaintTasks` is its rank among the stages of the process, and `Before` counts the
steps of earlier colour parts as pairs, where the code runs through both in a loop; and
`ReceivedOnce` compares an item with the one movement that books it.

Stock is a sum: over reservations, over the lines of an issue, over movements. The
library's induction theorems take the property as an operator, which the provers cannot
instantiate, so that facts about sums are proved by a least counterexample instead: a
table `G` of the sums over every subset of `S` (`Totals`) exists for every finite `S`,
since a smallest subset without one (`MinimalMember`) would have one less element and then
a table; and what adding or removing one element does to a sum is read off that table.
`StockBalancesProofs` and `PurchasesProofs` each hold these lemmas, because
neither component extends the other.

Only model-checked:

- liveness (`OrderCompletes`, `StrandedIsRepaired`, `AllShipped`): TLAPS does not reason
  about fairness or ENABLED;
- `Orders`, that is its types, `WaitingWillWake` and `TasksFollowItems`: `GenerateTasks`
  folds over the items of an order and the lines of their BOMs, and what the rows it has
  made look like is a fact by induction over those sequences. The argument used for sums
  would have to be made for an accumulator of parts, rows and a step; it has not been;
- everything in `Painting` and `PaintingPlan`: the cascade is a RECURSIVE operator, which
  the provers cannot use.

## Not modelled

- Whole components: the V2 bill of materials, since `VersionedBOMService` has no caller;
  barcode resolution, which changes nothing; accounts, admin, exports and pages, which are
  input and output.
- Tasks: the timer and the reassignment of a task, which change no status.
- Orders: prices and totals (`line_total` is never set, so totals are 0), images, edits of
  the product catalogue, the test that the delivery date is not past.
- Units: deletion of items and units, plates, `customer_shipment_detail`, the painting
  test before a delivery.
- Painting: the export, the ready list, V2's own cascade (`scheduler.py:152-309`) and
  `schedule_paint_tasks_for_items`, which nobody calls.
- Painting set-up: names, durations and priorities; skills are one flag, bars are kept by
  kind only.
- Purchases: prices, notes, `low_stock_report` (which raises), and the V1
  `product.Material`, whose references are set to null.
- V2 stock: material requests, issues of several items (balances of different items do
  not meet, except in the transaction that is rolled back as one). On SQLite
  `select_for_update()` does nothing; on PostgreSQL `transfer_stock` and `issue_material`
  lock balances in the order of their arguments, which a model of that database would
  have to look at.
- V2 production: batches, quantities, worker assignments.
- Documents: amounts; lines of an issue given as ids, which always raise; items of packages,
  shipments and rework orders; the audit log, written beside each event in the same
  transaction; more than 9999 inspections on a day. V2 has no view that deletes a document.
- Migration: the phases after master data beyond the fact that they raise; dry runs and
  reports.

## Plan

Done: all components above, and the proofs of `ProductionTasks`, `PackagingUnits`,
`StockBalances` with its refinement of `StockPromise`, `OperationFlow`, `Documents`,
`Purchases`, `PaintingSetup` and `Migration`; of these eight every invariant and every
action property that a run checks is a theorem, under the hypotheses of the table, and
liveness is not. What is left:

1. `Orders`: that a fold over a sequence keeps what each step keeps, then the type
   invariant from one lemma per helper of `TaskGeneration`, then `TasksFollowItems`.
2. `Painting`: the cascade as a recursive function on a well-founded set instead of a
   RECURSIVE operator, then `ScheduleIsSound`.
