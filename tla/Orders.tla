------------------------------ MODULE Orders ------------------------------
(***************************************************************************)
(* V1 order intake (src/product/views.py, src/product/models.py): orders    *)
(* and their items from the first form to the tasks generated for them,     *)
(* with the edits staff and customers make before and after, the parts and  *)
(* barcodes the generation leaves behind, and the tasks' progress as far as *)
(* it moves the order's status.                                             *)
(*                                                                         *)
(* A staff view is one step: what it reads it reads in the same request as  *)
(* it writes, and only its order's status matters here. A customer's view   *)
(* is two, the check that the order is a draft and the write, because *)
(* no transaction holds them together. Races between requests on one task   *)
(* are the subject of ProductionTasks.                                      *)
(***************************************************************************)
EXTENDS TaskGeneration

CONSTANTS OrderIds,       \* orders, as numbers: their primary keys
          ItemForms,      \* what an item form can say: product, colours, size, quantity
          ColourParts,    \* sequence of the colour parts
          FormStatuses,   \* statuses staff write with the order form
          PaintStages,    \* colour -> stages of the process for it
          MaxItems,       \* bound: items ever created
          MaxTasks,       \* bound: task rows at a time
          MaxParts,       \* bound: dynamic parts
          MaxEdits,       \* bound: edits, deletions and customer requests
          Customers       \* bound: customer requests under way

VARIABLES orders,   \* order -> status, "none" before and after it exists
          items,    \* sequence by id of [order, form, there]
          parts,    \* sequence by id of dynamic parts
          tasks,    \* sequence by id of the task rows that exist
          reqs,     \* customer requests that passed their check
          edits,    \* counts what MaxEdits bounds
          past      \* what happened, for the properties only

vars == <<orders, items, parts, tasks, reqs, edits, past>>

Status == {"draft", "planned", "producing", "completed"}
ItemIds == DOMAIN items
Exists(o) == orders[o] # "none"
ItemsOf(o) == SelectSeq([i \in ItemIds |-> i], LAMBDA i : items[i].there /\ items[i].order = o)
HasTasks(o) == \E k \in DOMAIN tasks : tasks[k].order = o /\ tasks[k].station # "paint"
Generated(i) == \E k \in DOMAIN tasks : tasks[k].item = i /\ tasks[k].station # "paint"

Init == /\ orders = [o \in OrderIds |-> "none"]
        /\ items = <<>> /\ parts = <<>> /\ tasks = <<>>
        /\ reqs = {} /\ edits = 0
        /\ past = [again |-> {}, thinned |-> {}, byHand |-> {}, late |-> {},
                   made |-> {}, remade |-> {}, stale |-> {}]

(***************************************************************************)
(* past: orders generated over existing tasks (again), with single tasks    *)
(* deleted (thinned), whose status a form wrote (byHand), generated while a *)
(* customer's request on them was under way (late); items ever generated    *)
(* (made), edited after that (remade), and edited by staff or by a late     *)
(* customer while they had tasks (stale).                                   *)
(***************************************************************************)
Changed(i, excused) ==
  [past EXCEPT !.remade = IF i \in past.made THEN @ \cup {i} ELSE @,
               !.stale = IF excused /\ Generated(i) THEN @ \cup {i} ELSE @]
Cleared(o) == [past EXCEPT !.again = @ \ {o}, !.thinned = @ \ {o}, !.byHand = @ \ {o},
                           !.late = @ \ {o}, !.stale = {i \in @ : items[i].order # o}]
Edit == edits < MaxEdits /\ edits' = edits + 1

(***************************************************************************)
(* Intake. An item keeps its product; saving it recomputes only its price.  *)
(***************************************************************************)
NewItem(o, form) == /\ Len(items) < MaxItems
                    /\ items' = Append(items, [order |-> o, form |-> form, there |-> TRUE])

(* Order and first item in one block.                                       *)
CreateOrder(o, form) ==
  /\ ~Exists(o) /\ \A i \in ItemIds : items[i].order # o
  /\ \A other \in OrderIds : other < o => Exists(other) \/ \E i \in ItemIds : items[i].order = other
  /\ NewItem(o, form)
  /\ orders' = [orders EXCEPT ![o] = "draft"]
  /\ UNCHANGED <<parts, tasks, reqs, edits, past>>

(* A representative's order has a new customer, and the same rows otherwise.*)
CustomerCreateOrder(o, form) == CreateOrder(o, form)

(* Staff add items in any status of the order, from two pages.              *)
CreateOrderStep2(o, form) == /\ Exists(o) /\ NewItem(o, form)
                             /\ UNCHANGED <<orders, parts, tasks, reqs, edits, past>>

AdminAddItem(o, form) == CreateOrderStep2(o, form)

AdminEditItem(i, form) ==
  /\ Edit /\ items[i].there /\ form.product = items[i].form.product
  /\ items' = [items EXCEPT ![i].form = form]
  /\ past' = Changed(i, TRUE)
  /\ UNCHANGED <<orders, parts, tasks, reqs>>

(* The tasks of a deleted item stay, without an item.                       *)
WithoutItem(i) == [k \in DOMAIN tasks |-> IF tasks[k].item = i
                                          THEN [tasks[k] EXCEPT !.item = None] ELSE tasks[k]]
DeleteItem_Dangling(i) == /\ items' = [items EXCEPT ![i].there = FALSE]
                          /\ UNCHANGED tasks

DeleteItem(i) == /\ items' = [items EXCEPT ![i].there = FALSE]
                 /\ tasks' = WithoutItem(i)

AdminDeleteItem(i) == /\ Edit /\ items[i].there /\ DeleteItem(i)
                      /\ UNCHANGED <<orders, parts, reqs, past>>

(* The form's status is whatever the page showed or the admin picked.       *)
AdminEditOrder(o, status) ==
  /\ Edit /\ Exists(o) /\ status # orders[o]
  /\ orders' = [orders EXCEPT ![o] = status]
  /\ past' = [past EXCEPT !.byHand = @ \cup {o}]
  /\ UNCHANGED <<items, parts, tasks, reqs>>

AdminDeleteOrder(o) ==
  /\ Edit /\ Exists(o)
  /\ orders' = [orders EXCEPT ![o] = "none"]
  /\ items' = [i \in ItemIds |-> IF items[i].order = o THEN [items[i] EXCEPT !.there = FALSE]
                                 ELSE items[i]]
  /\ tasks' = SelectSeq(tasks, LAMBDA t : t.order # o)
  /\ past' = Cleared(o)
  /\ UNCHANGED <<parts, reqs>>

(***************************************************************************)
(* Customers: the check, then the write with the row the check loaded. A    *)
(* save() of a row deleted meanwhile inserts it again.                      *)
(***************************************************************************)
(* That the order must be of today only narrows the check: left out.        *)
CustomerMayChange_AnyStatus(o) == Exists(o)

CustomerMayChange(o) == orders[o] = "draft"

CustomerCheck(kind, o, i) ==
  /\ Edit /\ Cardinality(reqs) < Customers
  /\ CustomerMayChange(o)
  /\ IF kind \in {"edit", "delete"} THEN i \in ItemIds /\ items[i].there /\ items[i].order = o
                                    ELSE i = None
  /\ reqs' = reqs \cup {[kind |-> kind, order |-> o, item |-> i]}
  /\ UNCHANGED <<orders, items, parts, tasks, past>>

(* customer_edit_order_info saves the whole order: the draft it loaded.     *)
CustomerEditInfo(r) ==
  /\ r.kind = "info"
  /\ orders' = [orders EXCEPT ![r.order] = "draft"]
  /\ past' = IF orders[r.order] = "draft" THEN past
             ELSE [past EXCEPT !.byHand = @ \cup {r.order}]
  /\ UNCHANGED <<items, tasks>>

CustomerAddItem(r, form) == /\ r.kind = "add" /\ Exists(r.order)
                            /\ NewItem(r.order, form)
                            /\ UNCHANGED <<orders, tasks, past>>

CustomerEditItem(r, form) ==
  /\ r.kind = "edit" /\ Exists(r.order) /\ form.product = items[r.item].form.product
  /\ items' = [items EXCEPT ![r.item].form = form, ![r.item].there = TRUE]
  /\ past' = Changed(r.item, r.order \in past.late \cup past.byHand)
  /\ UNCHANGED <<orders, tasks>>

CustomerDeleteItem(r) == /\ r.kind = "delete"
                         /\ DeleteItem(r.item)
                         /\ UNCHANGED <<orders, past>>

(* A write that fails (its order is gone) changes nothing.                  *)
CustomerFails(r) == /\ r.kind \in {"add", "edit"} /\ ~Exists(r.order)
                    /\ UNCHANGED <<orders, items, tasks, past>>

CustomerWrite(r) ==
  /\ reqs' = reqs \ {r}
  /\ \/ CustomerEditInfo(r)
     \/ \E form \in ItemForms : CustomerAddItem(r, form) \/ CustomerEditItem(r, form)
     \/ CustomerDeleteItem(r)
     \/ CustomerFails(r)
  /\ UNCHANGED <<parts, edits>>

(***************************************************************************)
(* Tasks: generated, deleted and completed.                                 *)
(***************************************************************************)
(* order_generate_tasks: nothing asks whether the order has tasks already.  *)
GenerateOrderTasks(o) ==
  LET mine == ItemsOf(o)
      made == GenerateTasks(parts, o, mine, [i \in ItemIds |-> items[i].form])
  IN /\ Exists(o) /\ made.rows # <<>>
     /\ Len(tasks) + Len(made.rows) <= MaxTasks /\ Len(made.parts) <= MaxParts
     /\ parts' = made.parts
     /\ tasks' = tasks \o made.rows
     /\ orders' = [orders EXCEPT ![o] = "planned"]
     /\ past' = [past EXCEPT !.again = IF HasTasks(o) THEN @ \cup {o} ELSE @,
                             !.late = IF \E r \in reqs : r.order = o THEN @ \cup {o} ELSE @,
                             !.made = @ \cup Range(mine), !.byHand = @ \ {o}]
     /\ UNCHANGED <<items, reqs, edits>>

(* delete_all_tasks: the order is a draft again.                            *)
DeleteAllTasks(o) ==
  /\ Edit /\ Exists(o)
  /\ tasks' = SelectSeq(tasks, LAMBDA t : t.order # o)
  /\ orders' = [orders EXCEPT ![o] = "draft"]
  /\ past' = Cleared(o)
  /\ UNCHANGED <<items, parts, reqs>>

(* delete_all_paint_tasks_for_order: a draft again when nothing is left.    *)
DeleteAllPaintTasks(o) ==
  LET rest == SelectSeq(tasks, LAMBDA t : ~(t.order = o /\ t.station = "paint"))
  IN /\ Edit /\ Exists(o) /\ rest # tasks
     /\ tasks' = rest
     /\ orders' = IF HasTasks(o) THEN orders ELSE [orders EXCEPT ![o] = "draft"]
     /\ UNCHANGED <<items, parts, reqs, past>>

(* painting_assign_process: replaces the item's paint tasks unless one is done. *)
AssignPaint(i) ==
  LET o == items[i].order
      Mine(t) == t.order = o /\ t.station = "paint" /\ t.item = i
      kept == SelectSeq(tasks, LAMBDA t : ~Mine(t))
      top == Max({0} \cup {kept[k].step : k \in {k \in DOMAIN kept : kept[k].order = o}})
      new == PaintTasks(o, i, items[i].form, ColourParts, PaintStages, top)
  IN /\ Edit /\ items[i].there
     /\ \A k \in DOMAIN tasks : Mine(tasks[k]) => tasks[k].status # "done"
     /\ Len(kept) + Len(new) <= MaxTasks
     /\ tasks' = kept \o new
     /\ UNCHANGED <<orders, items, parts, reqs, past>>

(* admin_delete_task, bulk_delete: the order's status stays.                *)
DeleteTask(k) == /\ Edit
                 /\ tasks' = RemoveAt(tasks, k)
                 /\ past' = [past EXCEPT !.thinned = @ \cup {tasks[k].order}]
                 /\ UNCHANGED <<orders, items, parts, reqs>>

(* The step a completion activates: of the same colour part for paint.      *)
NextSteps(k) ==
  LET t == tasks[k]
      Follows(n) == /\ tasks[n].order = t.order /\ tasks[n].step = t.step + 1
                    /\ IF t.station = "paint" /\ t.item # None
                       THEN /\ tasks[n].station = "paint" /\ tasks[n].item = t.item
                            /\ tasks[n].colour = t.colour
                       ELSE tasks[n].part = t.part
  IN {n \in DOMAIN tasks : Follows(n)}

(* update_order_status, after a completion.                                 *)
StatusFrom(o, rows) ==
  LET own == {k \in DOMAIN rows : rows[k].order = o}
  IN IF \A k \in own : rows[k].status = "done" THEN "completed"
     ELSE IF \E k \in own : rows[k].status = "done" THEN "producing" ELSE "planned"

(* A count on a task, and its completion when the quantity is met. Rows     *)
(* that tie for the next step come back in any order.                       *)
CountTask(k) ==
  LET t == tasks[k]
      count == Min({t.count + 1, t.quantity})
      counted == [tasks EXCEPT ![k].count = count,
                               ![k].status = IF count >= t.quantity THEN "done" ELSE @]
      next == NextSteps(k)
      Woken(n) == IF tasks[n].status = "waiting" THEN [counted EXCEPT ![n].status = "pending"]
                  ELSE counted
  IN /\ t.status # "done"
     /\ IF count < t.quantity
        THEN tasks' = counted /\ UNCHANGED orders
        ELSE /\ IF next = {} THEN tasks' = counted ELSE \E n \in next : tasks' = Woken(n)
             /\ orders' = [orders EXCEPT ![t.order] = StatusFrom(t.order, tasks')]
     /\ UNCHANGED <<items, parts, reqs, edits, past>>

MarkTaskDone(k) == CountTask(k)

(* The scanners of the CNC and drilling stations count one, too: the first part with the barcode, the first
   pending task of that part at the station.                                *)
ScanBarcode(p, station) ==
  LET first == Min({q \in DOMAIN parts : parts[q].barcode = parts[p].barcode})
      open == {k \in DOMAIN tasks : /\ tasks[k].part = first /\ tasks[k].station = station
                                    /\ tasks[k].status = "pending"}
      Before(k, n) == \/ tasks[k].order < tasks[n].order
                      \/ tasks[k].order = tasks[n].order /\ tasks[k].step <= tasks[n].step
  IN /\ parts[p].barcode # None /\ open # {}
     /\ \E k \in open : (\A n \in open : Before(k, n)) /\ CountTask(k)

ScanPartCnc(p) == ScanBarcode(p, "cnc")
ScanPartDr(p) == ScanBarcode(p, "dr")

Next ==
  \/ \E o \in OrderIds, form \in ItemForms : 
       \/ CreateOrder(o, form) \/ CustomerCreateOrder(o, form)
       \/ CreateOrderStep2(o, form) \/ AdminAddItem(o, form)
  \/ \E i \in ItemIds : \/ \E form \in ItemForms : AdminEditItem(i, form)
                        \/ AdminDeleteItem(i)
                        \/ AssignPaint(i)
  \/ \E o \in OrderIds : \/ \E status \in FormStatuses : AdminEditOrder(o, status)
                         \/ AdminDeleteOrder(o)
                         \/ GenerateOrderTasks(o)
                         \/ DeleteAllTasks(o)
                         \/ DeleteAllPaintTasks(o)
  \/ \E kind \in {"info", "add", "edit", "delete"}, o \in OrderIds, i \in ItemIds \cup {None} :
       CustomerCheck(kind, o, i)
  \/ \E r \in reqs : CustomerWrite(r)
  \/ \E k \in DOMAIN tasks : DeleteTask(k) \/ MarkTaskDone(k)
  \/ \E p \in DOMAIN parts : ScanPartCnc(p) \/ ScanPartDr(p)

Spec == Init /\ [][Next]_vars

(***************************************************************************)
(* Properties                                                               *)
(***************************************************************************)
(* Rows have the shape of their tables, and refer to rows that exist: the   *)
(* foreign keys of models.py with their on_delete rules.                    *)
TypeOK ==
  /\ orders \in [OrderIds -> Status \cup {"none"}]
  /\ \A i \in ItemIds : /\ items[i].order \in OrderIds /\ items[i].form \in ItemForms
                        /\ items[i].there => Exists(items[i].order)
  /\ \A k \in DOMAIN tasks :
       LET t == tasks[k] IN
         /\ Exists(t.order) /\ t.count \in 0..t.quantity
         /\ t.item # None => items[t.item].there /\ items[t.item].order = t.order
         /\ IF t.station = "paint" THEN t.part = None ELSE t.part \in DOMAIN parts
         /\ t.status = "done" => t.count = t.quantity
  /\ edits \in 0..MaxEdits /\ Cardinality(reqs) <= Customers

(* A waiting task is the next step of exactly one task that is still open,  *)
(* so a count on that one wakes it: the step numbers of generate_tasks and  *)
(* painting_assign_process, which run through the whole order, fit the      *)
(* lookup of complete_task, which knows the part and not the item.          *)
WaitingWillWake ==
  \A k \in DOMAIN tasks :
    tasks[k].status = "waiting" /\ tasks[k].order \notin past.again \cup past.thinned =>
      \E j \in DOMAIN tasks : tasks[j].status # "done" /\ NextSteps(j) = {k}

(* A draft has no station tasks, so what customers may still change has not *)
(* been cut yet; only a form that writes the status itself can break it.    *)
DraftHasNoTasks ==
  \A o \in OrderIds : orders[o] = "draft" /\ HasTasks(o) => o \in past.byHand

(* Every task makes what its item asks for: the part's material and length  *)
(* and the quantity follow the item as it is now, unless staff edited the   *)
(* item under its tasks or a customer's request raced the generation.       *)
TasksMatchItems ==
  \A k \in DOMAIN tasks :
    LET t == tasks[k] IN
      t.station # "paint" /\ t.item # None /\ t.item \notin past.stale =>
        LET form == items[t.item].form
            lines == Range(Bom[form.product])
        IN \E line \in lines : /\ SamePart(parts[t.part], WantedPart(line, t.item, form))
                              /\ t.quantity = line.quantity * form.quantity

(* A barcode finds one part (scan_part asks for exactly one and fails on    *)
(* two), unless the item it names was edited and generated again.           *)
BarcodeIsUnique ==
  \A p, q \in DOMAIN parts :
    p # q /\ parts[p].barcode = parts[q].barcode /\ parts[p].barcode # None =>
      parts[p].barcode.item \in past.remade

(* What the workshop cuts is what was ordered: drafts are not cut, tasks     *)
(* make what their items say, and a scanned barcode finds the one part.     *)
TasksFollowItems == DraftHasNoTasks /\ TasksMatchItems /\ BarcodeIsUnique
============================================================================
