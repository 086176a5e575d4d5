--------------------------- MODULE ProductionTasks ---------------------------
(***************************************************************************)
(* The V1 production tasks of one order while HTTP requests work on them.   *)
(*                                                                         *)
(* The tasks exist already: Init is the table Order.generate_tasks leaves.  *)
(* A request first loads its rows (outside any transaction) and later       *)
(* writes them back.  LegacyProductionService.complete_task is one          *)
(* transaction.atomic block, hence one action; ProductionTask.save called   *)
(* by a view outside a transaction commits statement by statement, hence    *)
(* one action per statement.  A block of transaction.atomic is isolated     *)
(* because the database is SQLite: a second writer waits or is refused with *)
(* "database is locked", which is Abort here.                               *)
(*                                                                         *)
(* A task is named by its step_order, which generate_tasks numbers from 1   *)
(* over the whole order.  LaneOf groups the tasks whose steps follow each   *)
(* other: the part, or (order_item, color_part) for paint tasks.            *)
(***************************************************************************)
EXTENDS Integers, FiniteSets

CONSTANTS
    Workers,    \* requests that may be in flight at once
    N,          \* number of tasks of the order
    LaneOf,     \* task -> the part (or painted item and colour part) it is for
    Firsts,     \* tasks that start the route of a BOM entry
    Qty,        \* task -> quantity to produce
    Metered,    \* tasks whose part's material is linked to a raw material
    Views,      \* worker -> the views it uses, with "abort" if they may fail
    MaxEvents   \* bound: no request starts once a task has more done events
                \* or has drawn its material more often

Tasks == 1..N

\* Views that only write through complete_task, inside one atomic block.
AtomicOps == {"mark", "count", "scan", "admin_done"}
\* Views that call ProductionTask.save() outside a transaction.
SavingOps == {"set_status", "bulk", "fix"}
DeletingOps == {"delete", "clear"}

ASSUME ConstantsAssumption ==
    /\ N \in Nat \ {0}
    /\ DOMAIN LaneOf = Tasks
    /\ Firsts \subseteq Tasks
    /\ \A t \in Tasks : t = 1 \/ LaneOf[t - 1] # LaneOf[t] => t \in Firsts
    /\ Qty \in [Tasks -> Nat \ {0}]
    /\ Metered \subseteq Tasks
    /\ Views \in [Workers -> SUBSET (AtomicOps \cup SavingOps
                                      \cup DeletingOps \cup {"abort"})]
    /\ MaxEvents \in Nat

VARIABLES
    task,        \* the ProductionTask table
    order,       \* Order.status
    doneEvents,  \* task -> number of its ProductionEvent rows of type 'done'
    movements,   \* task -> consumption StockMovements that reference it
    drawn,       \* task -> times its material was taken out of stock
    req          \* the request each worker has in flight

tables == <<task, order, doneEvents, movements, drawn>>
vars == <<task, order, doneEvents, movements, drawn, req>>

TaskStatus == {"waiting", "pending", "done"}
OrderStatus == {"draft", "planned", "producing", "completed"}

Row == [status: TaskStatus \cup {"absent"}, completed: Nat]
Absent == [status |-> "absent", completed |-> 0]

\* ProductionEvent rows of type 'done', counted.
DoneEvents == [Tasks -> Nat]

Steps == {"idle", "commit", "loop", "save", "write", "event", "consume",
          "create", "next", "activate", "count", "order"}

RequestRecord ==
    [pc: Steps,
     op: AtomicOps \cup SavingOps \cup {"none"},
     todo: SUBSET Tasks,       \* tasks of the list still to be visited
     rows: [Tasks -> Row],     \* the list, as it was loaded
     new: TaskStatus,          \* status asked for by the form
     cur: Tasks,               \* the task object in hand ...
     mem: Row,                 \* ... and its fields
     fires: BOOLEAN,           \* save() saw a transition to done
     next: Row,                \* fields of next_step
     order: OrderStatus \cup {"unread"}]  \* status of the cached task.order

\* Only a status that was read or counted is written to the order.
Request == {r \in RequestRecord : r.pc = "order" => r.order # "unread"}

Idle == [pc |-> "idle", op |-> "none", todo |-> {},
         rows |-> [t \in Tasks |-> Absent], new |-> "waiting", cur |-> 1,
         mem |-> Absent, fires |-> FALSE, next |-> Absent, order |-> "unread"]

-----------------------------------------------------------------------------
(* What one statement or one line of the handlers computes *)

Exists(tbl, t) == tbl[t].status # "absent"

\* The filter on (order, part, step_order + 1): t has a next step in tbl.
HasNext(tbl, t) == /\ t + 1 \in Tasks
                   /\ LaneOf[t + 1] = LaneOf[t]
                   /\ Exists(tbl, t + 1)

NextIsWaiting(tbl, t) == HasNext(tbl, t) /\ tbl[t + 1].status = "waiting"

\* Fault: the next step is never activated.
Activate_Never(tbl, t) == tbl

\* Fault: the next step gets the V2 status name.
Activate_Ready(tbl, t) ==
    IF NextIsWaiting(tbl, t) THEN [tbl EXCEPT ![t + 1].status = "ready"] ELSE tbl

\* complete_task: a waiting next step becomes pending.
Activate(tbl, t) ==
    IF NextIsWaiting(tbl, t)
    THEN [tbl EXCEPT ![t + 1].status = "pending"]
    ELSE tbl

\* Fault: waiting tasks are not counted.
DerivedStatus_SkipsWaiting(tbl) ==
    IF \A t \in Tasks : tbl[t].status \in {"absent", "waiting", "done"}
    THEN "completed" ELSE "producing"

\* ProductionTask.update_order_status: the status the tasks call for.
DerivedStatus(tbl) ==
    LET live == {t \in Tasks : Exists(tbl, t)}
        done == {t \in live : tbl[t].status = "done"}
    IN  IF done = live THEN "completed"
        ELSE IF done # {} THEN "producing"
        ELSE "planned"

\* The views that count pieces add one and clamp to the quantity.
Counted(o, t, n) ==
    IF o \in {"mark", "count"} /\ n < Qty[t] THEN n + 1 ELSE n

\* complete_task and save(): a row that reaches its quantity is done.
Closed(t, row) ==
    IF row.completed >= Qty[t] THEN [row EXCEPT !.status = "done"] ELSE row

\* Fault: no exists() check.
ConsumptionDue_Always(t) == t \in Metered

\* consume_material_for_task: a movement is due unless one references t.
ConsumptionDue(t) == t \in Metered /\ movements[t] = 0

\* save(): status and completed_quantity of the object after the SELECT of
\* the old status.
Settled(t, row, old) ==
    LET closed == Closed(t, row)
    IN  IF closed.status = "done" /\ old # "done"
        THEN [closed EXCEPT !.completed = Qty[t]]
        ELSE closed

\* Fault: fix_chain's update_fields misses the status.
Written_NoStatus(o, t, row, fires) == IF o = "fix" THEN task[t] ELSE row

\* The columns the UPDATE of save() sets: fix_chain passes
\* update_fields=['status'], save() adds completed_quantity to a completion.
Written(o, t, row, fires) ==
    IF o = "fix" /\ ~fires
    THEN [task[t] EXCEPT !.status = row.status]
    ELSE row

First(S) == CHOOSE t \in S : \A u \in S : t <= u

Loading(w) ==
    /\ req[w].pc = "idle"
    /\ \A t \in Tasks : doneEvents[t] <= MaxEvents /\ drawn[t] <= MaxEvents
Continue(w, r) == req' = [req EXCEPT ![w] = r]
Finish(w) == Continue(w, Idle)

-----------------------------------------------------------------------------
(* Completion through LegacyProductionService.complete_task *)

\* The view fetches the task.  scan_part also caches its order
\* (select_related); the others fetch the order inside the block.
LoadTask(w, o, t) ==
    /\ Loading(w)
    /\ o \in Views[w] \cap AtomicOps
    /\ Exists(task, t)
    /\ o \in {"count", "scan"} => task[t].status = "pending"
    /\ Continue(w, [Idle EXCEPT !.pc = "commit", !.op = o, !.cur = t,
                                !.mem = task[t],
                                !.order = IF o = "scan" THEN order ELSE "unread"])
    /\ UNCHANGED tables

\* The object as complete_task writes it.
Completed(r) ==
    Closed(r.cur, [r.mem EXCEPT !.completed = Counted(r.op, r.cur, r.mem.completed)])

\* complete_task transitions when the object in hand was not done; its
\* other branch calls save(), which transitions when the row was not done.
TransitionsInHand(r) == Completed(r).status = "done" /\ r.mem.status # "done"
TransitionsInSave(r) == /\ Completed(r).status = "done"
                        /\ r.mem.status = "done"
                        /\ task[r.cur].status # "done"

\* Row, event, consumption, next step and order status of one completion.
CompleteEffects(t, row, cachedOrder) ==
    LET tbl == Activate([task EXCEPT ![t] = row], t)
    IN  /\ task' = tbl
        /\ doneEvents' = [doneEvents EXCEPT ![t] = @ + 1]
        /\ IF ConsumptionDue(t)
           THEN /\ movements' = [movements EXCEPT ![t] = @ + 1]
                /\ drawn' = [drawn EXCEPT ![t] = @ + 1]
           ELSE UNCHANGED <<movements, drawn>>
        /\ order' = IF DerivedStatus(tbl) # cachedOrder
                    THEN DerivedStatus(tbl) ELSE order

\* task.order is read once and then kept.
CachedOrder(r) == IF r.order = "unread" THEN order ELSE r.order

\* First branch.  save(update_fields=...) refuses a row that is gone.
CompleteTask(w) ==
    LET r == req[w]
    IN  /\ r.pc = "commit"
        /\ TransitionsInHand(r)
        /\ IF Exists(task, r.cur)
           THEN CompleteEffects(r.cur, Completed(r), CachedOrder(r))
           ELSE UNCHANGED tables
        /\ Finish(w)

\* Fault: the next step is activated whether or not the task is done.
SaveProgress_Activates(w) ==
    /\ req[w].pc = "commit"
    /\ ~TransitionsInHand(req[w])
    /\ task' = Activate([task EXCEPT ![req[w].cur] = Completed(req[w])], req[w].cur)
    /\ Finish(w)
    /\ UNCHANGED <<order, doneEvents, movements, drawn>>

\* Fault: the order's status follows every save, partial ones included.
SaveProgress_UpdatesOrder(w) ==
    /\ req[w].pc = "commit"
    /\ ~TransitionsInHand(req[w])
    /\ task' = [task EXCEPT ![req[w].cur] = Completed(req[w])]
    /\ order' = DerivedStatus(task')
    /\ Finish(w)
    /\ UNCHANGED <<doneEvents, movements, drawn>>

\* Second branch: a full save() of the object in hand, which inserts the row
\* again when it was deleted.
SaveProgress(w) ==
    LET r == req[w]
    IN  /\ r.pc = "commit"
        /\ ~TransitionsInHand(r)
        /\ IF TransitionsInSave(r)
           THEN CompleteEffects(r.cur, Completed(r), CachedOrder(r))
           ELSE /\ task' = [task EXCEPT ![r.cur] = Completed(r)]
                /\ UNCHANGED <<order, doneEvents, movements, drawn>>
        /\ Finish(w)

-----------------------------------------------------------------------------
(* Views that save tasks outside a transaction *)

\* admin_order_tasks, status 'waiting' or 'pending'.
LoadSetStatus(w, t, s) ==
    /\ Loading(w)
    /\ "set_status" \in Views[w]
    /\ Exists(task, t)
    /\ Continue(w, [Idle EXCEPT !.pc = "save", !.op = "set_status", !.cur = t,
                                !.mem = [task[t] EXCEPT !.status = s]])
    /\ UNCHANGED tables

\* admin_tasks_management, bulk_status: the queryset is read once.
LoadBulk(w, S, s) ==
    /\ Loading(w)
    /\ "bulk" \in Views[w]
    /\ \A t \in S : Exists(task, t)
    /\ Continue(w, [Idle EXCEPT !.pc = "loop", !.op = "bulk", !.todo = S,
                                !.rows = [t \in Tasks |->
                                            IF t \in S THEN task[t] ELSE Absent],
                                !.new = s])
    /\ UNCHANGED tables

\* admin_tasks_management, fix_chain: the done tasks of the order's list.
LoadFix(w) ==
    /\ req[w].pc = "idle"
    /\ "fix" \in Views[w]
    /\ \E t \in Tasks : Exists(task, t)
    /\ Continue(w, [Idle EXCEPT !.pc = "loop", !.op = "fix",
                                !.todo = {t \in Tasks : task[t].status = "done"}])
    /\ UNCHANGED tables

\* Fault: the bulk form leaves completed_quantity as it was loaded.
BulkRow_KeepsQuantity(t, row, s) == [row EXCEPT !.status = s]

\* bulk_status gives a task that was not done its full quantity.
BulkRow(t, row, s) ==
    [status |-> s,
     completed |-> IF s = "done" /\ row.status # "done" THEN Qty[t]
                   ELSE row.completed]

\* Its 'status_changed' event reads task.order before save() does.
BulkNext(w) ==
    LET r == req[w]
        t == First(r.todo)
    IN  /\ r.pc = "loop" /\ r.op = "bulk" /\ r.todo # {}
        /\ Continue(w, [r EXCEPT !.pc = "save", !.todo = @ \ {t}, !.cur = t,
                                 !.rows[t] = Absent,
                                 !.mem = BulkRow(t, r.rows[t], r.new),
                                 !.order = IF r.new = "done" /\ r.rows[t].status # "done"
                                           THEN order ELSE "unread"])
        /\ UNCHANGED tables

\* fix_chain reads the next step of each done task afresh.
FixNext(w) ==
    LET r == req[w]
        t == First(r.todo)
    IN  /\ r.pc = "loop" /\ r.op = "fix" /\ r.todo # {}
        /\ IF NextIsWaiting(task, t)
           THEN Continue(w, [r EXCEPT !.pc = "save", !.todo = @ \ {t},
                                      !.cur = t + 1,
                                      !.mem = [task[t + 1] EXCEPT !.status = "pending"]])
           ELSE Continue(w, [r EXCEPT !.todo = @ \ {t}])
        /\ UNCHANGED tables

LoopEnd(w) ==
    /\ req[w].pc = "loop" /\ req[w].todo = {}
    /\ Finish(w)
    /\ UNCHANGED tables

\* Where a request goes when save() returns.
Returned(r) == IF r.op = "set_status" THEN Idle
               ELSE [r EXCEPT !.pc = "loop", !.cur = 1, !.mem = Absent,
                              !.fires = FALSE, !.next = Absent, !.order = "unread"]

-----------------------------------------------------------------------------
(* ProductionTask.save(), one statement at a time *)

\* SELECT of the old status.
SaveSelect(w) ==
    LET r == req[w]
        old == task[r.cur].status
        row == Settled(r.cur, r.mem, old)
    IN  /\ r.pc = "save"
        /\ Continue(w, [r EXCEPT !.pc = "write", !.mem = row,
                                 !.fires = row.status = "done" /\ old # "done"])
        /\ UNCHANGED tables

\* UPDATE.  With update_fields a row that is gone is an error; without, the
\* row is inserted again.
SaveWrite(w) ==
    LET r == req[w]
    IN  /\ r.pc = "write"
        /\ IF ~Exists(task, r.cur) /\ r.op # "set_status"
           THEN UNCHANGED task /\ Finish(w)
           ELSE /\ task' = [task EXCEPT ![r.cur] =
                                Written(r.op, r.cur, r.mem, r.fires)]
                /\ Continue(w, IF r.fires THEN [r EXCEPT !.pc = "event"]
                                          ELSE Returned(r))
        /\ UNCHANGED <<order, doneEvents, movements, drawn>>

\* log_production_event reads task.order, which stays cached.  An event for
\* a deleted task fails its foreign key and is swallowed.
SaveEvent(w) ==
    LET r == req[w]
    IN  /\ r.pc = "event"
        /\ doneEvents' = IF Exists(task, r.cur)
                         THEN [doneEvents EXCEPT ![r.cur] = @ + 1]
                         ELSE doneEvents
        /\ Continue(w, [r EXCEPT !.pc = "consume", !.order = CachedOrder(r)])
        /\ UNCHANGED <<task, order, movements, drawn>>

\* consume_material_for_task: exists(), then create().
SaveConsume(w) ==
    LET r == req[w]
    IN  /\ r.pc = "consume"
        /\ Continue(w, [r EXCEPT !.pc = IF ConsumptionDue(r.cur)
                                        THEN "create" ELSE "next"])
        /\ UNCHANGED tables

SaveCreate(w) ==
    LET r == req[w]
    IN  /\ r.pc = "create"
        /\ IF Exists(task, r.cur)
           THEN /\ movements' = [movements EXCEPT ![r.cur] = @ + 1]
                /\ drawn' = [drawn EXCEPT ![r.cur] = @ + 1]
           ELSE UNCHANGED <<movements, drawn>>
        /\ Continue(w, [r EXCEPT !.pc = "next"])
        /\ UNCHANGED <<task, order, doneEvents>>

\* The next step is read ...
SaveNext(w) ==
    LET r == req[w]
    IN  /\ r.pc = "next"
        /\ IF NextIsWaiting(task, r.cur)
           THEN Continue(w, [r EXCEPT !.pc = "activate",
                                      !.next = [task[r.cur + 1] EXCEPT !.status = "pending"]])
           ELSE Continue(w, [r EXCEPT !.pc = "count"])
        /\ UNCHANGED tables

\* ... and the whole row is saved.
SaveActivate(w) ==
    LET r == req[w]
    IN  /\ r.pc = "activate"
        /\ task' = [task EXCEPT ![r.cur + 1] = r.next]
        /\ Continue(w, [r EXCEPT !.pc = "count", !.next = Absent])
        /\ UNCHANGED <<order, doneEvents, movements, drawn>>

\* update_order_status compares the counts with the cached order ...
SaveCount(w) ==
    LET r == req[w]
    IN  /\ r.pc = "count"
        /\ IF /\ \E t \in Tasks : Exists(task, t)
              /\ DerivedStatus(task) # r.order
           THEN Continue(w, [r EXCEPT !.pc = "order", !.order = DerivedStatus(task)])
           ELSE Continue(w, Returned(r))
        /\ UNCHANGED tables

\* ... and writes the status.
SaveOrder(w) ==
    LET r == req[w]
    IN  /\ r.pc = "order"
        /\ order' = r.order
        /\ Continue(w, Returned(r))
        /\ UNCHANGED <<task, doneEvents, movements, drawn>>

-----------------------------------------------------------------------------
(* Deletion, failure *)

\* Events cascade; consumption movements lose their reference_task.
Deleted(S) ==
    /\ task' = [t \in Tasks |-> IF t \in S THEN Absent ELSE task[t]]
    /\ doneEvents' = [t \in Tasks |-> IF t \in S THEN 0 ELSE doneEvents[t]]
    /\ movements' = [t \in Tasks |-> IF t \in S THEN 0 ELSE movements[t]]
    /\ UNCHANGED <<drawn, req>>

\* admin_delete_task and bulk_delete: the order's status is left alone.
DeleteTasks(w, S) ==
    /\ "delete" \in Views[w]
    /\ \A t \in S : Exists(task, t)
    /\ Deleted(S)
    /\ UNCHANGED order

\* delete_all_tasks.
DeleteAllTasks(w) ==
    /\ "clear" \in Views[w]
    /\ Deleted(Tasks)
    /\ order' = "draft"

\* An exception, a refused lock or a killed process ends a request.  What
\* complete_task had done is rolled back; what save() had done stays.
Abort(w) ==
    /\ "abort" \in Views[w]
    /\ req[w].pc # "idle"
    /\ Finish(w)
    /\ UNCHANGED tables

-----------------------------------------------------------------------------

\* What generate_tasks leaves: the first station of each route is pending.
Init ==
    /\ task = [t \in Tasks |-> [status |-> IF t \in Firsts THEN "pending"
                                           ELSE "waiting",
                                completed |-> 0]]
    /\ order = "planned"
    /\ doneEvents = [t \in Tasks |-> 0]
    /\ movements = [t \in Tasks |-> 0]
    /\ drawn = [t \in Tasks |-> 0]
    /\ req = [w \in Workers |-> Idle]

SaveStep(w) ==
    \/ SaveSelect(w) \/ SaveWrite(w) \/ SaveEvent(w) \/ SaveConsume(w)
    \/ SaveCreate(w) \/ SaveNext(w) \/ SaveActivate(w) \/ SaveCount(w)
    \/ SaveOrder(w)

\* A request that was loaded goes on.
Proceed(w) ==
    \/ CompleteTask(w) \/ SaveProgress(w)
    \/ BulkNext(w) \/ FixNext(w) \/ LoopEnd(w)
    \/ SaveStep(w)

LoadStep(w) ==
    \/ \E o \in AtomicOps, t \in Tasks : LoadTask(w, o, t)
    \/ \E t \in Tasks, s \in {"waiting", "pending"} : LoadSetStatus(w, t, s)
    \/ \E S \in SUBSET Tasks \ {{}}, s \in TaskStatus : LoadBulk(w, S, s)
    \/ LoadFix(w)

Next ==
    \E w \in Workers :
        \/ LoadStep(w)
        \/ Proceed(w)
        \/ \E S \in SUBSET Tasks \ {{}} : DeleteTasks(w, S)
        \/ DeleteAllTasks(w)
        \/ Abort(w)

Spec == Init /\ [][Next]_vars

\* The floor keeps working: some worker loads a countable task while one is
\* pending, and not every attempt of a request fails.
FairSpec ==
    /\ Spec
    /\ \A w \in Workers :
         /\ WF_vars(\E t \in Tasks : LoadTask(w, "count", t))
         /\ SF_vars(Proceed(w))

\* Whoever may run fix_chain keeps running it, and not every run is aborted
\* at the same statement; other requests go on unless they are aborted.
FixRuns(w, step) == req[w].op = "fix" /\ step

RepairSpec ==
    /\ Spec
    /\ \A w \in Workers : WF_vars(Proceed(w))
    /\ \A w \in {v \in Workers : "fix" \in Views[v]} :
         /\ SF_vars(LoadFix(w))
         /\ SF_vars(FixRuns(w, FixNext(w)))
         /\ SF_vars(FixRuns(w, SaveSelect(w)))
         /\ SF_vars(FixRuns(w, SaveWrite(w)))

-----------------------------------------------------------------------------
(* Properties *)

\* Every table and every request in flight has its type.
TypeOK ==
    /\ task \in [Tasks -> Row]
    /\ order \in OrderStatus
    /\ doneEvents \in DoneEvents
    /\ movements \in [Tasks -> Nat]
    /\ drawn \in [Tasks -> Nat]
    /\ req \in [Workers -> Request]

RowConsistent(t, row) ==
    /\ row.completed <= Qty[t]
    /\ row.status = "done" => row.completed = Qty[t]
    /\ row.status = "waiting" => row.completed < Qty[t]

\* However full-row saves, two-column saves and status-only saves of stale
\* objects interleave, no row says done below its quantity and no waiting
\* row has all its pieces (ProductionTask.save, complete_task, fix_chain).
RowsConsistent == \A t \in Tasks : RowConsistent(t, task[t])

\* The material of a task leaves the stock at most once, whatever requests
\* race to complete it ("idempotent", utils.py consume_material_for_task).
ConsumedAtMostOnce == \A t \in Tasks : drawn[t] <= 1

\* A done task has its event, and its consumption when it is metered: the
\* effects of complete_task are never separated from the transition.
CompletionAccounted ==
    \A t \in Tasks : task[t].status = "done" =>
        /\ doneEvents[t] >= 1
        /\ t \in Metered => movements[t] >= 1

\* The order is reported completed only if every task it has was completed
\* at some time, though stale saves may since have reopened one.
OrderCompletedMeansWorked ==
    order = "completed" =>
        \A t \in Tasks : Exists(task, t) => doneEvents[t] >= 1

\* Nothing is reported that was not worked and booked: no task without its
\* event and consumption, and no order without its tasks.
WorkIsAccounted == CompletionAccounted /\ OrderCompletedMeansWorked

\* A step is pending only after the step before it was completed, whatever
\* stale rows the views that complete through complete_task write.
ActivationEarned ==
    \A t \in Tasks :
        /\ HasNext(task, t) /\ t + 1 \notin Firsts
        /\ task[t + 1].status = "pending"
        => doneEvents[t] >= 1

\* An order that production has started on never goes back to planned.
NeverReplanned ==
    [][(order \in {"producing", "completed"}) => (order' # "planned")]_vars

\* A next step left waiting behind a done step.
Stranded(t) == task[t].status = "done" /\ NextIsWaiting(task, t)

\* While workers keep counting pieces the order is completed, lost updates
\* and aborted requests notwithstanding.
OrderCompletes == <>(order = "completed")

\* fix_chain repairs what a crash inside save() or a stale save strands.
StrandedIsRepaired == \A t \in Tasks : Stranded(t) ~> ~Stranded(t)
=============================================================================
