------------------------------ MODULE Painting ------------------------------
(***************************************************************************)
(* The schedule of the painting shop.                                        *)
(*                                                                         *)
(* Automatic scheduling reads the day, plans in memory and writes the plan   *)
(* back, a day at a time and outside any transaction, so requests interleave *)
(* between their reads and their writes.  Manual edits are taken as one step. *)
(* Version V1 is product/utils.py with its views, V2 painting/scheduler.py   *)
(* behind the HTTP API; the version of a behaviour is chosen at the start.   *)
(***************************************************************************)
EXTENDS PaintingPlan

CONSTANTS
    Versions,   \* versions that are considered
    DefaultColor, \* task -> colour the product gives that part when none is ordered
    Given,      \* items that have their stages from the start
    Fridays,    \* days that are no working days in any case
    Holidays,   \* holidays in the calendar at the start
    NewHolidays,\* days that may become holidays
    Days,       \* the days requests are made for
    Batches,    \* sets of items a request names
    Requests,   \* requests that may be at work at the same time
    Horizon,    \* days automatic scheduling looks ahead (100 in the code)
    MaxOps,     \* bound: requests and manual edits
    MaxGen      \* bound: how often the stages of an item are created anew

VARIABLES
    version,  \* "V1" or "V2"
    tasks,    \* ProductionTask or ProductionOperation: the stages
    holidays, \* days in the calendar of holidays
    req,      \* what each request is at
    booked,   \* V2: stage -> number of PaintingScheduleItems
    raced,    \* history: a plan was written over a table that had changed
    late,     \* history: overtime was granted
    cut,      \* history: parts of which some stages were deleted and some not
    ops       \* requests and edits so far

\* _color_part_matches asks a model that does not exist for the ordered colour
\* and falls back on the product's: V2 plans as V1 does, but by other colours.
ColorPartMatches == DefaultColor
V2 == INSTANCE PaintingPlan WITH Color <- ColorPartMatches

\* V2PaintingScheduler._worker_rule_info and the other conditions on a worker.
MayDoOperation(w, t) == V2!MayDo(w, t)

vars == <<version, tasks, holidays, req, booked, raced, late, cut, ops>>

\* Fault: the calendar of holidays is not asked.
IsWorkingDay_FridaysOnly(d) == d \notin Fridays

IsWorkingDay(d) == d \notin Fridays \cup holidays

Items == {Item[t] : t \in Tasks}
TasksOf(items) == {t \in Tasks : Item[t] \in items}
ThereOf(v, items) == {t \in TasksOf(items) : v[t].status # "absent"}
FirstOfChain(t) == \A u \in Tasks : Chain(u) = Chain(t) => t <= u
Statuses == {"absent", "pending", "waiting", "done"}

StageRow == [status : Statuses, worker : Workers \cup {None}, start : Nat, gen : 0..MaxGen]

\* PaintingScheduleItem rows of each stage, counted.
ScheduleItems == [Tasks -> Nat]

\* Holiday rows, by their date, which is unique.
Calendar == SUBSET Nat

\* create_paint_tasks: the first stage of a part may begin, the others wait.
Fresh(t, gen) == [status |-> IF FirstOfChain(t) THEN "pending" ELSE "waiting",
                  worker |-> None, start |-> None, gen |-> gen]
Gone(t, v) == [v[t] EXCEPT !.status = "absent", !.worker = None, !.start = None]
Idle == [at |-> "idle"]

Init ==
    /\ version \in Versions
    /\ tasks = [t \in Tasks |->
                  IF Item[t] \in Given \/ version = "V2" THEN Fresh(t, 0)
                  ELSE [Fresh(t, 0) EXCEPT !.status = "absent"]]
    /\ holidays = Holidays
    /\ req = [r \in Requests |-> Idle]
    /\ booked = [t \in Tasks |-> 0]
    /\ raced = FALSE /\ late = FALSE /\ cut = {} /\ ops = 0

----------------------------------------------------------------------------
(* Creating and clearing.                                                    *)

\* create_paint_tasks for the items that have none.
Created(v, items) ==
    [t \in Tasks |-> IF Item[t] \in items /\ ThereOf(v, {Item[t]}) = {}
                     THEN Fresh(t, v[t].gen + 1) ELSE v[t]]

Deleted(v, S) == [t \in Tasks |-> IF t \in S THEN Gone(t, v) ELSE v[t]]
Unplanned(v, S) ==
    [t \in Tasks |-> IF t \in S THEN [v[t] EXCEPT !.worker = None, !.start = None] ELSE v[t]]

\* The parts that keep some of their stages when S is deleted.
Torn(v, S) == {c \in Chains : \E t \in S : Chain(t) = c} \cap
              {Chain(t) : t \in ThereOf(v, Items) \ S}
CutBy(v, S) == (cut \ {Chain(t) : t \in S}) \cup Torn(v, S)

Asked == ops < MaxOps /\ ops' = ops + 1
ByHand == Asked /\ version = "V1" /\ UNCHANGED <<version, req, booked, raced>>

----------------------------------------------------------------------------
(* Automatic scheduling: one day after the other is read, planned, written.  *)

\* Stages found by a query are known by id: created anew, a stage is another.
Ids(v, S) == {<<t, v[t].gen>> : t \in S}
Found(v, ids) == {t \in Tasks : v[t].status # "absent" /\ <<t, v[t].gen>> \in ids}
Unscheduled(v, S) == {t \in S : Open(v, t) /\ v[t].start = None}

RequestFor(v, todo, d, left, then) ==
    IF todo = {} THEN Idle
    ELSE [at |-> "load", todo |-> Ids(v, todo), day |-> d, left |-> left,
          cursor |-> InitialCursors(v), some |-> FALSE, then |-> then, seen |-> <<v, holidays>>]

\* schedule_paint_items_auto from day d on, over the stages of some items.
AutoRequest(v, items, d, then) ==
    RequestFor(v, Unscheduled(v, ThereOf(v, items)), d, Horizon, then)

\* auto_assign_paint_tasks on day d.
AssignRequest(v, d) ==
    LET todo == {t \in Tasks : /\ Open(v, t) /\ v[t].worker = None
                               /\ v[t].start = None \/ DayOf(v[t].start) = d}
    IN  IF IsWorkingDay(d) THEN RequestFor(v, todo, d, 1, FALSE) ELSE Idle

\* painting_add_to_schedule: stages are created, scheduled, and what is left
\* over on the last of the days is assigned.
AddToSchedule(r, items, d) ==
    LET v == Created(tasks, items)
    IN  /\ version = "V1" /\ req[r] = Idle /\ Asked
        /\ \A t \in Tasks : v[t].gen <= MaxGen
        /\ tasks' = v
        /\ req' = [req EXCEPT ![r] = AutoRequest(v, items, d, TRUE)]
        /\ UNCHANGED <<version, holidays, booked, raced, late, cut>>

\* painting_auto_assign
AutoAssign(r, d) ==
    /\ version = "V1" /\ req[r] = Idle /\ Asked /\ AssignRequest(tasks, d) # Idle
    /\ req' = [req EXCEPT ![r] = AssignRequest(tasks, d)]
    /\ UNCHANGED <<version, holidays, tasks, booked, raced, late, cut>>

\* painting_reset_schedule: the open stages of a day are freed and assigned anew.
ResetSchedule(r, d) ==
    LET v == Unplanned(tasks, {t \in OnDay(tasks, d) : Open(tasks, t)})
    IN  /\ version = "V1" /\ req[r] = Idle /\ Asked
        /\ tasks' = v
        /\ req' = [req EXCEPT ![r] = AssignRequest(v, d)]
        /\ UNCHANGED <<version, holidays, booked, raced, late, cut>>

\* repaint_item_ids_for_date: stages of the day are deleted, stages are created
\* for the items that have none left.
ToRepaint(items, d) == OnDay(tasks, d) \cap TasksOf(items)
RepaintItems(items, d) == Created(Deleted(tasks, ToRepaint(items, d)), items)

\* painting_repaint_items: and everything is scheduled.
Repaint(r, items, d) ==
    LET v == RepaintItems(items, d)
    IN  /\ version = "V1" /\ req[r] = Idle /\ Asked
        /\ \A t \in ToRepaint(items, d) : tasks[t].status # "done"
        /\ \A t \in Tasks : v[t].gen <= MaxGen
        /\ tasks' = v
        /\ cut' = CutBy(tasks, ToRepaint(items, d))
        /\ req' = [req EXCEPT ![r] = AutoRequest(v, items, d, FALSE)]
        /\ UNCHANGED <<version, holidays, booked, raced, late>>

\* What a request does when its days are over: the last assignment, or nothing.
Finish(q, v, some) == IF q.then /\ some THEN AssignRequest(v, q.day) ELSE Idle

\* After a day: on to the next one while stages are left over.
Onward(q, v, cursor, some) ==
    LET left == Unscheduled(v, Found(v, q.todo))
    IN  IF left # {} /\ q.left > 1
        THEN [at |-> "load", todo |-> Ids(v, left), day |-> q.day + 1, left |-> q.left - 1,
              cursor |-> cursor, some |-> some, then |-> q.then, seen |-> <<v, holidays>>]
        ELSE Finish(q, v, some)

\* A holiday is passed over.
SkipDay(r) ==
    /\ version = "V1" /\ req[r].at = "load" /\ ~IsWorkingDay(req[r].day)
    /\ req' = [req EXCEPT ![r] = IF @.left = 1 THEN Finish(@, tasks, @.some)
                                 ELSE [@ EXCEPT !.day = @ + 1, !.left = @ - 1, !.seen = <<tasks, holidays>>]]
    /\ raced' = (raced \/ <<tasks, holidays>> # req[r].seen)
    /\ UNCHANGED <<version, holidays, tasks, booked, late, cut, ops>>

\* A request with the plan in its hands, and what it was made from.
Loaded(q, plan) ==
    [at |-> "write", todo |-> q.todo, day |-> q.day, left |-> q.left, then |-> q.then,
     cursor |-> plan.cursor, some |-> q.some \/ plan.planned # {},
     seen |-> <<tasks, holidays>>, plan |-> [t \in plan.planned |-> plan.v[t]]]

\* PaintingScheduler.schedule, first half: the day is read and planned.
LoadDay(r) ==
    LET q == req[r]
    IN  /\ version = "V1" /\ q.at = "load" /\ IsWorkingDay(q.day)
        /\ req' = [req EXCEPT ![r] = Loaded(q, Build(tasks, Found(tasks, q.todo), q.day, q.cursor))]
        /\ raced' = (raced \/ <<tasks, holidays>> # q.seen)
        /\ UNCHANGED <<version, holidays, tasks, booked, late, cut, ops>>

\* bulk_update: worker and times of the planned stages that still exist.
Written(v, plan) ==
    [t \in Tasks |->
        IF t \in DOMAIN plan /\ v[t].status # "absent" /\ v[t].gen = plan[t].gen
        THEN Put(v, t, plan[t].worker, plan[t].start)[t] ELSE v[t]]

\* Second half: the plan is written over whatever the table holds now.
WriteDay(r) ==
    LET q == req[r]
    IN  /\ version = "V1" /\ q.at = "write"
        /\ tasks' = Written(tasks, q.plan)
        /\ req' = [req EXCEPT ![r] = Onward(q, tasks', q.cursor, q.some)]
        /\ raced' = (raced \/ <<tasks, holidays>> # q.seen)
        /\ UNCHANGED <<version, holidays, booked, late, cut, ops>>

----------------------------------------------------------------------------
(* Automatic scheduling, V2: one day, whether a working day or not.          *)

\* PaintingScheduleView.post: whatever operations and day are named.
ScheduleOperations(r, batch, d) ==
    /\ version = "V2" /\ req[r] = Idle /\ Asked
    /\ req' = [req EXCEPT ![r] = RequestFor(tasks, batch, d, 1, FALSE)]
    /\ UNCHANGED <<version, holidays, tasks, booked, raced, late, cut>>

\* Only the parts that have a stage on the day have a cursor.
CursorsOfDay(v, d) ==
    [c \in Chains |-> IF \E t \in OnDay(v, d) : Chain(t) = c THEN InitialCursors(v)[c] ELSE None]

\* V2PaintingScheduler.build
PlanOperations(v, ids, d) == V2!Build(v, Found(v, ids), d, CursorsOfDay(v, d))

\* V2PaintingScheduler._load and build
LoadOperations(r) ==
    LET q == req[r]
    IN  /\ version = "V2" /\ q.at = "load"
        /\ req' = [req EXCEPT ![r] = Loaded(q, PlanOperations(tasks, q.todo, q.day))]
        /\ raced' = (raced \/ <<tasks, holidays>> # q.seen)
        /\ UNCHANGED <<version, holidays, tasks, booked, late, cut, ops>>

\* V2PaintingScheduler.apply: a PaintingScheduleItem for each planned operation
\* and the operations themselves, in one transaction.
ApplyOperations(r) ==
    LET q == req[r]
    IN  /\ version = "V2" /\ q.at = "write"
        /\ tasks' = Written(tasks, q.plan)
        /\ booked' = [t \in Tasks |-> booked[t] + (IF t \in DOMAIN q.plan THEN 1 ELSE 0)]
        /\ req' = [req EXCEPT ![r] = Idle]
        /\ raced' = (raced \/ <<tasks, holidays>> # q.seen)
        /\ UNCHANGED <<version, holidays, late, cut, ops>>

----------------------------------------------------------------------------
(* Manual edits, V1: each taken as one step.                                 *)

\* assign_task_to_worker: the stage is put into the day of the worker, then the
\* days of the old and the new worker are put in order; all or nothing.
Moved(v, t, w, d, overtime, old) ==
    LET freed == IF old \in {None, w} THEN v ELSE Reschedule(v, old, d, IsWorkingDay(d), overtime)
    IN  Reschedule(freed, w, d, IsWorkingDay(d), overtime)

AssignTaskToWorker(t, w, target, overtime) ==
    LET d      == IF tasks[t].start # None THEN DayOf(tasks[t].start) ELSE target
        entry  == [task |-> t, worker |-> w, ready |-> ReadyTime(tasks, t)]
        result == Cascade(tasks, d, <<entry>>, overtime)
    IN  IF Open(tasks, t) /\ MayDo(w, t) /\ IsWorkingDay(d) /\ result.failure = "none"
        THEN Moved(result.v, t, w, d, overtime, tasks[t].worker) ELSE tasks

\* painting_assign_worker: overtime is granted by asking again.
AssignWorker(t, w, target, overtime) ==
    /\ ByHand
    /\ tasks' = AssignTaskToWorker(t, w, target, overtime) /\ tasks' # tasks
    /\ late' = (late \/ overtime)
    /\ UNCHANGED <<holidays, cut>>

\* painting_unassign_worker: done stages too.
UnassignWorker(t) ==
    LET v == Unplanned(tasks, {t})
        d == DayOf(tasks[t].start)
    IN  /\ ByHand
        /\ tasks[t].status # "absent"
        /\ tasks' = IF Scheduled(tasks, t) /\ tasks[t].worker # None
                    THEN Reschedule(v, tasks[t].worker, d, IsWorkingDay(d), FALSE) ELSE v
        /\ UNCHANGED <<holidays, late, cut>>

\* painting_clear_schedule: done stages too.
ClearSchedule(d) ==
    /\ ByHand
    /\ tasks' = Unplanned(tasks, OnDay(tasks, d))
    /\ UNCHANGED <<holidays, late, cut>>

\* painting_delete_tasks: the open ones of those named.
DeleteTasks(S) ==
    LET open == {t \in S : Open(tasks, t)}
    IN  /\ ByHand
        /\ tasks' = Deleted(tasks, open)
        /\ cut' = CutBy(tasks, open)
        /\ UNCHANGED <<holidays, late>>

\* delete_paint_tasks and, for all items of an order, delete_all_paint_tasks_for_order.
DeletePaintTasks(items) ==
    /\ ByHand /\ ThereOf(tasks, items) # {}
    /\ tasks' = Deleted(tasks, TasksOf(items))
    /\ cut' = CutBy(tasks, TasksOf(items))
    /\ UNCHANGED <<holidays, late>>

\* painting_assign_process and assign_painting_process: the stages of an item
\* are made anew.
AssignProcess(item) ==
    LET v == Created(Deleted(tasks, TasksOf({item})), {item})
    IN  /\ ByHand
        /\ \A t \in TasksOf({item}) : tasks[t].status # "done" /\ v[t].gen <= MaxGen
        /\ tasks' = v
        /\ cut' = CutBy(tasks, TasksOf({item}))
        /\ UNCHANGED <<holidays, late>>

Next1(t) == {u \in Tasks : Chain(u) = Chain(t) /\ u = t + 1}

\* Fault: the next stage is not called.
MarkDone_Silent(t) ==
    /\ ByHand /\ Open(tasks, t)
    /\ tasks' = [tasks EXCEPT ![t].status = "done"]
    /\ UNCHANGED <<holidays, late, cut>>

\* mark_task_done of a paint stage: the next stage of its part may begin.
MarkDone(t) ==
    /\ ByHand /\ Open(tasks, t)
    /\ tasks' = [u \in Tasks |->
          IF u = t THEN [tasks[u] EXCEPT !.status = "done"]
          ELSE IF u \in Next1(t) /\ tasks[u].status = "waiting"
          THEN [tasks[u] EXCEPT !.status = "pending"] ELSE tasks[u]]
    /\ UNCHANGED <<holidays, late, cut>>

\* painting_holidays_view: a day becomes a holiday once, or is one no more;
\* stages that are planned on it stay.
HolidayCreate(d) ==
    /\ ByHand /\ d \notin holidays
    /\ holidays' = holidays \cup {d}
    /\ UNCHANGED <<tasks, late, cut>>
HolidayDelete(d) ==
    /\ ByHand /\ d \in holidays
    /\ holidays' = holidays \ {d}
    /\ UNCHANGED <<tasks, late, cut>>

----------------------------------------------------------------------------
(* Pages.                                                                    *)

\* painting_schedule_view: a column for each worker, and one for the rest.
ScheduleColumn(v, w, d) == {t \in OnDay(v, d) : v[t].worker = w}
UnscheduledColumn(v) == {t \in Tasks : Open(v, t) /\ v[t].start = None}

\* daily_schedule_print: stages without a worker are not printed.
DailySchedulePrint(v, d) == {t \in OnDay(v, d) : v[t].worker # None}

Next ==
    \/ \E r \in Requests :
          \/ \E items \in Batches, d \in Days : AddToSchedule(r, items, d) \/ Repaint(r, items, d)
          \/ \E d \in Days : AutoAssign(r, d) \/ ResetSchedule(r, d)
          \/ \E d \in Days :
                \/ \E items \in Batches : ScheduleOperations(r, TasksOf(items), d)
                \/ \E t \in Tasks : ScheduleOperations(r, {t}, d)
          \/ SkipDay(r) \/ LoadDay(r) \/ WriteDay(r)
          \/ LoadOperations(r) \/ ApplyOperations(r)
    \/ \E t \in Tasks, w \in Workers, d \in Days, overtime \in BOOLEAN :
          AssignWorker(t, w, d, overtime)
    \/ \E t \in Tasks : UnassignWorker(t) \/ DeleteTasks({t}) \/ MarkDone(t)
    \/ \E d \in Days : ClearSchedule(d)
    \/ \E d \in NewHolidays : HolidayCreate(d)
    \/ \E d \in holidays : HolidayDelete(d)
    \/ \E items \in Batches : DeleteTasks(TasksOf(items)) \/ DeletePaintTasks(items)
    \/ \E item \in Items : AssignProcess(item)

Spec == Init /\ [][Next]_vars

----------------------------------------------------------------------------
(* Properties.                                                               *)

\* Every stage and request has a value of its kind.
TypeOK ==
    /\ version \in Versions
    /\ tasks \in [Tasks -> StageRow] /\ booked \in ScheduleItems
    /\ \A r \in Requests : req[r].at \in {"idle", "load", "write"}
    /\ holidays \in Calendar /\ cut \subseteq Chains /\ raced \in BOOLEAN /\ late \in BOOLEAN /\ ops \in 0..MaxOps

Overlap(v, t, u) == v[t].start < End(v, u) /\ v[u].start < End(v, t)

\* A worker never has two stages at the same time, as long as no plan was
\* written over a table that had changed since it was read.
NoDoubleBooking ==
    ~raced => \A t, u \in Tasks :
        t # u /\ Scheduled(tasks, t) /\ Scheduled(tasks, u) /\ tasks[t].worker = tasks[u].worker
            => ~Overlap(tasks, t, u)

\* No stage runs through the lunch break of its worker, nor, unless overtime
\* was granted, past the end of the day.
WithinHours ==
    ~raced => \A t \in Tasks : Scheduled(tasks, t) =>
        LET hours == Bounds(tasks[t].worker, DayOf(tasks[t].start), late)
        IN  /\ hours.start <= tasks[t].start /\ End(tasks, t) <= hours.end
            /\ End(tasks, t) <= hours.lunchStart \/ hours.lunchEnd <= tasks[t].start

InSequence(v, c) ==
    \A t, u \in Tasks : t < u /\ Chain(t) = c /\ Chain(u) = c /\ Scheduled(v, t) /\ Scheduled(v, u)
        => End(v, t) + Dry[t] <= v[u].start
Holeless(v, c) ==
    \A t, u \in Tasks : t < u /\ Chain(t) = c /\ Chain(u) = c /\ Scheduled(v, u) => Scheduled(v, t)
OneDay(v, c) == Cardinality({DayOf(v[t].start) : t \in {t \in Tasks : Chain(t) = c /\ Scheduled(v, t)}}) <= 1

\* No schedule, push or manual move puts a stage before the one before it is
\* dry, when the stages of the part were in sequence and none before a scheduled
\* one was missing.  V2 keeps this within one day only.
OrderKept ==
    [][\A c \in Chains :
          /\ ~raced' /\ InSequence(tasks, c) /\ Holeless(tasks, c)
          /\ version = "V2" => OneDay(tasks', c)
          => InSequence(tasks', c)]_vars

\* No schedule, push or manual move brings a stage to another time of a day on
\* which the shop is closed, although holidays come and go.  V2 never asks.
OpenDaysOnly ==
    [][\A t \in Tasks :
          /\ ~raced' /\ version = "V1"
          /\ tasks'[t].start \notin {None, tasks[t].start}
          => DayOf(tasks'[t].start) \notin Fridays \cup holidays]_vars

\* Nobody has a stage that a rule, a missing skill or a bar forbids him,
\* not even after stages were pushed and plans were written late.
RulesRespected ==
    \A t \in Tasks : tasks[t].worker # None =>
        IF version = "V1" THEN MayDo(tasks[t].worker, t) ELSE MayDoOperation(tasks[t].worker, t)

\* A stage that waits has a stage before it that will call it, unless somebody
\* deleted that one and kept this.
WaitingHasWaker ==
    \A t \in Tasks : tasks[t].status = "waiting" /\ Chain(t) \notin cut =>
        \E u \in Tasks : t \in Next1(u) /\ Open(tasks, u)

\* V2: a stage is in the schedule exactly when one item of it says so.
BookedOnce ==
    ~raced /\ version = "V2" =>
        \A t \in Tasks : booked[t] = IF Scheduled(tasks, t) THEN 1 ELSE 0

\* No open stage is lost: the schedule shows it without a time or on the page
\* and the printed plan of one day, whatever was written late or freed.
EveryStageIsShown ==
    version = "V1" => \A t \in Tasks : Open(tasks, t) =>
        LET d == DayOf(tasks[t].start)
        IN  \/ t \in UnscheduledColumn(tasks) /\ tasks[t].worker = None
            \/ /\ \E w \in Workers : t \in ScheduleColumn(tasks, w, d)
               /\ t \in DailySchedulePrint(tasks, d)

\* What the shop relies on at any moment: nobody is booked twice, hours are
\* kept, V2's items agree with the operations, and pages show every stage.
ScheduleIsSound == TypeOK /\ EveryStageIsShown /\ BookedOnce /\ NoDoubleBooking /\ WithinHours
=============================================================================
