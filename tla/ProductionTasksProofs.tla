------------------------ MODULE ProductionTasksProofs ------------------------
(***************************************************************************)
(* Theorems about the V1 production tasks, for any order and any requests.  *)
(***************************************************************************)
EXTENDS ProductionTasks, WellFoundedInduction, TLAPS

USE DEF DoneEvents

(* Lemmas about the operators of the module *)

\* The list a view walks through has a first task.
LEMMA FirstMember ==
  ASSUME NEW S \in SUBSET Tasks, S # {}
  PROVE  First(S) \in S
<1>1. S \in SUBSET Nat
  BY ConstantsAssumption DEF ConstantsAssumption, Tasks
<1>2. \E t \in S : \A u \in S : ~(<<u, t>> \in OpToRel(<, Nat))
  BY <1>1, NatLessThanWellFounded, WFMin
<1>3. PICK t \in S : \A u \in S : ~(<<u, t>> \in OpToRel(<, Nat))
  BY <1>2
<1>4. OpToRel(<, Nat) = {p \in Nat \X Nat : p[1] < p[2]}
  BY Zenon DEF OpToRel
<1>5. ASSUME NEW u \in S PROVE t <= u
  <2>1. <<u, t>> \notin {p \in Nat \X Nat : p[1] < p[2]}
    BY <1>3, <1>4, Zenon
  <2>2. u \in Nat /\ t \in Nat
    BY <1>1
  <2>3. QED
    BY <2>1, <2>2
<1>6. QED
  BY <1>5 DEF First

LEMMA ActivateType ==
  ASSUME NEW tbl \in [Tasks -> Row], NEW t \in Tasks
  PROVE  Activate(tbl, t) \in [Tasks -> Row]
BY DEF Activate, NextIsWaiting, HasNext, Row, TaskStatus

LEMMA DerivedStatusType ==
  ASSUME NEW tbl
  PROVE  DerivedStatus(tbl) \in OrderStatus
BY DEF DerivedStatus, OrderStatus

LEMMA AbsentType == Absent \in Row
BY DEF Absent, Row

LEMMA IdleType == Idle \in Request
<1>1. 1 \in Tasks
  BY ConstantsAssumption DEF ConstantsAssumption, Tasks
<1>2. QED
  BY <1>1, AbsentType DEF Idle, Request, RequestRecord, Steps, TaskStatus

LEMMA ClosedType ==
  ASSUME NEW t \in Tasks, NEW row \in Row
  PROVE  Closed(t, row) \in Row
BY DEF Closed, Row, TaskStatus

LEMMA SettledType ==
  ASSUME NEW t \in Tasks, NEW row \in Row, NEW old
  PROVE  Settled(t, row, old) \in Row
<1>1. Closed(t, row) \in Row
  BY ClosedType
<1>2. Qty[t] \in Nat
  BY ConstantsAssumption DEF ConstantsAssumption
<1>3. QED
  BY <1>1, <1>2 DEF Settled, Row

LEMMA CompletedType ==
  ASSUME NEW r \in Request
  PROVE  Completed(r) \in Row
<1>1. r.cur \in Tasks /\ r.mem \in Row
  BY DEF Request, RequestRecord
<1>2. Counted(r.op, r.cur, r.mem.completed) \in Nat
  BY <1>1 DEF Counted, Row
<1>3. [r.mem EXCEPT !.completed = Counted(r.op, r.cur, r.mem.completed)] \in Row
  BY <1>1, <1>2 DEF Row
<1>4. QED
  BY <1>1, <1>3, ClosedType DEF Completed

LEMMA ReturnedType ==
  ASSUME NEW r \in Request
  PROVE  Returned(r) \in Request
<1>1. 1 \in Tasks
  BY ConstantsAssumption DEF ConstantsAssumption, Tasks
<1>2. QED
  BY <1>1, IdleType, AbsentType DEF Returned, Request, RequestRecord, Steps

\* The tables keep their types through the effects of a completion.
LEMMA CompleteEffectsType ==
  ASSUME TypeOK, NEW t \in Tasks, NEW row \in Row, NEW c,
         CompleteEffects(t, row, c)
  PROVE  /\ task' \in [Tasks -> Row]
         /\ order' \in OrderStatus
         /\ doneEvents' \in [Tasks -> Nat]
         /\ movements' \in [Tasks -> Nat]
         /\ drawn' \in [Tasks -> Nat]
<1>1. [task EXCEPT ![t] = row] \in [Tasks -> Row]
  BY DEF TypeOK
<1>2. task' \in [Tasks -> Row]
  BY <1>1, ActivateType DEF CompleteEffects
<1>3. order' \in OrderStatus
  BY DerivedStatusType DEF CompleteEffects, TypeOK
<1>4. doneEvents' \in [Tasks -> Nat]
  BY DEF CompleteEffects, TypeOK
<1>5. movements' \in [Tasks -> Nat] /\ drawn' \in [Tasks -> Nat]
  BY DEF CompleteEffects, TypeOK
<1>6. QED
  BY <1>2, <1>3, <1>4, <1>5

-----------------------------------------------------------------------------
(* Type correctness *)

\* A step that only moves a request on keeps the types.
LEMMA ContinueType ==
  ASSUME TypeOK, NEW w \in Workers, NEW r \in Request,
         Continue(w, r), UNCHANGED tables
  PROVE  TypeOK'
BY DEF TypeOK, Continue, tables

LEMMA LoadType ==
  ASSUME TypeOK, NEW w \in Workers, LoadStep(w)
  PROVE  TypeOK'
<1> USE DEF TypeOK
<1>1. CASE \E o \in AtomicOps, t \in Tasks : LoadTask(w, o, t)
  <2> PICK o \in AtomicOps, t \in Tasks : LoadTask(w, o, t)
    BY <1>1
  <2> DEFINE r == [Idle EXCEPT !.pc = "commit", !.op = o, !.cur = t,
                               !.mem = task[t],
                               !.order = IF o = "scan" THEN order ELSE "unread"]
  <2>1. r \in Request
    BY IdleType DEF Request, RequestRecord, Steps
  <2>2. QED
    BY <2>1, ContinueType DEF LoadTask
<1>2. CASE \E t \in Tasks, s \in {"waiting", "pending"} : LoadSetStatus(w, t, s)
  <2> PICK t \in Tasks, s \in {"waiting", "pending"} : LoadSetStatus(w, t, s)
    BY <1>2
  <2> DEFINE r == [Idle EXCEPT !.pc = "save", !.op = "set_status", !.cur = t,
                               !.mem = [task[t] EXCEPT !.status = s]]
  <2>1. [task[t] EXCEPT !.status = s] \in Row
    BY DEF Row, TaskStatus
  <2>2. r \in Request
    BY <2>1, IdleType DEF Request, RequestRecord, Steps, SavingOps
  <2>3. QED
    BY <2>2, ContinueType DEF LoadSetStatus
<1>3. CASE \E S \in SUBSET Tasks \ {{}}, s \in TaskStatus : LoadBulk(w, S, s)
  <2> PICK S \in SUBSET Tasks \ {{}}, s \in TaskStatus : LoadBulk(w, S, s)
    BY <1>3
  <2> DEFINE rows == [t \in Tasks |-> IF t \in S THEN task[t] ELSE Absent]
             r == [Idle EXCEPT !.pc = "loop", !.op = "bulk", !.todo = S,
                               !.rows = rows, !.new = s]
  <2>1. rows \in [Tasks -> Row]
    BY AbsentType
  <2>2. r \in Request
    <3> HIDE DEF rows
    <3> QED BY <2>1, IdleType DEF Request, RequestRecord, Steps, SavingOps
  <2>3. QED
    BY <2>2, ContinueType DEF LoadBulk
<1>4. CASE LoadFix(w)
  <2> DEFINE todo == {t \in Tasks : task[t].status = "done"}
             r == [Idle EXCEPT !.pc = "loop", !.op = "fix", !.todo = todo]
  <2>1. r \in Request
    <3>1. todo \in SUBSET Tasks
      OBVIOUS
    <3> HIDE DEF todo
    <3> QED BY <3>1, IdleType DEF Request, RequestRecord, Steps, SavingOps
  <2>2. QED
    BY <1>4, <2>1, ContinueType DEF LoadFix
<1>5. QED
  BY <1>1, <1>2, <1>3, <1>4 DEF LoadStep

LEMMA CommitType ==
  ASSUME TypeOK, NEW w \in Workers, CompleteTask(w) \/ SaveProgress(w)
  PROVE  TypeOK'
<1> DEFINE r == req[w]
<1>1. r \in Request /\ r.cur \in Tasks
  BY DEF TypeOK, Request, RequestRecord
<1>2. Completed(r) \in Row
  BY <1>1, CompletedType
<1>3. req' \in [Workers -> Request]
  BY IdleType DEF CompleteTask, SaveProgress, Finish, Continue, TypeOK
<1>4. CASE CompleteEffects(r.cur, Completed(r), CachedOrder(r))
  BY <1>1, <1>2, <1>3, <1>4, CompleteEffectsType DEF TypeOK
<1>5. CASE UNCHANGED tables
  BY <1>3, <1>5 DEF TypeOK, tables
<1>6. CASE /\ task' = [task EXCEPT ![r.cur] = Completed(r)]
           /\ UNCHANGED <<order, doneEvents, movements, drawn>>
  BY <1>1, <1>2, <1>3, <1>6 DEF TypeOK
<1>7. QED
  BY <1>4, <1>5, <1>6 DEF CompleteTask, SaveProgress

LEMMA LoopType ==
  ASSUME TypeOK, NEW w \in Workers, BulkNext(w) \/ FixNext(w) \/ LoopEnd(w)
  PROVE  TypeOK'
<1> DEFINE r == req[w]
           t == First(r.todo)
<1>1. r \in Request
  BY DEF TypeOK
<1>2. r.todo # {} => t \in Tasks
  BY <1>1, FirstMember DEF Request, RequestRecord
<1>3. CASE BulkNext(w)
  <2> DEFINE row == BulkRow(t, r.rows[t], r.new)
             o == IF r.new = "done" /\ r.rows[t].status # "done"
                  THEN order ELSE "unread"
             q == [r EXCEPT !.pc = "save", !.todo = @ \ {t}, !.cur = t,
                            !.rows[t] = Absent, !.mem = row, !.order = o]
  <2>1. t \in Tasks
    BY <1>2, <1>3 DEF BulkNext
  <2>2. row \in Row
    <3>1. r.rows[t] \in Row /\ r.new \in TaskStatus /\ Qty[t] \in Nat
      BY <1>1, <2>1, ConstantsAssumption DEF Request, RequestRecord, ConstantsAssumption
    <3>2. QED
      BY <3>1 DEF BulkRow, Row
  <2>3. o \in OrderStatus \cup {"unread"}
    BY DEF TypeOK
  <2>4. q \in Request
    <3> HIDE DEF row, o, t
    <3> QED BY <1>1, <2>1, <2>2, <2>3, AbsentType DEF Request, RequestRecord, Steps
  <2>5. Continue(w, q) /\ UNCHANGED tables
    BY <1>3 DEF BulkNext
  <2>6. QED
    BY <2>4, <2>5, ContinueType
<1>4. CASE FixNext(w)
  <2> DEFINE row == [task[t + 1] EXCEPT !.status = "pending"]
             q == [r EXCEPT !.pc = "save", !.todo = @ \ {t},
                            !.cur = t + 1, !.mem = row]
             p == [r EXCEPT !.todo = @ \ {t}]
  <2>1. CASE NextIsWaiting(task, t)
    <3>1. t + 1 \in Tasks
      BY <2>1 DEF NextIsWaiting, HasNext
    <3>2. row \in Row
      BY <3>1 DEF TypeOK, Row, TaskStatus
    <3>3. q \in Request
      <4> HIDE DEF row, t
      <4> QED BY <1>1, <3>1, <3>2 DEF Request, RequestRecord, Steps
    <3>4. Continue(w, q) /\ UNCHANGED tables
      BY <1>4, <2>1 DEF FixNext
    <3>5. QED
      BY <3>3, <3>4, ContinueType
  <2>2. CASE ~NextIsWaiting(task, t)
    <3>1. p \in Request
      <4> HIDE DEF t
      <4> QED BY <1>1 DEF Request, RequestRecord
    <3>2. Continue(w, p) /\ UNCHANGED tables
      BY <1>4, <2>2 DEF FixNext
    <3>3. QED
      BY <3>1, <3>2, ContinueType
  <2>3. QED
    BY <2>1, <2>2
<1>5. CASE LoopEnd(w)
  BY <1>5, IdleType, ContinueType DEF LoopEnd, Finish
<1>6. QED
  BY <1>3, <1>4, <1>5

\* A statement of save() keeps the types.
LEMMA SaveType ==
  ASSUME TypeOK, NEW w \in Workers, SaveStep(w)
  PROVE  TypeOK'
<1> DEFINE r == req[w]
<1>1. r \in Request /\ r.cur \in Tasks /\ r.mem \in Row
  BY DEF TypeOK, Request, RequestRecord
<1>2. CASE SaveSelect(w)
  <2> DEFINE old == task[r.cur].status
             row == Settled(r.cur, r.mem, old)
             f == row.status = "done" /\ old # "done"
             q == [r EXCEPT !.pc = "write", !.mem = row, !.fires = f]
  <2>1. row \in Row
    BY <1>1, SettledType
  <2>2. f \in BOOLEAN
    OBVIOUS
  <2>3. q \in Request
    <3> HIDE DEF row, f
    <3> QED BY <1>1, <2>1, <2>2 DEF Request, RequestRecord, Steps
  <2>4. Continue(w, q) /\ UNCHANGED tables
    BY <1>2 DEF SaveSelect
  <2>5. QED
    BY <2>3, <2>4, ContinueType
<1>3. CASE SaveWrite(w)
  <2>1. Written(r.op, r.cur, r.mem, r.fires) \in Row
    BY <1>1 DEF Written, TypeOK, Row
  <2>2. [r EXCEPT !.pc = "event"] \in Request
    BY <1>1 DEF Request, RequestRecord, Steps
  <2>3. task' \in [Tasks -> Row]
    BY <1>1, <1>3, <2>1 DEF SaveWrite, TypeOK
  <2>4. req' \in [Workers -> Request]
    BY <1>1, <1>3, <2>2, IdleType, ReturnedType
    DEF SaveWrite, Finish, Continue, TypeOK
  <2>5. QED
    BY <1>3, <2>3, <2>4 DEF SaveWrite, TypeOK
<1>4. CASE SaveEvent(w)
  <2>1. CachedOrder(r) \in OrderStatus \cup {"unread"}
    BY <1>1 DEF CachedOrder, TypeOK, Request, RequestRecord
  <2>2. [r EXCEPT !.pc = "consume", !.order = CachedOrder(r)] \in Request
    BY <1>1, <2>1 DEF Request, RequestRecord, Steps
  <2>3. doneEvents' \in [Tasks -> Nat]
    BY <1>1, <1>4 DEF SaveEvent, TypeOK
  <2>4. QED
    BY <1>4, <2>2, <2>3 DEF SaveEvent, Continue, TypeOK
<1>5. CASE SaveConsume(w)
  <2>1. [r EXCEPT !.pc = IF ConsumptionDue(r.cur) THEN "create" ELSE "next"] \in Request
    BY <1>1 DEF Request, RequestRecord, Steps
  <2>2. QED
    BY <1>5, <2>1, ContinueType DEF SaveConsume
<1>6. CASE SaveCreate(w)
  <2>1. [r EXCEPT !.pc = "next"] \in Request
    BY <1>1 DEF Request, RequestRecord, Steps
  <2>2. movements' \in [Tasks -> Nat] /\ drawn' \in [Tasks -> Nat]
    BY <1>1, <1>6 DEF SaveCreate, TypeOK
  <2>3. QED
    BY <1>6, <2>1, <2>2 DEF SaveCreate, Continue, TypeOK
<1>7. CASE SaveNext(w)
  <2> DEFINE row == [task[r.cur + 1] EXCEPT !.status = "pending"]
  <2>1. CASE NextIsWaiting(task, r.cur)
    <3>1. row \in Row
      BY <2>1 DEF NextIsWaiting, HasNext, TypeOK, Row, TaskStatus
    <3>2. [r EXCEPT !.pc = "activate", !.next = row] \in Request
      <4> HIDE DEF row
      <4> QED BY <1>1, <3>1 DEF Request, RequestRecord, Steps
    <3>3. QED
      BY <1>7, <2>1, <3>2, ContinueType DEF SaveNext
  <2>2. CASE ~NextIsWaiting(task, r.cur)
    <3>1. [r EXCEPT !.pc = "count"] \in Request
      BY <1>1 DEF Request, RequestRecord, Steps
    <3>2. QED
      BY <1>7, <2>2, <3>1, ContinueType DEF SaveNext
  <2>3. QED
    BY <2>1, <2>2
<1>8. CASE SaveActivate(w)
  <2>1. [r EXCEPT !.pc = "count", !.next = Absent] \in Request
    BY <1>1, AbsentType DEF Request, RequestRecord, Steps
  <2>2. task' \in [Tasks -> Row]
    BY <1>1, <1>8 DEF SaveActivate, TypeOK, Request, RequestRecord
  <2>3. QED
    BY <1>8, <2>1, <2>2 DEF SaveActivate, Continue, TypeOK
<1>9. CASE SaveCount(w)
  <2>1. [r EXCEPT !.pc = "order", !.order = DerivedStatus(task)] \in Request
    <3>1. DerivedStatus(task) \in OrderStatus /\ DerivedStatus(task) # "unread"
      BY DerivedStatusType DEF OrderStatus
    <3>2. QED
      BY <1>1, <3>1 DEF Request, RequestRecord, Steps
  <2>2. QED
    BY <1>1, <1>9, <2>1, ReturnedType, ContinueType DEF SaveCount
<1>10. CASE SaveOrder(w)
  <2>1. order' \in OrderStatus
    BY <1>1, <1>10 DEF SaveOrder, Request, RequestRecord
  <2>2. QED
    BY <1>1, <1>10, <2>1, ReturnedType DEF SaveOrder, Continue, TypeOK
<1>11. QED
  BY <1>2, <1>3, <1>4, <1>5, <1>6, <1>7, <1>8, <1>9, <1>10 DEF SaveStep

LEMMA DeleteType ==
  ASSUME TypeOK, NEW w \in Workers,
         (\E S \in SUBSET Tasks \ {{}} : DeleteTasks(w, S)) \/ DeleteAllTasks(w)
  PROVE  TypeOK'
BY AbsentType DEF DeleteTasks, DeleteAllTasks, Deleted, TypeOK, OrderStatus

LEMMA AbortType ==
  ASSUME TypeOK, NEW w \in Workers, Abort(w)
  PROVE  TypeOK'
BY IdleType, ContinueType DEF Abort, Finish

\* The database and every request keep their types, whatever the order, its
\* quantities and the views in use (ProductionTask, Order, save()).
THEOREM TypeCorrect == Spec => []TypeOK
<1>1. Init => TypeOK
  BY IdleType DEF Init, TypeOK, OrderStatus, Row, TaskStatus
<1>2. TypeOK /\ [Next]_vars => TypeOK'
  <2> SUFFICES ASSUME TypeOK, [Next]_vars PROVE TypeOK'
    OBVIOUS
  <2>1. CASE Next
    <3> PICK w \in Workers :
           \/ LoadStep(w)
           \/ Proceed(w)
           \/ \E S \in SUBSET Tasks \ {{}} : DeleteTasks(w, S)
           \/ DeleteAllTasks(w)
           \/ Abort(w)
      BY <2>1 DEF Next
    <3> QED
      BY LoadType, CommitType, LoopType, SaveType, DeleteType, AbortType
      DEF Proceed
  <2>2. CASE UNCHANGED vars
    BY <2>2 DEF vars, TypeOK
  <2>3. QED
    BY <2>1, <2>2
<1>3. QED
  BY <1>1, <1>2, PTL DEF Spec

-----------------------------------------------------------------------------
(* Status and quantity of a row agree *)

\* What a request holds, by the statement it is about to execute: the rows
\* it may yet write are consistent, or save() is about to make them so.
InFlightConsistent(r) ==
    /\ \A t \in Tasks : RowConsistent(t, r.rows[t])
    /\ r.pc \in {"commit", "write"} => RowConsistent(r.cur, r.mem)
    /\ r.pc = "save" => /\ r.mem.completed <= Qty[r.cur]
                        /\ r.mem.status = "done" => r.mem.completed = Qty[r.cur]
    /\ r.pc = "save" /\ r.op = "fix" => r.mem.completed < Qty[r.cur]
    /\ r.pc \in {"save", "write"} /\ r.op = "fix" => r.mem.status = "pending"
    /\ r.pc = "activate" => RowConsistent(r.cur + 1, r.next)

RowsInv ==
    /\ RowsConsistent
    /\ \A w \in Workers : InFlightConsistent(req[w])

LEMMA QtyType == \A t \in Tasks : Qty[t] \in Nat \ {0}
BY ConstantsAssumption DEF ConstantsAssumption

LEMMA AbsentConsistent == \A t \in Tasks : RowConsistent(t, Absent)
BY QtyType DEF RowConsistent, Absent

\* A row that does not exceed its quantity comes out of save() consistent.
LEMMA SettledConsistent ==
  ASSUME NEW t \in Tasks, NEW row \in Row, NEW old,
         row.completed <= Qty[t],
         row.status = "done" => row.completed = Qty[t]
  PROVE  /\ RowConsistent(t, Closed(t, row))
         /\ RowConsistent(t, Settled(t, row, old))
<1>1. row.completed \in Nat /\ Qty[t] \in Nat
  BY QtyType DEF Row
<1>2. Closed(t, row).completed = row.completed
  BY DEF Closed, Row
<1>3. RowConsistent(t, Closed(t, row))
  BY <1>1, <1>2 DEF Closed, RowConsistent, Row
<1>4. Closed(t, row) \in Row
  BY ClosedType
<1>5. RowConsistent(t, Settled(t, row, old))
  BY <1>1, <1>3, <1>4 DEF Settled, RowConsistent, Row
<1>6. QED
  BY <1>3, <1>5

LEMMA CompletedConsistent ==
  ASSUME NEW r \in Request, RowConsistent(r.cur, r.mem)
  PROVE  RowConsistent(r.cur, Completed(r))
<1> DEFINE n == Counted(r.op, r.cur, r.mem.completed)
           row == [r.mem EXCEPT !.completed = n]
<1>1. r.cur \in Tasks /\ r.mem \in Row /\ Qty[r.cur] \in Nat
  BY QtyType DEF Request, RequestRecord
<1>2. r.mem.completed \in Nat
  BY <1>1 DEF Row
<1>3. /\ n \in Nat /\ n <= Qty[r.cur]
      /\ r.mem.completed = Qty[r.cur] => n = Qty[r.cur]
  BY <1>1, <1>2 DEF Counted, RowConsistent
<1>4. row \in Row
  BY <1>1, <1>3 DEF Row
<1>5. row.completed <= Qty[r.cur] /\ (row.status = "done" => row.completed = Qty[r.cur])
  BY <1>1, <1>3 DEF RowConsistent, Row
<1>6. QED
  BY <1>1, <1>4, <1>5, SettledConsistent DEF Completed

LEMMA ActivateConsistent ==
  ASSUME NEW tbl \in [Tasks -> Row], NEW t \in Tasks,
         \A u \in Tasks : RowConsistent(u, tbl[u])
  PROVE  \A u \in Tasks : RowConsistent(u, Activate(tbl, t)[u])
BY DEF Activate, NextIsWaiting, HasNext, RowConsistent, Row

\* Only the worker that takes a step changes its request.
LEMMA StepInFlight ==
  ASSUME TypeOK, RowsInv, NEW w \in Workers, NEW q,
         InFlightConsistent(q), Continue(w, q), RowsConsistent'
  PROVE  RowsInv'
<1>1. \A v \in Workers : req'[v] = IF v = w THEN q ELSE req[v]
  BY DEF Continue, TypeOK
<1>2. \A v \in Workers : InFlightConsistent(req'[v])
  BY <1>1 DEF RowsInv
<1>3. QED
  BY <1>2 DEF RowsInv

LEMMA IdleConsistent == InFlightConsistent(Idle)
BY AbsentConsistent DEF InFlightConsistent, Idle

LEMMA ReturnedConsistent ==
  ASSUME NEW r \in Request, InFlightConsistent(r)
  PROVE  InFlightConsistent(Returned(r))
BY IdleConsistent DEF Returned, InFlightConsistent, Request, RequestRecord

LEMMA LoadRows ==
  ASSUME TypeOK, RowsInv, NEW w \in Workers, LoadStep(w)
  PROVE  RowsInv'
<1> USE DEF TypeOK
<1>1. CASE \E o \in AtomicOps, t \in Tasks : LoadTask(w, o, t)
  <2> PICK o \in AtomicOps, t \in Tasks : LoadTask(w, o, t)
    BY <1>1
  <2> DEFINE c == IF o = "scan" THEN order ELSE "unread"
             q == [Idle EXCEPT !.pc = "commit", !.op = o, !.cur = t,
                               !.mem = task[t], !.order = c]
  <2>1. RowConsistent(t, task[t])
    BY DEF RowsInv, RowsConsistent
  <2>2. InFlightConsistent(q)
    BY <2>1, AbsentConsistent DEF InFlightConsistent, Idle
  <2>3. RowsConsistent'
    BY DEF LoadTask, tables, RowsInv, RowsConsistent
  <2>4. QED
    BY <2>2, <2>3, StepInFlight DEF LoadTask
<1>2. CASE \E t \in Tasks, s \in {"waiting", "pending"} : LoadSetStatus(w, t, s)
  <2> PICK t \in Tasks, s \in {"waiting", "pending"} : LoadSetStatus(w, t, s)
    BY <1>2
  <2> DEFINE row == [task[t] EXCEPT !.status = s]
             q == [Idle EXCEPT !.pc = "save", !.op = "set_status", !.cur = t,
                               !.mem = row]
  <2>1. row.status = s /\ row.completed <= Qty[t]
    BY DEF RowsInv, RowsConsistent, RowConsistent, Row
  <2>2. InFlightConsistent(q)
    <3> HIDE DEF row
    <3> QED BY <2>1, AbsentConsistent DEF InFlightConsistent, Idle
  <2>3. RowsConsistent'
    BY DEF LoadSetStatus, tables, RowsInv, RowsConsistent
  <2>4. QED
    BY <2>2, <2>3, StepInFlight DEF LoadSetStatus
<1>3. CASE \E S \in SUBSET Tasks \ {{}}, s \in TaskStatus : LoadBulk(w, S, s)
  <2> PICK S \in SUBSET Tasks \ {{}}, s \in TaskStatus : LoadBulk(w, S, s)
    BY <1>3
  <2> DEFINE rows == [t \in Tasks |-> IF t \in S THEN task[t] ELSE Absent]
             q == [Idle EXCEPT !.pc = "loop", !.op = "bulk", !.todo = S,
                               !.rows = rows, !.new = s]
  <2>1. \A t \in Tasks : RowConsistent(t, rows[t])
    BY AbsentConsistent DEF RowsInv, RowsConsistent
  <2>2. InFlightConsistent(q)
    <3> HIDE DEF rows
    <3> QED BY <2>1 DEF InFlightConsistent, Idle
  <2>3. RowsConsistent'
    BY DEF LoadBulk, tables, RowsInv, RowsConsistent
  <2>4. QED
    BY <2>2, <2>3, StepInFlight DEF LoadBulk
<1>4. CASE LoadFix(w)
  <2> DEFINE q == [Idle EXCEPT !.pc = "loop", !.op = "fix",
                               !.todo = {t \in Tasks : task[t].status = "done"}]
  <2>1. InFlightConsistent(q)
    BY AbsentConsistent DEF InFlightConsistent, Idle
  <2>2. RowsConsistent'
    BY <1>4 DEF LoadFix, tables, RowsInv, RowsConsistent
  <2>3. QED
    BY <1>4, <2>1, <2>2, StepInFlight DEF LoadFix
<1>5. QED
  BY <1>1, <1>2, <1>3, <1>4 DEF LoadStep

LEMMA CommitRows ==
  ASSUME TypeOK, RowsInv, NEW w \in Workers, CompleteTask(w) \/ SaveProgress(w)
  PROVE  RowsInv'
<1> DEFINE r == req[w]
           tbl == [task EXCEPT ![r.cur] = Completed(r)]
<1>1. r \in Request /\ r.cur \in Tasks /\ r.pc = "commit"
  BY DEF TypeOK, Request, RequestRecord, CompleteTask, SaveProgress
<1>2. RowConsistent(r.cur, Completed(r)) /\ Completed(r) \in Row
  BY <1>1, CompletedConsistent, CompletedType DEF RowsInv, InFlightConsistent
<1>3. tbl \in [Tasks -> Row] /\ \A t \in Tasks : RowConsistent(t, tbl[t])
  BY <1>1, <1>2 DEF TypeOK, RowsInv, RowsConsistent
<1>4. task' \in {task, tbl, Activate(tbl, r.cur)}
  BY DEF CompleteTask, SaveProgress, CompleteEffects, tables
<1>5. RowsConsistent'
  <2> HIDE DEF tbl
  <2> QED BY <1>1, <1>3, <1>4, ActivateConsistent DEF RowsInv, RowsConsistent
<1>6. Continue(w, Idle)
  BY DEF CompleteTask, SaveProgress, Finish
<1>7. QED
  BY <1>5, <1>6, IdleConsistent, StepInFlight

LEMMA LoopRows ==
  ASSUME TypeOK, RowsInv, NEW w \in Workers,
         BulkNext(w) \/ FixNext(w) \/ LoopEnd(w)
  PROVE  RowsInv'
<1> DEFINE r == req[w]
           t == First(r.todo)
<1>1. r \in Request /\ InFlightConsistent(r)
  BY DEF TypeOK, RowsInv
<1>2. r.todo # {} => t \in Tasks
  BY <1>1, FirstMember DEF Request, RequestRecord
<1>3. RowsConsistent'
  BY DEF BulkNext, FixNext, LoopEnd, tables, RowsInv, RowsConsistent
<1>4. CASE BulkNext(w)
  <2> DEFINE row == BulkRow(t, r.rows[t], r.new)
             o == IF r.new = "done" /\ r.rows[t].status # "done"
                  THEN order ELSE "unread"
             rows == [r.rows EXCEPT ![t] = Absent]
             q == [r EXCEPT !.pc = "save", !.todo = @ \ {t}, !.cur = t,
                            !.rows[t] = Absent, !.mem = row, !.order = o]
  <2>1. t \in Tasks /\ r.op = "bulk"
    BY <1>2, <1>4 DEF BulkNext
  <2>2. /\ row.completed <= Qty[t]
        /\ row.status = "done" => row.completed = Qty[t]
    <3>1. RowConsistent(t, r.rows[t]) /\ Qty[t] \in Nat
      BY <1>1, <2>1, QtyType DEF InFlightConsistent
    <3>2. QED
      BY <3>1 DEF BulkRow, RowConsistent
  <2>3. rows \in [Tasks -> Row] /\ \A u \in Tasks : RowConsistent(u, rows[u])
    BY <1>1, <2>1, AbsentType, AbsentConsistent
    DEF InFlightConsistent, Request, RequestRecord
  <2>4. /\ q.pc = "save" /\ q.op = "bulk" /\ q.cur = t
        /\ q.mem = row /\ q.rows = rows
    <3> HIDE DEF row, o, t
    <3> QED BY <1>1, <2>1 DEF Request, RequestRecord
  <2>5. InFlightConsistent(q)
    <3> HIDE DEF row, rows, t, q
    <3> QED BY <2>2, <2>3, <2>4 DEF InFlightConsistent
  <2>6. Continue(w, q)
    BY <1>4 DEF BulkNext
  <2>7. QED
    BY <1>3, <2>5, <2>6, StepInFlight
<1>5. CASE FixNext(w)
  <2> DEFINE row == [task[t + 1] EXCEPT !.status = "pending"]
             q == [r EXCEPT !.pc = "save", !.todo = @ \ {t},
                            !.cur = t + 1, !.mem = row]
             p == [r EXCEPT !.todo = @ \ {t}]
  <2>1. CASE NextIsWaiting(task, t)
    <3>1. t + 1 \in Tasks /\ task[t + 1].status = "waiting"
      BY <2>1 DEF NextIsWaiting, HasNext
    <3>2. /\ row.status = "pending" /\ row.completed < Qty[t + 1]
          /\ row.completed <= Qty[t + 1]
      BY <3>1, QtyType DEF RowsInv, RowsConsistent, RowConsistent, TypeOK, Row
    <3>3. InFlightConsistent(q)
      <4> HIDE DEF row, t
      <4> QED BY <1>1, <3>1, <3>2 DEF InFlightConsistent, Request, RequestRecord
    <3>4. Continue(w, q)
      BY <1>5, <2>1 DEF FixNext
    <3>5. QED
      BY <1>3, <3>3, <3>4, StepInFlight
  <2>2. CASE ~NextIsWaiting(task, t)
    <3>1. InFlightConsistent(p)
      <4> HIDE DEF t
      <4> QED BY <1>1 DEF InFlightConsistent, Request, RequestRecord
    <3>2. Continue(w, p)
      BY <1>5, <2>2 DEF FixNext
    <3>3. QED
      BY <1>3, <3>1, <3>2, StepInFlight
  <2>3. QED
    BY <2>1, <2>2
<1>6. CASE LoopEnd(w)
  BY <1>3, <1>6, IdleConsistent, StepInFlight DEF LoopEnd, Finish
<1>7. QED
  BY <1>4, <1>5, <1>6

\* The statements of save() that write the task table, and those that
\* prepare a write; the others leave table and rows in hand alone.
LEMMA SaveRows ==
  ASSUME TypeOK, RowsInv, NEW w \in Workers, SaveStep(w)
  PROVE  RowsInv'
<1> DEFINE r == req[w]
<1>1. /\ r \in Request /\ r.cur \in Tasks /\ r.mem \in Row
      /\ InFlightConsistent(r)
  BY DEF TypeOK, RowsInv, Request, RequestRecord
<1>2. CASE SaveSelect(w)
  <2> DEFINE old == task[r.cur].status
             row == Settled(r.cur, r.mem, old)
             f == row.status = "done" /\ old # "done"
             q == [r EXCEPT !.pc = "write", !.mem = row, !.fires = f]
  <2>1. RowConsistent(r.cur, row)
    BY <1>1, <1>2, SettledConsistent DEF SaveSelect, InFlightConsistent
  <2>2. r.op = "fix" => row.status = "pending"
    BY <1>1, <1>2, QtyType
    DEF SaveSelect, InFlightConsistent, Settled, Closed, Row
  <2>3. InFlightConsistent(q)
    <3> HIDE DEF row, f
    <3> QED BY <1>1, <2>1, <2>2 DEF InFlightConsistent, Request, RequestRecord
  <2>4. Continue(w, q) /\ RowsConsistent'
    BY <1>2 DEF SaveSelect, tables, RowsInv, RowsConsistent
  <2>5. QED
    BY <2>3, <2>4, StepInFlight
<1>3. CASE SaveWrite(w)
  <2> DEFINE row == Written(r.op, r.cur, r.mem, r.fires)
             q == [r EXCEPT !.pc = "event"]
  <2>1. RowConsistent(r.cur, row)
    <3>1. RowConsistent(r.cur, r.mem) /\ (r.op = "fix" => r.mem.status = "pending")
      BY <1>1, <1>3 DEF SaveWrite, InFlightConsistent
    <3>2. RowConsistent(r.cur, task[r.cur]) /\ task[r.cur] \in Row
      BY <1>1 DEF RowsInv, RowsConsistent, TypeOK
    <3>3. QED
      BY <3>1, <3>2 DEF Written, RowConsistent, Row
  <2>2. RowsConsistent'
    <3> HIDE DEF row
    <3>1. task' = task \/ task' = [task EXCEPT ![r.cur] = row]
      BY <1>3 DEF SaveWrite, row
    <3>2. QED
      BY <1>1, <2>1, <3>1 DEF RowsInv, RowsConsistent, TypeOK
  <2>3. InFlightConsistent(q)
    BY <1>1 DEF InFlightConsistent, Request, RequestRecord
  <2>4. Continue(w, Idle) \/ Continue(w, q) \/ Continue(w, Returned(r))
    BY <1>3 DEF SaveWrite, Finish
  <2>5. QED
    BY <1>1, <2>2, <2>3, <2>4, IdleConsistent, ReturnedConsistent, StepInFlight
<1>4. CASE SaveEvent(w) \/ SaveConsume(w) \/ SaveCreate(w) \/ SaveCount(w) \/ SaveOrder(w)
  <2>1. RowsConsistent'
    BY <1>4 DEF SaveEvent, SaveConsume, SaveCreate, SaveCount, SaveOrder, tables,
                RowsInv, RowsConsistent
  <2>2. InFlightConsistent([r EXCEPT !.pc = "consume", !.order = CachedOrder(r)])
    BY <1>1 DEF InFlightConsistent, Request, RequestRecord
  <2>3. \A p \in {"create", "next"} : InFlightConsistent([r EXCEPT !.pc = p])
    BY <1>1 DEF InFlightConsistent, Request, RequestRecord
  <2>4. InFlightConsistent([r EXCEPT !.pc = "order", !.order = DerivedStatus(task)])
    BY <1>1 DEF InFlightConsistent, Request, RequestRecord
  <2>5. CASE SaveEvent(w)
    BY <2>1, <2>2, <2>5, StepInFlight DEF SaveEvent
  <2>6. CASE SaveConsume(w)
    BY <2>1, <2>3, <2>6, StepInFlight DEF SaveConsume
  <2>7. CASE SaveCreate(w)
    BY <2>1, <2>3, <2>7, StepInFlight DEF SaveCreate
  <2>8. CASE SaveCount(w)
    BY <1>1, <2>1, <2>4, <2>8, ReturnedConsistent, StepInFlight DEF SaveCount
  <2>9. CASE SaveOrder(w)
    BY <1>1, <2>1, <2>9, ReturnedConsistent, StepInFlight DEF SaveOrder
  <2>10. QED
    BY <1>4, <2>5, <2>6, <2>7, <2>8, <2>9
<1>5. CASE SaveNext(w)
  <2> DEFINE row == [task[r.cur + 1] EXCEPT !.status = "pending"]
             q == [r EXCEPT !.pc = "activate", !.next = row]
  <2>1. NextIsWaiting(task, r.cur) => RowConsistent(r.cur + 1, row)
    BY DEF NextIsWaiting, HasNext, RowsInv, RowsConsistent, RowConsistent, TypeOK, Row
  <2>2. NextIsWaiting(task, r.cur) => InFlightConsistent(q)
    <3> HIDE DEF row
    <3> QED BY <1>1, <2>1 DEF InFlightConsistent, Request, RequestRecord
  <2>3. InFlightConsistent([r EXCEPT !.pc = "count"])
    BY <1>1 DEF InFlightConsistent, Request, RequestRecord
  <2>4. RowsConsistent'
    BY <1>5 DEF SaveNext, tables, RowsInv, RowsConsistent
  <2>5. QED
    BY <1>5, <2>2, <2>3, <2>4, StepInFlight DEF SaveNext
<1>6. CASE SaveActivate(w)
  <2>1. RowsConsistent'
    BY <1>1, <1>6 DEF SaveActivate, InFlightConsistent, RowsInv, RowsConsistent, TypeOK
  <2>2. InFlightConsistent([r EXCEPT !.pc = "count", !.next = Absent])
    BY <1>1 DEF InFlightConsistent, Request, RequestRecord
  <2>3. QED
    BY <1>6, <2>1, <2>2, StepInFlight DEF SaveActivate
<1>7. QED
  BY <1>2, <1>3, <1>4, <1>5, <1>6 DEF SaveStep

LEMMA DeleteRows ==
  ASSUME TypeOK, RowsInv, NEW w \in Workers,
         \/ \E S \in SUBSET Tasks \ {{}} : DeleteTasks(w, S)
         \/ DeleteAllTasks(w)
         \/ Abort(w)
  PROVE  RowsInv'
<1>1. CASE Abort(w)
  <2>1. RowsConsistent'
    BY <1>1 DEF Abort, tables, RowsInv, RowsConsistent
  <2>2. QED
    BY <1>1, <2>1, IdleConsistent, StepInFlight DEF Abort, Finish
<1>2. ASSUME NEW S \in SUBSET Tasks, Deleted(S) PROVE RowsInv'
  <2>1. RowsConsistent'
    BY <1>2, AbsentConsistent DEF Deleted, RowsInv, RowsConsistent
  <2>2. req' = req
    BY <1>2 DEF Deleted
  <2>3. QED
    BY <2>1, <2>2 DEF RowsInv
<1>3. QED
  BY <1>1, <1>2 DEF DeleteTasks, DeleteAllTasks

\* No interleaving of scans, counts, stale full-row saves, status-only saves,
\* resurrecting inserts, deletions and crashes leaves a row whose status and
\* quantity contradict each other (ProductionTask.save, complete_task,
\* bulk_status, fix_chain), for any order and any number of requests.
THEOREM RowsAlwaysConsistent == Spec => []RowsConsistent
<1>1. Init => RowsInv
  BY QtyType, IdleConsistent DEF Init, RowsInv, RowsConsistent, RowConsistent
<1>2. TypeOK /\ RowsInv /\ [Next]_vars => RowsInv'
  <2> SUFFICES ASSUME TypeOK, RowsInv, [Next]_vars PROVE RowsInv'
    OBVIOUS
  <2>1. CASE Next
    <3> PICK w \in Workers :
           \/ LoadStep(w)
           \/ Proceed(w)
           \/ \E S \in SUBSET Tasks \ {{}} : DeleteTasks(w, S)
           \/ DeleteAllTasks(w)
           \/ Abort(w)
      BY <2>1 DEF Next
    <3> QED
      BY LoadRows, CommitRows, LoopRows, SaveRows, DeleteRows DEF Proceed
  <2>2. CASE UNCHANGED vars
    BY <2>2 DEF vars, RowsInv, RowsConsistent
  <2>3. QED
    BY <2>1, <2>2
<1>3. RowsInv => RowsConsistent
  BY DEF RowsInv
<1>4. QED
  BY <1>1, <1>2, <1>3, TypeCorrect, PTL DEF Spec

-----------------------------------------------------------------------------
(* Completion only through complete_task *)

\* What holds when no view saves or deletes a task outside complete_task.
\* A request may hold a stale row, but a row it saw done was accounted for.
Accounted(t) ==
    /\ doneEvents[t] >= 1
    /\ t \in Metered => movements[t] >= 1

AtomicInv ==
    /\ \A w \in Workers :
         /\ req[w].pc \in {"idle", "commit"}
         /\ req[w].pc = "commit" => req[w].mem.status # "absent"
         /\ req[w].mem.status = "done" => Accounted(req[w].cur)
    /\ \A t \in Tasks : Exists(task, t)
    /\ \A t \in Tasks : drawn[t] = movements[t] /\ movements[t] <= 1
    /\ \A t \in Tasks : task[t].status = "done" => Accounted(t)
    /\ order = "completed" => \A t \in Tasks : Exists(task, t) => doneEvents[t] >= 1

OnlyAtomic == \A w \in Workers : Views[w] \subseteq AtomicOps \cup {"abort"}

\* The effects of a completion draw the material of the task if that has not
\* happened before, and account for the task.
LEMMA EffectsAccount ==
  ASSUME TypeOK, AtomicInv, NEW t \in Tasks, NEW row \in Row,
         NEW c, Exists(task, t), row.status = "done", CompleteEffects(t, row, c)
  PROVE  /\ Accounted(t)'
         /\ \A u \in Tasks : Accounted(u) => Accounted(u)'
         /\ \A u \in Tasks : drawn'[u] = movements'[u] /\ movements'[u] <= 1
         /\ \A u \in Tasks : task'[u].status = "done" => Accounted(u)'
         /\ order' = "completed" =>
              \A u \in Tasks : Exists(task', u) => doneEvents'[u] >= 1
<1> DEFINE tbl == [task EXCEPT ![t] = row]
<1>1. \A u \in Tasks : /\ doneEvents'[u] = IF u = t THEN doneEvents[u] + 1 ELSE doneEvents[u]
                       /\ doneEvents[u] \in Nat
  BY DEF CompleteEffects, TypeOK
<1>2. \A u \in Tasks :
         /\ movements'[u] = IF u = t /\ ConsumptionDue(t) THEN movements[u] + 1 ELSE movements[u]
         /\ drawn'[u] = IF u = t /\ ConsumptionDue(t) THEN drawn[u] + 1 ELSE drawn[u]
         /\ movements[u] \in Nat /\ drawn[u] \in Nat
  BY DEF CompleteEffects, TypeOK
<1>3. \A u \in Tasks : Accounted(u) => Accounted(u)'
  BY <1>1, <1>2 DEF Accounted
<1>4. Accounted(t)'
  BY <1>1, <1>2 DEF Accounted, ConsumptionDue
<1>5. \A u \in Tasks : drawn'[u] = movements'[u] /\ movements'[u] <= 1
  BY <1>2 DEF AtomicInv, ConsumptionDue
<1>6. ASSUME NEW u \in Tasks, task'[u].status = "done" PROVE Accounted(u)'
  <2>1. u = t \/ task[u].status = "done"
    BY <1>6 DEF CompleteEffects, Activate, NextIsWaiting, HasNext, TypeOK, Row
  <2>2. QED
    BY <1>3, <1>4, <2>1 DEF AtomicInv
<1>7. ASSUME order' = "completed", NEW u \in Tasks, Exists(task', u)
      PROVE  doneEvents'[u] >= 1
  <2>1. order = "completed" \/ DerivedStatus(task') = "completed"
    BY <1>7 DEF CompleteEffects
  <2>2. Exists(task, u)
    BY <1>7 DEF CompleteEffects, Activate, NextIsWaiting, HasNext, Exists, TypeOK, Row
  <2>3. CASE order = "completed"
    BY <1>1, <2>2, <2>3 DEF AtomicInv
  <2>4. CASE DerivedStatus(task') = "completed"
    <3>1. task'[u].status = "done"
      BY <1>7, <2>4 DEF DerivedStatus
    <3>2. QED
      BY <1>6, <3>1 DEF Accounted
  <2>5. QED
    BY <2>1, <2>3, <2>4
<1>8. QED
  BY <1>3, <1>4, <1>5, <1>6, <1>7

\* A step that leaves the tables alone needs a request that fits them.
LEMMA StepAccounted ==
  ASSUME TypeOK, AtomicInv, NEW w \in Workers, NEW q,
         Continue(w, q), UNCHANGED tables,
         q.pc \in {"idle", "commit"},
         q.pc = "commit" => q.mem.status # "absent",
         q.mem.status = "done" => Accounted(q.cur)
  PROVE  AtomicInv'
<1>1. \A v \in Workers : req'[v] = IF v = w THEN q ELSE req[v]
  BY DEF Continue, TypeOK
<1>2. \A t \in Tasks : Accounted(t)' <=> Accounted(t)
  BY DEF Accounted, tables
<1>3. \A v \in Workers :
         /\ req'[v].pc \in {"idle", "commit"}
         /\ req'[v].pc = "commit" => req'[v].mem.status # "absent"
         /\ req'[v].mem.status = "done" => Accounted(req[v].cur)'
  BY <1>1 DEF AtomicInv, Accounted, tables
<1>4. QED
  BY <1>2, <1>3 DEF AtomicInv, tables

LEMMA LoadAccounted ==
  ASSUME TypeOK, AtomicInv, OnlyAtomic, NEW w \in Workers, LoadStep(w)
  PROVE  AtomicInv'
<1>1. PICK o \in AtomicOps, t \in Tasks : LoadTask(w, o, t)
  BY DEF LoadStep, LoadSetStatus, LoadBulk, LoadFix, OnlyAtomic, AtomicOps
<1> DEFINE c == IF o = "scan" THEN order ELSE "unread"
           q == [Idle EXCEPT !.pc = "commit", !.op = o, !.cur = t,
                             !.mem = task[t], !.order = c]
<1>2. q.pc = "commit" /\ q.mem = task[t] /\ q.cur = t
  BY DEF Idle
<1>3. task[t].status # "absent" /\ (task[t].status = "done" => Accounted(t))
  BY <1>1 DEF LoadTask, Exists, AtomicInv
<1>4. Continue(w, q) /\ UNCHANGED tables
  BY <1>1 DEF LoadTask
<1>5. QED
  <2> HIDE DEF q
  <2> QED BY <1>2, <1>3, <1>4, StepAccounted

LEMMA CommitAccounted ==
  ASSUME TypeOK, AtomicInv, NEW w \in Workers, CompleteTask(w) \/ SaveProgress(w)
  PROVE  AtomicInv'
<1> DEFINE r == req[w]
           row == Completed(r)
<1>1. r \in Request /\ r.cur \in Tasks /\ r.mem \in Row /\ Exists(task, r.cur)
  BY DEF TypeOK, Request, RequestRecord, AtomicInv
<1>2. row \in Row
  BY <1>1, CompletedType
<1>3. row.status = r.mem.status \/ row.status = "done"
  <2>1. Counted(r.op, r.cur, r.mem.completed) \in Nat
    BY <1>1 DEF Counted, Row
  <2>2. QED
    BY <1>1, <2>1 DEF Completed, Closed, Row
<1>4. r.mem.status # "absent"
  BY DEF CompleteTask, SaveProgress, AtomicInv
<1>5. \A v \in Workers : req'[v] = IF v = w THEN Idle ELSE req[v]
  BY DEF CompleteTask, SaveProgress, Finish, Continue, TypeOK
<1>6. Idle.pc = "idle" /\ Idle.mem.status = "absent"
  BY DEF Idle, Absent
<1>7. ASSUME \A u \in Tasks : Accounted(u) => Accounted(u)'
      PROVE  \A v \in Workers :
               /\ req'[v].pc \in {"idle", "commit"}
               /\ req'[v].pc = "commit" => req'[v].mem.status # "absent"
               /\ req'[v].mem.status = "done" => Accounted(req[v].cur)'
  <2> SUFFICES ASSUME NEW v \in Workers
               PROVE /\ req'[v].pc \in {"idle", "commit"}
                     /\ req'[v].pc = "commit" => req'[v].mem.status # "absent"
                     /\ req'[v].mem.status = "done" => Accounted(req[v].cur)'
    OBVIOUS
  <2>1. CASE v = w
    BY <1>5, <1>6, <2>1
  <2>2. CASE v # w
    <3>1. req'[v] = req[v] /\ req[v].cur \in Tasks
      BY <1>5, <2>2 DEF TypeOK, Request, RequestRecord
    <3>2. req[v].mem.status = "done" => Accounted(req[v].cur)'
      BY <1>7, <3>1 DEF AtomicInv
    <3>3. QED
      BY <3>1, <3>2 DEF AtomicInv, Accounted
  <2>3. QED
    BY <2>1, <2>2
<1>8. CASE row.status = "done" /\ CompleteEffects(r.cur, row, CachedOrder(r))
  <2> HIDE DEF row
  <2>1. \A u \in Tasks : Exists(task', u)
    BY <1>2, <1>8 DEF CompleteEffects, Activate, NextIsWaiting, HasNext, Exists,
                      TypeOK, Row, AtomicInv
  <2>2. QED
    BY <1>1, <1>2, <1>7, <1>8, <2>1, EffectsAccount DEF AtomicInv
<1>9. CASE /\ task' = [task EXCEPT ![r.cur] = row]
           /\ UNCHANGED <<order, doneEvents, movements, drawn>>
           /\ ~TransitionsInHand(r)
  <2>1. \A u \in Tasks : Accounted(u) <=> Accounted(u)'
    BY <1>9 DEF Accounted
  <2>2. row.status = "done" => Accounted(r.cur)
    BY <1>9 DEF TransitionsInHand, AtomicInv
  <2>3. \A u \in Tasks : task'[u] = IF u = r.cur THEN row ELSE task[u]
    BY <1>9 DEF TypeOK
  <2>4. \A u \in Tasks : Exists(task', u)
    BY <1>3, <1>4, <2>3 DEF Exists, AtomicInv
  <2>5. \A u \in Tasks : task'[u].status = "done" => Accounted(u)'
    BY <2>1, <2>2, <2>3 DEF AtomicInv
  <2>6. QED
    BY <1>7, <1>9, <2>1, <2>4, <2>5 DEF AtomicInv
<1>10. QED
  BY <1>1, <1>8, <1>9 DEF CompleteTask, SaveProgress, TransitionsInHand, TransitionsInSave

\* Requests that complete through complete_task go on in one step.
LEMMA CommitOnly ==
  ASSUME AtomicInv, NEW w \in Workers, Proceed(w)
  PROVE  CompleteTask(w) \/ SaveProgress(w)
BY DEF Proceed, BulkNext, FixNext, LoopEnd, SaveStep, SaveSelect, SaveWrite,
       SaveEvent, SaveConsume, SaveCreate, SaveNext, SaveActivate, SaveCount,
       SaveOrder, AtomicInv

\* While every view completes through complete_task and none deletes, the
\* inductive invariant holds, however many requests hold stale rows.  (Both
\* guards are needed: bulk_status saves outside a transaction, deletion
\* forgets the movement.)
LEMMA AtomicAlways ==
  ASSUME OnlyAtomic
  PROVE  Spec => []AtomicInv
<1>1. Init => AtomicInv
  <2>1. Idle.pc = "idle" /\ Idle.mem.status = "absent"
    BY DEF Idle, Absent
  <2>2. QED
    BY <2>1 DEF Init, AtomicInv, Exists
<1>2. TypeOK /\ AtomicInv /\ [Next]_vars => AtomicInv'
  <2> SUFFICES ASSUME TypeOK, AtomicInv, [Next]_vars PROVE AtomicInv'
    OBVIOUS
  <2>1. CASE Next
    <3> PICK w \in Workers :
           \/ LoadStep(w)
           \/ Proceed(w)
           \/ \E S \in SUBSET Tasks \ {{}} : DeleteTasks(w, S)
           \/ DeleteAllTasks(w)
           \/ Abort(w)
      BY <2>1 DEF Next
    <3>1. CASE LoadStep(w)
      BY <3>1, LoadAccounted
    <3>2. CASE Proceed(w)
      BY <3>2, CommitOnly, CommitAccounted
    <3>3. CASE Abort(w)
      <4>1. Idle.pc = "idle" /\ Idle.mem.status = "absent"
        BY DEF Idle, Absent
      <4>2. QED
        BY <3>3, <4>1, StepAccounted DEF Abort, Finish
    <3>4. ~DeleteAllTasks(w) /\ \A S \in SUBSET Tasks \ {{}} : ~DeleteTasks(w, S)
      BY DEF OnlyAtomic, AtomicOps, DeleteTasks, DeleteAllTasks
    <3>5. QED
      BY <3>1, <3>2, <3>3, <3>4
  <2>2. CASE UNCHANGED vars
    BY <2>2 DEF vars, AtomicInv, Accounted, Exists
  <2>3. QED
    BY <2>1, <2>2
<1>3. QED
  BY <1>1, <1>2, TypeCorrect, PTL DEF Spec

\* Under the same two guards the material of a task is drawn at most once
\* (record_consumption, product/utils.py), for any number of requests.
THEOREM DrawnAtMostOnce ==
  ASSUME OnlyAtomic
  PROVE  Spec => []ConsumedAtMostOnce
<1>1. AtomicInv => ConsumedAtMostOnce
  BY DEF AtomicInv, Accounted, ConsumedAtMostOnce
<1>2. QED
  BY <1>1, AtomicAlways, PTL

\* Under the same two guards a done task has its event and its consumption,
\* and an order reported completed was worked to its end (complete_task,
\* product/services.py).
THEOREM WorkAlwaysAccounted ==
  ASSUME OnlyAtomic
  PROVE  Spec => []WorkIsAccounted
<1>1. AtomicInv => WorkIsAccounted
  BY DEF AtomicInv, Accounted, WorkIsAccounted, CompletionAccounted,
         OrderCompletedMeansWorked
<1>2. QED
  BY <1>1, AtomicAlways, PTL

-----------------------------------------------------------------------------
(* Activation is earned *)

\* t + 1 continues the route of t.
Continues(t) == /\ t + 1 \in Tasks
                /\ LaneOf[t + 1] = LaneOf[t]
                /\ t + 1 \notin Firsts

\* A pending task, in the table or in the hand of a request, follows a step
\* that was completed.
EarnedInv ==
    \A t \in Tasks : Continues(t) =>
        /\ task[t + 1].status = "pending" => doneEvents[t] >= 1
        /\ \A w \in Workers :
             req[w].cur = t + 1 /\ req[w].mem.status = "pending" => doneEvents[t] >= 1

\* A step that leaves the tables alone takes rows from the table, or none.
LEMMA StepEarned ==
  ASSUME TypeOK, EarnedInv, NEW w \in Workers, NEW q, Continue(w, q), UNCHANGED tables,
         q.mem.status = "pending" => q.mem = task[q.cur]
  PROVE  EarnedInv'
<1>1. \A v \in Workers : req'[v] = IF v = w THEN q ELSE req[v]
  BY DEF Continue, TypeOK
<1>2. UNCHANGED <<task, doneEvents>>
  BY DEF tables
<1>3. QED
  BY <1>1, <1>2 DEF EarnedInv, Continues

LEMMA LoadEarned ==
  ASSUME TypeOK, EarnedInv, OnlyAtomic, NEW w \in Workers, LoadStep(w)
  PROVE  EarnedInv'
<1>1. PICK o \in AtomicOps, t \in Tasks : LoadTask(w, o, t)
  BY DEF LoadStep, LoadSetStatus, LoadBulk, LoadFix, OnlyAtomic, AtomicOps
<1> DEFINE c == IF o = "scan" THEN order ELSE "unread"
           q == [Idle EXCEPT !.pc = "commit", !.op = o, !.cur = t,
                             !.mem = task[t], !.order = c]
<1>2. q.mem = task[t] /\ q.cur = t
  BY DEF Idle
<1>3. Continue(w, q) /\ UNCHANGED tables
  BY <1>1 DEF LoadTask
<1>4. QED
  <2> HIDE DEF q
  <2> QED BY <1>2, <1>3, StepEarned

\* Rows a completion writes: its own, done, and a next step that it activates.
LEMMA EffectsEarn ==
  ASSUME TypeOK, NEW t \in Tasks, NEW row \in Row, NEW c, row.status = "done",
         CompleteEffects(t, row, c)
  PROVE  /\ doneEvents'[t] >= 1
         /\ \A u \in Tasks : doneEvents'[u] \in Nat /\ doneEvents'[u] >= doneEvents[u]
         /\ \A u \in Tasks : task'[u].status = "pending" =>
                u = t + 1 \/ task[u].status = "pending"
<1>1. \A u \in Tasks : /\ doneEvents[u] \in Nat
                       /\ doneEvents'[u] = IF u = t THEN doneEvents[u] + 1
                                                    ELSE doneEvents[u]
  BY DEF CompleteEffects, TypeOK
<1>2. \A u \in Tasks : task'[u].status = "pending" =>
          u = t + 1 \/ task[u].status = "pending"
  BY DEF CompleteEffects, Activate, NextIsWaiting, HasNext, TypeOK, Row
<1>3. QED
  BY <1>1, <1>2

LEMMA CommitEarned ==
  ASSUME TypeOK, AtomicInv, EarnedInv, NEW w \in Workers,
         CompleteTask(w) \/ SaveProgress(w)
  PROVE  EarnedInv'
<1> DEFINE r == req[w]
           row == Completed(r)
<1>1. r \in Request /\ r.cur \in Tasks /\ r.mem \in Row /\ Exists(task, r.cur)
  BY DEF TypeOK, Request, RequestRecord, AtomicInv
<1>2. row \in Row
  BY <1>1, CompletedType
<1>3. row.status = r.mem.status \/ row.status = "done"
  <2>1. Counted(r.op, r.cur, r.mem.completed) \in Nat
    BY <1>1 DEF Counted, Row
  <2>2. QED
    BY <1>1, <2>1 DEF Completed, Closed, Row
<1>4. \A v \in Workers : req'[v] = IF v = w THEN Idle ELSE req[v]
  BY DEF CompleteTask, SaveProgress, Finish, Continue, TypeOK
<1>5. Idle.mem.status = "absent"
  BY DEF Idle, Absent
<1>6. ASSUME \A u \in Tasks : doneEvents'[u] \in Nat /\ doneEvents'[u] >= doneEvents[u],
             \A u \in Tasks : Continues(u) /\ task'[u + 1].status = "pending" =>
                 doneEvents'[u] >= 1
      PROVE  EarnedInv'
  <2> SUFFICES ASSUME NEW u \in Tasks, Continues(u), NEW v \in Workers,
                      req'[v].cur = u + 1, req'[v].mem.status = "pending"
               PROVE  doneEvents'[u] >= 1
    BY <1>6 DEF EarnedInv, Continues
  <2>1. doneEvents[u] >= 1
    BY <1>4, <1>5 DEF EarnedInv
  <2>2. doneEvents[u] \in Nat /\ doneEvents'[u] >= doneEvents[u]
    BY <1>6 DEF TypeOK
  <2>3. doneEvents'[u] \in Nat
    BY <1>6
  <2>4. QED
    BY <2>1, <2>2, <2>3
<1>7. CASE row.status = "done" /\ CompleteEffects(r.cur, row, CachedOrder(r))
  <2> HIDE DEF row
  <2>1. /\ doneEvents'[r.cur] >= 1
        /\ \A u \in Tasks : doneEvents'[u] \in Nat /\ doneEvents'[u] >= doneEvents[u]
        /\ \A u \in Tasks : task'[u].status = "pending" =>
               u = r.cur + 1 \/ task[u].status = "pending"
    BY <1>1, <1>2, <1>7, EffectsEarn
  <2>2. ASSUME NEW u \in Tasks, Continues(u), task'[u + 1].status = "pending"
        PROVE  doneEvents'[u] >= 1
    <3>1. u + 1 \in Tasks /\ u \in Int /\ r.cur \in Int
      BY <1>1, <2>2 DEF Continues, Tasks
    <3>2. CASE u + 1 = r.cur + 1
      <4>1. u = r.cur
        BY <3>1, <3>2
      <4>2. QED
        BY <2>1, <4>1
    <3>3. CASE task[u + 1].status = "pending"
      <4>1. doneEvents[u] >= 1 /\ doneEvents[u] \in Nat /\ doneEvents'[u] \in Nat
        BY <2>2, <3>3, <1>7 DEF EarnedInv, TypeOK, CompleteEffects
      <4>2. QED
        BY <2>1, <4>1
    <3>4. QED
      BY <2>1, <2>2, <3>1, <3>2, <3>3
  <2>3. QED
    BY <1>6, <2>1, <2>2
<1>8. CASE /\ task' = [task EXCEPT ![r.cur] = row]
           /\ UNCHANGED <<order, doneEvents, movements, drawn>>
  <2>1. \A u \in Tasks : task'[u] = IF u = r.cur THEN row ELSE task[u]
    BY <1>8 DEF TypeOK
  <2>2. \A u \in Tasks : doneEvents'[u] \in Nat /\ doneEvents'[u] >= doneEvents[u]
    BY <1>8 DEF TypeOK
  <2> HIDE DEF row
  <2>3. ASSUME NEW u \in Tasks, Continues(u), task'[u + 1].status = "pending"
        PROVE  doneEvents'[u] >= 1
    <3>1. u + 1 \in Tasks
      BY <2>3 DEF Continues
    <3>2. CASE u + 1 = r.cur
      <4>1. r.mem.status = "pending"
        BY <1>3, <2>1, <2>3, <3>1, <3>2
      <4>2. QED
        BY <1>8, <2>3, <3>2, <4>1 DEF EarnedInv
    <3>3. CASE u + 1 # r.cur
      BY <1>8, <2>1, <2>3, <3>1, <3>3 DEF EarnedInv
    <3>4. QED
      BY <3>2, <3>3
  <2>4. QED
    BY <1>6, <2>2, <2>3
<1>9. QED
  BY <1>1, <1>7, <1>8 DEF CompleteTask, SaveProgress, TransitionsInHand, TransitionsInSave

\* Where every view completes through complete_task.
LEMMA EarnedStep ==
  ASSUME OnlyAtomic, TypeOK, AtomicInv, EarnedInv, [Next]_vars
  PROVE  EarnedInv'
<1>1. CASE Next
  <2> PICK w \in Workers :
         \/ LoadStep(w)
         \/ Proceed(w)
         \/ \E S \in SUBSET Tasks \ {{}} : DeleteTasks(w, S)
         \/ DeleteAllTasks(w)
         \/ Abort(w)
    BY <1>1 DEF Next
  <2>1. CASE LoadStep(w)
    BY <2>1, LoadEarned
  <2>2. CASE Proceed(w)
    BY <2>2, CommitOnly, CommitEarned
  <2>3. CASE Abort(w)
    <3>1. Idle.mem.status = "absent"
      BY DEF Idle, Absent
    <3>2. QED
      BY <2>3, <3>1, StepEarned DEF Abort, Finish
  <2>4. ~DeleteAllTasks(w) /\ \A S \in SUBSET Tasks \ {{}} : ~DeleteTasks(w, S)
    BY DEF OnlyAtomic, AtomicOps, DeleteTasks, DeleteAllTasks
  <2>5. QED
    BY <2>1, <2>2, <2>3, <2>4
<1>2. CASE UNCHANGED vars
  BY <1>2 DEF vars, EarnedInv, Continues
<1>3. QED
  BY <1>1, <1>2

\* Under the same two guards a step becomes pending only after the step before
\* it was completed (complete_task, product/services.py), although
\* requests write back rows they loaded long ago.
THEOREM ActivationAlwaysEarned ==
  ASSUME OnlyAtomic
  PROVE  Spec => []ActivationEarned
<1>1. Init => EarnedInv
  BY DEF Init, EarnedInv, Continues, Idle, Absent
<1>2. EarnedInv => ActivationEarned
  BY DEF EarnedInv, ActivationEarned, HasNext, Continues
<1>3. TypeOK /\ AtomicInv /\ EarnedInv /\ [Next]_vars => EarnedInv'
  BY EarnedStep
<1>4. QED
  BY <1>1, <1>2, <1>3, TypeCorrect, AtomicAlways, PTL DEF Spec

\* A completion leaves a done task behind, so the status it derives is not
\* "planned".
LEMMA EffectsReplanNothing ==
  ASSUME TypeOK, NEW t \in Tasks, NEW row \in Row, NEW c, row.status = "done",
         CompleteEffects(t, row, c)
  PROVE  order' = order \/ order' # "planned"
<1> DEFINE tbl == Activate([task EXCEPT ![t] = row], t)
<1>1. tbl[t].status = "done"
  BY DEF Activate, NextIsWaiting, HasNext, TypeOK, Tasks
<1>2. order' = IF DerivedStatus(tbl) # c THEN DerivedStatus(tbl) ELSE order
  BY DEF CompleteEffects
<1> HIDE DEF tbl
<1>3. DerivedStatus(tbl) # "planned"
  BY <1>1 DEF DerivedStatus, Exists
<1>4. QED
  BY <1>2, <1>3

\* Under the same two guards no step takes an order back to planned once work
\* on it has begun (update_order_status, product/models.py), whatever status
\* of the order a scan had cached.
THEOREM NeverReplannedAtAll ==
  ASSUME OnlyAtomic
  PROVE  Spec => NeverReplanned
<1>1. ASSUME TypeOK, AtomicInv, [Next]_vars, order \in {"producing", "completed"}
      PROVE  order' # "planned"
  <2>1. CASE UNCHANGED vars
    BY <1>1, <2>1 DEF vars
  <2>2. ASSUME NEW w \in Workers, LoadStep(w) \/ Abort(w)
        PROVE  order' # "planned"
    BY <1>1, <2>2 DEF LoadStep, LoadTask, LoadSetStatus, LoadBulk, LoadFix, Abort, tables
  <2>3. ASSUME NEW w \in Workers, Proceed(w)
        PROVE  order' # "planned"
    <3> DEFINE r == req[w]
    <3>1. r \in Request /\ r.cur \in Tasks
      BY <1>1 DEF TypeOK, Request, RequestRecord
    <3>2. Completed(r) \in Row
      BY <3>1, CompletedType
    <3>3. \/ UNCHANGED order
          \/ /\ Completed(r).status = "done"
             /\ CompleteEffects(r.cur, Completed(r), CachedOrder(r))
      BY <1>1, <2>3, CommitOnly DEF CompleteTask, SaveProgress, TransitionsInHand,
                                    TransitionsInSave, tables
    <3>4. QED
      BY <1>1, <3>1, <3>2, <3>3, EffectsReplanNothing
  <2>4. ASSUME NEW w \in Workers
        PROVE  ~DeleteAllTasks(w) /\ \A S \in SUBSET Tasks \ {{}} : ~DeleteTasks(w, S)
    BY DEF OnlyAtomic, AtomicOps, DeleteTasks, DeleteAllTasks
  <2>5. QED
    BY <1>1, <2>1, <2>2, <2>3, <2>4 DEF Next
<1>2. QED
  BY <1>1, TypeCorrect, AtomicAlways, PTL DEF Spec, NeverReplanned
=============================================================================
