------------------------- MODULE PackagingUnitsProofs -------------------------
(***************************************************************************)
(* Theorems about packaging units, for any users and any number of units.   *)
(***************************************************************************)
EXTENDS PackagingUnits, FiniteSetTheorems, TLAPS

USE DEF ShipmentLogs

-----------------------------------------------------------------------------
(* Lemmas about the operators of the module *)

LEMMA BlankType == Blank \in Row
BY DEF Blank, Row, Marks

LEMMA WithMarkType ==
  ASSUME NEW row \in Row, NEW s \in Stages, NEW m \in Marks
  PROVE  WithMark(row, s, m) \in Row
BY DEF WithMark, Row

LEMMA IdleType == Idle \in Request
<1>1. 1 \in UnitIds
  BY UnitsAssumption DEF UnitsAssumption, UnitIds
<1>2. QED
  BY <1>1, BlankType DEF Idle, Request, Steps

LEMMA StageType == \A w \in Users : Stage[w] \in Stages
BY UnitsAssumption DEF UnitsAssumption

LEMMA MarkType == /\ NoMark \in Marks
                  /\ \A w \in Users : w \in Marks
BY DEF Marks

\* A request that saves a unit: what Scan and Undo load.
LEMMA SaveRequestType ==
  ASSUME NEW o \in Ops, NEW u \in UnitIds, NEW row \in Row
  PROVE  [Idle EXCEPT !.pc = "save", !.op = o, !.u = u, !.mem = row] \in Request
BY IdleType DEF Request, Steps

LEMMA AfterSaveType ==
  ASSUME NEW o \in {"scan", "undo"}, NEW s \in Stages
  PROVE  AfterSave(o, s) \in {"ship_log", "total", "drop_ship_log", "drop_log"}
BY DEF AfterSave, Stages

-----------------------------------------------------------------------------
(* Type correctness *)

\* Only scans and undos save a unit.
SavesUnits == \A w \in Users : req[w].pc = "save" => req[w].op \in {"scan", "undo"}

TypeInv == TypeOK /\ SavesUnits

\* A step that only moves a request on keeps the types.
LEMMA ContinueType ==
  ASSUME TypeInv, NEW w \in Users, NEW r \in Request, Continue(w, r),
         r.pc = "save" => r.op \in {"scan", "undo"}
  PROVE  /\ req' \in [Users -> Request]
         /\ SavesUnits'
BY DEF TypeInv, TypeOK, SavesUnits, Continue

LEMMA FinishType ==
  ASSUME TypeInv, NEW w \in Users, Finish(w)
  PROVE  /\ req' \in [Users -> Request]
         /\ SavesUnits'
<1>1. Idle.pc = "idle"
  BY DEF Idle
<1>2. QED
  BY <1>1, IdleType, ContinueType DEF Finish

LEMMA InitType == Init => TypeInv
<1> SUFFICES ASSUME Init PROVE TypeInv
  OBVIOUS
<1>1. Quantity \in UnitIds
  BY UnitsAssumption DEF UnitsAssumption, UnitIds
<1>2. TypeOK
  BY <1>1, BlankType, IdleType DEF Init, TypeOK
<1>3. SavesUnits
  BY DEF Init, SavesUnits, Idle
<1>4. QED
  BY <1>2, <1>3 DEF TypeInv

LEMMA StepType ==
  ASSUME TypeInv, [Next]_vars
  PROVE  TypeInv'
<1>1. CASE UNCHANGED vars
  BY <1>1 DEF TypeInv, TypeOK, SavesUnits, vars
<1>2. ASSUME NEW w \in Users, NEW u \in UnitIds, Scan(w, u)
      PROVE  TypeInv'
  <2> DEFINE row == WithMark(unit[u], Stage[w], w)
             r == [Idle EXCEPT !.pc = "save", !.op = "scan", !.u = u, !.mem = row]
  <2>1. row \in Row
    BY StageType, MarkType, WithMarkType DEF TypeInv, TypeOK
  <2>2. r \in Request
    BY <2>1, SaveRequestType DEF Ops
  <2>3. r.op = "scan"
    BY DEF Idle
  <2>4. Continue(w, r) /\ UNCHANGED tables
    BY <1>2 DEF Scan
  <2> HIDE DEF r
  <2>5. QED
    BY <2>2, <2>3, <2>4, ContinueType DEF TypeInv, TypeOK, tables
<1>3. ASSUME NEW w \in Users, NEW u \in UnitIds, Undo(w, u)
      PROVE  TypeInv'
  <2> DEFINE row == WithMark(unit[u], Stage[w], NoMark)
             r == [Idle EXCEPT !.pc = "save", !.op = "undo", !.u = u, !.mem = row]
  <2>1. row \in Row
    BY StageType, MarkType, WithMarkType DEF TypeInv, TypeOK
  <2>2. r \in Request
    BY <2>1, SaveRequestType DEF Ops
  <2>3. r.op = "undo"
    BY DEF Idle
  <2>4. Continue(w, r) /\ UNCHANGED tables
    BY <1>3 DEF Undo
  <2> HIDE DEF r
  <2>5. QED
    BY <2>2, <2>3, <2>4, ContinueType DEF TypeInv, TypeOK, tables
<1>4. ASSUME NEW w \in Users, CheckDelivery(w)
      PROVE  TypeInv'
  <2> DEFINE r == [Idle EXCEPT !.pc = "total", !.op = "deliver"]
  <2>1. r \in Request /\ r.pc = "total"
    BY IdleType DEF Request, Steps, Ops, Idle
  <2>2. Continue(w, r) /\ UNCHANGED tables
    BY <1>4 DEF CheckDelivery
  <2> HIDE DEF r
  <2>3. QED
    BY <2>1, <2>2, ContinueType DEF TypeInv, TypeOK, tables
<1>5. ASSUME NEW w \in Users, ScanItem(w)
      PROVE  TypeInv'
  <2> DEFINE r == [Idle EXCEPT !.pc = "exists", !.op = "item"]
  <2>1. r \in Request /\ r.pc = "exists"
    BY IdleType DEF Request, Steps, Ops, Idle
  <2>2. Continue(w, r) /\ UNCHANGED tables
    BY <1>5 DEF ScanItem
  <2> HIDE DEF r
  <2>3. QED
    BY <2>1, <2>2, ContinueType DEF TypeInv, TypeOK, tables
<1>6. ASSUME NEW w \in Users, SaveUnit(w)
      PROVE  TypeInv'
  <2> DEFINE pc == AfterSave(req[w].op, Stage[w])
             r == [req[w] EXCEPT !.pc = pc]
  <2>1. req[w] \in Request /\ req[w].op \in {"scan", "undo"}
    BY <1>6 DEF TypeInv, TypeOK, SavesUnits, SaveUnit
  <2>2. pc \in {"ship_log", "total", "drop_ship_log", "drop_log"}
    BY <2>1, StageType, AfterSaveType
  <2> HIDE DEF pc
  <2>3. r \in Request /\ r.pc # "save"
    BY <2>1, <2>2 DEF Request, Steps
  <2>4. Continue(w, r)
    BY <1>6 DEF SaveUnit, pc
  <2> HIDE DEF r
  <2>5. req' \in [Users -> Request] /\ SavesUnits'
    BY <2>3, <2>4, ContinueType
  <2>6. req[w].u \in UnitIds /\ req[w].mem \in Row
    BY <2>1 DEF Request
  <2>7. unit' \in [UnitIds -> Row]
    BY <1>6, <2>6 DEF SaveUnit, TypeInv, TypeOK
  <2>8. QED
    BY <1>6, <2>5, <2>7 DEF SaveUnit, TypeInv, TypeOK
<1>7. ASSUME NEW w \in Users, CreateShipLog(w)
      PROVE  TypeInv'
  <2> DEFINE r == [req[w] EXCEPT !.pc = "total"]
  <2>1. r \in Request /\ r.pc = "total"
    BY DEF TypeInv, TypeOK, Request, Steps
  <2>2. Continue(w, r)
    BY <1>7 DEF CreateShipLog
  <2> HIDE DEF r
  <2>3. req' \in [Users -> Request] /\ SavesUnits'
    BY <2>1, <2>2, ContinueType
  <2>4. shipLogs' \in [UnitIds -> Nat]
    <3>1. req[w].u \in UnitIds
      BY DEF TypeInv, TypeOK, Request
    <3>2. shipLogs[req[w].u] + 1 \in Nat
      BY <3>1 DEF TypeInv, TypeOK
    <3>3. QED
      BY <1>7, <3>2 DEF CreateShipLog, TypeInv, TypeOK
  <2>5. QED
    BY <1>7, <2>3, <2>4 DEF CreateShipLog, TypeInv, TypeOK
<1>8. ASSUME NEW w \in Users, CountTotal(w)
      PROVE  TypeInv'
  <2> DEFINE r == [req[w] EXCEPT !.pc = "marked", !.total = units]
  <2>1. units \in Nat
    BY UnitsAssumption DEF TypeInv, TypeOK, UnitIds, UnitsAssumption
  <2>2. r \in Request /\ r.pc = "marked"
    BY <2>1 DEF TypeInv, TypeOK, Request, Steps
  <2>3. Continue(w, r) /\ UNCHANGED tables
    BY <1>8 DEF CountTotal
  <2> HIDE DEF r
  <2>4. QED
    BY <2>2, <2>3, ContinueType DEF TypeInv, TypeOK, tables
<1>9. ASSUME NEW w \in Users, CountMarked(w)
      PROVE  TypeInv'
  <2> DEFINE r == [req[w] EXCEPT !.pc = IF req[w].op = "deliver"
                                        THEN "deliver" ELSE "exists"]
  <2>1. r \in Request /\ r.pc # "save"
    BY DEF TypeInv, TypeOK, Request, Steps
  <2>2. (Continue(w, r) \/ Finish(w)) /\ UNCHANGED tables
    BY <1>9 DEF CountMarked
  <2> HIDE DEF r
  <2>3. QED
    BY <2>1, <2>2, ContinueType, FinishType DEF TypeInv, TypeOK, tables
<1>10. ASSUME NEW w \in Users, LogExists(w)
       PROVE  TypeInv'
  <2> DEFINE r == [req[w] EXCEPT !.pc = "create"]
  <2>1. r \in Request /\ r.pc # "save"
    BY DEF TypeInv, TypeOK, Request, Steps
  <2>2. (Continue(w, r) \/ Finish(w)) /\ UNCHANGED tables
    BY <1>10 DEF LogExists
  <2> HIDE DEF r
  <2>3. QED
    BY <2>1, <2>2, ContinueType, FinishType DEF TypeInv, TypeOK, tables
<1>11. ASSUME NEW w \in Users, CreateLog(w)
       PROVE  TypeInv'
  <2>1. logs' \in [Stages -> Nat]
    <3>1. logs[Stage[w]] + 1 \in Nat
      BY StageType DEF TypeInv, TypeOK
    <3>2. QED
      BY <1>11, <3>1 DEF CreateLog, TypeInv, TypeOK
  <2>2. QED
    BY <1>11, <2>1, FinishType DEF CreateLog, TypeInv, TypeOK
<1>12. ASSUME NEW w \in Users, DropShipLogs(w)
       PROVE  TypeInv'
  <2> DEFINE r == [req[w] EXCEPT !.pc = "drop_log"]
  <2>1. r \in Request /\ r.pc # "save"
    BY DEF TypeInv, TypeOK, Request, Steps
  <2>2. Continue(w, r)
    BY <1>12 DEF DropShipLogs
  <2> HIDE DEF r
  <2>3. shipLogs' \in [UnitIds -> Nat]
    BY <1>12 DEF DropShipLogs, TypeInv, TypeOK
  <2>4. QED
    BY <1>12, <2>1, <2>2, <2>3, ContinueType DEF DropShipLogs, TypeInv, TypeOK
<1>13. ASSUME NEW w \in Users, DropLogs(w)
       PROVE  TypeInv'
  <2>1. logs' \in [Stages -> Nat]
    BY <1>13 DEF DropLogs, TypeInv, TypeOK
  <2>2. QED
    BY <1>13, <2>1, FinishType DEF DropLogs, TypeInv, TypeOK
<1>14. ASSUME NEW w \in Users, NEW p \in Users, Deliver(w, p)
       PROVE  TypeInv'
  <2>1. \A u \in UnitIds : WithMark(unit[u], "shipping", p) \in Row
    BY MarkType, WithMarkType DEF Stages, TypeInv, TypeOK
  <2>2. unit' \in [UnitIds -> Row]
    BY <1>14, <2>1 DEF Deliver, TypeInv, TypeOK
  <2>3. shipLogs' \in [UnitIds -> Nat]
    BY <1>14 DEF Deliver, TypeInv, TypeOK
  <2>4. QED
    BY <1>14, <2>2, <2>3, FinishType DEF Deliver, TypeInv, TypeOK
<1>15. ASSUME NEW w \in Users, NEW n \in UnitIds, EditItem(w, n)
       PROVE  TypeInv'
  BY <1>15 DEF EditItem, TypeInv, TypeOK, SavesUnits
<1>16. QED
  BY <1>1, <1>2, <1>3, <1>4, <1>5, <1>6, <1>7, <1>8, <1>9, <1>10, <1>11,
     <1>12, <1>13, <1>14, <1>15 DEF Next, Load, Proceed

\* Every table and every request in flight keeps its type, for any users,
\* views and quantities: no interleaving of the packaging views leaves a
\* request in an unknown step or a unit with a foreign mark.
THEOREM UnitsTypeCorrect == Spec => []TypeOK
<1>1. TypeInv => TypeOK
  BY DEF TypeInv
<1>2. QED
  BY <1>1, InitType, StepType, PTL DEF Spec

-----------------------------------------------------------------------------
(* Shipped units are packed *)

\* Nobody of the packaging stage takes packings back.
NoPackingUndo == \A w \in Users : Stage[w] = "packaging" => "undo" \notin Views[w]

\* What a request saves is packed: a packer packs it, a shipper found it packed.
SavesPacked ==
    \A w \in Users : req[w].pc = "save" => req[w].mem.packaging # NoMark

\* A shipper's save never packs a unit: it is packed already.
ShippersFindPacked ==
    \A w \in Users : req[w].pc = "save" /\ Stage[w] = "shipping" =>
        unit[req[w].u].packaging # NoMark

PackedInv == ShippedArePacked /\ SavesPacked /\ ShippersFindPacked

LEMMA WithMarkFields ==
  ASSUME NEW row \in Row, NEW s \in Stages, NEW m \in Marks
  PROVE  \A q \in Stages : WithMark(row, s, m)[q] = IF q = s THEN m ELSE row[q]
BY DEF WithMark, Row

LEMMA UserMarks == \A w \in Users : w # NoMark
BY UnitsAssumption DEF UnitsAssumption

\* Steps that load no unit and write none.
LEMMA PackedContinue ==
  ASSUME TypeInv, PackedInv, NEW w \in Users, NEW r \in Request,
         Continue(w, r), r.pc # "save", UNCHANGED unit
  PROVE  PackedInv'
BY DEF TypeInv, TypeOK, PackedInv, ShippedArePacked, SavesPacked,
       ShippersFindPacked, Continue

LEMMA PackedFinish ==
  ASSUME TypeInv, PackedInv, NEW w \in Users, Finish(w), UNCHANGED unit
  PROVE  PackedInv'
<1>1. Idle.pc # "save"
  BY DEF Idle
<1>2. QED
  BY <1>1, IdleType, PackedContinue DEF Finish

LEMMA PackedStep ==
  ASSUME NoPackingUndo, TypeInv, PackedInv, [Next]_vars
  PROVE  PackedInv'
<1>1. CASE UNCHANGED vars
  BY <1>1 DEF PackedInv, ShippedArePacked, SavesPacked, ShippersFindPacked, vars
<1>2. ASSUME NEW w \in Users, NEW u \in UnitIds, Scan(w, u)
      PROVE  PackedInv'
  <2> DEFINE row == WithMark(unit[u], Stage[w], w)
             r == [Idle EXCEPT !.pc = "save", !.op = "scan", !.u = u, !.mem = row]
  <2>1. unit[u] \in Row /\ Stage[w] \in Stages /\ w \in Marks
    BY StageType, MarkType DEF TypeInv, TypeOK
  <2>2. Stage[w] = "shipping" => unit[u].packaging # NoMark
    BY <1>2 DEF Scan, Scannable
  <2>3. row.packaging # NoMark
    <3>1. row["packaging"] = IF "packaging" = Stage[w] THEN w
                             ELSE unit[u]["packaging"]
      BY <2>1, WithMarkFields DEF Stages
    <3>2. QED
      BY <2>1, <2>2, <3>1, UserMarks DEF Stages
  <2> HIDE DEF row
  <2>4. r \in Request /\ r.u = u /\ r.mem = row
    <3>1. row \in Row
      BY <2>1, WithMarkType DEF row
    <3>2. QED
      BY <3>1, SaveRequestType, IdleType DEF Ops, Idle
  <2>5. req' = [req EXCEPT ![w] = r] /\ UNCHANGED unit
    BY <1>2 DEF Scan, Continue, tables, row
  <2> HIDE DEF r
  <2>6. \A v \in Users : req'[v] = IF v = w THEN r ELSE req[v]
    BY <2>5 DEF TypeInv, TypeOK
  <2>7. SavesPacked'
    BY <2>3, <2>4, <2>6 DEF PackedInv, SavesPacked
  <2>8. ShippersFindPacked'
    BY <2>2, <2>4, <2>5, <2>6 DEF PackedInv, ShippersFindPacked
  <2>9. QED
    BY <2>5, <2>7, <2>8 DEF PackedInv, ShippedArePacked
<1>3. ASSUME NEW w \in Users, NEW u \in UnitIds, Undo(w, u)
      PROVE  PackedInv'
  <2> DEFINE row == WithMark(unit[u], Stage[w], NoMark)
             r == [Idle EXCEPT !.pc = "save", !.op = "undo", !.u = u, !.mem = row]
  <2>1. unit[u] \in Row /\ Stage[w] \in Stages /\ NoMark \in Marks
    BY StageType, MarkType DEF TypeInv, TypeOK
  <2>2. Stage[w] = "shipping"
    BY <1>3, <2>1 DEF Undo, Starts, NoPackingUndo, Stages
  <2>3. unit[u].packaging # NoMark
    BY <1>3, <2>2 DEF Undo, PackedInv, ShippedArePacked
  <2>4. row.packaging # NoMark
    <3>1. row["packaging"] = unit[u]["packaging"]
      BY <2>1, <2>2, WithMarkFields DEF Stages
    <3>2. QED
      BY <2>3, <3>1
  <2> HIDE DEF row
  <2>5. r \in Request /\ r.u = u /\ r.mem = row
    <3>1. row \in Row
      BY <2>1, WithMarkType DEF row
    <3>2. QED
      BY <3>1, SaveRequestType, IdleType DEF Ops, Idle
  <2>6. req' = [req EXCEPT ![w] = r] /\ UNCHANGED unit
    BY <1>3 DEF Undo, Continue, tables, row
  <2> HIDE DEF r
  <2>7. \A v \in Users : req'[v] = IF v = w THEN r ELSE req[v]
    BY <2>6 DEF TypeInv, TypeOK
  <2>8. SavesPacked'
    BY <2>4, <2>5, <2>7 DEF PackedInv, SavesPacked
  <2>9. ShippersFindPacked'
    BY <2>3, <2>5, <2>6, <2>7 DEF PackedInv, ShippersFindPacked
  <2>10. QED
    BY <2>6, <2>8, <2>9 DEF PackedInv, ShippedArePacked
<1>4. ASSUME NEW w \in Users, SaveUnit(w)
      PROVE  PackedInv'
  <2> DEFINE pc == AfterSave(req[w].op, Stage[w])
             r == [req[w] EXCEPT !.pc = pc]
  <2>1. req[w] \in Request /\ req[w].pc = "save" /\ req[w].op \in {"scan", "undo"}
    BY <1>4 DEF TypeInv, TypeOK, SavesUnits, SaveUnit
  <2>2. pc # "save"
    BY <2>1, StageType, AfterSaveType
  <2>3. r.pc = pc
    BY <2>1 DEF Request
  <2>4. req' = [req EXCEPT ![w] = r]
    BY <1>4 DEF SaveUnit, Continue
  <2>5. unit' = [unit EXCEPT ![req[w].u] = req[w].mem] /\ req[w].u \in UnitIds
    BY <1>4, <2>1 DEF SaveUnit, Request
  <2>6. req[w].mem.packaging # NoMark
    BY <2>1 DEF PackedInv, SavesPacked
  <2> HIDE DEF pc, r
  <2>7. \A v \in Users : req'[v] = IF v = w THEN r ELSE req[v]
    BY <2>4 DEF TypeInv, TypeOK
  <2>8. \A x \in UnitIds : unit'[x] = IF x = req[w].u THEN req[w].mem ELSE unit[x]
    BY <2>5 DEF TypeInv, TypeOK
  <2>9. SavesPacked'
    BY <2>2, <2>3, <2>7 DEF PackedInv, SavesPacked
  <2>10. ShippersFindPacked'
    <3>1. \A v \in Users : req[v].u \in UnitIds
      BY DEF TypeInv, TypeOK, Request
    <3>2. QED
      BY <2>2, <2>3, <2>6, <2>7, <2>8, <3>1 DEF PackedInv, ShippersFindPacked
  <2>11. ShippedArePacked'
    BY <2>6, <2>8 DEF PackedInv, ShippedArePacked
  <2>12. QED
    BY <2>9, <2>10, <2>11 DEF PackedInv
<1>5. ASSUME NEW w \in Users, NEW p \in Users, Deliver(w, p)
      PROVE  PackedInv'
  <2> DEFINE due == {u \in Marked("packaging") : unit[u].shipping = NoMark}
  <2>1. \A u \in UnitIds : unit'[u] = IF u \in due THEN WithMark(unit[u], "shipping", p)
                                                   ELSE unit[u]
    BY <1>5 DEF Deliver
  <2>2. \A u \in due : unit[u].packaging # NoMark
    BY DEF Marked
  <2> HIDE DEF due
  <2>3. \A u \in UnitIds : unit'[u].packaging = unit[u].packaging
    <3> SUFFICES ASSUME NEW u \in UnitIds PROVE unit'[u].packaging = unit[u].packaging
      OBVIOUS
    <3>1. WithMark(unit[u], "shipping", p)["packaging"] = unit[u]["packaging"]
      BY WithMarkFields, MarkType DEF Stages, TypeInv, TypeOK
    <3>2. QED
      BY <2>1, <3>1
  <2>4. ShippedArePacked'
    BY <2>1, <2>2, <2>3 DEF PackedInv, ShippedArePacked
  <2>5. req' = [req EXCEPT ![w] = Idle]
    BY <1>5 DEF Deliver, Finish, Continue
  <2>6. \A v \in Users : req'[v] = IF v = w THEN Idle ELSE req[v]
    BY <2>5 DEF TypeInv, TypeOK
  <2>7. Idle.pc # "save"
    BY DEF Idle
  <2>8. SavesPacked'
    BY <2>6, <2>7 DEF PackedInv, SavesPacked
  <2>9. ShippersFindPacked'
    <3>1. \A v \in Users : req[v].u \in UnitIds
      BY DEF TypeInv, TypeOK, Request
    <3>2. QED
      BY <2>3, <2>6, <2>7, <3>1 DEF PackedInv, ShippersFindPacked
  <2>10. QED
    BY <2>4, <2>8, <2>9 DEF PackedInv
<1>6. ASSUME NEW w \in Users, CheckDelivery(w) \/ ScanItem(w)
      PROVE  PackedInv'
  <2>1. [Idle EXCEPT !.pc = "total", !.op = "deliver"] \in Request
    BY IdleType DEF Request, Steps, Ops
  <2>2. [Idle EXCEPT !.pc = "exists", !.op = "item"] \in Request
    BY IdleType DEF Request, Steps, Ops
  <2>3. QED
    BY <1>6, <2>1, <2>2, PackedContinue DEF CheckDelivery, ScanItem, tables, Idle
<1>7. ASSUME NEW w \in Users,
             \/ CreateShipLog(w) \/ CountTotal(w) \/ CountMarked(w)
             \/ LogExists(w) \/ DropShipLogs(w)
      PROVE  PackedInv'
  <2>1. PICK r \in {[req[w] EXCEPT !.pc = "total"],
                    [req[w] EXCEPT !.pc = "marked", !.total = units],
                    [req[w] EXCEPT !.pc = "deliver"], [req[w] EXCEPT !.pc = "exists"],
                    [req[w] EXCEPT !.pc = "create"], [req[w] EXCEPT !.pc = "drop_log"],
                    Idle} :
             Continue(w, r) /\ UNCHANGED unit
    BY <1>7 DEF CreateShipLog, CountTotal, CountMarked, LogExists, DropShipLogs,
                Finish, tables
  <2>2. units \in Nat
    BY UnitsAssumption DEF TypeInv, TypeOK, UnitIds, UnitsAssumption
  <2>3. r \in Request
    BY <2>2, IdleType DEF TypeInv, TypeOK, Request, Steps
  <2>4. r.pc # "save"
    <3> DEFINE q == req[w]
    <3>1. q \in Request
      BY DEF TypeInv, TypeOK
    <3> HIDE DEF q
    <3>2. \A x \in Steps : [q EXCEPT !.pc = x].pc = x
      BY <3>1 DEF Request
    <3>3. [q EXCEPT !.pc = "marked", !.total = units].pc = "marked"
      BY <3>1 DEF Request
    <3>4. Idle.pc = "idle"
      BY DEF Idle
    <3>5. QED
      BY <3>2, <3>3, <3>4 DEF q, Steps
  <2>5. QED
    BY <2>1, <2>3, <2>4, PackedContinue
<1>8. ASSUME NEW w \in Users, CreateLog(w) \/ DropLogs(w)
      PROVE  PackedInv'
  BY <1>8, PackedFinish DEF CreateLog, DropLogs
<1>9. ASSUME NEW w \in Users, NEW n \in UnitIds, EditItem(w, n)
      PROVE  PackedInv'
  BY <1>9 DEF EditItem, PackedInv, ShippedArePacked, SavesPacked, ShippersFindPacked
<1>10. QED
  BY <1>1, <1>2, <1>3, <1>4, <1>5, <1>6, <1>7, <1>8, <1>9 DEF Next, Load, Proceed

LEMMA PackedInit == Init => PackedInv
BY BlankType DEF Init, PackedInv, ShippedArePacked, SavesPacked, ShippersFindPacked,
                 Idle, Blank, Stages

\* Where nobody takes packings back, a shipped unit is packed at every moment,
\* whatever stale rows the scans of any number of users write; taking back
\* shipments and delivering are harmless.
THEOREM ShippedUnitsArePacked ==
  ASSUME NoPackingUndo
  PROVE  Spec => []ShippedArePacked
<1>1. PackedInv => ShippedArePacked
  BY DEF PackedInv
<1>2. Init => TypeInv /\ PackedInv
  BY InitType, PackedInit
<1>3. TypeInv /\ PackedInv /\ [Next]_vars => (TypeInv /\ PackedInv)'
  BY StepType, PackedStep
<1>4. QED
  BY <1>1, <1>2, <1>3, PTL DEF Spec

-----------------------------------------------------------------------------
(* A fully packed item gets its log *)

\* Without undos of packings, only shippers delete logs, packers save scans,
\* and a save is of a unit that exists.
RequestsFit ==
    \A w \in Users :
        /\ req[w].pc = "save" => req[w].u \in Live
        /\ req[w].pc = "save" /\ Stage[w] = "packaging" => req[w].op = "scan"
        /\ req[w].pc \in {"drop_ship_log", "drop_log"} => Stage[w] = "shipping"

\* A unit is not packed before it exists.
NewUnitsUnpacked ==
    \A u \in UnitIds : u \notin Live => unit[u].packaging = NoMark

\* Request r of user w will find the item full, n units being all of it.
WillLog(r, w, n) ==
    /\ Stage[w] = "packaging"
    /\ \/ r.pc \in {"exists", "create"}
       \/ r.op # "deliver" /\ r.pc = "total"
       \/ r.op # "deliver" /\ r.pc = "marked" /\ r.total = n

\* Whoever packed the last unit has logged it or is about to.
FullIsBeingLogged ==
    Marked("packaging") = Live /\ logs["packaging"] = 0 =>
        \E w \in Users : WillLog(req[w], w, units)

LoggedInv == RequestsFit /\ NewUnitsUnpacked /\ FullIsBeingLogged

LEMMA LiveCount ==
  ASSUME TypeInv
  PROVE  /\ units \in Nat \ {0}
         /\ Cardinality(Live) = units
<1>1. units \in Nat \ {0}
  BY UnitsAssumption DEF UnitsAssumption, TypeInv, TypeOK, UnitIds
<1>2. Cardinality(1..units) = units
  BY <1>1, FS_Interval
<1>3. QED
  BY <1>1, <1>2 DEF Live

\* Which units are packed is all that matters of the rows.
LEMMA SamePacked ==
  ASSUME TypeInv, UNCHANGED units,
         \A u \in UnitIds : (unit'[u].packaging # NoMark) <=> (unit[u].packaging # NoMark)
  PROVE  /\ Marked("packaging")' = Marked("packaging")
         /\ Live' = Live
         /\ NewUnitsUnpacked => NewUnitsUnpacked'
<1>1. Live' = Live
  BY DEF Live
<1>2. Live \subseteq UnitIds
  BY UnitsAssumption DEF Live, UnitIds, UnitsAssumption, TypeInv, TypeOK
<1>3. Marked("packaging")' = Marked("packaging")
  BY <1>1, <1>2 DEF Marked
<1>4. QED
  BY <1>1, <1>3 DEF NewUnitsUnpacked

\* A step of a request that packs no unit and does not forget to log.
LEMMA LoggedContinue ==
  ASSUME TypeInv, LoggedInv, NEW w \in Users, NEW r, Continue(w, r), UNCHANGED units,
         \A u \in UnitIds : (unit'[u].packaging # NoMark) <=> (unit[u].packaging # NoMark),
         logs'["packaging"] = 0 => logs["packaging"] = 0,
         /\ r.pc = "save" => r.u \in Live
         /\ r.pc = "save" /\ Stage[w] = "packaging" => r.op = "scan"
         /\ r.pc \in {"drop_ship_log", "drop_log"} => Stage[w] = "shipping",
         WillLog(req[w], w, units) /\ Marked("packaging") = Live /\ logs'["packaging"] = 0
             => WillLog(r, w, units)
  PROVE  LoggedInv'
<1>1. /\ Marked("packaging")' = Marked("packaging")
      /\ Live' = Live
      /\ NewUnitsUnpacked'
  BY SamePacked DEF LoggedInv
<1>2. \A v \in Users : req'[v] = IF v = w THEN r ELSE req[v]
  BY DEF Continue, TypeInv, TypeOK
<1>3. RequestsFit'
  BY <1>1, <1>2 DEF LoggedInv, RequestsFit
<1>4. FullIsBeingLogged'
  <2> SUFFICES ASSUME Marked("packaging")' = Live', logs'["packaging"] = 0
               PROVE  \E v \in Users : WillLog(req'[v], v, units)
    BY DEF FullIsBeingLogged
  <2>1. PICK v \in Users : WillLog(req[v], v, units)
    BY <1>1 DEF LoggedInv, FullIsBeingLogged
  <2>2. WillLog(req'[v], v, units)
    BY <1>1, <1>2, <2>1
  <2>3. QED
    BY <2>2
<1>5. QED
  BY <1>1, <1>3, <1>4 DEF LoggedInv

LEMMA LoggedStep ==
  ASSUME NoPackingUndo, TypeInv, PackedInv, LoggedInv, [Next]_vars
  PROVE  LoggedInv'
<1>a. Stages = {"packaging", "shipping"} /\ \A w \in Users : Stage[w] \in Stages
  BY StageType DEF Stages
<1>1. CASE UNCHANGED vars
  BY <1>1 DEF LoggedInv, RequestsFit, NewUnitsUnpacked, FullIsBeingLogged, Marked,
              Live, vars
<1>2. ASSUME NEW w \in Users, NEW u \in UnitIds, Scan(w, u)
      PROVE  LoggedInv'
  <2> DEFINE row == WithMark(unit[u], Stage[w], w)
             r == [Idle EXCEPT !.pc = "save", !.op = "scan", !.u = u, !.mem = row]
  <2>1. r.pc = "save" /\ r.op = "scan" /\ r.u = u
    BY DEF Idle
  <2>2. Continue(w, r) /\ UNCHANGED tables /\ u \in Live /\ req[w].pc = "idle"
    BY <1>2 DEF Scan, Starts
  <2> HIDE DEF r
  <2>3. ~WillLog(req[w], w, units)
    BY <2>2 DEF WillLog
  <2>4. QED
    BY <2>1, <2>2, <2>3, LoggedContinue DEF tables
<1>3. ASSUME NEW w \in Users, NEW u \in UnitIds, Undo(w, u)
      PROVE  LoggedInv'
  <2> DEFINE row == WithMark(unit[u], Stage[w], NoMark)
             r == [Idle EXCEPT !.pc = "save", !.op = "undo", !.u = u, !.mem = row]
  <2>1. r.pc = "save" /\ r.u = u
    BY DEF Idle
  <2>2. Continue(w, r) /\ UNCHANGED tables /\ u \in Live /\ req[w].pc = "idle"
    BY <1>3 DEF Undo, Starts
  <2>3. Stage[w] # "packaging"
    BY <1>3 DEF Undo, Starts, NoPackingUndo
  <2> HIDE DEF r
  <2>4. ~WillLog(req[w], w, units)
    BY <2>2 DEF WillLog
  <2>5. QED
    BY <2>1, <2>2, <2>3, <2>4, LoggedContinue DEF tables
<1>4. ASSUME NEW w \in Users, CheckDelivery(w) \/ ScanItem(w)
      PROVE  LoggedInv'
  <2>1. PICK r \in {[Idle EXCEPT !.pc = "total", !.op = "deliver"],
                    [Idle EXCEPT !.pc = "exists", !.op = "item"]} :
            Continue(w, r)
    BY <1>4 DEF CheckDelivery, ScanItem
  <2>2. UNCHANGED tables /\ req[w].pc = "idle"
    BY <1>4 DEF CheckDelivery, ScanItem, Starts
  <2>3. r.pc \in {"total", "exists"}
    BY DEF Idle
  <2>4. ~WillLog(req[w], w, units)
    BY <2>2 DEF WillLog
  <2>5. QED
    BY <2>1, <2>2, <2>3, <2>4, LoggedContinue DEF tables
<1>5. ASSUME NEW w \in Users, SaveUnit(w), Stage[w] = "shipping"
      PROVE  LoggedInv'
  <2> DEFINE pc == AfterSave(req[w].op, Stage[w])
             r == [req[w] EXCEPT !.pc = pc]
  <2>1. req[w] \in Request /\ req[w].pc = "save" /\ req[w].op \in {"scan", "undo"}
    BY <1>5 DEF TypeInv, TypeOK, SavesUnits, SaveUnit
  <2>2. pc # "save"
    BY <2>1, <1>a, AfterSaveType
  <2>3. r.pc = pc
    BY <2>1 DEF Request
  <2>4. Continue(w, r) /\ UNCHANGED <<units, logs>>
    BY <1>5 DEF SaveUnit
  <2>5. unit' = [unit EXCEPT ![req[w].u] = req[w].mem] /\ req[w].u \in UnitIds
    BY <1>5, <2>1 DEF SaveUnit, Request
  <2>6. req[w].mem.packaging # NoMark /\ unit[req[w].u].packaging # NoMark
    BY <1>5, <2>1 DEF PackedInv, SavesPacked, ShippersFindPacked
  <2> HIDE DEF pc, r
  <2>7. \A u \in UnitIds : (unit'[u].packaging # NoMark) <=> (unit[u].packaging # NoMark)
    BY <2>5, <2>6 DEF TypeInv, TypeOK
  <2>8. ~WillLog(req[w], w, units)
    BY <1>5 DEF WillLog
  <2>9. QED
    BY <1>5, <2>2, <2>3, <2>4, <2>7, <2>8, LoggedContinue
<1>6. ASSUME NEW w \in Users, SaveUnit(w), Stage[w] = "packaging"
      PROVE  LoggedInv'
  <2> DEFINE r == [req[w] EXCEPT !.pc = "total"]
  <2>1. /\ req[w] \in Request /\ req[w].pc = "save"
        /\ req[w].op = "scan" /\ req[w].u \in Live
    BY <1>6 DEF TypeInv, TypeOK, SaveUnit, LoggedInv, RequestsFit
  <2>2. AfterSave(req[w].op, Stage[w]) = "total"
    BY <1>6, <2>1 DEF AfterSave
  <2>3. r.pc = "total" /\ r.op = "scan"
    BY <2>1 DEF Request
  <2>4. req' = [req EXCEPT ![w] = r] /\ UNCHANGED <<units, logs>>
    BY <1>6, <2>2 DEF SaveUnit, Continue
  <2>5. unit' = [unit EXCEPT ![req[w].u] = req[w].mem] /\ req[w].u \in UnitIds
    BY <1>6, <2>1 DEF SaveUnit, Request
  <2> HIDE DEF r
  <2>6. \A v \in Users : req'[v] = IF v = w THEN r ELSE req[v]
    BY <2>4 DEF TypeInv, TypeOK
  <2>7. Live' = Live
    BY <2>4 DEF Live
  <2>8. RequestsFit'
    BY <2>3, <2>6, <2>7 DEF LoggedInv, RequestsFit
  <2>9. NewUnitsUnpacked'
    BY <2>1, <2>5, <2>7 DEF LoggedInv, NewUnitsUnpacked, TypeInv, TypeOK
  <2>10. WillLog(req'[w], w, units')
    BY <1>6, <2>3, <2>6 DEF WillLog
  <2>11. QED
    BY <2>8, <2>9, <2>10 DEF LoggedInv, FullIsBeingLogged
<1>7. ASSUME NEW w \in Users, CreateShipLog(w) \/ DropShipLogs(w)
      PROVE  LoggedInv'
  <2>1. PICK x \in {"total", "drop_log"} : Continue(w, [req[w] EXCEPT !.pc = x])
    BY <1>7 DEF CreateShipLog, DropShipLogs
  <2>2. UNCHANGED <<units, unit, logs>> /\ req[w].pc \in {"ship_log", "drop_ship_log"}
    BY <1>7 DEF CreateShipLog, DropShipLogs
  <2>3. [req[w] EXCEPT !.pc = x].pc = x
    BY DEF TypeInv, TypeOK, Request
  <2>4. x = "drop_log" => Stage[w] = "shipping"
    <3>1. CASE CreateShipLog(w)
      <4>1. req[w] \in Request
        BY DEF TypeInv, TypeOK
      <4>2. \A v \in Users : req'[v] = IF v = w THEN [req[w] EXCEPT !.pc = "total"]
                                                ELSE req[v]
        BY <3>1 DEF CreateShipLog, Continue, TypeInv, TypeOK
      <4>3. req'[w] = [req[w] EXCEPT !.pc = x]
        BY <2>1 DEF Continue, TypeInv, TypeOK
      <4>4. x = "total"
        BY <2>3, <4>1, <4>2, <4>3 DEF Request
      <4>5. QED
        BY <4>4
    <3>2. CASE DropShipLogs(w)
      BY <3>2 DEF DropShipLogs, LoggedInv, RequestsFit
    <3>3. QED
      BY <1>7, <3>1, <3>2
  <2>5. ~WillLog(req[w], w, units)
    BY <2>2 DEF WillLog
  <2>6. QED
    BY <2>1, <2>2, <2>3, <2>4, <2>5, LoggedContinue
<1>8. ASSUME NEW w \in Users, CountTotal(w)
      PROVE  LoggedInv'
  <2> DEFINE r == [req[w] EXCEPT !.pc = "marked", !.total = units]
  <2>1. r.pc = "marked" /\ r.total = units /\ r.op = req[w].op
    BY DEF TypeInv, TypeOK, Request
  <2>2. Continue(w, r) /\ UNCHANGED tables /\ req[w].pc = "total"
    BY <1>8 DEF CountTotal
  <2> HIDE DEF r
  <2>3. WillLog(req[w], w, units) => WillLog(r, w, units)
    BY <2>1, <2>2 DEF WillLog
  <2>4. QED
    BY <2>1, <2>2, <2>3, LoggedContinue DEF tables
<1>9. ASSUME NEW w \in Users, CountMarked(w)
      PROVE  LoggedInv'
  <2> DEFINE r == [req[w] EXCEPT !.pc = IF req[w].op = "deliver"
                                        THEN "deliver" ELSE "exists"]
             full == Full(req[w].total, Cardinality(Marked(CountedStage(req[w], w))))
  <2>1. r.pc = IF req[w].op = "deliver" THEN "deliver" ELSE "exists"
    BY DEF TypeInv, TypeOK, Request
  <2>2. UNCHANGED tables /\ req[w].pc = "marked"
    BY <1>9 DEF CountMarked
  <2>3. Continue(w, IF full THEN r ELSE Idle)
    BY <1>9 DEF CountMarked, Finish
  <2>4. WillLog(req[w], w, units) /\ Marked("packaging") = Live => full
    BY <2>2, LiveCount DEF WillLog, Full, CountedStage
  <2>5. WillLog(req[w], w, units) => WillLog(r, w, units)
    BY <2>1, <2>2 DEF WillLog
  <2>6. Idle.pc = "idle"
    BY DEF Idle
  <2> HIDE DEF r, full
  <2>7. CASE full
    BY <2>1, <2>2, <2>3, <2>5, <2>7, LoggedContinue DEF tables
  <2>8. CASE ~full
    BY <2>2, <2>3, <2>4, <2>6, <2>8, LoggedContinue DEF tables
  <2>9. QED
    BY <2>7, <2>8
<1>10. ASSUME NEW w \in Users, LogExists(w)
       PROVE  LoggedInv'
  <2> DEFINE r == [req[w] EXCEPT !.pc = "create"]
  <2>1. r.pc = "create"
    BY DEF TypeInv, TypeOK, Request
  <2>2. UNCHANGED tables /\ req[w].pc = "exists"
    BY <1>10 DEF LogExists
  <2>3. Continue(w, IF LogDue(Stage[w]) THEN r ELSE Idle)
    BY <1>10 DEF LogExists, Finish
  <2>4. Idle.pc = "idle"
    BY DEF Idle
  <2> HIDE DEF r
  <2>5. CASE LogDue(Stage[w])
    <3>1. WillLog(req[w], w, units) => WillLog(r, w, units)
      BY <2>1 DEF WillLog
    <3>2. QED
      BY <2>1, <2>2, <2>3, <2>5, <3>1, LoggedContinue DEF tables
  <2>6. CASE ~LogDue(Stage[w])
    <3>1. WillLog(req[w], w, units) => logs["packaging"] # 0
      BY <2>6 DEF WillLog, LogDue
    <3>2. QED
      BY <2>2, <2>3, <2>4, <2>6, <3>1, LoggedContinue DEF tables
  <2>7. QED
    BY <2>5, <2>6
<1>11. ASSUME NEW w \in Users, CreateLog(w)
       PROVE  LoggedInv'
  <2>1. UNCHANGED <<units, unit, shipLogs>> /\ Continue(w, Idle)
    BY <1>11 DEF CreateLog, Finish
  <2>2. logs' = [logs EXCEPT ![Stage[w]] = logs[Stage[w]] + 1] /\ logs \in [Stages -> Nat]
    BY <1>11 DEF CreateLog, TypeInv, TypeOK
  <2>3. logs["packaging"] \in Nat
    BY <1>a, <2>2
  <2>4. logs'["packaging"] = IF Stage[w] = "packaging" THEN logs["packaging"] + 1
                                                       ELSE logs["packaging"]
    BY <1>a, <2>2
  <2>5. Idle.pc = "idle"
    BY DEF Idle
  <2>6. WillLog(req[w], w, units) => logs'["packaging"] # 0
    BY <2>3, <2>4 DEF WillLog
  <2>7. logs'["packaging"] = 0 => logs["packaging"] = 0
    BY <2>3, <2>4
  <2>8. QED
    BY <2>1, <2>5, <2>6, <2>7, LoggedContinue
<1>12. ASSUME NEW w \in Users, DropLogs(w)
       PROVE  LoggedInv'
  <2>1. UNCHANGED <<units, unit>> /\ Continue(w, Idle) /\ req[w].pc = "drop_log"
    BY <1>12 DEF DropLogs, Finish
  <2>2. Stage[w] = "shipping"
    BY <2>1 DEF LoggedInv, RequestsFit
  <2>3. logs'["packaging"] = logs["packaging"]
    BY <1>12, <1>a, <2>2 DEF DropLogs, TypeInv, TypeOK
  <2>4. Idle.pc = "idle"
    BY DEF Idle
  <2>5. ~WillLog(req[w], w, units)
    BY <2>1 DEF WillLog
  <2>6. QED
    BY <2>1, <2>3, <2>4, <2>5, LoggedContinue
<1>13. ASSUME NEW w \in Users, NEW p \in Users, Deliver(w, p)
       PROVE  LoggedInv'
  <2>1. UNCHANGED <<units, logs>> /\ Continue(w, Idle) /\ req[w].pc = "deliver"
    BY <1>13 DEF Deliver, Finish
  <2>2. \A u \in UnitIds : unit'[u].packaging = unit[u].packaging
    <3> SUFFICES ASSUME NEW u \in UnitIds PROVE unit'[u].packaging = unit[u].packaging
      OBVIOUS
    <3>1. unit'[u] \in {unit[u], WithMark(unit[u], "shipping", p)}
      BY <1>13 DEF Deliver
    <3>2. WithMark(unit[u], "shipping", p)["packaging"] = unit[u]["packaging"]
      BY <1>a, WithMarkFields, MarkType DEF TypeInv, TypeOK
    <3>3. QED
      BY <3>1, <3>2
  <2>3. Idle.pc = "idle"
    BY DEF Idle
  <2>4. ~WillLog(req[w], w, units)
    BY <2>1 DEF WillLog
  <2>5. QED
    BY <2>1, <2>2, <2>3, <2>4, LoggedContinue
<1>14. ASSUME NEW w \in Users, NEW n \in UnitIds, EditItem(w, n)
       PROVE  LoggedInv'
  <2>1. units' = n /\ n > units /\ UNCHANGED <<unit, logs, req>>
    BY <1>14 DEF EditItem
  <2>2. n \in Nat /\ units \in Nat
    BY LiveCount, UnitsAssumption DEF UnitIds, UnitsAssumption
  <2>3. Live' = 1..n /\ Live \subseteq Live' /\ n \in Live' /\ n \notin Live
    BY <2>1, <2>2, LiveCount DEF Live
  <2>4. unit'[n].packaging = NoMark
    BY <2>1, <2>3 DEF LoggedInv, NewUnitsUnpacked
  <2>5. FullIsBeingLogged'
    BY <2>3, <2>4 DEF FullIsBeingLogged, Marked
  <2>6. RequestsFit' /\ NewUnitsUnpacked'
    BY <2>1, <2>3 DEF LoggedInv, RequestsFit, NewUnitsUnpacked
  <2>7. QED
    BY <2>5, <2>6 DEF LoggedInv
<1>15. QED
  BY <1>a, <1>1, <1>2, <1>3, <1>4, <1>5, <1>6, <1>7, <1>8, <1>9, <1>10, <1>11,
     <1>12, <1>13, <1>14 DEF Next, Load, Proceed

LEMMA LoggedInit == Init => LoggedInv
<1> SUFFICES ASSUME Init PROVE LoggedInv
  OBVIOUS
<1>1. \A u \in UnitIds : unit[u].packaging = NoMark
  BY DEF Init, Blank, Stages
<1>2. RequestsFit /\ NewUnitsUnpacked
  BY <1>1 DEF Init, RequestsFit, NewUnitsUnpacked, Idle
<1>3. 1 \in Live /\ 1 \in UnitIds
  BY UnitsAssumption DEF Init, Live, UnitIds, UnitsAssumption
<1>4. FullIsBeingLogged
  BY <1>1, <1>3 DEF FullIsBeingLogged, Marked
<1>5. QED
  BY <1>2, <1>4 DEF LoggedInv

\* Where nobody takes packings back, an item that is fully packed when all
\* requests are answered has its packaging log: the two counts of
\* is_fully_packed may be read at different moments, yet whoever packs last
\* sees the item full, for any number of packers, units and edits.
THEOREM FullItemsAreLogged ==
  ASSUME NoPackingUndo
  PROVE  Spec => []FullItemIsLogged
<1>1. TypeInv /\ LoggedInv => FullItemIsLogged
  <2> SUFFICES ASSUME TypeInv, LoggedInv, AllIdle, Marked("packaging") = Live
               PROVE  logs["packaging"] >= 1
    BY DEF FullItemIsLogged
  <2>1. \A w \in Users : ~WillLog(req[w], w, units)
    BY DEF AllIdle, WillLog
  <2>2. logs["packaging"] # 0
    BY <2>1 DEF LoggedInv, FullIsBeingLogged
  <2>3. logs["packaging"] \in Nat
    BY DEF TypeInv, TypeOK, Stages
  <2>4. QED
    BY <2>2, <2>3
<1>2. Init => TypeInv /\ PackedInv /\ LoggedInv
  BY InitType, PackedInit, LoggedInit
<1>3. TypeInv /\ PackedInv /\ LoggedInv /\ [Next]_vars
        => (TypeInv /\ PackedInv /\ LoggedInv)'
  BY StepType, PackedStep, LoggedStep
<1>4. QED
  BY <1>1, <1>2, <1>3, PTL DEF Spec
-----------------------------------------------------------------------------
(* The pages agree *)

\* Whoever takes shipments back is the only one who ships: nobody else delivers,
\* and no other shipper scans.
SoleShipper ==
    \A v, w \in Users :
        Stage[v] = "shipping" /\ "undo" \in Views[v] /\ w # v =>
            /\ "deliver" \notin Views[w]
            /\ Stage[w] = "shipping" => "scan" \notin Views[w]

\* A request is of a view its user calls, and only a delivery delivers.
RequestsAllowed ==
    \A w \in Users :
        /\ req[w].pc # "idle" => req[w].op \in Views[w]
        /\ req[w].pc = "deliver" => req[w].op = "deliver"

\* Only the scan of a shipper saves a unit as shipped: what packers loaded was
\* not packed, hence not shipped.
OnlyScansShip ==
    \A w \in Users :
        req[w].pc = "save" /\ (Stage[w] = "packaging" \/ req[w].op = "undo") =>
            req[w].mem.shipping = NoMark

\* A unit whose logs an undo is about to delete stays off the truck.
UndoneStayUnshipped ==
    \A w \in Users :
        req[w].pc = "drop_ship_log" =>
            /\ req[w].op = "undo" /\ Stage[w] = "shipping"
            /\ unit[req[w].u].shipping = NoMark

\* A shipped unit has a log, or the scan that shipped it is about to write it.
ShipmentsLogged ==
    \A u \in UnitIds :
        unit[u].shipping # NoMark =>
            \/ shipLogs[u] > 0
            \/ \E w \in Users : req[w].pc = "ship_log" /\ req[w].u = u

ShippingInv == /\ RequestsAllowed
               /\ OnlyScansShip
               /\ UndoneStayUnshipped
               /\ ShipmentsLogged

\* A step of one request, told by what it does to the marks and logs of units.
LEMMA ShippingContinue ==
  ASSUME TypeInv, ShippingInv, NEW w \in Users, NEW r, Continue(w, r),
         r.pc # "idle" => r.op \in Views[w],
         r.pc = "deliver" => r.op = "deliver",
         r.pc = "save" /\ (Stage[w] = "packaging" \/ r.op = "undo")
             => r.mem.shipping = NoMark,
         r.pc = "drop_ship_log" => /\ r.op = "undo" /\ Stage[w] = "shipping"
                                   /\ unit'[r.u].shipping = NoMark,
         \A v \in Users : v # w /\ req[v].pc = "drop_ship_log"
             => unit'[req[v].u].shipping = NoMark,
         \A u \in UnitIds : unit'[u].shipping # NoMark =>
             \/ shipLogs'[u] > 0
             \/ r.pc = "ship_log" /\ r.u = u
             \/ \E v \in Users : v # w /\ req[v].pc = "ship_log" /\ req[v].u = u
  PROVE  ShippingInv'
<1>1. \A v \in Users : req'[v] = IF v = w THEN r ELSE req[v]
  BY DEF Continue, TypeInv, TypeOK
<1>2. RequestsAllowed'
  BY <1>1 DEF ShippingInv, RequestsAllowed
<1>3. OnlyScansShip'
  BY <1>1 DEF ShippingInv, OnlyScansShip
<1>4. UndoneStayUnshipped'
  BY <1>1 DEF ShippingInv, UndoneStayUnshipped
<1>5. ShipmentsLogged'
  <2> SUFFICES ASSUME NEW u \in UnitIds, unit'[u].shipping # NoMark, ~(shipLogs'[u] > 0)
               PROVE  \E v \in Users : req'[v].pc = "ship_log" /\ req'[v].u = u
    BY DEF ShipmentsLogged
  <2>1. CASE r.pc = "ship_log" /\ r.u = u
    BY <1>1, <2>1
  <2>2. CASE \E v \in Users : v # w /\ req[v].pc = "ship_log" /\ req[v].u = u
    BY <1>1, <2>2
  <2>3. QED
    BY <2>1, <2>2
<1>6. QED
  BY <1>2, <1>3, <1>4, <1>5 DEF ShippingInv

\* A step that touches neither marks nor shipment logs.
LEMMA ShippingQuiet ==
  ASSUME TypeInv, ShippingInv, NEW w \in Users, NEW r, Continue(w, r),
         UNCHANGED <<unit, shipLogs>>,
         req[w].pc # "ship_log", r.pc # "drop_ship_log",
         r.pc # "idle" => r.op \in Views[w],
         r.pc = "deliver" => r.op = "deliver",
         r.pc = "save" /\ (Stage[w] = "packaging" \/ r.op = "undo")
             => r.mem.shipping = NoMark
  PROVE  ShippingInv'
<1>1. \A v \in Users : v # w /\ req[v].pc = "drop_ship_log"
          => unit'[req[v].u].shipping = NoMark
  BY DEF ShippingInv, UndoneStayUnshipped
<1>2. \A u \in UnitIds : unit'[u].shipping # NoMark =>
          \/ shipLogs'[u] > 0
          \/ \E v \in Users : v # w /\ req[v].pc = "ship_log" /\ req[v].u = u
  BY DEF ShippingInv, ShipmentsLogged
<1>3. QED
  BY <1>1, <1>2, ShippingContinue

\* Who takes shipments back meets no other scan or delivery.
LEMMA SoleShippers ==
  ASSUME SoleShipper, ShippingInv, NEW v \in Users, NEW w \in Users, v # w,
         req[v].pc = "drop_ship_log"
  PROVE  /\ req[w].pc # "deliver"
         /\ req[w].pc = "save" => Stage[w] # "shipping" \/ req[w].op # "scan"
<1>1. Stage[v] = "shipping" /\ "undo" \in Views[v]
  BY DEF ShippingInv, RequestsAllowed, UndoneStayUnshipped
<1>2. QED
  BY <1>1 DEF SoleShipper, ShippingInv, RequestsAllowed

LEMMA ShippingStep ==
  ASSUME NoPackingUndo, SoleShipper, TypeInv, PackedInv, ShippingInv, [Next]_vars
  PROVE  ShippingInv'
<1>a. Stages = {"packaging", "shipping"} /\ \A w \in Users : Stage[w] \in Stages
  BY StageType DEF Stages
<1>b. Idle.pc = "idle"
  BY DEF Idle
<1>1. CASE UNCHANGED vars
  BY <1>1 DEF ShippingInv, RequestsAllowed, OnlyScansShip, UndoneStayUnshipped,
              ShipmentsLogged, vars
<1>2. ASSUME NEW w \in Users, NEW u \in UnitIds, Scan(w, u)
      PROVE  ShippingInv'
  <2> DEFINE row == WithMark(unit[u], Stage[w], w)
             r == [Idle EXCEPT !.pc = "save", !.op = "scan", !.u = u, !.mem = row]
  <2>1. r.pc = "save" /\ r.op = "scan" /\ r.mem = row
    BY DEF Idle
  <2>2. /\ Continue(w, r) /\ UNCHANGED tables
        /\ req[w].pc = "idle" /\ "scan" \in Views[w]
    BY <1>2 DEF Scan, Starts
  <2>3. Stage[w] = "packaging" => row.shipping = NoMark
    <3> SUFFICES ASSUME Stage[w] = "packaging" PROVE row.shipping = NoMark
      OBVIOUS
    <3>1. unit[u] \in Row /\ w \in Marks
      BY MarkType DEF TypeInv, TypeOK
    <3>2. row["shipping"] = unit[u]["shipping"]
      BY <1>a, <3>1, WithMarkFields
    <3>3. unit[u].packaging = NoMark
      BY <1>2 DEF Scan, Scannable
    <3>4. QED
      BY <3>2, <3>3 DEF PackedInv, ShippedArePacked
  <2> HIDE DEF row, r
  <2>4. QED
    BY <2>1, <2>2, <2>3, ShippingQuiet DEF tables
<1>3. ASSUME NEW w \in Users, NEW u \in UnitIds, Undo(w, u)
      PROVE  ShippingInv'
  <2> DEFINE row == WithMark(unit[u], Stage[w], NoMark)
             r == [Idle EXCEPT !.pc = "save", !.op = "undo", !.u = u, !.mem = row]
  <2>1. r.pc = "save" /\ r.op = "undo" /\ r.mem = row
    BY DEF Idle
  <2>2. /\ Continue(w, r) /\ UNCHANGED tables
        /\ req[w].pc = "idle" /\ "undo" \in Views[w]
    BY <1>3 DEF Undo, Starts
  <2>3. row.shipping = NoMark
    <3>1. Stage[w] = "shipping"
      BY <1>a, <2>2 DEF NoPackingUndo
    <3>2. unit[u] \in Row /\ NoMark \in Marks
      BY MarkType DEF TypeInv, TypeOK
    <3>3. row["shipping"] = NoMark
      BY <1>a, <3>1, <3>2, WithMarkFields
    <3>4. QED
      BY <3>3
  <2> HIDE DEF row, r
  <2>4. QED
    BY <2>1, <2>2, <2>3, ShippingQuiet DEF tables
<1>4. ASSUME NEW w \in Users, CheckDelivery(w) \/ ScanItem(w)
      PROVE  ShippingInv'
  <2>1. PICK r \in {[Idle EXCEPT !.pc = "total", !.op = "deliver"],
                    [Idle EXCEPT !.pc = "exists", !.op = "item"]} :
            Continue(w, r) /\ r.op \in Views[w]
    BY <1>4 DEF CheckDelivery, ScanItem, Starts, Idle
  <2>2. UNCHANGED tables /\ req[w].pc = "idle"
    BY <1>4 DEF CheckDelivery, ScanItem, Starts
  <2>3. r.pc \in {"total", "exists"}
    BY DEF Idle
  <2>4. QED
    BY <2>1, <2>2, <2>3, ShippingQuiet DEF tables
<1>5. ASSUME NEW w \in Users, SaveUnit(w)
      PROVE  ShippingInv'
  <2> DEFINE s == req[w]
             pc == AfterSave(s.op, Stage[w])
             r == [s EXCEPT !.pc = pc]
  <2>1. s \in Request /\ s.pc = "save" /\ s.op \in {"scan", "undo"} /\ s.op \in Views[w]
    BY <1>5 DEF TypeInv, TypeOK, SavesUnits, SaveUnit, ShippingInv, RequestsAllowed
  <2>2. pc \in {"ship_log", "total", "drop_ship_log", "drop_log"}
    BY <1>a, <2>1, AfterSaveType
  <2>3. r.pc = pc /\ r.op = s.op /\ r.u = s.u
    BY <2>1 DEF Request
  <2>4. Continue(w, r) /\ unit' = [unit EXCEPT ![s.u] = s.mem] /\ UNCHANGED shipLogs
    BY <1>5 DEF SaveUnit
  <2>5. Stage[w] = "packaging" \/ s.op = "undo" => s.mem.shipping = NoMark
    BY <2>1 DEF ShippingInv, OnlyScansShip
  <2>6. s.op = "scan" /\ Stage[w] = "shipping" => pc = "ship_log"
    BY DEF AfterSave
  <2>7. pc = "drop_ship_log" => s.op = "undo" /\ Stage[w] = "shipping"
    BY <1>a, <2>1 DEF AfterSave
  <2> HIDE DEF pc, r
  <2>8. \A x \in UnitIds : unit'[x] = IF x = s.u THEN s.mem ELSE unit[x]
    BY <2>4 DEF TypeInv, TypeOK
  <2>9. s.u \in UnitIds
    BY <2>1 DEF Request
  <2>10. r.pc = "drop_ship_log" => unit'[r.u].shipping = NoMark
    BY <2>3, <2>5, <2>7, <2>8, <2>9
  <2>11. ASSUME NEW v \in Users, v # w, req[v].pc = "drop_ship_log"
         PROVE  unit'[req[v].u].shipping = NoMark
    <3>1. req[v].u \in UnitIds /\ unit[req[v].u].shipping = NoMark
      BY <2>11 DEF TypeInv, TypeOK, Request, ShippingInv, UndoneStayUnshipped
    <3>2. s.mem.shipping = NoMark
      BY <1>a, <2>1, <2>5, <2>11, SoleShippers
    <3>3. QED
      BY <2>8, <3>1, <3>2
  <2>12. ASSUME NEW u \in UnitIds, unit'[u].shipping # NoMark
         PROVE  \/ shipLogs'[u] > 0
                \/ r.pc = "ship_log" /\ r.u = u
                \/ \E v \in Users : v # w /\ req[v].pc = "ship_log" /\ req[v].u = u
    <3>1. CASE u = s.u
      BY <1>a, <2>1, <2>3, <2>5, <2>6, <2>8, <2>12, <3>1
    <3>2. CASE u # s.u
      BY <2>1, <2>4, <2>8, <2>12, <3>2 DEF ShippingInv, ShipmentsLogged
    <3>3. QED
      BY <3>1, <3>2
  <2> HIDE DEF s
  <2>13. QED
    BY <2>1, <2>2, <2>3, <2>4, <2>7, <2>10, <2>11, <2>12, ShippingContinue
<1>6. ASSUME NEW w \in Users, CreateShipLog(w)
      PROVE  ShippingInv'
  <2> DEFINE r == [req[w] EXCEPT !.pc = "total"]
  <2>1. req[w] \in Request /\ r.pc = "total" /\ r.op = req[w].op
    BY DEF TypeInv, TypeOK, Request
  <2>2. Continue(w, r) /\ UNCHANGED unit /\ req[w].pc = "ship_log"
    BY <1>6 DEF CreateShipLog
  <2>3. \A u \in UnitIds : shipLogs'[u] = IF u = req[w].u THEN shipLogs[u] + 1
                                                          ELSE shipLogs[u]
    BY <1>6 DEF CreateShipLog, TypeInv, TypeOK
  <2>4. \A u \in UnitIds : shipLogs[u] \in Nat
    BY DEF TypeInv, TypeOK
  <2>5. r.op \in Views[w]
    BY <2>1, <2>2 DEF ShippingInv, RequestsAllowed
  <2>6. \A v \in Users : v # w /\ req[v].pc = "drop_ship_log"
            => unit'[req[v].u].shipping = NoMark
    BY <2>2 DEF ShippingInv, UndoneStayUnshipped
  <2> HIDE DEF r
  <2>7. ASSUME NEW u \in UnitIds, unit'[u].shipping # NoMark
        PROVE  \/ shipLogs'[u] > 0
               \/ \E v \in Users : v # w /\ req[v].pc = "ship_log" /\ req[v].u = u
    BY <2>2, <2>3, <2>4, <2>7 DEF ShippingInv, ShipmentsLogged
  <2>8. QED
    BY <2>1, <2>2, <2>5, <2>6, <2>7, ShippingContinue
<1>7. ASSUME NEW w \in Users, DropShipLogs(w)
      PROVE  ShippingInv'
  <2> DEFINE r == [req[w] EXCEPT !.pc = "drop_log"]
  <2>1. req[w] \in Request /\ r.pc = "drop_log" /\ r.op = req[w].op
    BY DEF TypeInv, TypeOK, Request
  <2>2. Continue(w, r) /\ UNCHANGED unit /\ req[w].pc = "drop_ship_log"
    BY <1>7 DEF DropShipLogs
  <2>3. \A u \in UnitIds : u # req[w].u => shipLogs'[u] = shipLogs[u]
    BY <1>7 DEF DropShipLogs, TypeInv, TypeOK
  <2>4. unit[req[w].u].shipping = NoMark
    BY <2>2 DEF ShippingInv, UndoneStayUnshipped
  <2>5. r.op \in Views[w]
    BY <2>1, <2>2 DEF ShippingInv, RequestsAllowed
  <2>6. \A v \in Users : v # w /\ req[v].pc = "drop_ship_log"
            => unit'[req[v].u].shipping = NoMark
    BY <2>2 DEF ShippingInv, UndoneStayUnshipped
  <2> HIDE DEF r
  <2>7. ASSUME NEW u \in UnitIds, unit'[u].shipping # NoMark
        PROVE  \/ shipLogs'[u] > 0
               \/ \E v \in Users : v # w /\ req[v].pc = "ship_log" /\ req[v].u = u
    BY <2>2, <2>3, <2>4, <2>7 DEF ShippingInv, ShipmentsLogged
  <2>8. QED
    BY <2>1, <2>2, <2>5, <2>6, <2>7, ShippingContinue
<1>8. ASSUME NEW w \in Users, CountTotal(w) \/ CountMarked(w) \/ LogExists(w)
      PROVE  ShippingInv'
  <2> DEFINE q == req[w]
  <2>1. q \in Request
    BY DEF TypeInv, TypeOK
  <2>2. PICK r \in {[q EXCEPT !.pc = "marked", !.total = units],
                    [q EXCEPT !.pc = IF q.op = "deliver" THEN "deliver" ELSE "exists"],
                    [q EXCEPT !.pc = "create"], Idle} : Continue(w, r)
    BY <1>8 DEF CountTotal, CountMarked, LogExists, Finish
  <2>3. UNCHANGED <<unit, shipLogs>> /\ q.pc \in {"total", "marked", "exists"}
    BY <1>8 DEF CountTotal, CountMarked, LogExists, tables
  <2>4. q.op \in Views[w]
    BY <2>3 DEF ShippingInv, RequestsAllowed
  <2> HIDE DEF q
  <2>5. /\ r.pc \in {"idle", "marked", "deliver", "exists", "create"}
        /\ r.pc # "idle" => r.op = q.op
        /\ r.pc = "deliver" => q.op = "deliver"
    BY <2>1, <1>b DEF Request
  <2>6. QED
    BY <2>2, <2>3, <2>4, <2>5, ShippingQuiet DEF q
<1>9. ASSUME NEW w \in Users, CreateLog(w) \/ DropLogs(w)
      PROVE  ShippingInv'
  <2>1. /\ Continue(w, Idle) /\ UNCHANGED <<unit, shipLogs>>
        /\ req[w].pc \in {"create", "drop_log"}
    BY <1>9 DEF CreateLog, DropLogs, Finish
  <2>2. QED
    BY <1>b, <2>1, ShippingQuiet
<1>10. ASSUME NEW w \in Users, NEW p \in Users, Deliver(w, p)
       PROVE  ShippingInv'
  <2>1. Continue(w, Idle) /\ req[w].pc = "deliver"
    BY <1>10 DEF Deliver, Finish
  <2>2. \A v \in Users : v # w => req[v].pc # "drop_ship_log"
    BY <2>1, SoleShippers
  <2>3. ASSUME NEW u \in UnitIds, unit'[u].shipping # NoMark
        PROVE  \/ shipLogs'[u] > 0
               \/ \E v \in Users : v # w /\ req[v].pc = "ship_log" /\ req[v].u = u
    <3> DEFINE due == {x \in Marked("packaging") : unit[x].shipping = NoMark}
    <3>1. /\ unit'[u] = IF u \in due THEN WithMark(unit[u], "shipping", p) ELSE unit[u]
          /\ shipLogs'[u] = IF u \in due THEN shipLogs[u] + 1 ELSE shipLogs[u]
      BY <1>10 DEF Deliver
    <3>2. shipLogs[u] \in Nat
      BY DEF TypeInv, TypeOK
    <3> HIDE DEF due
    <3>3. CASE u \in due
      BY <3>1, <3>2, <3>3
    <3>4. CASE u \notin due
      BY <2>1, <2>3, <3>1, <3>4 DEF ShippingInv, ShipmentsLogged
    <3>5. QED
      BY <3>3, <3>4
  <2>4. QED
    BY <1>b, <2>1, <2>2, <2>3, ShippingContinue
<1>11. ASSUME NEW w \in Users, NEW n \in UnitIds, EditItem(w, n)
       PROVE  ShippingInv'
  BY <1>11 DEF EditItem, ShippingInv, RequestsAllowed, OnlyScansShip,
               UndoneStayUnshipped, ShipmentsLogged
<1>12. QED
  BY <1>1, <1>2, <1>3, <1>4, <1>5, <1>6, <1>7, <1>8, <1>9, <1>10, <1>11
     DEF Next, Load, Proceed

LEMMA ShippingInit == Init => ShippingInv
BY DEF Init, ShippingInv, RequestsAllowed, OnlyScansShip, UndoneStayUnshipped,
       ShipmentsLogged, Idle, Blank, Stages

\* An item of which as many units are packed as it has is packed altogether.
LEMMA FullIsAll ==
  ASSUME TypeInv, OnDeliveryList
  PROVE  Marked("packaging") = Live
<1>1. Cardinality(Marked("packaging")) = Cardinality(Live)
  BY LiveCount DEF OnDeliveryList, Full
<1>2. IsFiniteSet(Live)
  BY LiveCount, FS_Interval DEF Live
<1>3. Marked("packaging") \subseteq Live
  BY DEF Marked
<1>4. QED
  BY <1>1, <1>2, <1>3, FS_Subset

\* Where nobody takes packings back, and whoever takes shipments back is the
\* only shipper, the office's and the customer's pages tell one story when all
\* requests are answered, for any users, units, edits and stale rows.  With a
\* second shipper they need not: an undo clears the unit, the other scans it
\* anew, and the undo then deletes the log of the new shipment.
THEOREM PagesAlwaysAgree ==
  ASSUME NoPackingUndo, SoleShipper
  PROVE  Spec => []PagesAgree
<1>1. TypeInv /\ PackedInv /\ LoggedInv /\ ShippingInv => PagesAgree
  <2> SUFFICES ASSUME TypeInv, PackedInv, LoggedInv, ShippingInv, AllIdle
               PROVE  /\ CustomerShipments = ReportShipped
                      /\ ReportReadyToShip \cap ReportShipped = {}
                      /\ ReportReadyToShip \cup ReportShipped = Marked("packaging")
                      /\ OnDeliveryList => logs["packaging"] > 0
    BY DEF PagesAgree
  <2>1. Live \subseteq UnitIds
    BY LiveCount, UnitsAssumption DEF Live, UnitIds, UnitsAssumption, TypeInv, TypeOK
  <2>2. \A u \in Live : unit[u].shipping # NoMark =>
            shipLogs[u] > 0 /\ unit[u].packaging # NoMark
    BY <2>1 DEF AllIdle, ShippingInv, ShipmentsLogged, PackedInv, ShippedArePacked
  <2>3. CustomerShipments = ReportShipped
    BY <2>2 DEF CustomerShipments, ReportShipped, Marked
  <2>4. ReportReadyToShip \cap ReportShipped = {}
    BY DEF ReportReadyToShip, ReportShipped, Marked
  <2>5. ReportReadyToShip \cup ReportShipped = Marked("packaging")
    BY <2>2 DEF ReportReadyToShip, ReportShipped, Marked
  <2>6. OnDeliveryList => logs["packaging"] > 0
    <3>1. \A w \in Users : ~WillLog(req[w], w, units)
      BY DEF AllIdle, WillLog
    <3>2. OnDeliveryList => logs["packaging"] # 0
      BY <3>1, FullIsAll DEF LoggedInv, FullIsBeingLogged
    <3>3. logs["packaging"] \in Nat
      BY DEF TypeInv, TypeOK, Stages
    <3>4. QED
      BY <3>2, <3>3
  <2>7. QED
    BY <2>3, <2>4, <2>5, <2>6
<1>2. Init => TypeInv /\ PackedInv /\ LoggedInv /\ ShippingInv
  BY InitType, PackedInit, LoggedInit, ShippingInit
<1>3. TypeInv /\ PackedInv /\ LoggedInv /\ ShippingInv /\ [Next]_vars
        => (TypeInv /\ PackedInv /\ LoggedInv /\ ShippingInv)'
  BY StepType, PackedStep, LoggedStep, ShippingStep
<1>4. QED
  BY <1>1, <1>2, <1>3, PTL DEF Spec
=============================================================================
