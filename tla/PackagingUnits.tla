---------------------------- MODULE PackagingUnits ----------------------------
(***************************************************************************)
(* The packaging units of one V1 order item, packed, shipped, undone and    *)
(* delivered by requests of several users.                                  *)
(*                                                                         *)
(* scan_packaging_unit, undo_packaging_unit and scan_qr run outside any     *)
(* transaction: one action per statement, and the unit is saved with all    *)
(* the columns that were loaded.  The loop of delivery_confirm is one       *)
(* transaction, and so is an edit of the item in the admin site.            *)
(*                                                                         *)
(* A mark stands for the columns is_packed, packed_at and packed_by (or     *)
(* is_shipped, ...), which the views set and clear together.                *)
(***************************************************************************)
EXTENDS Integers, FiniteSets

CONSTANTS
    Users,
    Stage,      \* user -> the stage of the worker profile
    Supers,     \* superusers, who may undo the work of others
    Views,      \* user -> the views the user calls
    NoMark,     \* a unit that is not packed, or not shipped
    Quantity,   \* units the item was created with
    MaxUnits,   \* bound: units an edit of the item may reach
    MaxRequests \* bound: requests in flight at once

Stages == {"packaging", "shipping"}
Ops == {"scan", "undo", "deliver", "item", "edit"}

ASSUME UnitsAssumption ==
    /\ Stage \in [Users -> Stages]
    /\ Supers \subseteq Users
    /\ Views \in [Users -> SUBSET Ops]
    /\ NoMark \notin Users
    /\ Quantity \in Nat \ {0}
    /\ MaxUnits \in Nat /\ Quantity <= MaxUnits
    /\ MaxRequests \in Nat \ {0}

VARIABLES
    units,     \* number of units of the item
    unit,      \* unit -> its marks
    shipLogs,  \* unit -> number of its ShipmentLog rows
    logs,      \* stage -> number of ProductionLog rows of the item
    req        \* the request each user has in flight

tables == <<units, unit, shipLogs, logs>>
vars == <<units, unit, shipLogs, logs, req>>

UnitIds == 1..MaxUnits
Marks == Users \cup {NoMark}
Row == [Stages -> Marks]
Blank == [s \in Stages |-> NoMark]

\* ShipmentLog rows of each unit, counted.
ShipmentLogs == [UnitIds -> Nat]

Steps == {"idle", "save", "ship_log", "total", "marked", "exists", "create",
          "drop_ship_log", "drop_log", "deliver"}

Request == [pc: Steps, op: Ops \cup {"none"}, u: UnitIds, mem: Row, total: Nat]
Idle == [pc |-> "idle", op |-> "none", u |-> 1, mem |-> Blank, total |-> 0]

Live == 1..units
Marked(s) == {u \in Live : unit[u][s] # NoMark}
Continue(w, r) == req' = [req EXCEPT ![w] = r]
Finish(w) == Continue(w, Idle)

Starts(w, op) == /\ req[w].pc = "idle"
                 /\ op \in Views[w]
                 /\ Cardinality({v \in Users : req[v].pc # "idle"}) < MaxRequests

-----------------------------------------------------------------------------
(* Loading *)

\* Fault: the packed check of a shipping scan is missing.
Scannable_Unpacked(row, s) == row[s] = NoMark

\* Fault: a packed unit counts as done at both stages.
Scannable_NeverPacked(row, s) == row.packaging = NoMark /\ s = "packaging"

\* A shipping scan needs a packed unit, and nothing is done twice.
Scannable(row, s) == /\ row[s] = NoMark
                     /\ s = "shipping" => row.packaging # NoMark

WithMark(row, s, m) == [row EXCEPT ![s] = m]

\* scan_packaging_unit.
Scan(w, u) ==
    /\ Starts(w, "scan")
    /\ u \in Live
    /\ Scannable(unit[u], Stage[w])
    /\ Continue(w, [Idle EXCEPT !.pc = "save", !.op = "scan", !.u = u,
                                !.mem = WithMark(unit[u], Stage[w], w)])
    /\ UNCHANGED tables

\* undo_packaging_unit: own work, or anybody's for a superuser.
Undo(w, u) ==
    /\ Starts(w, "undo")
    /\ u \in Live
    /\ unit[u][Stage[w]] # NoMark
    /\ unit[u][Stage[w]] = w \/ w \in Supers
    /\ Continue(w, [Idle EXCEPT !.pc = "save", !.op = "undo", !.u = u,
                                !.mem = WithMark(unit[u], Stage[w], NoMark)])
    /\ UNCHANGED tables

\* delivery_confirm looks whether everything is packed.
CheckDelivery(w) ==
    /\ Starts(w, "deliver")
    /\ Continue(w, [Idle EXCEPT !.pc = "total", !.op = "deliver"])
    /\ UNCHANGED tables

\* scan_qr of the item's own code, up to its ProductionLog.
ScanItem(w) ==
    /\ Starts(w, "item")
    /\ Continue(w, [Idle EXCEPT !.pc = "exists", !.op = "item"])
    /\ UNCHANGED tables

-----------------------------------------------------------------------------
(* Statements *)

\* Fault: shipping a unit leaves no ShipmentLog.
AfterSave_NoShipLog(op, s) ==
    CASE op = "scan" -> "total"
      [] op = "undo" /\ s = "shipping"  -> "drop_ship_log"
      [] op = "undo" /\ s = "packaging" -> "drop_log"

\* What the view does next once the unit is saved.
AfterSave(op, s) ==
    CASE op = "scan" /\ s = "shipping"  -> "ship_log"
      [] op = "scan" /\ s = "packaging" -> "total"
      [] op = "undo" /\ s = "shipping"  -> "drop_ship_log"
      [] op = "undo" /\ s = "packaging" -> "drop_log"

\* unit.save(): every column, as it was loaded.
SaveUnit(w) ==
    LET r == req[w]
    IN  /\ r.pc = "save"
        /\ unit' = [unit EXCEPT ![r.u] = r.mem]
        /\ Continue(w, [r EXCEPT !.pc = AfterSave(r.op, Stage[w])])
        /\ UNCHANGED <<units, shipLogs, logs>>

CreateShipLog(w) ==
    /\ req[w].pc = "ship_log"
    /\ shipLogs' = [shipLogs EXCEPT ![req[w].u] = @ + 1]
    /\ Continue(w, [req[w] EXCEPT !.pc = "total"])
    /\ UNCHANGED <<units, unit, logs>>

\* is_fully_packed and is_fully_shipped count all units ...
CountTotal(w) ==
    /\ req[w].pc = "total"
    /\ Continue(w, [req[w] EXCEPT !.pc = "marked", !.total = units])
    /\ UNCHANGED tables

\* Fault: an item of one unit never counts as full.
Full_MoreThanOne(total, marked) == total > 1 /\ marked = total

Full(total, marked) == total > 0 /\ marked = total

\* The stage whose marks the request counts.
CountedStage(r, w) == IF r.op = "deliver" THEN "packaging" ELSE Stage[w]

\* ... and then those that are done.
CountMarked(w) ==
    LET r == req[w]
    IN  /\ r.pc = "marked"
        /\ IF Full(r.total, Cardinality(Marked(CountedStage(r, w))))
           THEN Continue(w, [r EXCEPT !.pc = IF r.op = "deliver"
                                             THEN "deliver" ELSE "exists"])
           ELSE Finish(w)
        /\ UNCHANGED tables

LogDue(s) == logs[s] = 0

\* The item has a log of this stage, or gets one.
LogExists(w) ==
    /\ req[w].pc = "exists"
    /\ IF LogDue(Stage[w]) THEN Continue(w, [req[w] EXCEPT !.pc = "create"])
                           ELSE Finish(w)
    /\ UNCHANGED tables

CreateLog(w) ==
    /\ req[w].pc = "create"
    /\ logs' = [logs EXCEPT ![Stage[w]] = @ + 1]
    /\ Finish(w)
    /\ UNCHANGED <<units, unit, shipLogs>>

DropShipLogs(w) ==
    /\ req[w].pc = "drop_ship_log"
    /\ shipLogs' = [shipLogs EXCEPT ![req[w].u] = 0]
    /\ Continue(w, [req[w] EXCEPT !.pc = "drop_log"])
    /\ UNCHANGED <<units, unit, logs>>

DropLogs(w) ==
    /\ req[w].pc = "drop_log"
    /\ logs' = [logs EXCEPT ![Stage[w]] = 0]
    /\ Finish(w)
    /\ UNCHANGED <<units, unit, shipLogs>>

-----------------------------------------------------------------------------
(* Transactions *)

\* delivery_confirm ships what is packed by now, in the name of p.
Deliver(w, p) ==
    LET due == {u \in Marked("packaging") : unit[u].shipping = NoMark}
    IN  /\ req[w].pc = "deliver"
        /\ unit' = [u \in UnitIds |-> IF u \in due
                                      THEN WithMark(unit[u], "shipping", p)
                                      ELSE unit[u]]
        /\ shipLogs' = [u \in UnitIds |-> IF u \in due THEN shipLogs[u] + 1
                                          ELSE shipLogs[u]]
        /\ Finish(w)
        /\ UNCHANGED <<units, logs>>

\* sync_packaging_units after an edit of the quantity.  A smaller quantity
\* raises ("Cannot use 'limit' or 'offset' with delete()"), which undoes it.
EditItem(w, n) ==
    /\ Starts(w, "edit")
    /\ n > units
    /\ units' = n
    /\ UNCHANGED <<unit, shipLogs, logs, req>>

-----------------------------------------------------------------------------
(* Pages *)

\* report_ready_to_ship
ReportReadyToShip == {u \in Live : unit[u].packaging # NoMark /\ unit[u].shipping = NoMark}

\* report_shipped, over all days
ReportShipped == Marked("shipping")

\* customer_shipments groups what is shipped by the first ShipmentLog of each
\* unit, and leaves out a unit that has none.
CustomerShipments == {u \in Marked("shipping") : shipLogs[u] > 0}

\* delivery_list: whether the item, whose paint is done, is on it.
OnDeliveryList == Full(units, Cardinality(Marked("packaging")))

-----------------------------------------------------------------------------

\* The signal on a new item creates its units.
Init ==
    /\ units = Quantity
    /\ unit = [u \in UnitIds |-> Blank]
    /\ shipLogs = [u \in UnitIds |-> 0]
    /\ logs = [s \in Stages |-> 0]
    /\ req = [w \in Users |-> Idle]

Proceed(w) ==
    \/ SaveUnit(w) \/ CreateShipLog(w) \/ CountTotal(w) \/ CountMarked(w)
    \/ LogExists(w) \/ CreateLog(w) \/ DropShipLogs(w) \/ DropLogs(w)
    \/ \E p \in Users : Deliver(w, p)

Load(w) ==
    \/ \E u \in UnitIds : Scan(w, u) \/ Undo(w, u)
    \/ CheckDelivery(w)
    \/ ScanItem(w)

Next == \E w \in Users :
            \/ Load(w)
            \/ Proceed(w)
            \/ \E n \in UnitIds : EditItem(w, n)

Spec == Init /\ [][Next]_vars

\* Workers go on scanning units that are due, and requests finish.
FairSpec ==
    /\ Spec
    /\ \A w \in Users : WF_vars(\E u \in UnitIds : Scan(w, u)) /\ WF_vars(Proceed(w))

-----------------------------------------------------------------------------
(* Properties *)

\* Every table and every request in flight has its type.
TypeOK ==
    /\ units \in UnitIds
    /\ unit \in [UnitIds -> Row]
    /\ shipLogs \in ShipmentLogs
    /\ logs \in [Stages -> Nat]
    /\ req \in [Users -> Request]

\* A unit on a truck was packed ("it must be packed first", views.py:2863),
\* although rows are saved as they were loaded.
ShippedArePacked ==
    \A u \in UnitIds : unit[u].shipping # NoMark => unit[u].packaging # NoMark

AllIdle == \A w \in Users : req[w].pc = "idle"

\* However two packers interleave, the one who comes last finds the item
\* full: a fully packed item does not stay without its packaging log.
FullItemIsLogged ==
    AllIdle /\ Marked("packaging") = Live => logs["packaging"] >= 1

\* At rest the pages tell one story, although they ask different tables: what
\* the office sees shipped the customer sees too, a packed unit is on exactly
\* one of the office's pages, and an item to deliver has its packaging log.
PagesAgree ==
    AllIdle => /\ CustomerShipments = ReportShipped
               /\ ReportReadyToShip \cap ReportShipped = {}
               /\ ReportReadyToShip \cup ReportShipped = Marked("packaging")
               /\ OnDeliveryList => logs["packaging"] > 0

\* While workers scan what is due, all units of the item end up shipped for
\* good, although a stale packing scan may take a shipment back for a while;
\* unless somebody takes shipments back again and again.
AllShipped ==
    \/ <>[](Marked("shipping") = Live)
    \/ []<>(\E w \in Users : req[w].op = "undo")
=============================================================================
