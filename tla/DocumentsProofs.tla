---------------------------- MODULE DocumentsProofs ----------------------------
(***************************************************************************)
(* What holds for every product, every number a caller may bring and every    *)
(* number of requests.                                                      *)
(*                                                                         *)
(* Types and numbers go together: the next number of an inspection is one     *)
(* more than the largest of the day, which exists because numbers never run    *)
(* ahead of the rows.                                                       *)
(***************************************************************************)
EXTENDS Documents, SequenceTheorems, WellFoundedInduction, TLAPS

\* Calls that look up a product are made with one.
NeedsProduct == {"add_item", "create_operations", "create_requirements"}
SoundStep == {s \in Step : s.call \in NeedsProduct => s.arg \in Products}

SoundTxn ==
    \/ txn = NoTxn
    \/ txn \in [view: Views, todo: Seq(SoundStep), before: Tables]

\* Row i of a counted table has number i, and a number of the day is at most the
\* number of rows.
Numbered(d) ==
    /\ \A i \in DOMAIN d.pos : d.pos[i].number = i
    /\ \A i \in DOMAIN d.packages : d.packages[i].number = i
    /\ \A i \in DOMAIN d.issues : d.issues[i].number = i
    /\ \A i \in DOMAIN d.inspections : d.inspections[i].number <= i
    /\ \A i \in DOMAIN d.reworks : d.reworks[i].number <= i
    /\ (\A i \in DOMAIN d.shipments : ~d.shipments[i].given) =>
          \A i \in DOMAIN d.shipments : d.shipments[i].number = i

NumberInv ==
    /\ db \in Tables /\ Numbered(db)
    /\ SoundTxn
    /\ Open => Numbered(txn.before)
    /\ requests \in Nat /\ day \in Nat /\ flows \subseteq Nat

\* A call is still to come.
Pending(todo, call) == \E j \in DOMAIN todo : todo[j].call = call

\* A document that is made in one call and logged in a later one.
Paired(todo, create, log) ==
    /\ \A j, k \in DOMAIN todo : todo[j].call = log /\ todo[k].call = log => j = k
    /\ \A j, k \in DOMAIN todo : todo[j].call = create /\ todo[k].call = create => j = k
    /\ \A j \in DOMAIN todo : todo[j].call = create =>
          \E k \in DOMAIN todo : j < k /\ todo[k].call = log

Named(events, name) == {e[2] : e \in {e \in events : e[1] = name}}

\* The events of a table are its rows, the last one excepted while it is made and
\* its log is still to come.
LoggedBut(d, todo, name, table, create, log) ==
    IF Pending(todo, log) /\ ~Pending(todo, create)
    THEN Len(table) > 0 /\ Named(d.events, name) = DOMAIN table \ {Len(table)}
    ELSE Named(d.events, name) = DOMAIN table

Recorded(d, todo) ==
    /\ LoggedBut(d, todo, "order", d.orders, "create_order", "log_order")
    /\ LoggedBut(d, todo, "production order", d.pos, "create_production_order", "log_production")
    /\ Named(d.events, "inspection") = DOMAIN d.inspections
    /\ Named(d.events, "package") = DOMAIN d.packages
    /\ Named(d.events, "shipment") = DOMAIN d.shipments
    /\ Named(d.events, "issue") = DOMAIN d.issues

EventInv ==
    /\ Recorded(db, txn.todo)
    /\ Open => Recorded(txn.before, <<>>)
    /\ Paired(txn.todo, "create_order", "log_order")
    /\ Paired(txn.todo, "create_production_order", "log_production")

\* The documents of an order, with an item and a planned item of the first rows.
Whole(d, o, items, planned) ==
    \E i \in DOMAIN d.items, p \in DOMAIN d.pos, k \in DOMAIN d.poItems :
        /\ i <= items /\ k <= planned
        /\ d.items[i].order = o /\ d.pos[p].order = o
        /\ d.poItems[k].po = p /\ d.poItems[k].item = i
        /\ d.items[i].needs = d.poItems[k].rules
        /\ d.poItems[k].done = d.poItems[k].operations
        /\ \E q \in DOMAIN d.inspections : d.inspections[q].po = p
        /\ \E q \in DOMAIN d.packages : d.packages[q].item = i
        /\ \E q \in DOMAIN d.shipments : d.shipments[q].order = o

\* What a call changes of the last row of a table has been made by this very
\* transaction, or will be before it is changed.
OwnRow(todo, users, maker, made) ==
    \A j \in DOMAIN todo : todo[j].call \in users =>
        made \/ \E m \in DOMAIN todo : m < j /\ todo[m].call = maker

OwnRows(todo, d, before) ==
    /\ OwnRow(todo, {"create_requirements"}, "add_item", Len(before.items) < Len(d.items))
    /\ OwnRow(todo, {"create_operations", "run_operations"}, "add_production_order_item",
              Len(before.poItems) < Len(d.poItems))

\* What the first n calls of a workflow have made.
Made(d, p, n) ==
    /\ n >= 1 => Len(d.orders) > 0
    /\ n >= 2 => Len(d.items) > 0 /\ d.items[Len(d.items)].order = Len(d.orders)
    /\ n >= 4 => Len(d.pos) > 0 /\ d.pos[Len(d.pos)].order = Len(d.orders)
    /\ n >= 5 => /\ Len(d.poItems) > 0
                 /\ d.poItems[Len(d.poItems)].po = Len(d.pos)
                 /\ d.poItems[Len(d.poItems)].item = Len(d.items)
                 /\ d.poItems[Len(d.poItems)].rules = Rules[p]
    /\ n >= 8 => d.items[Len(d.items)].needs = Rules[p]
    /\ n >= 9 => d.poItems[Len(d.poItems)].done = d.poItems[Len(d.poItems)].operations
    /\ n >= 10 => /\ Len(d.inspections) > 0
                  /\ d.inspections[Len(d.inspections)].po = Len(d.pos)
    /\ n >= 11 => /\ Len(d.packages) > 0
                  /\ d.packages[Len(d.packages)].item = Len(d.items)
    /\ n >= 12 => /\ Len(d.shipments) > 0
                  /\ d.shipments[Len(d.shipments)].order = Len(d.orders)

AtStep(todo, d, p, n) ==
    /\ Len(todo) = 12 - n
    /\ \A j \in 1..12 - n : todo[j] = WorkflowSteps(p)[n + j]
    /\ Made(d, p, n)

FlowInv ==
    /\ ~Open => \A o \in flows : Whole(db, o, Len(db.items), Len(db.poItems))
    /\ Open => /\ Len(txn.before.items) <= Len(db.items)
               /\ Len(txn.before.poItems) <= Len(db.poItems)
               /\ OwnRows(txn.todo, db, txn.before)
               /\ \A o \in flows : \A d \in {db, txn.before} :
                     Whole(d, o, Len(txn.before.items), Len(txn.before.poItems))
    /\ txn.view = "workflow" => \E p \in Products, n \in 0..12 : AtStep(txn.todo, db, p, n)

----------------------------------------------------------------------------
(* Sequences and sets.                                                       *)

\* A table with one more row.
LEMMA Appended ==
    ASSUME NEW S, NEW t \in Seq(S), NEW r \in S
    PROVE  /\ Append(t, r) \in Seq(S)
           /\ Len(Append(t, r)) = Len(t) + 1
           /\ Len(t) \in Nat /\ DOMAIN t = 1..Len(t)
           /\ DOMAIN Append(t, r) = DOMAIN t \cup {Len(t) + 1}
           /\ \A i \in DOMAIN t : Append(t, r)[i] = t[i] /\ i < Len(t) + 1
           /\ Append(t, r)[Len(t) + 1] = r
  <1>1. Len(t) \in Nat /\ DOMAIN t = 1..Len(t)
    BY LenProperties
  <1>2. /\ Append(t, r) \in Seq(S) /\ Len(Append(t, r)) = Len(t) + 1
        /\ \A i \in 1..Len(t) : Append(t, r)[i] = t[i]
        /\ Append(t, r)[Len(t) + 1] = r
    BY AppendProperties
  <1>3. DOMAIN Append(t, r) = 1..(Len(t) + 1)
    BY <1>2, LenProperties
  <1> QED BY <1>1, <1>2, <1>3

LEMMA Longer ==
    ASSUME NEW S, NEW t \in Seq(S), NEW r
    PROVE  Len(Append(t, r)) = Len(t) + 1 /\ Len(t) \in Nat
  <1>1. t \in Seq(S \cup {r})
    BY SeqMonotonic
  <1> QED BY <1>1, AppendProperties, LenProperties

\* What an appended row leaves alone, and the row itself.
LEMMA KeptRow ==
    ASSUME NEW S, NEW t \in Seq(S), NEW r, NEW i \in DOMAIN t
    PROVE  i \in DOMAIN Append(t, r) /\ Append(t, r)[i] = t[i]
  <1>1. t \in Seq(S \cup {r})
    BY SeqMonotonic
  <1> QED BY <1>1, Appended

LEMMA NewLast ==
    ASSUME NEW S, NEW t \in Seq(S), NEW r
    PROVE  Len(Append(t, r)) > 0 /\ Append(t, r)[Len(Append(t, r))] = r
  <1>1. t \in Seq(S \cup {r})
    BY SeqMonotonic
  <1> QED BY <1>1, Appended

LEMMA SameLength ==
    ASSUME NEW S, NEW t \in Seq(S), NEW n, NEW r
    PROVE  Len([t EXCEPT ![n] = r]) = Len(t)
  <1>1. t \in [1..Len(t) -> S] /\ Len(t) \in Nat
    BY LenProperties
  <1>2. [t EXCEPT ![n] = r] \in [1..Len(t) -> S \cup {r}]
    BY <1>1
  <1>3. [t EXCEPT ![n] = r] \in Seq(S \cup {r}) /\ DOMAIN [t EXCEPT ![n] = r] = 1..Len(t)
    BY <1>1, <1>2, SeqDef
  <1> QED BY <1>1, <1>3, LenProperties

\* A table with a row that is changed; a row that is not there is not made.
LEMMA Changed ==
    ASSUME NEW S, NEW t \in Seq(S), NEW n, NEW r, n \in DOMAIN t => r \in S
    PROVE  /\ [t EXCEPT ![n] = r] \in Seq(S)
           /\ Len([t EXCEPT ![n] = r]) = Len(t)
           /\ DOMAIN [t EXCEPT ![n] = r] = DOMAIN t
           /\ \A i \in DOMAIN t : [t EXCEPT ![n] = r][i] = IF i = n THEN r ELSE t[i]
  <1>1. Len(t) \in Nat /\ DOMAIN t = 1..Len(t) /\ t \in [1..Len(t) -> S]
    BY LenProperties
  <1>2. CASE n \in DOMAIN t
    BY <1>1, <1>2, ExceptSeq, LenProperties
  <1>3. CASE n \notin DOMAIN t
    <2>1. [t EXCEPT ![n] = r] = t
      BY <1>1, <1>3
    <2> QED BY <2>1, <1>1, <1>3
  <1> QED BY <1>2, <1>3

\* A row of a table.
LEMMA RowOf ==
    ASSUME NEW S, NEW t \in Seq(S), NEW i \in DOMAIN t
    PROVE  t[i] \in S
  BY LenProperties, ElementOfSeq

\* A bounded set of numbers has a largest one.
LEMMA Largest ==
    ASSUME NEW S, S \subseteq Nat, S # {}, NEW b \in Nat, \A s \in S : s <= b
    PROVE  \E n \in S : \A m \in S : m <= n
  <1> DEFINE Bounds == {c \in Nat : \A s \in S : s <= c}
  <1>1. PICK c \in Bounds : \A d \in Bounds : ~(<<d, c>> \in OpToRel(<, Nat))
    <2>1. Bounds \subseteq Nat /\ Bounds # {}
      OBVIOUS
    <2> QED BY <2>1, NatLessThanWellFounded, WFMin
  <1>2. \A d \in Bounds : c <= d
    <2>1. \A x, y \in Nat : x < y => <<x, y>> \in OpToRel(<, Nat)
      BY DEF OpToRel
    <2>2. c \in Nat /\ \A d \in Bounds : d \in Nat /\ ~(d < c)
      BY <1>1, <2>1
    <2> QED BY <2>2
  <1>3. c \in S
    <2>1. SUFFICES ASSUME c \notin S PROVE FALSE
      OBVIOUS
    <2>2. c \in Nat /\ \A s \in S : s \in Nat /\ s < c
      BY <2>1
    <2>3. PICK s \in S : TRUE
      OBVIOUS
    <2>4. c - 1 \in Nat /\ \A x \in S : x <= c - 1
      BY <2>2, <2>3
    <2>5. c - 1 \in Bounds
      BY <2>4
    <2> QED BY <2>2, <2>5, <1>2
  <1> QED BY <1>3

\* One more than the largest of the numbers of a day is free, and not ahead of
\* the rows.
LEMMA NextOfDay ==
    ASSUME NEW today, NEW len \in Nat, \A m \in today : m \in Nat /\ m <= len,
           NEW next,
           next = IF today = {} THEN 1 ELSE 1 + CHOOSE n \in today : \A m \in today : m <= n
    PROVE  /\ next \in Nat /\ next <= len + 1
           /\ \A m \in today : m < next
  <1>1. CASE today = {}
    BY <1>1
  <1>2. CASE today # {}
    <2> DEFINE last == CHOOSE n \in today : \A m \in today : m <= n
    <2>1. \E n \in today : \A m \in today : m <= n
      BY <1>2, Largest
    <2>2. last \in today /\ \A m \in today : m <= last
      BY <2>1
    <2>3. next = 1 + last
      BY <1>2
    <2> HIDE DEF last
    <2> QED BY <2>2, <2>3
  <1> QED BY <1>1, <1>2

----------------------------------------------------------------------------
(* Types and numbers.                                                        *)

\* Every table is a sequence of its rows.
LEMMA TablesAre ==
    ASSUME NEW d \in Tables
    PROVE  /\ d.orders \in Seq(OrderRow) /\ d.items \in Seq(ItemRow)
           /\ d.pos \in Seq(ProductionRow) /\ d.poItems \in Seq(PlannedItemRow)
           /\ d.inspections \in Seq(InspectionRow) /\ d.packages \in Seq(PackageRow)
           /\ d.shipments \in Seq(ShipmentRow) /\ d.issues \in Seq(IssueRow)
           /\ d.reworks \in Seq(ReworkRow) /\ d.events \in SUBSET EventRow
           /\ Len(d.orders) \in Nat /\ Len(d.items) \in Nat
           /\ Len(d.pos) \in Nat /\ Len(d.poItems) \in Nat
           /\ Len(d.inspections) \in Nat /\ Len(d.packages) \in Nat
           /\ Len(d.shipments) \in Nat /\ Len(d.issues) \in Nat /\ Len(d.reworks) \in Nat
  <1>1. /\ d.orders \in Seq(OrderRow) /\ d.items \in Seq(ItemRow)
        /\ d.pos \in Seq(ProductionRow) /\ d.poItems \in Seq(PlannedItemRow)
        /\ d.inspections \in Seq(InspectionRow) /\ d.packages \in Seq(PackageRow)
        /\ d.shipments \in Seq(ShipmentRow) /\ d.issues \in Seq(IssueRow)
        /\ d.reworks \in Seq(ReworkRow) /\ d.events \in SUBSET EventRow
    BY DEF Tables
  <1> QED BY <1>1, LenProperties

\* The number that an inspection gets.
LEMMA NextInspectionIs ==
    ASSUME NEW d \in Tables, Numbered(d), NEW po
    PROVE  /\ NextInspection(d, po) \in Nat
           /\ NextInspection(d, po) <= Len(d.inspections) + 1
           /\ \A i \in DOMAIN d.inspections :
                 d.inspections[i].day = day => d.inspections[i].number < NextInspection(d, po)
  <1> DEFINE today == {d.inspections[i].number :
                         i \in {i \in DOMAIN d.inspections : d.inspections[i].day = day}}
  <1>1. Len(d.inspections) \in Nat /\ DOMAIN d.inspections = 1..Len(d.inspections)
    BY TablesAre, LenProperties
  <1>2. \A i \in DOMAIN d.inspections : d.inspections[i].number \in Nat
    <2> SUFFICES ASSUME NEW i \in DOMAIN d.inspections PROVE d.inspections[i].number \in Nat
      OBVIOUS
    <2>1. d.inspections[i] \in InspectionRow
      BY TablesAre, RowOf
    <2> QED BY <2>1 DEF InspectionRow
  <1>3. \A m \in today : m \in Nat /\ m <= Len(d.inspections)
    BY <1>1, <1>2 DEF Numbered
  <1>4. \A i \in DOMAIN d.inspections : d.inspections[i].day = day => d.inspections[i].number \in today
    OBVIOUS
  <1>5. NextInspection(d, po) =
            IF today = {} THEN 1 ELSE 1 + CHOOSE n \in today : \A m \in today : m <= n
    BY DEF NextInspection
  <1> HIDE DEF today
  <1> QED BY <1>1, <1>3, <1>4, <1>5, NextOfDay

\* The number that a rework order gets.
LEMMA NextReworkIs ==
    ASSUME NEW d \in Tables, Numbered(d)
    PROVE  NextRework(d) \in Nat /\ NextRework(d) <= Len(d.reworks) + 1
  <1> DEFINE today == {d.reworks[i].number : i \in {i \in DOMAIN d.reworks : d.reworks[i].day = day}}
  <1>1. Len(d.reworks) \in Nat /\ DOMAIN d.reworks = 1..Len(d.reworks)
    BY TablesAre, LenProperties
  <1>2. \A i \in DOMAIN d.reworks : d.reworks[i].number \in Nat
    <2> SUFFICES ASSUME NEW i \in DOMAIN d.reworks PROVE d.reworks[i].number \in Nat
      OBVIOUS
    <2>1. d.reworks[i] \in ReworkRow
      BY TablesAre, RowOf
    <2> QED BY <2>1 DEF ReworkRow
  <1>3. \A m \in today : m \in Nat /\ m <= Len(d.reworks)
    BY <1>1, <1>2 DEF Numbered
  <1>4. NextRework(d) = IF today = {} THEN 1 ELSE 1 + CHOOSE n \in today : \A m \in today : m <= n
    BY DEF NextRework
  <1> HIDE DEF today
  <1> QED BY <1>1, <1>3, <1>4, NextOfDay

\* A new event keeps the tables and the numbers.
LEMMA LoggedKeeps ==
    ASSUME NEW d \in Tables, NEW name \in EventNames, NEW id \in Nat
    PROVE  /\ Logged(d, name, id) \in Tables
           /\ Numbered(d) => Numbered(Logged(d, name, id))
  <1>1. d.events \cup {<<name, id>>} \in SUBSET EventRow
    BY DEF Tables, EventRow
  <1> QED BY <1>1 DEF Logged, Tables, Numbered

\* A call keeps the tables and the numbers.
LEMMA DoneKeeps ==
    ASSUME NEW d \in Tables, Numbered(d), NEW s \in SoundStep, ~Raises(d, s), day \in Nat
    PROVE  Done(d, s) \in Tables /\ Numbered(Done(d, s))
  <1> USE TablesAre
  <1> DEFINE order == Target(d.orders, s.of)
             po    == Target(d.pos, s.of)
             item  == Target(d.items, s.of)
  <1>0. /\ order \in Nat /\ po \in Nat /\ item \in Nat /\ s.arg \in Nat /\ s \in Step
        /\ s.call \in Calls
    BY DEF SoundStep, Step, Target
  <1> HIDE DEF order, po, item
  <1>1. CASE s.call = "create_order"
    <2>1. Done(d, s) = CreateOrder(d, s.arg)
      BY <1>1 DEF Done
    <2>2. Append(d.orders, [number |-> s.arg]) \in Seq(OrderRow)
      BY <1>0, Appended DEF OrderRow
    <2> QED BY <2>1, <2>2 DEF CreateOrder, Tables, Numbered
  <1>2. CASE s.call = "add_item"
    <2>1. Done(d, s) = AddItem(d, s.arg)
      BY <1>2 DEF Done
    <2>2. Append(d.items, [order |-> Len(d.orders), product |-> s.arg, needs |-> 0]) \in Seq(ItemRow)
      <3>1. [order |-> Len(d.orders), product |-> s.arg, needs |-> 0] \in ItemRow
        BY <1>2 DEF ItemRow, SoundStep, NeedsProduct, Requirements
      <3> QED BY <3>1, Appended
    <2> QED BY <2>1, <2>2 DEF AddItem, Tables, Numbered
  <1>3. CASE s.call = "create_production_order"
    <2> DEFINE row == [order |-> order, number |-> Len(d.pos) + 1]
    <2>1. Done(d, s) = [d EXCEPT !.pos = Append(@, row)]
      BY <1>3 DEF Done, order, CreateProductionOrder, NextNumber
    <2>2. row \in ProductionRow
      BY <1>0 DEF ProductionRow
    <2>3. /\ Append(d.pos, row) \in Seq(ProductionRow)
          /\ DOMAIN Append(d.pos, row) = DOMAIN d.pos \cup {Len(d.pos) + 1}
          /\ \A i \in DOMAIN d.pos : Append(d.pos, row)[i] = d.pos[i]
          /\ Append(d.pos, row)[Len(d.pos) + 1] = row
      BY <2>2, Appended
    <2>4. \A i \in DOMAIN Append(d.pos, row) : Append(d.pos, row)[i].number = i
      BY <2>3 DEF Numbered
    <2> HIDE DEF row
    <2> QED BY <2>1, <2>3, <2>4 DEF Tables, Numbered
  <1>4. CASE s.call = "add_production_order_item"
    <2> DEFINE row == [po |-> Len(d.pos), item |-> item, rules |-> Rules[s.arg],
                       operations |-> 0, done |-> 0]
    <2>1. Done(d, s) = [d EXCEPT !.poItems = Append(@, row)]
      BY <1>4 DEF Done, item, AddProductionOrderItem
    <2>2. s.arg \in Products
      BY <1>4, DocumentsAssumption DEF Raises
    <2>3. Append(d.poItems, row) \in Seq(PlannedItemRow)
      <3>1. row \in PlannedItemRow
        BY <1>0, <2>2, DocumentsAssumption DEF PlannedItemRow
      <3> QED BY <3>1, Appended
    <2> HIDE DEF row
    <2> QED BY <2>1, <2>3 DEF Tables, Numbered
  <1>5. CASE s.call = "create_operations"
    <2> DEFINE n == Len(d.poItems)
               row == [d.poItems[n] EXCEPT !.operations = Operations[s.arg]]
    <2>1. Done(d, s) = [d EXCEPT !.poItems = [@ EXCEPT ![n] = row]]
      BY <1>5 DEF Done, CreateOperations
    <2>2. n \in DOMAIN d.poItems => row \in PlannedItemRow
      <3>1. Operations[s.arg] \in Nat
        BY <1>5, DocumentsAssumption DEF SoundStep, NeedsProduct
      <3>2. n \in DOMAIN d.poItems => d.poItems[n] \in PlannedItemRow
        BY RowOf
      <3> QED BY <3>1, <3>2 DEF PlannedItemRow
    <2>3. [d.poItems EXCEPT ![n] = row] \in Seq(PlannedItemRow)
      BY <2>2, Changed
    <2> HIDE DEF row, n
    <2> QED BY <2>1, <2>3 DEF Tables, Numbered
  <1>6. CASE s.call = "create_requirements"
    <2> DEFINE n == Len(d.items)
               row == [d.items[n] EXCEPT !.needs = Rules[s.arg]]
    <2>1. Done(d, s) = [d EXCEPT !.items = [@ EXCEPT ![n] = row]]
      BY <1>6 DEF Done, CreateRequirements
    <2>2. n \in DOMAIN d.items => row \in ItemRow
      <3>1. Rules[s.arg] \in Nat
        BY <1>6, DocumentsAssumption DEF SoundStep, NeedsProduct
      <3>2. n \in DOMAIN d.items => d.items[n] \in ItemRow
        BY RowOf
      <3> QED BY <3>1, <3>2 DEF ItemRow, Requirements
    <2>3. [d.items EXCEPT ![n] = row] \in Seq(ItemRow)
      BY <2>2, Changed
    <2> HIDE DEF row, n
    <2> QED BY <2>1, <2>3 DEF Tables, Numbered
  <1>7. CASE s.call = "run_operations"
    <2> DEFINE n == Len(d.poItems)
               row == [d.poItems[n] EXCEPT !.done = d.poItems[n].operations]
    <2>1. Done(d, s) = [d EXCEPT !.poItems = [@ EXCEPT ![n] = row]]
      BY <1>7 DEF Done, RunOperations
    <2>2. n \in DOMAIN d.poItems => row \in PlannedItemRow
      <3>1. n \in DOMAIN d.poItems => d.poItems[n] \in PlannedItemRow
        BY RowOf
      <3> QED BY <3>1 DEF PlannedItemRow
    <2>3. [d.poItems EXCEPT ![n] = row] \in Seq(PlannedItemRow)
      BY <2>2, Changed
    <2> HIDE DEF row, n
    <2> QED BY <2>1, <2>3 DEF Tables, Numbered
  <1>8. CASE s.call = "create_inspection"
    <2> DEFINE row == [po |-> po, day |-> day, number |-> NextInspection(d, po), defects |-> 0]
               e == [d EXCEPT !.inspections = Append(@, row)]
    <2>1. Done(d, s) = Logged(e, "inspection", Len(d.inspections) + 1)
      BY <1>8 DEF Done, po, CreateInspection
    <2>2. row \in InspectionRow /\ row.number <= Len(d.inspections) + 1
      BY <1>0, NextInspectionIs DEF InspectionRow, Defects
    <2>3. /\ Append(d.inspections, row) \in Seq(InspectionRow)
          /\ DOMAIN Append(d.inspections, row) = DOMAIN d.inspections \cup {Len(d.inspections) + 1}
          /\ \A i \in DOMAIN d.inspections : Append(d.inspections, row)[i] = d.inspections[i]
          /\ Append(d.inspections, row)[Len(d.inspections) + 1] = row
      BY <2>2, Appended
    <2>4. \A i \in DOMAIN Append(d.inspections, row) : Append(d.inspections, row)[i].number <= i
      BY <2>2, <2>3 DEF Numbered
    <2> HIDE DEF row
    <2>5. e \in Tables /\ Numbered(e)
      BY <2>3, <2>4 DEF Tables, Numbered
    <2> HIDE DEF e
    <2>7. Len(d.inspections) + 1 \in Nat /\ "inspection" \in EventNames
      BY DEF EventNames
    <2> QED BY <2>1, <2>5, <2>7, LoggedKeeps
  <1>9. CASE s.call = "add_defect"
    <2> DEFINE n == Len(d.inspections)
               row == [d.inspections[n] EXCEPT !.defects = @ + 1]
               e == [d EXCEPT !.inspections = [@ EXCEPT ![n] = row]]
    <2>1. Done(d, s) = Logged(e, "defects of", n)
      BY <1>9 DEF Done, AddDefect
    <2>2. n \in DOMAIN d.inspections => row \in InspectionRow
      <3>1. n \in DOMAIN d.inspections => d.inspections[n] \in InspectionRow
        BY RowOf
      <3>2. n \in DOMAIN d.inspections => d.inspections[n].defects + 1 \in Nat
        BY <3>1 DEF InspectionRow, Defects
      <3> QED BY <3>1, <3>2 DEF InspectionRow, Defects
    <2>6. n \in DOMAIN d.inspections => row.number = d.inspections[n].number
      <3>1. n \in DOMAIN d.inspections => d.inspections[n] \in InspectionRow
        BY RowOf
      <3> QED BY <3>1 DEF InspectionRow
    <2>4. n \in Nat
      OBVIOUS
    <2> HIDE DEF row, n
    <2>3. /\ [d.inspections EXCEPT ![n] = row] \in Seq(InspectionRow)
          /\ DOMAIN [d.inspections EXCEPT ![n] = row] = DOMAIN d.inspections
          /\ \A i \in DOMAIN d.inspections :
                [d.inspections EXCEPT ![n] = row][i] = IF i = n THEN row ELSE d.inspections[i]
      BY <2>2, Changed
    <2>5. e \in Tables /\ Numbered(e)
      BY <2>6, <2>3 DEF Tables, Numbered
    <2> HIDE DEF e
    <2>7. "defects of" \in EventNames
      BY DEF EventNames
    <2> QED BY <2>1, <2>4, <2>5, <2>7, LoggedKeeps
  <1>10. CASE s.call = "create_package"
    <2> DEFINE row == [item |-> item, number |-> Len(d.packages) + 1, status |-> "packed"]
               e == [d EXCEPT !.packages = Append(@, row)]
    <2>1. Done(d, s) = Logged(e, "package", Len(d.packages) + 1)
      BY <1>10 DEF Done, item, CreatePackage, NextNumber
    <2>2. row \in PackageRow
      BY <1>0 DEF PackageRow
    <2>3. /\ Append(d.packages, row) \in Seq(PackageRow)
          /\ DOMAIN Append(d.packages, row) = DOMAIN d.packages \cup {Len(d.packages) + 1}
          /\ \A i \in DOMAIN d.packages : Append(d.packages, row)[i] = d.packages[i]
          /\ Append(d.packages, row)[Len(d.packages) + 1] = row
      BY <2>2, Appended
    <2>4. \A i \in DOMAIN Append(d.packages, row) : Append(d.packages, row)[i].number = i
      BY <2>3 DEF Numbered
    <2> HIDE DEF row
    <2>5. e \in Tables /\ Numbered(e)
      BY <2>3, <2>4 DEF Tables, Numbered
    <2> HIDE DEF e
    <2>7. Len(d.packages) + 1 \in Nat /\ "package" \in EventNames
      BY DEF EventNames
    <2> QED BY <2>1, <2>5, <2>7, LoggedKeeps
  <1>11. CASE s.call = "create_shipment"
    <2> DEFINE row == [order |-> order, given |-> s.arg # 0, status |-> "ready",
                       number |-> IF s.arg # 0 THEN s.arg ELSE Len(d.shipments) + 1]
               e == [d EXCEPT !.shipments = Append(@, row)]
    <2>1. Done(d, s) = Logged(e, "shipment", Len(d.shipments) + 1)
      BY <1>11 DEF Done, order, CreateShipment, NextNumber
    <2>2. row \in ShipmentRow
      BY <1>0 DEF ShipmentRow
    <2>3. /\ Append(d.shipments, row) \in Seq(ShipmentRow)
          /\ DOMAIN Append(d.shipments, row) = DOMAIN d.shipments \cup {Len(d.shipments) + 1}
          /\ \A i \in DOMAIN d.shipments : Append(d.shipments, row)[i] = d.shipments[i]
          /\ Append(d.shipments, row)[Len(d.shipments) + 1] = row
      BY <2>2, Appended
    <2>4. ~row.given => row.number = Len(d.shipments) + 1
      OBVIOUS
    <2> HIDE DEF row
    <2>5. (\A i \in DOMAIN Append(d.shipments, row) : ~Append(d.shipments, row)[i].given) =>
              \A i \in DOMAIN Append(d.shipments, row) : Append(d.shipments, row)[i].number = i
      BY <2>3, <2>4 DEF Numbered
    <2>6. e \in Tables /\ Numbered(e)
      BY <2>3, <2>5 DEF Tables, Numbered
    <2> HIDE DEF e
    <2>7. Len(d.shipments) + 1 \in Nat /\ "shipment" \in EventNames
      BY DEF EventNames
    <2> QED BY <2>1, <2>6, <2>7, LoggedKeeps
  <1>12. CASE s.call = "issue_material"
    <2> DEFINE row == [number |-> Len(d.issues) + 1, key |-> s.arg]
               e == [d EXCEPT !.issues = Append(@, row)]
    <2>1. Done(d, s) = Logged(e, "issue", Len(d.issues) + 1)
      BY <1>12 DEF Done, IssueMaterial, NextNumber
    <2>2. row \in IssueRow
      BY <1>0 DEF IssueRow
    <2>3. /\ Append(d.issues, row) \in Seq(IssueRow)
          /\ DOMAIN Append(d.issues, row) = DOMAIN d.issues \cup {Len(d.issues) + 1}
          /\ \A i \in DOMAIN d.issues : Append(d.issues, row)[i] = d.issues[i]
          /\ Append(d.issues, row)[Len(d.issues) + 1] = row
      BY <2>2, Appended
    <2>4. \A i \in DOMAIN Append(d.issues, row) : Append(d.issues, row)[i].number = i
      BY <2>3 DEF Numbered
    <2> HIDE DEF row
    <2>5. e \in Tables /\ Numbered(e)
      BY <2>3, <2>4 DEF Tables, Numbered
    <2> HIDE DEF e
    <2>7. Len(d.issues) + 1 \in Nat /\ "issue" \in EventNames
      BY DEF EventNames
    <2> QED BY <2>1, <2>5, <2>7, LoggedKeeps
  <1>13. CASE s.call = "log_order"
    <2>1. Done(d, s) = Logged(d, "order", Len(d.orders))
      BY <1>13 DEF Done
    <2>2. "order" \in EventNames /\ Len(d.orders) \in Nat
      BY DEF EventNames
    <2> QED BY <2>1, <2>2, LoggedKeeps DEF EventNames
  <1>14. CASE s.call = "log_production"
    <2>1. Done(d, s) = Logged(d, "production order", Len(d.pos))
      BY <1>14 DEF Done
    <2> QED BY <2>1, LoggedKeeps DEF EventNames
  <1>15. s.call # "add_issue_item"
    BY DEF Raises
  <1> QED BY <1>0, <1>1, <1>2, <1>3, <1>4, <1>5, <1>6, <1>7, <1>8, <1>9, <1>10, <1>11,
             <1>12, <1>13, <1>14, <1>15 DEF Calls

\* The calls of every view are sound.
LEMMA StepIsSound ==
    ASSUME NEW call \in Calls, NEW of \in Nat, NEW arg \in Nat,
           call \in NeedsProduct => arg \in Products
    PROVE  Do(call, of, arg) \in SoundStep
  BY DEF Do, SoundStep, Step

LEMMA TimesIsSound ==
    ASSUME NEW k \in Nat, NEW s \in SoundStep
    PROVE  Times(k, s) \in Seq(SoundStep)
  <1>1. Times(k, s) \in [1..k -> SoundStep]
    BY DEF Times
  <1> QED BY <1>1, SeqDef

LEMMA OrderStepsAreSound ==
    ASSUME NEW n \in Nat, NEW p \in Products, NEW k \in Nat
    PROVE  OrderSteps(n, p, k) \in Seq(SoundStep)
  <1>1. p \in Nat
    BY DocumentsAssumption
  <1>2. Do("create_order", 0, n) \in SoundStep /\ Do("log_order", 0, 0) \in SoundStep
    BY StepIsSound DEF Calls, NeedsProduct
  <1>3. Do("add_item", 0, p) \in SoundStep
    BY <1>1, StepIsSound DEF Calls
  <1>4. <<Do("create_order", 0, n)>> \in Seq(SoundStep) /\ <<Do("log_order", 0, 0)>> \in Seq(SoundStep)
    BY <1>2
  <1>5. Times(k, Do("add_item", 0, p)) \in Seq(SoundStep)
    BY <1>3, TimesIsSound
  <1> QED BY <1>4, <1>5, ConcatProperties DEF OrderSteps

LEMMA ProductionStepsAreSound ==
    ASSUME NEW o \in Nat, NEW i \in Nat, NEW p \in Products
    PROVE  ProductionSteps(o, i, p) \in Seq(SoundStep)
  <1>1. p \in Nat
    BY DocumentsAssumption
  <1>2. /\ Do("create_production_order", o, 0) \in SoundStep
        /\ Do("add_production_order_item", i, p) \in SoundStep
        /\ Do("log_production", 0, 0) \in SoundStep
    BY <1>1, StepIsSound DEF Calls, NeedsProduct
  <1>3. Do("create_operations", 0, p) \in SoundStep
    BY <1>1, StepIsSound DEF Calls
  <1> QED BY <1>2, <1>3 DEF ProductionSteps

LEMMA IssueStepsAreSound ==
    ASSUME NEW key \in Nat, NEW k \in Nat
    PROVE  IssueSteps(key, k) \in Seq(SoundStep)
  <1>1. Do("issue_material", 0, key) \in SoundStep /\ Do("add_issue_item", 0, 0) \in SoundStep
    BY StepIsSound DEF Calls, NeedsProduct
  <1>2. <<Do("issue_material", 0, key)>> \in Seq(SoundStep)
    BY <1>1
  <1>3. Times(k, Do("add_issue_item", 0, 0)) \in Seq(SoundStep)
    BY <1>1, TimesIsSound
  <1> QED BY <1>2, <1>3, ConcatProperties DEF IssueSteps

LEMMA InspectionStepsAreSound ==
    ASSUME NEW po \in Nat, NEW k \in Nat
    PROVE  InspectionSteps(po, k) \in Seq(SoundStep)
  <1>1. Do("create_inspection", po, 0) \in SoundStep /\ Do("add_defect", 0, 0) \in SoundStep
    BY StepIsSound DEF Calls, NeedsProduct
  <1>2. <<Do("create_inspection", po, 0)>> \in Seq(SoundStep)
    BY <1>1
  <1>3. Times(k, Do("add_defect", 0, 0)) \in Seq(SoundStep)
    BY <1>1, TimesIsSound
  <1> QED BY <1>2, <1>3, ConcatProperties DEF InspectionSteps

LEMMA ShipmentStepsAreSound ==
    ASSUME NEW o \in Nat, NEW n \in Nat
    PROVE  ShipmentSteps(o, n) \in Seq(SoundStep)
  <1>1. Do("create_shipment", o, n) \in SoundStep
    BY StepIsSound DEF Calls, NeedsProduct
  <1> QED BY <1>1 DEF ShipmentSteps

LEMMA WorkflowStepsAreSound ==
    ASSUME NEW p \in Products
    PROVE  WorkflowSteps(p) \in Seq(SoundStep) /\ Len(WorkflowSteps(p)) = 12
  <1>1. p \in Nat
    BY DocumentsAssumption
  <1>2. /\ Do("create_order", 0, 0) \in SoundStep /\ Do("log_order", 0, 0) \in SoundStep
        /\ Do("create_production_order", 0, 0) \in SoundStep
        /\ Do("add_production_order_item", 0, p) \in SoundStep
        /\ Do("log_production", 0, 0) \in SoundStep
        /\ Do("run_operations", 0, 0) \in SoundStep
        /\ Do("create_inspection", 0, 0) \in SoundStep
        /\ Do("create_package", 0, 0) \in SoundStep
        /\ Do("create_shipment", 0, 0) \in SoundStep
    BY <1>1, StepIsSound DEF Calls, NeedsProduct
  <1>3. /\ Do("add_item", 0, p) \in SoundStep
        /\ Do("create_operations", 0, p) \in SoundStep
        /\ Do("create_requirements", 0, p) \in SoundStep
    BY <1>1, StepIsSound DEF Calls
  <1> QED BY <1>2, <1>3 DEF WorkflowSteps

\* A request opens a transaction that restores what is there now.
LEMMA RequestOpens ==
    ASSUME NumberInv, NEW view \in Views, NEW steps \in Seq(SoundStep), Request(view, steps)
    PROVE  NumberInv'
  <1>1. txn' = [view |-> view, todo |-> steps, before |-> db] /\ UNCHANGED <<db, day, flows>>
        /\ requests' = requests + 1
    BY DEF Request
  <1>2. SoundTxn'
    BY <1>1 DEF SoundTxn, NumberInv
  <1>3. txn'.before = db
    BY <1>1
  <1>4. (Open => Numbered(txn.before))'
    BY <1>1, <1>3 DEF NumberInv, Numbered
  <1> QED BY <1>1, <1>2, <1>4 DEF NumberInv, Numbered

\* A service outside a transaction writes tables that are typed and numbered.
LEMMA ServiceKeeps ==
    ASSUME NumberInv, NEW d, Service(d), d \in Tables, Numbered(d)
    PROVE  NumberInv'
  <1>1. UNCHANGED <<txn, day, flows>> /\ requests' = requests + 1 /\ db' = d /\ ~Open
    BY DEF Service
  <1>2. SoundTxn' /\ ~Open'
    BY <1>1 DEF NumberInv, SoundTxn, Open
  <1> QED BY <1>1, <1>2 DEF NumberInv, Numbered

\* A change of the status of a row.
LEMMA StatusKeeps ==
    ASSUME NumberInv
    PROVE  /\ \A p \in DOMAIN db.packages : ShipPackage(p) => NumberInv'
           /\ \A s \in DOMAIN db.shipments : MarkInTransit(s) \/ MarkDelivered(s) => NumberInv'
           /\ \A r \in DOMAIN db.reworks : StartRework(r) \/ CompleteRework(r) => NumberInv'
  <1> USE TablesAre
  <1>0. db \in Tables /\ Numbered(db)
    BY DEF NumberInv
  <1>1. ASSUME NEW p \in DOMAIN db.packages, ShipPackage(p)
        PROVE  NumberInv'
    <2> DEFINE row == [db.packages[p] EXCEPT !.status = "shipped"]
               e == [db EXCEPT !.packages = [@ EXCEPT ![p] = row]]
    <2>1. Service(e)
      BY <1>1 DEF ShipPackage
    <2>2. db.packages[p] \in PackageRow
      BY <1>0, RowOf
    <2>3. row \in PackageRow /\ row.number = db.packages[p].number
      BY <2>2 DEF PackageRow
    <2> HIDE DEF row
    <2>4. /\ [db.packages EXCEPT ![p] = row] \in Seq(PackageRow)
          /\ DOMAIN [db.packages EXCEPT ![p] = row] = DOMAIN db.packages
          /\ \A i \in DOMAIN db.packages :
                [db.packages EXCEPT ![p] = row][i] = IF i = p THEN row ELSE db.packages[i]
      BY <1>0, <2>3, Changed
    <2>5. e \in Tables /\ Numbered(e)
      BY <1>0, <2>3, <2>4 DEF Tables, Numbered
    <2> QED BY <2>1, <2>5, ServiceKeeps
  <1>2. ASSUME NEW s \in DOMAIN db.shipments, NEW status \in {"ready", "in_transit", "delivered"},
               Service([db EXCEPT !.shipments[s].status = status])
        PROVE  NumberInv'
    <2> DEFINE row == [db.shipments[s] EXCEPT !.status = status]
               e == [db EXCEPT !.shipments = [@ EXCEPT ![s] = row]]
    <2>1. Service(e)
      BY <1>2
    <2>2. db.shipments[s] \in ShipmentRow
      BY <1>0, RowOf
    <2>3. /\ row \in ShipmentRow /\ row.number = db.shipments[s].number
          /\ row.given = db.shipments[s].given
      BY <2>2 DEF ShipmentRow
    <2> HIDE DEF row
    <2>4. /\ [db.shipments EXCEPT ![s] = row] \in Seq(ShipmentRow)
          /\ DOMAIN [db.shipments EXCEPT ![s] = row] = DOMAIN db.shipments
          /\ \A i \in DOMAIN db.shipments :
                [db.shipments EXCEPT ![s] = row][i] = IF i = s THEN row ELSE db.shipments[i]
      BY <1>0, <2>3, Changed
    <2>5. e \in Tables /\ Numbered(e)
      BY <1>0, <2>3, <2>4 DEF Tables, Numbered
    <2> QED BY <2>1, <2>5, ServiceKeeps
  <1>3. ASSUME NEW r \in DOMAIN db.reworks, NEW status \in {"draft", "in_progress", "completed"},
               Service(Logged([db EXCEPT !.reworks[r].status = status], "rework", r))
        PROVE  NumberInv'
    <2> DEFINE row == [db.reworks[r] EXCEPT !.status = status]
               e == [db EXCEPT !.reworks = [@ EXCEPT ![r] = row]]
    <2>1. Service(Logged(e, "rework", r))
      BY <1>3
    <2>2. db.reworks[r] \in ReworkRow
      BY <1>0, RowOf
    <2>3. row \in ReworkRow /\ row.number = db.reworks[r].number
      BY <2>2 DEF ReworkRow
    <2> HIDE DEF row
    <2>4. /\ [db.reworks EXCEPT ![r] = row] \in Seq(ReworkRow)
          /\ DOMAIN [db.reworks EXCEPT ![r] = row] = DOMAIN db.reworks
          /\ \A i \in DOMAIN db.reworks :
                [db.reworks EXCEPT ![r] = row][i] = IF i = r THEN row ELSE db.reworks[i]
      BY <1>0, <2>3, Changed
    <2>5. e \in Tables /\ Numbered(e)
      BY <1>0, <2>3, <2>4 DEF Tables, Numbered
    <2> HIDE DEF e
    <2>6. r \in Nat /\ "rework" \in EventNames
      BY <1>0, LenProperties DEF EventNames
    <2> QED BY <2>1, <2>5, <2>6, LoggedKeeps, ServiceKeeps
  <1> QED BY <1>1, <1>2, <1>3 DEF MarkInTransit, MarkDelivered, StartRework, CompleteRework

LEMMA ReworkKeeps ==
    ASSUME NumberInv, NEW i \in DOMAIN db.inspections, CreateRework(i)
    PROVE  NumberInv'
  <1> USE TablesAre
  <1>0. db \in Tables /\ Numbered(db) /\ day \in Nat
    BY DEF NumberInv
  <1> DEFINE row == [inspection |-> i, day |-> day, number |-> NextRework(db), status |-> "draft"]
             e == [db EXCEPT !.reworks = Append(@, row)]
  <1>1. Service(Logged(e, "rework", Len(db.reworks) + 1))
    BY DEF CreateRework
  <1>2. i \in Nat
    BY <1>0, LenProperties
  <1>3. row \in ReworkRow /\ row.number <= Len(db.reworks) + 1
    BY <1>0, <1>2, NextReworkIs DEF ReworkRow
  <1> HIDE DEF row
  <1>4. /\ Append(db.reworks, row) \in Seq(ReworkRow)
        /\ DOMAIN Append(db.reworks, row) = DOMAIN db.reworks \cup {Len(db.reworks) + 1}
        /\ \A j \in DOMAIN db.reworks : Append(db.reworks, row)[j] = db.reworks[j]
        /\ Append(db.reworks, row)[Len(db.reworks) + 1] = row
    BY <1>0, <1>3, Appended
  <1>5. \A j \in DOMAIN Append(db.reworks, row) : Append(db.reworks, row)[j].number <= j
    BY <1>0, <1>3, <1>4 DEF Numbered
  <1>6. e \in Tables /\ Numbered(e)
    BY <1>0, <1>4, <1>5 DEF Tables, Numbered
  <1> HIDE DEF e
  <1>7. Len(db.reworks) + 1 \in Nat /\ "rework" \in EventNames
    BY <1>0 DEF EventNames
  <1> QED BY <1>1, <1>6, <1>7, LoggedKeeps, ServiceKeeps

LEMMA InitNumbers == ASSUME Init PROVE NumberInv
  BY DEF Init, NumberInv, Numbered, SoundTxn, Tables, Open, NoTxn

LEMMA NextKeepsNumbers == ASSUME NumberInv, [Next]_vars PROVE NumberInv'
  <1>1. CASE PostOrder
    <2>1. PICK n \in OrderNumbers, p \in Products, k \in 0..MaxItems :
              Request("order", OrderSteps(n, p, k))
      BY <1>1 DEF PostOrder
    <2>2. OrderSteps(n, p, k) \in Seq(SoundStep)
      BY OrderStepsAreSound, DocumentsAssumption
    <2> QED BY <2>1, <2>2, RequestOpens DEF Views
  <1>2. CASE PostProduction
    <2>1. PICK o \in DOMAIN db.orders, i \in DOMAIN db.items, p \in Products :
              Request("production", ProductionSteps(o, i, p))
      BY <1>2 DEF PostProduction
    <2>2. o \in Nat /\ i \in Nat
      BY TablesAre, LenProperties DEF NumberInv
    <2>3. ProductionSteps(o, i, p) \in Seq(SoundStep)
      BY <2>2, ProductionStepsAreSound
    <2> QED BY <2>1, <2>3, RequestOpens DEF Views
  <1>3. CASE PostIssue
    <2>1. PICK key \in Keys, k \in 0..MaxItems : Request("issue", IssueSteps(key, k))
      BY <1>3 DEF PostIssue
    <2>2. IssueSteps(key, k) \in Seq(SoundStep)
      BY IssueStepsAreSound, DocumentsAssumption
    <2> QED BY <2>1, <2>2, RequestOpens DEF Views
  <1>4. CASE PostInspection
    <2>1. PICK po \in DOMAIN db.pos, k \in 0..MaxItems :
              Request("inspection", InspectionSteps(po, k))
      BY <1>4 DEF PostInspection
    <2>2. po \in Nat
      BY TablesAre, LenProperties DEF NumberInv
    <2>3. InspectionSteps(po, k) \in Seq(SoundStep)
      BY <2>2, InspectionStepsAreSound, DocumentsAssumption
    <2> QED BY <2>1, <2>3, RequestOpens DEF Views
  <1>5. CASE PostShipment
    <2>1. PICK o \in DOMAIN db.orders, n \in ShipNumbers : Request("shipment", ShipmentSteps(o, n))
      BY <1>5 DEF PostShipment
    <2>2. o \in Nat
      BY TablesAre, LenProperties DEF NumberInv
    <2>3. ShipmentSteps(o, n) \in Seq(SoundStep)
      BY <2>2, ShipmentStepsAreSound, DocumentsAssumption
    <2> QED BY <2>1, <2>3, RequestOpens DEF Views
  <1>6. CASE PostWorkflow
    <2>1. PICK p \in Products : Request("workflow", WorkflowSteps(p))
      BY <1>6 DEF PostWorkflow
    <2>2. WorkflowSteps(p) \in Seq(SoundStep)
      BY WorkflowStepsAreSound
    <2> QED BY <2>1, <2>2, RequestOpens DEF Views
  <1>7. CASE Call
    <2>1. /\ txn \in [view: Views, todo: Seq(SoundStep), before: Tables]
          /\ txn.todo # <<>> /\ ~Raises(db, Head(txn.todo))
          /\ txn' = [txn EXCEPT !.todo = Tail(@)]
          /\ db' = Done(db, Head(txn.todo))
          /\ UNCHANGED <<requests, day, flows>> /\ Open
      BY <1>7 DEF Call, NumberInv, SoundTxn, Open, NoTxn
    <2>2. Head(txn.todo) \in SoundStep /\ Tail(txn.todo) \in Seq(SoundStep)
      BY <2>1, HeadTailProperties
    <2>3. db' \in Tables /\ Numbered(db)'
      BY <2>1, <2>2, DoneKeeps DEF NumberInv
    <2>4. txn' \in [view: Views, todo: Seq(SoundStep), before: Tables] /\ txn'.before = txn.before
      BY <2>1, <2>2
    <2>5. (Open => Numbered(txn.before))'
      BY <2>1, <2>4 DEF NumberInv, Numbered
    <2> QED BY <2>1, <2>3, <2>4, <2>5 DEF NumberInv, SoundTxn
  <1>8. CASE Commit
    <2>1. txn' = NoTxn /\ UNCHANGED <<db, requests, day>> /\ flows' \subseteq Nat
      BY <1>8, TablesAre DEF Commit, NumberInv
    <2> QED BY <2>1 DEF NumberInv, SoundTxn, Numbered, Open, NoTxn
  <1>9. CASE Raise \/ Crash
    <2>1. Open /\ db' = txn.before /\ txn' = NoTxn /\ UNCHANGED <<requests, day, flows>>
      BY <1>9 DEF Raise, Crash, Undo
    <2>2. txn.before \in Tables
      BY <2>1 DEF NumberInv, SoundTxn, Open, NoTxn
    <2> QED BY <2>1, <2>2 DEF NumberInv, SoundTxn, Numbered, Open, NoTxn
  <1>10. CASE NextDay
    BY <1>10 DEF NextDay, NumberInv, SoundTxn, Numbered, Open
  <1>11. CASE UNCHANGED vars
    BY <1>11 DEF vars, NumberInv, SoundTxn, Numbered, Open
  <1>12. CASE \E p \in DOMAIN db.packages : ShipPackage(p)
    BY <1>12, StatusKeeps
  <1>13. CASE \E s \in DOMAIN db.shipments : MarkInTransit(s) \/ MarkDelivered(s)
    BY <1>13, StatusKeeps
  <1>14. CASE \E i \in DOMAIN db.inspections : CreateRework(i)
    BY <1>14, ReworkKeeps
  <1>15. CASE \E r \in DOMAIN db.reworks : StartRework(r) \/ CompleteRework(r)
    BY <1>15, StatusKeeps
  <1> QED BY <1>1, <1>2, <1>3, <1>4, <1>5, <1>6, <1>7, <1>8, <1>9, <1>10, <1>11, <1>12,
             <1>13, <1>14, <1>15 DEF Next

THEOREM NumbersHold == Spec => []NumberInv
  <1>1. Init => NumberInv
    BY InitNumbers
  <1>2. NumberInv /\ [Next]_vars => NumberInv'
    BY NextKeepsNumbers
  <1> QED BY <1>1, <1>2, PTL DEF Spec

LEMMA NumbersImplyTypes == ASSUME NumberInv PROVE TypeOK
  <1>1. Seq(SoundStep) \subseteq Seq(Step)
    BY SeqMonotonic DEF SoundStep
  <1>2. txn = NoTxn \/ txn \in [view: Views, todo: Seq(Step), before: Tables]
    BY <1>1 DEF NumberInv, SoundTxn
  <1> QED BY <1>2 DEF NumberInv, TypeOK

\* Whatever is requested, refused or killed, the tables and the open transaction
\* keep their types: no call writes a row of the wrong kind, and the number of an
\* inspection or a rework order is always defined.
THEOREM DocumentsTypeCorrect == Spec => []TypeOK
  BY NumbersHold, NumbersImplyTypes, PTL

LEMMA NumbersAreFree == ASSUME NumberInv PROVE GeneratedNumbersAreFree
  <1> USE TablesAre DEF NextNumber, Taken
  <1>0. db \in Tables /\ Numbered(db)
    BY DEF NumberInv
  <1>1. /\ DOMAIN db.pos = 1..Len(db.pos) /\ DOMAIN db.packages = 1..Len(db.packages)
        /\ DOMAIN db.issues = 1..Len(db.issues)
        /\ DOMAIN db.shipments = 1..Len(db.shipments)
    BY <1>0, LenProperties
  <1>2. \A i \in DOMAIN db.pos : db.pos[i].number # NextNumber(db.pos)
    BY <1>0, <1>1 DEF Numbered
  <1>3. ~Taken(db.packages, NextNumber(db.packages)) /\ ~Taken(db.issues, NextNumber(db.issues))
    BY <1>0, <1>1 DEF Numbered
  <1>4. ASSUME NEW i \in DOMAIN db.inspections, NEW po \in DOMAIN db.pos,
               db.inspections[i].day = day
        PROVE  db.inspections[i].number # NextInspection(db, po)
    <2>1. db.inspections[i] \in InspectionRow
      BY <1>0, RowOf
    <2> QED BY <1>0, <1>4, <2>1, NextInspectionIs DEF InspectionRow
  <1>5. (\A i \in DOMAIN db.shipments : ~db.shipments[i].given) =>
            ~Taken(db.shipments, NextNumber(db.shipments))
    BY <1>0, <1>1 DEF Numbered
  <1> QED BY <1>2, <1>3, <1>4, <1>5 DEF GeneratedNumbersAreFree

\* A generated number is free when it is generated, after any history of refused
\* and killed requests: count() + 1 and "one more than the last of the day" never
\* meet a number that is taken, unless a request brought one for a shipment.
THEOREM NumbersAlwaysFree == Spec => []GeneratedNumbersAreFree
  BY NumbersHold, NumbersAreFree, PTL

----------------------------------------------------------------------------
(* What a call does, table by table.                                         *)

Loggers == {"create_inspection", "add_defect", "create_package", "create_shipment",
            "issue_material", "log_order", "log_production"}

LEMMA DoneIs ==
    ASSUME NEW d \in Tables, NEW s \in SoundStep, ~Raises(d, s)
    PROVE  /\ Done(d, s).orders = IF s.call = "create_order"
                         THEN Append(d.orders, [number |-> s.arg]) ELSE d.orders
           /\ Done(d, s).items = IF s.call = "add_item"
                        THEN Append(d.items, [order |-> Len(d.orders), product |-> s.arg,
                                              needs |-> 0])
                        ELSE IF s.call = "create_requirements"
                        THEN [d.items EXCEPT ![Len(d.items)].needs = Rules[s.arg]]
                        ELSE d.items
           /\ Done(d, s).pos = IF s.call = "create_production_order"
                      THEN Append(d.pos, [order |-> Target(d.orders, s.of),
                                          number |-> Len(d.pos) + 1])
                      ELSE d.pos
           /\ Done(d, s).poItems = IF s.call = "add_production_order_item"
                          THEN Append(d.poItems, [po |-> Len(d.pos), item |-> Target(d.items, s.of),
                                                  rules |-> Rules[s.arg], operations |-> 0, done |-> 0])
                          ELSE IF s.call = "create_operations"
                          THEN [d.poItems EXCEPT ![Len(d.poItems)].operations = Operations[s.arg]]
                          ELSE IF s.call = "run_operations"
                          THEN [d.poItems EXCEPT ![Len(d.poItems)].done =
                                    d.poItems[Len(d.poItems)].operations]
                          ELSE d.poItems
           /\ Done(d, s).inspections = IF s.call = "create_inspection"
                              THEN Append(d.inspections,
                                     [po |-> Target(d.pos, s.of), day |-> day,
                                      number |-> NextInspection(d, Target(d.pos, s.of)),
                                      defects |-> 0])
                              ELSE IF s.call = "add_defect"
                              THEN [d.inspections EXCEPT ![Len(d.inspections)].defects = @ + 1]
                              ELSE d.inspections
           /\ Done(d, s).packages = IF s.call = "create_package"
                           THEN Append(d.packages, [item |-> Target(d.items, s.of),
                                                    number |-> Len(d.packages) + 1,
                                                    status |-> "packed"])
                           ELSE d.packages
           /\ Done(d, s).shipments = IF s.call = "create_shipment"
                            THEN Append(d.shipments,
                                   [order |-> Target(d.orders, s.of), given |-> s.arg # 0,
                                    status |-> "ready",
                                    number |-> IF s.arg # 0 THEN s.arg ELSE Len(d.shipments) + 1])
                            ELSE d.shipments
           /\ Done(d, s).issues = IF s.call = "issue_material"
                         THEN Append(d.issues, [number |-> Len(d.issues) + 1, key |-> s.arg])
                         ELSE d.issues
           /\ Done(d, s).reworks = d.reworks
  <1> USE DEF Tables, NextNumber, Logged
  <1>1. CASE s.call = "create_order"
    BY <1>1 DEF Done, CreateOrder
  <1>2. CASE s.call = "add_item"
    BY <1>2 DEF Done, AddItem
  <1>3. CASE s.call = "create_production_order"
    BY <1>3 DEF Done, CreateProductionOrder
  <1>4. CASE s.call = "add_production_order_item"
    BY <1>4 DEF Done, AddProductionOrderItem
  <1>5. CASE s.call = "create_operations"
    BY <1>5 DEF Done, CreateOperations
  <1>6. CASE s.call = "create_requirements"
    BY <1>6 DEF Done, CreateRequirements
  <1>7. CASE s.call = "run_operations"
    BY <1>7 DEF Done, RunOperations
  <1>8. CASE s.call = "create_inspection"
    BY <1>8 DEF Done, CreateInspection
  <1>9. CASE s.call = "add_defect"
    BY <1>9 DEF Done, AddDefect
  <1>10. CASE s.call = "create_package"
    BY <1>10 DEF Done, CreatePackage
  <1>11. CASE s.call = "create_shipment"
    BY <1>11 DEF Done, CreateShipment
  <1>12. CASE s.call = "issue_material"
    BY <1>12 DEF Done, IssueMaterial
  <1>13. CASE s.call = "log_order"
    BY <1>13 DEF Done
  <1>14. CASE s.call = "log_production"
    BY <1>14 DEF Done
  <1>15. s.call # "add_issue_item" /\ s.call \in Calls
    BY DEF Raises, SoundStep, Step
  <1> QED BY <1>1, <1>2, <1>3, <1>4, <1>5, <1>6, <1>7, <1>8, <1>9, <1>10, <1>11,
             <1>12, <1>13, <1>14, <1>15 DEF Calls

\* The events of a call.
LEMMA DoneEvents ==
    ASSUME NEW d \in Tables, NEW s \in SoundStep, ~Raises(d, s)
    PROVE  /\ s.call \notin Loggers => Done(d, s).events = d.events
           /\ s.call = "create_inspection" =>
                  Done(d, s).events = d.events \cup {<<"inspection", Len(d.inspections) + 1>>}
           /\ s.call = "add_defect" =>
                  Done(d, s).events = d.events \cup {<<"defects of", Len(d.inspections)>>}
           /\ s.call = "create_package" =>
                  Done(d, s).events = d.events \cup {<<"package", Len(d.packages) + 1>>}
           /\ s.call = "create_shipment" =>
                  Done(d, s).events = d.events \cup {<<"shipment", Len(d.shipments) + 1>>}
           /\ s.call = "issue_material" =>
                  Done(d, s).events = d.events \cup {<<"issue", Len(d.issues) + 1>>}
           /\ s.call = "log_order" => Done(d, s).events = d.events \cup {<<"order", Len(d.orders)>>}
           /\ s.call = "log_production" =>
                  Done(d, s).events = d.events \cup {<<"production order", Len(d.pos)>>}
  <1> USE DEF Tables, Loggers, NextNumber, Logged
  <1>1. CASE s.call = "create_order"
    BY <1>1 DEF Done, CreateOrder
  <1>2. CASE s.call = "add_item"
    BY <1>2 DEF Done, AddItem
  <1>3. CASE s.call = "create_production_order"
    BY <1>3 DEF Done, CreateProductionOrder
  <1>4. CASE s.call = "add_production_order_item"
    BY <1>4 DEF Done, AddProductionOrderItem
  <1>5. CASE s.call = "create_operations"
    BY <1>5 DEF Done, CreateOperations
  <1>6. CASE s.call = "create_requirements"
    BY <1>6 DEF Done, CreateRequirements
  <1>7. CASE s.call = "run_operations"
    BY <1>7 DEF Done, RunOperations
  <1>8. CASE s.call = "create_inspection"
    BY <1>8 DEF Done, CreateInspection
  <1>9. CASE s.call = "add_defect"
    BY <1>9 DEF Done, AddDefect
  <1>10. CASE s.call = "create_package"
    BY <1>10 DEF Done, CreatePackage
  <1>11. CASE s.call = "create_shipment"
    BY <1>11 DEF Done, CreateShipment
  <1>12. CASE s.call = "issue_material"
    BY <1>12 DEF Done, IssueMaterial
  <1>13. CASE s.call = "log_order"
    BY <1>13 DEF Done
  <1>14. CASE s.call = "log_production"
    BY <1>14 DEF Done
  <1>15. s.call # "add_issue_item" /\ s.call \in Calls
    BY DEF Raises, SoundStep, Step
  <1> QED BY <1>1, <1>2, <1>3, <1>4, <1>5, <1>6, <1>7, <1>8, <1>9, <1>10, <1>11,
             <1>12, <1>13, <1>14, <1>15 DEF Calls

----------------------------------------------------------------------------
(* The calls that are still to come.                                         *)

\* The rest of a list of calls.
LEMMA Rest ==
    ASSUME NEW todo \in Seq(SoundStep), todo # <<>>
    PROVE  /\ Len(todo) \in Nat /\ DOMAIN todo = 1..Len(todo)
           /\ 1 \in DOMAIN todo /\ todo[1] = Head(todo) /\ Head(todo) \in SoundStep
           /\ Tail(todo) \in Seq(SoundStep) /\ Len(Tail(todo)) = Len(todo) - 1
           /\ DOMAIN Tail(todo) = 1..(Len(todo) - 1)
           /\ \A j \in DOMAIN Tail(todo) : j + 1 \in DOMAIN todo /\ Tail(todo)[j] = todo[j + 1]
           /\ \A j \in DOMAIN todo :
                j = 1 \/ (j - 1 \in DOMAIN Tail(todo) /\ Tail(todo)[j - 1] = todo[j])
  <1>1. Len(todo) \in Nat /\ DOMAIN todo = 1..Len(todo) /\ Len(todo) # 0
    BY LenProperties, EmptySeq
  <1>2. /\ Head(todo) \in SoundStep /\ Tail(todo) \in Seq(SoundStep)
        /\ Len(Tail(todo)) = Len(todo) - 1
        /\ \A j \in 1..Len(Tail(todo)) : Tail(todo)[j] = todo[j + 1]
    BY HeadTailProperties
  <1>3. DOMAIN Tail(todo) = 1..(Len(todo) - 1)
    BY <1>2, LenProperties
  <1>4. todo[1] = Head(todo)
    OBVIOUS
  <1> QED BY <1>1, <1>2, <1>3, <1>4

LEMMA PendingRest ==
    ASSUME NEW todo \in Seq(SoundStep), todo # <<>>, NEW call
    PROVE  Pending(todo, call) <=> Head(todo).call = call \/ Pending(Tail(todo), call)
  <1> USE Rest
  <1>1. ASSUME Pending(todo, call)
        PROVE  Head(todo).call = call \/ Pending(Tail(todo), call)
    <2>1. PICK j \in DOMAIN todo : todo[j].call = call
      BY <1>1 DEF Pending
    <2>2. j = 1 \/ (j - 1 \in DOMAIN Tail(todo) /\ Tail(todo)[j - 1].call = call)
      BY <2>1
    <2> QED BY <2>1, <2>2 DEF Pending
  <1>2. ASSUME Pending(Tail(todo), call)
        PROVE  Pending(todo, call)
    <2>1. PICK j \in DOMAIN Tail(todo) : Tail(todo)[j].call = call
      BY <1>2 DEF Pending
    <2>2. j + 1 \in DOMAIN todo /\ todo[j + 1].call = call
      BY <2>1
    <2> QED BY <2>2 DEF Pending
  <1>3. Head(todo).call = call => Pending(todo, call)
    BY DEF Pending
  <1> QED BY <1>1, <1>2, <1>3

LEMMA PairedRest ==
    ASSUME NEW todo \in Seq(SoundStep), todo # <<>>, NEW create, NEW log, create # log,
           Paired(todo, create, log)
    PROVE  /\ Paired(Tail(todo), create, log)
           /\ Head(todo).call = create => ~Pending(Tail(todo), create) /\ Pending(Tail(todo), log)
           /\ Head(todo).call = log => ~Pending(Tail(todo), log) /\ ~Pending(todo, create)
  <1> DEFINE rest == Tail(todo)
  <1> USE Rest
  <1>1. \A j, k \in DOMAIN rest : rest[j].call = log /\ rest[k].call = log => j = k
    <2> SUFFICES ASSUME NEW j \in DOMAIN rest, NEW k \in DOMAIN rest,
                        rest[j].call = log, rest[k].call = log
                 PROVE  j = k
      OBVIOUS
    <2>1. j + 1 = k + 1
      BY DEF Paired
    <2> QED BY <2>1
  <1>2. \A j, k \in DOMAIN rest : rest[j].call = create /\ rest[k].call = create => j = k
    <2> SUFFICES ASSUME NEW j \in DOMAIN rest, NEW k \in DOMAIN rest,
                        rest[j].call = create, rest[k].call = create
                 PROVE  j = k
      OBVIOUS
    <2>1. j + 1 = k + 1
      BY DEF Paired
    <2> QED BY <2>1
  <1>3. ASSUME NEW j \in DOMAIN rest, rest[j].call = create
        PROVE  \E k \in DOMAIN rest : j < k /\ rest[k].call = log
    <2>1. PICK k \in DOMAIN todo : j + 1 < k /\ todo[k].call = log
      BY <1>3 DEF Paired
    <2>2. k - 1 \in DOMAIN rest /\ j < k - 1 /\ rest[k - 1].call = log
      BY <2>1
    <2> QED BY <2>2
  <1>4. ASSUME Head(todo).call = create
        PROVE  ~Pending(rest, create) /\ Pending(rest, log)
    <2>1. PICK k \in DOMAIN todo : 1 < k /\ todo[k].call = log
      BY <1>4 DEF Paired
    <2>2. k - 1 \in DOMAIN rest /\ rest[k - 1].call = log
      BY <2>1
    <2>3. \A j \in DOMAIN rest : rest[j].call # create
      BY <1>4 DEF Paired
    <2> QED BY <2>2, <2>3 DEF Pending
  <1>5. ASSUME Head(todo).call = log
        PROVE  ~Pending(rest, log) /\ ~Pending(todo, create)
    <2>1. \A j \in DOMAIN rest : rest[j].call # log
      BY <1>5 DEF Paired
    <2>2. \A j \in DOMAIN todo : todo[j].call # create
      <3> SUFFICES ASSUME NEW j \in DOMAIN todo, todo[j].call = create PROVE FALSE
        OBVIOUS
      <3>1. PICK k \in DOMAIN todo : j < k /\ todo[k].call = log
        BY DEF Paired
      <3>2. k = 1
        BY <1>5, <3>1 DEF Paired
      <3> QED BY <3>1, <3>2
    <2> QED BY <2>1, <2>2 DEF Pending
  <1> HIDE DEF rest
  <1>6. Paired(rest, create, log)
    BY <1>1, <1>2, <1>3 DEF Paired
  <1> QED BY <1>4, <1>5, <1>6 DEF rest

LEMMA OwnRest ==
    ASSUME NEW todo \in Seq(SoundStep), todo # <<>>, NEW users, NEW maker,
           NEW made \in BOOLEAN, OwnRow(todo, users, maker, made)
    PROVE  /\ OwnRow(Tail(todo), users, maker, made \/ Head(todo).call = maker)
           /\ Head(todo).call \in users => made
  <1> DEFINE rest == Tail(todo)
  <1> USE Rest
  <1>1. ASSUME NEW j \in DOMAIN rest, rest[j].call \in users
        PROVE  \/ made \/ Head(todo).call = maker
               \/ \E m \in DOMAIN rest : m < j /\ rest[m].call = maker
    <2>1. j + 1 \in DOMAIN todo /\ todo[j + 1].call \in users
      BY <1>1
    <2>2. CASE made
      BY <2>2
    <2>3. CASE ~made
      <3>1. PICK m \in DOMAIN todo : m < j + 1 /\ todo[m].call = maker
        BY <2>1, <2>3 DEF OwnRow
      <3>2. m = 1 \/ (m - 1 \in DOMAIN rest /\ m - 1 < j /\ rest[m - 1].call = maker)
        BY <3>1
      <3> QED BY <3>1, <3>2
    <2> QED BY <2>2, <2>3
  <1>2. Head(todo).call \in users => made
    BY DEF OwnRow
  <1> QED BY <1>1, <1>2 DEF OwnRow

\* An order is created first and logged last, with its items in between.
CreatedThenLogged(todo, k) ==
    /\ DOMAIN todo = 1..(k + 2)
    /\ todo[1].call = "create_order"
    /\ todo[k + 2].call = "log_order"
    /\ \A j \in 2..(k + 1) : todo[j].call = "add_item"

LEMMA OrderCalls ==
    ASSUME NEW n \in Nat, NEW p \in Products, NEW k \in Nat
    PROVE  CreatedThenLogged(OrderSteps(n, p, k), k)
  <1> DEFINE first == <<Do("create_order", 0, n)>>
             lines == Times(k, Do("add_item", 0, p))
             log   == <<Do("log_order", 0, 0)>>
  <1>1. p \in Nat
    BY DocumentsAssumption
  <1>2. /\ Do("create_order", 0, n) \in SoundStep /\ Do("log_order", 0, 0) \in SoundStep
        /\ Do("add_item", 0, p) \in SoundStep
    BY <1>1, StepIsSound DEF Calls, NeedsProduct
  <1>3. first \in Seq(SoundStep) /\ Len(first) = 1 /\ log \in Seq(SoundStep) /\ Len(log) = 1
    BY <1>2
  <1>4. first[1].call = "create_order" /\ log[1].call = "log_order"
    BY DEF Do
  <1>5. /\ lines \in Seq(SoundStep) /\ Len(lines) = k
        /\ \A j \in 1..k : lines[j].call = "add_item"
    BY <1>2, TimesIsSound, LenProperties DEF Times, Do
  <1> HIDE DEF first, lines, log
  <1>6. /\ first \o lines \in Seq(SoundStep) /\ Len(first \o lines) = k + 1
        /\ \A j \in 1..(k + 1) : (first \o lines)[j] = IF j <= 1 THEN first[j] ELSE lines[j - 1]
    <2>1. /\ first \o lines \in Seq(SoundStep)
          /\ Len(first \o lines) = Len(first) + Len(lines)
          /\ \A j \in 1..(Len(first) + Len(lines)) : (first \o lines)[j] =
                IF j <= Len(first) THEN first[j] ELSE lines[j - Len(first)]
      BY <1>3, <1>5, ConcatProperties
    <2> QED BY <1>3, <1>5, <2>1
  <1>7. /\ (first \o lines) \o log \in Seq(SoundStep) /\ Len((first \o lines) \o log) = k + 2
        /\ \A j \in 1..(k + 2) : ((first \o lines) \o log)[j] =
              IF j <= k + 1 THEN (first \o lines)[j] ELSE log[j - (k + 1)]
    <2> DEFINE most == first \o lines
    <2> HIDE DEF most
    <2>1. /\ most \o log \in Seq(SoundStep) /\ Len(most \o log) = Len(most) + Len(log)
          /\ \A j \in 1..(Len(most) + Len(log)) : (most \o log)[j] =
                IF j <= Len(most) THEN most[j] ELSE log[j - Len(most)]
      BY <1>3, <1>6, ConcatProperties DEF most
    <2> QED BY <1>3, <1>6, <2>1 DEF most
  <1>8. OrderSteps(n, p, k) = (first \o lines) \o log
    BY DEF OrderSteps, first, lines, log
  <1>9. DOMAIN OrderSteps(n, p, k) = 1..(k + 2)
    BY <1>7, <1>8, LenProperties
  <1>10. ASSUME NEW j \in 1..(k + 2)
         PROVE  OrderSteps(n, p, k)[j].call = IF j = 1 THEN "create_order"
                                              ELSE IF j = k + 2 THEN "log_order" ELSE "add_item"
    BY <1>4, <1>5, <1>6, <1>7, <1>8
  <1>11. /\ 1 \in 1..(k + 2) /\ k + 2 \in 1..(k + 2) /\ k + 2 # 1
         /\ \A j \in 2..(k + 1) : j \in 1..(k + 2) /\ j # 1 /\ j # k + 2
    OBVIOUS
  <1> QED BY <1>9, <1>10, <1>11 DEF CreatedThenLogged

FirstThen(a, k, b) == <<a>> \o Times(k, b)

\* A first call and others that neither make nor log an order.
LEMMA FirstAndLines ==
    ASSUME NEW a \in SoundStep, NEW b \in SoundStep, NEW k \in Nat
    PROVE  \A j \in DOMAIN FirstThen(a, k, b) :
             FirstThen(a, k, b)[j] = a \/ FirstThen(a, k, b)[j] = b
  <1> DEFINE first == <<a>>
             lines == Times(k, b)
  <1>1. first \in Seq(SoundStep) /\ Len(first) = 1 /\ first[1] = a
    OBVIOUS
  <1>2. lines \in Seq(SoundStep) /\ Len(lines) = k /\ \A j \in 1..k : lines[j] = b
    BY TimesIsSound, LenProperties DEF Times
  <1> HIDE DEF first, lines
  <1>3. /\ first \o lines \in Seq(SoundStep) /\ Len(first \o lines) = k + 1
        /\ \A j \in 1..(k + 1) : (first \o lines)[j] = IF j <= 1 THEN first[j] ELSE lines[j - 1]
    <2>1. /\ first \o lines \in Seq(SoundStep)
          /\ Len(first \o lines) = Len(first) + Len(lines)
          /\ \A j \in 1..(Len(first) + Len(lines)) : (first \o lines)[j] =
                IF j <= Len(first) THEN first[j] ELSE lines[j - Len(first)]
      BY <1>1, <1>2, ConcatProperties
    <2> QED BY <1>1, <1>2, <2>1
  <1>4. DOMAIN (first \o lines) = 1..(k + 1)
    BY <1>3, LenProperties
  <1>5. \A j \in 1..(k + 1) : (first \o lines)[j] = IF j = 1 THEN a ELSE b
    BY <1>1, <1>2, <1>3
  <1>6. FirstThen(a, k, b) = first \o lines
    BY DEF FirstThen, first, lines
  <1> QED BY <1>4, <1>5, <1>6

\* The lists of calls that the views make: creations come before their logs, and
\* what changes a last row comes after what makes one.
WellOrdered(todo) ==
    /\ Paired(todo, "create_order", "log_order")
    /\ Paired(todo, "create_production_order", "log_production")
    /\ Pending(todo, "log_order") => Pending(todo, "create_order")
    /\ Pending(todo, "log_production") => Pending(todo, "create_production_order")
    /\ OwnRow(todo, {"create_requirements"}, "add_item", FALSE)
    /\ OwnRow(todo, {"create_operations", "run_operations"}, "add_production_order_item", FALSE)

LEMMA OrderStepsAreOrdered ==
    ASSUME NEW n \in Nat, NEW p \in Products, NEW k \in Nat
    PROVE  WellOrdered(OrderSteps(n, p, k))
  <1> DEFINE todo == OrderSteps(n, p, k)
  <1>0. CreatedThenLogged(todo, k)
    BY OrderCalls
  <1> HIDE DEF todo
  <1>1. /\ DOMAIN todo = 1..(k + 2)
        /\ \A j \in 1..(k + 2) : todo[j].call = IF j = 1 THEN "create_order"
                                     ELSE IF j = k + 2 THEN "log_order" ELSE "add_item"
    <2>1. \A j \in 1..(k + 2) : j = 1 \/ j = k + 2 \/ j \in 2..(k + 1)
      OBVIOUS
    <2> QED BY <1>0, <2>1 DEF CreatedThenLogged
  <1>2. 1 \in DOMAIN todo /\ k + 2 \in DOMAIN todo /\ 1 < k + 2
    BY <1>1
  <1>3. Paired(todo, "create_order", "log_order")
    BY <1>1, <1>2 DEF Paired
  <1>4. Paired(todo, "create_production_order", "log_production")
    BY <1>1 DEF Paired
  <1>5. Pending(todo, "create_order") /\ ~Pending(todo, "log_production")
    BY <1>1, <1>2 DEF Pending
  <1>6. /\ OwnRow(todo, {"create_requirements"}, "add_item", FALSE)
        /\ OwnRow(todo, {"create_operations", "run_operations"}, "add_production_order_item", FALSE)
    BY <1>1 DEF OwnRow
  <1> QED BY <1>3, <1>4, <1>5, <1>6 DEF WellOrdered, todo

LEMMA ProductionStepsAreOrdered ==
    ASSUME NEW o \in Nat, NEW i \in Nat, NEW p \in Products
    PROVE  WellOrdered(ProductionSteps(o, i, p))
  <1> DEFINE todo == ProductionSteps(o, i, p)
  <1>1. /\ DOMAIN todo = 1..4
        /\ todo[1].call = "create_production_order" /\ todo[2].call = "add_production_order_item"
        /\ todo[3].call = "create_operations" /\ todo[4].call = "log_production"
    BY DEF ProductionSteps, Do
  <1> HIDE DEF todo
  <1>2. DOMAIN todo = {1, 2, 3, 4}
    BY <1>1
  <1>3. Paired(todo, "create_order", "log_order")
    BY <1>1, <1>2 DEF Paired
  <1>4. Paired(todo, "create_production_order", "log_production")
    BY <1>1, <1>2 DEF Paired
  <1>5. ~Pending(todo, "log_order") /\ Pending(todo, "create_production_order")
    BY <1>1, <1>2 DEF Pending
  <1>6. /\ OwnRow(todo, {"create_requirements"}, "add_item", FALSE)
        /\ OwnRow(todo, {"create_operations", "run_operations"}, "add_production_order_item", FALSE)
    BY <1>1, <1>2 DEF OwnRow
  <1> QED BY <1>3, <1>4, <1>5, <1>6 DEF WellOrdered, todo

\* A list with nothing of the calls that are paired or that change a last row.
LEMMA OthersAreOrdered ==
    ASSUME NEW todo,
           \A j \in DOMAIN todo : todo[j].call \in
               {"create_inspection", "add_defect", "create_shipment", "issue_material",
                "add_issue_item"}
    PROVE  WellOrdered(todo)
  BY DEF WellOrdered, Paired, Pending, OwnRow

LEMMA IssueStepsAreOrdered ==
    ASSUME NEW key \in Nat, NEW k \in Nat
    PROVE  WellOrdered(IssueSteps(key, k))
  <1> DEFINE a == Do("issue_material", 0, key)
             b == Do("add_issue_item", 0, 0)
  <1>1. a \in SoundStep /\ b \in SoundStep
    BY StepIsSound DEF Calls, NeedsProduct
  <1>2. a.call = "issue_material" /\ b.call = "add_issue_item"
    BY DEF Do
  <1> DEFINE todo == IssueSteps(key, k)
  <1>3. todo = FirstThen(a, k, b)
    BY DEF IssueSteps, FirstThen
  <1> HIDE DEF a, b, todo
  <1>4. \A j \in DOMAIN todo : todo[j] = a \/ todo[j] = b
    BY <1>1, <1>3, FirstAndLines
  <1>5. WellOrdered(todo)
    BY <1>2, <1>4, OthersAreOrdered
  <1> QED BY <1>5 DEF todo

LEMMA InspectionStepsAreOrdered ==
    ASSUME NEW po \in Nat, NEW k \in Nat
    PROVE  WellOrdered(InspectionSteps(po, k))
  <1> DEFINE a == Do("create_inspection", po, 0)
             b == Do("add_defect", 0, 0)
  <1>1. a \in SoundStep /\ b \in SoundStep
    BY StepIsSound DEF Calls, NeedsProduct
  <1>2. a.call = "create_inspection" /\ b.call = "add_defect"
    BY DEF Do
  <1> DEFINE todo == InspectionSteps(po, k)
  <1>3. todo = FirstThen(a, k, b)
    BY DEF InspectionSteps, FirstThen
  <1> HIDE DEF a, b, todo
  <1>4. \A j \in DOMAIN todo : todo[j] = a \/ todo[j] = b
    BY <1>1, <1>3, FirstAndLines
  <1>5. WellOrdered(todo)
    BY <1>2, <1>4, OthersAreOrdered
  <1> QED BY <1>5 DEF todo

LEMMA ShipmentStepsAreOrdered ==
    ASSUME NEW o \in Nat, NEW n \in Nat
    PROVE  WellOrdered(ShipmentSteps(o, n))
  <1>1. DOMAIN ShipmentSteps(o, n) = {1} /\ ShipmentSteps(o, n)[1].call = "create_shipment"
    BY DEF ShipmentSteps, Do
  <1> QED BY <1>1, OthersAreOrdered

LEMMA WorkflowCalls ==
    ASSUME NEW p \in Products
    PROVE  /\ DOMAIN WorkflowSteps(p) = 1..12 /\ Len(WorkflowSteps(p)) = 12
           /\ WorkflowSteps(p)[1] = Do("create_order", 0, 0)
           /\ WorkflowSteps(p)[2] = Do("add_item", 0, p)
           /\ WorkflowSteps(p)[3] = Do("log_order", 0, 0)
           /\ WorkflowSteps(p)[4] = Do("create_production_order", 0, 0)
           /\ WorkflowSteps(p)[5] = Do("add_production_order_item", 0, p)
           /\ WorkflowSteps(p)[6] = Do("create_operations", 0, p)
           /\ WorkflowSteps(p)[7] = Do("log_production", 0, 0)
           /\ WorkflowSteps(p)[8] = Do("create_requirements", 0, p)
           /\ WorkflowSteps(p)[9] = Do("run_operations", 0, 0)
           /\ WorkflowSteps(p)[10] = Do("create_inspection", 0, 0)
           /\ WorkflowSteps(p)[11] = Do("create_package", 0, 0)
           /\ WorkflowSteps(p)[12] = Do("create_shipment", 0, 0)
  BY DEF WorkflowSteps

LEMMA WorkflowStepsAreOrdered ==
    ASSUME NEW p \in Products
    PROVE  WellOrdered(WorkflowSteps(p))
  <1> DEFINE todo == WorkflowSteps(p)
  <1>1. /\ DOMAIN todo = 1..12
        /\ todo[1].call = "create_order" /\ todo[2].call = "add_item"
        /\ todo[3].call = "log_order" /\ todo[4].call = "create_production_order"
        /\ todo[5].call = "add_production_order_item" /\ todo[6].call = "create_operations"
        /\ todo[7].call = "log_production" /\ todo[8].call = "create_requirements"
        /\ todo[9].call = "run_operations" /\ todo[10].call = "create_inspection"
        /\ todo[11].call = "create_package" /\ todo[12].call = "create_shipment"
    BY DEF WorkflowSteps, Do
  <1> HIDE DEF todo
  <1>2. DOMAIN todo = {1, 2, 3, 4, 5, 6, 7, 8, 9, 10, 11, 12}
    BY <1>1
  <1>3. Paired(todo, "create_order", "log_order")
    BY <1>1, <1>2 DEF Paired
  <1>4. Paired(todo, "create_production_order", "log_production")
    BY <1>1, <1>2 DEF Paired
  <1>5. Pending(todo, "create_order") /\ Pending(todo, "create_production_order")
    BY <1>1, <1>2 DEF Pending
  <1>6. /\ OwnRow(todo, {"create_requirements"}, "add_item", FALSE)
        /\ OwnRow(todo, {"create_operations", "run_operations"}, "add_production_order_item", FALSE)
    BY <1>1, <1>2 DEF OwnRow
  <1> QED BY <1>3, <1>4, <1>5, <1>6 DEF WellOrdered, todo

----------------------------------------------------------------------------
(* Events and documents.                                                     *)

LEMMA NamedAdded ==
    ASSUME NEW old, NEW n, NEW id
    PROVE  \A x : x \in Named(old \cup {<<n, id>>}, n) <=> x \in Named(old, n) \/ x = id
  <1> DEFINE new == old \cup {<<n, id>>}
  <1>1. \A x : x \in Named(new, n) <=> \E y \in {y \in new : y[1] = n} : x = y[2]
    BY DEF Named
  <1>2. \A x : x \in Named(old, n) <=> \E y \in {y \in old : y[1] = n} : x = y[2]
    BY DEF Named
  <1>3. <<n, id>>[1] = n /\ <<n, id>>[2] = id
    OBVIOUS
  <1>4. ASSUME NEW x, x \in Named(new, n)
        PROVE  x \in Named(old, n) \/ x = id
    <2>1. PICK y \in new : y[1] = n /\ x = y[2]
      BY <1>1, <1>4
    <2>2. y = <<n, id>> \/ y \in old
      BY <2>1
    <2> QED BY <1>2, <1>3, <2>1, <2>2
  <1>5. ASSUME NEW x, x \in Named(old, n) \/ x = id
        PROVE  x \in Named(new, n)
    <2>1. CASE x \in Named(old, n)
      <3>1. PICK y \in old : y[1] = n /\ x = y[2]
        BY <1>2, <2>1
      <3> QED BY <1>1, <3>1
    <2>2. CASE x = id
      <3>1. <<n, id>> \in new
        OBVIOUS
      <3> QED BY <1>1, <1>3, <2>2, <3>1
    <2> QED BY <1>5, <2>1, <2>2
  <1> QED BY <1>4, <1>5

LEMMA OthersNamed ==
    ASSUME NEW old, NEW n, NEW id, NEW name, name # n
    PROVE  \A x : x \in Named(old \cup {<<n, id>>}, name) <=> x \in Named(old, name)
  <1>1. {x \in old \cup {<<n, id>>} : x[1] = name} = {x \in old : x[1] = name}
    OBVIOUS
  <1> QED BY <1>1 DEF Named

\* How many rows a call adds.
LEMMA DoneGrows ==
    ASSUME NEW d \in Tables, NEW s \in SoundStep, ~Raises(d, s), Done(d, s) \in Tables
    PROVE  /\ IF s.call = "create_order" THEN Len(Done(d, s).orders) = Len(d.orders) + 1
                 ELSE Len(Done(d, s).orders) = Len(d.orders)
           /\ IF s.call = "add_item" THEN Len(Done(d, s).items) = Len(d.items) + 1
                 ELSE Len(Done(d, s).items) = Len(d.items)
           /\ IF s.call = "create_production_order" THEN Len(Done(d, s).pos) = Len(d.pos) + 1
                 ELSE Len(Done(d, s).pos) = Len(d.pos)
           /\ IF s.call = "add_production_order_item" THEN Len(Done(d, s).poItems) = Len(d.poItems) + 1
                 ELSE Len(Done(d, s).poItems) = Len(d.poItems)
           /\ IF s.call = "create_inspection" THEN Len(Done(d, s).inspections) = Len(d.inspections) + 1
                 ELSE Len(Done(d, s).inspections) = Len(d.inspections)
           /\ IF s.call = "create_package" THEN Len(Done(d, s).packages) = Len(d.packages) + 1
                 ELSE Len(Done(d, s).packages) = Len(d.packages)
           /\ IF s.call = "create_shipment" THEN Len(Done(d, s).shipments) = Len(d.shipments) + 1
                 ELSE Len(Done(d, s).shipments) = Len(d.shipments)
           /\ IF s.call = "issue_material" THEN Len(Done(d, s).issues) = Len(d.issues) + 1
                 ELSE Len(Done(d, s).issues) = Len(d.issues)
  <1>1. IF s.call = "create_order" THEN Len(Done(d, s).orders) = Len(d.orders) + 1
           ELSE Len(Done(d, s).orders) = Len(d.orders)
    <2>1. Done(d, s).orders = IF s.call = "create_order" THEN Append(d.orders, [number |->
              s.arg]) ELSE d.orders
      BY DoneIs
    <2>2. d.orders \in Seq(OrderRow)
      BY TablesAre
    <2> QED BY <2>1, <2>2, Longer, SameLength
  <1>2. IF s.call = "add_item" THEN Len(Done(d, s).items) = Len(d.items) + 1
           ELSE Len(Done(d, s).items) = Len(d.items)
    <2>1. Done(d, s).items = IF s.call = "add_item" THEN Append(d.items, [order |->
              Len(d.orders), product |-> s.arg, needs |-> 0]) ELSE IF s.call =
              "create_requirements" THEN [d.items EXCEPT ![Len(d.items)].needs = Rules[s.arg]]
              ELSE d.items
      BY DoneIs
    <2>2. d.items \in Seq(ItemRow)
      BY TablesAre
    <2> QED BY <2>1, <2>2, Longer, SameLength
  <1>3. IF s.call = "create_production_order" THEN Len(Done(d, s).pos) = Len(d.pos) + 1
           ELSE Len(Done(d, s).pos) = Len(d.pos)
    <2>1. Done(d, s).pos = IF s.call = "create_production_order" THEN Append(d.pos, [order
              |-> Target(d.orders, s.of), number |-> Len(d.pos) + 1]) ELSE d.pos
      BY DoneIs
    <2>2. d.pos \in Seq(ProductionRow)
      BY TablesAre
    <2> QED BY <2>1, <2>2, Longer, SameLength
  <1>4. IF s.call = "add_production_order_item" THEN Len(Done(d, s).poItems) = Len(d.poItems) + 1
           ELSE Len(Done(d, s).poItems) = Len(d.poItems)
    <2>1. Done(d, s).poItems = IF s.call = "add_production_order_item" THEN
              Append(d.poItems, [po |-> Len(d.pos), item |-> Target(d.items, s.of), rules |->
              Rules[s.arg], operations |-> 0, done |-> 0]) ELSE IF s.call =
              "create_operations" THEN [d.poItems EXCEPT ![Len(d.poItems)].operations =
              Operations[s.arg]] ELSE IF s.call = "run_operations" THEN [d.poItems EXCEPT
              ![Len(d.poItems)].done = d.poItems[Len(d.poItems)].operations] ELSE d.poItems
      BY DoneIs
    <2>2. d.poItems \in Seq(PlannedItemRow)
      BY TablesAre
    <2> QED BY <2>1, <2>2, Longer, SameLength
  <1>5. IF s.call = "create_inspection" THEN Len(Done(d, s).inspections) = Len(d.inspections) + 1
           ELSE Len(Done(d, s).inspections) = Len(d.inspections)
    <2>1. Done(d, s).inspections = IF s.call = "create_inspection" THEN
              Append(d.inspections, [po |-> Target(d.pos, s.of), day |-> day, number |->
              NextInspection(d, Target(d.pos, s.of)), defects |-> 0]) ELSE IF s.call =
              "add_defect" THEN [d.inspections EXCEPT ![Len(d.inspections)].defects = @ + 1]
              ELSE d.inspections
      BY DoneIs
    <2>2. d.inspections \in Seq(InspectionRow)
      BY TablesAre
    <2> QED BY <2>1, <2>2, Longer, SameLength
  <1>6. IF s.call = "create_package" THEN Len(Done(d, s).packages) = Len(d.packages) + 1
           ELSE Len(Done(d, s).packages) = Len(d.packages)
    <2>1. Done(d, s).packages = IF s.call = "create_package" THEN Append(d.packages, [item
              |-> Target(d.items, s.of), number |-> Len(d.packages) + 1, status |-> "packed"])
              ELSE d.packages
      BY DoneIs
    <2>2. d.packages \in Seq(PackageRow)
      BY TablesAre
    <2> QED BY <2>1, <2>2, Longer, SameLength
  <1>7. IF s.call = "create_shipment" THEN Len(Done(d, s).shipments) = Len(d.shipments) + 1
           ELSE Len(Done(d, s).shipments) = Len(d.shipments)
    <2>1. Done(d, s).shipments = IF s.call = "create_shipment" THEN Append(d.shipments,
              [order |-> Target(d.orders, s.of), given |-> s.arg # 0, status |-> "ready",
              number |-> IF s.arg # 0 THEN s.arg ELSE Len(d.shipments) + 1]) ELSE d.shipments
      BY DoneIs
    <2>2. d.shipments \in Seq(ShipmentRow)
      BY TablesAre
    <2> QED BY <2>1, <2>2, Longer, SameLength
  <1>8. IF s.call = "issue_material" THEN Len(Done(d, s).issues) = Len(d.issues) + 1
           ELSE Len(Done(d, s).issues) = Len(d.issues)
    <2>1. Done(d, s).issues = IF s.call = "issue_material" THEN Append(d.issues, [number
              |-> Len(d.issues) + 1, key |-> s.arg]) ELSE d.issues
      BY DoneIs
    <2>2. d.issues \in Seq(IssueRow)
      BY TablesAre
    <2> QED BY <2>1, <2>2, Longer, SameLength
  <1> QED BY <1>1, <1>2, <1>3, <1>4, <1>5, <1>6, <1>7, <1>8

\* Which events a call adds.
LEMMA DoneLogs ==
    ASSUME NEW d \in Tables, NEW s \in SoundStep, ~Raises(d, s), NEW E, E = Done(d, s).events
    PROVE  /\ IF s.call = "log_order"
                 THEN Named(E, "order") = Named(d.events, "order") \cup {Len(d.orders)}
              ELSE Named(E, "order") = Named(d.events, "order")
           /\ IF s.call = "log_production"
                 THEN Named(E, "production order") = Named(d.events, "production order") \cup {Len(d.pos)}
              ELSE Named(E, "production order") = Named(d.events, "production order")
           /\ IF s.call = "create_inspection"
                 THEN Named(E, "inspection") = Named(d.events, "inspection") \cup {Len(d.inspections) + 1}
              ELSE Named(E, "inspection") = Named(d.events, "inspection")
           /\ IF s.call = "create_package"
                 THEN Named(E, "package") = Named(d.events, "package") \cup {Len(d.packages) + 1}
              ELSE Named(E, "package") = Named(d.events, "package")
           /\ IF s.call = "create_shipment"
                 THEN Named(E, "shipment") = Named(d.events, "shipment") \cup {Len(d.shipments) + 1}
              ELSE Named(E, "shipment") = Named(d.events, "shipment")
           /\ IF s.call = "issue_material"
                 THEN Named(E, "issue") = Named(d.events, "issue") \cup {Len(d.issues) + 1}
              ELSE Named(E, "issue") = Named(d.events, "issue")
  <1>0. CASE s.call \notin Loggers
    <2>1. E = d.events
      BY <1>0, DoneEvents
    <2> QED BY <1>0, <2>1 DEF Loggers
  <1>1. CASE s.call = "log_order"
    <2> DEFINE id == Len(d.orders)
    <2>1. E = d.events \cup {<<"order", id>>}
      BY <1>1, DoneEvents
    <2> HIDE DEF id
    <2>2. \A x : x \in Named(d.events \cup {<<"order", id>>}, "order")
                     <=> x \in Named(d.events, "order") \/ x = id
      BY NamedAdded
    <2>3. Named(E, "order") = Named(d.events, "order") \cup {id}
      BY <2>1, <2>2
    <2>4. ASSUME NEW name, name # "order"
          PROVE  Named(E, name) = Named(d.events, name)
      <3>1. \A x : x \in Named(d.events \cup {<<"order", id>>}, name) <=> x \in Named(d.events, name)
        BY <2>4, OthersNamed
      <3> QED BY <2>1, <3>1
    <2> QED BY <1>1, <2>3, <2>4 DEF id
  <1>2. CASE s.call = "log_production"
    <2> DEFINE id == Len(d.pos)
    <2>1. E = d.events \cup {<<"production order", id>>}
      BY <1>2, DoneEvents
    <2> HIDE DEF id
    <2>2. \A x : x \in Named(d.events \cup {<<"production order", id>>}, "production order")
                     <=> x \in Named(d.events, "production order") \/ x = id
      BY NamedAdded
    <2>3. Named(E, "production order") = Named(d.events, "production order") \cup {id}
      BY <2>1, <2>2
    <2>4. ASSUME NEW name, name # "production order"
          PROVE  Named(E, name) = Named(d.events, name)
      <3>1. \A x : x \in Named(d.events \cup {<<"production order", id>>}, name) <=> x \in Named(d.events, name)
        BY <2>4, OthersNamed
      <3> QED BY <2>1, <3>1
    <2> QED BY <1>2, <2>3, <2>4 DEF id
  <1>3. CASE s.call = "create_inspection"
    <2> DEFINE id == Len(d.inspections) + 1
    <2>1. E = d.events \cup {<<"inspection", id>>}
      BY <1>3, DoneEvents
    <2> HIDE DEF id
    <2>2. \A x : x \in Named(d.events \cup {<<"inspection", id>>}, "inspection")
                     <=> x \in Named(d.events, "inspection") \/ x = id
      BY NamedAdded
    <2>3. Named(E, "inspection") = Named(d.events, "inspection") \cup {id}
      BY <2>1, <2>2
    <2>4. ASSUME NEW name, name # "inspection"
          PROVE  Named(E, name) = Named(d.events, name)
      <3>1. \A x : x \in Named(d.events \cup {<<"inspection", id>>}, name) <=> x \in Named(d.events, name)
        BY <2>4, OthersNamed
      <3> QED BY <2>1, <3>1
    <2> QED BY <1>3, <2>3, <2>4 DEF id
  <1>4. CASE s.call = "create_package"
    <2> DEFINE id == Len(d.packages) + 1
    <2>1. E = d.events \cup {<<"package", id>>}
      BY <1>4, DoneEvents
    <2> HIDE DEF id
    <2>2. \A x : x \in Named(d.events \cup {<<"package", id>>}, "package")
                     <=> x \in Named(d.events, "package") \/ x = id
      BY NamedAdded
    <2>3. Named(E, "package") = Named(d.events, "package") \cup {id}
      BY <2>1, <2>2
    <2>4. ASSUME NEW name, name # "package"
          PROVE  Named(E, name) = Named(d.events, name)
      <3>1. \A x : x \in Named(d.events \cup {<<"package", id>>}, name) <=> x \in Named(d.events, name)
        BY <2>4, OthersNamed
      <3> QED BY <2>1, <3>1
    <2> QED BY <1>4, <2>3, <2>4 DEF id
  <1>5. CASE s.call = "create_shipment"
    <2> DEFINE id == Len(d.shipments) + 1
    <2>1. E = d.events \cup {<<"shipment", id>>}
      BY <1>5, DoneEvents
    <2> HIDE DEF id
    <2>2. \A x : x \in Named(d.events \cup {<<"shipment", id>>}, "shipment")
                     <=> x \in Named(d.events, "shipment") \/ x = id
      BY NamedAdded
    <2>3. Named(E, "shipment") = Named(d.events, "shipment") \cup {id}
      BY <2>1, <2>2
    <2>4. ASSUME NEW name, name # "shipment"
          PROVE  Named(E, name) = Named(d.events, name)
      <3>1. \A x : x \in Named(d.events \cup {<<"shipment", id>>}, name) <=> x \in Named(d.events, name)
        BY <2>4, OthersNamed
      <3> QED BY <2>1, <3>1
    <2> QED BY <1>5, <2>3, <2>4 DEF id
  <1>6. CASE s.call = "issue_material"
    <2> DEFINE id == Len(d.issues) + 1
    <2>1. E = d.events \cup {<<"issue", id>>}
      BY <1>6, DoneEvents
    <2> HIDE DEF id
    <2>2. \A x : x \in Named(d.events \cup {<<"issue", id>>}, "issue")
                     <=> x \in Named(d.events, "issue") \/ x = id
      BY NamedAdded
    <2>3. Named(E, "issue") = Named(d.events, "issue") \cup {id}
      BY <2>1, <2>2
    <2>4. ASSUME NEW name, name # "issue"
          PROVE  Named(E, name) = Named(d.events, name)
      <3>1. \A x : x \in Named(d.events \cup {<<"issue", id>>}, name) <=> x \in Named(d.events, name)
        BY <2>4, OthersNamed
      <3> QED BY <2>1, <3>1
    <2> QED BY <1>6, <2>3, <2>4 DEF id
  <1>7. CASE s.call = "add_defect"
    <2> DEFINE id == Len(d.inspections)
    <2>1. E = d.events \cup {<<"defects of", id>>}
      BY <1>7, DoneEvents
    <2> HIDE DEF id
    <2>2. \A x : x \in Named(d.events \cup {<<"defects of", id>>}, "defects of")
                     <=> x \in Named(d.events, "defects of") \/ x = id
      BY NamedAdded
    <2>3. Named(E, "defects of") = Named(d.events, "defects of") \cup {id}
      BY <2>1, <2>2
    <2>4. ASSUME NEW name, name # "defects of"
          PROVE  Named(E, name) = Named(d.events, name)
      <3>1. \A x : x \in Named(d.events \cup {<<"defects of", id>>}, name) <=> x \in Named(d.events, name)
        BY <2>4, OthersNamed
      <3> QED BY <2>1, <3>1
    <2> QED BY <1>7, <2>3, <2>4 DEF id
  <1> QED BY <1>0, <1>1, <1>2, <1>3, <1>4, <1>5, <1>6, <1>7 DEF Loggers

\* The domains of the tables that have events.
LEMMA Domains ==
    ASSUME NEW d \in Tables
    PROVE  /\ DOMAIN d.orders = 1..Len(d.orders) /\ DOMAIN d.items = 1..Len(d.items)
           /\ DOMAIN d.pos = 1..Len(d.pos) /\ DOMAIN d.poItems = 1..Len(d.poItems)
           /\ DOMAIN d.inspections = 1..Len(d.inspections)
           /\ DOMAIN d.packages = 1..Len(d.packages)
           /\ DOMAIN d.shipments = 1..Len(d.shipments)
           /\ DOMAIN d.issues = 1..Len(d.issues)
  BY TablesAre, LenProperties

LEMMA OneMore == ASSUME NEW n \in Nat PROVE 1..(n + 1) = (1..n) \cup {n + 1}
  OBVIOUS

\* A call keeps the events of a table that is logged in a later call.
LEMMA LaterLogKept ==
    ASSUME NEW todo \in Seq(SoundStep), todo # <<>>, NEW create, NEW log, create # log,
           Paired(todo, create, log), NEW d, NEW e, NEW name,
           NEW t, NEW u, NEW len \in Nat, NEW grown \in Nat,
           Len(t) = len, DOMAIN t = 1..len, Len(u) = grown, DOMAIN u = 1..grown,
           IF Head(todo).call = create THEN grown = len + 1 ELSE grown = len,
           IF Head(todo).call = log THEN Named(e.events, name) = Named(d.events, name) \cup {len}
                                    ELSE Named(e.events, name) = Named(d.events, name),
           LoggedBut(d, todo, name, t, create, log)
    PROVE  LoggedBut(e, Tail(todo), name, u, create, log)
  <1>1. /\ Pending(todo, create) <=> Head(todo).call = create \/ Pending(Tail(todo), create)
        /\ Pending(todo, log) <=> Head(todo).call = log \/ Pending(Tail(todo), log)
    BY PendingRest
  <1>2. /\ Head(todo).call = create => ~Pending(Tail(todo), create) /\ Pending(Tail(todo), log)
        /\ Head(todo).call = log => ~Pending(Tail(todo), log) /\ ~Pending(todo, create)
    BY PairedRest
  <1>3. CASE Head(todo).call = create
    <2>1. Named(d.events, name) = 1..len /\ Named(e.events, name) = Named(d.events, name)
      BY <1>1, <1>3 DEF LoggedBut
    <2>2. grown > 0 /\ 1..len = (1..grown) \ {grown}
      BY <1>3
    <2> QED BY <1>2, <1>3, <2>1, <2>2 DEF LoggedBut
  <1>4. CASE Head(todo).call = log
    <2>1. len > 0 /\ Named(d.events, name) = (1..len) \ {len}
      BY <1>1, <1>2, <1>4 DEF LoggedBut
    <2>2. grown = len /\ Named(e.events, name) = Named(d.events, name) \cup {len}
      BY <1>4
    <2>3. Named(e.events, name) = 1..grown
      BY <2>1, <2>2
    <2> QED BY <1>2, <1>4, <2>3 DEF LoggedBut
  <1>5. CASE Head(todo).call # create /\ Head(todo).call # log
    <2>1. grown = len /\ Named(e.events, name) = Named(d.events, name)
      BY <1>5
    <2> QED BY <1>1, <1>5, <2>1 DEF LoggedBut
  <1> QED BY <1>3, <1>4, <1>5

\* A call keeps events and documents in step.
LEMMA CallRecords ==
    ASSUME NEW d \in Tables, NEW todo \in Seq(SoundStep), todo # <<>>,
           ~Raises(d, Head(todo)), NEW e \in Tables, e = Done(d, Head(todo)),
           Paired(todo, "create_order", "log_order"),
           Paired(todo, "create_production_order", "log_production"), Recorded(d, todo)
    PROVE  Recorded(e, Tail(todo))
  <1> DEFINE s == Head(todo)
  <1>0. s \in SoundStep /\ ~Raises(d, s) /\ e = Done(d, s) /\ Done(d, s) \in Tables
    BY Rest
  <1> HIDE DEF s
  <1>1. LoggedBut(e, Tail(todo), "order", e.orders, "create_order", "log_order")
    <2>1. IF s.call = "create_order" THEN Len(e.orders) = Len(d.orders) + 1
                                     ELSE Len(e.orders) = Len(d.orders)
      BY <1>0, DoneGrows
    <2>2. IF s.call = "log_order"
             THEN Named(e.events, "order") = Named(d.events, "order") \cup {Len(d.orders)}
                                  ELSE Named(e.events, "order") = Named(d.events, "order")
      BY <1>0, DoneLogs
    <2>3. /\ Len(d.orders) \in Nat /\ DOMAIN d.orders = 1..Len(d.orders)
          /\ Len(e.orders) \in Nat /\ DOMAIN e.orders = 1..Len(e.orders)
      BY <1>0, TablesAre, Domains
    <2>4. LoggedBut(d, todo, "order", d.orders, "create_order", "log_order")
      BY DEF Recorded
    <2> QED BY <2>1, <2>2, <2>3, <2>4, LaterLogKept DEF s
  <1>2. LoggedBut(e, Tail(todo), "production order", e.pos, "create_production_order", "log_production")
    <2>1. IF s.call = "create_production_order" THEN Len(e.pos) = Len(d.pos) + 1
                                                ELSE Len(e.pos) = Len(d.pos)
      BY <1>0, DoneGrows
    <2>2. IF s.call = "log_production"
          THEN Named(e.events, "production order") = Named(d.events, "production order") \cup {Len(d.pos)}
          ELSE Named(e.events, "production order") = Named(d.events, "production order")
      BY <1>0, DoneLogs
    <2>3. LoggedBut(d, todo, "production order", d.pos, "create_production_order", "log_production")
      BY DEF Recorded
    <2>4. /\ Len(d.pos) \in Nat /\ DOMAIN d.pos = 1..Len(d.pos)
          /\ Len(e.pos) \in Nat /\ DOMAIN e.pos = 1..Len(e.pos)
      BY TablesAre, Domains
    <2> QED BY <2>1, <2>2, <2>3, <2>4, LaterLogKept DEF s
  <1>3. Named(e.events, "inspection") = DOMAIN e.inspections
    <2>1. IF s.call = "create_inspection" THEN Len(e.inspections) = Len(d.inspections) + 1
                                   ELSE Len(e.inspections) = Len(d.inspections)
      BY <1>0, DoneGrows
    <2>2. IF s.call = "create_inspection"
          THEN Named(e.events, "inspection") = Named(d.events, "inspection") \cup {Len(d.inspections) + 1}
          ELSE Named(e.events, "inspection") = Named(d.events, "inspection")
      BY <1>0, DoneLogs
    <2>3. Named(d.events, "inspection") = 1..Len(d.inspections) /\ DOMAIN e.inspections = 1..Len(e.inspections)
      BY Domains DEF Recorded
    <2>4. Len(d.inspections) \in Nat
      BY TablesAre
    <2> QED BY <2>1, <2>2, <2>3, <2>4, OneMore
  <1>4. Named(e.events, "package") = DOMAIN e.packages
    <2>1. IF s.call = "create_package" THEN Len(e.packages) = Len(d.packages) + 1
                                   ELSE Len(e.packages) = Len(d.packages)
      BY <1>0, DoneGrows
    <2>2. IF s.call = "create_package"
          THEN Named(e.events, "package") = Named(d.events, "package") \cup {Len(d.packages) + 1}
          ELSE Named(e.events, "package") = Named(d.events, "package")
      BY <1>0, DoneLogs
    <2>3. Named(d.events, "package") = 1..Len(d.packages) /\ DOMAIN e.packages = 1..Len(e.packages)
      BY Domains DEF Recorded
    <2>4. Len(d.packages) \in Nat
      BY TablesAre
    <2> QED BY <2>1, <2>2, <2>3, <2>4, OneMore
  <1>5. Named(e.events, "shipment") = DOMAIN e.shipments
    <2>1. IF s.call = "create_shipment" THEN Len(e.shipments) = Len(d.shipments) + 1
                                   ELSE Len(e.shipments) = Len(d.shipments)
      BY <1>0, DoneGrows
    <2>2. IF s.call = "create_shipment"
          THEN Named(e.events, "shipment") = Named(d.events, "shipment") \cup {Len(d.shipments) + 1}
          ELSE Named(e.events, "shipment") = Named(d.events, "shipment")
      BY <1>0, DoneLogs
    <2>3. Named(d.events, "shipment") = 1..Len(d.shipments) /\ DOMAIN e.shipments = 1..Len(e.shipments)
      BY Domains DEF Recorded
    <2>4. Len(d.shipments) \in Nat
      BY TablesAre
    <2> QED BY <2>1, <2>2, <2>3, <2>4, OneMore
  <1>6. Named(e.events, "issue") = DOMAIN e.issues
    <2>1. IF s.call = "issue_material" THEN Len(e.issues) = Len(d.issues) + 1
                                   ELSE Len(e.issues) = Len(d.issues)
      BY <1>0, DoneGrows
    <2>2. IF s.call = "issue_material"
          THEN Named(e.events, "issue") = Named(d.events, "issue") \cup {Len(d.issues) + 1}
          ELSE Named(e.events, "issue") = Named(d.events, "issue")
      BY <1>0, DoneLogs
    <2>3. Named(d.events, "issue") = 1..Len(d.issues) /\ DOMAIN e.issues = 1..Len(e.issues)
      BY Domains DEF Recorded
    <2>4. Len(d.issues) \in Nat
      BY TablesAre
    <2> QED BY <2>1, <2>2, <2>3, <2>4, OneMore
  <1> QED BY <1>1, <1>2, <1>3, <1>4, <1>5, <1>6 DEF Recorded

----------------------------------------------------------------------------
(* What a call leaves alone.                                                 *)

\* Rows stay, and what a workflow has made of the first items and planned items.
Extends(d, e, items, planned) ==
    /\ \A i \in DOMAIN d.items :
          /\ i \in DOMAIN e.items /\ e.items[i].order = d.items[i].order
          /\ i <= items => e.items[i].needs = d.items[i].needs
    /\ \A p \in DOMAIN d.pos : p \in DOMAIN e.pos /\ e.pos[p].order = d.pos[p].order
    /\ \A k \in DOMAIN d.poItems :
          /\ k \in DOMAIN e.poItems /\ e.poItems[k].po = d.poItems[k].po
          /\ e.poItems[k].item = d.poItems[k].item /\ e.poItems[k].rules = d.poItems[k].rules
          /\ k <= planned => /\ e.poItems[k].operations = d.poItems[k].operations
                             /\ e.poItems[k].done = d.poItems[k].done
    /\ \A q \in DOMAIN d.inspections :
          q \in DOMAIN e.inspections /\ e.inspections[q].po = d.inspections[q].po
    /\ \A q \in DOMAIN d.packages :
          q \in DOMAIN e.packages /\ e.packages[q].item = d.packages[q].item
    /\ \A q \in DOMAIN d.shipments :
          q \in DOMAIN e.shipments /\ e.shipments[q].order = d.shipments[q].order

LEMMA ExtendsKeepsWhole ==
    ASSUME NEW d, NEW e, NEW o, NEW items, NEW planned,
           Extends(d, e, items, planned), Whole(d, o, items, planned)
    PROVE  Whole(e, o, items, planned)
  <1>1. PICK i \in DOMAIN d.items, p \in DOMAIN d.pos, k \in DOMAIN d.poItems :
            /\ i <= items /\ k <= planned
            /\ d.items[i].order = o /\ d.pos[p].order = o
            /\ d.poItems[k].po = p /\ d.poItems[k].item = i
            /\ d.items[i].needs = d.poItems[k].rules
            /\ d.poItems[k].done = d.poItems[k].operations
            /\ \E q \in DOMAIN d.inspections : d.inspections[q].po = p
            /\ \E q \in DOMAIN d.packages : d.packages[q].item = i
            /\ \E q \in DOMAIN d.shipments : d.shipments[q].order = o
    BY DEF Whole
  <1>2. /\ i \in DOMAIN e.items /\ p \in DOMAIN e.pos /\ k \in DOMAIN e.poItems
        /\ e.items[i].order = o /\ e.pos[p].order = o
        /\ e.poItems[k].po = p /\ e.poItems[k].item = i
        /\ e.items[i].needs = e.poItems[k].rules
        /\ e.poItems[k].done = e.poItems[k].operations
    BY <1>1 DEF Extends
  <1>3. \E q \in DOMAIN e.inspections : e.inspections[q].po = p
    BY <1>1 DEF Extends
  <1>4. \E q \in DOMAIN e.packages : e.packages[q].item = i
    BY <1>1 DEF Extends
  <1>5. \E q \in DOMAIN e.shipments : e.shipments[q].order = o
    BY <1>1 DEF Extends
  <1> QED BY <1>1, <1>2, <1>3, <1>4, <1>5 DEF Whole

\* A call changes only the last item or planned item, and adds rows.
LEMMA DoneExtends ==
    ASSUME NEW d \in Tables, NEW s \in SoundStep, ~Raises(d, s),
           NEW items \in Nat, NEW planned \in Nat,
           s.call = "create_requirements" => items < Len(d.items),
           s.call \in {"create_operations", "run_operations"} => planned < Len(d.poItems)
    PROVE  Extends(d, Done(d, s), items, planned)
  <1> DEFINE e == Done(d, s)
  <1>1. ASSUME NEW i \in DOMAIN d.items
        PROVE  /\ i \in DOMAIN e.items /\ e.items[i].order = d.items[i].order
               /\ i <= items => e.items[i].needs = d.items[i].needs
    <2>0. d.items \in Seq(ItemRow) /\ d.items[i] \in ItemRow /\ i \in Nat /\ Len(d.items) \in Nat
      BY TablesAre, Domains, RowOf
    <2>1. CASE s.call = "add_item"
      <3>1. \E r : e.items = Append(d.items, r)
        BY <2>1, DoneIs
      <3> QED BY <2>0, <3>1, KeptRow
    <2>2. CASE s.call = "create_requirements"
      <3>1. e.items = [d.items EXCEPT ![Len(d.items)].needs = Rules[s.arg]]
        BY <2>2, DoneIs
      <3> QED BY <2>0, <2>2, <3>1 DEF ItemRow
    <2>3. CASE s.call # "add_item" /\ s.call # "create_requirements"
      BY <2>3, DoneIs
    <2> QED BY <2>1, <2>2, <2>3
  <1>2. ASSUME NEW p \in DOMAIN d.pos
        PROVE  p \in DOMAIN e.pos /\ e.pos[p].order = d.pos[p].order
    <2>0. d.pos \in Seq(ProductionRow)
      BY TablesAre
    <2>1. e.pos = d.pos \/ \E r : e.pos = Append(d.pos, r)
      BY DoneIs
    <2>2. CASE e.pos = d.pos
      BY <2>2
    <2>3. CASE \E r : e.pos = Append(d.pos, r)
      BY <2>0, <2>3, KeptRow
    <2> QED BY <2>1, <2>2, <2>3
  <1>3. ASSUME NEW k \in DOMAIN d.poItems
        PROVE  /\ k \in DOMAIN e.poItems /\ e.poItems[k].po = d.poItems[k].po
               /\ e.poItems[k].item = d.poItems[k].item /\ e.poItems[k].rules = d.poItems[k].rules
               /\ k <= planned => /\ e.poItems[k].operations = d.poItems[k].operations
                                  /\ e.poItems[k].done = d.poItems[k].done
    <2>0. /\ d.poItems \in Seq(PlannedItemRow) /\ d.poItems[k] \in PlannedItemRow
          /\ k \in Nat /\ Len(d.poItems) \in Nat
      BY TablesAre, Domains, RowOf
    <2>1. CASE s.call = "add_production_order_item"
      <3>1. \E r : e.poItems = Append(d.poItems, r)
        BY <2>1, DoneIs
      <3> QED BY <2>0, <3>1, KeptRow
    <2>2. CASE s.call = "create_operations"
      <3>1. e.poItems = [d.poItems EXCEPT ![Len(d.poItems)].operations = Operations[s.arg]]
        BY <2>2, DoneIs
      <3>2. CASE k = Len(d.poItems)
        <4>1. ~(k <= planned)
          BY <2>0, <2>2, <3>2
        <4>2. e.poItems[k] = [d.poItems[k] EXCEPT !.operations = Operations[s.arg]]
          BY <3>1, <3>2
        <4> QED BY <2>0, <3>1, <4>1, <4>2 DEF PlannedItemRow
      <3>3. CASE k # Len(d.poItems)
        BY <2>0, <3>1, <3>3
      <3> QED BY <3>2, <3>3
    <2>3. CASE s.call = "run_operations"
      <3>1. e.poItems = [d.poItems EXCEPT ![Len(d.poItems)].done =
                             d.poItems[Len(d.poItems)].operations]
        BY <2>3, DoneIs
      <3>2. CASE k = Len(d.poItems)
        <4>1. ~(k <= planned)
          BY <2>0, <2>3, <3>2
        <4>2. e.poItems[k] = [d.poItems[k] EXCEPT !.done = d.poItems[k].operations]
          BY <3>1, <3>2
        <4> QED BY <2>0, <3>1, <4>1, <4>2 DEF PlannedItemRow
      <3>3. CASE k # Len(d.poItems)
        BY <2>0, <3>1, <3>3
      <3> QED BY <3>2, <3>3
    <2>4. CASE s.call \notin {"add_production_order_item", "create_operations", "run_operations"}
      BY <2>4, DoneIs
    <2> QED BY <2>1, <2>2, <2>3, <2>4
  <1>4. ASSUME NEW q \in DOMAIN d.inspections
        PROVE  q \in DOMAIN e.inspections /\ e.inspections[q].po = d.inspections[q].po
    <2>0. d.inspections \in Seq(InspectionRow) /\ d.inspections[q] \in InspectionRow
      BY TablesAre, RowOf
    <2>1. CASE s.call = "create_inspection"
      <3>1. \E r : e.inspections = Append(d.inspections, r)
        BY <2>1, DoneIs
      <3> QED BY <2>0, <3>1, KeptRow
    <2>2. CASE s.call = "add_defect"
      <3>1. e.inspections = [d.inspections EXCEPT ![Len(d.inspections)].defects = @ + 1]
        BY <2>2, DoneIs
      <3> QED BY <2>0, <3>1 DEF InspectionRow
    <2>3. CASE s.call # "create_inspection" /\ s.call # "add_defect"
      BY <2>3, DoneIs
    <2> QED BY <2>1, <2>2, <2>3
  <1>5. ASSUME NEW q \in DOMAIN d.packages
        PROVE  q \in DOMAIN e.packages /\ e.packages[q].item = d.packages[q].item
    <2>0. d.packages \in Seq(PackageRow)
      BY TablesAre
    <2>1. e.packages = d.packages \/ \E r : e.packages = Append(d.packages, r)
      BY DoneIs
    <2>2. CASE e.packages = d.packages
      BY <2>2
    <2>3. CASE \E r : e.packages = Append(d.packages, r)
      BY <2>0, <2>3, KeptRow
    <2> QED BY <2>1, <2>2, <2>3
  <1>6. ASSUME NEW q \in DOMAIN d.shipments
        PROVE  q \in DOMAIN e.shipments /\ e.shipments[q].order = d.shipments[q].order
    <2>0. d.shipments \in Seq(ShipmentRow)
      BY TablesAre
    <2>1. e.shipments = d.shipments \/ \E r : e.shipments = Append(d.shipments, r)
      BY DoneIs
    <2>2. CASE e.shipments = d.shipments
      BY <2>2
    <2>3. CASE \E r : e.shipments = Append(d.shipments, r)
      BY <2>0, <2>3, KeptRow
    <2> QED BY <2>1, <2>2, <2>3
  <1> HIDE DEF e
  <1>7. Extends(d, e, items, planned)
    BY <1>1, <1>2, <1>3, <1>4, <1>5, <1>6 DEF Extends
  <1> QED BY <1>7 DEF e

----------------------------------------------------------------------------
(* The workflow, call by call.                                               *)

LEMMA MadeNext ==
    ASSUME NEW d \in Tables, NEW p \in Products, NEW n \in 0..11, NEW s \in SoundStep,
           s = WorkflowSteps(p)[n + 1], ~Raises(d, s), Made(d, p, n), NEW e, e = Done(d, s)
    PROVE  Made(e, p, n + 1)
  <1>1. CASE n = 0
    <2>0. s = Do("create_order", 0, 0)
      <3>1. n + 1 = 1
        BY <1>1
      <3> QED BY <3>1, WorkflowCalls
    <2>1. s.call = "create_order" /\ s.of = 0 /\ s.arg = 0
      BY <2>0 DEF Do
    <2>2. /\ e.items = d.items /\ e.pos = d.pos /\ e.poItems = d.poItems /\ e.inspections = d.inspections
          /\ e.packages = d.packages /\ e.shipments = d.shipments
      BY <2>1, DoneIs
    <2> DEFINE row == [number |-> 0]
    <2>3. e.orders = Append(d.orders, row)
      <3>1. e.orders = Append(d.orders, [number |-> s.arg])
        BY <2>1, DoneIs
      <3> QED BY <2>1, <3>1
    <2>4. Len(e.orders) > 0 /\ e.orders[Len(e.orders)] = row
      BY <2>3, TablesAre, NewLast
    <2> QED BY <1>1, <2>2, <2>4 DEF Made
  <1>2. CASE n = 1
    <2>0. s = Do("add_item", 0, p)
      <3>1. n + 1 = 2
        BY <1>2
      <3> QED BY <3>1, WorkflowCalls
    <2>1. s.call = "add_item" /\ s.of = 0 /\ s.arg = p
      BY <2>0 DEF Do
    <2>2. /\ e.orders = d.orders /\ e.pos = d.pos /\ e.poItems = d.poItems
          /\ e.inspections = d.inspections
          /\ e.packages = d.packages /\ e.shipments = d.shipments
      BY <2>1, DoneIs
    <2> DEFINE row == [order |-> Len(d.orders), product |-> p, needs |-> 0]
    <2>3. e.items = Append(d.items, row)
      BY <2>1, DoneIs DEF Target
    <2>4. Len(e.items) > 0 /\ e.items[Len(e.items)] = row
      BY <2>3, TablesAre, NewLast
    <2>5. row.order = Len(d.orders)
      OBVIOUS
    <2> HIDE DEF row
    <2> QED BY <1>2, <2>2, <2>4, <2>5 DEF Made
  <1>3. CASE n = 2
    <2>0. s = Do("log_order", 0, 0)
      <3>1. n + 1 = 3
        BY <1>3
      <3> QED BY <3>1, WorkflowCalls
    <2>1. s.call = "log_order" /\ s.of = 0 /\ s.arg = 0
      BY <2>0 DEF Do
    <2>2. /\ e.orders = d.orders /\ e.items = d.items /\ e.pos = d.pos /\ e.poItems = d.poItems
          /\ e.inspections = d.inspections /\ e.packages = d.packages /\ e.shipments = d.shipments
      BY <2>1, DoneIs
    <2> QED BY <1>3, <2>2 DEF Made
  <1>4. CASE n = 3
    <2>0. s = Do("create_production_order", 0, 0)
      <3>1. n + 1 = 4
        BY <1>4
      <3> QED BY <3>1, WorkflowCalls
    <2>1. s.call = "create_production_order" /\ s.of = 0 /\ s.arg = 0
      BY <2>0 DEF Do
    <2>2. /\ e.orders = d.orders /\ e.items = d.items /\ e.poItems = d.poItems
          /\ e.inspections = d.inspections
          /\ e.packages = d.packages /\ e.shipments = d.shipments
      BY <2>1, DoneIs
    <2> DEFINE row == [order |-> Len(d.orders), number |-> Len(d.pos) + 1]
    <2>3. e.pos = Append(d.pos, row)
      BY <2>1, DoneIs DEF Target
    <2>4. Len(e.pos) > 0 /\ e.pos[Len(e.pos)] = row
      BY <2>3, TablesAre, NewLast
    <2>5. row.order = Len(d.orders)
      OBVIOUS
    <2> HIDE DEF row
    <2> QED BY <1>4, <2>2, <2>4, <2>5 DEF Made
  <1>5. CASE n = 4
    <2>0. s = Do("add_production_order_item", 0, p)
      <3>1. n + 1 = 5
        BY <1>5
      <3> QED BY <3>1, WorkflowCalls
    <2>1. s.call = "add_production_order_item" /\ s.of = 0 /\ s.arg = p
      BY <2>0 DEF Do
    <2>2. /\ e.orders = d.orders /\ e.items = d.items /\ e.pos = d.pos /\ e.inspections = d.inspections
          /\ e.packages = d.packages /\ e.shipments = d.shipments
      BY <2>1, DoneIs
    <2> DEFINE row == [po |-> Len(d.pos), item |-> Len(d.items), rules |-> Rules[p],
                               operations |-> 0, done |-> 0]
    <2>3. e.poItems = Append(d.poItems, row)
      BY <2>1, DoneIs DEF Target
    <2>4. Len(e.poItems) > 0 /\ e.poItems[Len(e.poItems)] = row
      BY <2>3, TablesAre, NewLast
    <2>5. row.po = Len(d.pos) /\ row.item = Len(d.items) /\ row.rules = Rules[p]
      OBVIOUS
    <2> HIDE DEF row
    <2>6. /\ Len(d.orders) > 0
          /\ Len(d.items) > 0 /\ d.items[Len(d.items)].order = Len(d.orders)
          /\ Len(d.pos) > 0 /\ d.pos[Len(d.pos)].order = Len(d.orders)
      BY <1>5 DEF Made
    <2>7. /\ Len(e.orders) > 0
          /\ Len(e.items) > 0 /\ e.items[Len(e.items)].order = Len(e.orders)
          /\ Len(e.pos) > 0 /\ e.pos[Len(e.pos)].order = Len(e.orders)
          /\ Len(e.poItems) > 0
          /\ e.poItems[Len(e.poItems)].po = Len(e.pos)
          /\ e.poItems[Len(e.poItems)].item = Len(e.items)
          /\ e.poItems[Len(e.poItems)].rules = Rules[p]
      BY <2>2, <2>4, <2>5, <2>6
    <2> QED BY <1>5, <2>7 DEF Made
  <1>6. CASE n = 5
    <2>0. s = Do("create_operations", 0, p)
      <3>1. n + 1 = 6
        BY <1>6
      <3> QED BY <3>1, WorkflowCalls
    <2>1. s.call = "create_operations" /\ s.of = 0 /\ s.arg = p
      BY <2>0 DEF Do
    <2>2. /\ e.orders = d.orders /\ e.items = d.items /\ e.pos = d.pos /\ e.inspections = d.inspections
          /\ e.packages = d.packages /\ e.shipments = d.shipments
      BY <2>1, DoneIs
    <2> DEFINE last == Len(d.poItems)
    <2>3. e.poItems = [d.poItems EXCEPT ![last].operations = Operations[p]]
      <3>1. e.poItems = [d.poItems EXCEPT ![last].operations = Operations[s.arg]]
        BY <2>1, DoneIs
      <3> QED BY <2>1, <3>1
    <2>4. last > 0 /\ last \in DOMAIN d.poItems /\ d.poItems[last] \in PlannedItemRow
      BY <1>6, TablesAre, Domains, RowOf DEF Made
    <2>5. Len(e.poItems) = last
      BY <2>3, TablesAre, SameLength
    <2>6. e.poItems[last] = [d.poItems[last] EXCEPT !.operations = Operations[p]]
      BY <2>3, <2>4
    <2>7. /\ e.poItems[last].po = d.poItems[last].po /\ e.poItems[last].item = d.poItems[last].item
          /\ e.poItems[last].rules = d.poItems[last].rules
          /\ e.poItems[last].operations = Operations[p]
      BY <2>4, <2>6 DEF PlannedItemRow
    <2> HIDE DEF last
    <2>8. /\ Len(d.orders) > 0
          /\ Len(d.items) > 0 /\ d.items[Len(d.items)].order = Len(d.orders)
          /\ Len(d.pos) > 0 /\ d.pos[Len(d.pos)].order = Len(d.orders)
          /\ Len(d.poItems) > 0 /\ d.poItems[Len(d.poItems)].po = Len(d.pos)
          /\ d.poItems[Len(d.poItems)].item = Len(d.items)
          /\ d.poItems[Len(d.poItems)].rules = Rules[p]
      BY <1>6 DEF Made
    <2>9. /\ Len(e.orders) > 0
          /\ Len(e.items) > 0 /\ e.items[Len(e.items)].order = Len(e.orders)
          /\ Len(e.pos) > 0 /\ e.pos[Len(e.pos)].order = Len(e.orders)
          /\ Len(e.poItems) > 0 /\ e.poItems[Len(e.poItems)].po = Len(e.pos)
          /\ e.poItems[Len(e.poItems)].item = Len(e.items)
          /\ e.poItems[Len(e.poItems)].rules = Rules[p]
      BY <2>2, <2>4, <2>5, <2>7, <2>8 DEF last
    <2> QED BY <1>6, <2>9 DEF Made
  <1>7. CASE n = 6
    <2>0. s = Do("log_production", 0, 0)
      <3>1. n + 1 = 7
        BY <1>7
      <3> QED BY <3>1, WorkflowCalls
    <2>1. s.call = "log_production" /\ s.of = 0 /\ s.arg = 0
      BY <2>0 DEF Do
    <2>2. /\ e.orders = d.orders /\ e.items = d.items /\ e.pos = d.pos /\ e.poItems = d.poItems
          /\ e.inspections = d.inspections /\ e.packages = d.packages /\ e.shipments = d.shipments
      BY <2>1, DoneIs
    <2>3. Made(e, p, 6)
      BY <1>7, <2>2 DEF Made
    <2> QED BY <1>7, <2>3 DEF Made
  <1>8. CASE n = 7
    <2>0. s = Do("create_requirements", 0, p)
      <3>1. n + 1 = 8
        BY <1>8
      <3> QED BY <3>1, WorkflowCalls
    <2>1. s.call = "create_requirements" /\ s.of = 0 /\ s.arg = p
      BY <2>0 DEF Do
    <2>2. /\ e.orders = d.orders /\ e.pos = d.pos /\ e.poItems = d.poItems
          /\ e.inspections = d.inspections
          /\ e.packages = d.packages /\ e.shipments = d.shipments
      BY <2>1, DoneIs
    <2> DEFINE last == Len(d.items)
    <2>3. e.items = [d.items EXCEPT ![last].needs = Rules[p]]
      <3>1. e.items = [d.items EXCEPT ![last].needs = Rules[s.arg]]
        BY <2>1, DoneIs
      <3> QED BY <2>1, <3>1
    <2>4. last > 0 /\ last \in DOMAIN d.items /\ d.items[last] \in ItemRow
      BY <1>8, TablesAre, Domains, RowOf DEF Made
    <2>5. Len(e.items) = last
      BY <2>3, TablesAre, SameLength
    <2>6. e.items[last] = [d.items[last] EXCEPT !.needs = Rules[p]]
      BY <2>3, <2>4
    <2>7. /\ e.items[last].order = d.items[last].order
          /\ e.items[last].needs = Rules[p]
      BY <2>4, <2>6 DEF ItemRow
    <2> HIDE DEF last
    <2>8. /\ Len(d.orders) > 0 /\ d.items[last].order = Len(d.orders)
          /\ Len(d.pos) > 0 /\ d.pos[Len(d.pos)].order = Len(d.orders)
          /\ Len(d.poItems) > 0
          /\ d.poItems[Len(d.poItems)].po = Len(d.pos)
          /\ d.poItems[Len(d.poItems)].item = last
          /\ d.poItems[Len(d.poItems)].rules = Rules[p]
      BY <1>8 DEF Made, last
    <2>9. /\ Len(e.orders) > 0
          /\ Len(e.items) > 0 /\ e.items[Len(e.items)].order = Len(e.orders)
          /\ Len(e.pos) > 0 /\ e.pos[Len(e.pos)].order = Len(e.orders)
          /\ Len(e.poItems) > 0
          /\ e.poItems[Len(e.poItems)].po = Len(e.pos)
          /\ e.poItems[Len(e.poItems)].item = Len(e.items)
          /\ e.poItems[Len(e.poItems)].rules = Rules[p]
          /\ e.items[Len(e.items)].needs = Rules[p]
      BY <2>2, <2>4, <2>5, <2>7, <2>8
    <2> QED BY <1>8, <2>9 DEF Made
  <1>9. CASE n = 8
    <2>0. s = Do("run_operations", 0, 0)
      <3>1. n + 1 = 9
        BY <1>9
      <3> QED BY <3>1, WorkflowCalls
    <2>1. s.call = "run_operations" /\ s.of = 0 /\ s.arg = 0
      BY <2>0 DEF Do
    <2>2. /\ e.orders = d.orders /\ e.items = d.items /\ e.pos = d.pos /\ e.inspections = d.inspections
          /\ e.packages = d.packages /\ e.shipments = d.shipments
      BY <2>1, DoneIs
    <2> DEFINE last == Len(d.poItems)
    <2>3. e.poItems = [d.poItems EXCEPT ![last].done = d.poItems[Len(d.poItems)].operations]
      BY <2>1, DoneIs
    <2>4. last > 0 /\ last \in DOMAIN d.poItems /\ d.poItems[last] \in PlannedItemRow
      BY <1>9, TablesAre, Domains, RowOf DEF Made
    <2>5. Len(e.poItems) = last
      BY <2>3, TablesAre, SameLength
    <2>6. e.poItems[last] = [d.poItems[last] EXCEPT !.done = d.poItems[Len(d.poItems)].operations]
      BY <2>3, <2>4
    <2>7. /\ e.poItems[last].po = d.poItems[last].po /\ e.poItems[last].item = d.poItems[last].item
          /\ e.poItems[last].rules = d.poItems[last].rules
          /\ e.poItems[last].operations = d.poItems[last].operations
          /\ e.poItems[last].done = d.poItems[Len(d.poItems)].operations
      BY <2>4, <2>6 DEF PlannedItemRow
    <2> HIDE DEF last
    <2>8. /\ Len(d.orders) > 0
          /\ Len(d.items) > 0 /\ d.items[Len(d.items)].order = Len(d.orders)
          /\ Len(d.pos) > 0 /\ d.pos[Len(d.pos)].order = Len(d.orders)
          /\ Len(d.poItems) > 0 /\ d.poItems[Len(d.poItems)].po = Len(d.pos)
          /\ d.poItems[Len(d.poItems)].item = Len(d.items)
          /\ d.poItems[Len(d.poItems)].rules = Rules[p]
          /\ d.items[Len(d.items)].needs = Rules[p]
      BY <1>9 DEF Made
    <2>9. /\ Len(e.orders) > 0
          /\ Len(e.items) > 0 /\ e.items[Len(e.items)].order = Len(e.orders)
          /\ Len(e.pos) > 0 /\ e.pos[Len(e.pos)].order = Len(e.orders)
          /\ Len(e.poItems) > 0 /\ e.poItems[Len(e.poItems)].po = Len(e.pos)
          /\ e.poItems[Len(e.poItems)].item = Len(e.items)
          /\ e.poItems[Len(e.poItems)].rules = Rules[p]
          /\ e.items[Len(e.items)].needs = Rules[p]
          /\ e.poItems[Len(e.poItems)].done = e.poItems[Len(e.poItems)].operations
      BY <2>2, <2>4, <2>5, <2>7, <2>8 DEF last
    <2> QED BY <1>9, <2>9 DEF Made
  <1>10. CASE n = 9
    <2>0. s = Do("create_inspection", 0, 0)
      <3>1. n + 1 = 10
        BY <1>10
      <3> QED BY <3>1, WorkflowCalls
    <2>1. s.call = "create_inspection" /\ s.of = 0 /\ s.arg = 0
      BY <2>0 DEF Do
    <2>2. /\ e.orders = d.orders /\ e.items = d.items /\ e.pos = d.pos /\ e.poItems = d.poItems
          /\ e.packages = d.packages /\ e.shipments = d.shipments
      BY <2>1, DoneIs
    <2> DEFINE row == [po |-> Len(d.pos), day |-> day, number |-> NextInspection(d, Len(d.pos)),
                               defects |-> 0]
    <2>3. e.inspections = Append(d.inspections, row)
      BY <2>1, DoneIs DEF Target
    <2>4. Len(e.inspections) > 0 /\ e.inspections[Len(e.inspections)] = row
      BY <2>3, TablesAre, NewLast
    <2>5. row.po = Len(d.pos)
      OBVIOUS
    <2> HIDE DEF row
    <2>8. /\ Len(d.orders) > 0
          /\ Len(d.items) > 0 /\ d.items[Len(d.items)].order = Len(d.orders)
          /\ Len(d.pos) > 0 /\ d.pos[Len(d.pos)].order = Len(d.orders)
          /\ Len(d.poItems) > 0 /\ d.poItems[Len(d.poItems)].po = Len(d.pos)
          /\ d.poItems[Len(d.poItems)].item = Len(d.items)
          /\ d.poItems[Len(d.poItems)].rules = Rules[p]
          /\ d.items[Len(d.items)].needs = Rules[p]
          /\ d.poItems[Len(d.poItems)].done = d.poItems[Len(d.poItems)].operations
      BY <1>10 DEF Made
    <2>9. /\ Len(e.orders) > 0
          /\ Len(e.items) > 0 /\ e.items[Len(e.items)].order = Len(e.orders)
          /\ Len(e.pos) > 0 /\ e.pos[Len(e.pos)].order = Len(e.orders)
          /\ Len(e.poItems) > 0 /\ e.poItems[Len(e.poItems)].po = Len(e.pos)
          /\ e.poItems[Len(e.poItems)].item = Len(e.items)
          /\ e.poItems[Len(e.poItems)].rules = Rules[p]
          /\ e.items[Len(e.items)].needs = Rules[p]
          /\ e.poItems[Len(e.poItems)].done = e.poItems[Len(e.poItems)].operations
          /\ Len(e.inspections) > 0 /\ e.inspections[Len(e.inspections)].po = Len(e.pos)
      BY <2>2, <2>4, <2>5, <2>8
    <2> QED BY <1>10, <2>9 DEF Made
  <1>11. CASE n = 10
    <2>0. s = Do("create_package", 0, 0)
      <3>1. n + 1 = 11
        BY <1>11
      <3> QED BY <3>1, WorkflowCalls
    <2>1. s.call = "create_package" /\ s.of = 0 /\ s.arg = 0
      BY <2>0 DEF Do
    <2>2. /\ e.orders = d.orders /\ e.items = d.items /\ e.pos = d.pos /\ e.poItems = d.poItems
          /\ e.inspections = d.inspections /\ e.shipments = d.shipments
      BY <2>1, DoneIs
    <2> DEFINE row == [item |-> Len(d.items), number |-> Len(d.packages) + 1, status |-> "packed"]
    <2>3. e.packages = Append(d.packages, row)
      BY <2>1, DoneIs DEF Target
    <2>4. Len(e.packages) > 0 /\ e.packages[Len(e.packages)] = row
      BY <2>3, TablesAre, NewLast
    <2>5. row.item = Len(d.items)
      OBVIOUS
    <2> HIDE DEF row
    <2>8. /\ Len(d.orders) > 0
          /\ Len(d.items) > 0 /\ d.items[Len(d.items)].order = Len(d.orders)
          /\ Len(d.pos) > 0 /\ d.pos[Len(d.pos)].order = Len(d.orders)
          /\ Len(d.poItems) > 0 /\ d.poItems[Len(d.poItems)].po = Len(d.pos)
          /\ d.poItems[Len(d.poItems)].item = Len(d.items)
          /\ d.poItems[Len(d.poItems)].rules = Rules[p]
          /\ d.items[Len(d.items)].needs = Rules[p]
          /\ d.poItems[Len(d.poItems)].done = d.poItems[Len(d.poItems)].operations
          /\ Len(d.inspections) > 0 /\ d.inspections[Len(d.inspections)].po = Len(d.pos)
      BY <1>11 DEF Made
    <2>9. /\ Len(e.orders) > 0
          /\ Len(e.items) > 0 /\ e.items[Len(e.items)].order = Len(e.orders)
          /\ Len(e.pos) > 0 /\ e.pos[Len(e.pos)].order = Len(e.orders)
          /\ Len(e.poItems) > 0 /\ e.poItems[Len(e.poItems)].po = Len(e.pos)
          /\ e.poItems[Len(e.poItems)].item = Len(e.items)
          /\ e.poItems[Len(e.poItems)].rules = Rules[p]
          /\ e.items[Len(e.items)].needs = Rules[p]
          /\ e.poItems[Len(e.poItems)].done = e.poItems[Len(e.poItems)].operations
          /\ Len(e.inspections) > 0 /\ e.inspections[Len(e.inspections)].po = Len(e.pos)
          /\ Len(e.packages) > 0 /\ e.packages[Len(e.packages)].item = Len(e.items)
      BY <2>2, <2>4, <2>5, <2>8
    <2> QED BY <1>11, <2>9 DEF Made
  <1>12. CASE n = 11
    <2>0. s = Do("create_shipment", 0, 0)
      <3>1. n + 1 = 12
        BY <1>12
      <3> QED BY <3>1, WorkflowCalls
    <2>1. s.call = "create_shipment" /\ s.of = 0 /\ s.arg = 0
      BY <2>0 DEF Do
    <2>2. /\ e.orders = d.orders /\ e.items = d.items /\ e.pos = d.pos /\ e.poItems = d.poItems
          /\ e.inspections = d.inspections /\ e.packages = d.packages
      BY <2>1, DoneIs
    <2> DEFINE row == [order |-> Len(d.orders), given |-> FALSE, status |-> "ready",
                               number |-> Len(d.shipments) + 1]
    <2>3. e.shipments = Append(d.shipments, row)
      BY <2>1, DoneIs DEF Target
    <2>4. Len(e.shipments) > 0 /\ e.shipments[Len(e.shipments)] = row
      BY <2>3, TablesAre, NewLast
    <2>5. row.order = Len(d.orders)
      OBVIOUS
    <2> HIDE DEF row
    <2>8. /\ Len(d.orders) > 0
          /\ Len(d.items) > 0 /\ d.items[Len(d.items)].order = Len(d.orders)
          /\ Len(d.pos) > 0 /\ d.pos[Len(d.pos)].order = Len(d.orders)
          /\ Len(d.poItems) > 0 /\ d.poItems[Len(d.poItems)].po = Len(d.pos)
          /\ d.poItems[Len(d.poItems)].item = Len(d.items)
          /\ d.poItems[Len(d.poItems)].rules = Rules[p]
          /\ d.items[Len(d.items)].needs = Rules[p]
          /\ d.poItems[Len(d.poItems)].done = d.poItems[Len(d.poItems)].operations
          /\ Len(d.inspections) > 0 /\ d.inspections[Len(d.inspections)].po = Len(d.pos)
          /\ Len(d.packages) > 0 /\ d.packages[Len(d.packages)].item = Len(d.items)
      BY <1>12 DEF Made
    <2>9. /\ Len(e.orders) > 0
          /\ Len(e.items) > 0 /\ e.items[Len(e.items)].order = Len(e.orders)
          /\ Len(e.pos) > 0 /\ e.pos[Len(e.pos)].order = Len(e.orders)
          /\ Len(e.poItems) > 0 /\ e.poItems[Len(e.poItems)].po = Len(e.pos)
          /\ e.poItems[Len(e.poItems)].item = Len(e.items)
          /\ e.poItems[Len(e.poItems)].rules = Rules[p]
          /\ e.items[Len(e.items)].needs = Rules[p]
          /\ e.poItems[Len(e.poItems)].done = e.poItems[Len(e.poItems)].operations
          /\ Len(e.inspections) > 0 /\ e.inspections[Len(e.inspections)].po = Len(e.pos)
          /\ Len(e.packages) > 0 /\ e.packages[Len(e.packages)].item = Len(e.items)
          /\ Len(e.shipments) > 0 /\ e.shipments[Len(e.shipments)].order = Len(e.orders)
      BY <2>2, <2>4, <2>5, <2>8
    <2> QED BY <1>12, <2>9 DEF Made
  <1> QED BY <1>1, <1>2, <1>3, <1>4, <1>5, <1>6, <1>7, <1>8, <1>9, <1>10, <1>11, <1>12

----------------------------------------------------------------------------
(* Nothing is half done.                                                     *)

LEMMA NothingToCome ==
    ASSUME NumberInv, ~Open
    PROVE  txn = NoTxn /\ txn.todo = <<>>
  BY DEF NumberInv, SoundTxn, Open, NoTxn, Views

\* Outside a transaction, every table is its events.
LEMMA RecordedAll ==
    ASSUME NEW d
    PROVE  Recorded(d, <<>>) <=>
              /\ Named(d.events, "order") = DOMAIN d.orders
              /\ Named(d.events, "production order") = DOMAIN d.pos
              /\ Named(d.events, "inspection") = DOMAIN d.inspections
              /\ Named(d.events, "package") = DOMAIN d.packages
              /\ Named(d.events, "shipment") = DOMAIN d.shipments
              /\ Named(d.events, "issue") = DOMAIN d.issues
  <1>1. ~Pending(<<>>, "log_order") /\ ~Pending(<<>>, "log_production")
    BY DEF Pending
  <1>2. LoggedBut(d, <<>>, "order", d.orders, "create_order", "log_order")
            <=> Named(d.events, "order") = DOMAIN d.orders
    BY <1>1 DEF LoggedBut
  <1>3. LoggedBut(d, <<>>, "production order", d.pos, "create_production_order", "log_production")
            <=> Named(d.events, "production order") = DOMAIN d.pos
    BY <1>1 DEF LoggedBut
  <1> QED BY <1>2, <1>3 DEF Recorded

LEMMA NothingPaired ==
    Paired(<<>>, "create_order", "log_order")
    /\ Paired(<<>>, "create_production_order", "log_production")
  BY DEF Paired

\* A transaction opens on tables that are its events, and restores them.
LEMMA RequestKeepsEvents ==
    ASSUME NumberInv, EventInv, NEW view \in Views, NEW steps \in Seq(SoundStep),
           WellOrdered(steps), Request(view, steps)
    PROVE  EventInv'
  <1>1. ~Open /\ db' = db /\ txn' = [view |-> view, todo |-> steps, before |-> db]
    BY DEF Request
  <1>2. txn'.todo = steps /\ txn'.before = db
    BY <1>1
  <1>3. Recorded(db, <<>>)
    BY <1>1, NothingToCome DEF EventInv
  <1>4. Recorded(db, steps)
    <2>1. /\ Pending(steps, "log_order") => Pending(steps, "create_order")
          /\ Pending(steps, "log_production") => Pending(steps, "create_production_order")
      BY DEF WellOrdered
    <2>2. /\ Named(db.events, "order") = DOMAIN db.orders
          /\ Named(db.events, "production order") = DOMAIN db.pos
          /\ Named(db.events, "inspection") = DOMAIN db.inspections
          /\ Named(db.events, "package") = DOMAIN db.packages
          /\ Named(db.events, "shipment") = DOMAIN db.shipments
          /\ Named(db.events, "issue") = DOMAIN db.issues
      BY <1>3, RecordedAll
    <2>3. /\ LoggedBut(db, steps, "order", db.orders, "create_order", "log_order")
          /\ LoggedBut(db, steps, "production order", db.pos,
                       "create_production_order", "log_production")
      BY <2>1, <2>2 DEF LoggedBut
    <2> QED BY <2>2, <2>3 DEF Recorded
  <1>5. Recorded(db, txn.todo)' /\ (Open => Recorded(txn.before, <<>>))'
    BY <1>1, <1>2, <1>3, <1>4
  <1>6. /\ Paired(txn.todo, "create_order", "log_order")'
        /\ Paired(txn.todo, "create_production_order", "log_production")'
    BY <1>2 DEF WellOrdered
  <1> QED BY <1>5, <1>6 DEF EventInv

LEMMA WholeWithin ==
    ASSUME NEW d \in Tables, NEW o, NEW items \in Nat, NEW planned \in Nat,
           NEW more \in Nat, NEW later \in Nat, items <= more, planned <= later,
           Whole(d, o, items, planned)
    PROVE  Whole(d, o, more, later)
  <1>1. \A i \in DOMAIN d.items : i \in Nat /\ (i <= items => i <= more)
    BY TablesAre, Domains
  <1>2. \A k \in DOMAIN d.poItems : k \in Nat /\ (k <= planned => k <= later)
    BY TablesAre, Domains
  <1> QED BY <1>1, <1>2 DEF Whole

\* A view has made nothing yet, and a workflow has all its calls to come.
LEMMA RequestKeepsFlows ==
    ASSUME NumberInv, FlowInv, NEW view \in Views, NEW steps \in Seq(SoundStep),
           WellOrdered(steps), Request(view, steps),
           view = "workflow" => \E p \in Products : steps = WorkflowSteps(p)
    PROVE  FlowInv'
  <1>1. /\ ~Open /\ db' = db /\ flows' = flows
        /\ txn' = [view |-> view, todo |-> steps, before |-> db]
    BY DEF Request
  <1>2. txn'.todo = steps /\ txn'.before = db /\ txn'.view = view /\ view # "none"
    BY <1>1 DEF Views
  <1>3. Len(db.items) \in Nat /\ Len(db.poItems) \in Nat
    BY TablesAre DEF NumberInv
  <1>4. OwnRows(steps, db, db)
    BY DEF WellOrdered, OwnRows, OwnRow
  <1>5. \A o \in flows : Whole(db, o, Len(db.items), Len(db.poItems))
    BY <1>1 DEF FlowInv
  <1>6. ASSUME view = "workflow"
        PROVE  \E p \in Products, n \in 0..12 : AtStep(steps, db, p, n)
    <2>1. PICK p \in Products : steps = WorkflowSteps(p)
      BY <1>6
    <2>2. AtStep(steps, db, p, 0)
      BY <2>1, WorkflowCalls DEF AtStep, Made
    <2> QED BY <2>2
  <1>7. (~Open => \A o \in flows : Whole(db, o, Len(db.items), Len(db.poItems)))'
    BY <1>2 DEF Open
  <1>8. (Len(txn.before.items) <= Len(db.items) /\ Len(txn.before.poItems) <= Len(db.poItems))'
    BY <1>1, <1>2, <1>3
  <1>9. OwnRows(txn.todo, db, txn.before)'
    BY <1>1, <1>2, <1>4
  <1>10. (\A o \in flows : \A d \in {db, txn.before} :
              Whole(d, o, Len(txn.before.items), Len(txn.before.poItems)))'
    BY <1>1, <1>2, <1>5
  <1>11. (txn.view = "workflow" => \E p \in Products, n \in 0..12 : AtStep(txn.todo, db, p, n))'
    BY <1>1, <1>2, <1>6
  <1> QED BY <1>7, <1>8, <1>9, <1>10, <1>11 DEF FlowInv

\* What the next call of a transaction does to the two views of the tables.
LEMMA CallIs ==
    ASSUME NumberInv, Call
    PROVE  /\ Open /\ txn \in [view: Views, todo: Seq(SoundStep), before: Tables]
           /\ txn.todo \in Seq(SoundStep) /\ txn.todo # <<>> /\ txn.before \in Tables
           /\ Head(txn.todo) \in SoundStep /\ ~Raises(db, Head(txn.todo))
           /\ db \in Tables /\ db' \in Tables /\ db' = Done(db, Head(txn.todo))
           /\ txn'.todo = Tail(txn.todo) /\ txn'.before = txn.before /\ txn'.view = txn.view
           /\ flows' = flows
  <1>1. /\ Open /\ txn.todo # <<>> /\ ~Raises(db, Head(txn.todo))
        /\ db' = Done(db, Head(txn.todo)) /\ txn' = [txn EXCEPT !.todo = Tail(@)]
        /\ flows' = flows
    BY DEF Call
  <1>2. txn \in [view: Views, todo: Seq(SoundStep), before: Tables] /\ db \in Tables
    BY <1>1 DEF NumberInv, SoundTxn, Open, NoTxn
  <1>3. NumberInv'
    BY NextKeepsNumbers DEF Next
  <1>4. db' \in Tables
    BY <1>3 DEF NumberInv
  <1>5. Head(txn.todo) \in SoundStep
    BY <1>1, <1>2, HeadTailProperties
  <1> QED BY <1>1, <1>2, <1>4, <1>5

LEMMA CallKeepsEvents ==
    ASSUME NumberInv, EventInv, Call
    PROVE  EventInv'
  <1>1. /\ txn.todo \in Seq(SoundStep) /\ txn.todo # <<>> /\ ~Raises(db, Head(txn.todo))
        /\ db \in Tables /\ db' \in Tables /\ db' = Done(db, Head(txn.todo))
        /\ txn'.todo = Tail(txn.todo) /\ txn'.before = txn.before /\ Open
    BY CallIs
  <1>2. /\ Recorded(db, txn.todo) /\ Recorded(txn.before, <<>>)
        /\ Paired(txn.todo, "create_order", "log_order")
        /\ Paired(txn.todo, "create_production_order", "log_production")
    BY <1>1 DEF EventInv
  <1>3. Recorded(db', Tail(txn.todo))
    BY <1>1, <1>2, CallRecords
  <1>4. /\ Paired(Tail(txn.todo), "create_order", "log_order")
        /\ Paired(Tail(txn.todo), "create_production_order", "log_production")
    BY <1>1, <1>2, PairedRest
  <1>5. Recorded(db, txn.todo)' /\ (Open => Recorded(txn.before, <<>>))'
    BY <1>1, <1>2, <1>3
  <1>6. /\ Paired(txn.todo, "create_order", "log_order")'
        /\ Paired(txn.todo, "create_production_order", "log_production")'
    BY <1>1, <1>4
  <1> QED BY <1>5, <1>6 DEF EventInv

\* A call of a transaction makes the rows that later calls change, and changes no
\* row that was there before.
LEMMA CallKeepsRows ==
    ASSUME NumberInv, FlowInv, Call
    PROVE  /\ Len(txn.before.items) <= Len(db'.items)
           /\ Len(txn.before.poItems) <= Len(db'.poItems)
           /\ OwnRows(Tail(txn.todo), db', txn.before)
           /\ Extends(db, db', Len(txn.before.items), Len(txn.before.poItems))
  <1> DEFINE s == Head(txn.todo)
             items == Len(txn.before.items)
             planned == Len(txn.before.poItems)
  <1>1. /\ Open /\ txn.todo \in Seq(SoundStep) /\ txn.todo # <<>> /\ txn.before \in Tables
        /\ s \in SoundStep /\ ~Raises(db, s)
        /\ db \in Tables /\ db' \in Tables /\ db' = Done(db, s)
    BY CallIs
  <1>2. /\ items <= Len(db.items) /\ planned <= Len(db.poItems)
        /\ OwnRow(txn.todo, {"create_requirements"}, "add_item", items < Len(db.items))
        /\ OwnRow(txn.todo, {"create_operations", "run_operations"}, "add_production_order_item",
                  planned < Len(db.poItems))
    BY <1>1 DEF FlowInv, OwnRows
  <1>3. /\ items \in Nat /\ planned \in Nat /\ Len(db.items) \in Nat /\ Len(db.poItems) \in Nat
        /\ Len(db'.items) \in Nat /\ Len(db'.poItems) \in Nat
    BY <1>1, TablesAre
  <1>4. /\ OwnRow(Tail(txn.todo), {"create_requirements"}, "add_item",
                  items < Len(db.items) \/ s.call = "add_item")
        /\ s.call \in {"create_requirements"} => items < Len(db.items)
    <2> DEFINE made == items < Len(db.items)
    <2>1. made \in BOOLEAN /\ OwnRow(txn.todo, {"create_requirements"}, "add_item", made)
      BY <1>2
    <2> HIDE DEF made
    <2>2. /\ OwnRow(Tail(txn.todo), {"create_requirements"}, "add_item",
                    made \/ Head(txn.todo).call = "add_item")
          /\ Head(txn.todo).call \in {"create_requirements"} => made
      BY <1>1, <2>1, OwnRest
    <2> QED BY <2>2 DEF made
  <1>5. /\ OwnRow(Tail(txn.todo), {"create_operations", "run_operations"},
                  "add_production_order_item",
                  planned < Len(db.poItems) \/ s.call = "add_production_order_item")
        /\ s.call \in {"create_operations", "run_operations"} => planned < Len(db.poItems)
    <2> DEFINE made == planned < Len(db.poItems)
               users == {"create_operations", "run_operations"}
    <2>1. made \in BOOLEAN /\ OwnRow(txn.todo, users, "add_production_order_item", made)
      BY <1>2
    <2> HIDE DEF made, users
    <2>2. /\ OwnRow(Tail(txn.todo), users, "add_production_order_item",
                    made \/ Head(txn.todo).call = "add_production_order_item")
          /\ Head(txn.todo).call \in users => made
      BY <1>1, <2>1, OwnRest
    <2> QED BY <2>2 DEF made, users
  <1>6. IF s.call = "add_item" THEN Len(Done(db, s).items) = Len(db.items) + 1
                               ELSE Len(Done(db, s).items) = Len(db.items)
    BY <1>1, DoneGrows
  <1>7. IF s.call = "add_production_order_item"
        THEN Len(Done(db, s).poItems) = Len(db.poItems) + 1
        ELSE Len(Done(db, s).poItems) = Len(db.poItems)
    BY <1>1, DoneGrows
  <1>8. Extends(db, Done(db, s), items, planned)
    BY <1>1, <1>3, <1>4, <1>5, DoneExtends
  <1> HIDE DEF s, items, planned
  <1>9. /\ items <= Len(db'.items)
        /\ items < Len(db.items) \/ s.call = "add_item" => items < Len(db'.items)
    BY <1>1, <1>2, <1>3, <1>6
  <1>10. /\ planned <= Len(db'.poItems)
         /\ planned < Len(db.poItems) \/ s.call = "add_production_order_item"
                => planned < Len(db'.poItems)
    BY <1>1, <1>2, <1>3, <1>7
  <1>11. OwnRow(Tail(txn.todo), {"create_requirements"}, "add_item", items < Len(db'.items))
    BY <1>4, <1>9 DEF OwnRow
  <1>12. OwnRow(Tail(txn.todo), {"create_operations", "run_operations"},
                "add_production_order_item", planned < Len(db'.poItems))
    BY <1>5, <1>10 DEF OwnRow
  <1> QED BY <1>1, <1>8, <1>9, <1>10, <1>11, <1>12 DEF OwnRows, items, planned

\* A workflow is one call further.
LEMMA CallKeepsStep ==
    ASSUME NumberInv, Call, NEW p \in Products, NEW n \in 0..12, AtStep(txn.todo, db, p, n)
    PROVE  n + 1 \in 0..12 /\ AtStep(Tail(txn.todo), db', p, n + 1)
  <1> DEFINE todo == txn.todo
  <1>1. /\ todo \in Seq(SoundStep) /\ todo # <<>> /\ Head(todo) \in SoundStep
        /\ ~Raises(db, Head(todo)) /\ db \in Tables /\ db' = Done(db, Head(todo))
    BY CallIs
  <1>2. /\ Len(todo) = 12 - n /\ Made(db, p, n)
        /\ \A j \in 1..12 - n : todo[j] = WorkflowSteps(p)[n + j]
    BY DEF AtStep
  <1> HIDE DEF todo
  <1>3. /\ 1 \in DOMAIN todo /\ DOMAIN todo = 1..Len(todo) /\ todo[1] = Head(todo)
        /\ Len(Tail(todo)) = Len(todo) - 1 /\ DOMAIN Tail(todo) = 1..(Len(todo) - 1)
        /\ \A j \in DOMAIN Tail(todo) : j + 1 \in DOMAIN todo /\ Tail(todo)[j] = todo[j + 1]
    BY <1>1, Rest
  <1>4. n \in 0..11 /\ n + 1 \in 0..12
    BY <1>2, <1>3
  <1>5. Head(todo) = WorkflowSteps(p)[n + 1]
    BY <1>2, <1>3, <1>4
  <1>6. Made(db', p, n + 1)
    BY <1>1, <1>2, <1>4, <1>5, MadeNext
  <1>7. Len(Tail(todo)) = 12 - (n + 1)
    BY <1>2, <1>3, <1>4
  <1>8. ASSUME NEW j \in 1..12 - (n + 1)
        PROVE  Tail(todo)[j] = WorkflowSteps(p)[(n + 1) + j]
    <2>1. j + 1 \in 1..12 - n /\ n + (j + 1) = (n + 1) + j
      BY <1>4
    <2>2. j \in DOMAIN Tail(todo)
      BY <1>2, <1>3, <1>4
    <2>3. todo[j + 1] = WorkflowSteps(p)[n + (j + 1)]
      BY <1>2, <2>1
    <2> QED BY <1>3, <2>1, <2>2, <2>3
  <1> QED BY <1>4, <1>6, <1>7, <1>8 DEF AtStep, todo

LEMMA CallKeepsFlows ==
    ASSUME NumberInv, FlowInv, Call
    PROVE  FlowInv'
  <1>1. /\ Open /\ txn'.todo = Tail(txn.todo) /\ txn'.before = txn.before
        /\ txn'.view = txn.view /\ flows' = flows
    BY CallIs
  <1>2. /\ Len(txn.before.items) <= Len(db'.items)
        /\ Len(txn.before.poItems) <= Len(db'.poItems)
        /\ OwnRows(Tail(txn.todo), db', txn.before)
        /\ Extends(db, db', Len(txn.before.items), Len(txn.before.poItems))
    BY CallKeepsRows
  <1>3. ASSUME NEW o \in flows
        PROVE  /\ Whole(db', o, Len(txn.before.items), Len(txn.before.poItems))
               /\ Whole(txn.before, o, Len(txn.before.items), Len(txn.before.poItems))
    <2>1. \A d \in {db, txn.before} : Whole(d, o, Len(txn.before.items), Len(txn.before.poItems))
      BY <1>1 DEF FlowInv
    <2> QED BY <1>2, <2>1, ExtendsKeepsWhole
  <1>4. ASSUME txn.view = "workflow"
        PROVE  \E p \in Products, n \in 0..12 : AtStep(Tail(txn.todo), db', p, n)
    <2>1. PICK p \in Products, n \in 0..12 : AtStep(txn.todo, db, p, n)
      BY <1>4 DEF FlowInv
    <2> QED BY <2>1, CallKeepsStep
  <1>5. (~Open => \A o \in flows : Whole(db, o, Len(db.items), Len(db.poItems)))'
    BY <1>1 DEF Open
  <1>6. (Len(txn.before.items) <= Len(db.items) /\ Len(txn.before.poItems) <= Len(db.poItems))'
    BY <1>1, <1>2
  <1>7. OwnRows(txn.todo, db, txn.before)'
    BY <1>1, <1>2
  <1>8. (\A o \in flows : \A d \in {db, txn.before} :
             Whole(d, o, Len(txn.before.items), Len(txn.before.poItems)))'
    BY <1>1, <1>3
  <1>9. (txn.view = "workflow" => \E p \in Products, n \in 0..12 : AtStep(txn.todo, db, p, n))'
    BY <1>1, <1>4
  <1> QED BY <1>5, <1>6, <1>7, <1>8, <1>9 DEF FlowInv

\* A workflow that is answered has made all of its documents.
LEMMA AllIsMade ==
    ASSUME NEW d \in Tables, NEW p \in Products, NEW n \in 0..12, AtStep(<<>>, d, p, n)
    PROVE  Whole(d, Len(d.orders), Len(d.items), Len(d.poItems))
  <1>1. n = 12 /\ Made(d, p, 12)
    BY DEF AtStep
  <1>2. /\ Len(d.items) \in DOMAIN d.items /\ Len(d.pos) \in DOMAIN d.pos
        /\ Len(d.poItems) \in DOMAIN d.poItems
        /\ Len(d.inspections) \in DOMAIN d.inspections
        /\ Len(d.packages) \in DOMAIN d.packages /\ Len(d.shipments) \in DOMAIN d.shipments
        /\ Len(d.items) <= Len(d.items) /\ Len(d.poItems) <= Len(d.poItems)
    BY <1>1, TablesAre, Domains DEF Made
  <1>3. /\ d.items[Len(d.items)].order = Len(d.orders)
        /\ d.pos[Len(d.pos)].order = Len(d.orders)
        /\ d.poItems[Len(d.poItems)].po = Len(d.pos)
        /\ d.poItems[Len(d.poItems)].item = Len(d.items)
        /\ d.items[Len(d.items)].needs = d.poItems[Len(d.poItems)].rules
        /\ d.poItems[Len(d.poItems)].done = d.poItems[Len(d.poItems)].operations
        /\ d.inspections[Len(d.inspections)].po = Len(d.pos)
        /\ d.packages[Len(d.packages)].item = Len(d.items)
        /\ d.shipments[Len(d.shipments)].order = Len(d.orders)
    BY <1>1 DEF Made
  <1> QED BY <1>2, <1>3 DEF Whole

LEMMA CommitKeeps ==
    ASSUME NumberInv, EventInv, FlowInv, Commit
    PROVE  EventInv' /\ FlowInv'
  <1>1. /\ Open /\ txn.todo = <<>> /\ txn' = NoTxn /\ db' = db
        /\ flows' = IF txn.view = "workflow" THEN flows \cup {Len(db.orders)} ELSE flows
    BY DEF Commit
  <1>2. txn'.todo = <<>> /\ txn'.view = "none" /\ ~Open'
    BY <1>1 DEF NoTxn, Open
  <1>3. db \in Tables /\ txn.before \in Tables
    BY <1>1 DEF NumberInv, SoundTxn, Open, NoTxn
  <1>4. /\ Len(db.items) \in Nat /\ Len(db.poItems) \in Nat
        /\ Len(txn.before.items) \in Nat /\ Len(txn.before.poItems) \in Nat
        /\ Len(txn.before.items) <= Len(db.items) /\ Len(txn.before.poItems) <= Len(db.poItems)
    BY <1>1, <1>3, TablesAre DEF FlowInv
  <1>5. Recorded(db, <<>>)
    BY <1>1 DEF EventInv
  <1>6. EventInv'
    BY <1>1, <1>2, <1>5, NothingPaired DEF EventInv
  <1>7. ASSUME NEW o \in flows
        PROVE  Whole(db, o, Len(db.items), Len(db.poItems))
    <2>1. Whole(db, o, Len(txn.before.items), Len(txn.before.poItems))
      BY <1>1 DEF FlowInv
    <2> QED BY <1>3, <1>4, <2>1, WholeWithin
  <1>8. ASSUME txn.view = "workflow"
        PROVE  Whole(db, Len(db.orders), Len(db.items), Len(db.poItems))
    <2>1. PICK p \in Products, n \in 0..12 : AtStep(txn.todo, db, p, n)
      BY <1>8 DEF FlowInv
    <2> QED BY <1>1, <1>3, <2>1, AllIsMade
  <1>9. FlowInv'
    BY <1>1, <1>2, <1>7, <1>8 DEF FlowInv
  <1> QED BY <1>6, <1>9

\* A transaction that is rolled back leaves what it was opened on.
LEMMA UndoKeeps ==
    ASSUME NumberInv, EventInv, FlowInv, Open, Undo, flows' = flows
    PROVE  EventInv' /\ FlowInv'
  <1>1. txn' = NoTxn /\ db' = txn.before
    BY DEF Undo
  <1>2. txn'.todo = <<>> /\ txn'.view = "none" /\ ~Open'
    BY <1>1 DEF NoTxn, Open
  <1>3. EventInv'
    BY <1>1, <1>2, NothingPaired DEF EventInv
  <1>4. \A o \in flows : Whole(txn.before, o, Len(txn.before.items), Len(txn.before.poItems))
    BY DEF FlowInv
  <1>5. FlowInv'
    BY <1>1, <1>2, <1>4 DEF FlowInv
  <1> QED BY <1>3, <1>5

\* A service outside a transaction that keeps the events of its tables, and the
\* documents of every order.
LEMMA ServiceKeepsAll ==
    ASSUME NumberInv, EventInv, FlowInv, NEW d, Service(d), d \in Tables, Recorded(d, <<>>),
           Extends(db, d, Len(db.items), Len(db.poItems)),
           Len(d.items) = Len(db.items), Len(d.poItems) = Len(db.poItems)
    PROVE  EventInv' /\ FlowInv'
  <1>1. ~Open /\ db' = d /\ txn' = txn /\ flows' = flows
    BY DEF Service
  <1>2. txn'.todo = <<>> /\ txn'.view = "none" /\ ~Open'
    BY <1>1, NothingToCome DEF NoTxn, Open
  <1>3. EventInv'
    BY <1>1, <1>2, NothingPaired DEF EventInv
  <1>4. \A o \in flows : Whole(d, o, Len(d.items), Len(d.poItems))
    BY <1>1, ExtendsKeepsWhole DEF FlowInv
  <1>5. FlowInv'
    BY <1>1, <1>2, <1>4 DEF FlowInv
  <1> QED BY <1>3, <1>5

\* The changes that such a service makes: statuses, and rework orders.
LEMMA SameRows ==
    ASSUME NEW d \in Tables, NEW e, Recorded(d, <<>>),
           e.orders = d.orders, e.items = d.items, e.pos = d.pos, e.poItems = d.poItems,
           e.inspections = d.inspections, e.issues = d.issues,
           DOMAIN e.packages = DOMAIN d.packages, DOMAIN e.shipments = DOMAIN d.shipments,
           \A q \in DOMAIN d.packages : e.packages[q].item = d.packages[q].item,
           \A q \in DOMAIN d.shipments : e.shipments[q].order = d.shipments[q].order,
           \A name \in EventNames \ {"rework"} :
               \A x : x \in Named(e.events, name) <=> x \in Named(d.events, name)
    PROVE  Recorded(e, <<>>) /\ Extends(d, e, Len(d.items), Len(d.poItems))
  <1>1. \A name \in EventNames \ {"rework"} : Named(e.events, name) = Named(d.events, name)
    OBVIOUS
  <1>2. /\ "order" \in EventNames /\ "production order" \in EventNames
        /\ "inspection" \in EventNames /\ "package" \in EventNames
        /\ "shipment" \in EventNames /\ "issue" \in EventNames
    BY DEF EventNames
  <1>3. /\ Named(e.events, "order") = Named(d.events, "order")
        /\ Named(e.events, "production order") = Named(d.events, "production order")
        /\ Named(e.events, "inspection") = Named(d.events, "inspection")
        /\ Named(e.events, "package") = Named(d.events, "package")
        /\ Named(e.events, "shipment") = Named(d.events, "shipment")
        /\ Named(e.events, "issue") = Named(d.events, "issue")
    BY <1>1, <1>2
  <1>4. /\ Named(d.events, "order") = DOMAIN d.orders
        /\ Named(d.events, "production order") = DOMAIN d.pos
        /\ Named(d.events, "inspection") = DOMAIN d.inspections
        /\ Named(d.events, "package") = DOMAIN d.packages
        /\ Named(d.events, "shipment") = DOMAIN d.shipments
        /\ Named(d.events, "issue") = DOMAIN d.issues
    BY RecordedAll
  <1>5. /\ Named(e.events, "order") = DOMAIN e.orders
        /\ Named(e.events, "production order") = DOMAIN e.pos
        /\ Named(e.events, "inspection") = DOMAIN e.inspections
        /\ Named(e.events, "package") = DOMAIN e.packages
        /\ Named(e.events, "shipment") = DOMAIN e.shipments
        /\ Named(e.events, "issue") = DOMAIN e.issues
    BY <1>3, <1>4
  <1>6. Recorded(e, <<>>)
    BY <1>5, RecordedAll
  <1>7. Extends(d, e, Len(d.items), Len(d.poItems))
    BY DEF Extends
  <1> QED BY <1>6, <1>7

LEMMA StatusKeepsAll ==
    ASSUME NumberInv, EventInv, FlowInv
    PROVE  /\ \A p \in DOMAIN db.packages : ShipPackage(p) => EventInv' /\ FlowInv'
           /\ \A s \in DOMAIN db.shipments :
                 MarkInTransit(s) \/ MarkDelivered(s) => EventInv' /\ FlowInv'
  <1>0. db \in Tables
    BY DEF NumberInv
  <1>1. ASSUME NEW p \in DOMAIN db.packages, ShipPackage(p)
        PROVE  EventInv' /\ FlowInv'
    <2> DEFINE row == [db.packages[p] EXCEPT !.status = "shipped"]
               d == [db EXCEPT !.packages = [@ EXCEPT ![p] = row]]
    <2>1. Service(d) /\ db' = d /\ ~Open
      BY <1>1 DEF ShipPackage, Service
    <2>2. db.packages \in Seq(PackageRow) /\ db.packages[p] \in PackageRow
      BY <1>0, TablesAre, RowOf
    <2>3. row \in PackageRow /\ row.item = db.packages[p].item
      BY <2>2 DEF PackageRow
    <2> HIDE DEF row
    <2>4. /\ DOMAIN [db.packages EXCEPT ![p] = row] = DOMAIN db.packages
          /\ \A q \in DOMAIN db.packages :
                [db.packages EXCEPT ![p] = row][q] = IF q = p THEN row ELSE db.packages[q]
      BY <2>2, <2>3, Changed
    <2>5. /\ d.packages = [db.packages EXCEPT ![p] = row] /\ d.orders = db.orders
          /\ d.items = db.items /\ d.pos = db.pos /\ d.poItems = db.poItems
          /\ d.inspections = db.inspections /\ d.shipments = db.shipments
          /\ d.issues = db.issues /\ d.events = db.events
      BY <1>0 DEF Tables
    <2>6. d \in Tables
      <3>1. NumberInv'
        BY <1>1, NextKeepsNumbers DEF Next
      <3> QED BY <2>1, <3>1 DEF NumberInv
    <2> HIDE DEF d
    <2>7. Recorded(db, <<>>)
      BY <2>1, NothingToCome DEF EventInv
    <2>8. Recorded(d, <<>>) /\ Extends(db, d, Len(db.items), Len(db.poItems))
      BY <1>0, <2>3, <2>4, <2>5, <2>7, SameRows
    <2> QED BY <2>1, <2>5, <2>6, <2>8, ServiceKeepsAll
  <1>2. ASSUME NEW s \in DOMAIN db.shipments, MarkInTransit(s) \/ MarkDelivered(s)
        PROVE  EventInv' /\ FlowInv'
    <2>0. PICK status \in {"in_transit", "delivered"} :
              Service([db EXCEPT !.shipments[s].status = status])
      BY <1>2 DEF MarkInTransit, MarkDelivered
    <2> DEFINE row == [db.shipments[s] EXCEPT !.status = status]
               d == [db EXCEPT !.shipments = [@ EXCEPT ![s] = row]]
    <2>1. Service(d) /\ db' = d /\ ~Open
      BY <2>0 DEF Service
    <2>2. db.shipments \in Seq(ShipmentRow) /\ db.shipments[s] \in ShipmentRow
      BY <1>0, TablesAre, RowOf
    <2>3. row \in ShipmentRow /\ row.order = db.shipments[s].order
      BY <2>2 DEF ShipmentRow
    <2> HIDE DEF row
    <2>4. /\ DOMAIN [db.shipments EXCEPT ![s] = row] = DOMAIN db.shipments
          /\ \A q \in DOMAIN db.shipments :
                [db.shipments EXCEPT ![s] = row][q] = IF q = s THEN row ELSE db.shipments[q]
      BY <2>2, <2>3, Changed
    <2>5. /\ d.shipments = [db.shipments EXCEPT ![s] = row] /\ d.orders = db.orders
          /\ d.items = db.items /\ d.pos = db.pos /\ d.poItems = db.poItems
          /\ d.inspections = db.inspections /\ d.packages = db.packages
          /\ d.issues = db.issues /\ d.events = db.events
      BY <1>0 DEF Tables
    <2>6. d \in Tables
      <3>1. NumberInv'
        BY <1>2, NextKeepsNumbers DEF Next
      <3> QED BY <2>1, <3>1 DEF NumberInv
    <2> HIDE DEF d
    <2>7. Recorded(db, <<>>)
      BY <2>1, NothingToCome DEF EventInv
    <2>8. Recorded(d, <<>>) /\ Extends(db, d, Len(db.items), Len(db.poItems))
      BY <1>0, <2>3, <2>4, <2>5, <2>7, SameRows
    <2> QED BY <2>1, <2>5, <2>6, <2>8, ServiceKeepsAll
  <1> QED BY <1>1, <1>2

LEMMA ReworkKeepsAll ==
    ASSUME NumberInv, EventInv, FlowInv
    PROVE  /\ \A i \in DOMAIN db.inspections : CreateRework(i) => EventInv' /\ FlowInv'
           /\ \A r \in DOMAIN db.reworks :
                 StartRework(r) \/ CompleteRework(r) => EventInv' /\ FlowInv'
  <1>0. db \in Tables
    BY DEF NumberInv
  <1>1. ASSUME NEW e, NEW id, db' = Logged(e, "rework", id),
               Service(Logged(e, "rework", id)), NumberInv',
               \E reworks : e = [db EXCEPT !.reworks = reworks]
        PROVE  EventInv' /\ FlowInv'
    <2> DEFINE d == Logged(e, "rework", id)
    <2>1. Service(d) /\ db' = d /\ ~Open
      BY <1>1 DEF Service
    <2>2. /\ e.orders = db.orders /\ e.items = db.items /\ e.pos = db.pos
          /\ e.poItems = db.poItems /\ e.inspections = db.inspections
          /\ e.packages = db.packages /\ e.shipments = db.shipments
          /\ e.issues = db.issues /\ e.events = db.events
      BY <1>0, <1>1 DEF Tables
    <2>3. d = [e EXCEPT !.events = @ \cup {<<"rework", id>>}]
          /\ "events" \in DOMAIN e
      BY <1>0, <1>1 DEF Logged, Tables
    <2>4. /\ d.orders = db.orders /\ d.items = db.items /\ d.pos = db.pos
          /\ d.poItems = db.poItems /\ d.inspections = db.inspections
          /\ d.packages = db.packages /\ d.shipments = db.shipments
          /\ d.issues = db.issues /\ d.events = db.events \cup {<<"rework", id>>}
      BY <1>0, <1>1 DEF Logged, Tables
    <2>5. d \in Tables
      BY <1>1, <2>1 DEF NumberInv
    <2> HIDE DEF d
    <2>6. \A name \in EventNames \ {"rework"} :
              \A x : x \in Named(d.events, name) <=> x \in Named(db.events, name)
      <3> SUFFICES ASSUME NEW name \in EventNames \ {"rework"}
                   PROVE  \A x : x \in Named(d.events, name) <=> x \in Named(db.events, name)
        OBVIOUS
      <3>1. \A x : x \in Named(db.events \cup {<<"rework", id>>}, name)
                        <=> x \in Named(db.events, name)
        BY OthersNamed
      <3> QED BY <2>4, <3>1
    <2>7. Recorded(db, <<>>)
      BY <2>1, NothingToCome DEF EventInv
    <2>8. Recorded(d, <<>>) /\ Extends(db, d, Len(db.items), Len(db.poItems))
      BY <1>0, <2>4, <2>6, <2>7, SameRows
    <2> QED BY <2>1, <2>4, <2>5, <2>8, ServiceKeepsAll
  <1>2. ASSUME NEW i \in DOMAIN db.inspections, CreateRework(i)
        PROVE  EventInv' /\ FlowInv'
    <2>1. NumberInv'
      BY <1>2, NextKeepsNumbers DEF Next
    <2> DEFINE e == [db EXCEPT !.reworks =
                        Append(@, [inspection |-> i, day |-> day, number |-> NextRework(db),
                                   status |-> "draft"])]
               id == Len(db.reworks) + 1
    <2>2. Service(Logged(e, "rework", id)) /\ \E reworks : e = [db EXCEPT !.reworks = reworks]
      BY <1>2 DEF CreateRework
    <2> HIDE DEF e, id
    <2>3. db' = Logged(e, "rework", id)
      BY <2>2 DEF Service
    <2> QED BY <1>1, <2>1, <2>2, <2>3
  <1>3. ASSUME NEW r \in DOMAIN db.reworks, StartRework(r) \/ CompleteRework(r)
        PROVE  EventInv' /\ FlowInv'
    <2>1. NumberInv'
      BY <1>3, NextKeepsNumbers DEF Next
    <2>2. PICK status : Service(Logged([db EXCEPT !.reworks[r].status = status], "rework", r))
      BY <1>3 DEF StartRework, CompleteRework
    <2> DEFINE e == [db EXCEPT !.reworks[r].status = status]
    <2>3. \E reworks : e = [db EXCEPT !.reworks = reworks]
      OBVIOUS
    <2>4. Service(Logged(e, "rework", r))
      BY <2>2
    <2> HIDE DEF e
    <2>5. db' = Logged(e, "rework", r)
      BY <2>4 DEF Service
    <2> QED BY <1>1, <2>1, <2>3, <2>4, <2>5
  <1> QED BY <1>2, <1>3

LEMMA InitKeepsAll == ASSUME Init PROVE EventInv /\ FlowInv
  <1>1. txn.todo = <<>> /\ txn.view = "none" /\ ~Open /\ flows = {}
    BY DEF Init, NoTxn, Open
  <1>2. \A name : Named({}, name) = {}
    BY DEF Named
  <1>3. /\ db.events = {} /\ DOMAIN db.orders = {} /\ DOMAIN db.pos = {}
        /\ DOMAIN db.inspections = {} /\ DOMAIN db.packages = {}
        /\ DOMAIN db.shipments = {} /\ DOMAIN db.issues = {}
    BY DEF Init
  <1>4. Recorded(db, <<>>)
    BY <1>2, <1>3, RecordedAll
  <1> QED BY <1>1, <1>4, NothingPaired DEF EventInv, FlowInv

LEMMA NextKeepsAll ==
    ASSUME NumberInv, EventInv, FlowInv, [Next]_vars
    PROVE  EventInv' /\ FlowInv'
  <1>0. ASSUME NEW view \in Views, NEW steps \in Seq(SoundStep), WellOrdered(steps),
               Request(view, steps),
               view = "workflow" => \E p \in Products : steps = WorkflowSteps(p)
        PROVE  EventInv' /\ FlowInv'
    BY <1>0, RequestKeepsEvents, RequestKeepsFlows
  <1>1. CASE PostOrder
    <2>1. PICK n \in OrderNumbers, p \in Products, k \in 0..MaxItems :
              Request("order", OrderSteps(n, p, k))
      BY <1>1 DEF PostOrder
    <2>2. n \in Nat /\ k \in Nat
      BY DocumentsAssumption
    <2>3. OrderSteps(n, p, k) \in Seq(SoundStep) /\ WellOrdered(OrderSteps(n, p, k))
      BY <2>2, OrderStepsAreSound, OrderStepsAreOrdered
    <2> QED BY <1>0, <2>1, <2>3 DEF Views
  <1>2. CASE PostProduction
    <2>1. PICK o \in DOMAIN db.orders, i \in DOMAIN db.items, p \in Products :
              Request("production", ProductionSteps(o, i, p))
      BY <1>2 DEF PostProduction
    <2>2. o \in Nat /\ i \in Nat
      BY TablesAre, Domains DEF NumberInv
    <2>3. ProductionSteps(o, i, p) \in Seq(SoundStep) /\ WellOrdered(ProductionSteps(o, i, p))
      BY <2>2, ProductionStepsAreSound, ProductionStepsAreOrdered
    <2> QED BY <1>0, <2>1, <2>3 DEF Views
  <1>3. CASE PostIssue
    <2>1. PICK key \in Keys, k \in 0..MaxItems : Request("issue", IssueSteps(key, k))
      BY <1>3 DEF PostIssue
    <2>2. key \in Nat /\ k \in Nat
      BY DocumentsAssumption
    <2>3. IssueSteps(key, k) \in Seq(SoundStep) /\ WellOrdered(IssueSteps(key, k))
      BY <2>2, IssueStepsAreSound, IssueStepsAreOrdered
    <2> QED BY <1>0, <2>1, <2>3 DEF Views
  <1>4. CASE PostInspection
    <2>1. PICK po \in DOMAIN db.pos, k \in 0..MaxItems :
              Request("inspection", InspectionSteps(po, k))
      BY <1>4 DEF PostInspection
    <2>2. po \in Nat /\ k \in Nat
      BY TablesAre, Domains, DocumentsAssumption DEF NumberInv
    <2>3. InspectionSteps(po, k) \in Seq(SoundStep) /\ WellOrdered(InspectionSteps(po, k))
      BY <2>2, InspectionStepsAreSound, InspectionStepsAreOrdered
    <2> QED BY <1>0, <2>1, <2>3 DEF Views
  <1>5. CASE PostShipment
    <2>1. PICK o \in DOMAIN db.orders, n \in ShipNumbers : Request("shipment", ShipmentSteps(o, n))
      BY <1>5 DEF PostShipment
    <2>2. o \in Nat
      BY TablesAre, Domains DEF NumberInv
    <2>3. ShipmentSteps(o, n) \in Seq(SoundStep) /\ WellOrdered(ShipmentSteps(o, n))
      BY <2>2, ShipmentStepsAreSound, ShipmentStepsAreOrdered, DocumentsAssumption
    <2> QED BY <1>0, <2>1, <2>3 DEF Views
  <1>6. CASE PostWorkflow
    <2>1. PICK p \in Products : Request("workflow", WorkflowSteps(p))
      BY <1>6 DEF PostWorkflow
    <2>2. WorkflowSteps(p) \in Seq(SoundStep) /\ WellOrdered(WorkflowSteps(p))
      BY WorkflowStepsAreSound, WorkflowStepsAreOrdered
    <2> QED BY <1>0, <2>1, <2>2 DEF Views
  <1>7. CASE Call
    BY <1>7, CallKeepsEvents, CallKeepsFlows
  <1>8. CASE Commit
    BY <1>8, CommitKeeps
  <1>9. CASE Raise \/ Crash
    BY <1>9, UndoKeeps DEF Raise, Crash
  <1>10. CASE NextDay \/ UNCHANGED vars
    <2>1. db' = db /\ txn' = txn /\ flows' = flows
      BY <1>10 DEF NextDay, vars
    <2>2. EventInv'
      BY <2>1 DEF EventInv, Open
    <2> QED BY <2>1, <2>2 DEF FlowInv, Open
  <1>11. CASE \/ \E p \in DOMAIN db.packages : ShipPackage(p)
              \/ \E s \in DOMAIN db.shipments : MarkInTransit(s) \/ MarkDelivered(s)
    BY <1>11, StatusKeepsAll
  <1>12. CASE \/ \E i \in DOMAIN db.inspections : CreateRework(i)
              \/ \E r \in DOMAIN db.reworks : StartRework(r) \/ CompleteRework(r)
    BY <1>12, ReworkKeepsAll
  <1> QED BY <1>1, <1>2, <1>3, <1>4, <1>5, <1>6, <1>7, <1>8, <1>9, <1>10, <1>11, <1>12 DEF Next

LEMMA WholeIsDone ==
    ASSUME NEW d \in Tables, NEW o, NEW items, NEW planned, Whole(d, o, items, planned)
    PROVE  \E i \in DOMAIN d.items, p \in DOMAIN d.pos, k \in DOMAIN d.poItems :
        /\ d.items[i].order = o /\ d.pos[p].order = o
        /\ d.poItems[k].po = p /\ d.poItems[k].item = i
        /\ d.items[i].needs = d.poItems[k].rules
        /\ d.poItems[k].done = d.poItems[k].operations
        /\ \E q \in DOMAIN d.inspections : d.inspections[q].po = p
        /\ \E q \in DOMAIN d.packages : d.packages[q].item = i
        /\ \E q \in DOMAIN d.shipments : d.shipments[q].order = o
  BY DEF Whole

LEMMA NothingIsHalfDone == ASSUME NumberInv, EventInv, FlowInv PROVE NothingHalfDone
  <1>1. \A o \in flows : \E items, planned : Whole(db, o, items, planned)
    BY DEF FlowInv
  <1>2. WorkflowIsWhole
    BY <1>1, WholeIsDone DEF WorkflowIsWhole, NumberInv
  <1>3. ASSUME ~Open
        PROVE  /\ Named(db.events, "order") = DOMAIN db.orders
               /\ Named(db.events, "production order") = DOMAIN db.pos
               /\ Named(db.events, "inspection") = DOMAIN db.inspections
               /\ Named(db.events, "package") = DOMAIN db.packages
               /\ Named(db.events, "shipment") = DOMAIN db.shipments
               /\ Named(db.events, "issue") = DOMAIN db.issues
    <2>1. Recorded(db, <<>>)
      BY <1>3, NothingToCome DEF EventInv
    <2> QED BY <2>1, RecordedAll
  <1>4. EventsMatchDocuments
    BY <1>3 DEF EventsMatchDocuments, Named
  <1> QED BY <1>2, <1>4 DEF NothingHalfDone

\* However many requests are answered, refused at any of their calls or killed
\* between two of them: the order of every workflow that was answered has all of
\* its documents, and between requests the events of a document are its rows.
THEOREM NothingEverHalfDone == Spec => []NothingHalfDone
  <1>1. Init => EventInv /\ FlowInv
    BY InitKeepsAll
  <1>2. NumberInv /\ EventInv /\ FlowInv /\ [Next]_vars => EventInv' /\ FlowInv'
    BY NextKeepsAll
  <1>3. NumberInv /\ EventInv /\ FlowInv => NothingHalfDone
    BY NothingIsHalfDone
  <1> QED BY <1>1, <1>2, <1>3, NumbersHold, PTL DEF Spec
=============================================================================
