----------------------------- MODULE StockBalances -----------------------------
(***************************************************************************)
(* The V2 stock of one item: balances, ledger, lots and reservations of      *)
(* inventory/services.py, and the material issues, consumptions, returns and  *)
(* wastes of warehouse/services.py.                                         *)
(*                                                                         *)
(* Every service is one transaction and loads all its rows inside, so a      *)
(* service is one action, and one that raises takes no step.  An issue and a *)
(* return work through a list of lines: the transaction is open until the     *)
(* last line is done, and a line that raises rolls all of them back.         *)
(*                                                                         *)
(* The ledger rows of a location are modelled by the two values the code      *)
(* promises something about: their sum and the balance_after of the last.   *)
(***************************************************************************)
EXTENDS Integers, SequencesExt

CONSTANTS
    Locations,
    Main,         \* the location that create_item gives a balance
    Lots,
    NoLot,        \* a line without a lot
    Refs,         \* reference_document, reference_id of a reservation
    Keys,         \* idempotency keys of issues and consumptions; '' is one of them
    LineLists,    \* the items_data of issues and returns
    MaxStock,     \* bound: stock of the item in all locations
    MaxLot,       \* bound: quantity of a lot that receipts and transfers reach
    MaxActive     \* bound: active reservations of a reference at a location

Line == [from: Locations, to: Locations, qty: Nat \ {0}, lot: Lots \cup {NoLot}]

ASSUME StockAssumption ==
    /\ IsFiniteSet(Locations)
    /\ Main \in Locations
    /\ IsFiniteSet(Refs)
    /\ NoLot \notin Lots
    /\ LineLists \subseteq Seq(Line)
    /\ MaxStock \in Nat
    /\ MaxLot \in Nat
    /\ MaxActive \in Nat

VARIABLES
    rows,     \* locations that have a StockBalance row
    bal,      \* location -> its StockBalance
    ledger,   \* location -> sum and last balance_after of its StockLedger rows
    lots,     \* location -> lot -> quantity of its StockLot, 0 if there is none
    rsv,      \* location -> reference -> active reservations, newest first
    issues,   \* MaterialIssue rows with their MaterialIssueItem rows
    consumed, \* idempotency keys of the MaterialConsumption rows
    txn       \* the transaction that is open

moved == <<rows, bal, ledger, lots, issues>>
vars == <<rows, bal, ledger, lots, rsv, issues, consumed, txn>>

Balance == [hand: Int, reserved: Int, avail: Int]
Account == [sum: Int, last: Int]
Issue == [key: Keys, lines: LineLists]

\* StockLot rows by their quantity; a row that is not there holds nothing.
StockLots == [Locations -> [Lots -> Nat]]

\* The active StockReservation rows by their quantity.
StockReservations == [Locations -> [Refs -> Seq(Int)]]

\* MaterialConsumption rows by their idempotency key.
Consumptions == SUBSET Keys

Kinds == {"none", "issue", "return"}

\* Before it wrote anything, a transaction saw these tables.
Saved == [rows: SUBSET Locations, bal: [Locations -> Balance],
          ledger: [Locations -> Account], lots: StockLots,
          issues: SUBSET Issue]

Open(kind, todo) ==
    [kind |-> kind, todo |-> todo,
     saved |-> [rows |-> rows, bal |-> bal, ledger |-> ledger, lots |-> lots,
                issues |-> issues]]

\* Nothing is open, and nothing is kept.
Closed == [kind |-> "none", todo |-> <<>>]

\* A service may write: SQLite has one writer.
Free == txn.kind = "none"

Quantity == 1..MaxStock
TotalHand == SumFunction([l \in Locations |-> bal[l].hand])

-----------------------------------------------------------------------------
(* What a movement does to the rows it touches *)

\* quantity_on_hand and quantity_available change together.
Moved(b, d) == [b EXCEPT !.hand = @ + d, !.avail = @ + d]

\* One more ledger row, for a balance that is b now.
Posted(a, d, b) == [sum |-> a.sum + d, last |-> b.hand]

\* The balance exists and covers q.
Coverable(l, q) == l \in rows /\ bal[l].avail >= q

\* A movement of d at one location.
Post(l, d) ==
    LET b == Moved(bal[l], d)
    IN  /\ bal' = [bal EXCEPT ![l] = b]
        /\ ledger' = [ledger EXCEPT ![l] = Posted(@, d, b)]

\* Fault: the row of the target repeats the balance of the source.
Carry_SameBalance(f, t, q) ==
    LET out == [bal EXCEPT ![f] = Moved(@, -q)]
        in == [out EXCEPT ![t] = Moved(@, q)]
        posted == [ledger EXCEPT ![f] = Posted(@, -q, out[f])]
    IN  /\ rows' = rows \cup {t}
        /\ bal' = in
        /\ ledger' = [posted EXCEPT ![t] = Posted(@, q, out[f])]

\* A movement from f to t; t may be f in an issue.
Carry(f, t, q) ==
    LET out == [bal EXCEPT ![f] = Moved(@, -q)]
        in == [out EXCEPT ![t] = Moved(@, q)]
        posted == [ledger EXCEPT ![f] = Posted(@, -q, out[f])]
    IN  /\ rows' = rows \cup {t}
        /\ bal' = in
        /\ ledger' = [posted EXCEPT ![t] = Posted(@, q, in[t])]

\* Fault: a lot is drawn below zero instead of being deleted.
LotCarried_Overdrawn(f, t, n, q) ==
    LET left == [lots EXCEPT ![f][n] = @ - q]
    IN  [left EXCEPT ![t][n] = @ + q]

\* The lot loses q at f, and its row is deleted when nothing is left.
LotCarried(f, t, n, q) ==
    LET left == [lots EXCEPT ![f][n] = IF @ > q THEN @ - q ELSE 0]
    IN  [left EXCEPT ![t][n] = @ + q]

-----------------------------------------------------------------------------
(* inventory/services.py *)

\* receive_stock.
Receive(l, n, q) ==
    /\ Free
    /\ l \in rows
    /\ TotalHand + q <= MaxStock
    /\ lots[l][n] + q <= MaxLot
    /\ lots' = [lots EXCEPT ![l][n] = @ + q]
    /\ Post(l, q)
    /\ UNCHANGED <<rows, rsv, issues, consumed, txn>>

\* reserve_stock.
Reserve(l, ref, q) ==
    /\ Free
    /\ Coverable(l, q)
    /\ Len(rsv[l][ref]) < MaxActive
    /\ bal' = [bal EXCEPT ![l].avail = @ - q, ![l].reserved = @ + q]
    /\ rsv' = [rsv EXCEPT ![l][ref] = <<q>> \o @]
    /\ UNCHANGED <<rows, ledger, lots, issues, consumed, txn>>

\* Fault: what is asked for is released, not what was reserved.
Released_Asked(q, r) == q

Released(q, r) == IF q < r THEN q ELSE r

\* release_reservation: the newest active reservation of the reference.
Release(l, ref, q) ==
    LET s == rsv[l][ref]
        rel == Released(q, Head(s))
    IN  /\ Free
        /\ l \in rows
        /\ s # <<>>
        /\ rsv' = [rsv EXCEPT ![l][ref] = IF rel = Head(s) THEN Tail(s)
                                          ELSE <<Head(s) - rel>> \o Tail(s)]
        /\ bal' = [bal EXCEPT ![l].avail = @ + rel, ![l].reserved = @ - rel]
        /\ UNCHANGED <<rows, ledger, lots, issues, consumed, txn>>

\* transfer_stock, with or without a lot; a lot the source does not have is
\* ignored.
Transfer(f, t, n, q) ==
    /\ Free
    /\ f # t
    /\ Coverable(f, q)
    /\ Carry(f, t, q)
    /\ lots' = IF n # NoLot /\ lots[f][n] > 0 THEN LotCarried(f, t, n, q) ELSE lots
    /\ n # NoLot => lots'[t][n] <= MaxLot
    /\ UNCHANGED <<rsv, issues, consumed, txn>>

\* adjust_stock: what is reserved stays reserved, however little is left.
Adjust(l, d) ==
    LET new == bal[l].hand + d
    IN  /\ Free
        /\ l \in rows
        /\ d # 0 /\ new >= 0
        /\ TotalHand + d <= MaxStock
        /\ bal' = [bal EXCEPT ![l].hand = new, ![l].avail = new - bal[l].reserved]
        /\ ledger' = [ledger EXCEPT ![l] = [sum |-> @.sum + d, last |-> new]]
        /\ UNCHANGED <<rows, lots, rsv, issues, consumed, txn>>

-----------------------------------------------------------------------------
(* warehouse/services.py *)

\* Stock leaves the books; the lot that is named keeps its quantity.
Withdraw(l, q) ==
    /\ Free
    /\ Coverable(l, q)
    /\ Post(l, -q)
    /\ UNCHANGED <<rows, lots, rsv, issues, txn>>

\* waste_material.
Waste(l, q) == Withdraw(l, q) /\ UNCHANGED consumed

\* consume_material, once for each key; '' is one key in the unique column.
Consume(k, l, q) ==
    /\ k \notin consumed
    /\ consumed' = consumed \cup {k}
    /\ Withdraw(l, q)

\* No issue has this key; without a key, '' is what must be unique.
Unused(k) == \A i \in issues : i.key # k

\* issue_material creates the issue and turns to its lines.
BeginIssue(k, lines) ==
    /\ Free
    /\ Unused(k)
    /\ txn' = Open("issue", lines)
    /\ issues' = issues \cup {[key |-> k, lines |-> lines]}
    /\ UNCHANGED <<rows, bal, ledger, lots, rsv, consumed>>

\* The lot row that the caller picked at the source must still be there when
\* the transaction commits.
LotFits(n, f) == n # NoLot => lots[f][n] > 0

LineFits(n) == Coverable(n.from, n.qty) /\ LotFits(n.lot, n.from)

\* One line of an issue.
IssueLine ==
    LET n == Head(txn.todo)
    IN  /\ txn.kind = "issue" /\ txn.todo # <<>>
        /\ LineFits(n)
        /\ Carry(n.from, n.to, n.qty)
        /\ lots' = IF n.lot # NoLot THEN LotCarried(n.from, n.to, n.lot, n.qty)
                                    ELSE lots
        /\ txn' = [txn EXCEPT !.todo = Tail(@)]
        /\ UNCHANGED <<rsv, issues, consumed>>

\* return_material brings goods back from outside the books.
BeginReturn(lines) ==
    /\ Free
    /\ txn' = Open("return", lines)
    /\ UNCHANGED <<rows, bal, ledger, lots, rsv, issues, consumed>>

\* One line of a return; its target must have a balance.
ReturnLine ==
    LET n == Head(txn.todo)
    IN  /\ txn.kind = "return" /\ txn.todo # <<>>
        /\ n.to \in rows
        /\ TotalHand + n.qty <= MaxStock
        /\ Post(n.to, n.qty)
        /\ txn' = [txn EXCEPT !.todo = Tail(@)]
        /\ UNCHANGED <<rows, lots, rsv, issues, consumed>>

Commit ==
    /\ ~Free /\ txn.todo = <<>>
    /\ txn' = Closed
    /\ UNCHANGED <<moved, rsv, consumed>>

\* Fault: the lines that were done stay done.
Rollback_KeepsLines ==
    /\ ~Free
    /\ txn' = Closed
    /\ UNCHANGED <<moved, rsv, consumed>>

\* A line raises, or the connection is lost.
Rollback ==
    /\ ~Free
    /\ rows' = txn.saved.rows
    /\ bal' = txn.saved.bal
    /\ ledger' = txn.saved.ledger
    /\ lots' = txn.saved.lots
    /\ issues' = txn.saved.issues
    /\ txn' = Closed
    /\ UNCHANGED <<rsv, consumed>>

-----------------------------------------------------------------------------

\* create_item.
Init ==
    /\ rows = {Main}
    /\ bal = [l \in Locations |-> [hand |-> 0, reserved |-> 0, avail |-> 0]]
    /\ ledger = [l \in Locations |-> [sum |-> 0, last |-> 0]]
    /\ lots = [l \in Locations |-> [n \in Lots |-> 0]]
    /\ rsv = [l \in Locations |-> [r \in Refs |-> <<>>]]
    /\ issues = {}
    /\ consumed = {}
    /\ txn = Closed

Receipts == \E l \in Locations, n \in Lots, q \in Quantity : Receive(l, n, q)

Reservations ==
    \E l \in Locations, r \in Refs, q \in Quantity : Reserve(l, r, q) \/ Release(l, r, q)

Movements ==
    \/ \E f, t \in Locations, n \in Lots \cup {NoLot}, q \in Quantity : Transfer(f, t, n, q)
    \/ \E l \in Locations, q \in Quantity :
           Waste(l, q) \/ \E k \in Keys : Consume(k, l, q)
    \/ \E k \in Keys, lines \in LineLists : BeginIssue(k, lines)
    \/ \E lines \in LineLists : BeginReturn(lines)
    \/ IssueLine \/ ReturnLine \/ Commit \/ Rollback

Adjustments == \E l \in Locations, d \in -MaxStock..MaxStock : Adjust(l, d)

Next == Receipts \/ Reservations \/ Movements \/ Adjustments

Spec == Init /\ [][Next]_vars

-----------------------------------------------------------------------------
(* Properties *)

\* Every table, the open transaction and what it would restore have their types.
TypeOK ==
    /\ rows \in SUBSET Locations
    /\ bal \in [Locations -> Balance]
    /\ ledger \in [Locations -> Account]
    /\ lots \in StockLots
    /\ rsv \in StockReservations
    /\ issues \in SUBSET Issue
    /\ consumed \in Consumptions
    /\ txn \in {Closed} \cup [kind: Kinds \ {"none"}, todo: Seq(Line), saved: Saved]

Consistent(b, a) ==
    \A l \in Locations : /\ b[l].avail = b[l].hand - b[l].reserved
                         /\ a[l].sum = b[l].hand
                         /\ a[l].last = b[l].hand

\* "Ledger and balance never inconsistent": at every location the ledger rows
\* add up to the stock on hand, the last one says so, and what is available
\* is what is not reserved, after any sequence of services, of lines of an
\* issue and of rollbacks.
BooksAgree == Consistent(bal, ledger)

\* Every unit a balance withholds is withheld by an active reservation, and a
\* reservation is never negative.
ReservationsBacked ==
    \A l \in Locations :
        /\ bal[l].reserved = SumFunction([r \in Refs |-> SumFunction(rsv[l][r])])
        /\ \A r \in Refs : \A i \in DOMAIN rsv[l][r] : rsv[l][r][i] > 0

\* The committed tables keep the promise of StockPromise: an issue of several
\* lines is one step of it, and one that is rolled back is none.
Promise == INSTANCE StockPromise WITH
    Quantities <- Quantity,
    Issues <- Issue,
    Returns <- LineLists,
    hand <- [l \in Locations |-> IF Free THEN bal[l].hand ELSE txn.saved.bal[l].hand],
    reserved <- [l \in Locations |-> bal[l].reserved],
    documents <- IF Free THEN issues ELSE txn.saved.issues,
    consumptions <- consumed

PromiseKept == Promise!Spec
=============================================================================
