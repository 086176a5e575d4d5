------------------------------ MODULE StockPromise ------------------------------
(***************************************************************************)
(* What the stock of one item promises: goods come in, go out or change     *)
(* places, reserved goods stay where they are unless a count corrects the    *)
(* books, an issue moves all of its lines or none, and an issue or a         *)
(* consumption that is asked for again happens once.                        *)
(***************************************************************************)
EXTENDS Integers, SequencesExt

CONSTANTS
    Locations,
    Quantities,
    Issues,      \* the issues that may be asked for: [key, lines]
    Keys,        \* keys of issues and consumptions
    Returns      \* the lists of lines that may be returned

VARIABLES
    hand,        \* location -> goods there
    reserved,    \* location -> goods that are spoken for
    documents,   \* the issues that were made
    consumptions \* the keys of the consumptions that were made

vars == <<hand, reserved, documents, consumptions>>

Init ==
    /\ hand = [l \in Locations |-> 0]
    /\ reserved = [l \in Locations |-> 0]
    /\ documents = {}
    /\ consumptions = {}

In(l, q) ==
    /\ hand' = [hand EXCEPT ![l] = @ + q]
    /\ UNCHANGED <<reserved, documents, consumptions>>

Out(l, q) ==
    /\ hand[l] - q >= reserved[l]
    /\ hand' = [hand EXCEPT ![l] = @ - q]
    /\ UNCHANGED <<reserved, documents, consumptions>>

Consume(k, l, q) ==
    /\ k \notin consumptions
    /\ hand[l] - q >= reserved[l]
    /\ hand' = [hand EXCEPT ![l] = @ - q]
    /\ consumptions' = consumptions \cup {k}
    /\ UNCHANGED <<reserved, documents>>

Transfer(f, t, q) ==
    /\ f # t
    /\ hand[f] - q >= reserved[f]
    /\ hand' = [hand EXCEPT ![f] = @ - q, ![t] = @ + q]
    /\ UNCHANGED <<reserved, documents, consumptions>>

Count(l, n) ==
    /\ hand' = [hand EXCEPT ![l] = n]
    /\ UNCHANGED <<reserved, documents, consumptions>>

Reserve(l, q) ==
    /\ reserved[l] + q <= hand[l]
    /\ reserved' = [reserved EXCEPT ![l] = @ + q]
    /\ UNCHANGED <<hand, documents, consumptions>>

Release(l, q) ==
    /\ q <= reserved[l]
    /\ reserved' = [reserved EXCEPT ![l] = @ - q]
    /\ UNCHANGED <<hand, documents, consumptions>>

Arrives(lines, l) == FoldLeft(LAMBDA s, n : IF n.to = l THEN s + n.qty ELSE s, 0, lines)
Leaves(lines, l) == FoldLeft(LAMBDA s, n : IF n.from = l THEN s + n.qty ELSE s, 0, lines)

MakeIssue(i) ==
    /\ \A d \in documents : d.key # i.key
    /\ hand' = [l \in Locations |-> hand[l] + Arrives(i.lines, l) - Leaves(i.lines, l)]
    /\ \A l \in Locations : hand'[l] < hand[l] => hand'[l] >= reserved[l]
    /\ documents' = documents \cup {i}
    /\ UNCHANGED <<reserved, consumptions>>

Return(lines) ==
    /\ hand' = [l \in Locations |-> hand[l] + Arrives(lines, l)]
    /\ UNCHANGED <<reserved, documents, consumptions>>

Next ==
    \/ \E l \in Locations, q \in Quantities :
           \/ In(l, q) \/ Out(l, q) \/ Reserve(l, q) \/ Release(l, q)
           \/ \E k \in Keys : Consume(k, l, q)
    \/ \E f, t \in Locations, q \in Quantities : Transfer(f, t, q)
    \/ \E l \in Locations, n \in Quantities \cup {0} : Count(l, n)
    \/ \E i \in Issues : MakeIssue(i)
    \/ \E lines \in Returns : Return(lines)

Spec == Init /\ [][Next]_vars
=============================================================================
