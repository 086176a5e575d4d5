---------------------------- MODULE MCStockBalances ----------------------------
(***************************************************************************)
(* Two locations, a lot and a few issues for TLC.                           *)
(***************************************************************************)
EXTENDS StockBalances

CONSTANTS main, wip, lotA

L(f, t, q, n) == [from |-> f, to |-> t, qty |-> q, lot |-> n]

\* Two lines of which the second may fail, and goods of a lot that pass through
\* a location.
Mixed == { <<L(main, wip, 1, NoLot), L(main, wip, 1, NoLot)>>,
           <<L(main, wip, 1, lotA), L(wip, main, 1, lotA)>> }

=============================================================================
