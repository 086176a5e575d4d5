------------------------- MODULE MCPaintingSetup -------------------------
(* Two servers, one colour, one item with two parts of that colour.        *)
EXTENDS PaintingSetup, TLC

CONSTANTS s1, s2, wardrobe, white

MCColourOf == [i \in {wardrobe} |-> <<white, white>>]
MCMaxRows == [processes |-> 2, stages |-> 2, workers |-> 2, rules |-> 1]
Symmetry == Permutations(Servers)
===========================================================================
