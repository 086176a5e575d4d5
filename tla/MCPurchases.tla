--------------------------- MODULE MCPurchases ---------------------------
(* A small office: how many rows of each table are ever created.           *)
EXTENDS Purchases, TLC

CONSTANTS r1, r2, oak, pine

MCMaxRows == [suppliers |-> 1, categories |-> 2, materials |-> 2,
              movements |-> 3, orders |-> 1, items |-> 2]
Symmetry == Permutations(Requests) \cup Permutations(Names)
===========================================================================
