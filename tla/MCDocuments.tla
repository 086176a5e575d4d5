----------------------------- MODULE MCDocuments -----------------------------
(***************************************************************************)
(* Two products: 1 has no routing, 2 has two operations and a material rule.  *)
(* A caller may give an order number, and the number that the second shipment *)
(* would get.                                                               *)
(***************************************************************************)
EXTENDS Documents

MCRules == <<2, 1>>
MCOperations == <<0, 2>>
MCRouted == {2}
=============================================================================
