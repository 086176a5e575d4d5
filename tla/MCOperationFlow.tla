--------------------------- MODULE MCOperationFlow ---------------------------
(***************************************************************************)
(* A routing for TLC: assembly needs two parts that are cut in any order.    *)
(***************************************************************************)
EXTENDS OperationFlow

CONSTANTS c1, c2, cutA, cutB, asm

Assembly == {<<cutA, asm>>, <<cutB, asm>>}

\* A terminal that only uses the HTTP views, and a caller of the services.
ViewsAndServices == [c \in Callers |->
    IF c = c1 THEN {"start", "complete_view"} ELSE AllCalls \ {"start"}]
=============================================================================
