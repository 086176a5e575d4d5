--------------------------- MODULE MCPackagingUnits ---------------------------
(***************************************************************************)
(* Two packers and a shipper for TLC.                                        *)
(***************************************************************************)
EXTENDS PackagingUnits

CONSTANTS p1, p2, s1

StageOf == [w \in Users |-> IF w = s1 THEN "shipping" ELSE "packaging"]

\* A packer who also scans the item's own code, one who also edits the item,
\* and a superuser who ships, delivers and takes shipments back.
Desks == [w \in Users |-> IF w = p1 THEN {"scan", "item"}
                         ELSE IF w = p2 THEN {"scan", "edit"}
                         ELSE {"scan", "undo", "deliver"}]
=============================================================================
