----------------------------- MODULE MCMigration -----------------------------
(***************************************************************************)
(* A catalogue of two categories, one without a name, and three products;    *)
(* materials with one raw material of their name and with two; two parts     *)
(* that share their f3 in one product and one that has its own; a BOM line    *)
(* with a colour map; a process without a code.  Some rows come later.        *)
(***************************************************************************)
EXTENDS Migration

MCKind == <<"category", "category", "product", "product", "product", "customer",
            "worker", "material", "material", "raw", "raw", "raw", "part", "part",
            "part", "variation", "variation", "bom", "bom", "bom", "bom",
            "process", "process", "stage", "stage", "order">>
MCRows == DOMAIN MCKind
MCNames == 0..3
\* Name 3 is name 1 with blanks around it.
MCStrip == [n \in MCNames |-> IF n = 3 THEN 1 ELSE n]
MCName == <<1, 0, 1, 2, 1, 3, 1, 1, 2, 1, 2, 2, 1, 2, 1, 1, 2, 0, 0, 0, 0, 1, 0, 1, 1, 0>>
MCRef == [r \in MCRows |->
            CASE r \in {3, 4} -> 1 [] r = 5 -> 2 [] r = 16 -> 13 [] r = 17 -> 15
              [] r \in {18, 20, 21} -> 3 [] r = 19 -> 4 [] r = 24 -> 22 [] r = 25 -> 23
              [] OTHER -> 0]
MCPartOf == [r \in MCRows |->
            CASE r \in {18, 20} -> 13 [] r = 19 -> 14 [] r = 21 -> 15 [] OTHER -> 0]
MCMaterialOf == [r \in MCRows |->
            CASE r = 13 -> 8 [] r = 14 -> 9 [] OTHER -> 0]
MCColorMapped == {20}
MCLate == {15, 17, 21}
MCEarly == MCRows \ MCLate
MCOfficeNames == {1}
MCPhases == {"master-data", "production", "inventory"}
=============================================================================
