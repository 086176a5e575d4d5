----------------------------- MODULE MCOrders -----------------------------
(* A wardrobe of one line: a side that is cut and drilled on the CNC, whose
   material follows the body's colour and whose length the ordered length.  *)
EXTENDS Orders

CONSTANTS wardrobe, side, raw, oak, white, brown, body

MCBasePart == [p \in {side} |->
  [material |-> raw, length |-> 7205, width |-> 4000, barcode |-> p,
   route |-> <<"cnc">>]]
Rule(l, dl, over) == [length |-> l, length_diff |-> dl, width_diff |-> 0, over |-> over]
MCBom == [p \in {wardrobe} |->
  << [part |-> side, quantity |-> 1, color_part |-> body, allow_material_override |-> TRUE,
      color_material_map |-> <<>>, size_affected |-> TRUE, rule |-> Rule(1, 1, 1)] >>]
MCDefaultSize == [p \in {wardrobe} |-> <<180, 60>>]
MCMaterialOfColour == [c \in {white, brown} |-> IF c = white THEN raw ELSE oak]
MCDefaultColours == [p \in {wardrobe} |-> [c \in {body} |-> white]]
MCColourParts == <<body>>
MCPaintStages == [c \in {white, brown} |-> IF c = brown THEN 2 ELSE 0]
Form(colour, size, quantity) ==
  [product |-> wardrobe, colours |-> [c \in {body} |-> colour], size |-> size, quantity |-> quantity]
MCItemForms == {Form(brown, <<200, 60>>, 1), Form(white, <<200>>, 1)}
============================================================================
