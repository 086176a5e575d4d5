-------------------------- MODULE TaskGeneration --------------------------
(***************************************************************************)
(* What Order.generate_tasks computes (src/product/models.py) and the       *)
(* helpers it calls (src/product/utils.py): for every item of an order and  *)
(* every line of its product's BOM, the dynamic part to be made - its       *)
(* material by colour, its length by size, its barcode - and one task per   *)
(* station of the part's route.                                             *)
(*                                                                         *)
(* Lengths are in tenths of a millimetre, the precision of their column; a  *)
(* size string is the sequence of the numbers in it; a barcode is what      *)
(* tells two barcodes apart: the base part's text, the size written into    *)
(* it and the item appended to it.                                          *)
(***************************************************************************)
EXTENDS Integers, Sequences, FiniteSets, SequencesExt

CONSTANTS Products,        \* products that can be ordered
          BaseParts,       \* parts of the catalogue
          BasePart,        \* base part -> [material, length, width, barcode, route]
          Bom,             \* product -> sequence of BOM lines
          DefaultSize,     \* product -> the numbers of its default size
          MaterialOfColour,\* colour code -> material, the built-in map
          DefaultColours,  \* product -> its default colour codes by colour part
          NoColour,        \* the item names no colour for a colour part
          None             \* a null foreign key, an empty barcode

(***************************************************************************)
(* A BOM line: base part and quantity, the colour part that may change the  *)
(* material (None when blank) and the line's own map, and the size rule.    *)
(* A rule is a linear expression over length, length_diff and width_diff    *)
(* divided by "over"; "over" = 0 stands for an expression that fails.       *)
(***************************************************************************)
BomLine(line) ==
  /\ line.part \in BaseParts /\ line.quantity \in Nat
  /\ line.allow_material_override \in BOOLEAN /\ line.size_affected \in BOOLEAN
  /\ line.rule \in [length : Int, length_diff : Int, width_diff : Int, over : Nat]

PartRow(p) == /\ p.length \in Nat /\ p.width \in Nat
              /\ "paint" \notin Range(p.route)

ASSUME CatalogueAssumption ==
  /\ \A b \in BaseParts : PartRow(BasePart[b])
  /\ \A p \in Products : \A k \in 1..Len(Bom[p]) : BomLine(Bom[p][k])

ParseSize(numbers) ==
  CASE Len(numbers) = 0 -> [length |-> 0, width |-> 0]
    [] Len(numbers) = 1 -> [length |-> numbers[1], width |-> numbers[1]]
    [] OTHER -> [length |-> numbers[1], width |-> numbers[2]]

(* The differences in mm; "known" is FALSE when size_diff stays empty.      *)
SizeDiff(product, size) ==
  LET default == ParseSize(DefaultSize[product])
      ordered == ParseSize(size)
      Both(f) == default[f] # 0 /\ ordered[f] # 0
      Diff(f) == IF Both(f) THEN (ordered[f] - default[f]) * 10 ELSE 0
  IN [known |-> Both("length") \/ Both("width"),
      length |-> Diff("length"), width |-> Diff("width")]

(* The column rounds to a tenth, the barcode cuts off after the millimetre. *)
AdjustedLength(base, line, diff) ==
  LET rule == line.rule
      plain == [column |-> BasePart[base].length, whole |-> BasePart[base].length \div 10]
      number == rule.length * BasePart[base].length
                  + 10 * (rule.length_diff * diff.length + rule.width_diff * diff.width)
  IN IF line.size_affected /\ diff.known /\ rule.over # 0
     THEN [column |-> (2 * number + rule.over) \div (2 * rule.over),
           whole |-> number \div (10 * rule.over)]
     ELSE plain

(* A line's own map, when it has one, replaces the built-in map.            *)
MaterialForColour(colour, map) ==
  LET used == IF DOMAIN map # {} THEN map ELSE MaterialOfColour
  IN IF colour \in DOMAIN used THEN used[colour] ELSE None

MaterialOf(line, colours) ==
  LET code == IF line.allow_material_override /\ line.color_part # None
              THEN colours[line.color_part] ELSE NoColour
      chosen == IF code = NoColour THEN None ELSE MaterialForColour(code, line.color_material_map)
  IN IF chosen = None THEN BasePart[line.part].material ELSE chosen

UpdateBarcodeSize(base, length, width, item) ==
  IF BasePart[base].barcode = None THEN None
  ELSE [text |-> BasePart[base].barcode, length |-> length, width |-> width, item |-> item]

(* The dynamic part a line asks for, with the barcode it is to carry.       *)
WantedPart(line, item, form) ==
  LET new == AdjustedLength(line.part, line, SizeDiff(form.product, form.size))
  IN [base |-> line.part,
      material |-> MaterialOf(line, form.colours),
      length |-> new.column,
      width |-> BasePart[line.part].width,
      barcode |-> UpdateBarcodeSize(line.part, new.whole, BasePart[line.part].width \div 10, item)]

SamePart(p, q) == /\ p.base = q.base /\ p.material = q.material
                  /\ p.length = q.length /\ p.width = q.width

(* get_or_create: an existing part takes the barcode of the latest item.    *)
GetOrCreatePart(parts, wanted) ==
  LET found == {k \in DOMAIN parts : SamePart(parts[k], wanted)}
      at == IF found = {} THEN Len(parts) + 1 ELSE CHOOSE k \in found : TRUE
  IN [at |-> at,
      parts |-> IF found = {} THEN Append(parts, wanted)
                ELSE [parts EXCEPT ![at].barcode = wanted.barcode]]

Stations(base) == <<"cut">> \o BasePart[base].route

(***************************************************************************)
(* The loops of generate_tasks: acc holds the parts so far, the rows so far *)
(* and the step counter, which runs on through the items of the order.      *)
(***************************************************************************)
LineTasks(acc, order, item, form, line) ==
  LET got == GetOrCreatePart(acc.parts, WantedPart(line, item, form))
      stations == Stations(line.part)
      rows == [k \in 1..Len(stations) |->
                 [order |-> order, item |-> item, part |-> got.at, colour |-> None,
                  station |-> stations[k], step |-> acc.step + k,
                  quantity |-> line.quantity * form.quantity, count |-> 0,
                  status |-> IF k = 1 THEN "pending" ELSE "waiting"]]
  IN [parts |-> got.parts, rows |-> acc.rows \o rows, step |-> acc.step + Len(stations)]

ItemTasks(acc, order, item, form) ==
  LET Line(sofar, line) == LineTasks(sofar, order, item, form, line)
  IN FoldLeft(Line, acc, Bom[form.product])

GenerateTasks_StepPerItem(parts, order, items, forms) ==
  LET Item(sofar, i) == ItemTasks([sofar EXCEPT !.step = 0], order, i, forms[i])
  IN FoldLeft(Item, [parts |-> parts, rows |-> <<>>, step |-> 0], items)

GenerateTasks(parts, order, items, forms) ==
  LET Item(sofar, i) == ItemTasks(sofar, order, i, forms[i])
  IN FoldLeft(Item, [parts |-> parts, rows |-> <<>>, step |-> 0], items)

(* The item's own colours, or the product's when it has none at all.        *)
ColourAssignments(form) ==
  IF \E c \in DOMAIN form.colours : form.colours[c] # NoColour
  THEN form.colours ELSE DefaultColours[form.product]

(* create_paint_tasks for every colour part whose colour has a process;
   "stages" counts the stages of each colour's process.                     *)
PaintTasks(order, item, form, colourParts, stages, base) ==
  LET colour == ColourAssignments(form)
      Rows(sofar, c) ==
        LET n == IF colour[c] = NoColour THEN 0 ELSE stages[colour[c]]
        IN sofar \o [k \in 1..n |->
             [order |-> order, item |-> item, part |-> None, colour |-> c,
              station |-> "paint", step |-> base + Len(sofar) + k,
              quantity |-> form.quantity, count |-> 0,
              status |-> IF k = 1 THEN "pending" ELSE "waiting"]]
  IN FoldLeft(Rows, <<>>, colourParts)
============================================================================
