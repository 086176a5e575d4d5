SPECIFICATION Spec
CONSTANTS
  None = None
  s1 = s1
  s2 = s2
  wardrobe = wardrobe
  white = white
  Servers = {s1, s2}
  Colours = {white}
  Users = {u1}
  Items = {wardrobe}
  ColourOf <- MCColourOf
  MaxRows <- MCMaxRows
  MaxEdits = 2
SYMMETRY Symmetry
CHECK_DEADLOCK FALSE
INVARIANTS
  TypeOK
  OneProcessPerColour
  CacheIsCurrent
  PaintStepsApart
