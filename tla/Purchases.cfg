SPECIFICATION Spec
CONSTANTS
  None = None
  r1 = r1
  r2 = r2
  Requests = {r1, r2}
  oak = oak
  pine = pine
  Names = {oak, pine}
  Alerts = {0}
  Quantities = {0, 2}
  Drawn = {1}
  MaxRows <- MCMaxRows
  MaxForms = 4
SYMMETRY Symmetry
CHECK_DEADLOCK FALSE
INVARIANTS
  BooksAreSound
  OverdrawnForAReason
