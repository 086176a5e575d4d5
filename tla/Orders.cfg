SPECIFICATION Spec
CONSTANTS
  None = None
  NoColour = NoColour
  wardrobe = wardrobe
  side = side
  raw = raw
  oak = oak
  white = white
  brown = brown
  body = body
  Products = {wardrobe}
  BaseParts = {side}
  BasePart <- MCBasePart
  Bom <- MCBom
  DefaultSize <- MCDefaultSize
  MaterialOfColour <- MCMaterialOfColour
  DefaultColours <- MCDefaultColours
  ColourParts <- MCColourParts
  PaintStages <- MCPaintStages
  ItemForms <- MCItemForms
  FormStatuses = {"draft"}
  OrderIds = {1, 2}
  MaxItems = 2
  MaxTasks = 4
  MaxParts = 3
  MaxEdits = 2
  Customers = 1
CHECK_DEADLOCK FALSE
INVARIANTS
  TypeOK
  WaitingWillWake
  TasksFollowItems
