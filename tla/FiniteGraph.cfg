SPECIFICATION Spec
CONSTANTS
  Atlases <- SmallAtlases
  MinInstances = 1
INVARIANTS TypeOK IdsNameTheirGraph InvariantsAreRight
CHECK_DEADLOCK FALSE
