SPECIFICATION Spec
CONSTANTS
  Atlases <- FiveVertexAtlas
  MinInstances = 30
INVARIANT AtlasCollapsed
CHECK_DEADLOCK FALSE
