SPECIFICATION Spec
CONSTANTS
  Atlases <- ThreeVertexAtlas
  MinInstances = 1
INVARIANT DiametersAreRight
CHECK_DEADLOCK FALSE
