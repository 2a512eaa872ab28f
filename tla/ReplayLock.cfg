\* Two processes, one of which may die; 600 s are one unit of time.
SPECIFICATION Spec
CONSTANTS
  p1 = p1  p2 = p2
  NoFile = NoFile
  Procs = {p1, p2}
  StepLimit = 1
  StaleAge = 3
  WaitLimit = 1
  MaxCrashes = 1
INVARIANTS
  TypeOK
  MutualExclusion
PROPERTIES
  ImplementsLeanStep
  ReplaysEnd

CHECK_DEADLOCK FALSE
