SPECIFICATION Spec
CONSTANTS
  MAXPROC = 3
  MAXUSERPROC = 1
  VSem = {1}
  Calls = {"Delay"}
  MaxVal = 1
  MaxTime = 3
PROPERTY DelayEnds
