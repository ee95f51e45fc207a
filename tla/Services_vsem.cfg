SPECIFICATION Spec
CONSTANTS
  MAXPROC = 3
  MAXUSERPROC = 2
  VSem = {1}
  Calls = {"P", "V"}
  MaxVal = 1
  MaxTime = 0
INVARIANT SleepersCounted
