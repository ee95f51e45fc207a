SPECIFICATION Spec
CONSTANTS
  MAXUSERPROC = 2
  SWAPSIZE = 2
  KUSEGSIZE = 2
  Drivers <- MCDrivers
  Touched <- MCTouched
  NONE = NONE
INVARIANTS TypeOK OneAtATime DevicesAccounted PageInOneFrame ValidMeansResident NoAccessDuringTransfer TransferWhereSought DeadHoldNoFrame
PROPERTIES FamilyEndsLast FaultServed SystemEnds
CHECK_DEADLOCK FALSE
