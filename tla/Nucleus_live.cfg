SPECIFICATION FairSpec
CONSTANTS
  Pcb = {p1, p2, p3}
  NULL = NULL
  Free = Free
  Ready = Ready
  Running = Running
  DEVPERINT = 1
  UserSems <- OneBefore
  Devices <- OneDisk
  Raised <- NoTraps
  Handled <- NoTraps
  IoMasked <- NoDevices
  FullDuplex = FALSE
  MaxVal = 1
  MaxTickWaits = 2
PROPERTIES
  ReadyRuns
  ClockWakes
  IoReturns
