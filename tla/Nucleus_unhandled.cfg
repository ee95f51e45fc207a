SPECIFICATION Spec
CONSTANTS
  Pcb = {p1, p2}
  NULL = NULL
  Free = Free
  Ready = Ready
  Running = Running
  DEVPERINT = 1
  UserSems <- OneBefore
  Devices <- NoDevices
  Raised <- SysTrap
  Handled <- NoTraps
  IoMasked <- NoDevices
  FullDuplex = FALSE
  MaxVal = 1
  MaxTickWaits = 2
SYMMETRY Symmetry
PROPERTIES
  UnhandledTrapKills
