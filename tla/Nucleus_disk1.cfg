SPECIFICATION Spec
CONSTANTS
  Pcb = {p1, p2, p3}
  NULL = NULL
  Free = Free
  Ready = Ready
  Running = Running
  DEVPERINT = 2
  UserSems <- OneBefore
  Devices <- SecondDisk
  Raised <- NoTraps
  Handled <- NoTraps
  IoMasked <- SecondDisk
  FullDuplex = FALSE
  MaxVal = 1
  MaxTickWaits = 2
SYMMETRY Symmetry
PROPERTIES
  InterruptServesInterruptingDevice
