SPECIFICATION TimedSpec
CONSTANTS
  Pcb = {p1, p2, p3}
  NULL = NULL
  DEVPERINT = 1
  UserSems <- NoSems
  Devices <- OneDisk
  Raised <- SysTrap
  Handled <- NoTraps
  IoMasked <- OneDisk
  FullDuplex = FALSE
  MaxVal = 1
  MaxTickWaits = 2
  WIDTH = 2
  TIMESCALE = 1
  Durations = {0, 1}
SYMMETRY Symmetry
INVARIANT RunTimeBilled
