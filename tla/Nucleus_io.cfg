SPECIFICATION Spec
CONSTANTS
  Pcb = {p1, p2, p3, p4}
  NULL = NULL
  Free = Free
  Ready = Ready
  Running = Running
  DEVPERINT = 1
  UserSems <- OneBefore
  Devices <- DiskAndTerminal
  Raised <- NoTraps
  Handled <- NoTraps
  IoMasked <- DiskAndReceiver
  FullDuplex = FALSE
  MaxVal = 1
  MaxTickWaits = 2
SYMMETRY Symmetry
INVARIANTS
  StopIsJustified
  DeviceWaitHasIO
  DeviceSemMatchesIO
  SoftBlockExact
  SemdAvailable
PROPERTIES
  IoCompletesBeforeReturn
  InterruptServesInterruptingDevice
