SPECIFICATION Spec
CONSTANTS
  Pcb = {p1, p2, p3, p4}
  NULL = NULL
  Free = Free
  Ready = Ready
  Running = Running
  DEVPERINT = 1
  UserSems <- TwoBefore
  Devices <- NoDevices
  Raised <- SysTrap
  Handled <- SysTrap
  IoMasked <- NoDevices
  FullDuplex = FALSE
  MaxVal = 1
  MaxTickWaits = 2
SYMMETRY Symmetry
INVARIANTS
  TypeOK
  ProcessPartition
  ProcessCountExact
  SoftBlockExact
  UserSemBalance
  NoOrphans
  Inv
PROPERTIES
  ImplementsLifecycle
