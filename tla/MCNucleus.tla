----------------------------- MODULE MCNucleus -----------------------------
EXTENDS NucleusLifecycle, TLC

Disk(n) == [line |-> 3, num |-> n, recv |-> FALSE]
Transmitter0 == [line |-> TERMINT, num |-> 0, recv |-> FALSE]
Receiver0 == OtherHalf(Transmitter0)

NoDevices == {}
OneDisk == {Disk(0)}
OneTerminal == {Transmitter0, Receiver0}
DiskAndTerminal == OneDisk \cup OneTerminal
DiskAndReceiver == {Disk(0), Receiver0}
SecondDisk == {Disk(1)}

\* One or two user semaphores before sem[], or one behind it.
OneBefore == {-1}
TwoBefore == {-2, -1}
FarBehind == {TOTALSEM + 1}

AllTraps == TrapTypes
SysTrap == {SYSTRAP}
NoTraps == {}

Symmetry == Permutations(Pcb)
=============================================================================
