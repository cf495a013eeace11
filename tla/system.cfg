\* Two cores and one interface besides lo; three things happen around the scans.
SPECIFICATION Spec
CONSTANTS
  Cores     = {0, 1}
  Links     = {"lo", "eth0"}
  Memories  <- MCMemories
  Wrap      = 2
  MaxEvents = 3
  None      = None
INVARIANTS
  TypeOK
  PercentsAreBounded
  CpuIsBusyShare
  CoresAreTheirOwn
  NetRateIsTraffic
  UsedCannotBeHandedOut
