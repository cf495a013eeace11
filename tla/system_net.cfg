\* As in system.cfg; the spike after a failed read of net/dev.
SPECIFICATION Spec
CONSTANTS
  Cores     = {0, 1}
  Links     = {"lo", "eth0"}
  Memories  <- MCMemories
  Wrap      = 2
  MaxEvents = 3
  None      = None
INVARIANT NoSpike
