\* One pid that changes hands under four scans, any of which may fail.
SPECIFICATION MSpec
CONSTANTS
  Sizes  <- OnlyLong
  Names  <- MCNames
  Rules  <- MCRules
  None   = None
  System = System
INVARIANT NoAlertOnUnmeasured
CHECK_DEADLOCK FALSE
