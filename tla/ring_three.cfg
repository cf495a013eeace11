\* Three slots: empty, partly filled, full and wrapped twice, with clears between.
SPECIFICATION Spec
CONSTANTS
  Items     = {a, b, c}
  None      = None
  Capacity  = 3
  MaxPushed = 7
INVARIANTS
  TypeOK
  LiveItems
  EndsAgree
PROPERTY ImplementsLog
