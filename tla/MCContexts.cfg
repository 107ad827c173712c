CONSTANTS
  Pools = {p1, p2}
  Locals = {l1, l2}
  Foreign = foreign
  None = none
  MaxReserved = 2
SYMMETRY Symmetric
SPECIFICATION Spec
INVARIANTS TypeOK SlotsOwned InnermostServes PanicsInContext NeverEnteredTwice
PROPERTIES RefusedUncounted
CHECK_DEADLOCK FALSE
