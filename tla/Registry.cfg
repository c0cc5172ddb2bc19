CONSTANTS
  Documents = {d1, d2}
  Names = {n1, n2, n3}
  Requests = {r1, r2, r3, r4}
  None = None
SPECIFICATION Spec
INVARIANTS
  NumbersInOrder
  RenamesChain
CHECK_DEADLOCK FALSE
