CONSTANTS
  Documents = {d1, d2}
  Numbers = {1, 2, 3}
  Clean = {2, 3}
  Scannable = {1}
  PageSize = 2
  Pages = {0, 1}
  None = None
SPECIFICATION Spec
INVARIANTS
  ShowsSelection
  NoResubmission
