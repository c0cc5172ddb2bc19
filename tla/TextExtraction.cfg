CONSTANTS
  Tasks = {t1, t2, t3}
  Slots = 2
  Size = 2
  MaxText = 1
  MaxPages = 2
  PageSizes = {0, 1}
SPECIFICATION FairSpec
INVARIANTS
  ChildrenBounded
  ServedIntact
  TextFits
PROPERTIES
  ResourcesReturn
