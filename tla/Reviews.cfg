CONSTANTS
  Reviews = {r1, r2}
  Users = {u1}
  Versions = {v1}
  Chars = {x, blank}
  Blank = blank
  TextBound = 3
  MaxText = 2
  MaxFindings = 2
  Attempts = 2
  None = None
SPECIFICATION FairSpec
INVARIANTS
  EvidenceQuoted
PROPERTIES
  AccessRechecked
  ReviewsFinish
