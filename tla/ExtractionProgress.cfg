CONSTANTS
  Versions = {1}
  Workers = {w1}
  Clients = {c1, c2}
  Users = {u1, u2}
  Tokens = {1, 2, 3}
  Ids = {i1, i2, i3, i4}
  None = None
  MaxAttempts = 2
SPECIFICATION FairSpec
PROPERTIES
  RequestsFinish
