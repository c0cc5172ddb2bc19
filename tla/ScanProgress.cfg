CONSTANTS
  Versions = {1}
  Workers = {w1, w2}
  Clients = {c1, c2}
  Users = {u1}
  Tokens = {1, 2, 3}
  Lease = 1
  Skew = 0
  MaxAttempts = 2
  MaxJobs = 1
  None = None
SPECIFICATION FairSpec
PROPERTIES
  RequestsFinish
