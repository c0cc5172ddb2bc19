CONSTANTS
  Versions = {1}
  Workers = {w1, w2}
  Clients = {c1, c2}
  Users = {u1}
  Tokens = {1, 2, 3}
  Lease = 2
  Skew = 0
  MaxAttempts = 3
  MaxJobs = 2
  None = None
SPECIFICATION TimelySpec
PROPERTIES
  JobsSettle
