CONSTANTS
  Versions = {1}
  Workers = {w1, w2}
  Clients = {c1, c2}
  Users = {u1, u2}
  Tokens = {1, 2, 3}
  Lease = 1
  Skew = 0
  MaxAttempts = 2
  MaxJobs = 2
  None = None
SPECIFICATION Spec
SYMMETRY Symmetry
INVARIANTS
  AuditTrail
  CompletedMeansVerdict
  RequesterAudited
PROPERTIES
  PublishesForAdministrators
