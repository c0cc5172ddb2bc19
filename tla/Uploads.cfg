CONSTANTS
  Versions = {v1}
  Requests = {r1, r2, r3}
  Users = {u1}
  Keys = {k1, k2, k3}
  PutAttempts = 2
  None = None
SPECIFICATION FairSpec
INVARIANTS
  TypeOK
  NamesStoredObject
  WrittenOnce
  OrphansWereRefused
PROPERTIES
  ContentFixed
  StoredForAdministrators
  UploadIsAtomic
  UploadsFinish
