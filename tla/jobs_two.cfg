SPECIFICATION Spec
CONSTANTS
  Jobs = {j1, j2}
  Threads = {t1, t2}
  host = h
  Hosts = {h}
  Fixes = {x}
  Uploads <- TwoUploads
  Forms <- TwoForms
  OldJobs = {j2}
  None = None
  Torn = Torn
  Bad = Bad
  MaxRuns = 2
  MaxFaults = 1
INVARIANTS ResultFilesExist JobStoreInv
PROPERTIES LostOnlyByDelete DeletedStaysDeleted ImplementsService
SYMMETRY ThreadSymmetry
CHECK_DEADLOCK FALSE
