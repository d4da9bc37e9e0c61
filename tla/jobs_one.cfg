SPECIFICATION Spec
CONSTANTS
  Jobs = {j1, j2}
  Threads = {t1}
  host = h
  Hosts = {h}
  Fixes = {x}
  Uploads <- AllUploads
  Forms <- AllForms
  OldJobs = {j2}
  None = None
  Torn = Torn
  Bad = Bad
  MaxRuns = 2
  MaxFaults = 2
INVARIANTS TypeOK QuietJobIsDurable QuietArtifactsMatchResult
PROPERTIES AcceptedRunIsRecorded
CHECK_DEADLOCK FALSE
