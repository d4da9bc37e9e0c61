SPECIFICATION Spec
CONSTANTS
  Jobs = {j1}
  Threads = {t1}
  host = h
  Hosts = {h}
  Fixes = {}
  Uploads <- GateUpload
  Forms <- PlainForm
  OldJobs = {}
  None = None
  Torn = Torn
  Bad = Bad
  MaxRuns = 2
  MaxFaults = 1
PROPERTIES ConvertedJobsSurvive
CHECK_DEADLOCK FALSE
