SPECIFICATION Spec
CONSTANTS
  r1 = r1
  r2 = r2
  r3 = r3
  r4 = r4
  Flows <- TcpFlows
  DeepLimit = 2
  Names = {r1, r2, r3}
  Systems = 1
  Sources <- MixedSources
  Exclusions <- FirstExcluded
  OldTabs = TRUE
INVARIANTS DeadNeverFires
PROPERTIES LiftsKeepTheirPromise
