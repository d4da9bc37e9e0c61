SPECIFICATION Spec
CONSTANTS
  r1 = r1
  r2 = r2
  r3 = r3
  r4 = r4
  Flows <- TcpFlows
  DeepLimit = 4
  Names = {r1, r2, r3, r4}
  Systems = 1
  Sources <- PlainSources
  Exclusions <- FirstExcluded
  OldTabs = FALSE
INVARIANTS TypeOK DisabledStayHarmless
PROPERTIES DisableIsSafe
