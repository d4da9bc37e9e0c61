SPECIFICATION Spec
CONSTANTS
  None = None
  Rules <- MCRules
  GoodNames <- MCGoodNames
  Cases <- MCCases
  Reach <- MCReach
INVARIANTS TypeOK OutputCoherent OtherTrafficUntouched ZonesUsable UplinksKept LossesTold InterfacesKeepPlace WordsFitTarget
PROPERTY DedupKeepsVerdicts
CHECK_DEADLOCK FALSE
