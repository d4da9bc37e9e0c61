SPECIFICATION Spec
CONSTANTS
  None = None
  NestMax = 2
  Clean <- MCClean
  Long <- MCLong
  Builtin <- MCBuiltin
  Predefined <- MCPredefined
  TunnelLike <- MCTunnelLike
  Fam <- MCFam
  Atoms <- MCAtoms
  Denotes <- MCDenotes
  PortAtoms <- MCPortAtoms
  Jobs <- MCNegatedJobs
INVARIANT NoSilentBroadening
CHECK_DEADLOCK FALSE
