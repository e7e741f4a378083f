SPECIFICATION FairSpec
CONSTANTS
  Phase = "linear"
  NumSlices = 3
  MaxSlices = 2
  Cpus = 1
  Peers = {p1}
  Trusted = "A"
  None = None
  Branches <- MCBranches
  Contents <- LinearContents
INVARIANTS CountersMatch VerdictsFresh LoopEndsWhenDone
PROPERTIES ImplementsChain PhaseCompletes
CHECK_DEADLOCK FALSE
