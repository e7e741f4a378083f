SPECIFICATION Spec
CONSTANTS
  Phase = "preverified"
  NumSlices = 3
  MaxSlices = 2
  Cpus = 2
  Peers = {p1, p2}
  Trusted = "A"
  None = None
  Branches <- MCBranches
  Contents <- PreverifiedContents
SYMMETRY Symmetry
INVARIANTS ReportedIsSaved SavedSlicesComplete
PROPERTY PenalizedBeforeRefetch
CHECK_DEADLOCK FALSE
