SPECIFICATION Spec
CONSTANTS
  Listings = {l1, l2}
  Times <- MCTimes
  Reports <- MCReports
  Samples <- MCSamples
SYMMETRY Symmetry
INVARIANTS
  TypeOK
  SummaryMatchesRows
PROPERTIES
  BecomesReadyComplete
