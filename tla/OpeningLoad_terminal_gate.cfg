SPECIFICATION Spec
CONSTANTS
  Listings = {l1, l2}
  Times <- MCOneTime
  Reports <- MCReports
  Samples <- MCSamples
PROPERTIES
  BecomesReadyOnlyWhenEligibleTerminal
