SPECIFICATION Spec
CONSTANTS
  Loops = {a, b}
  Listings <- MCListings
  MaxMoves = 1
INVARIANT CommittedReadyIsClean
