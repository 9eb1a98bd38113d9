SPECIFICATION Spec
CONSTANTS
  Loops = {a, b}
  Listings <- MCListings
  MaxMoves = 2
SYMMETRY Symmetry
INVARIANT ReadyMeansClean
