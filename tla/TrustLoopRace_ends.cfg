SPECIFICATION FairSpec
CONSTANTS
  Loops = {a, b}
  Listings <- MCListings
  MaxMoves = 0
PROPERTY EveryRunEnds
