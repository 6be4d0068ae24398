SPECIFICATION Spec
CHECK_DEADLOCK FALSE
CONSTANTS
  Names <- FiveNames
  Fixed <- DotNames
  MaxFit = 2
  MaxChanges = 4
INVARIANTS
  QuietListingIsExact
  ListingErrsByItsChanges
PROPERTIES
  ListingEnds
