\* Every crossing of two segments is returned.
CONSTANTS
  Coords <- MCCoords
SPECIFICATION Spec
INVARIANT IntersectionComplete
