\* Every point the routine returns is the crossing of the two segments.
CONSTANTS
  Coords <- MCCoords
SPECIFICATION Spec
INVARIANT IntersectionSound
