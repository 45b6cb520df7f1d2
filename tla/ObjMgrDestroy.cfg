\* The object manager with both lists redrawn between any two events.
CONSTANTS
  w = w
  o1 = o1
  o2 = o2
  Objects <- MCObjects
  world = w
  None = None
  OneEventPerFrame = TRUE
SPECIFICATION Spec
INVARIANT NoFreedObjectAccess
