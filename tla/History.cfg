CONSTANTS
  MaxMsg = 3
  Limit = 1
  Req = {r1}
  CacheOn = TRUE
  None = None
SPECIFICATION Spec
INVARIANTS WalkHasNoHoles WalkIsCompleteIfNoneDeleted
PROPERTY GoneStaysGone
CHECK_DEADLOCK FALSE
