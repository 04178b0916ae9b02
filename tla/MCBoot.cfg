SPECIFICATION Spec
CONSTANTS
  NCpu = 3
  Image <- MCImage
  SectSize = 2
  ArgSects = 2
  ArgAddr = 12
  Address <- MCAddress
INVARIANT BootSafe
PROPERTY StartsAndStops
CHECK_DEADLOCK FALSE
