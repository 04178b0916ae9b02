SPECIFICATION Spec
CONSTANTS
  SecPerMin = 3
  MinPerHour = 2
  Start = {0, 1, 2, 3, 4, 5}
  MaxTicks = 5
  Block = {0, 1, 2}
  MaxBlocks = 2
  None = None
  ScreenW = 5
  ScreenH = 6
  Num = 2
  MaxFrames = 7
INVARIANTS IoeSafe Lab0Safe
\* Escape ends the program, and the bounds end the rest.
CHECK_DEADLOCK FALSE
