SPECIFICATION MCSpec
CONSTANTS
  CpuCount = 2
  PageCount = 4
  PageSize = 8
  Header = 2
  FirstPage = 3
  MaxSize = 16
  Size = {4, 7, 15}
  Script <- MCScript
INVARIANTS TypeOK ObjectsApart PoolPagesUsed FreeFinds OwnedOnce ServerCoalesced Lab1Safe
\* A null pointer, or the end of the program, stops lab1.
CHECK_DEADLOCK FALSE
