\* Double words of eight bits, four characters of memory, ints of eight bits.
SPECIFICATION Spec
CONSTANTS
  W = 4
  MemSize = 4
  CharCount = 4
  IntBits = 8
INVARIANTS WideMathRight KlibRight
\* A call is the end.
CHECK_DEADLOCK FALSE
