\* Two calls, of which a picture shows one; three lines.
SPECIFICATION Spec
CONSTANTS
  Cmd = {read, write}
  Time = {1, 2}
  NoTime = NoTime
  Angle = Angle
  Text = Text
  TextLine = TextLine
  Other = Other
  Rows = 1
  MaxLines = 3
  None = None
INVARIANTS TypeOK Sorted Prefix LastComplete
PROPERTY Ends
\* sperf ends.
CHECK_DEADLOCK FALSE
