SPECIFICATION Spec
CONSTANTS
  CpuCount = 2
  PageCount = 3
  PageSize = 8
  Header = 2
  FirstPage = 3
  MaxSize = 16
  Size = {7, 15}
INVARIANT ServerPagesListed
