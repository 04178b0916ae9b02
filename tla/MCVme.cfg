SPECIFICATION Spec
CONSTANTS
  As = {a, b}
  Frame = {f1, f2, f3, f4}
  Page = {p}
  Levels = 3
  LastIndex = 1
  Kernel = {0}
  Va <- MCVa
  Prot <- MCProt
  Kpt = Kpt
  None = None
SYMMETRY Symmetry
INVARIANT VmeSafe
PROPERTY ImplementsAddressSpace
CHECK_DEADLOCK FALSE
