SPECIFICATION Spec
CONSTANTS
  Cpu = {c0, c1}
  Boss = c0
  Kernel = {k1}
  User = {u1}
  Exception = {14, 128, 129}
  Pml4 = Pml4
  None = None
INVARIANT CteSafe
