SPECIFICATION Spec
CONSTANTS
  NCpu = 2
  Task = {t1, t2}
  Va = {v1}
  Pa = {p1}
  KeyLen = 2
  MaxKeys = 2
  None = None
INVARIANT NativeSafe
VIEW View
SYMMETRY Tasks
