SPECIFICATION Spec
CONSTANTS
  Cpu = {c1, c2}
  Task = {t1, t2, t3}
  Sem = {s1}
  SemValue = 1
  Kids = 1
  Watched = {}
  Spin = Spin
  Nil = Nil
SYMMETRY Symmetric
INVARIANT QueueAssert
CHECK_DEADLOCK FALSE
