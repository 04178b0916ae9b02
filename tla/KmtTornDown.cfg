SPECIFICATION Spec
CONSTANTS
  Cpu = {c1, c2}
  Task = {t1, t2, t3, t4}
  Sem = {}
  SemValue = 1
  Kids = 2
  Watched = {}
  Spin = Spin
  Nil = Nil
SYMMETRY Symmetric
INVARIANT TornDownNotAlive
CHECK_DEADLOCK FALSE
