\* Two CPUs and four addresses for tasks: the machine runs out of memory for
\* a task, and hands addresses out again.
SPECIFICATION Spec
CONSTANTS
  Cpu = {c1, c2}
  Task = {t1, t2, t3, t4}
  Sem = {}
  SemValue = 1
  Kids = 2
  Watched = {}
  Spin = Spin
  Nil = Nil
SYMMETRY Symmetric
VIEW View
INVARIANTS TypeOK InOnePlace NoDangling SchedulerChecks
PROPERTIES FreedOnlyAfterTeardown SpinsForEver
\* An assertion stops the machine.
CHECK_DEADLOCK FALSE
