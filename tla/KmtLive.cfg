\* Liveness: no symmetry, three addresses, test.c's tasks, which may also use a
\* semaphore.
SPECIFICATION FairSpec
CONSTANTS
  Cpu = {c1, c2}
  Task = {t1, t2, t3}
  Sem = {s1}
  SemValue = 1
  Kids = 1
  Watched = {t1}
  Spin = Spin
  Nil = Nil
CONSTRAINT Calm
PROPERTIES ReadyRuns QuitFreed
\* An assertion stops the machine.
CHECK_DEADLOCK FALSE
