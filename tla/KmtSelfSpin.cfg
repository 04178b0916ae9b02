\* A task is interrupted in tasks_enqueue between the exchange on tailLock and
\* the masking of interrupts, and the handler spins for the lock.
SPECIFICATION Spec
CONSTANTS
  Cpu = {c1}
  Task = {t1, t2}
  Sem = {}
  SemValue = 1
  Kids = 1
  Watched = {}
  Spin = Spin
  Nil = Nil
INVARIANT NoSelfSpin
CHECK_DEADLOCK FALSE
