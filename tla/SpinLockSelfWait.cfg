\* A task is interrupted between the exchange and the masking of interrupts, and
\* the handler spins for its lock.
SPECIFICATION Spec
CONSTANTS
  Cpu = {c1}
  Task = {t1}
  Kernel = {h1}
  Lock = {k1}
  MaxHeld = 1
  Nil = Nil
INVARIANT NoHandlerWaitsForItsTask
CHECK_DEADLOCK FALSE
