\* A task that migrates in the middle of kmt_spin_lock writes to the struct CPU
\* of the CPU it left.
SPECIFICATION Spec
CONSTANTS
  Cpu = {c1, c2}
  Task = {t1, t2}
  Kernel = {h1, h2}
  Lock = {k1}
  MaxHeld = 1
  Nil = Nil
PROPERTY CpuOnlyChangesItself
CHECK_DEADLOCK FALSE
