\* Two CPUs whose tasks migrate between them; locks nest.  While both CPUs are
\* in a handler no interrupt comes; a handler is interrupted while the other CPU
\* runs a task.
SPECIFICATION Spec
CONSTANTS
  Cpu = {c1, c2}
  Task = {t1, t2}
  Kernel = {h1, h2}
  Lock = {k1, k2}
  MaxHeld = 2
  Nil = Nil
SYMMETRY Symmetric
INVARIANTS TypeOK MutualExclusion UnlockChecks OwnerRuns RestoresInterrupts
\* A handler that needs the lock of the task it has interrupted spins for ever.
CHECK_DEADLOCK FALSE
