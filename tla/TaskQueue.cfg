\* Three callers; three nodes for a queue of at most two tasks, so that memory
\* runs out and freed nodes are handed out again.
SPECIFICATION Spec
CONSTANTS
  Proc = {c1, c2, c3}
  Task = {t1, t2}
  Node = {n1, n2, n3}
  Nil = Nil
INVARIANTS TypeOK NoUseAfterFree ListIntact
PROPERTY ImplementsFifo
\* After an enqueue without memory the caller halts the machine.
CHECK_DEADLOCK FALSE
