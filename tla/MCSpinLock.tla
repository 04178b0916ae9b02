------------------------------ MODULE MCSpinLock ------------------------------
(* Model checking of SpinLock: CPUs, tasks, locks and flows of the kernel    *)
(* are interchangeable.                                                      *)
EXTENDS SpinLock, TLC

Symmetric == Permutations(Cpu) \cup Permutations(Task) \cup Permutations(Lock)
                \cup Permutations(Kernel)
==============================================================================
