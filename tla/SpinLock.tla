------------------------------- MODULE SpinLock -------------------------------
(***************************************************************************)
(* kmt_spin_lock and kmt_spin_unlock (lab2/src/kmt.c) under interrupts and *)
(* migration.  A lock masks the interrupts of the CPU it is taken on, but  *)
(* only after the exchange that takes it: a timer interrupt may come in    *)
(* between, put the task back on the ready queue and let another CPU       *)
(* continue it in the middle of kmt_spin_lock.                             *)
(*                                                                         *)
(* A flow of control is a task, or a flow of the kernel's own code: os_run *)
(* before the CPU's first yield, then the trap handlers (os_trap:          *)
(* kmt_context_save, then kmt_schedule), which run on the stack of what    *)
(* they interrupt.  What a handler does with the locks it takes is the     *)
(* subject of the scheduler; here it may take and release any.             *)
(*                                                                         *)
(* A handler has interrupts off, unless a stray Store makes its next       *)
(* unlock turn them on; then an interrupt comes in the handler itself.     *)
(* If it still has its task in currentTask, the inner handler saves the    *)
(* outer one as the task's context, and whoever picks the task continues   *)
(* the outer handler; if it has none, the outer handler is lost.  Two      *)
(* places are one step each, so no interrupt comes inside: lines 450 to    *)
(* 455, from the link in readyTasks to currentTask = NULL, and lines 497   *)
(* to 503, from the dequeue to __am_iret (the locks of both are taken      *)
(* before or after).  That two handlers share a stack is not modelled,     *)
(* and SPINTASK counts as no task.                                         *)
(***************************************************************************)
EXTENDS Integers, FiniteSets

CONSTANTS Cpu, Task,
          Kernel,   \* flows of the kernel's own code: one that executes on
                    \* each CPU, and a bound on those interrupted or lost
          Lock,     \* every spinlock_t of the kernel
          MaxHeld,  \* how deep locks are nested (kmt_sem_wait: 2)
          Nil

ASSUME FlowAssumption == Kernel \cap Task = {} /\ Nil \notin Kernel \cup Task

Flow == Kernel \cup Task

VARIABLES lockState, lockCpu,    \* the fields state and cpu of each lock
          istate, ownedLockNum,  \* the fields of each struct CPU
          shot,                  \* its copy on cpushot: those two fields
          interrupts,            \* the interrupt flag of each CPU
          running,               \* the task a CPU runs or has interrupted
          kernel,                \* the flow of the kernel that a CPU executes,
                                 \* Nil while it executes its task
          cont,                  \* what continues a task that is put back: the
                                 \* handler saved as its context, Nil for the
                                 \* task itself
          prev,                  \* the argument context of a handler that has
                                 \* a task: the handler it interrupted, or Nil
          pc, lk, addr,          \* of each flow: where in kmt_spin_lock or
                                 \* _unlock, its argument, and the CPU whose
                                 \* struct line 110 reads or writes
          held,                  \* the locks a flow has got from kmt_spin_lock
          eflags,                \* the interrupt flag in the context of a task
                                 \* that is not executing
          calm                   \* history: no interrupt came in the window

lockVars == <<lockState, lockCpu>>
cpuVars  == <<istate, ownedLockNum, shot>>
runVars  == <<running, kernel, cont, prev, eflags, calm>>
vars == <<lockVars, cpuVars, runVars, interrupts, pc, lk, addr, held>>

\* The lock is taken, and interrupts may still be on.
Window == {"look", "test", "sense", "store", "mask"}
Labels == {"idle", "xchg", "record", "settle", "restore"} \cup Window

TypeOK == /\ lockState \in [Lock -> {0, 1}]
          /\ lockCpu \in [Lock -> Cpu \cup {Nil}]
          /\ istate \in [Cpu -> BOOLEAN]
          /\ ownedLockNum \in [Cpu -> Nat]
          /\ shot \in [Cpu -> [istate : BOOLEAN, ownedLockNum : Nat]]
          /\ interrupts \in [Cpu -> BOOLEAN]
          /\ running \in [Cpu -> Task \cup {Nil}]
          /\ kernel \in [Cpu -> Kernel \cup {Nil}]
          /\ cont \in [Task -> Kernel \cup {Nil}]
          /\ prev \in [Kernel -> Kernel \cup {Nil}]
          /\ pc \in [Flow -> Labels]
          /\ lk \in [Flow -> Lock \cup {Nil}]
          /\ addr \in [Flow -> Cpu \cup {Nil}]
          /\ held \in [Flow -> SUBSET Lock]
          /\ eflags \in [Task -> BOOLEAN]
          /\ calm \in BOOLEAN

\* No copy on cpushot (the values do not matter).
NoShot == [istate |-> TRUE, ownedLockNum |-> 0]

\* kmt_spin_init of every lock, and cpu_init
SpinInit == /\ lockState = [l \in Lock |-> 0]
            /\ lockCpu = [l \in Lock |-> Nil]
CpuInit == /\ istate = [c \in Cpu |-> TRUE]
           /\ ownedLockNum = [c \in Cpu |-> 0]
           /\ shot = [c \in Cpu |-> NoShot]

\* Then os_run on every CPU with interrupts off; a task's first context
\* (kcontext) has them on.
Init == /\ SpinInit /\ CpuInit
        /\ interrupts = [c \in Cpu |-> FALSE]
        /\ running = [c \in Cpu |-> Nil]
        /\ kernel \in [Cpu -> Kernel]
        /\ \A c, d \in Cpu : kernel[c] = kernel[d] => c = d
        /\ cont = [t \in Task |-> Nil]
        /\ prev = [h \in Kernel |-> Nil]
        /\ pc = [f \in Flow |-> "idle"]
        /\ lk = [f \in Flow |-> Nil]
        /\ addr = [f \in Flow |-> Nil]
        /\ held = [f \in Flow |-> {}]
        /\ eflags = [t \in Task |-> TRUE]
        /\ calm = TRUE

\* The flow that CPU c executes.
On(c) == IF kernel[c] # Nil THEN kernel[c] ELSE running[c]

Goto(c, from, to) == pc[On(c)] = from /\ pc' = [pc EXCEPT ![On(c)] = to]
------------------------------------------------------------------------------
(* kmt_spin_lock *)

Call(c, l) == /\ Goto(c, "idle", "xchg")
              /\ l \notin held[On(c)]
              /\ Cardinality(held[On(c)]) < MaxHeld
              /\ lk' = [lk EXCEPT ![On(c)] = l]
              /\ UNCHANGED <<lockVars, cpuVars, runVars, interrupts, addr, held>>

\* Variant: test the lock first, take it afterwards.
AcquireUntested(c) == /\ Goto(c, "xchg", "look")
                      /\ lockState' = [lockState EXCEPT ![lk[On(c)]] = 1]
                      /\ UNCHANGED <<lockCpu, cpuVars, runVars, interrupts, lk, addr, held>>

\* The exchange that finds the lock free; the others change nothing.
Acquire(c) == /\ Goto(c, "xchg", "look")
              /\ lockState[lk[On(c)]] = 0
              /\ lockState' = [lockState EXCEPT ![lk[On(c)]] = 1]
              /\ UNCHANGED <<lockCpu, cpuVars, runVars, interrupts, lk, addr, held>>

\* CURRENTCPU.ownedLockNum==0: the address of this CPU's struct, which is then
\* read, perhaps after the flow has moved to another CPU.
Look(c) == /\ Goto(c, "look", "test")
           /\ addr' = [addr EXCEPT ![On(c)] = c]
           /\ UNCHANGED <<lockVars, cpuVars, runVars, interrupts, lk, held>>

\* Variant: every lock notes the interrupt flag, not only the first.
TestEveryLock(c) == /\ Goto(c, "test", "sense")
                    /\ addr' = [addr EXCEPT ![On(c)] = Nil]
                    /\ UNCHANGED <<lockVars, cpuVars, runVars, interrupts, lk, held>>

Test(c) == /\ \/ Goto(c, "test", "sense") /\ ownedLockNum[addr[On(c)]] = 0
              \/ Goto(c, "test", "mask") /\ ownedLockNum[addr[On(c)]] # 0
           /\ addr' = [addr EXCEPT ![On(c)] = Nil]
           /\ UNCHANGED <<lockVars, cpuVars, runVars, interrupts, lk, held>>

\* CURRENTCPU.istate=ienabled(): the address is that of this CPU's struct ...
Sense(c) == /\ Goto(c, "sense", "store")
            /\ addr' = [addr EXCEPT ![On(c)] = c]
            /\ UNCHANGED <<lockVars, cpuVars, runVars, interrupts, lk, held>>

\* ... but the flow may be on another CPU when it writes there.
Store(c) == /\ Goto(c, "store", "mask")
            /\ istate' = [istate EXCEPT ![addr[On(c)]] = interrupts[c]]
            /\ addr' = [addr EXCEPT ![On(c)] = Nil]
            /\ UNCHANGED <<lockVars, ownedLockNum, shot, runVars, interrupts, lk, held>>

\* Variant: interrupts stay on while the lock is held.
MaskNothing(c) == /\ Goto(c, "mask", "record")
                  /\ UNCHANGED <<lockVars, cpuVars, runVars, interrupts, lk, addr, held>>

Mask(c) == /\ Goto(c, "mask", "record")
           /\ interrupts' = [interrupts EXCEPT ![c] = FALSE]
           /\ UNCHANGED <<lockVars, cpuVars, runVars, lk, addr, held>>

\* Variant: the lock is not counted.
RecordUncounted(c) == /\ Goto(c, "record", "idle")
                      /\ lockCpu' = [lockCpu EXCEPT ![lk[On(c)]] = c]
                      /\ held' = [held EXCEPT ![On(c)] = @ \cup {lk[On(c)]}]
                      /\ lk' = [lk EXCEPT ![On(c)] = Nil]
                      /\ UNCHANGED <<lockState, cpuVars, runVars, interrupts, addr>>

Record(c) == /\ Goto(c, "record", "idle")
             /\ lockCpu' = [lockCpu EXCEPT ![lk[On(c)]] = c]
             /\ ownedLockNum' = [ownedLockNum EXCEPT ![c] = @ + 1]
             /\ held' = [held EXCEPT ![On(c)] = @ \cup {lk[On(c)]}]
             /\ lk' = [lk EXCEPT ![On(c)] = Nil]
             /\ UNCHANGED <<lockState, istate, shot, runVars, interrupts, addr>>
------------------------------------------------------------------------------
(* kmt_spin_unlock *)

\* Lines 118 to 120: from here on another CPU may take the lock.
Release(c, l) == /\ Goto(c, "idle", "settle")
                 /\ l \in held[On(c)]
                 /\ lockState' = [lockState EXCEPT ![l] = 0]
                 /\ held' = [held EXCEPT ![On(c)] = @ \ {l}]
                 /\ UNCHANGED <<lockCpu, cpuVars, runVars, interrupts, lk, addr>>

\* Variant: every unlock gives the interrupts back, not only the last.
SettleEveryLock(c) == /\ Goto(c, "settle", "idle")
                      /\ ownedLockNum' = [ownedLockNum EXCEPT ![c] = @ - 1]
                      /\ interrupts' = [interrupts EXCEPT ![c] = @ \/ istate[c]]
                      /\ UNCHANGED <<lockVars, istate, shot, runVars, lk, addr, held>>

\* The last lock gives the CPU its interrupts back.
Settle(c) == /\ Goto(c, "settle", "idle")
             /\ ownedLockNum' = [ownedLockNum EXCEPT ![c] = @ - 1]
             /\ interrupts' = [interrupts EXCEPT
                                 ![c] = @ \/ (ownedLockNum[c] = 1 /\ istate[c])]
             /\ UNCHANGED <<lockVars, istate, shot, runVars, lk, addr, held>>
------------------------------------------------------------------------------
(* Traps *)

\* A handler nobody executes or will continue, and that owns no lock.
Fresh(h) == /\ \A c \in Cpu : kernel[c] # h
            /\ \A t \in Task : cont[t] # h
            /\ \A k \in Kernel : prev[k] # h
            /\ pc[h] \notin Window

\* A timer interrupt, or yield() of a task between two uses of locks, enters
\* the handler h; kmt_context_save.
Trap(c, h) ==
  /\ \/ interrupts[c]
     \/ kernel[c] = Nil /\ pc[On(c)] = "idle" /\ held[On(c)] = {}
  /\ Fresh(h)
  /\ kernel' = [kernel EXCEPT ![c] = h]
  /\ prev' = [prev EXCEPT ![h] = IF running[c] = Nil THEN Nil ELSE kernel[c]]
  /\ eflags' = [t \in Task |-> IF t = On(c) THEN interrupts[c] ELSE eflags[t]]
  /\ interrupts' = [interrupts EXCEPT ![c] = FALSE]
  /\ shot' = [shot EXCEPT ![c] = [istate |-> istate[c],
                                  ownedLockNum |-> ownedLockNum[c]]]
  /\ pc' = [pc EXCEPT ![h] = "restore"]
  /\ lk' = [lk EXCEPT ![h] = Nil]
  /\ calm' = (calm /\ pc[On(c)] \notin Window)
  /\ UNCHANGED <<lockVars, istate, ownedLockNum, running, cont, addr, held>>

\* cpu_restore_context, at the start of kmt_schedule, which frees the copy.
Restore(c) == /\ Goto(c, "restore", "idle")
              /\ istate' = [istate EXCEPT ![c] = shot[c].istate]
              /\ ownedLockNum' = [ownedLockNum EXCEPT ![c] = shot[c].ownedLockNum]
              /\ shot' = [shot EXCEPT ![c] = NoShot]
              /\ UNCHANGED <<lockVars, runVars, interrupts, lk, addr, held>>

\* kmt_schedule saves its argument as the task's context and links the task in
\* readyTasks: any CPU may now continue it.
PutBack(c) == /\ kernel[c] # Nil
              /\ running[c] # Nil
              /\ pc[kernel[c]] = "idle"
              /\ cont' = [cont EXCEPT ![running[c]] = prev[kernel[c]]]
              /\ prev' = [prev EXCEPT ![kernel[c]] = Nil]
              /\ running' = [running EXCEPT ![c] = Nil]
              /\ UNCHANGED <<lockVars, cpuVars, kernel, eflags, calm, interrupts,
                             pc, lk, addr, held>>

\* kmt_schedule takes a task from readyTasks, and __am_iret continues it, or
\* the handler that is its context, which was interrupted with interrupts on.
Pick(c, t) == /\ kernel[c] # Nil
              /\ running[c] = Nil
              /\ pc[kernel[c]] = "idle"
              /\ held[kernel[c]] = {}
              /\ \A d \in Cpu : running[d] # t
              /\ running' = [running EXCEPT ![c] = t]
              /\ kernel' = [kernel EXCEPT ![c] = cont[t]]
              /\ cont' = [cont EXCEPT ![t] = Nil]
              /\ interrupts' = [interrupts EXCEPT ![c] = cont[t] # Nil \/ eflags[t]]
              /\ eflags' = [eflags EXCEPT ![t] = cont[t] = Nil \/ @]
              /\ UNCHANGED <<lockVars, cpuVars, prev, calm, pc, lk, addr, held>>
------------------------------------------------------------------------------
Step(c) == \/ \E l \in Lock : Call(c, l) \/ Release(c, l)
           \/ Acquire(c) \/ Look(c) \/ Test(c) \/ Sense(c) \/ Store(c)
           \/ Mask(c) \/ Record(c) \/ Settle(c)
           \/ \E h \in Kernel : Trap(c, h)
           \/ Restore(c) \/ PutBack(c)
           \/ \E t \in Task : Pick(c, t)

Next == \E c \in Cpu : Step(c)

Spec == Init /\ [][Next]_vars
------------------------------------------------------------------------------
(* Properties *)

\* A flow owns a lock from its exchange to the exchange that gives it back.
Owns(f, l) == l \in held[f] \/ (lk[f] = l /\ pc[f] \in Window \cup {"record"})

\* A lock has at most one owner, wherever its owner was interrupted, and is
\* marked as taken exactly as long as it has one.
MutualExclusion ==
  \A l \in Lock : /\ lockState[l] = 1 <=> \E f \in Flow : Owns(f, l)
                  /\ \A f, g \in Flow : Owns(f, l) /\ Owns(g, l) => f = g

\* The checks of kmt_spin_unlock never stop the machine (lines 118, 119, 122):
\* whoever gives a lock back is on the CPU it was taken on, and that CPU has
\* counted it, although tasks migrate.
UnlockChecks ==
  \A c \in Cpu : /\ \A l \in held[On(c)] : lockState[l] = 1 /\ lockCpu[l] = c
                 /\ pc[On(c)] = "settle" => ownedLockNum[c] - 1 >= 0

\* As long as no interrupt has come in kmt_spin_lock between the exchange and
\* the masking of interrupts, the owner of a lock is executing: whoever spins
\* for the lock waits for someone who makes progress.
OwnerRuns ==
  calm => \A f \in Flow, l \in Lock : Owns(f, l) => \E c \in Cpu : On(c) = f

\* After such an interrupt that is not so: the handler may spin for the lock of
\* the task it has interrupted and not put back, which never continues then.
\* The code does not rule this out (kmt.c:105 to 111).
NoHandlerWaitsForItsTask ==
  \A c \in Cpu : ~ /\ kernel[c] # Nil /\ running[c] # Nil
                   /\ pc[kernel[c]] = "xchg"
                   /\ Owns(running[c], lk[kernel[c]])

\* As long as no interrupt has come in that window, unlocking gives back the
\* interrupts that were on before: a task without a lock has them on, the
\* kernel's own code has them off, so that no interrupt comes in a handler.
RestoresInterrupts ==
  calm => \A c \in Cpu : pc[On(c)] = "idle" /\ held[On(c)] = {}
                           => interrupts[c] = (kernel[c] = Nil)

\* common.h:33, "warning, assume that the cpu can only change itself!": a step
\* of CPU c changes the struct CPU of c only.
CpuOnlyChangesItself ==
  [][\A c \in Cpu : Step(c) =>
        \A d \in Cpu \ {c} : UNCHANGED <<istate[d], ownedLockNum[d], shot[d]>>]_vars
==============================================================================
