--------------------------------- MODULE Kmt ---------------------------------
(***************************************************************************)
(* The kernel's thread manager (lab2/src/kmt.c) with its only clients,     *)
(* os_run (os.c) and the tasks of test.c, on several CPUs.  One step is    *)
(* one critical section: the operations of the task queues, which          *)
(* TaskQueue shows to be atomic, and those of the record lists, which run  *)
(* under the list's one lock.  Between two steps other CPUs proceed, and a *)
(* task may be interrupted.  It may also be interrupted at the start of a  *)
(* critical section, inside kmt_spin_lock, when it has taken the lock and  *)
(* not masked interrupts yet (lines 105 to 111): `owner' keeps the locks   *)
(* taken by tasks that are interrupted there.  Of what follows from such   *)
(* an interrupt, the stray writes to another CPU's struct and with them    *)
(* interrupts in the handler itself are left to SpinLock: the safety       *)
(* properties here are about a handler that is not interrupted.            *)
(*                                                                         *)
(* A task is named by the address of its struct task, which pmm may hand   *)
(* out again once it is freed.  As in SpinLock, the kernel's own code on   *)
(* CPU c (os_run at first, kmt_schedule in a trap) is a flow of its own,   *)
(* named c.                                                                *)
(***************************************************************************)
EXTENDS Integers, Sequences, FiniteSets

CONSTANTS Cpu, Task,
          Sem,       \* the semaphores subtasks use (test.c: none)
          SemValue,  \* their initial count
          Kids,      \* how many subtasks task1 creates (test.c: 2)
          Watched,   \* the tasks the liveness properties follow: addresses are
                     \* interchangeable, so that one stands for all
          Spin,      \* SPINTASK, the idle task of each CPU
          Nil

ASSUME FlowAssumption == /\ Cpu \cap Task = {}
                         /\ {Nil, Spin} \cap (Cpu \cup Task) = {}
                         /\ Nil # Spin
ASSUME NumberAssumption == Kids \in Nat \ {0} /\ SemValue \in Nat /\ Watched \subseteq Task

Flow == Cpu \cup Task

\* The locks that tasks and handlers share, which a task takes with interrupts
\* on: of aliveTasks, of quitTasks, and tailLock of readyTasks.  (No handler
\* takes a semaphore's lock, and no client of the repository uses one.)
Lock == {"alive", "quit", "tail"}

VARIABLES mem,          \* the task structs handed out by pmm->alloc
          state, entry, \* fields of a task; NoEntry before kmt_create fills it in
          hasStack,     \* whether its stack is allocated
          ready, blocked,  \* readyTasks and blockedTasks
          alive, quit,     \* aliveTasks and quitTasks
          currentTask,  \* of each CPU
          inTrap,       \* whether a CPU executes its kernel flow
          pc,           \* of each flow
          kid, at,      \* t1, t2, ... of a flow, and which one is its turn
          count,        \* of each semaphore
          owner,        \* of each lock: the task interrupted in kmt_spin_lock
                        \* that has taken it, or Nil
          calm,         \* history: no interrupt came there
          halted        \* the assertion or HELP that stopped the machine

taskVars   == <<mem, state, entry, hasStack>>
queueVars  == <<ready, blocked>>
recordVars == <<alive, quit>>
cpuVars    == <<currentTask, inTrap>>
flowVars   == <<pc, kid, at>>
lockVars   == <<owner, calm>>
vars == <<taskVars, queueVars, recordVars, cpuVars, flowVars, lockVars, count, halted>>

NoEntry == "none"
Client == {"alloc", "add", "stack", "enqueue", "delete", "quit", "query", "loop"}
Schedule == {"inspect", "findQuit", "freeStack", "freeTask", "markReady",
             "requeue", "wake", "pick", "resume", "out"}
Stops == {"no", "os.c:18", "kmt.c:145", "kmt.c:167", "kmt.c:289", "kmt.c:306",
          "kmt.c:482", "test.c:22", "no node"}

TypeOK == /\ mem \in SUBSET Task
          /\ state \in [Task -> {"RUNNING", "READY", "BLOCKED"}]
          /\ entry \in [Task -> {NoEntry, "task1", "subtask"}]
          /\ hasStack \in [Task -> BOOLEAN]
          /\ ready \in Seq(Task) /\ blocked \in Seq(Task)
          /\ alive \in SUBSET Task /\ quit \in SUBSET Task
          /\ currentTask \in [Cpu -> Task \cup {Nil, Spin}]
          /\ inTrap \in [Cpu -> BOOLEAN]
          /\ pc \in [Flow -> Client \cup Schedule]
          /\ kid \in [Flow -> Seq(Task)]
          /\ at \in [Flow -> 1 .. Kids]
          /\ count \in [Sem -> Int]
          /\ owner \in [Lock -> Task \cup {Nil}]
          /\ calm \in BOOLEAN
          /\ halted \in Stops

CpuInit == currentTask = [c \in Cpu |-> Nil]
RecordTasksInit(list) == list = {}
StateManageInit == /\ ready = <<>> /\ blocked = <<>>
                   /\ RecordTasksInit(alive) /\ RecordTasksInit(quit)
SemInit == count = [s \in Sem |-> SemValue]

\* kmt_init, then os_run on every CPU.
Init == /\ CpuInit /\ StateManageInit /\ SemInit
        /\ mem = {}
        /\ state = [t \in Task |-> "READY"]
        /\ entry = [t \in Task |-> NoEntry]
        /\ hasStack = [t \in Task |-> FALSE]
        /\ inTrap = [c \in Cpu |-> TRUE]
        /\ pc = [f \in Flow |-> IF f \in Cpu THEN "alloc" ELSE "loop"]
        /\ kid = [f \in Flow |-> <<>>]
        /\ at = [f \in Flow |-> 1]
        /\ owner = [l \in Lock |-> Nil]
        /\ calm = TRUE
        /\ halted = "no"

------------------------------------------------------------------------------
(* Which handlers os_trap calls: those the vector table has for the event    *)
(* ("NULL": for every event), up to the first that returns a context.        *)

\* An entry after IVT_init; one of the empty entries stands for all.
Empty == [event |-> "none", handler |-> "none"]

OnIrq(table, seq, event, handler) ==
  [table EXCEPT ![seq] = [event |-> event, handler |-> handler]]

\* What kmt_init registers, entry 6 being IVTMAX.
IVT ==
  LET schedule == OnIrq(OnIrq([i \in 0 .. 6 |-> Empty], 0, "NULL", "kmt_context_save"),
                        6, "NULL", "kmt_schedule")
      faults == OnIrq(OnIrq(schedule, 5, "ERROR", "kmt_error_handler"),
                      4, "PAGEFAULT", "kmt_pagefault_handler")
  IN OnIrq(OnIrq(faults, 3, "SYSCALL", "kmt_syscall_handler"), 2, "YIELD", "kmt_yield_handler")

\* kmt_yield_handler and kmt_context_save return NULL.
ReturnsContext(handler) == handler \notin {"kmt_context_save", "kmt_yield_handler", "none"}

\* Where os_trap leads the kernel's flow.
OsTrap(event) ==
  LET Answers(i) == IVT[i].event \in {"NULL", event} /\ ReturnsContext(IVT[i].handler)
      first == CHOOSE i \in 0 .. 6 : Answers(i) /\ \A j \in 0 .. i - 1 : ~Answers(j)
  IN IF IVT[first].handler = "kmt_schedule" THEN "inspect" ELSE "out"
------------------------------------------------------------------------------
\* The flow that CPU c executes (Spin: spintask, an empty loop), and the task
\* whose turn it is in a flow.
On(c) == IF inTrap[c] THEN c ELSE currentTask[c]
It(f) == kid[f][at[f]]

\* CPU c executes, and its flow f is at label l.
At(c, f, l) == halted = "no" /\ On(c) = f /\ f \in Flow /\ pc[f] = l

Goto(f, l) == pc' = [pc EXCEPT ![f] = l]

\* Variant: it does not start again with the first one.
NextKidNoReset(f, again, done) ==
  /\ Goto(f, IF at[f] < Len(kid[f]) THEN again ELSE done)
  /\ at' = [at EXCEPT ![f] = @ + 1]

\* Do the same with the flow's next task, or go on with the first one.
NextKid(f, again, done) ==
  /\ Goto(f, IF at[f] < Len(kid[f]) THEN again ELSE done)
  /\ at' = [at EXCEPT ![f] = IF @ < Len(kid[f]) THEN @ + 1 ELSE 1]

\* A critical section of flow f, from taking lock l to giving it back.
Section(f, l) == /\ owner[l] \in {Nil, f}
                 /\ owner' = [owner EXCEPT ![l] = Nil]

\* The lock that the next step of task t takes first, if any (at "stack", if
\* there is no memory for one).
FirstLock(t) == CASE pc[t] \in {"add", "stack", "delete", "query"} -> {"alive"}
                  [] pc[t] = "quit" -> {"quit"}
                  [] pc[t] = "enqueue" -> {"tail"}
                  [] OTHER -> {}

\* What follows the last kmt_create: os_run yields, task1 tears its tasks down.
Created(f) == IF f \in Cpu THEN OsTrap("YIELD") ELSE "delete"
------------------------------------------------------------------------------
(* kmt_create, called by os_run for a task1 and by task1 for its subtasks    *)

\* pmm->alloc gives NULL only when no memory is left, and kmt_create halts.
AllocTask(c, f) ==
  /\ At(c, f, "alloc")
  /\ \/ \E t \in Task \ mem :
           /\ mem' = mem \cup {t}
           /\ kid' = [kid EXCEPT ![f] = Append(@, t)]
           /\ Goto(f, IF f \in Cpu \/ Len(kid[f]) + 1 = Kids THEN "add" ELSE "alloc")
           /\ UNCHANGED halted
     \/ /\ mem = Task
        /\ halted' = "kmt.c:145"
        /\ UNCHANGED <<mem, kid, pc>>
  /\ UNCHANGED <<state, entry, hasStack, queueVars, recordVars, cpuVars, at, count, lockVars>>

\* recordTasks_add(task,aliveTasks); a task that is already there is an error.
AddAlive(c, f) ==
  /\ At(c, f, "add")
  /\ Section(f, "alive")
  /\ alive' = alive \cup {It(f)}
  /\ halted' = IF It(f) \in alive THEN "kmt.c:167" ELSE halted
  /\ Goto(f, "stack")
  /\ UNCHANGED <<taskVars, queueVars, quit, cpuVars, kid, at, count, calm>>

\* The rest of the struct; its context starts at the beginning of its entry.
FillIn(c, f) ==
  LET t == It(f)
      e == IF f \in Cpu THEN "task1" ELSE "subtask"
  IN /\ At(c, f, "stack")
     /\ owner["alive"] # f
     /\ hasStack' = [hasStack EXCEPT ![t] = TRUE]
     /\ state' = [state EXCEPT ![t] = "READY"]
     /\ entry' = [entry EXCEPT ![t] = e]
     /\ pc' = [pc EXCEPT ![f] = "enqueue", ![t] = IF e = "task1" THEN "alloc" ELSE "loop"]
     /\ UNCHANGED <<mem, queueVars, recordVars, cpuVars, kid, at, count, halted, lockVars>>

\* No memory for the stack: take the task out of aliveTasks and return 1, which
\* stops os_run and which task1 ignores.
NoStack(c, f) ==
  /\ At(c, f, "stack")
  /\ Section(f, "alive")
  /\ alive' = alive \ {It(f)}
  /\ halted' = IF f \in Cpu THEN "os.c:18" ELSE halted
  /\ NextKid(f, "add", Created(f))
  /\ UNCHANGED <<taskVars, queueVars, quit, cpuVars, kid, count, calm>>

Enqueue(c, f) ==
  /\ At(c, f, "enqueue")
  /\ Section(f, "tail")
  /\ ready' = Append(ready, It(f))
  /\ NextKid(f, "add", Created(f))
  /\ UNCHANGED <<taskVars, blocked, recordVars, cpuVars, kid, count, halted, calm>>

\* No memory for the node of a list or of a queue, whose lock is held: HELP and
\* assert stop the machine, in kmt_create, kmt_teardown and kmt_schedule.
NoNode(c, f) ==
  /\ \E step \in {<<"add", "alive">>, <<"enqueue", "tail">>, <<"quit", "quit">>,
                  <<"requeue", "tail">>} :
        At(c, f, step[1]) /\ owner[step[2]] \in {Nil, f}
  /\ halted' = "no node"
  /\ UNCHANGED <<taskVars, queueVars, recordVars, cpuVars, flowVars, count, lockVars>>
------------------------------------------------------------------------------
(* kmt_teardown, and what task1 does next                                   *)

\* recordTasks_delete(task,aliveTasks): without it there is nothing to do.
DeleteAlive(c, f) ==
  /\ At(c, f, "delete")
  /\ Section(f, "alive")
  /\ alive' = alive \ {It(f)}
  /\ \/ It(f) \in alive /\ Goto(f, "quit") /\ UNCHANGED at
     \/ It(f) \notin alive /\ NextKid(f, "delete", "query")
  /\ UNCHANGED <<taskVars, queueVars, quit, cpuVars, kid, count, halted, calm>>

AddQuit(c, f) ==
  /\ At(c, f, "quit")
  /\ Section(f, "quit")
  /\ quit' = quit \cup {It(f)}
  /\ NextKid(f, "delete", "query")
  /\ UNCHANGED <<taskVars, queueVars, alive, cpuVars, kid, count, halted, calm>>

\* recordTasks_query(task,aliveTasks)!=NULL
IsAlive(t) == t \in alive

\* assert(recordTasks_query(t1,aliveTasks)==NULL)
Query(c, f) ==
  /\ At(c, f, "query")
  /\ Section(f, "alive")
  /\ halted' = IF IsAlive(It(f)) THEN "test.c:22" ELSE halted
  /\ NextKid(f, "query", "loop")
  /\ UNCHANGED <<taskVars, queueVars, recordVars, cpuVars, kid, count, calm>>
------------------------------------------------------------------------------
(* kmt_sem_wait and kmt_sem_signal.  The queue of the tasks that wait is not *)
(* one of the two that tasks_enqueue and tasks_dequeue accept.               *)

SemWait(c, f, s) ==
  /\ At(c, f, "loop")
  /\ entry[f] = "subtask"
  /\ count' = [count EXCEPT ![s] = @ - 1]
  /\ \/ count[s] > 0 /\ UNCHANGED <<state, halted>>
     \/ /\ count[s] <= 0
        /\ state' = [state EXCEPT ![f] = "BLOCKED"]
        /\ halted' = "kmt.c:289"
  /\ UNCHANGED <<mem, entry, hasStack, queueVars, recordVars, cpuVars, flowVars, lockVars>>

SemSignal(c, f, s) ==
  /\ At(c, f, "loop")
  /\ entry[f] = "subtask"
  /\ count' = [count EXCEPT ![s] = @ + 1]
  /\ halted' = IF count[s] + 1 >= 0 THEN "kmt.c:306" ELSE halted
  /\ UNCHANGED <<taskVars, queueVars, recordVars, cpuVars, flowVars, lockVars>>
------------------------------------------------------------------------------
(* os_trap: kmt_context_save, then kmt_schedule                              *)

\* A timer interrupt: it comes between any two critical sections, or when the
\* task has just taken its next lock.
Trap(c) == /\ halted = "no"
           /\ ~inTrap[c]
           /\ inTrap' = [inTrap EXCEPT ![c] = TRUE]
           /\ Goto(c, OsTrap("IRQ_TIMER"))
           /\ \/ UNCHANGED lockVars
              \/ /\ currentTask[c] \in Task
                 /\ \A l \in Lock : owner[l] # currentTask[c]
                 /\ \E l \in FirstLock(currentTask[c]) :
                       /\ owner[l] = Nil
                       /\ owner' = [owner EXCEPT ![l] = currentTask[c]]
                 /\ calm' = FALSE
           /\ UNCHANGED <<taskVars, queueVars, recordVars, currentTask, kid, at, count, halted>>

\* Variant: a task that has been torn down is put back like any other.
InspectNoQuit(c) ==
  LET t == currentTask[c]
  IN /\ At(c, c, "inspect")
     /\ Goto(c, IF t \in Task THEN "requeue" ELSE "wake")
     /\ currentTask' = [currentTask EXCEPT ![c] = IF t \in Task THEN t ELSE Nil]
     /\ UNCHANGED <<taskVars, queueVars, recordVars, inTrap, kid, at, count, halted, lockVars>>

\* os_run and spintask are not put back into a queue.
Inspect(c) ==
  LET t == currentTask[c]
  IN /\ At(c, c, "inspect")
     /\ \/ /\ t \in Task
           /\ Goto(c, IF state[t] = "RUNNING" THEN "findQuit" ELSE "requeue")
           /\ UNCHANGED currentTask
        \/ /\ t \notin Task
           /\ Goto(c, "wake")
           /\ currentTask' = [currentTask EXCEPT ![c] = Nil]
     /\ UNCHANGED <<taskVars, queueVars, recordVars, inTrap, kid, at, count, halted, lockVars>>

\* Variant: recordTasks_query instead of recordTasks_delete.
FindQuitOnly(c) ==
  /\ At(c, c, "findQuit")
  /\ owner["quit"] = Nil
  /\ Goto(c, IF currentTask[c] \in quit THEN "freeStack" ELSE "markReady")
  /\ UNCHANGED <<taskVars, queueVars, recordVars, cpuVars, kid, at, count, halted, lockVars>>

\* Variant: the stack of a task that has been torn down is not freed.
FindQuitKeepStack(c) ==
  /\ At(c, c, "findQuit")
  /\ owner["quit"] = Nil
  /\ quit' = quit \ {currentTask[c]}
  /\ Goto(c, IF currentTask[c] \in quit THEN "freeTask" ELSE "markReady")
  /\ UNCHANGED <<taskVars, queueVars, alive, cpuVars, kid, at, count, halted, lockVars>>

\* recordTasks_delete(currentTask,quitTasks)
FindQuit(c) ==
  /\ At(c, c, "findQuit")
  /\ owner["quit"] = Nil
  /\ quit' = quit \ {currentTask[c]}
  /\ Goto(c, IF currentTask[c] \in quit THEN "freeStack" ELSE "markReady")
  /\ UNCHANGED <<taskVars, queueVars, alive, cpuVars, kid, at, count, halted, lockVars>>

FreeStack(c) ==
  /\ At(c, c, "freeStack")
  /\ hasStack' = [hasStack EXCEPT ![currentTask[c]] = FALSE]
  /\ Goto(c, "freeTask")
  /\ UNCHANGED <<mem, state, entry, queueVars, recordVars, cpuVars, kid, at, count, halted, lockVars>>

\* The fields of freed memory are reset here only to keep states few.
FreeTask(c) ==
  LET t == currentTask[c]
  IN /\ At(c, c, "freeTask")
     /\ mem' = mem \ {t}
     /\ state' = [state EXCEPT ![t] = "READY"]
     /\ entry' = [entry EXCEPT ![t] = NoEntry]
     /\ pc' = [pc EXCEPT ![c] = "wake", ![t] = "loop"]
     /\ currentTask' = [currentTask EXCEPT ![c] = Nil]
     /\ UNCHANGED <<hasStack, queueVars, recordVars, inTrap, kid, at, count, halted, lockVars>>

MarkReady(c) ==
  /\ At(c, c, "markReady")
  /\ state' = [state EXCEPT ![currentTask[c]] = "READY"]
  /\ Goto(c, "requeue")
  /\ UNCHANGED <<mem, entry, hasStack, queueVars, recordVars, cpuVars, kid, at, count, halted, lockVars>>

\* Variant: the task becomes the first of readyTasks, not the last.
RequeueFirst(c) ==
  LET t == currentTask[c]
  IN /\ At(c, c, "requeue")
     /\ state[t] = "BLOCKED" \/ owner["tail"] = Nil
     /\ ready' = IF state[t] = "BLOCKED" THEN ready ELSE <<t>> \o ready
     /\ blocked' = IF state[t] = "BLOCKED" THEN Append(blocked, t) ELSE blocked
     /\ currentTask' = [currentTask EXCEPT ![c] = Nil]
     /\ Goto(c, "wake")
     /\ UNCHANGED <<taskVars, recordVars, inTrap, kid, at, count, halted, lockVars>>

\* From here on another CPU may run the task, though this CPU has not left its
\* stack yet.
Requeue(c) ==
  LET t == currentTask[c]
  IN /\ At(c, c, "requeue")
     /\ state[t] = "BLOCKED" \/ owner["tail"] = Nil
     /\ ready' = IF state[t] = "BLOCKED" THEN ready ELSE Append(ready, t)
     /\ blocked' = IF state[t] = "BLOCKED" THEN Append(blocked, t) ELSE blocked
     /\ currentTask' = [currentTask EXCEPT ![c] = Nil]
     /\ Goto(c, "wake")
     /\ UNCHANGED <<taskVars, recordVars, inTrap, kid, at, count, halted, lockVars>>

\* The search for a blocked task to wake up asserts that there is none.
Wake(c) ==
  /\ At(c, c, "wake")
  /\ halted' = IF blocked = <<>> THEN halted ELSE "kmt.c:482"
  /\ Goto(c, "pick")
  /\ UNCHANGED <<taskVars, queueVars, recordVars, cpuVars, kid, at, count, lockVars>>

\* Variant: the task stays in readyTasks.
PickPeek(c) ==
  /\ At(c, c, "pick")
  /\ currentTask' = [currentTask EXCEPT ![c] = IF ready = <<>> THEN Spin ELSE Head(ready)]
  /\ inTrap' = [inTrap EXCEPT ![c] = ready # <<>>]
  /\ Goto(c, IF ready = <<>> THEN "out" ELSE "resume")
  /\ UNCHANGED <<taskVars, queueVars, recordVars, kid, at, count, halted, lockVars>>

Pick(c) ==
  /\ At(c, c, "pick")
  /\ \/ /\ ready = <<>>
        /\ currentTask' = [currentTask EXCEPT ![c] = Spin]
        /\ inTrap' = [inTrap EXCEPT ![c] = FALSE]
        /\ Goto(c, "out")
        /\ UNCHANGED ready
     \/ /\ ready # <<>>
        /\ currentTask' = [currentTask EXCEPT ![c] = Head(ready)]
        /\ ready' = Tail(ready)
        /\ Goto(c, "resume")
        /\ UNCHANGED inTrap
  /\ UNCHANGED <<taskVars, blocked, recordVars, kid, at, count, halted, lockVars>>

\* Variant: the state of the task that resumes stays READY.
ResumeReady(c) ==
  /\ At(c, c, "resume")
  /\ inTrap' = [inTrap EXCEPT ![c] = FALSE]
  /\ Goto(c, "out")
  /\ UNCHANGED <<taskVars, queueVars, recordVars, currentTask, kid, at, count, halted, lockVars>>

Resume(c) ==
  /\ At(c, c, "resume")
  /\ state' = [state EXCEPT ![currentTask[c]] = "RUNNING"]
  /\ inTrap' = [inTrap EXCEPT ![c] = FALSE]
  /\ Goto(c, "out")
  /\ UNCHANGED <<mem, entry, hasStack, queueVars, recordVars, currentTask, kid, at,
                 count, halted, lockVars>>
------------------------------------------------------------------------------
ClientStep(c, f) ==
  \/ AllocTask(c, f) \/ AddAlive(c, f) \/ FillIn(c, f) \/ NoStack(c, f) \/ Enqueue(c, f)
  \/ NoNode(c, f)
  \/ DeleteAlive(c, f) \/ AddQuit(c, f) \/ Query(c, f)
  \/ \E s \in Sem : SemWait(c, f, s) \/ SemSignal(c, f, s)

KernelStep(c) == \/ Inspect(c) \/ FindQuit(c) \/ FreeStack(c) \/ FreeTask(c)
                 \/ MarkReady(c) \/ Requeue(c) \/ Wake(c) \/ Pick(c) \/ Resume(c)

Next == \E c \in Cpu : ClientStep(c, On(c)) \/ KernelStep(c) \/ Trap(c)

Spec == Init /\ [][Next]_vars

\* The timer of every CPU keeps ticking, and the kernel's own code, which runs
\* with interrupts off, keeps executing; nothing is assumed of tasks.  A CPU
\* that spins for a lock which is given back gets it in the end: atomic_xchg
\* serves no one for ever at the cost of another.
FairSpec == Spec /\ \A c \in Cpu : WF_vars(ClientStep(c, c) \/ KernelStep(c) \/ Trap(c))
------------------------------------------------------------------------------
(* Properties                                                               *)

\* The places where a CPU may take task t from, or has it.
Queued(t) == {i \in 1 .. Len(ready) : ready[i] = t}
Holders(t) == {c \in Cpu : currentTask[c] = t}

\* kmt_create has handed the task over to the scheduler.
Enqueued(t) == /\ entry[t] # NoEntry
               /\ \A f \in Flow : ~(pc[f] = "enqueue" /\ It(f) = t)

\* A task is in readyTasks once, or on one CPU: it is never lost and never runs
\* twice at a time, through preemption, migration and teardown.
InOnePlace ==
  \A t \in Task :
     Cardinality(Queued(t)) + Cardinality(Holders(t)) = IF Enqueued(t) THEN 1 ELSE 0

\* No queue, list or CPU refers to a struct task that has been freed, and a
\* task that has been torn down is not alive.
NoDangling == /\ \A t \in Task : Queued(t) # {} \/ Holders(t) # {} => t \in mem
              /\ alive \cup quit \subseteq mem
              /\ alive \cap quit = {}

\* Only a task that kmt_teardown has taken out of aliveTasks is freed, on the
\* CPU that last ran it, and its stack before its struct.
FreedOnlyAfterTeardown ==
  [][\A t \in mem \ mem' : /\ t \notin alive /\ ~hasStack[t]
                           /\ \E c \in Cpu : currentTask[c] = t /\ inTrap[c]]_vars

\* The scheduler's own checks: a task that is interrupted is RUNNING, no task
\* is ever found in blockedTasks (line 482), and a new task is not in
\* aliveTasks (line 167), although addresses are used again.
SchedulerChecks ==
  /\ halted \notin {"kmt.c:167", "kmt.c:482"}
  /\ \A c \in Cpu : pc[c] = "inspect" /\ currentTask[c] \in Task /\ halted = "no"
                       => state[currentTask[c]] = "RUNNING"

\* A task in readyTasks gets a CPU, unless a task is interrupted between taking
\* a lock and masking interrupts.
ReadyRuns ==
  \A t \in Watched : Queued(t) # {} ~> Holders(t) # {} \/ halted # "no" \/ ~calm

\* A task that has been torn down gives its memory back, unless a task is
\* interrupted there.
QuitFreed == \A t \in Watched : t \in quit ~> t \notin mem \/ halted # "no" \/ ~calm

\* The handler on CPU c spins for a lock of the task it has interrupted.
SelfSpin(c) == /\ inTrap[c] /\ currentTask[c] \in Task
               /\ \/ pc[c] = "findQuit" /\ owner["quit"] = currentTask[c]
                  \/ /\ pc[c] = "requeue" /\ state[currentTask[c]] # "BLOCKED"
                     /\ owner["tail"] = currentTask[c]

\* What such an interrupt leads to: a CPU whose handler spins for a lock of its
\* own task is lost, and with it the task and the lock; no other CPU continues
\* the task, and nobody gives the lock back.
SpinsForEver == [][\A c \in Cpu : SelfSpin(c) => SelfSpin(c)']_vars

\* The code does not rule it out (kmt.c:105).
NoSelfSpin == \A c \in Cpu : ~SelfSpin(c)

\* tasks_enqueue and tasks_dequeue are called for blockedTasks or readyTasks
\* (their assert, lines 289 and 306).
QueueAssert == halted \notin {"kmt.c:289", "kmt.c:306"}

\* A task that task1 has torn down is not in aliveTasks (test.c:22 and 23).
TornDownNotAlive == halted # "test.c:22"
==============================================================================
