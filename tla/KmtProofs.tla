------------------------------- MODULE KmtProofs ------------------------------
(***************************************************************************)
(* Proofs about Kmt for any CPUs, addresses of tasks and number of         *)
(* subtasks.                                                               *)
(***************************************************************************)
EXTENDS Kmt, SequenceTheorems, FiniteSetTheorems, TLAPS

In(t, s) == \E i \in 1 .. Len(s) : s[i] = t
Distinct(s) == \A i, j \in 1 .. Len(s) : s[i] = s[j] => i = j

\* How many tasks a flow has allocated, the turns of those that are still its
\* own, and whether one of them has not been filled in yet.
N(f) == Len(kid[f])
Mine(f) == CASE pc[f] \in {"alloc", "add", "stack", "enqueue"} -> 1 .. N(f)
             [] pc[f] \in {"delete", "quit"} -> at[f] .. N(f)
             [] OTHER -> {}
Fresh(f, i) == \/ pc[f] = "alloc"
               \/ pc[f] \in {"add", "stack", "enqueue"} /\ i > at[f]
               \/ pc[f] \in {"add", "stack"} /\ i = at[f]
EntryOf(f) == IF f \in Cpu THEN "task1" ELSE "subtask"

\* A flow has as many tasks as its code creates before it goes on.
FlowInv ==
  /\ \A c \in Cpu : /\ at[c] = 1
                    /\ pc[c] \in {"alloc", "add", "stack", "enqueue"} \cup Schedule
                    /\ N(c) = IF pc[c] = "alloc" THEN 0 ELSE 1
  /\ \A t \in Task : /\ pc[t] \in Client
                     /\ entry[t] # "task1" => pc[t] = "loop" /\ N(t) = 0 /\ at[t] = 1
                     /\ pc[t] = "alloc" => N(t) < Kids /\ at[t] = 1
                     /\ pc[t] \notin {"alloc", "loop"} => N(t) = Kids

\* A task belongs to one flow until this flow has torn it down.
KidInv ==
  \A f \in Flow : \A i \in Mine(f) :
    LET t == kid[f][i]
    IN /\ t \in mem /\ t \notin quit
       /\ entry[t] \in {NoEntry, EntryOf(f)}
       /\ \A g \in Flow : \A j \in Mine(g) : kid[g][j] = t => g = f /\ j = i
       /\ Fresh(f, i) => entry[t] = NoEntry
       /\ entry[t] = NoEntry /\ t \in alive => pc[f] = "stack" /\ i = at[f]
       /\ pc[f] = "enqueue" /\ i = at[f] => entry[t] # NoEntry
       /\ pc[f] = "quit" /\ i = at[f] => entry[t] # NoEntry /\ t \notin alive

\* A task that has been torn down, until it is freed.
Freeing(c) == pc[c] \in {"freeStack", "freeTask"}
Gone(t) == t \in quit \/ \E c \in Cpu : Freeing(c) /\ currentTask[c] = t
GoneInv ==
  /\ \A t \in Task : Gone(t) => /\ t \in mem /\ t \notin alive /\ entry[t] = "subtask"
                                /\ \A f \in Flow : \A i \in Mine(f) : kid[f][i] # t
  /\ \A c \in Cpu : /\ Freeing(c) => currentTask[c] \notin quit
                    /\ pc[c] = "freeTask" => ~hasStack[currentTask[c]]

MemInv == alive \subseteq mem /\ \A t \in Task \ mem : entry[t] = NoEntry

\* A task is in one place, from when it is enqueued on.
PlaceInv ==
  /\ Distinct(ready)
  /\ \A c, d \in Cpu : currentTask[c] \in Task /\ currentTask[c] = currentTask[d] => c = d
  /\ \A c \in Cpu : currentTask[c] \in Task => ~In(currentTask[c], ready)
  /\ \A t \in Task : Enqueued(t) <=> In(t, ready) \/ \E c \in Cpu : currentTask[c] = t

\* What a CPU has at each point of os_run and kmt_schedule.
CpuInv ==
  \A c \in Cpu :
    /\ ~inTrap[c] <=> pc[c] = "out"
    /\ pc[c] \in {"alloc", "add", "stack", "enqueue", "wake", "pick"} => currentTask[c] = Nil
    /\ pc[c] \in {"findQuit", "freeStack", "freeTask", "markReady", "requeue", "resume"}
          => currentTask[c] \in Task

\* The state of the task of a CPU, until an assertion stops the machine.
StateInv ==
  halted = "no" =>
    \A c \in Cpu : currentTask[c] \in Task =>
      /\ pc[c] \in {"out", "inspect", "findQuit", "markReady"} => state[currentTask[c]] = "RUNNING"
      /\ pc[c] = "requeue" => state[currentTask[c]] = "READY"

HaltInv == blocked = <<>> /\ halted \notin {"kmt.c:167", "kmt.c:482"}

IInv == /\ TypeOK /\ FlowInv /\ KidInv /\ GoneInv /\ MemInv /\ PlaceInv /\ CpuInv
        /\ StateInv /\ HaltInv
------------------------------------------------------------------------------
\* A task that is not in a queue without repetition is in it once when it has
\* been appended.
LEMMA AppendIn ==
  ASSUME NEW s \in Seq(Task), NEW x \in Task
  PROVE  /\ Append(s, x) \in Seq(Task)
         /\ \A t : In(t, Append(s, x)) <=> In(t, s) \/ t = x
         /\ Distinct(s) /\ ~In(x, s) => Distinct(Append(s, x))
<1> DEFINE n == Len(s)  a == Append(s, x)
<1>1. /\ a \in Seq(Task) /\ n \in Nat /\ Len(a) = n + 1
      /\ \A i \in 1 .. n : a[i] = s[i]
      /\ a[n + 1] = x
  BY AppendProperties, LenProperties
<1> HIDE DEF n, a
<1>2. \A t : In(t, a) <=> (\E i \in 1 .. n : s[i] = t) \/ t = x
  <2>1. \A i : i \in 1 .. n + 1 <=> i \in 1 .. n \/ i = n + 1
    BY <1>1
  <2> QED
    BY <1>1, <2>1 DEF In
<1>3. (\A i, j \in 1 .. n : s[i] = s[j] => i = j) /\ ~(\E i \in 1 .. n : s[i] = x) => Distinct(a)
  <2>1. \A i : i \in 1 .. n + 1 <=> i \in 1 .. n \/ i = n + 1
    BY <1>1
  <2> QED
    BY <1>1, <2>1 DEF Distinct
<1> QED
  BY <1>1, <1>2, <1>3 DEF In, Distinct, n, a

\* The first task of a queue without repetition is not in it when it has been
\* taken out.
LEMMA TailIn ==
  ASSUME NEW s \in Seq(Task), s # <<>>
  PROVE  /\ Head(s) \in Task /\ Tail(s) \in Seq(Task)
         /\ In(Head(s), s)
         /\ Distinct(s) => /\ Distinct(Tail(s))
                           /\ \A t : In(t, Tail(s)) <=> In(t, s) /\ t # Head(s)
<1> DEFINE n == Len(s)  u == Tail(s)
<1>1. /\ u \in Seq(Task) /\ n \in Nat \ {0} /\ Len(u) = n - 1
      /\ \A i \in 1 .. n - 1 : u[i] = s[i + 1]
      /\ Head(s) = s[1] /\ s[1] \in Task
  <2>1. n \in Nat /\ n # 0
    BY LenProperties, EmptySeq
  <2>2. u \in Seq(Task) /\ Len(u) = n - 1 /\ \A i \in 1 .. Len(u) : u[i] = s[i + 1]
    BY HeadTailProperties
  <2>3. Head(s) = s[1] /\ s[1] \in Task
    BY <2>1, HeadTailProperties, ElementOfSeq
  <2> QED
    BY <2>1, <2>2, <2>3
<1> HIDE DEF n, u
<1>2. \A i : i \in 1 .. n <=> i = 1 \/ (i - 1 \in 1 .. n - 1 /\ i \in Int)
  BY <1>1
<1>3. (\A i, j \in 1 .. n : s[i] = s[j] => i = j) => Distinct(u)
  BY <1>1 DEF Distinct
<1>4. ASSUME \A i, j \in 1 .. n : s[i] = s[j] => i = j, NEW t
      PROVE  In(t, u) <=> (\E i \in 1 .. n : s[i] = t) /\ t # s[1]
  <2>1. ASSUME NEW i \in 1 .. n - 1, u[i] = t
        PROVE  (\E k \in 1 .. n : s[k] = t) /\ t # s[1]
    <3>1. i + 1 \in 1 .. n /\ 1 \in 1 .. n /\ i + 1 # 1 /\ s[i + 1] = t
      BY <1>1, <2>1
    <3> QED
      BY <1>4, <3>1
  <2>2. ASSUME NEW k \in 1 .. n, s[k] = t, t # s[1]
        PROVE  \E i \in 1 .. n - 1 : u[i] = t
    <3>1. k - 1 \in 1 .. n - 1 /\ s[(k - 1) + 1] = t
      BY <1>1, <2>2
    <3> QED
      BY <1>1, <3>1
  <2> QED
    BY <1>1, <2>1, <2>2 DEF In
<1> QED
  <2>1. 1 \in 1 .. n
    BY <1>1
  <2> QED
    BY <1>1, <1>3, <1>4, <2>1 DEF In, Distinct, n, u

\* The timer and a yield lead to kmt_schedule.
LEMMA Dispatched == OsTrap("IRQ_TIMER") = "inspect" /\ OsTrap("YIELD") = "inspect"
<1>1. /\ IVT[0].event = "NULL" /\ IVT[0].handler = "kmt_context_save"
      /\ IVT[1].event = "none" /\ IVT[1].handler = "none"
      /\ IVT[2].event = "YIELD" /\ IVT[2].handler = "kmt_yield_handler"
      /\ IVT[3].event = "SYSCALL" /\ IVT[4].event = "PAGEFAULT" /\ IVT[5].event = "ERROR"
      /\ IVT[6].event = "NULL" /\ IVT[6].handler = "kmt_schedule"
  BY DEF IVT, OnIrq, Empty
<1>2. ASSUME NEW ev \in {"IRQ_TIMER", "YIELD"} PROVE OsTrap(ev) = "inspect"
  <2> DEFINE Answers(i) == IVT[i].event \in {"NULL", ev} /\ ReturnsContext(IVT[i].handler)
             first == CHOOSE i \in 0 .. 6 : Answers(i) /\ \A j \in 0 .. i - 1 : ~Answers(j)
  <2>1. Answers(6) /\ \A i \in 0 .. 5 : ~Answers(i)
    BY <1>1 DEF ReturnsContext
  <2>2. \A i \in 0 .. 6 : i = 6 \/ i \in 0 .. 5
    OBVIOUS
  <2> HIDE DEF Answers
  <2>3. first = 6
    BY <2>1, <2>2
  <2> HIDE DEF first
  <2>4. OsTrap(ev) = IF IVT[first].handler = "kmt_schedule" THEN "inspect" ELSE "out"
    BY DEF OsTrap, Answers, first
  <2> QED
    BY <1>1, <2>3, <2>4
<1> QED
  BY <1>2

\* os_run has not created anything yet.
THEOREM Initial == Init => IInv
<1> SUFFICES ASSUME Init PROVE IInv
  OBVIOUS
<1> USE FlowAssumption, NumberAssumption DEF Init, CpuInit, StateManageInit, RecordTasksInit, SemInit, Flow
<1>0. \A f \in Flow : kid[f] = <<>> /\ N(f) = 0 /\ Mine(f) = {}
  BY DEF N, Mine
<1>1. TypeOK
  BY DEF TypeOK, NoEntry, Client, Schedule, Stops
<1>2. FlowInv
  BY <1>0 DEF FlowInv, NoEntry, Client
<1>3. KidInv /\ GoneInv /\ MemInv
  BY <1>0 DEF KidInv, GoneInv, Gone, Freeing, MemInv
<1>4. PlaceInv
  BY DEF PlaceInv, Distinct, In, Enqueued
<1>5. CpuInv /\ StateInv /\ HaltInv
  BY DEF CpuInv, StateInv, HaltInv
<1> QED
  BY <1>1, <1>2, <1>3, <1>4, <1>5 DEF IInv

\* A step takes a lock for one task or gives it back.
LEMMA LocksTyped ==
  TypeOK /\ [Next]_vars => owner' \in [Lock -> Task \cup {Nil}] /\ calm' \in BOOLEAN
<1> SUFFICES ASSUME TypeOK, [Next]_vars
             PROVE  owner' \in [Lock -> Task \cup {Nil}] /\ calm' \in BOOLEAN
  OBVIOUS
<1> USE DEF TypeOK, lockVars
<1>1. ASSUME NEW c \in Cpu, NEW f, ClientStep(c, f)
      PROVE  owner' \in [Lock -> Task \cup {Nil}] /\ calm' \in BOOLEAN
  BY <1>1 DEF ClientStep, AllocTask, AddAlive, FillIn, NoStack, Enqueue, NoNode, DeleteAlive,
     AddQuit, Query, SemWait, SemSignal, Section
<1>2. ASSUME NEW c \in Cpu, KernelStep(c)
      PROVE  owner' \in [Lock -> Task \cup {Nil}] /\ calm' \in BOOLEAN
  BY <1>2 DEF KernelStep, Inspect, FindQuit, FreeStack, FreeTask, MarkReady, Requeue, Wake,
     Pick, Resume
<1>3. ASSUME NEW c \in Cpu, Trap(c)
      PROVE  owner' \in [Lock -> Task \cup {Nil}] /\ calm' \in BOOLEAN
  BY <1>3 DEF Trap
<1> QED
  BY <1>1, <1>2, <1>3 DEF Next, vars

\* One step per action.  <1>1 to <1>4 say what all the steps of a client have in
\* common, <1>5 and <1>6 what those of the scheduler have.
THEOREM Inductive == IInv /\ [Next]_vars => IInv'
<1> SUFFICES ASSUME IInv, [Next]_vars PROVE IInv'
  OBVIOUS
<1>L. owner' \in [Lock -> Task \cup {Nil}] /\ calm' \in BOOLEAN
  BY LocksTyped DEF IInv
<1> USE FlowAssumption, NumberAssumption, <1>L
<1>0. /\ \A f \in Flow : kid[f] \in Seq(Task) /\ N(f) \in Nat
      /\ \A f \in Flow : \A i \in 1 .. N(f) : kid[f][i] \in Task
      /\ \A f \in Flow : at[f] \in 1 .. Kids
      /\ \A f \in Flow : \A i \in Mine(f) : i \in 1 .. N(f) /\ kid[f][i] \in Task
  <2>1. \A f \in Flow : kid[f] \in Seq(Task) /\ at[f] \in 1 .. Kids
    BY DEF IInv, TypeOK
  <2>2. /\ \A f \in Flow : N(f) \in Nat
        /\ \A f \in Flow : \A i \in 1 .. N(f) : kid[f][i] \in Task
    BY <2>1, LenProperties, ElementOfSeq DEF N
  <2>3. \A f \in Flow : \A i \in Mine(f) : i \in 1 .. N(f)
    BY <2>1, <2>2 DEF Mine
  <2> QED
    BY <2>1, <2>2, <2>3
\* The flow that a CPU executes.
<1>1. ASSUME NEW c \in Cpu, NEW f, NEW l, At(c, f, l)
      PROVE  /\ f \in Flow /\ pc[f] = l /\ halted = "no"
             /\ f \in Cpu => f = c /\ inTrap[c]
             /\ f \in Task => /\ f = currentTask[c] /\ entry[f] # NoEntry
                              /\ l # "loop" => entry[f] = "task1"
  <2>1. f \in Flow /\ pc[f] = l /\ halted = "no" /\ f = IF inTrap[c] THEN c ELSE currentTask[c]
    BY <1>1 DEF At, On
  <2>2. currentTask[c] \in Task \cup {Nil, Spin}
    BY DEF IInv, TypeOK
  <2>3. f \in Cpu => f = c /\ inTrap[c]
    BY <2>1, <2>2
  <2>4. f \in Task => f = currentTask[c]
    BY <2>1, <2>2
  <2>5. f \in Task => entry[f] # NoEntry
    BY <2>4 DEF IInv, PlaceInv, Enqueued
  <2>6. f \in Task /\ l # "loop" => entry[f] = "task1"
    BY <2>1 DEF IInv, FlowInv
  <2> QED
    BY <2>1, <2>3, <2>4, <2>5, <2>6
\* The task whose turn it is.
<1>2. ASSUME NEW f \in Flow, pc[f] \in {"add", "stack", "enqueue", "delete", "quit"}
      PROVE  /\ at[f] \in 1 .. N(f) /\ at[f] \in Mine(f) /\ It(f) \in Task
             /\ f \in Cpu => N(f) = 1 /\ at[f] = 1 /\ pc[f] \notin {"delete", "quit"}
             /\ f \in Task => N(f) = Kids
  <2>1. at[f] \in 1 .. N(f)
    BY <1>0, <1>2 DEF IInv, FlowInv, Flow, Schedule
  <2>2. at[f] \in Mine(f)
    BY <1>0, <1>2, <2>1 DEF Mine
  <2> QED
    BY <1>0, <1>2, <2>1, <2>2 DEF IInv, FlowInv, Flow, Schedule, It
\* What a step of flow f leaves alone.
<1>3. ASSUME NEW f \in Flow, kid' = kid, NEW g \in Flow, pc'[g] = pc[g], at'[g] = at[g]
      PROVE  /\ N(g)' = N(g) /\ Mine(g)' = Mine(g) /\ It(g)' = It(g)
             /\ \A i : Fresh(g, i)' <=> Fresh(g, i)
  BY <1>3 DEF N, Mine, It, Fresh
<1>4. ASSUME NEW c \in Cpu, NEW f, NEW l \in Client, At(c, f, l),
             currentTask' = currentTask, inTrap' = inTrap, \A d \in Cpu \ {f} : pc'[d] = pc[d],
             f \in Cpu => pc'[f] \in {"alloc", "add", "stack", "enqueue", "inspect"},
             \A d \in Cpu : currentTask[d] \in Task => state'[currentTask[d]] = state[currentTask[d]]
      PROVE  /\ CpuInv' /\ StateInv'
             /\ \A d \in Cpu : Freeing(d)' <=> Freeing(d)
             /\ \A d \in Cpu : pc'[d] = "freeTask" => pc[d] = "freeTask"
  <2>1. f \in Cpu => f = c /\ inTrap[f] /\ pc[f] \in {"alloc", "add", "stack", "enqueue"}
    BY <1>1, <1>4 DEF IInv, FlowInv, Client, Schedule
  <2>2. f \in Cpu => currentTask[f] = Nil
    BY <2>1 DEF IInv, CpuInv
  <2>3. CpuInv'
    BY <1>4, <2>1, <2>2 DEF IInv, CpuInv
  <2>4. StateInv'
    BY <1>1, <1>4, <2>1, <2>2 DEF IInv, StateInv
  <2> QED
    BY <1>4, <2>1, <2>3, <2>4 DEF Freeing
<1>5. ASSUME NEW c \in Cpu, NEW l \in Schedule, pc[c] \in Schedule, pc' = [pc EXCEPT ![c] = l],
             kid' = kid, at' = at
      PROVE  /\ pc' \in [Flow -> Client \cup Schedule] /\ pc'[c] = l
             /\ \A f \in Flow \ {c} : pc'[f] = pc[f]
             /\ \A f \in Flow : N(f)' = N(f) /\ Mine(f)' = Mine(f) /\ It(f)' = It(f)
             /\ \A f \in Flow : \A i \in Mine(f) : f # c /\ (Fresh(f, i)' <=> Fresh(f, i))
             /\ \A f \in Flow : pc'[f] = "enqueue" <=> pc[f] = "enqueue"
  <2>1. pc' \in [Flow -> Client \cup Schedule] /\ pc'[c] = l /\ \A f \in Flow \ {c} : pc'[f] = pc[f]
    BY <1>5 DEF IInv, TypeOK, Flow
  <2>2. Mine(c) = {} /\ Mine(c)' = {} /\ pc[c] # "enqueue" /\ l # "enqueue"
    BY <1>5, <2>1 DEF Mine, Schedule
  <2>3. \A f \in Flow \ {c} : Mine(f)' = Mine(f) /\ \A i : Fresh(f, i)' <=> Fresh(f, i)
    BY <1>3, <1>5, <2>1
  <2> QED
    BY <1>5, <2>1, <2>2, <2>3 DEF N, It
<1>6. ASSUME NEW c \in Cpu, NEW l \in Schedule, pc[c] \in Schedule, pc' = [pc EXCEPT ![c] = l],
             UNCHANGED <<kid, at, mem, entry, alive>>, quit' \subseteq quit
      PROVE  /\ FlowInv' /\ KidInv' /\ MemInv'
             /\ \A t \in Task : Enqueued(t)' <=> Enqueued(t)
  <2>1. /\ pc'[c] = l /\ \A f \in Flow \ {c} : pc'[f] = pc[f]
        /\ \A f \in Flow : N(f)' = N(f) /\ Mine(f)' = Mine(f) /\ It(f)' = It(f)
        /\ \A f \in Flow : \A i \in Mine(f) : f # c /\ (Fresh(f, i)' <=> Fresh(f, i))
        /\ \A f \in Flow : pc'[f] = "enqueue" <=> pc[f] = "enqueue"
    BY <1>5, <1>6
  <2>2. FlowInv'
    BY <1>6, <2>1 DEF IInv, FlowInv, Flow, Schedule
  <2>3. KidInv'
    BY <1>6, <2>1 DEF IInv, KidInv, EntryOf
  <2>4. MemInv'
    BY <1>6 DEF IInv, MemInv
  <2>5. \A t \in Task : Enqueued(t)' <=> Enqueued(t)
    BY <1>6, <2>1 DEF Enqueued
  <2> QED
    BY <2>2, <2>3, <2>4, <2>5
\* A step that does nothing or stops the machine.
<1>a. ASSUME UNCHANGED <<taskVars, queueVars, recordVars, cpuVars, flowVars, count>>,
             halted' = halted \/ halted' \in Stops \ {"no", "kmt.c:167", "kmt.c:482"}
      PROVE  IInv'
  <2> USE <1>a DEF taskVars, queueVars, recordVars, cpuVars, flowVars
  <2>1. TypeOK' /\ HaltInv'
    BY DEF IInv, TypeOK, HaltInv
  <2>2. /\ \A f \in Flow : N(f)' = N(f) /\ Mine(f)' = Mine(f)
        /\ \A f \in Flow : \A i : Fresh(f, i)' <=> Fresh(f, i)
        /\ \A u \in Task : (Gone(u)' <=> Gone(u)) /\ (Enqueued(u)' <=> Enqueued(u))
    BY DEF N, Mine, Fresh, Gone, Freeing, Enqueued, It
  <2>3. FlowInv' /\ MemInv'
    BY <2>2 DEF IInv, FlowInv, MemInv, Flow
  <2>4. KidInv'
    BY <2>2 DEF IInv, KidInv, EntryOf
  <2>5. GoneInv'
    BY <2>2 DEF IInv, GoneInv, Freeing
  <2>6. PlaceInv'
    BY <2>2 DEF IInv, PlaceInv
  <2>7. CpuInv' /\ StateInv'
    BY DEF IInv, CpuInv, StateInv, Stops
  <2> QED
    BY <2>1, <2>3, <2>4, <2>5, <2>6, <2>7 DEF IInv
<1>7. ASSUME NEW c \in Cpu, NEW f, AllocTask(c, f) PROVE IInv'
  <2>1. /\ f \in Flow /\ pc[f] = "alloc" /\ at[f] = 1 /\ At(c, f, "alloc")
        /\ f \in Cpu => N(f) = 0
        /\ f \in Task => entry[f] = "task1" /\ N(f) < Kids
    BY <1>1, <1>7 DEF AllocTask, IInv, FlowInv, Flow
  <2>2. CASE UNCHANGED <<mem, kid, pc>> /\ halted' = "kmt.c:145"
    <3>1. UNCHANGED <<taskVars, queueVars, recordVars, cpuVars, flowVars, count>>
      BY <1>7, <2>2 DEF AllocTask, taskVars, queueVars, recordVars, cpuVars, flowVars
    <3> QED
      BY <2>2, <3>1, <1>a DEF Stops
  <2>3. ASSUME NEW t \in Task \ mem,
               mem' = mem \cup {t}, kid' = [kid EXCEPT ![f] = Append(@, t)],
               Goto(f, IF f \in Cpu \/ N(f) + 1 = Kids THEN "add" ELSE "alloc"),
               UNCHANGED halted
        PROVE  IInv'
    <3>1. /\ state' = state /\ entry' = entry /\ hasStack' = hasStack
          /\ ready' = ready /\ blocked' = blocked /\ alive' = alive /\ quit' = quit
          /\ currentTask' = currentTask /\ inTrap' = inTrap /\ at' = at /\ count' = count
      BY <1>7 DEF AllocTask, queueVars, recordVars, cpuVars
    <3>a. mem' = mem \cup {t} /\ halted' = halted
      BY <2>3
    <3>2. /\ kid' \in [Flow -> Seq(Task)]
          /\ N(f)' = N(f) + 1
          /\ \A i \in 1 .. N(f) : kid'[f][i] = kid[f][i]
          /\ kid'[f][N(f) + 1] = t
          /\ \A g \in Flow \ {f} : kid'[g] = kid[g] /\ N(g)' = N(g)
      <4>1. kid'[f] = Append(kid[f], t) /\ \A g \in Flow \ {f} : kid'[g] = kid[g]
        BY <2>1, <2>3 DEF IInv, TypeOK
      <4>2. /\ Append(kid[f], t) \in Seq(Task)
            /\ Len(Append(kid[f], t)) = N(f) + 1
            /\ \A i \in 1 .. N(f) : Append(kid[f], t)[i] = kid[f][i]
            /\ Append(kid[f], t)[N(f) + 1] = t
        BY <1>0, <2>1, AppendProperties DEF N
      <4> QED
        BY <2>1, <2>3, <4>1, <4>2 DEF IInv, TypeOK, N
    <3>3. /\ pc'[f] = IF f \in Cpu \/ N(f) + 1 = Kids THEN "add" ELSE "alloc"
          /\ \A g \in Flow \ {f} : pc'[g] = pc[g]
          /\ pc' \in [Flow -> Client \cup Schedule]
      BY <2>1, <2>3 DEF Goto, IInv, TypeOK, Client
    <3>4. /\ Mine(f) = 1 .. N(f) /\ Mine(f)' = 1 .. N(f) + 1
          /\ \A g \in Flow \ {f} : Mine(g)' = Mine(g) /\ \A i : Fresh(g, i)' <=> Fresh(g, i)
      BY <2>1, <3>1, <3>2, <3>3 DEF Mine, Fresh
    <3>5. \A i : i \in Mine(f)' <=> i \in Mine(f) \/ i = N(f) + 1
      BY <1>0, <2>1, <3>4
    <3>6. t \notin quit /\ t \notin alive /\ entry[t] = NoEntry
      BY DEF IInv, GoneInv, Gone, MemInv
    <3>7. \A g \in Flow : \A i \in Mine(g) : kid[g][i] # t /\ kid'[g][i] = kid[g][i]
      BY <3>2, <3>4 DEF IInv, KidInv
    <3>8. TypeOK'
      BY <3>a, <3>1, <3>2, <3>3 DEF IInv, TypeOK
    <3>9. FlowInv'
      <4>1. /\ f \in Cpu => N(f)' = 1 /\ pc'[f] = "add"
            /\ f \in Task => \/ pc'[f] = "add" /\ N(f)' = Kids
                             \/ pc'[f] = "alloc" /\ N(f)' < Kids
        BY <1>0, <2>1, <3>2, <3>3
      <4> QED
        <5>1. \A g \in Flow \ {f} : N(g)' = N(g) /\ pc'[g] = pc[g]
          BY <3>2, <3>3
        <5>2. at' = at /\ entry' = entry /\ at[f] = 1 /\ (f \in Task => entry[f] = "task1")
          BY <2>1, <3>1
        <5> QED
          BY <2>1, <4>1, <5>1, <5>2 DEF IInv, FlowInv, Client, Flow
    <3>10. KidInv'
      <4>1. ASSUME NEW i \in Mine(f) PROVE Fresh(f, i)
        BY <2>1 DEF Fresh
      <4>2. ASSUME NEW g \in Flow, NEW i \in Mine(g), g # f
            PROVE  \A j \in Mine(f)' : kid'[f][j] # kid[g][i]
        BY <2>1, <3>2, <3>5, <3>7, <4>2 DEF IInv, KidInv
      <4>3. ASSUME NEW i \in Mine(f), NEW j \in Mine(f)', kid'[f][j] = kid'[f][i]
            PROVE  i = j
        BY <2>1, <3>2, <3>5, <3>7, <4>3 DEF IInv, KidInv
      <4>4. ASSUME NEW g \in Flow, NEW i \in Mine(g)', NEW h \in Flow, NEW j \in Mine(h)',
                   kid'[h][j] = kid'[g][i]
            PROVE  h = g /\ j = i
        <5>1. CASE g # f /\ h # f
          BY <3>4, <3>7, <4>4, <5>1 DEF IInv, KidInv
        <5>2. CASE g = f /\ h # f
          BY <3>4, <3>7, <4>2, <4>4, <5>2
        <5>3. CASE g # f /\ h = f
          BY <3>4, <3>7, <4>2, <4>4, <5>3
        <5>4. CASE g = f /\ h = f
          BY <3>2, <3>5, <3>7, <4>3, <4>4, <5>4
        <5> QED
          BY <5>1, <5>2, <5>3, <5>4
      <4>5. ASSUME NEW g \in Flow, NEW i \in Mine(g)', g # f
            PROVE  /\ kid'[g][i] \in mem' /\ kid'[g][i] \notin quit'
                   /\ entry'[kid'[g][i]] \in {NoEntry, EntryOf(g)}
                   /\ Fresh(g, i)' => entry'[kid'[g][i]] = NoEntry
                   /\ entry'[kid'[g][i]] = NoEntry /\ kid'[g][i] \in alive' => pc'[g] = "stack" /\ i = at'[g]
                   /\ pc'[g] = "enqueue" /\ i = at'[g] => entry'[kid'[g][i]] # NoEntry
                   /\ pc'[g] = "quit" /\ i = at'[g] => entry'[kid'[g][i]] # NoEntry /\ kid'[g][i] \notin alive'
        BY <3>a, <3>1, <3>3, <3>4, <3>7, <4>5 DEF IInv, KidInv
      <4>6. ASSUME NEW i \in Mine(f)'
            PROVE  /\ kid'[f][i] \in mem' /\ kid'[f][i] \notin quit'
                   /\ entry'[kid'[f][i]] = NoEntry
                   /\ kid'[f][i] \notin alive'
        <5>1. CASE i \in Mine(f)
          BY <2>1, <3>a, <3>1, <3>7, <4>1, <5>1 DEF IInv, KidInv
        <5>2. CASE i = N(f) + 1
          <6>1. kid'[f][i] = t
            BY <3>2, <5>2
          <6> QED
            BY <3>a, <3>1, <3>6, <6>1
        <5> QED
          BY <3>5, <4>6, <5>1, <5>2
      <4> QED
        BY <2>1, <3>3, <4>4, <4>5, <4>6 DEF KidInv, EntryOf
    <3>11. /\ CpuInv' /\ StateInv'
           /\ \A d \in Cpu : Freeing(d)' <=> Freeing(d)
           /\ \A d \in Cpu : pc'[d] = "freeTask" => pc[d] = "freeTask"
      BY <1>4, <2>1, <3>1, <3>3 DEF Client, Flow
    <3>12. GoneInv'
      <4>1. \A u \in Task : Gone(u)' <=> Gone(u)
        BY <3>1, <3>11 DEF Gone
      <4>2. \A u \in Task : Gone(u) => \A g \in Flow : \A i \in Mine(g)' : kid'[g][i] # u
        <5>1. ASSUME NEW u \in Task, Gone(u), NEW g \in Flow, NEW i \in Mine(g)'
              PROVE  kid'[g][i] # u
          <6>1. u # t /\ \A j \in Mine(g) : kid[g][j] # u
            BY <5>1 DEF IInv, GoneInv
          <6>2. CASE i \in Mine(g)
            BY <3>7, <6>1, <6>2
          <6>3. CASE g = f /\ i = N(f) + 1
            BY <3>2, <6>1, <6>3
          <6> QED
            BY <3>4, <3>5, <5>1, <6>2, <6>3
        <5> QED
          BY <5>1
      <4> QED
        BY <3>a, <3>1, <3>11, <4>1, <4>2 DEF IInv, GoneInv
    <3>13. MemInv'
      BY <3>a, <3>1 DEF IInv, MemInv
    <3>14. PlaceInv'
      <4>1. \A u \in Task : Enqueued(u)' <=> Enqueued(u)
        BY <2>1, <3>1, <3>2, <3>3 DEF Enqueued, It
      <4> QED
        BY <3>1, <4>1 DEF IInv, PlaceInv
    <3>15. HaltInv'
      BY <3>a, <3>1 DEF IInv, HaltInv
    <3> QED
      BY <3>8, <3>9, <3>10, <3>11, <3>12, <3>13, <3>14, <3>15 DEF IInv
  <2> QED
    BY <1>7, <2>2, <2>3 DEF AllocTask, N
\* KidInv after a step of flow f that concerns the task whose turn it is.
<1>8. ASSUME NEW f \in Flow, pc[f] \in {"add", "stack", "enqueue", "delete", "quit"},
             kid' = kid, mem' = mem,
             \A g \in Flow \ {f} : \A i \in Mine(g)' :
                /\ i \in Mine(g) /\ (Fresh(g, i)' <=> Fresh(g, i))
                /\ pc'[g] = pc[g] /\ at'[g] = at[g],
             \A u \in Task \ {It(f)} : /\ entry'[u] = entry[u]
                                       /\ u \in alive' <=> u \in alive
                                       /\ u \in quit' <=> u \in quit,
             \A i \in Mine(f)' :
                LET t == kid[f][i]
                IN /\ i \in Mine(f) /\ t \notin quit' /\ entry'[t] \in {NoEntry, EntryOf(f)}
                   /\ Fresh(f, i)' => entry'[t] = NoEntry
                   /\ entry'[t] = NoEntry /\ t \in alive' => pc'[f] = "stack" /\ i = at'[f]
                   /\ pc'[f] = "enqueue" /\ i = at'[f] => entry'[t] # NoEntry
                   /\ pc'[f] = "quit" /\ i = at'[f] => entry'[t] # NoEntry /\ t \notin alive'
      PROVE  KidInv'
  <2>1. \A g \in Flow \ {f} : \A i \in Mine(g) : kid[g][i] # It(f) /\ kid[g][i] \in Task
    BY <1>0, <1>2, <1>8 DEF IInv, KidInv, It
  <2>2. \A g \in Flow : \A i \in Mine(g)' : i \in Mine(g)
    BY <1>8
  <2>3. ASSUME NEW g \in Flow, NEW i \in Mine(g)'
        PROVE  /\ kid[g][i] \in mem
               /\ \A h \in Flow : \A j \in Mine(h)' : kid[h][j] = kid[g][i] => h = g /\ j = i
    BY <2>2, <2>3 DEF IInv, KidInv
  <2>4. ASSUME NEW g \in Flow \ {f}, NEW i \in Mine(g)'
        PROVE  LET t == kid[g][i]
               IN /\ t \notin quit' /\ entry'[t] \in {NoEntry, EntryOf(g)}
                  /\ Fresh(g, i)' => entry'[t] = NoEntry
                  /\ entry'[t] = NoEntry /\ t \in alive' => pc'[g] = "stack" /\ i = at'[g]
                  /\ pc'[g] = "enqueue" /\ i = at'[g] => entry'[t] # NoEntry
                  /\ pc'[g] = "quit" /\ i = at'[g] => entry'[t] # NoEntry /\ t \notin alive'
    BY <1>8, <2>1, <2>2, <2>4 DEF IInv, KidInv
  <2> QED
    BY <1>8, <2>3, <2>4 DEF KidInv, EntryOf
<1>9. ASSUME NEW c \in Cpu, NEW f, AddAlive(c, f) PROVE IInv'
  <2>1. /\ f \in Flow /\ pc[f] = "add" /\ At(c, f, "add") /\ (f \in Task => entry[f] = "task1")
        /\ at[f] \in 1 .. N(f) /\ at[f] \in Mine(f) /\ It(f) \in Task /\ It(f) = kid[f][at[f]]
    BY <1>1, <1>2, <1>9 DEF AddAlive, It
  <2>2. It(f) \in mem /\ It(f) \notin alive /\ It(f) \notin quit /\ entry[It(f)] = NoEntry
    BY <2>1 DEF IInv, KidInv, Fresh
  <2>3. /\ mem' = mem /\ state' = state /\ entry' = entry /\ hasStack' = hasStack
        /\ ready' = ready /\ blocked' = blocked /\ alive' = alive \cup {It(f)} /\ quit' = quit
        /\ currentTask' = currentTask /\ inTrap' = inTrap
        /\ kid' = kid /\ at' = at /\ count' = count /\ halted' = halted
    BY <1>9, <2>2 DEF AddAlive, taskVars, queueVars, cpuVars
  <2>4. /\ pc' \in [Flow -> Client \cup Schedule]
        /\ pc'[f] = "stack" /\ \A g \in Flow \ {f} : pc'[g] = pc[g]
    BY <1>9, <2>1 DEF AddAlive, Goto, IInv, TypeOK, Client
  <2>5. /\ \A g \in Flow : N(g)' = N(g) /\ Mine(g)' = Mine(g) /\ It(g)' = It(g)
        /\ \A g \in Flow \ {f} : \A i : Fresh(g, i)' <=> Fresh(g, i)
        /\ \A i : Fresh(f, i)' <=> Fresh(f, i)
    BY <2>1, <2>3, <2>4 DEF N, Mine, It, Fresh
  <2>6. TypeOK'
    BY <2>1, <2>3, <2>4 DEF IInv, TypeOK
  <2>7. FlowInv'
    BY <2>1, <2>3, <2>4, <2>5 DEF IInv, FlowInv, Client, Flow
  <2>8. KidInv'
    <3>1. ASSUME NEW i \in Mine(f) PROVE kid[f][i] = It(f) => i = at[f]
      BY <2>1, <3>1 DEF IInv, KidInv
    <3>2. \A i \in Mine(f)' :
                LET t == kid[f][i]
                IN /\ i \in Mine(f) /\ t \notin quit' /\ entry'[t] \in {NoEntry, EntryOf(f)}
                   /\ Fresh(f, i)' => entry'[t] = NoEntry
                   /\ entry'[t] = NoEntry /\ t \in alive' => pc'[f] = "stack" /\ i = at'[f]
                   /\ pc'[f] = "enqueue" /\ i = at'[f] => entry'[t] # NoEntry
                   /\ pc'[f] = "quit" /\ i = at'[f] => entry'[t] # NoEntry /\ t \notin alive'
      BY <2>1, <2>3, <2>4, <2>5, <3>1 DEF IInv, KidInv
    <3> QED
      BY <1>8, <2>1, <2>3, <2>4, <2>5, <3>2
  <2>9. /\ CpuInv' /\ StateInv'
        /\ \A d \in Cpu : Freeing(d)' <=> Freeing(d)
        /\ \A d \in Cpu : pc'[d] = "freeTask" => pc[d] = "freeTask"
    BY <1>4, <2>1, <2>3, <2>4 DEF Client, Flow
  <2>10. GoneInv'
    <3>1. \A u \in Task : Gone(u)' <=> Gone(u)
      BY <2>3, <2>9 DEF Gone
    <3>2. \A u \in Task : Gone(u) => u # It(f)
      BY <2>1 DEF IInv, GoneInv
    <3> QED
      BY <2>3, <2>5, <2>9, <3>1, <3>2 DEF IInv, GoneInv
  <2>11. MemInv'
    BY <2>2, <2>3 DEF IInv, MemInv
  <2>12. PlaceInv'
    <3>1. \A u \in Task : Enqueued(u)' <=> Enqueued(u)
      BY <2>1, <2>3, <2>4, <2>5 DEF Enqueued
    <3> QED
      BY <2>3, <3>1 DEF IInv, PlaceInv
  <2>13. HaltInv'
    BY <2>3 DEF IInv, HaltInv
  <2> QED
    BY <2>6, <2>7, <2>8, <2>9, <2>10, <2>11, <2>12, <2>13 DEF IInv
<1>10. ASSUME NEW c \in Cpu, NEW f, FillIn(c, f) PROVE IInv'
  <2>1. /\ f \in Flow /\ pc[f] = "stack" /\ At(c, f, "stack") /\ (f \in Task => entry[f] = "task1")
        /\ at[f] \in 1 .. N(f) /\ at[f] \in Mine(f) /\ It(f) \in Task /\ It(f) = kid[f][at[f]]
    BY <1>1, <1>2, <1>10 DEF FillIn, It
  <2> PICK t \in Task : t = It(f)
    BY <2>1
  <2>2. /\ t \in mem /\ t \notin quit /\ entry[t] = NoEntry /\ t # f
        /\ pc[t] = "loop" /\ N(t) = 0 /\ at[t] = 1 /\ Mine(t) = {}
        /\ \A d \in Cpu : currentTask[d] # t
        /\ ~In(t, ready)
    <3>1. t \in mem /\ t \notin quit /\ entry[t] = NoEntry
      BY <2>1 DEF IInv, KidInv, Fresh
    <3>2. pc[t] = "loop" /\ N(t) = 0 /\ at[t] = 1 /\ t # f
      BY <2>1, <3>1 DEF IInv, FlowInv, NoEntry
    <3>3. \A d \in Cpu : currentTask[d] # t /\ ~In(t, ready)
      BY <3>1 DEF IInv, PlaceInv, Enqueued
    <3> QED
      BY <3>1, <3>2, <3>3 DEF Mine
  <2>3. /\ mem' = mem /\ state' = [state EXCEPT ![t] = "READY"]
        /\ entry' = [entry EXCEPT ![t] = EntryOf(f)]
        /\ hasStack' = [hasStack EXCEPT ![t] = TRUE]
        /\ ready' = ready /\ blocked' = blocked /\ alive' = alive /\ quit' = quit
        /\ currentTask' = currentTask /\ inTrap' = inTrap
        /\ kid' = kid /\ at' = at /\ count' = count /\ halted' = halted
    BY <1>10 DEF FillIn, EntryOf, queueVars, recordVars, cpuVars
  <2>4. /\ pc' \in [Flow -> Client \cup Schedule]
        /\ pc'[f] = "enqueue" /\ pc'[t] = IF f \in Cpu THEN "alloc" ELSE "loop"
        /\ \A g \in Flow \ {f, t} : pc'[g] = pc[g]
    <3>1. pc' = [pc EXCEPT ![f] = "enqueue", ![t] = IF f \in Cpu THEN "alloc" ELSE "loop"]
      BY <1>10 DEF FillIn
    <3>2. t \in Flow
      BY DEF Flow
    <3> QED
      BY <2>1, <2>2, <3>1, <3>2 DEF IInv, TypeOK, Client
  <2>5. /\ \A g \in Flow : N(g)' = N(g) /\ Mine(g)' = Mine(g) /\ It(g)' = It(g)
        /\ \A g \in Flow \ {f, t} : \A i : Fresh(g, i)' <=> Fresh(g, i)
        /\ \A i : Fresh(f, i)' <=> Fresh(f, i) /\ i # at[f]
    <3>1. \A g \in Flow : N(g)' = N(g) /\ It(g)' = It(g)
      BY <2>3 DEF N, It
    <3>2. Mine(t)' = {}
      BY <2>2, <2>4, <3>1 DEF Mine, Flow
    <3>3. \A g \in Flow \ {t} : Mine(g)' = Mine(g)
      BY <2>1, <2>3, <2>4, <3>1 DEF Mine
    <3>4. \A i : i > at[f] => i # at[f]
      BY <1>0, <2>1
    <3> QED
      BY <2>1, <2>2, <2>3, <2>4, <3>1, <3>2, <3>3, <3>4 DEF Fresh
  <2>6. /\ \A u \in Task \ {t} : entry'[u] = entry[u] /\ state'[u] = state[u] /\ hasStack'[u] = hasStack[u]
        /\ entry'[t] = EntryOf(f) /\ EntryOf(f) # NoEntry
    BY <2>3 DEF IInv, TypeOK, EntryOf, NoEntry
  <2>7. TypeOK'
    BY <2>3, <2>4 DEF IInv, TypeOK, EntryOf
  <2>8. FlowInv'
    <3>1. ASSUME NEW d \in Cpu
          PROVE  /\ at'[d] = 1
                 /\ pc'[d] \in {"alloc", "add", "stack", "enqueue"} \cup Schedule
                 /\ N(d)' = IF pc'[d] = "alloc" THEN 0 ELSE 1
      BY <2>1, <2>3, <2>4, <2>5 DEF IInv, FlowInv, Flow
    <3>2. ASSUME NEW u \in Task \ {t}
          PROVE  /\ pc'[u] \in Client
                 /\ entry'[u] # "task1" => pc'[u] = "loop" /\ N(u)' = 0 /\ at'[u] = 1
                 /\ pc'[u] = "alloc" => N(u)' < Kids /\ at'[u] = 1
                 /\ pc'[u] \notin {"alloc", "loop"} => N(u)' = Kids
      BY <2>1, <2>3, <2>4, <2>5, <2>6 DEF IInv, FlowInv, Flow, Client
    <3>3. /\ pc'[t] \in Client
          /\ entry'[t] # "task1" => pc'[t] = "loop" /\ N(t)' = 0 /\ at'[t] = 1
          /\ pc'[t] = "alloc" => N(t)' < Kids /\ at'[t] = 1
          /\ pc'[t] \notin {"alloc", "loop"} => N(t)' = Kids
      <4>1. 0 < Kids /\ t \in Flow
        BY DEF Flow
      <4> QED
        BY <2>2, <2>3, <2>4, <2>5, <2>6, <4>1 DEF EntryOf, Client
    <3> QED
      BY <3>1, <3>2, <3>3 DEF FlowInv
  <2>9. KidInv'
    <3>1. ASSUME NEW i \in Mine(f) PROVE kid[f][i] = t => i = at[f]
      BY <2>1, <3>1 DEF IInv, KidInv
    <3>2. \A i \in Mine(f)' :
                LET u == kid[f][i]
                IN /\ i \in Mine(f) /\ u \notin quit' /\ entry'[u] \in {NoEntry, EntryOf(f)}
                   /\ Fresh(f, i)' => entry'[u] = NoEntry
                   /\ entry'[u] = NoEntry /\ u \in alive' => pc'[f] = "stack" /\ i = at'[f]
                   /\ pc'[f] = "enqueue" /\ i = at'[f] => entry'[u] # NoEntry
                   /\ pc'[f] = "quit" /\ i = at'[f] => entry'[u] # NoEntry /\ u \notin alive'
      BY <1>0, <2>1, <2>2, <2>3, <2>4, <2>5, <2>6, <3>1 DEF IInv, KidInv
    <3> QED
      BY <1>8, <2>1, <2>2, <2>3, <2>4, <2>5, <2>6, <3>2
  <2>10. /\ CpuInv' /\ StateInv'
         /\ \A d \in Cpu : Freeing(d)' <=> Freeing(d)
         /\ \A d \in Cpu : pc'[d] = "freeTask" => pc[d] = "freeTask"
    BY <1>4, <2>1, <2>2, <2>3, <2>4, <2>6 DEF Client, Flow
  <2>11. GoneInv'
    <3>1. \A u \in Task : Gone(u)' <=> Gone(u)
      BY <2>3, <2>10 DEF Gone
    <3>2. \A u \in Task : Gone(u) => u # t
      BY <2>1 DEF IInv, GoneInv
    <3>3. \A d \in Cpu : pc'[d] = "freeTask" => ~hasStack'[currentTask'[d]]
      BY <2>2, <2>3, <2>6, <2>10 DEF IInv, GoneInv, CpuInv
    <3> QED
      BY <2>3, <2>5, <2>6, <2>10, <3>1, <3>2, <3>3 DEF IInv, GoneInv
  <2>12. MemInv'
    BY <2>2, <2>3, <2>6 DEF IInv, MemInv
  <2>13. PlaceInv'
    <3>1. ~Enqueued(t) /\ ~Enqueued(t)'
      BY <2>1, <2>2, <2>4, <2>5 DEF Enqueued
    <3>2. \A u \in Task \ {t} : Enqueued(u)' <=> Enqueued(u)
      BY <2>1, <2>2, <2>4, <2>5, <2>6 DEF Enqueued
    <3> QED
      BY <2>3, <3>1, <3>2 DEF IInv, PlaceInv
  <2>14. HaltInv'
    BY <2>3 DEF IInv, HaltInv
  <2> QED
    BY <2>7, <2>8, <2>9, <2>10, <2>11, <2>12, <2>13, <2>14 DEF IInv
\* The next turn of a flow, when it goes on as kmt_create's clients do.
<1>11. ASSUME NEW f \in Flow, NEW again \in {"add", "delete"}, NEW done,
              pc[f] \in {"stack", "enqueue", "delete", "quit"}, kid' = kid,
              again = "add" <=> pc[f] \in {"stack", "enqueue"},
              done = IF again = "add" THEN Created(f) ELSE "query",
              NextKid(f, again, done)
       PROVE  /\ pc' \in [Flow -> Client \cup Schedule] /\ at' \in [Flow -> 1 .. Kids]
              /\ \A g \in Flow \ {f} : pc'[g] = pc[g] /\ at'[g] = at[g]
              /\ \A g \in Flow : N(g)' = N(g)
              /\ \A g \in Flow \ {f} : Mine(g)' = Mine(g) /\ It(g)' = It(g)
              /\ \A g \in Flow \ {f} : \A i : Fresh(g, i)' <=> Fresh(g, i)
              /\ \/ at[f] < N(f) /\ pc'[f] = again /\ at'[f] = at[f] + 1
                 \/ pc'[f] = done /\ at'[f] = 1
              /\ f \in Cpu => pc'[f] = "inspect" /\ at'[f] = 1
              /\ f \in Task => pc'[f] \in {"add", "delete", "query"}
              /\ \A i \in Mine(f)' : i \in Mine(f) /\ (again = "delete" => i # at[f])
              /\ \A i \in Mine(f)' : Fresh(f, i)' => Fresh(f, i) /\ i # at[f]
  <2>0. f \in Flow /\ pc[f] \in {"add", "stack", "enqueue", "delete", "quit"}
    BY <1>11
  <2>1. /\ at[f] \in 1 .. N(f) /\ at[f] \in Mine(f) /\ N(f) \in Nat /\ N(f) <= Kids
        /\ f \in Cpu => N(f) = 1 /\ at[f] = 1 /\ pc[f] \notin {"delete", "quit"}
    BY <1>0, <1>2, <2>0 DEF Flow
  <2>2. /\ pc' = [pc EXCEPT ![f] = IF at[f] < N(f) THEN again ELSE done]
        /\ at' = [at EXCEPT ![f] = IF at[f] < N(f) THEN at[f] + 1 ELSE 1]
    BY <1>11 DEF NextKid, Goto, N
  <2>3. again \in Client \cup Schedule /\ done \in Client \cup Schedule
    BY <1>11, Dispatched DEF Client, Schedule, Created
  <2>4. at[f] < N(f) => at[f] + 1 \in 1 .. Kids
    BY <2>1
  <2>5. /\ pc' \in [Flow -> Client \cup Schedule] /\ at' \in [Flow -> 1 .. Kids]
        /\ \A g \in Flow \ {f} : pc'[g] = pc[g] /\ at'[g] = at[g]
        /\ pc'[f] = IF at[f] < N(f) THEN again ELSE done
        /\ at'[f] = IF at[f] < N(f) THEN at[f] + 1 ELSE 1
    BY <2>1, <2>2, <2>3, <2>4 DEF IInv, TypeOK
  <2>6. \A g \in Flow : N(g)' = N(g)
    BY <1>11 DEF N
  <2>7. /\ \A g \in Flow \ {f} : Mine(g)' = Mine(g) /\ It(g)' = It(g)
        /\ \A g \in Flow \ {f} : \A i : Fresh(g, i)' <=> Fresh(g, i)
    BY <1>3, <1>11, <2>5
  <2>8. /\ f \in Cpu => pc'[f] = "inspect" /\ at'[f] = 1
        /\ f \in Task => pc'[f] \in {"add", "delete", "query"}
    BY <1>11, <2>1, <2>5, Dispatched DEF Created, Flow
  <2>9. \A i \in Mine(f)' : i \in Mine(f) /\ (again = "delete" => i # at[f])
    <3>1. CASE at[f] < N(f)
      BY <1>0, <1>11, <2>1, <2>5, <2>6, <3>1 DEF Mine
    <3>2. CASE ~(at[f] < N(f))
      <4>1. pc'[f] \in {"inspect", "delete", "query"} /\ at'[f] = 1
        BY <1>11, <2>5, <3>2, Dispatched DEF Created
      <4>2. pc'[f] = "delete" => Mine(f) = 1 .. N(f) /\ again = "add"
        BY <1>11, <2>5, <3>2, Dispatched DEF Mine, Created
      <4>3. pc'[f] # "delete" => Mine(f)' = {}
        BY <4>1 DEF Mine
      <4>4. pc'[f] = "delete" => Mine(f)' = 1 .. N(f)
        BY <2>6, <4>1 DEF Mine
      <4> QED
        BY <1>11, <4>2, <4>3, <4>4
    <3> QED
      BY <3>1, <3>2
  <2>10. \A i \in Mine(f)' : Fresh(f, i)' => Fresh(f, i) /\ i # at[f]
    <3>1. ASSUME NEW i \in Mine(f)', Fresh(f, i)'
          PROVE  i \in Nat /\ again = "add" /\ i > at[f]
      <4>1. i \in Nat
        BY <1>0, <2>9, <3>1
      <4>2. at[f] < N(f) /\ pc'[f] = again /\ at'[f] = at[f] + 1 /\ again = "add"
        BY <1>11, <2>5, <3>1, Dispatched DEF Fresh, Created
      <4> QED
        BY <2>1, <3>1, <4>1, <4>2 DEF Fresh
    <3> QED
      BY <1>11, <2>1, <3>1 DEF Fresh
  <2> QED
    BY <2>5, <2>6, <2>7, <2>8, <2>9, <2>10
<1>12. ASSUME NEW c \in Cpu, NEW f, NoStack(c, f) PROVE IInv'
  <2>1. /\ f \in Flow /\ pc[f] = "stack" /\ At(c, f, "stack") /\ (f \in Task => entry[f] = "task1")
        /\ at[f] \in 1 .. N(f) /\ at[f] \in Mine(f) /\ It(f) \in Task /\ It(f) = kid[f][at[f]]
        /\ f \in Task => N(f) = Kids
    BY <1>1, <1>2, <1>12 DEF NoStack, It
  <2>2. /\ mem' = mem /\ state' = state /\ entry' = entry /\ hasStack' = hasStack
        /\ ready' = ready /\ blocked' = blocked /\ alive' = alive \ {It(f)} /\ quit' = quit
        /\ currentTask' = currentTask /\ inTrap' = inTrap /\ kid' = kid /\ count' = count
        /\ halted' \in {halted, "os.c:18"} /\ NextKid(f, "add", Created(f))
    BY <1>12 DEF NoStack, taskVars, queueVars, cpuVars
  <2>3. /\ pc' \in [Flow -> Client \cup Schedule] /\ at' \in [Flow -> 1 .. Kids]
        /\ \A g \in Flow \ {f} : pc'[g] = pc[g] /\ at'[g] = at[g]
        /\ \A g \in Flow : N(g)' = N(g)
        /\ \A g \in Flow \ {f} : Mine(g)' = Mine(g) /\ It(g)' = It(g)
        /\ \A g \in Flow \ {f} : \A i : Fresh(g, i)' <=> Fresh(g, i)
        /\ f \in Cpu => pc'[f] = "inspect" /\ at'[f] = 1
        /\ f \in Task => pc'[f] \in {"add", "delete", "query"}
        /\ \A i \in Mine(f)' : i \in Mine(f)
        /\ \A i \in Mine(f)' : Fresh(f, i)' => Fresh(f, i) /\ i # at[f]
    BY <1>11, <2>1, <2>2
  <2>4. TypeOK'
    BY <2>2, <2>3 DEF IInv, TypeOK, Stops
  <2>5. FlowInv'
    BY <2>1, <2>2, <2>3 DEF IInv, FlowInv, Client, Schedule, Flow
  <2>6. KidInv'
    <3>1. ASSUME NEW i \in Mine(f) PROVE kid[f][i] = It(f) => i = at[f]
      BY <2>1, <3>1 DEF IInv, KidInv
    <3>2. \A i \in Mine(f)' :
                LET u == kid[f][i]
                IN /\ i \in Mine(f) /\ u \notin quit' /\ entry'[u] \in {NoEntry, EntryOf(f)}
                   /\ Fresh(f, i)' => entry'[u] = NoEntry
                   /\ entry'[u] = NoEntry /\ u \in alive' => pc'[f] = "stack" /\ i = at'[f]
                   /\ pc'[f] = "enqueue" /\ i = at'[f] => entry'[u] # NoEntry
                   /\ pc'[f] = "quit" /\ i = at'[f] => entry'[u] # NoEntry /\ u \notin alive'
      BY <2>1, <2>2, <2>3, <3>1 DEF IInv, KidInv, Flow
    <3> QED
      BY <1>8, <2>1, <2>2, <2>3, <3>2
  <2>7. /\ CpuInv' /\ StateInv'
        /\ \A d \in Cpu : Freeing(d)' <=> Freeing(d)
        /\ \A d \in Cpu : pc'[d] = "freeTask" => pc[d] = "freeTask"
    BY <1>4, <2>1, <2>2, <2>3 DEF Client, Flow
  <2>8. GoneInv'
    <3>1. \A u \in Task : Gone(u)' <=> Gone(u)
      BY <2>2, <2>7 DEF Gone
    <3> QED
      BY <2>2, <2>3, <2>7, <3>1 DEF IInv, GoneInv
  <2>9. MemInv'
    BY <2>2 DEF IInv, MemInv
  <2>10. PlaceInv'
    <3>1. \A u \in Task : Enqueued(u)' <=> Enqueued(u)
      BY <2>1, <2>2, <2>3 DEF Enqueued, Flow
    <3> QED
      BY <2>2, <3>1 DEF IInv, PlaceInv
  <2>11. HaltInv'
    BY <2>2 DEF IInv, HaltInv
  <2> QED
    BY <2>4, <2>5, <2>6, <2>7, <2>8, <2>9, <2>10, <2>11 DEF IInv
<1>13. ASSUME NEW c \in Cpu, NEW f, Enqueue(c, f) PROVE IInv'
  <2>1. /\ f \in Flow /\ pc[f] = "enqueue" /\ At(c, f, "enqueue") /\ (f \in Task => entry[f] = "task1")
        /\ at[f] \in 1 .. N(f) /\ at[f] \in Mine(f) /\ It(f) \in Task /\ It(f) = kid[f][at[f]]
        /\ f \in Task => N(f) = Kids
    BY <1>1, <1>2, <1>13 DEF Enqueue, It
  <2>2. /\ mem' = mem /\ state' = state /\ entry' = entry /\ hasStack' = hasStack
        /\ ready' = Append(ready, It(f)) /\ blocked' = blocked /\ alive' = alive /\ quit' = quit
        /\ currentTask' = currentTask /\ inTrap' = inTrap /\ kid' = kid /\ count' = count
        /\ halted' = halted /\ NextKid(f, "add", Created(f))
    BY <1>13 DEF Enqueue, taskVars, recordVars, cpuVars
  <2>3. /\ pc' \in [Flow -> Client \cup Schedule] /\ at' \in [Flow -> 1 .. Kids]
        /\ \A g \in Flow \ {f} : pc'[g] = pc[g] /\ at'[g] = at[g]
        /\ \A g \in Flow : N(g)' = N(g)
        /\ \A g \in Flow \ {f} : Mine(g)' = Mine(g) /\ It(g)' = It(g)
        /\ \A g \in Flow \ {f} : \A i : Fresh(g, i)' <=> Fresh(g, i)
        /\ f \in Cpu => pc'[f] = "inspect" /\ at'[f] = 1
        /\ f \in Task => pc'[f] \in {"add", "delete", "query"}
        /\ \A i \in Mine(f)' : i \in Mine(f)
        /\ \A i \in Mine(f)' : Fresh(f, i)' => Fresh(f, i) /\ i # at[f]
    BY <1>11, <2>1, <2>2
  <2>4. /\ entry[It(f)] # NoEntry /\ ~Enqueued(It(f))
        /\ ~In(It(f), ready) /\ \A d \in Cpu : currentTask[d] # It(f)
    <3>1. entry[It(f)] # NoEntry /\ ~Enqueued(It(f))
      BY <2>1 DEF IInv, KidInv, Enqueued
    <3> QED
      BY <2>1, <3>1 DEF IInv, PlaceInv
  <2>5. /\ ready' \in Seq(Task) /\ Distinct(ready')
        /\ \A u : In(u, ready') <=> In(u, ready) \/ u = It(f)
    BY <2>1, <2>2, <2>4, AppendIn DEF IInv, TypeOK, PlaceInv
  <2>6. TypeOK'
    BY <2>2, <2>3, <2>5 DEF IInv, TypeOK
  <2>7. FlowInv'
    BY <2>1, <2>2, <2>3 DEF IInv, FlowInv, Client, Schedule, Flow
  <2>8. KidInv'
    <3>1. ASSUME NEW i \in Mine(f) PROVE kid[f][i] = It(f) => i = at[f]
      BY <2>1, <3>1 DEF IInv, KidInv
    <3>2. \A i \in Mine(f)' :
                LET u == kid[f][i]
                IN /\ i \in Mine(f) /\ u \notin quit' /\ entry'[u] \in {NoEntry, EntryOf(f)}
                   /\ Fresh(f, i)' => entry'[u] = NoEntry
                   /\ entry'[u] = NoEntry /\ u \in alive' => pc'[f] = "stack" /\ i = at'[f]
                   /\ pc'[f] = "enqueue" /\ i = at'[f] => entry'[u] # NoEntry
                   /\ pc'[f] = "quit" /\ i = at'[f] => entry'[u] # NoEntry /\ u \notin alive'
      BY <2>1, <2>2, <2>3, <3>1 DEF IInv, KidInv, Flow
    <3> QED
      BY <1>8, <2>1, <2>2, <2>3, <3>2
  <2>9. /\ CpuInv' /\ StateInv'
        /\ \A d \in Cpu : Freeing(d)' <=> Freeing(d)
        /\ \A d \in Cpu : pc'[d] = "freeTask" => pc[d] = "freeTask"
    BY <1>4, <2>1, <2>2, <2>3 DEF Client, Flow
  <2>10. GoneInv'
    <3>1. \A u \in Task : Gone(u)' <=> Gone(u)
      BY <2>2, <2>9 DEF Gone
    <3> QED
      BY <2>2, <2>3, <2>9, <3>1 DEF IInv, GoneInv
  <2>11. MemInv'
    BY <2>2 DEF IInv, MemInv
  <2>12. PlaceInv'
    <3>1. \A g \in Flow \ {f} : pc[g] = "enqueue" => It(g) # It(f)
      BY <1>2, <2>1 DEF IInv, KidInv, It
    <3>2. \A u \in Task : Enqueued(u)' <=> Enqueued(u) \/ u = It(f)
      <4>1. ASSUME NEW u \in Task, u = It(f) PROVE Enqueued(u)'
        BY <2>2, <2>3, <2>4, <3>1, <4>1 DEF Enqueued, Flow
      <4>2. ASSUME NEW u \in Task, u # It(f) PROVE Enqueued(u)' <=> Enqueued(u)
        BY <2>1, <2>2, <2>3, <4>2 DEF Enqueued, Flow
      <4> QED
        BY <4>1, <4>2
    <3> QED
      BY <2>1, <2>2, <2>4, <2>5, <3>2 DEF IInv, PlaceInv
  <2>13. HaltInv'
    BY <2>2 DEF IInv, HaltInv
  <2> QED
    BY <2>6, <2>7, <2>8, <2>9, <2>10, <2>11, <2>12, <2>13 DEF IInv
<1>14. ASSUME NEW c \in Cpu, NEW f, DeleteAlive(c, f) PROVE IInv'
  <2>1. /\ f \in Flow /\ pc[f] = "delete" /\ At(c, f, "delete") /\ f \in Task
        /\ entry[f] = "task1" /\ N(f) = Kids
        /\ at[f] \in 1 .. N(f) /\ at[f] \in Mine(f) /\ It(f) \in Task /\ It(f) = kid[f][at[f]]
    BY <1>1, <1>2, <1>14 DEF DeleteAlive, It, Flow
  <2>2. /\ mem' = mem /\ state' = state /\ entry' = entry /\ hasStack' = hasStack
        /\ ready' = ready /\ blocked' = blocked /\ alive' = alive \ {It(f)} /\ quit' = quit
        /\ currentTask' = currentTask /\ inTrap' = inTrap /\ kid' = kid /\ count' = count
        /\ halted' = halted
    BY <1>14 DEF DeleteAlive, taskVars, queueVars, cpuVars
  <2>3. /\ pc' \in [Flow -> Client \cup Schedule] /\ at' \in [Flow -> 1 .. Kids]
        /\ \A g \in Flow \ {f} : pc'[g] = pc[g] /\ at'[g] = at[g]
        /\ \A g \in Flow : N(g)' = N(g)
        /\ \A g \in Flow \ {f} : Mine(g)' = Mine(g) /\ It(g)' = It(g)
        /\ \A g \in Flow \ {f} : \A i : Fresh(g, i)' <=> Fresh(g, i)
        /\ pc'[f] \in {"delete", "query", "quit"}
        /\ \A i \in Mine(f)' : i \in Mine(f)
        /\ pc'[f] = "quit" => It(f) \in alive /\ at'[f] = at[f]
    <3>1. CASE It(f) \in alive /\ Goto(f, "quit") /\ UNCHANGED at
      <4>1. /\ pc' \in [Flow -> Client \cup Schedule] /\ at' = at
            /\ pc'[f] = "quit" /\ \A g \in Flow \ {f} : pc'[g] = pc[g]
        BY <2>1, <3>1 DEF Goto, IInv, TypeOK, Client
      <4>2. /\ \A g \in Flow \ {f} : Mine(g)' = Mine(g) /\ It(g)' = It(g)
            /\ \A g \in Flow \ {f} : \A i : Fresh(g, i)' <=> Fresh(g, i)
        BY <1>3, <2>1, <2>2, <4>1
      <4>3. Mine(f)' = Mine(f) /\ \A g \in Flow : N(g)' = N(g)
        BY <2>1, <2>2, <4>1 DEF Mine, N
      <4> QED
        BY <2>1, <3>1, <4>1, <4>2, <4>3 DEF IInv, TypeOK
    <3>2. CASE NextKid(f, "delete", "query")
      BY <1>11, <2>1, <2>2, <3>2
    <3> QED
      BY <1>14, <3>1, <3>2 DEF DeleteAlive
  <2>4. TypeOK'
    BY <2>2, <2>3 DEF IInv, TypeOK
  <2>5. FlowInv'
    BY <2>1, <2>2, <2>3 DEF IInv, FlowInv, Client, Flow
  <2>6. KidInv'
    <3>2. \A i \in Mine(f)' :
                LET u == kid[f][i]
                IN /\ i \in Mine(f) /\ u \notin quit' /\ entry'[u] \in {NoEntry, EntryOf(f)}
                   /\ Fresh(f, i)' => entry'[u] = NoEntry
                   /\ entry'[u] = NoEntry /\ u \in alive' => pc'[f] = "stack" /\ i = at'[f]
                   /\ pc'[f] = "enqueue" /\ i = at'[f] => entry'[u] # NoEntry
                   /\ pc'[f] = "quit" /\ i = at'[f] => entry'[u] # NoEntry /\ u \notin alive'
      BY <2>1, <2>2, <2>3 DEF IInv, KidInv, Fresh
    <3> QED
      BY <1>8, <2>1, <2>2, <2>3, <3>2
  <2>7. /\ CpuInv' /\ StateInv'
        /\ \A d \in Cpu : Freeing(d)' <=> Freeing(d)
        /\ \A d \in Cpu : pc'[d] = "freeTask" => pc[d] = "freeTask"
    BY <1>4, <2>1, <2>2, <2>3 DEF Client, Flow
  <2>8. GoneInv'
    <3>1. \A u \in Task : Gone(u)' <=> Gone(u)
      BY <2>2, <2>7 DEF Gone
    <3> QED
      BY <2>2, <2>3, <2>7, <3>1 DEF IInv, GoneInv
  <2>9. MemInv'
    BY <2>2 DEF IInv, MemInv
  <2>10. PlaceInv'
    <3>1. \A u \in Task : Enqueued(u)' <=> Enqueued(u)
      BY <2>1, <2>2, <2>3 DEF Enqueued, Flow
    <3> QED
      BY <2>2, <3>1 DEF IInv, PlaceInv
  <2>11. HaltInv'
    BY <2>2 DEF IInv, HaltInv
  <2> QED
    BY <2>4, <2>5, <2>6, <2>7, <2>8, <2>9, <2>10, <2>11 DEF IInv
<1>15. ASSUME NEW c \in Cpu, NEW f, AddQuit(c, f) PROVE IInv'
  <2>1. /\ f \in Flow /\ pc[f] = "quit" /\ At(c, f, "quit") /\ f \in Task
        /\ entry[f] = "task1" /\ N(f) = Kids
        /\ at[f] \in 1 .. N(f) /\ at[f] \in Mine(f) /\ It(f) \in Task /\ It(f) = kid[f][at[f]]
    BY <1>1, <1>2, <1>15 DEF AddQuit, It, Flow
  <2>2. /\ mem' = mem /\ state' = state /\ entry' = entry /\ hasStack' = hasStack
        /\ ready' = ready /\ blocked' = blocked /\ alive' = alive /\ quit' = quit \cup {It(f)}
        /\ currentTask' = currentTask /\ inTrap' = inTrap /\ kid' = kid /\ count' = count
        /\ halted' = halted /\ NextKid(f, "delete", "query")
    BY <1>15 DEF AddQuit, taskVars, queueVars, cpuVars
  <2>3. /\ pc' \in [Flow -> Client \cup Schedule] /\ at' \in [Flow -> 1 .. Kids]
        /\ \A g \in Flow \ {f} : pc'[g] = pc[g] /\ at'[g] = at[g]
        /\ \A g \in Flow : N(g)' = N(g)
        /\ \A g \in Flow \ {f} : Mine(g)' = Mine(g) /\ It(g)' = It(g)
        /\ \A g \in Flow \ {f} : \A i : Fresh(g, i)' <=> Fresh(g, i)
        /\ pc'[f] \in {"delete", "query"}
        /\ \A i \in Mine(f)' : i \in Mine(f) /\ i # at[f]
    BY <1>11, <2>1, <2>2
  <2>4. It(f) \in mem /\ It(f) \notin alive /\ entry[It(f)] = "subtask"
    BY <2>1, FlowAssumption DEF IInv, KidInv, EntryOf
  <2>5. \A g \in Flow : \A i \in Mine(g) : kid[g][i] = It(f) => g = f /\ i = at[f]
    BY <2>1 DEF IInv, KidInv
  <2>6. TypeOK'
    BY <2>1, <2>2, <2>3 DEF IInv, TypeOK
  <2>7. FlowInv'
    BY <2>1, <2>2, <2>3 DEF IInv, FlowInv, Client, Flow
  <2>8. KidInv'
    <3>2. \A i \in Mine(f)' :
                LET u == kid[f][i]
                IN /\ i \in Mine(f) /\ u \notin quit' /\ entry'[u] \in {NoEntry, EntryOf(f)}
                   /\ Fresh(f, i)' => entry'[u] = NoEntry
                   /\ entry'[u] = NoEntry /\ u \in alive' => pc'[f] = "stack" /\ i = at'[f]
                   /\ pc'[f] = "enqueue" /\ i = at'[f] => entry'[u] # NoEntry
                   /\ pc'[f] = "quit" /\ i = at'[f] => entry'[u] # NoEntry /\ u \notin alive'
      BY <2>1, <2>2, <2>3, <2>5 DEF IInv, KidInv, Fresh
    <3> QED
      BY <1>8, <2>1, <2>2, <2>3, <3>2
  <2>9. /\ CpuInv' /\ StateInv'
        /\ \A d \in Cpu : Freeing(d)' <=> Freeing(d)
        /\ \A d \in Cpu : pc'[d] = "freeTask" => pc[d] = "freeTask"
    BY <1>4, <2>1, <2>2, <2>3 DEF Client, Flow
  <2>10. GoneInv'
    <3>1. \A u \in Task : Gone(u)' <=> Gone(u) \/ u = It(f)
      BY <2>2, <2>9 DEF Gone
    <3>2. ~Gone(It(f))
      BY <2>1 DEF IInv, GoneInv
    <3>3. \A g \in Flow : \A i \in Mine(g)' : kid'[g][i] # It(f) /\ i \in Mine(g)
      BY <2>2, <2>3, <2>5
    <3>4. \A d \in Cpu : Freeing(d)' => currentTask'[d] \notin quit'
      BY <2>2, <2>9, <3>2 DEF IInv, GoneInv, Gone
    <3> QED
      BY <2>1, <2>2, <2>3, <2>4, <2>9, <3>1, <3>3, <3>4 DEF IInv, GoneInv
  <2>11. MemInv'
    BY <2>2 DEF IInv, MemInv
  <2>12. PlaceInv'
    <3>1. \A u \in Task : Enqueued(u)' <=> Enqueued(u)
      BY <2>1, <2>2, <2>3 DEF Enqueued, Flow
    <3> QED
      BY <2>2, <3>1 DEF IInv, PlaceInv
  <2>13. HaltInv'
    BY <2>2 DEF IInv, HaltInv
  <2> QED
    BY <2>6, <2>7, <2>8, <2>9, <2>10, <2>11, <2>12, <2>13 DEF IInv
<1>16. ASSUME NEW c \in Cpu, NEW f, NoNode(c, f) PROVE IInv'
  BY <1>16, <1>a DEF NoNode, Stops
\* The steps of a flow that concern no task.
<1>17. ASSUME NEW c \in Cpu, NEW f,
              Query(c, f) \/ \E s \in Sem : SemWait(c, f, s) \/ SemSignal(c, f, s)
       PROVE  IInv'
  <2> PICK l \in {"query", "loop"} : At(c, f, l)
    BY <1>17 DEF Query, SemWait, SemSignal
  <2>1. /\ f \in Flow /\ pc[f] = l /\ f \in Task /\ f = currentTask[c] /\ halted = "no"
        /\ l = "query" => entry[f] = "task1" /\ N(f) = Kids
    BY <1>1 DEF IInv, FlowInv, Flow, Schedule
  <2>2. /\ mem' = mem /\ entry' = entry /\ hasStack' = hasStack
        /\ ready' = ready /\ blocked' = blocked /\ alive' = alive /\ quit' = quit
        /\ currentTask' = currentTask /\ inTrap' = inTrap /\ kid' = kid
    BY <1>17 DEF Query, SemWait, SemSignal, taskVars, queueVars, recordVars, cpuVars, flowVars
  <2>3. /\ halted' \in {halted, "test.c:22", "kmt.c:289", "kmt.c:306"}
        /\ state' = state \/ (halted' = "kmt.c:289" /\ state' = [state EXCEPT ![f] = "BLOCKED"])
        /\ count' \in [Sem -> Int]
    BY <1>17 DEF Query, SemWait, SemSignal, taskVars, IInv, TypeOK
  <2>4. /\ pc' \in [Flow -> Client \cup Schedule] /\ at' \in [Flow -> 1 .. Kids]
        /\ \A g \in Flow \ {f} : pc'[g] = pc[g] /\ at'[g] = at[g]
        /\ pc'[f] \in {"query", "loop"} /\ (l = "loop" => pc'[f] = "loop" /\ at'[f] = at[f])
    <3>1. CASE Query(c, f)
      <4>1. /\ pc' = [pc EXCEPT ![f] = IF at[f] < N(f) THEN "query" ELSE "loop"]
            /\ at' = [at EXCEPT ![f] = IF at[f] < N(f) THEN at[f] + 1 ELSE 1]
            /\ pc[f] = "query"
        BY <1>1, <3>1 DEF Query, IsAlive, NextKid, Goto, N
      <4>2. at[f] < N(f) => at[f] + 1 \in 1 .. Kids
        BY <1>0, <2>1, <4>1
      <4> QED
        BY <2>1, <4>1, <4>2 DEF IInv, TypeOK, Client
    <3>2. CASE \E s \in Sem : SemWait(c, f, s) \/ SemSignal(c, f, s)
      BY <2>1, <3>2 DEF SemWait, SemSignal, flowVars, IInv, TypeOK
    <3> QED
      BY <1>17, <3>1, <3>2
  <2>5. /\ Mine(f) = {} /\ Mine(f)' = {} /\ \A g \in Flow : N(g)' = N(g)
        /\ \A g \in Flow \ {f} : Mine(g)' = Mine(g) /\ It(g)' = It(g)
        /\ \A g \in Flow \ {f} : \A i : Fresh(g, i)' <=> Fresh(g, i)
    BY <1>3, <2>1, <2>2, <2>4 DEF Mine, N
  <2>6. TypeOK'
    BY <2>1, <2>2, <2>3, <2>4 DEF IInv, TypeOK, Stops
  <2>7. FlowInv'
    BY <2>1, <2>2, <2>4, <2>5 DEF IInv, FlowInv, Client, Flow
  <2>8. KidInv'
    BY <2>2, <2>4, <2>5 DEF IInv, KidInv, EntryOf
  <2>9. CpuInv' /\ \A d \in Cpu : pc'[d] = pc[d] /\ (Freeing(d)' <=> Freeing(d))
    BY <2>1, <2>2, <2>4 DEF IInv, CpuInv, Freeing, Flow
  <2>10. StateInv'
    BY <2>2, <2>3, <2>9 DEF IInv, StateInv
  <2>11. GoneInv' /\ MemInv' /\ HaltInv'
    <3>1. \A u \in Task : Gone(u)' <=> Gone(u)
      BY <2>2, <2>9 DEF Gone
    <3>2. \A g \in Flow : \A i \in Mine(g)' : i \in Mine(g)
      BY <2>5
    <3> QED
      BY <2>2, <2>3, <2>9, <3>1, <3>2 DEF IInv, GoneInv, MemInv, HaltInv
  <2>12. PlaceInv'
    <3>1. \A u \in Task : Enqueued(u)' <=> Enqueued(u)
      BY <2>1, <2>2, <2>4, <2>5 DEF Enqueued, Flow
    <3> QED
      BY <2>2, <3>1 DEF IInv, PlaceInv
  <2> QED
    BY <2>6, <2>7, <2>8, <2>9, <2>10, <2>11, <2>12 DEF IInv
\* What every step of the scheduler, but for the one that frees the task, leaves
\* to show.
<1>18. ASSUME NEW c \in Cpu, NEW l \in Schedule, pc[c] \in Schedule, Goto(c, l), halted = "no",
              mem' = mem, entry' = entry, alive' = alive, quit' \subseteq quit,
              kid' = kid, at' = at, count' = count, blocked' = blocked, halted' = halted,
              hasStack' \in [Task -> BOOLEAN], state' \in [Task -> {"RUNNING", "READY", "BLOCKED"}],
              ready' \in Seq(Task), currentTask' \in [Cpu -> Task \cup {Nil, Spin}],
              inTrap' = [inTrap EXCEPT ![c] = (l # "out")],
              \A d \in Cpu \ {c} : currentTask'[d] = currentTask[d],
              l \in {"wake", "pick"} => currentTask'[c] = Nil,
              l \in {"findQuit", "freeStack", "freeTask", "markReady", "requeue", "resume"}
                 => currentTask'[c] \in Task,
              \A u \in Task : u # currentTask[c] => state'[u] = state[u] /\ hasStack'[u] = hasStack[u],
              currentTask'[c] \in Task /\ l \in {"out", "inspect", "findQuit", "markReady"}
                 => state'[currentTask'[c]] = "RUNNING",
              currentTask'[c] \in Task /\ l = "requeue" => state'[currentTask'[c]] = "READY",
              l \in {"freeStack", "freeTask"} =>
                 currentTask'[c] = currentTask[c] /\ currentTask'[c] \notin quit'
                 /\ Gone(currentTask[c]),
              l = "freeTask" => ~hasStack'[currentTask'[c]],
              Distinct(ready'),
              \A d, e \in Cpu : currentTask'[d] \in Task /\ currentTask'[d] = currentTask'[e] => d = e,
              \A d \in Cpu : currentTask'[d] \in Task => ~In(currentTask'[d], ready'),
              \A u \in Task : In(u, ready') \/ (\E d \in Cpu : currentTask'[d] = u)
                                <=> In(u, ready) \/ (\E d \in Cpu : currentTask[d] = u)
       PROVE  IInv'
  <2>1. pc' = [pc EXCEPT ![c] = l]
    BY <1>18 DEF Goto
  <2>2. /\ pc' \in [Flow -> Client \cup Schedule] /\ pc'[c] = l
        /\ \A f \in Flow \ {c} : pc'[f] = pc[f]
        /\ \A f \in Flow : Mine(f)' = Mine(f)
    BY <1>5, <1>18, <2>1
  <2>3. /\ FlowInv' /\ KidInv' /\ MemInv'
        /\ \A t \in Task : Enqueued(t)' <=> Enqueued(t)
    BY <1>6, <1>18, <2>1
  <2>4. TypeOK'
    BY <1>18, <2>2 DEF IInv, TypeOK
  <2>5. CpuInv'
    <3>1. ASSUME NEW d \in Cpu \ {c}
          PROVE  pc'[d] = pc[d] /\ inTrap'[d] = inTrap[d] /\ currentTask'[d] = currentTask[d]
      BY <1>18, <2>2 DEF IInv, TypeOK, Flow
    <3>2. inTrap'[c] = (l # "out")
      BY <1>18 DEF IInv, TypeOK
    <3> QED
      <4>1. ~inTrap'[c] <=> pc'[c] = "out"
        BY <2>2, <3>2
      <4>2. /\ pc'[c] \in {"alloc", "add", "stack", "enqueue", "wake", "pick"} => currentTask'[c] = Nil
            /\ pc'[c] \in {"findQuit", "freeStack", "freeTask", "markReady", "requeue", "resume"}
                  => currentTask'[c] \in Task
        BY <1>18, <2>2 DEF Schedule
      <4> QED
        BY <3>1, <4>1, <4>2 DEF IInv, CpuInv
  <2>6. \A d \in Cpu \ {c} : currentTask[d] \in Task => currentTask[d] # currentTask[c]
    BY DEF IInv, PlaceInv
  <2>7. StateInv'
    BY <1>18, <2>2, <2>6 DEF IInv, StateInv, Flow
  <2>8. PlaceInv'
    BY <1>18, <2>3 DEF IInv, PlaceInv
  <2>9. \A u \in Task : Gone(u)' => Gone(u)
    BY <1>18, <2>2 DEF Gone, Freeing, Flow
  <2>10. GoneInv'
    <3>1. \A u \in Task : Gone(u)' => /\ u \in mem' /\ u \notin alive' /\ entry'[u] = "subtask"
                                      /\ \A f \in Flow : \A i \in Mine(f)' : kid'[f][i] # u
      BY <1>18, <2>2, <2>9 DEF IInv, GoneInv
    <3>2. ASSUME NEW d \in Cpu, d # c
          PROVE  /\ Freeing(d)' => currentTask'[d] \notin quit'
                 /\ pc'[d] = "freeTask" => ~hasStack'[currentTask'[d]]
      <4>1. pc'[d] = pc[d] /\ currentTask'[d] = currentTask[d]
        BY <1>18, <2>2, <3>2 DEF Flow
      <4>2. Freeing(d) => /\ currentTask[d] \in Task /\ currentTask[d] \notin quit
                          /\ currentTask[d] # currentTask[c]
        BY <2>6, <3>2 DEF IInv, CpuInv, GoneInv, Freeing
      <4> QED
        BY <1>18, <4>1, <4>2 DEF IInv, GoneInv, Freeing
    <3>3. /\ Freeing(c)' => currentTask'[c] \notin quit'
          /\ pc'[c] = "freeTask" => ~hasStack'[currentTask'[c]]
      BY <1>18, <2>2 DEF Freeing
    <3> QED
      BY <3>1, <3>2, <3>3 DEF GoneInv
  <2> QED
    BY <1>18, <2>3, <2>4, <2>5, <2>7, <2>8, <2>10 DEF IInv, HaltInv
\* Where the tasks are.
<1>b. /\ Distinct(ready) /\ ready \in Seq(Task)
      /\ \A d, e \in Cpu : currentTask[d] \in Task /\ currentTask[d] = currentTask[e] => d = e
      /\ \A d \in Cpu : currentTask[d] \in Task => ~In(currentTask[d], ready)
      /\ currentTask \in [Cpu -> Task \cup {Nil, Spin}] /\ inTrap \in [Cpu -> BOOLEAN]
      /\ hasStack \in [Task -> BOOLEAN] /\ state \in [Task -> {"RUNNING", "READY", "BLOCKED"}]
  BY DEF IInv, PlaceInv, TypeOK
<1>c. ASSUME NEW c \in Cpu, NEW l, At(c, c, l)
      PROVE  pc[c] = l /\ inTrap[c] /\ halted = "no" /\ [inTrap EXCEPT ![c] = TRUE] = inTrap
  BY <1>1, <1>b, <1>c
<1>19. ASSUME NEW c \in Cpu, Trap(c) PROVE IInv'
  <2>1. /\ halted = "no" /\ pc[c] = "out" /\ Goto(c, "inspect")
        /\ inTrap' = [inTrap EXCEPT ![c] = TRUE]
        /\ mem' = mem /\ entry' = entry /\ alive' = alive /\ quit' = quit /\ kid' = kid /\ at' = at
        /\ count' = count /\ blocked' = blocked /\ halted' = halted /\ hasStack' = hasStack
        /\ state' = state /\ ready' = ready /\ currentTask' = currentTask
    BY <1>19, Dispatched DEF Trap, taskVars, queueVars, recordVars, IInv, CpuInv, TypeOK
  <2>2. currentTask[c] \in Task => state[currentTask[c]] = "RUNNING"
    BY <2>1 DEF IInv, StateInv
  <2> QED
    BY <1>18, <1>b, <2>1, <2>2 DEF Schedule
<1>20. ASSUME NEW c \in Cpu, Inspect(c) PROVE IInv'
  <2>1. /\ At(c, c, "inspect") /\ pc[c] = "inspect" /\ halted = "no"
        /\ inTrap' = [inTrap EXCEPT ![c] = TRUE]
        /\ mem' = mem /\ entry' = entry /\ alive' = alive /\ quit' = quit /\ kid' = kid /\ at' = at
        /\ count' = count /\ blocked' = blocked /\ halted' = halted /\ hasStack' = hasStack
        /\ state' = state /\ ready' = ready
    BY <1>20, <1>c DEF Inspect, taskVars, queueVars, recordVars
  <2>2. CASE currentTask[c] \in Task
    <3>1. state[currentTask[c]] = "RUNNING"
      BY <2>1, <2>2 DEF IInv, StateInv
    <3>2. Goto(c, "findQuit") /\ currentTask' = currentTask
      BY <1>20, <2>2, <3>1 DEF Inspect
    <3> QED
      BY <1>18, <1>b, <2>1, <2>2, <3>1, <3>2 DEF Schedule
  <2>3. CASE currentTask[c] \notin Task
    <3>1. Goto(c, "wake") /\ currentTask' = [currentTask EXCEPT ![c] = Nil]
      BY <1>20, <2>3 DEF Inspect
    <3>2. /\ currentTask' \in [Cpu -> Task \cup {Nil, Spin}] /\ currentTask'[c] = Nil /\ Nil \notin Task
          /\ \A d \in Cpu \ {c} : currentTask'[d] = currentTask[d]
      BY <1>b, <3>1
    <3> QED
      BY <1>18, <1>b, <2>1, <2>3, <3>1, <3>2 DEF Schedule
  <2> QED
    BY <2>2, <2>3
<1>21. ASSUME NEW c \in Cpu, FindQuit(c) PROVE IInv'
  <2>1. /\ At(c, c, "findQuit") /\ pc[c] = "findQuit" /\ halted = "no"
        /\ Goto(c, IF currentTask[c] \in quit THEN "freeStack" ELSE "markReady")
        /\ quit' = quit \ {currentTask[c]} /\ inTrap' = [inTrap EXCEPT ![c] = TRUE]
        /\ mem' = mem /\ entry' = entry /\ alive' = alive /\ kid' = kid /\ at' = at
        /\ count' = count /\ blocked' = blocked /\ halted' = halted /\ hasStack' = hasStack
        /\ state' = state /\ ready' = ready /\ currentTask' = currentTask
    BY <1>21, <1>c DEF FindQuit, taskVars, queueVars, cpuVars
  <2>2. /\ currentTask[c] \in Task /\ state[currentTask[c]] = "RUNNING"
        /\ currentTask[c] \in quit => Gone(currentTask[c])
    BY <2>1 DEF IInv, CpuInv, StateInv, Gone
  <2>3. CASE currentTask[c] \in quit
    BY <1>18, <1>b, <2>1, <2>2, <2>3 DEF Schedule
  <2>4. CASE currentTask[c] \notin quit
    BY <1>18, <1>b, <2>1, <2>2, <2>4 DEF Schedule
  <2> QED
    BY <2>3, <2>4
<1>22. ASSUME NEW c \in Cpu, FreeStack(c) PROVE IInv'
  <2>1. /\ At(c, c, "freeStack") /\ pc[c] = "freeStack" /\ halted = "no"
        /\ Goto(c, "freeTask") /\ inTrap' = [inTrap EXCEPT ![c] = TRUE]
        /\ hasStack' = [hasStack EXCEPT ![currentTask[c]] = FALSE]
        /\ mem' = mem /\ entry' = entry /\ alive' = alive /\ quit' = quit /\ kid' = kid /\ at' = at
        /\ count' = count /\ blocked' = blocked /\ halted' = halted
        /\ state' = state /\ ready' = ready /\ currentTask' = currentTask
    BY <1>22, <1>c DEF FreeStack, queueVars, recordVars, cpuVars
  <2>2. currentTask[c] \in Task /\ currentTask[c] \notin quit /\ Gone(currentTask[c])
    BY <2>1 DEF IInv, CpuInv, GoneInv, Gone, Freeing
  <2>3. /\ hasStack' \in [Task -> BOOLEAN] /\ ~hasStack'[currentTask[c]]
        /\ \A u \in Task : u # currentTask[c] => hasStack'[u] = hasStack[u]
    BY <1>b, <2>1, <2>2
  <2> QED
    BY <1>18, <1>b, <2>1, <2>2, <2>3 DEF Schedule
<1>23. ASSUME NEW c \in Cpu, MarkReady(c) PROVE IInv'
  <2>1. /\ At(c, c, "markReady") /\ pc[c] = "markReady" /\ halted = "no"
        /\ Goto(c, "requeue") /\ inTrap' = [inTrap EXCEPT ![c] = TRUE]
        /\ state' = [state EXCEPT ![currentTask[c]] = "READY"]
        /\ mem' = mem /\ entry' = entry /\ alive' = alive /\ quit' = quit /\ kid' = kid /\ at' = at
        /\ count' = count /\ blocked' = blocked /\ halted' = halted
        /\ hasStack' = hasStack /\ ready' = ready /\ currentTask' = currentTask
    BY <1>23, <1>c DEF MarkReady, queueVars, recordVars, cpuVars
  <2>2. currentTask[c] \in Task
    BY <2>1 DEF IInv, CpuInv
  <2>3. /\ state' \in [Task -> {"RUNNING", "READY", "BLOCKED"}] /\ state'[currentTask[c]] = "READY"
        /\ \A u \in Task : u # currentTask[c] => state'[u] = state[u]
    BY <1>b, <2>1, <2>2
  <2> QED
    BY <1>18, <1>b, <2>1, <2>2, <2>3 DEF Schedule
<1>24. ASSUME NEW c \in Cpu, Requeue(c) PROVE IInv'
  <2>1. /\ At(c, c, "requeue") /\ pc[c] = "requeue" /\ halted = "no"
        /\ Goto(c, "wake") /\ inTrap' = [inTrap EXCEPT ![c] = TRUE]
        /\ currentTask' = [currentTask EXCEPT ![c] = Nil]
        /\ mem' = mem /\ entry' = entry /\ alive' = alive /\ quit' = quit /\ kid' = kid /\ at' = at
        /\ count' = count /\ halted' = halted /\ hasStack' = hasStack /\ state' = state
    BY <1>24, <1>c DEF Requeue, taskVars, recordVars
  <2>2. currentTask[c] \in Task /\ state[currentTask[c]] = "READY"
    BY <2>1 DEF IInv, CpuInv, StateInv
  <2>3. blocked' = blocked /\ ready' = Append(ready, currentTask[c])
    BY <1>24, <2>2 DEF Requeue
  <2>4. /\ ready' \in Seq(Task) /\ Distinct(ready')
        /\ \A u : In(u, ready') <=> In(u, ready) \/ u = currentTask[c]
    BY <1>b, <2>2, <2>3, AppendIn
  <2>5. /\ currentTask' \in [Cpu -> Task \cup {Nil, Spin}] /\ currentTask'[c] = Nil /\ Nil \notin Task
        /\ \A d \in Cpu \ {c} : currentTask'[d] = currentTask[d]
    BY <1>b, <2>1
  <2>6. \A u \in Task : In(u, ready') \/ (\E d \in Cpu : currentTask'[d] = u)
                          <=> In(u, ready) \/ (\E d \in Cpu : currentTask[d] = u)
    BY <2>4, <2>5
  <2>7. \A d, e \in Cpu : currentTask'[d] \in Task /\ currentTask'[d] = currentTask'[e] => d = e
    BY <1>b, <2>5
  <2>8. \A d \in Cpu : currentTask'[d] \in Task => ~In(currentTask'[d], ready')
    BY <1>b, <2>2, <2>4, <2>5
  <2> QED
    BY <1>18, <1>b, <2>1, <2>3, <2>4, <2>5, <2>6, <2>7, <2>8 DEF Schedule
<1>25. ASSUME NEW c \in Cpu, Wake(c) PROVE IInv'
  <2>1. /\ At(c, c, "wake") /\ pc[c] = "wake" /\ halted = "no" /\ blocked = <<>>
        /\ Goto(c, "pick") /\ inTrap' = [inTrap EXCEPT ![c] = TRUE]
        /\ mem' = mem /\ entry' = entry /\ alive' = alive /\ quit' = quit /\ kid' = kid /\ at' = at
        /\ count' = count /\ blocked' = blocked /\ halted' = halted /\ hasStack' = hasStack
        /\ state' = state /\ ready' = ready /\ currentTask' = currentTask
    BY <1>25, <1>c DEF Wake, taskVars, queueVars, recordVars, cpuVars, IInv, HaltInv
  <2>2. currentTask[c] = Nil
    BY <2>1 DEF IInv, CpuInv
  <2> QED
    BY <1>18, <1>b, <2>1, <2>2 DEF Schedule
<1>26. ASSUME NEW c \in Cpu, Pick(c) PROVE IInv'
  <2>1. /\ At(c, c, "pick") /\ pc[c] = "pick" /\ halted = "no"
        /\ mem' = mem /\ entry' = entry /\ alive' = alive /\ quit' = quit /\ kid' = kid /\ at' = at
        /\ count' = count /\ blocked' = blocked /\ halted' = halted /\ hasStack' = hasStack
        /\ state' = state
    BY <1>26, <1>c DEF Pick, taskVars, recordVars
  <2>2. currentTask[c] = Nil /\ Nil \notin Task /\ Spin \notin Task
    BY <2>1 DEF IInv, CpuInv
  <2>3. CASE ready = <<>>
    <3>1. /\ Goto(c, "out") /\ inTrap' = [inTrap EXCEPT ![c] = FALSE] /\ ready' = ready
          /\ currentTask' = [currentTask EXCEPT ![c] = Spin]
      BY <1>26, <2>3 DEF Pick
    <3>2. /\ currentTask' \in [Cpu -> Task \cup {Nil, Spin}] /\ currentTask'[c] = Spin
          /\ \A d \in Cpu \ {c} : currentTask'[d] = currentTask[d]
      BY <1>b, <3>1
    <3> QED
      BY <1>18, <1>b, <2>1, <2>2, <3>1, <3>2 DEF Schedule
  <2>4. CASE ready # <<>>
    <3>1. /\ Goto(c, "resume") /\ inTrap' = [inTrap EXCEPT ![c] = TRUE] /\ ready' = Tail(ready)
          /\ currentTask' = [currentTask EXCEPT ![c] = Head(ready)]
      BY <1>26, <1>c, <2>4 DEF Pick
    <3>2. /\ Head(ready) \in Task /\ ready' \in Seq(Task) /\ Distinct(ready') /\ In(Head(ready), ready)
          /\ \A u : In(u, ready') <=> In(u, ready) /\ u # Head(ready)
      BY <1>b, <2>4, <3>1, TailIn
    <3>3. /\ currentTask' \in [Cpu -> Task \cup {Nil, Spin}] /\ currentTask'[c] = Head(ready)
          /\ \A d \in Cpu \ {c} : currentTask'[d] = currentTask[d]
      BY <1>b, <3>1, <3>2
    <3>4. \A u \in Task : In(u, ready') \/ (\E d \in Cpu : currentTask'[d] = u)
                            <=> In(u, ready) \/ (\E d \in Cpu : currentTask[d] = u)
      BY <2>2, <3>2, <3>3
    <3>5. \A d, e \in Cpu : currentTask'[d] \in Task /\ currentTask'[d] = currentTask'[e] => d = e
      BY <1>b, <3>2, <3>3
    <3>6. \A d \in Cpu : currentTask'[d] \in Task => ~In(currentTask'[d], ready')
      BY <1>b, <3>2, <3>3
    <3> QED
      <4>1. currentTask[c] = Nil /\ currentTask'[c] \in Task
        BY <2>2, <3>2, <3>3
      <4> QED
        BY <1>18, <1>b, <2>1, <3>1, <3>2, <3>3, <3>4, <3>5, <3>6, <4>1 DEF Schedule
  <2> QED
    BY <2>3, <2>4
<1>27. ASSUME NEW c \in Cpu, Resume(c) PROVE IInv'
  <2>1. /\ At(c, c, "resume") /\ pc[c] = "resume" /\ halted = "no"
        /\ Goto(c, "out") /\ inTrap' = [inTrap EXCEPT ![c] = FALSE]
        /\ state' = [state EXCEPT ![currentTask[c]] = "RUNNING"]
        /\ mem' = mem /\ entry' = entry /\ alive' = alive /\ quit' = quit /\ kid' = kid /\ at' = at
        /\ count' = count /\ blocked' = blocked /\ halted' = halted
        /\ hasStack' = hasStack /\ ready' = ready /\ currentTask' = currentTask
    BY <1>27, <1>c DEF Resume, queueVars, recordVars
  <2>2. currentTask[c] \in Task
    BY <2>1 DEF IInv, CpuInv
  <2>3. /\ state' \in [Task -> {"RUNNING", "READY", "BLOCKED"}] /\ state'[currentTask[c]] = "RUNNING"
        /\ \A u \in Task : u # currentTask[c] => state'[u] = state[u]
    BY <1>b, <2>1, <2>2
  <2> QED
    BY <1>18, <1>b, <2>1, <2>2, <2>3 DEF Schedule
<1>28. ASSUME NEW c \in Cpu, FreeTask(c) PROVE IInv'
  <2> PICK t : t = currentTask[c]
    OBVIOUS
  <2>1. /\ At(c, c, "freeTask") /\ pc[c] = "freeTask" /\ halted = "no" /\ inTrap[c]
        /\ mem' = mem \ {t} /\ entry' = [entry EXCEPT ![t] = NoEntry]
        /\ state' = [state EXCEPT ![t] = "READY"]
        /\ pc' = [pc EXCEPT ![c] = "wake", ![t] = "loop"]
        /\ currentTask' = [currentTask EXCEPT ![c] = Nil] /\ inTrap' = inTrap
        /\ alive' = alive /\ quit' = quit /\ kid' = kid /\ at' = at
        /\ count' = count /\ blocked' = blocked /\ halted' = halted
        /\ hasStack' = hasStack /\ ready' = ready
    BY <1>28, <1>c DEF FreeTask, queueVars, recordVars
  <2>2. /\ t \in Task /\ t \in Flow /\ t \notin quit /\ t \notin alive /\ t \in mem /\ Gone(t)
        /\ entry[t] = "subtask"
        /\ \A f \in Flow : \A i \in Mine(f) : kid[f][i] # t
        /\ pc[t] = "loop" /\ N(t) = 0 /\ at[t] = 1
        /\ \A d \in Cpu \ {c} : currentTask[d] # t
        /\ ~In(t, ready)
    <3>1. t \in Task /\ t \notin quit /\ Gone(t)
      BY <2>1 DEF IInv, CpuInv, GoneInv, Gone, Freeing
    <3>2. /\ t \notin alive /\ t \in mem /\ entry[t] = "subtask"
          /\ \A f \in Flow : \A i \in Mine(f) : kid[f][i] # t
      BY <3>1 DEF IInv, GoneInv
    <3>3. pc[t] = "loop" /\ N(t) = 0 /\ at[t] = 1
      BY <3>1, <3>2 DEF IInv, FlowInv
    <3>4. (\A d \in Cpu \ {c} : currentTask[d] # t) /\ ~In(t, ready)
      BY <1>b, <3>1
    <3> QED
      BY <3>1, <3>2, <3>3, <3>4 DEF Flow
  <2>3. pc' = [pc EXCEPT ![c] = "wake"]
    BY <2>1, <2>2 DEF IInv, TypeOK
  <2>4. /\ pc' \in [Flow -> Client \cup Schedule] /\ pc'[c] = "wake"
        /\ \A f \in Flow \ {c} : pc'[f] = pc[f]
        /\ \A f \in Flow : N(f)' = N(f) /\ Mine(f)' = Mine(f) /\ It(f)' = It(f)
        /\ \A f \in Flow : \A i \in Mine(f) : f # c /\ (Fresh(f, i)' <=> Fresh(f, i))
        /\ \A f \in Flow : pc'[f] = "enqueue" <=> pc[f] = "enqueue"
    BY <1>5, <2>1, <2>3 DEF Schedule
  <2>5. /\ \A u \in Task \ {t} : entry'[u] = entry[u] /\ state'[u] = state[u]
        /\ entry'[t] = NoEntry
        /\ currentTask' \in [Cpu -> Task \cup {Nil, Spin}] /\ currentTask'[c] = Nil /\ Nil \notin Task
        /\ \A d \in Cpu \ {c} : currentTask'[d] = currentTask[d]
    BY <1>b, <2>1, <2>2 DEF IInv, TypeOK
  <2>6. TypeOK'
    BY <2>1, <2>2, <2>4, <2>5 DEF IInv, TypeOK
  <2>7. FlowInv'
    BY <2>1, <2>2, <2>4, <2>5 DEF IInv, FlowInv, Flow, Schedule, NoEntry
  <2>8. KidInv'
    <3>1. \A f \in Flow : \A i \in Mine(f) : kid[f][i] # t /\ kid[f][i] \in Task
      BY <1>0, <2>2
    <3> QED
      BY <2>1, <2>4, <2>5, <3>1 DEF IInv, KidInv, EntryOf
  <2>9. \A u \in Task : Gone(u)' => Gone(u) /\ u # t
    BY <2>1, <2>2, <2>4, <2>5 DEF Gone, Freeing, Flow
  <2>10. GoneInv'
    <3>1. \A u \in Task : Gone(u)' => /\ u \in mem' /\ u \notin alive' /\ entry'[u] = "subtask"
                                      /\ \A f \in Flow : \A i \in Mine(f)' : kid'[f][i] # u
      BY <2>1, <2>4, <2>5, <2>9 DEF IInv, GoneInv
    <3> QED
      BY <2>1, <2>4, <2>5, <3>1 DEF IInv, GoneInv, Freeing, Flow
  <2>11. MemInv'
    BY <2>1, <2>2, <2>5 DEF IInv, MemInv
  <2>12. PlaceInv'
    <3>1. ~Enqueued(t)' /\ \A u \in Task \ {t} : Enqueued(u)' <=> Enqueued(u)
      BY <2>4, <2>5 DEF Enqueued
    <3> QED
      BY <2>1, <2>2, <2>5, <3>1 DEF IInv, PlaceInv
  <2>13. CpuInv' /\ StateInv' /\ HaltInv'
    BY <2>1, <2>2, <2>4, <2>5 DEF IInv, CpuInv, StateInv, HaltInv, Flow
  <2> QED
    BY <2>6, <2>7, <2>8, <2>10, <2>11, <2>12, <2>13 DEF IInv
<1>29. CASE UNCHANGED vars
  BY <1>29, <1>a DEF vars
<1>30. ASSUME NEW c \in Cpu, ClientStep(c, On(c)) PROVE IInv'
  <2> PICK f : f = On(c)
    OBVIOUS
  <2>1. ClientStep(c, f)
    BY <1>30
  <2> QED
    BY <2>1, <1>7, <1>9, <1>10, <1>12, <1>13, <1>14, <1>15, <1>16, <1>17 DEF ClientStep
<1>31. ASSUME NEW c \in Cpu, KernelStep(c) PROVE IInv'
  BY <1>31, <1>20, <1>21, <1>22, <1>23, <1>24, <1>25, <1>26, <1>27, <1>28 DEF KernelStep
<1> QED
  BY <1>19, <1>29, <1>30, <1>31 DEF Next

\* The invariant of every reachable state.
THEOREM Invariant == Spec => []IInv
BY Initial, Inductive, PTL DEF Spec

\* Every field, queue and list has the values its readers expect.
THEOREM TypeCorrect == Spec => []TypeOK
<1>1. IInv => TypeOK
  BY DEF IInv
<1> QED
  BY <1>1, Invariant, PTL

\* InOnePlace counts: a queue without repetition has a task once or not at all.
LEMMA Once ==
  ASSUME NEW t \in Task, NEW s \in Seq(Task), Distinct(s)
  PROVE  LET Q == {i \in 1 .. Len(s) : s[i] = t}
         IN Cardinality(Q) = IF In(t, s) THEN 1 ELSE 0
<1> DEFINE Q == {i \in 1 .. Len(s) : s[i] = t}
<1>1. CASE In(t, s)
  <2>1. PICK i \in 1 .. Len(s) : s[i] = t
    BY <1>1 DEF In
  <2>2. Q = {i}
    BY <2>1 DEF Distinct
  <2> QED
    BY <1>1, <2>2, FS_Singleton
<1>2. CASE ~In(t, s)
  <2>1. Q = {}
    BY <1>2 DEF In
  <2> QED
    BY <1>2, <2>1, FS_EmptySet
<1> QED
  BY <1>1, <1>2

\* A task that has been enqueued is in readyTasks once or on one CPU, through
\* preemption, migration and teardown, and one that has not is nowhere.
THEOREM OnePlace == Spec => []InOnePlace
<1>1. IInv => InOnePlace
  <2> SUFFICES ASSUME IInv, NEW t \in Task
               PROVE  Cardinality(Queued(t)) + Cardinality(Holders(t))
                        = IF Enqueued(t) THEN 1 ELSE 0
    BY DEF InOnePlace
  <2>1. Cardinality(Queued(t)) = IF In(t, ready) THEN 1 ELSE 0
    BY Once DEF IInv, TypeOK, PlaceInv, Queued
  <2>2. CASE \E c \in Cpu : currentTask[c] = t
    <3>1. PICK c \in Cpu : currentTask[c] = t
      BY <2>2
    <3>2. Holders(t) = {c}
      BY <3>1 DEF IInv, PlaceInv, Holders
    <3>3. Cardinality(Holders(t)) = 1
      BY <3>2, FS_Singleton
    <3>4. ~In(t, ready) /\ Enqueued(t)
      BY <3>1 DEF IInv, PlaceInv
    <3> QED
      BY <2>1, <3>3, <3>4
  <2>3. CASE ~\E c \in Cpu : currentTask[c] = t
    <3>1. Holders(t) = {}
      BY <2>3 DEF Holders
    <3>2. Cardinality(Holders(t)) = 0
      BY <3>1, FS_EmptySet
    <3>3. Enqueued(t) <=> In(t, ready)
      BY <2>3 DEF IInv, PlaceInv
    <3> QED
      BY <2>1, <3>2, <3>3
  <2> QED
    BY <2>2, <2>3
<1> QED
  BY <1>1, Invariant, PTL

\* No queue, list or CPU refers to a struct task that has been freed, and a
\* task that has been torn down is not alive.
THEOREM NothingDangles == Spec => []NoDangling
<1>1. IInv => NoDangling
  <2> SUFFICES ASSUME IInv PROVE NoDangling
    OBVIOUS
  <2>1. ASSUME NEW t \in Task, Queued(t) # {} \/ Holders(t) # {} PROVE t \in mem
    <3>1. In(t, ready) \/ \E c \in Cpu : currentTask[c] = t
      BY <2>1 DEF Queued, Holders, In
    <3>2. Enqueued(t)
      BY <3>1 DEF IInv, PlaceInv
    <3> QED
      BY <3>2 DEF Enqueued, IInv, MemInv
  <2>2. quit \subseteq mem /\ alive \cap quit = {}
    BY DEF IInv, GoneInv, Gone, TypeOK
  <2> QED
    BY <2>1, <2>2 DEF NoDangling, IInv, MemInv
<1> QED
  BY <1>1, Invariant, PTL

\* The scheduler never finds a task that it interrupts in another state than
\* RUNNING, nor one in blockedTasks; kmt_create never finds its new task in
\* aliveTasks.
THEOREM ChecksPass == Spec => []SchedulerChecks
<1>1. IInv => SchedulerChecks
  BY DEF IInv, SchedulerChecks, HaltInv, StateInv
<1> QED
  BY <1>1, Invariant, PTL

\* A struct task is freed only after kmt_teardown has taken the task out of
\* aliveTasks, after its stack, and on the CPU that ran it last.
THEOREM FreedLate == Spec => FreedOnlyAfterTeardown
<1> DEFINE Late == \A t \in mem \ mem' : /\ t \notin alive /\ ~hasStack[t]
                                         /\ \E c \in Cpu : currentTask[c] = t /\ inTrap[c]
<1>1. IInv /\ [Next]_vars => [Late]_vars
  <2> SUFFICES ASSUME IInv, Next, NEW t \in mem \ mem'
               PROVE  /\ t \notin alive /\ ~hasStack[t]
                      /\ \E c \in Cpu : currentTask[c] = t /\ inTrap[c]
    BY DEF vars
  <2>1. ASSUME NEW c \in Cpu, FreeTask(c)
        PROVE  /\ t \notin alive /\ ~hasStack[t]
               /\ \E d \in Cpu : currentTask[d] = t /\ inTrap[d]
    <3>1. t = currentTask[c] /\ pc[c] = "freeTask" /\ On(c) = c
      BY <2>1 DEF FreeTask, At
    <3>2. inTrap[c]
      BY <3>1 DEF IInv, CpuInv
    <3>3. t \in Task /\ Gone(t)
      BY <3>1 DEF IInv, CpuInv, Gone, Freeing
    <3> QED
      BY <3>1, <3>2, <3>3 DEF IInv, GoneInv
  <2>2. ASSUME NEW c \in Cpu, NEW f, ClientStep(c, f) PROVE FALSE
    BY <2>2 DEF ClientStep, AllocTask, AddAlive, FillIn, NoStack, Enqueue, NoNode, DeleteAlive,
       AddQuit, Query, SemWait, SemSignal, taskVars
  <2>3. ASSUME NEW c \in Cpu,
               \/ Inspect(c) \/ FindQuit(c) \/ FreeStack(c) \/ MarkReady(c) \/ Requeue(c)
               \/ Wake(c) \/ Pick(c) \/ Resume(c) \/ Trap(c)
        PROVE  FALSE
    BY <2>3 DEF Inspect, FindQuit, FreeStack, MarkReady, Requeue, Wake, Pick, Resume, Trap, taskVars
  <2> QED
    BY <2>1, <2>2, <2>3 DEF Next, KernelStep
<1>2. Spec => [][Late]_vars
  BY <1>1, Invariant, PTL DEF Spec
<1> QED
  BY <1>2 DEF FreedOnlyAfterTeardown

\* The task that a flow fills in.
LEMMA FilledIn == ASSUME IInv, NEW f \in Flow, pc[f] = "stack" PROVE It(f) \in Task
<1> USE FlowAssumption, NumberAssumption
<1>1. kid[f] \in Seq(Task) /\ at[f] \in 1 .. Kids /\ N(f) \in Nat
  BY LenProperties DEF IInv, TypeOK, N
<1>2. at[f] \in 1 .. N(f)
  BY <1>1 DEF IInv, FlowInv, Flow, Schedule
<1> QED
  BY <1>1, <1>2, ElementOfSeq DEF It, N

\* A CPU whose handler spins for a lock of the task it has interrupted spins for
\* it for ever: the task is on no other CPU, so nobody gives the lock back.
THEOREM LostForGood == Spec => SpinsForEver
<1>1. IInv /\ [Next]_vars => \A c \in Cpu : SelfSpin(c) => SelfSpin(c)'
  <2> SUFFICES ASSUME IInv, [Next]_vars, NEW c \in Cpu, SelfSpin(c) PROVE SelfSpin(c)'
    OBVIOUS
  <2> DEFINE t == currentTask[c]
  <2> USE FlowAssumption
  <2>1. /\ t \in Task /\ inTrap[c] /\ pc[c] \in {"findQuit", "requeue"}
        /\ pc[c] = "findQuit" => owner["quit"] = t
        /\ pc[c] = "requeue" => owner["tail"] = t /\ state[t] # "BLOCKED"
    BY DEF SelfSpin
  <2>2. \A d \in Cpu \ {c} : currentTask[d] # t
    BY <2>1 DEF IInv, PlaceInv
  \* What is left to show of each step.
  <2>3. ASSUME currentTask'[c] = t, inTrap'[c] = inTrap[c], pc'[c] = pc[c],
               \A l \in Lock : owner[l] = t => owner'[l] = t,
               state'[t] = state[t] \/ state'[t] # "BLOCKED"
        PROVE  SelfSpin(c)'
    BY <2>1, <2>3 DEF SelfSpin, Lock
  <2>4. ASSUME NEW d \in Cpu, NEW f, ClientStep(d, f) PROVE SelfSpin(c)'
    <3>1. f \in Flow /\ f = On(d) /\ f # t
      <4>1. f \in Flow /\ f = On(d)
        BY <2>4 DEF ClientStep, AllocTask, AddAlive, FillIn, NoStack, Enqueue, NoNode,
           DeleteAlive, AddQuit, Query, SemWait, SemSignal, At
      <4> QED
        BY <2>1, <2>2, <4>1 DEF On
    <3>2. f # c
      <4>1. ASSUME f = c PROVE FALSE
        <5>1. /\ pc[f] \in {"findQuit", "requeue"}
              /\ pc[f] = "requeue" => owner["tail"] \notin {Nil, f}
          BY <2>1, <4>1
        <5>2. \/ pc[f] \in Client
              \/ pc[f] = "requeue" /\ owner["tail"] \in {Nil, f}
          <6>1. CASE NoNode(d, f)
            <7>1. PICK s \in {<<"add", "alive">>, <<"enqueue", "tail">>, <<"quit", "quit">>,
                              <<"requeue", "tail">>} :
                       pc[f] = s[1] /\ owner[s[2]] \in {Nil, f}
              BY <6>1 DEF NoNode, At
            <7> QED
              BY <7>1 DEF Client
          <6>2. CASE ~NoNode(d, f)
            BY <2>4, <6>2 DEF ClientStep, AllocTask, AddAlive, FillIn, NoStack, Enqueue,
               DeleteAlive, AddQuit, Query, SemWait, SemSignal, At, Client
          <6> QED
            BY <6>1, <6>2
        <5> QED
          BY <5>1, <5>2 DEF Client
      <4> QED
        BY <4>1
    <3>3. currentTask' = currentTask /\ inTrap' = inTrap
      BY <2>4 DEF ClientStep, AllocTask, AddAlive, FillIn, NoStack, Enqueue, NoNode, DeleteAlive,
         AddQuit, Query, SemWait, SemSignal, cpuVars
    <3>4. \A l \in Lock : owner[l] = t => owner'[l] = t
      <4>1. UNCHANGED owner \/ \E l \in Lock : Section(f, l)
        BY <2>4 DEF ClientStep, AllocTask, AddAlive, FillIn, NoStack, Enqueue, NoNode, DeleteAlive,
           AddQuit, Query, SemWait, SemSignal, lockVars, Lock
      <4> QED
        BY <2>1, <3>1, <4>1 DEF Section, IInv, TypeOK, Flow
    <3>5. pc'[c] = pc[c]
      <4>0. c \in Flow /\ DOMAIN pc = Flow
        BY DEF Flow, IInv, TypeOK
      <4>1. CASE FillIn(d, f)
        <5>1. /\ It(f) \in Task /\ It(f) # c
              /\ pc' = [pc EXCEPT ![f] = "enqueue",
                                  ![It(f)] = IF f \in Cpu THEN "alloc" ELSE "loop"]
          <6>1. pc[f] = "stack" /\ f \in Flow
            BY <4>1 DEF FillIn, At
          <6>2. It(f) \in Task
            BY <6>1, FilledIn
          <6> QED
            BY <4>1, <6>2 DEF FillIn
        <5> QED
          BY <3>2, <4>0, <5>1
      <4>2. CASE ~FillIn(d, f)
        <5>1. pc' = pc \/ \E l : pc' = [pc EXCEPT ![f] = l]
          BY <2>4, <4>2 DEF ClientStep, AllocTask, AddAlive, NoStack, Enqueue, NoNode, DeleteAlive,
             AddQuit, Query, SemWait, SemSignal, Goto, NextKid, flowVars
        <5> QED
          BY <3>2, <4>0, <5>1
      <4> QED
        BY <4>1, <4>2
    <3>6. state'[t] = state[t] \/ state'[t] # "BLOCKED"
      <4>1. \/ state' = state \/ state' = [state EXCEPT ![f] = "BLOCKED"]
            \/ state' = [state EXCEPT ![It(f)] = "READY"]
        BY <2>4 DEF ClientStep, AllocTask, AddAlive, FillIn, NoStack, Enqueue, NoNode, DeleteAlive,
           AddQuit, Query, SemWait, SemSignal, taskVars
      <4> QED
        BY <2>1, <3>1, <4>1 DEF IInv, TypeOK
    <3> QED
      BY <2>1, <2>3, <3>3, <3>4, <3>5, <3>6
  <2>5. ASSUME NEW d \in Cpu, KernelStep(d) PROVE SelfSpin(c)'
    <3>1. d # c
      <4>1. ASSUME d = c PROVE FALSE
        BY <2>1, <2>5, <4>1 DEF KernelStep, Inspect, FindQuit, FreeStack, FreeTask, MarkReady,
           Requeue, Wake, Pick, Resume, At
      <4> QED
        BY <4>1
    <3>2. On(d) = d /\ currentTask[d] # t /\ owner' = owner
      BY <2>2, <2>5, <3>1 DEF KernelStep, Inspect, FindQuit, FreeStack, FreeTask, MarkReady,
         Requeue, Wake, Pick, Resume, At, lockVars
    <3>3. /\ currentTask' = currentTask \/ \E x : currentTask' = [currentTask EXCEPT ![d] = x]
          /\ inTrap' = inTrap \/ \E x : inTrap' = [inTrap EXCEPT ![d] = x]
          /\ state' = state \/ \E x : state' = [state EXCEPT ![currentTask[d]] = x]
      BY <2>5 DEF KernelStep, Inspect, FindQuit, FreeStack, FreeTask, MarkReady,
         Requeue, Wake, Pick, Resume, taskVars, cpuVars
    <3>4. pc'[c] = pc[c]
      <4>0. c \in Flow /\ DOMAIN pc = Flow
        BY DEF Flow, IInv, TypeOK
      <4>1. CASE FreeTask(d)
        <5>1. currentTask[d] \in Task /\ currentTask[d] # c /\ pc' = [pc EXCEPT ![d] = "wake", ![currentTask[d]] = "loop"]
          BY <4>1 DEF FreeTask, At, IInv, CpuInv
        <5> QED
          BY <3>1, <4>0, <5>1
      <4>2. CASE ~FreeTask(d)
        <5>1. \E l : pc' = [pc EXCEPT ![d] = l]
          BY <2>5, <4>2 DEF KernelStep, Inspect, FindQuit, FreeStack, MarkReady,
             Requeue, Wake, Pick, Resume, Goto
        <5> QED
          BY <3>1, <4>0, <5>1
      <4> QED
        BY <4>1, <4>2
    <3> QED
      BY <2>1, <2>3, <3>1, <3>2, <3>3, <3>4 DEF IInv, TypeOK
  <2>6. ASSUME NEW d \in Cpu, Trap(d) PROVE SelfSpin(c)'
    <3>1. d # c /\ currentTask' = currentTask /\ state' = state
          /\ inTrap' = [inTrap EXCEPT ![d] = TRUE] /\ \E l : pc' = [pc EXCEPT ![d] = l]
      BY <2>1, <2>6 DEF Trap, Goto, taskVars
    <3>2. \A l \in Lock : owner[l] = t => owner'[l] = t
      BY <2>1, <2>6 DEF Trap, lockVars, IInv, TypeOK
    <3> QED
      BY <2>1, <2>3, <3>1, <3>2 DEF IInv, TypeOK
  <2>7. CASE UNCHANGED vars
    BY <2>1, <2>3, <2>7 DEF vars, taskVars, cpuVars, flowVars, lockVars
  <2> QED
    BY <2>4, <2>5, <2>6, <2>7 DEF Next
<1>2. Spec => [][\A c \in Cpu : SelfSpin(c) => SelfSpin(c)']_vars
  <2>1. IInv /\ [Next]_vars => [\A c \in Cpu : SelfSpin(c) => SelfSpin(c)']_vars
    BY <1>1
  <2> QED
    BY <2>1, Invariant, PTL DEF Spec
<1> QED
  BY <1>2 DEF SpinsForEver
==============================================================================
