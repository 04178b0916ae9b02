---------------------------------- MODULE Cte ---------------------------------
(***************************************************************************)
(* Traps and contexts of x86-qemu (cte.c, trap64.S, the IRQS table of      *)
(* x86.h, and ucontext in vme.c).  The gates of cte_init are trap gates:   *)
(* they leave the interrupt flag as it is, and the first instruction of a  *)
(* stub (__am_irqN) is cli.  In between, in a trap that was not itself an  *)
(* interrupt, the timer may come in on top of the trap, and the kernel may *)
(* continue the interrupted stub on another processor.  The stub completes *)
(* the saved context, the handler of the kernel returns the context to     *)
(* continue, and __am_iret continues it.                                   *)
(*                                                                         *)
(* The kernel is one that schedules as os_trap and kmt_schedule of lab2    *)
(* do: on a timer interrupt or a yield it makes the task it interrupted    *)
(* ready and takes another, on any other event it returns the context it   *)
(* got.  Processors are in the program (Boot).  A flow of control is a     *)
(* task or, before a processor has taken its first task and when it has    *)
(* none, the flow in which the processor called user_entry.  A flow stands *)
(* for its kernel stack too, and for a user task also for its own space.   *)
(***************************************************************************)
EXTENDS Naturals, Sequences, FiniteSets

CONSTANTS Cpu, Boss,     \* the processors, and the one with the devices
          Kernel, User,  \* kernel tasks and user tasks
          Exception,     \* vectors a program may raise
          Pml4,          \* PML4_ADDR, the space that start64.S builds
          None           \* 0

ASSUME CteAssumption == /\ Boss \in Cpu
                        /\ Cpu \cap (Kernel \cup User) = {}
                        /\ Kernel \cap User = {}
                        /\ {None, Pml4} \cap (Cpu \cup Kernel \cup User) = {}
                        /\ None # Pml4
                        /\ Exception \subseteq 0 .. 255

Task == Kernel \cup User
Flow == Cpu \cup Task

VARIABLES cur,        \* the flow on whose stack a processor executes
          where,      \* in the program, in the stub before or after its cli,
                      \* or past the kernel's handler
          ret,        \* there: the flow whose context was returned; else unused
          iflag,      \* the interrupt flag
          cr3, rsp0,  \* the address space and the kernel stack in the TSS
          cr2,        \* whose access faulted last
          inService,  \* an interrupt is not acknowledged
          frames,     \* the trap frames on the stack of each flow
          ready,      \* tasks that the kernel may continue
          unanswered, \* history: traps of a flow the kernel has not heard of
          shaken      \* history: an interrupt came in on top of its trap

regs == <<iflag, cr3, rsp0, cr2, inService>>
vars == <<cur, where, ret, regs, frames, ready, unanswered, shaken>>

Space == User \cup {Pml4, None}
Vector == 0 .. 255
Frame == [at : {"program", "gate"}, vec : Vector, iflag : BOOLEAN,
          cr3 : Space, rsp0 : User \cup {None}]

TypeOK == /\ cur \in [Cpu -> Flow]
          /\ where \in [Cpu -> {"program", "gate", "stub", "iret"}]
          /\ ret \in [Cpu -> Flow]
          /\ iflag \in [Cpu -> BOOLEAN]
          /\ cr3 \in [Cpu -> Space \ {None}]
          /\ rsp0 \in [Cpu -> User \cup {None}]
          /\ cr2 \in [Cpu -> Flow \cup {None}]
          /\ inService \in [Cpu -> BOOLEAN]
          /\ \A f \in Flow : Len(frames[f]) <= 2
          /\ \A f \in Flow : \A i \in DOMAIN frames[f] : frames[f][i] \in Frame
          /\ ready \in SUBSET Task
          /\ unanswered \in [Flow -> Nat]
          /\ shaken \in SUBSET Flow

KContext(t) == [at |-> "program", vec |-> 0, iflag |-> TRUE, cr3 |-> None, rsp0 |-> None]
UContext(t) == [at |-> "program", vec |-> 0, iflag |-> TRUE, cr3 |-> t, rsp0 |-> t]

\* Every processor has called user_entry, the handler is set and the tasks are
\* created.
Init == /\ cur = [c \in Cpu |-> c]
        /\ where = [c \in Cpu |-> "program"]
        /\ ret = [c \in Cpu |-> c]
        /\ iflag = [c \in Cpu |-> FALSE]
        /\ cr3 = [c \in Cpu |-> Pml4]
        /\ rsp0 = [c \in Cpu |-> None]
        /\ cr2 = [c \in Cpu |-> None]
        /\ inService = [c \in Cpu |-> FALSE]
        /\ frames = [f \in Flow |-> IF f \in Cpu THEN <<>>
                                    ELSE <<IF f \in User THEN UContext(f) ELSE KContext(f)>>]
        /\ ready = Task
        /\ unanswered = [f \in Flow |-> 0]
        /\ shaken = {}
------------------------------------------------------------------------------
(* Into the stub                                                          *)

\* The processor pushes a frame and goes through the gate; the fields that
\* __am_irq_handle fills in are not yet written.
Push(c, v) == LET f == [at |-> where[c], vec |-> v, iflag |-> iflag[c],
                        cr3 |-> None, rsp0 |-> None]
              IN /\ frames' = [frames EXCEPT ![cur[c]] = Append(@, f)]
                 /\ where' = [where EXCEPT ![c] = "gate"]
                 /\ unanswered' = [unanswered EXCEPT ![cur[c]] = @ + 1]

\* The timer of each processor, and the keyboard, whose interrupts
\* __am_percpu_initirq sends to processor 0.  Both are of one priority: the
\* second waits until the first is acknowledged.
Interrupt(c, v) == /\ v = 33 => c = Boss
                   /\ iflag[c] /\ ~inService[c] /\ where[c] \in {"program", "gate"}
                   /\ Push(c, v)
                   /\ inService' = [inService EXCEPT ![c] = TRUE]
                   /\ shaken' = IF where[c] = "gate" THEN shaken \cup {cur[c]} ELSE shaken
                   /\ UNCHANGED <<cur, ret, iflag, cr3, rsp0, cr2, ready>>

\* A system call, a yield, an error, or a page fault of a user task, which
\* leaves the address in cr2.
Raise(c, v) == /\ where[c] = "program" /\ (v = 14 => cur[c] \in User)
               /\ Push(c, v)
               /\ cr2' = IF v = 14 THEN [cr2 EXCEPT ![c] = cur[c]] ELSE cr2
               /\ UNCHANGED <<cur, ret, iflag, cr3, rsp0, inService, ready, shaken>>

\* iset(true), with which the code of the kernel begins (that kernel tasks also
\* mask interrupts is the subject of SpinLock).
Iset(c) == /\ where[c] = "program" /\ cur[c] \notin User
           /\ iflag' = [iflag EXCEPT ![c] = TRUE]
           /\ UNCHANGED <<cur, where, ret, cr3, rsp0, cr2, inService, frames,
                          ready, unanswered, shaken>>

Cli(c) == /\ where[c] = "gate"
          /\ where' = [where EXCEPT ![c] = "stub"]
          /\ iflag' = [iflag EXCEPT ![c] = FALSE]
          /\ UNCHANGED <<cur, ret, cr3, rsp0, cr2, inService, frames, ready,
                         unanswered, shaken>>
------------------------------------------------------------------------------
(* __am_irq_handle                                                        *)

EventOf(v) == CASE v = 32         -> "IRQ_TIMER"
                [] v \in {33, 36} -> "IRQ_IODEV"
                [] v = 128        -> "SYSCALL"
                [] v = 129        -> "YIELD"
                [] v = 14         -> "PAGEFAULT"
                [] OTHER          -> "ERROR"

Top(f) == Len(frames[f])
VectorOf(c) == frames[cur[c]][Top(cur[c])].vec

Acked(c) == 32 <= VectorOf(c) /\ VectorOf(c) < 64

\* What the kernel may return to processor c; the flow in which another one
\* came in is not among it.
Switches(c) == EventOf(VectorOf(c)) \in {"IRQ_TIMER", "YIELD"}
Able(c)     == ready \cup ({cur[c]} \cap Task)
Choice(c)   == IF Switches(c) THEN Able(c) \cup {c} ELSE {cur[c]}

\* The frame as a context: with the address space and the kernel stack.  Its
\* vector is not used again.
Completed(x, space, stack) == [at |-> x.at, vec |-> 0, iflag |-> x.iflag,
                               cr3 |-> space, rsp0 |-> stack]

\* The context is completed and acknowledged before the kernel hears of it.
Handle(c, f) ==
    LET s == cur[c]
    IN /\ where[c] = "stub" /\ f \in Choice(c)
       /\ frames' = [frames EXCEPT ![s][Top(s)] = Completed(@, cr3[c], rsp0[c])]
       /\ inService' = [inService EXCEPT ![c] = @ /\ ~Acked(c)]
       /\ unanswered' = [unanswered EXCEPT ![s] = @ - 1]
       /\ ready' = IF Switches(c) THEN Able(c) \ {f} ELSE ready
       /\ ret' = [ret EXCEPT ![c] = f]
       /\ where' = [where EXCEPT ![c] = "iret"]
       /\ shaken' = IF frames[s][Top(s)].at = "gate" THEN shaken ELSE shaken \ {s}
       /\ UNCHANGED <<cur, iflag, cr3, rsp0, cr2>>

\* Variant: the kernel stack in the TSS is left alone.
IretSpaceOnly(c) ==
    LET f == ret[c] x == frames[f][Top(f)]
    IN /\ where[c] = "iret"
       /\ cr3' = IF x.cr3 = None THEN cr3 ELSE [cr3 EXCEPT ![c] = x.cr3]
       /\ frames' = [frames EXCEPT ![f] = SubSeq(@, 1, Top(f) - 1)]
       /\ cur' = [cur EXCEPT ![c] = f]
       /\ where' = [where EXCEPT ![c] = x.at]
       /\ iflag' = [iflag EXCEPT ![c] = x.iflag]
       /\ ret' = [ret EXCEPT ![c] = c]
       /\ UNCHANGED <<rsp0, cr2, inService, ready, unanswered, shaken>>

\* A context of kcontext has no address space: it continues in the one that is
\* loaded.
Iret(c) ==
    LET f == ret[c] x == frames[f][Top(f)]
    IN /\ where[c] = "iret"
       /\ cr3' = IF x.cr3 = None THEN cr3 ELSE [cr3 EXCEPT ![c] = x.cr3]
       /\ rsp0' = IF x.cr3 = None THEN rsp0 ELSE [rsp0 EXCEPT ![c] = x.rsp0]
       /\ frames' = [frames EXCEPT ![f] = SubSeq(@, 1, Top(f) - 1)]
       /\ cur' = [cur EXCEPT ![c] = f]
       /\ where' = [where EXCEPT ![c] = x.at]
       /\ iflag' = [iflag EXCEPT ![c] = x.iflag]
       /\ ret' = [ret EXCEPT ![c] = c]
       /\ UNCHANGED <<cr2, inService, ready, unanswered, shaken>>

Next == \E c \in Cpu : \/ Cli(c) \/ Iret(c) \/ Iset(c)
                       \/ \E f \in Flow : Handle(c, f)
                       \/ \E v \in {32, 33} : Interrupt(c, v)
                       \/ \E v \in Exception : Raise(c, v)

Spec == Init /\ [][Next]_vars
------------------------------------------------------------------------------
(* A user task runs in its own space with its own kernel stack in the TSS, *)
(* whatever ran on the processor before, and its first trap frame is the   *)
(* only one on that stack.                                                 *)
UserReady == \A c \in Cpu : where[c] = "program" /\ cur[c] \in User =>
    cr3[c] = cur[c] /\ rsp0[c] = cur[c] /\ frames[cur[c]] = <<>> /\ iflag[c]

(* A flow continues behind a trap only after the kernel has heard of this  *)
(* trap, also when the stub was interrupted and continued elsewhere.       *)
TrapsAnswered == \A c \in Cpu : where[c] = "program" => unanswered[cur[c]] = 0

(* Two processors are on one kernel stack only while one of them is on its *)
(* way from the kernel's handler to iret; and no task that is ready runs   *)
(* on a processor that is not on that way.                                 *)
StacksApart == \A c, d \in Cpu :
    /\ c # d /\ cur[c] = cur[d] => "iret" \in {where[c], where[d]}
    /\ c # d /\ where[c] = "iret" /\ where[d] = "iret" => ret[c] # ret[d]
    /\ cur[c] \in ready => where[c] = "iret"

(* The page fault that the kernel hears of is the one that happened, if no *)
(* interrupt came in on top of it.                                         *)
FaultKnown == \A c \in Cpu :
    where[c] = "stub" /\ VectorOf(c) = 14 /\ cur[c] \notin shaken => cr2[c] = cur[c]

(* An interrupt is acknowledged on the processor it came to, before this   *)
(* processor continues any flow: the next one can come.                    *)
Acknowledged == \A c \in Cpu : inService[c] => where[c] \in {"gate", "stub"}

CteSafe == TypeOK /\ UserReady /\ TrapsAnswered /\ StacksApart /\ FaultKnown
           /\ Acknowledged

(* am.h:23: an event of type @event, caused by @cause of pointer @ref.  For *)
(* a page fault, ref is read from cr2 when the stub has got there.          *)
FaultAddress == \A c \in Cpu :
    where[c] = "stub" /\ VectorOf(c) = 14 => cr2[c] = cur[c]
==============================================================================
