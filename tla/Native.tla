-------------------------------- MODULE Native --------------------------------
(* The abstract machine on Linux (am/src/native).  A processor is a process, *)
(* forked by mpe_init and held at a pipe until the devices are ready.  An    *)
(* interrupt is a signal; interrupts are off while the signals are blocked.  *)
(* The signal handler saves the context it has hit on the kernel stack and   *)
(* lets the process go on in irq_handle, which calls the kernel's handler,   *)
(* moves the user's pages with munmap and mmap, and gets back into the       *)
(* context it is given by a fault at an address of its own.                  *)
(*                                                                           *)
(* Processor i begins in a kernel context named i; a user context is named   *)
(* by its task, whose address space and kernel stack have that name too.     *)
(* The kernel's handler is external: it picks any context that no processor  *)
(* holds, and lets go of one only when the processor has left it.  A page    *)
(* is mapped once, by a processor that is in the address space or while no   *)
(* processor is.                                                             *)
EXTENDS Integers, FiniteSets

CONSTANTS
  NCpu,      \* smp
  Task,      \* user tasks
  Va, Pa,    \* pages of user space and of physical memory
  KeyLen,    \* KEY_QUEUE_LEN
  MaxKeys,   \* bound: keys that are pressed
  None

ASSUME NativeAssumption ==
  /\ NCpu \in Nat \ {0} /\ KeyLen \in Nat \ {0, 1} /\ MaxKeys \in Nat
  /\ None \notin Task \cup {"text", "lib", "user"}
  /\ Task \cap (0..(NCpu - 1)) = {}

Cpu == 0..(NCpu - 1)
Context == Cpu \cup Task

VARIABLES
  stage,     \* where a process is between fork and iret
  thiscpu,   \* the private structure: cpuid, vm_head, ksp, ev
  on,        \* the context that runs, and the one that irq_handle was given
  rip,       \* in the program or behind the system call of sigprocmask ("text"),
             \* in a library ("lib") or in user space ("user")
  blocked,   \* are SIGVTALRM and SIGUSR1 blocked?
  pending,   \* the signals that wait
  cause,     \* why the process is in irq_handle
  ctx,       \* the saved contexts, and who holds them
  pages,     \* the list of an address space
  mm,        \* what a process has mapped in user space
  pipe,      \* the bytes in sync_pipe
  devices,   \* how often the devices have been initialised
  thread,    \* what the event thread does next
  queue      \* the key queue: its cells, both ends, keys pressed and read

trapVars == <<thiscpu, on, rip, blocked, pending, cause, ctx>>
vmVars == <<pages, mm>>
bootVars == <<pipe, devices>>
keyVars == <<thread, queue>>
vars == <<stage, trapVars, vmVars, bootVars, keyVars>>

-----------------------------------------------------------------------------
(* mpe_init                                                                  *)

\* The private structure of a new process.
Private == [cpuid |-> 0, head |-> None, ksp |-> None, ev |-> "NULL"]

\* main has called ioe_init, which only makes a note, and cte_init; the signals
\* have been blocked since init_platform.
Init ==
  /\ stage = [c \in Cpu |-> IF c = 0 THEN "fork" ELSE "none"]
  /\ thiscpu = [c \in Cpu |-> Private]
  /\ on = [c \in Cpu |-> [run |-> c, next |-> c]]
  /\ rip = [c \in Cpu |-> "text"]
  /\ blocked = [c \in Cpu |-> TRUE]
  /\ pending = [c \in Cpu |-> {}]
  /\ cause = [c \in Cpu |-> "NULL"]
  /\ ctx = [x \in Context |-> [held |-> x \in Cpu, rip |-> None, blocked |-> TRUE,
                               head |-> None, ksp |-> None]]
  /\ pages = [t \in Task |-> {}]
  /\ mm = [c \in Cpu |-> {}]
  /\ pipe = 0 /\ devices = 0
  /\ thread = "none"
  /\ queue = [cells |-> [i \in 0..(KeyLen - 1) |-> 0], f |-> 0, r |-> 0,
              pressed |-> 0, read |-> 0, full |-> FALSE]

Children == {c \in Cpu : stage[c] # "none"} \ {0}

\* One fork; the child has a copy of everything private, and no timer.
Fork ==
  /\ stage[0] = "fork" /\ Cardinality(Children) < NCpu - 1
  /\ LET c == Cardinality(Children) + 1
     IN /\ stage' = [stage EXCEPT ![c] = "child"]
        /\ thiscpu' = [thiscpu EXCEPT ![c] = thiscpu[0]]
  /\ UNCHANGED <<on, rip, blocked, pending, cause, ctx, vmVars, bootVars, keyVars>>

\* __am_ioe_init, which starts the event thread.
Devices ==
  /\ stage[0] = "fork" /\ Cardinality(Children) = NCpu - 1
  /\ devices' = devices + 1
  /\ thread' = "wait"
  /\ stage' = [stage EXCEPT ![0] = "release"]
  /\ UNCHANGED <<trapVars, vmVars, pipe, queue>>

\* A byte for each child, and the entry.
Release ==
  /\ stage[0] = "release"
  /\ pipe' = pipe + NCpu - 1
  /\ stage' = [stage EXCEPT ![0] = "run"]
  /\ UNCHANGED <<trapVars, vmVars, devices, keyVars>>

\* A child reads its byte, learns its number and starts its timer.
Child(c) ==
  /\ stage[c] = "child" /\ pipe > 0
  /\ pipe' = pipe - 1
  /\ thiscpu' = [thiscpu EXCEPT ![c].cpuid = c]
  /\ stage' = [stage EXCEPT ![c] = "run"]
  /\ UNCHANGED <<on, rip, blocked, pending, cause, ctx, vmVars, devices, keyVars>>

-----------------------------------------------------------------------------
(* The kernel's own code, between traps                                      *)

Runs(c, place) == stage[c] = "run" /\ rip[c] = place

\* The code calls a library and comes back.
Work(c) ==
  /\ stage[c] = "run" /\ rip[c] # "user"
  /\ rip' = [rip EXCEPT ![c] = IF @ = "text" THEN "lib" ELSE "text"]
  /\ UNCHANGED <<stage, thiscpu, on, blocked, pending, cause, ctx, vmVars, bootVars, keyVars>>

\* iset
Iset(c, enable) ==
  /\ Runs(c, "text") /\ blocked[c] = enable
  /\ blocked' = [blocked EXCEPT ![c] = ~enable]
  /\ UNCHANGED <<stage, thiscpu, on, rip, pending, cause, ctx, vmVars, bootVars, keyVars>>

\* ucontext: interrupts are enabled, and the kernel stack is empty.
UContext(t) == [held |-> FALSE, rip |-> "user", blocked |-> FALSE, head |-> t, ksp |-> t]

\* protect, and ucontext for the space.
Create(c, t) ==
  /\ Runs(c, "text") /\ ctx[t].rip = None
  /\ ctx' = [ctx EXCEPT ![t] = UContext(t)]
  /\ UNCHANGED <<stage, thiscpu, on, rip, blocked, pending, cause, vmVars, bootVars, keyVars>>

\* map, by the kernel or by its handler: the page goes to the head of the list,
\* and into the process at once if it is in this address space.
Map(c, t, va, pa) ==
  /\ Runs(c, "text") \/ stage[c] = "handler"
  /\ ctx[t].rip # None
  /\ \A d \in Cpu \ {c} : t \notin {thiscpu[d].head, ctx[on[d].next].head}
  /\ \A p \in pages[t] : p.va # va
  /\ LET now == thiscpu[c].head = t
     IN /\ pages' = [pages EXCEPT ![t] = @ \cup {[va |-> va, pa |-> pa, is_mapped |-> now]}]
        /\ mm' = IF now THEN [mm EXCEPT ![c] = @ \cup {<<va, pa>>}] ELSE mm
  /\ UNCHANGED <<stage, trapVars, bootVars, keyVars>>

-----------------------------------------------------------------------------
(* Signals                                                                   *)

\* The timer of a process that has one.
Timer(c) ==
  /\ stage[c] \notin {"none", "child"} /\ "IRQ_TIMER" \notin pending[c]
  /\ pending' = [pending EXCEPT ![c] = @ \cup {"IRQ_TIMER"}]
  /\ UNCHANGED <<stage, thiscpu, on, rip, blocked, cause, ctx, vmVars, bootVars, keyVars>>

\* setup_stack refuses an interrupt in a library, which may not be entered
\* again, and pretends to have missed it.
SignalSafe(c) == rip[c] # "lib"

\* sig_handler and the rest of setup_stack: the context is saved, the signals
\* are blocked in the context that the process goes on with.
SetupStack(c, event) ==
  /\ thiscpu' = [thiscpu EXCEPT ![c].ev = event]
  /\ ctx' = [ctx EXCEPT ![on[c].run].rip = rip[c], ![on[c].run].blocked = blocked[c]]
  /\ blocked' = [blocked EXCEPT ![c] = TRUE]
  /\ cause' = [cause EXCEPT ![c] = event]
  /\ stage' = [stage EXCEPT ![c] = "irq"]

\* A signal that waits is delivered; it may be refused, but ev is written.
Interrupt(c, event) ==
  /\ stage[c] \in {"run", "irq"} /\ event \in pending[c] /\ ~blocked[c]
  /\ pending' = [pending EXCEPT ![c] = @ \ {event}]
  /\ IF SignalSafe(c)
       THEN SetupStack(c, event)
       ELSE /\ thiscpu' = [thiscpu EXCEPT ![c].ev = event]
            /\ UNCHANGED <<stage, blocked, cause, ctx>>
  /\ UNCHANGED <<on, rip, vmVars, bootVars, keyVars>>

\* yield raises SIGUSR2, which is never blocked and never refused.
Yield(c) ==
  /\ Runs(c, "lib") /\ SetupStack(c, "YIELD")
  /\ UNCHANGED <<on, rip, pending, vmVars, bootVars, keyVars>>

\* A system call is an access to the trap page; a page fault is an access to
\* user space that is not mapped.
UserTrap(c, event) ==
  /\ Runs(c, "user") /\ SetupStack(c, event)
  /\ event = "PAGEFAULT" => \E va \in Va : \A p \in mm[c] : p[1] # va
  /\ UNCHANGED <<on, rip, pending, vmVars, bootVars, keyVars>>

\* irq_handle, up to the call of the kernel's handler.
IrqHandle(c) ==
  /\ stage[c] = "irq"
  /\ ctx' = [ctx EXCEPT ![on[c].run].head = thiscpu[c].head,
                        ![on[c].run].ksp = thiscpu[c].ksp]
  /\ stage' = [stage EXCEPT ![c] = "handler"]
  /\ UNCHANGED <<thiscpu, on, rip, blocked, pending, cause, vmVars, bootVars, keyVars>>

\* The handler returns a context: this one or one that nobody holds.
Schedule(c) ==
  /\ stage[c] = "handler"
  /\ \E x \in Context :
       /\ x = on[c].run \/ (~ctx[x].held /\ ctx[x].rip # None)
       /\ ctx' = [ctx EXCEPT ![x].held = TRUE]
       /\ on' = [on EXCEPT ![c].next = x]
  /\ stage' = [stage EXCEPT ![c] = "switch"]
  /\ UNCHANGED <<thiscpu, rip, blocked, pending, cause, vmVars, bootVars, keyVars>>

\* __am_switch: the pages of the address space that is left are unmapped, as
\* far as the list says that they are mapped, and those of the other mapped.
Switch(c) ==
  /\ stage[c] = "switch"
  /\ LET now == thiscpu[c].head  head == ctx[on[c].next].head
         gone == IF now = None THEN {} ELSE {<<p.va, p.pa>> : p \in {q \in pages[now] : q.is_mapped}}
         come == IF head = None THEN {} ELSE {<<p.va, p.pa>> : p \in pages[head]}
         Flagged(t, b) == {[p EXCEPT !.is_mapped = b] : p \in pages[t]}
     IN /\ thiscpu' = [thiscpu EXCEPT ![c].head = head]
        /\ IF head = now THEN UNCHANGED vmVars
           ELSE /\ mm' = [mm EXCEPT ![c] = (@ \ gone) \cup come]
                /\ pages' = [t \in Task |-> CASE t = now -> Flagged(t, FALSE)
                                              [] t = head -> Flagged(t, TRUE)
                                              [] OTHER -> pages[t]]
  /\ stage' = [stage EXCEPT ![c] = "iret"]
  /\ UNCHANGED <<on, rip, blocked, pending, cause, ctx, bootVars, keyVars>>

\* A variant for checking the properties: the kernel stack stays.
IretKeepsStack(c) ==
  /\ stage[c] = "iret"
  /\ LET x == on[c].next
     IN /\ rip' = [rip EXCEPT ![c] = ctx[x].rip]
        /\ blocked' = [blocked EXCEPT ![c] = ctx[x].blocked]
        /\ on' = [on EXCEPT ![c].run = x]
        /\ ctx' = [y \in Context |-> IF y = on[c].run /\ y # x
                                       THEN [ctx[y] EXCEPT !.held = FALSE] ELSE ctx[y]]
  /\ stage' = [stage EXCEPT ![c] = "run"]
  /\ UNCHANGED <<thiscpu, pending, cause, vmVars, bootVars, keyVars>>

\* The call of 0x100008 faults, and iret puts the saved context in place.
Iret(c) ==
  /\ stage[c] = "iret"
  /\ LET x == on[c].next
     IN /\ rip' = [rip EXCEPT ![c] = ctx[x].rip]
        /\ blocked' = [blocked EXCEPT ![c] = ctx[x].blocked]
        /\ thiscpu' = [thiscpu EXCEPT ![c].ksp = ctx[x].ksp]
        /\ on' = [on EXCEPT ![c].run = x]
        /\ ctx' = [y \in Context |-> IF y = on[c].run /\ y # x
                                       THEN [ctx[y] EXCEPT !.held = FALSE] ELSE ctx[y]]
  /\ stage' = [stage EXCEPT ![c] = "run"]
  /\ UNCHANGED <<pending, cause, vmVars, bootVars, keyVars>>

-----------------------------------------------------------------------------
(* The keyboard: a thread of the first process                               *)

\* event_thread puts a key into the queue.
Press ==
  /\ thread = "wait" /\ queue.pressed < MaxKeys
  /\ LET r == (queue.r + 1) % KeyLen
     IN queue' = [queue EXCEPT !.cells[queue.r] = queue.pressed + 1, !.r = r,
                               !.pressed = @ + 1, !.full = @ \/ r = queue.f]
  /\ thread' = "send"
  /\ UNCHANGED <<stage, trapVars, vmVars, bootVars>>

\* __am_send_kbd_intr
SendKbdIntr ==
  /\ thread = "send"
  /\ thread' = "wait"
  /\ pending' = [pending EXCEPT ![0] = @ \cup {"IRQ_IODEV"}]
  /\ UNCHANGED <<stage, thiscpu, on, rip, blocked, cause, ctx, vmVars, bootVars, queue>>

\* do_io and __am_input_keybrd, by the processor whose memory has the mutex and
\* the queue.
InputKeybrd ==
  /\ Runs(0, "text") \/ stage[0] = "handler"
  /\ queue.f # queue.r
  /\ queue' = [queue EXCEPT !.f = (queue.f + 1) % KeyLen, !.read = queue.cells[queue.f]]
  /\ UNCHANGED <<stage, trapVars, vmVars, bootVars, thread>>

-----------------------------------------------------------------------------
Step(c) ==
  \/ Child(c) \/ Work(c) \/ (\E enable \in BOOLEAN : Iset(c, enable))
  \/ (\E t \in Task : Create(c, t) \/ \E va \in Va, pa \in Pa : Map(c, t, va, pa))
  \/ Timer(c) \/ (\E e \in {"IRQ_TIMER", "IRQ_IODEV"} : Interrupt(c, e))
  \/ Yield(c) \/ (\E e \in {"SYSCALL", "PAGEFAULT"} : UserTrap(c, e))
  \/ IrqHandle(c) \/ Schedule(c) \/ Switch(c) \/ Iret(c)

Next ==
  \/ Fork \/ Devices \/ Release \/ (\E c \in Cpu : Step(c))
  \/ Press \/ SendKbdIntr \/ InputKeybrd

Spec == Init /\ [][Next]_vars

-----------------------------------------------------------------------------
(* Properties                                                                *)

\* The kernel's handler is given the event that has hit the context it is
\* given: nothing writes thiscpu->ev between the signal and irq_handle, which
\* reads it after the signal handler has returned.
EventRight == \A c \in Cpu : stage[c] \in {"irq", "handler"} => thiscpu[c].ev = cause[c]

\* A process has mapped in user space exactly the pages of the address space
\* it runs in, and the shared flags of the lists say so, through migrations of
\* a task from one process to another.
MappedRight ==
  \A c \in Cpu :
    mm[c] = IF thiscpu[c].head = None THEN {}
            ELSE {<<p.va, p.pa>> : p \in pages[thiscpu[c].head]}

\* A trap out of user space is taken on the kernel stack of the task that runs,
\* in its address space.
KernelStackRight ==
  \A c \in Cpu :
    Runs(c, "user") => thiscpu[c].ksp = on[c].run /\ thiscpu[c].head = on[c].run

\* No processor runs the kernel before the devices are there, and with the
\* number of another; they are initialised once.
StartedRight ==
  /\ devices <= 1
  /\ \A c \in Cpu : stage[c] \notin {"none", "child", "fork", "release"} =>
                      devices = 1 /\ thiscpu[c].cpuid = c

\* Keys are read in the order they were pressed, and none is left out until
\* more have waited than the queue holds.
KeysInOrder ==
  LET waiting == (queue.r - queue.f + KeyLen) % KeyLen
  IN /\ \A i \in 0..(waiting - 1) :
          queue.cells[(queue.f + i) % KeyLen] = queue.pressed - waiting + 1 + i
     /\ ~queue.full => queue.read + waiting = queue.pressed

NativeSafe ==
  EventRight /\ MappedRight /\ KernelStackRight /\ StartedRight /\ KeysInOrder
=============================================================================
