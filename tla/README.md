# A verification development for the NJU OS labs

TLA+ modules, TLC configurations and TLAPS proofs for the code under
`src/NJU-OS`: the kernels of lab1 and lab2 (`dir/lab1`, `dir/lab2`), the
abstract machine below them on x86 under QEMU and on Linux
(`am/src/x86/qemu`, `am/src/native`), klib, and the programs lab0 and sperf.
File names below are relative to `src/NJU-OS`; `kmt.c`, `pmm.c`, `mempool.c`,
`os.c`, `test.c` without a directory are those of `dir/lab2/src`, and `cte.c`,
`mpe.c`, `vme.c`, `ioe.c`, `trm.c` those of `am/src/x86/qemu`.

- [The system](#the-system): components, state, operations, interactions
- [The modules](#the-modules): which module models which code, and how
- [The runs](#the-runs): what TLC checks, with which bounds
- [The proofs](#the-proofs): what TLAPS proves and how
- [Abstractions](#abstractions-and-what-is-not-modelled)
- [Disagreements found](#disagreements-found)
- [Plan](#plan)

## The system

A teaching kernel for several processors on the *abstract machine* (AM), a thin
layer over x86 under QEMU (and other machines, and Linux processes), plus
programs from the same course. Every CPU runs the same kernel in one address
space.

| component | code | state it keeps | operations |
|---|---|---|---|
| Spin locks, interrupt masking | `kmt.c` 60-125, 419-426, `include/common.h` | per lock `state`, `cpu`; per CPU `struct CPU` with `istate`, `ownedLockNum`, and the stack `cpushot` of copies of it | `kmt_spin_init`, `kmt_spin_lock`, `kmt_spin_unlock`, `cpu_restore_context` |
| Task queues | `kmt.c` 251-323, `include/kmt.h` | linked list with a dummy node, `headNode`, `tailNode`, a lock for each end | `tasks_init`, `tasks_enqueue`, `tasks_dequeue` |
| Record lists | `kmt.c` 325-407 | `aliveTasks`, `quitTasks`: linked lists with one lock | `recordTasks_add`, `_delete`, `_query` |
| Thread manager | `kmt.c` 127-249, 409-532 | the tasks (state, entry, stack, context), `readyTasks`, `blockedTasks`, `currentTask` of each CPU, semaphores | `kmt_init`, `kmt_create`, `kmt_teardown`, `kmt_sem_*`, `kmt_context_save`, `kmt_schedule` |
| Kernel entry | `os.c` | the table of trap handlers, called in its order | `os_init`, `os_run`, `os_trap`, `os_on_irq` |
| Test program | `test.c` | the tasks it has made | `task1`, `subtask1`, `subtask2` |
| Physical memory | `pmm.c`, `mempool.c`, `include/mempool.h` | one `pagenode_t` per page of the heap, a pool of pages per CPU (`cpumempool_t`), the server of free pages (`memserver_t`), a lock for each | `pmm_init`, `kalloc`, `kfree`, `cpumempool_delivery`, `_receive`, `memserver_delivery`, `_receive` |
| Physical memory, lab1 | `dir/lab1` | the same (`control.c` is `mempool.c` but for two lines), and a program in two builds, of which one allocates and frees at random and prints a trace | as above, `os_run` |
| Traps and contexts | `am/src/x86/qemu/cte.c`, `trap64.S` | saved contexts, per CPU `cr2`, `cr3` and the TSS | the gates and stubs, `__am_irq_handle`, `__am_iret`, `kcontext`, `iset`, `yield` |
| Boot and stop | `am/src/x86/qemu/boot`, `mpe.c`, `trm.c`, `start64.S` | the boot record with `is_ap` and `jmp_code`, `ap_ready`, the kernel loaded into memory, a local APIC per CPU | `load_kernel`, `mpe_init`, `halt` |
| Virtual memory | `am/src/x86/qemu/vme.c` | page tables | `vme_init`, `protect`, `unprotect`, `map`, `ucontext` |
| Devices | `am/src/x86/qemu/ioe.c` | ports of the clock, the disk and the keyboard, the frame buffer | `estimate_freq`, `timer_rtc`, `disk_blkio`, `gpu_fbdraw`, `input_keybrd` |
| AM on Linux | `am/src/native` | processes for CPUs, blocked signals for masked interrupts, lists of pages for address spaces, a key queue filled by a thread | `mpe_init`, `sig_handler`, `irq_handle`, `__am_switch`, `map`, `iset` |
| AM elsewhere | `am/src/x86/nemu`, `mips`, `riscv`, `loongarch`, `platform` | | mostly stubs |
| klib | `klib/src`, `am/src/riscv/npc/libgcc` | none (`rand`'s seed) | strings, formatting, arithmetic on double words |
| sperf | `dir/M3/sperf.c` | a sorted list of system calls, a pipe to `strace`, a thread that copies it to a file | `record`, `receiver`, `parent`, `printmap`, `child` |
| lab0 | `dir/lab0/src/lab0.c`, `dir/lab0/include` | the position and speed of the ball, frames | `print`, `ball`, `read_keyboard` |
| Trace checker | `dir/testforlab1` | a list of the objects it knows | `insert_node`, `delete_node`: reads lab1's output, looks for overlaps |

**Interactions.** A device or the timer interrupts a CPU between any two
instructions while its interrupts are on; `os_trap` first calls
`kmt_context_save`, then the handlers of the event, and at last `kmt_schedule`,
whose context the CPU continues. `kmt_schedule` and `kmt_create` use the task
queues and record lists; those use spin locks, and `pmm` for their nodes;
`kmt_create` takes tasks and stacks from `pmm` and `kmt_schedule` gives them
back. `pmm` uses spin locks of its own kind with interrupts off. All CPUs share
all of it: no call is sent as a message, everything meets in memory. Below the
kernel, `load_kernel` and `mpe_init` bring every CPU into `os_run`; `cte.c` turns
an interrupt into a call of `os_trap` and its result into the context the CPU
continues, whose address space is one of `vme.c`. On Linux the same interface is
processes that share memory, signals, and pages moved by `munmap` and `mmap`.
lab0 runs on one CPU and polls the devices; sperf is a Linux program of two
threads and a child.

**What is hard.** Locks are taken *before* interrupts are masked, so that a task
can be preempted in the middle of `kmt_spin_lock` and go on on another CPU; two
ends of a queue work at the same time on one list, whose dummy node is freed
while both ends may point at it; a task is torn down by one CPU while another
runs it, and its address is used again; the scheduler makes a task available to
other CPUs while its own CPU still stands on that task's stack; free pages are
split and joined at addresses that must be aligned, by CPUs that look into each
other's pools. The abstract machine adds: CPUs that start on one stack with one
boot record; a trap whose gate leaves interrupts on, so that it can be
interrupted, moved and finished elsewhere; page tables that change while others
walk them and share an allocator; a clock read one register at a time while it
ticks; signals that arrive between any two steps.

**What makes each part correct.**

- Spin locks: at most one owner, wherever flows are interrupted and continued;
  the checks of `kmt_spin_unlock` never stop the machine; whoever owns a lock is
  executing and the interrupt flag comes back as it was, as long as no interrupt
  comes between the exchange that takes a lock and the masking of interrupts. After
  one, a CPU may spin for ever (finding 1).
- Task queues: a first-in first-out queue although both ends work at once; no
  access to a freed node.
- Thread manager: a task is in one place, never lost and never run twice at a
  time; it is freed only after it was torn down, and then nothing refers to it;
  every ready task gets a CPU, and every task torn down is freed, unless a task is
  interrupted in `kmt_spin_lock` before it has masked interrupts.
- Physical memory: objects never overlap and are aligned to their size; every
  page is in one list; free blocks are coalesced; `kfree` finds every object;
  no page is lost. The programs of lab1 see nothing else, and the
  checker of the trace errs only where a line is late.
- Boot: one CPU at a time is on the boot stack; every CPU starts, after its code
  is in place and nothing of it is overwritten; a CPU that halts stops the others
  and powers off.
- Traps: every trap reaches the kernel before its flow continues, also when it was
  interrupted; two CPUs are never on one kernel stack outside the way to `iret`; a
  user task runs in its space with its kernel stack.
- Page tables: at every instant a user sees the mappings the calls have made, one
  call changes one address of one space, and every table is given back.
- Native: the handler gets the event that happened; a process has mapped the
  pages of the space it runs in, whatever migrated; no key is lost or turned round.
- Devices: a date is one the clock has shown; the frequency is measured right
  around the turn of an hour; the disk holds what was written. lab0: what is
  drawn stays in the frame buffer, and the ball on its field.
- sperf: the last picture shows every call that was received, if the traced program
  writes nothing to stderr. klib: the functions compute what the C standard says.

## The modules

Definitions keep the names of the code where they can; each is tied to its
lines under "map" in `PROJECT.json`.

| module | models | instance |
|---|---|---|
| `TaskFifo` | what a task queue promises: a sequence, and operations that take effect at one instant | through `TaskQueue` |
| `TaskQueue` | `tasks_init`, `tasks_enqueue`, `tasks_dequeue` | `TaskQueue.cfg` |
| `TaskQueueProofs` | proofs about `TaskQueue` | |
| `SpinLock` | `kmt_spin_lock`, `kmt_spin_unlock`, traps, migration | `MCSpinLock` |
| `SpinLockProofs` | proofs about `SpinLock` | |
| `Kmt` | the thread manager with `os_run` and `test.c` as its clients | `MCKmt` |
| `KmtProofs` | proofs about `Kmt` | |
| `MemPool` | `kalloc`, `kfree`, the pools and the server | through `MCMem` |
| `MemPoolProofs` | proofs about `MemPool` and `Lab1` | |
| `Lab1` | lab1's `os_run` in both builds over `MemPool`, and the trace checker | through `MCMem` |
| `Boot` | boot block, `mpe_init`, `halt` | `MCBoot` |
| `BootProofs` | proofs about `Boot` | |
| `Cte` | traps and contexts under a kernel that schedules | `Cte.cfg` |
| `CteProofs` | proofs about `Cte` | |
| `AddressSpace` | what virtual memory promises: functions from addresses to pages | through `Vme` |
| `Vme` | `protect`, `unprotect`, `map` | `MCVme` |
| `VmeProofs` | proofs about `Vme` | |
| `Ioe` | the clock, the disk, `gpu_fbdraw` | through `Lab0` |
| `Lab0` | lab0's `main` over `Ioe` | `Lab0.cfg` |
| `WideMath` | `int64.c`, and libgcc for riscv | through `Klib` |
| `Klib` | `string.c`, `stdio.c`, `stdlib.c`, and the calls | `Klib.cfg` |
| `Native` | the abstract machine on Linux | `MCNative` |
| `NativeProofs` | proofs about `Native` | |
| `Sperf` | `sperf.c`: `parent`, `receiver`, `record` | `Sperf.cfg` |

They stack: `TaskQueue` assumes locks that exclude; `SpinLock` shows that the
kernel's do, whatever interrupts do. `Kmt` takes a queue operation for one
step; `TaskQueue` shows that each takes effect at one instant. `MemPool` has
what `TaskQueue` and `Kmt` assume of `pmm`: an address handed out is not handed
out again before it is freed. `Boot` ends where `Cte` begins: every CPU has called
`user_entry` with its descriptors set. `Cte` has what `SpinLock` and `Kmt` take for
one step, the way from a flow into the handler and back. `Lab1` extends `MemPool`
and makes each of its operations a call of a program; `Lab0` extends `Ioe`; `Klib`
extends `WideMath`.

A *flow* is what has a program counter: a task, or the kernel's own code on a
CPU. `On(c)` is the flow CPU `c` executes now. A task's flow stays where it is
while the task waits in `readyTasks`, and may go on on another CPU.

**TaskQueue.** `Proc` are the flows that call, `Node` the memory `pmm` can make
a `tasksNode_t` of, `Task` the pointers they carry. A step is one access to
memory that the two ends share: `LockTail`, `Alloc`, `Link`
(`tailNode->next = newNode`), `MoveTail`, `UnlockTail`; `LockHead`, `ReadEmpty`
or `ReadHead`, `Free` (the old dummy node, before `headNode` moves), `MoveHead`,
`Clear`, `UnlockHead`. `NoMemory` is the early return that keeps `tailLock`: the
caller then stops the machine (`kmt.c:164`, `454`), so that nothing is said of what
comes after. No caller is assumed to go on: it may be interrupted in
`kmt_spin_lock` and own a lock for ever, so `TaskQueue` has no liveness property.
`chain` is a history variable: the nodes from the dummy on. An enqueue changes
it when it links, a dequeue when it frees the old dummy node; those are the two
instants at which the abstract queue changes.

**SpinLock.** A step is one access to a lock, to a `struct CPU` or to the
interrupt flag. Line 110 of `kmt.c`,
`if(CURRENTCPU.ownedLockNum==0)CURRENTCPU.istate=ienabled();`, is four steps:
the address of the CPU's struct (`Look`), the read (`Test`), the address again
(`Sense`), the write (`Store`), because `CURRENTCPU` is `cpu[cpu_current()]`
and a task may move between any two. `Trap` is an interrupt with
`kmt_context_save`, `Restore` is `cpu_restore_context`; `PutBack` and `Pick`
stand for what `kmt_schedule` does to the task, and between them the handler
takes and releases any locks. A `Store` that comes late may leave `istate` of a CPU
wrong, so that an unlock in a handler turns interrupts on: then `Trap` interrupts the
handler, and `PutBack` saves it as the context of its task (`prev`, `cont`), or it is
lost if it has none. `kernel[c]` is the flow of the kernel that CPU `c` executes, from a
set `Kernel` of them. `Window` is the set of places where a flow owns a
lock and its interrupts may still be on. `calm` is a history variable: no trap
has come in the window. `OwnerRuns` and `RestoresInterrupts` speak of calm behaviours,
and exempt nothing in them; `NoHandlerWaitsForItsTask` is what fails when an interrupt does
come there.

**Kmt.** A step is one critical section; the places between two are where other
CPUs proceed and a task may be interrupted. It may also be interrupted when it has
just taken the lock of its next section (`FirstLock`, in `Trap`): then it is the `owner`
of that lock until it goes on and finishes the section (`Section`), nobody else gets the
lock, and a handler that needs it spins (`SelfSpin`, if it is the handler that interrupted
it). `calm` says that this has not happened. `kid[f]` are the tasks a flow has
made, `at[f]` whose turn it is. `AllocTask` ... `Enqueue` are `kmt_create`,
`DeleteAlive` and `AddQuit` `kmt_teardown`, `Query` the assertions of `test.c`;
`Inspect` ... `Resume` are `kmt_schedule` in the order of its lines. `halted`
names the assertion or `HELP` that stopped the machine: `halt` stops every CPU.
`FreeTask` makes an address available to the next `AllocTask` of any CPU. `IVT` and
`OsTrap` are the table of handlers that `os_on_irq` fills and the loop of `os_trap`
over it.

**MemPool.** A page has its `pagenode_t` (`own`, `combpage`, `next`) and the
list of its objects. `serverPages` and `poolPages` are the heads of the lists,
which are walked as the code walks them, through `combpage` and `next`
(`Heads`). `Kalloc` carves an object from the CPU's pool, or goes on with
`Fetch` (`memserver_delivery`) and `Link`; `Kfree` starts `Search` in pool
after pool, then `GiveBack` (`memserver_receive`). The arithmetic of alignment,
of gaps in a page and of blocks is that of the code.

**Sperf.** A line of strace is two pieces, its name and the rest with the time
and the newline, and goes through the pipe, the buffer of the receiver's `FILE`
(`written`) and `records.txt` (`file`), each of which may end between the two.
`Output` is the traced program writing to stderr, which it inherits from strace and
which is the same pipe (`sperf.c:336`): after the name of a call and before its time, or
between two lines. What `record` makes of a line that is not strace's is any of what it may
do (`RecordOther`): nothing, stop, or count the time for some call; `quiet` says
that there has been no such output.
`Receive` takes any number of pieces that are in the pipe and writes any number
of those it has. `Wake`, `Open`, `Read` (a piece at a time, with `record` at the
end of a line), `ReadEnd`, `Show` are one pass of the loop of `parent`. `map` is
the list without its head node; `Add` is `record`. A line without a time is
ignored; one with an earlier `<` fails the assertion at line 97 (`Angle`).

**Lab1.** `Script` is `os_run` with `TEST` or without it, a sequence of calls; a
call runs the steps of `MemPool` and then has a line to print (`said`), which the
checker reads at any later time (`Printf`), a whole line at once. `Deliver1` is
the operation in which lab1 differs: without a page, line 120 of `control.c` reads
a null pointer, and the machine halts or NULL is returned. `MCMem` adds callers
that do whatever they like, which is what lab2 has.

**Boot.** `LoadKernel` is the boot block with `copy_from_disk` as it computes:
whole sectors, from the sector that holds the offset, into a place rounded down.
Nothing to copy still means one sector, if the place is inside one.
A byte of memory says where its content comes from. `LoadElf` is the loop over the
segments; `WellLaid` says how the linker lays a kernel out: the sectors that are written to
load a segment, that one included (`LoadBytes`), hold no byte of another segment or of the
arguments. `Reset` is the arrival of the
messages of `lapic_bootap`, which takes a CPU away from whatever it does; `Jump` is
the instruction in the boot record. `InitGdt`, `InitLapic`, `InitIrq` are
`__am_percpu_init`.

**Cte.** A flow stands for its kernel stack, `frames[f]` for the trap frames on it.
`Push` is the processor going through a gate (interrupts stay on, as the
gates are trap gates), `Cli` the first instruction of the stub, `Handle` the rest
of the stub with `__am_irq_handle` and the kernel, `Iret` `__am_iret`. The kernel is
the one of lab2 as far as contexts go: it changes the task on timer interrupts and
yields.

**Vme.** A step is one store to a table or one step of a walk; `Alloc` and `Zero` are
`pgallocz`, `Down`, `NewTable`, `Link` are `ptwalk`, `Enter` the store of `map` and
`"again"` its second walk; `Enters` and `Frees` are `teardown`, whose recursion is
`path`. A frame that is free holds entries of its last use. `Translate` is what the
processor finds: that function is the refinement mapping to `AddressSpace`.

**Ioe and Lab0.** The clock may tick between any two register reads (`Tick`); the
disk is busy after a command and after each block (`Controller` ends that), and
drops what it hears meanwhile. `PrintBox`, `Bounce`, `Moved`, `KeyOf` are the code's
arithmetic, including the two reflections of `ball`.

**WideMath and Klib.** A word has `W` bits; every function is an operator, with the
case distinctions of `__udivmoddi4` and the loops as recursion. A behaviour is one call
with its arguments and its result.

**Native.** `stage[c]` is where a process is between `fork` and `iret`. `Interrupt` is
the delivery of a signal that is not blocked, which `setup_stack` refuses when it
hits a library (`Work`); `SetupStack` saves the context; `IrqHandle`, `Schedule`,
`Switch`, `Iret` follow. The kernel's handler returns any context that nobody
holds. `Press` and `SendKbdIntr` are the event thread, `InputKeybrd` reads.

## The runs

All are checked exhaustively.

| run | states | what it shows |
|---|---|---|
| `task_queue` | 170,592 | The two-lock list is a FIFO queue (`ImplementsFifo`, a refinement of `TaskFifo`), `NoUseAfterFree`, `ListIntact`. |
| `spin_lock` | 1.18 million | `MutualExclusion`, `UnlockChecks` with interrupts at every point of `kmt_spin_lock` and of handlers; `OwnerRuns`, `RestoresInterrupts` until one comes in the window. |
| `kmt` | 1.29 million | `InOnePlace`, `NoDangling`, `SchedulerChecks`, `FreedOnlyAfterTeardown`, also with tasks interrupted in `kmt_spin_lock`; `SpinsForEver`: a handler that spins for its own task's lock never gets it. |
| `kmt_live` | 459,559 | `ReadyRuns`, `QuitFreed`, for behaviours without such an interrupt. |
| `sperf` | 715,244 | `Sorted`, and `Ends` under fairness, whatever the traced program writes; `Prefix`, `LastComplete` if it writes nothing to stderr. |
| `mem` | 578,419 | `ObjectsApart`, `PoolPagesUsed`, `FreeFinds`, `OwnedOnce`, `ServerCoalesced` for any callers and for lab1's programs; `Lab1Safe`: the checker of the trace complains only of lines that are late. |
| `boot` | 232,142 | `BootSafe`: one CPU on the boot stack, the kernel intact, entry after preparation, no reboot after a stop; `StartsAndStops` under fairness. |
| `cte` | 848,760 | `CteSafe`: traps are answered, stacks apart, user tasks in their space, interrupts acknowledged where they came. |
| `vme` | 710,698 | `ImplementsAddressSpace` (a refinement), `VmeSafe`: no table lost, shared or freed twice, the kernel's part everywhere. |
| `klib` | 83,699 | `WideMathRight`, `KlibRight`: each call against its reference definition. |
| `lab0` | 344,632 | `IoeSafe`: dates, frequency, blocks of the disk; `Lab0Safe`: picture, ball, one step a frame. |
| `native` | 2.6 million | `NativeSafe`: events, mapped pages, kernel stacks, start, order of keys. |

A property such as `CteSafe` is the conjunction of the named parts above it in
its module, each with its own comment; TLC names the part that fails.

**Bounds, and why they are enough to be interesting.**

- `TaskQueue.cfg`: three callers, so that one can wait for each lock while the
  others work at both ends; three nodes, so that the queue is empty, holds one
  or two tasks, memory runs out, and the node a dequeue has just freed is the
  one the next enqueue gets. No bound on the number of operations.
- `MCSpinLock.cfg`: two CPUs, two tasks that move between them, two locks that
  nest (`MaxHeld` = 2, the deepest nesting in `kmt.c` being that of
  `kmt_sem_wait`), two flows of the kernel. While both CPUs are in a handler neither is
  interrupted; while one runs a task, the handler of the other is. With three flows of the
  kernel there are 8.3 million states, and TLC finds no error either. Nothing else bounds
  the run.
- `MCKmt.cfg`: two CPUs with the two subtasks of `test.c` each (`Kids` = 2) over
  four addresses: fewer than the six tasks that could be alive, so that
  memory runs out and addresses of freed tasks come back. `View` leaves out `calm`, which
  only the liveness properties read.
- `KmtLive.cfg`: three addresses, one subtask each, one semaphore and one address that is
  followed (`Watched`); addresses are interchangeable, and with symmetry out of
  question for liveness this is what makes the check short. States with `calm` false are
  left out (`Calm`): a behaviour that gets there satisfies both properties. The safety
  properties are checked without semaphores, which no program of the repository uses, and
  proved with them.
- `MCMem.cfg`: two CPUs; pages of 8 bytes with a header of 2, which leaves one
  to three objects in a page as the real 4096 and 24 leave one to many; four
  pages from page 3 on, which is aligned for blocks of one page only, so that runs
  with pages before and after the aligned ones come up; sizes that give objects of
  4 and 8 bytes (a page) and of two pages for free callers, and of 1 to 16 bytes,
  a NULL and a request beyond `MaxSize` in the scripts of lab1.
- `MCBoot.cfg`: three CPUs, so that the first waits for one while another has
  yet to start, and two can halt while the third boots; sectors of two bytes,
  kernels of one or two segments that begin and end inside sectors, and some with two
  more of which nothing is in the file: no or some zeros, at the start of a sector or inside
  one, and the header that is all zero (`-z noexecstack`).
- `Cte.cfg`: two CPUs, one with the devices; a kernel task and a user task, which is
  what every combination of spaces and stacks between two flows needs; vectors 14,
  128 and 129 for the exceptions. No other bound.
- `MCVme.cfg`: two spaces, four frames (so that they run out), three levels (a
  root, a table in the middle, a last one; x86-64 has four, of which the middle ones
  are alike), three addresses that share all of their tables, two, or one.
- `Klib.cfg`: every pair of double words of eight bits, every memory of four
  characters of two bits, every int of eight bits. With `W` = 4 all the cases of
  `__udivmoddi4` come up.
- `Lab0.cfg`: a minute of 3 seconds and an hour of 2 minutes, started at each of
  the six seconds of an hour and watched for five, so that every turn falls into every
  reading; three blocks; a screen of 5 by 6 with a margin on one side; seven
  frames, enough to make the ball faster than its field is wide. lab0 never asks for
  the date or the disk, so that the drivers run either for other programs or
  before `Main`, and `Main` drops what they have left.
- `MCNative.cfg`: two processes, two tasks, one page of user space, a key queue of
  two cells and two keys. `View` drops what is written again before it is read (the
  event and its cause outside a trap, the saved context of a running process);
  nothing else but the exchange of the tasks is identified.
- `Sperf.cfg`: three lines of two calls with two times, so that one call
  overtakes the other, with a picture of one row (`Rows`; 5 in the code), so that
  a call is left out of it; `records.txt` absent at first or left from an
  earlier run. One text of the traced program takes the place of two lines. A pass is
  not bounded, nor is the number of passes.

**Deadlock** is not checked where the system may stop: in `TaskQueue` a caller
without memory halts, in `SpinLock` a handler may spin for a lock that the task
it interrupted owns, in `Kmt` a failed assertion stops the machine, `sperf` ends, a
machine of `Boot` is powered off, a panic ends `Vme`, a null pointer lab1, Escape lab0,
and in `Klib` a call is all. It is checked in `Cte` and `Native`, where something can
always happen.

**Fairness.** `Kmt!FairSpec`: weak fairness, for each CPU, of its kernel
flow and of its next trap: the timer keeps ticking on every CPU, and the
handler runs with interrupts off. A critical section is a step, which a handler takes for
granted to get: that is justified when the owner of the lock is executing, as `OwnerRuns`
says until a task is interrupted in `kmt_spin_lock` before it has masked interrupts. With such
an interrupt the handler may spin for ever, and `ReadyRuns` and `QuitFreed` are false of the
code; they are stated for behaviours without it (`calm`). Nothing is assumed of the tasks
themselves: a ready task gets a CPU although the others never yield.

`Sperf!Spec`: the operating system runs both threads; strace is not assumed to
write, or to end. `Boot!Spec`: every CPU executes and every message of the
interrupt controller arrives; nobody has to halt.

**Mutants.** For every property of a passing run the module has a variant of a
definition (named after it, with the comment "Variant:") that carries a plausible bug, and with
which TLC finds the property violated.

## The proofs

TLAPS proves, for any finite or infinite set of CPUs, tasks, nodes and locks (for
any number of CPUs in `Boot`, `Native` and `MemPool`, which number them, and any number
and size of pages in `MemPool`; any number of levels, entries, frames and addresses in
`Vme`):

| theorem | statement |
|---|---|
| `TaskQueueProofs!TypeCorrect`, `MemorySafe`, `Intact` | `TaskQueue!Spec` implies `[]TypeOK`, `[]NoUseAfterFree`, `[]ListIntact` |
| `TaskQueueProofs!Refinement` | `TaskQueue!Spec` implies `ImplementsFifo` |
| `SpinLockProofs!TypeCorrect`, `Exclusion`, `UnlockSafe`, `OwnersRun`, `Restores` | `SpinLock!Spec` implies `[]TypeOK`, `[]MutualExclusion`, `[]UnlockChecks`, `[]OwnerRuns`, `[]RestoresInterrupts` |
| `KmtProofs!TypeCorrect`, `OnePlace`, `NothingDangles`, `ChecksPass` | `Kmt!Spec` implies `[]TypeOK`, `[]InOnePlace`, `[]NoDangling`, `[]SchedulerChecks` |
| `KmtProofs!FreedLate`, `LostForGood` | `Kmt!Spec` implies the action properties `FreedOnlyAfterTeardown` and `SpinsForEver` |
| `MemPoolProofs!TypeCorrect`, `Apartness`, `Ownership`, `Coalescing`, `PoolPagesInUse`, `FreeSucceeds` | `MemPool!Spec` implies `[]TypeOK`, `[]ObjectsApart`, `[]OwnedOnce`, `[]ServerCoalesced`, `[]PoolPagesUsed`, `[]FreeFinds` |
| `MemPoolProofs!TraceSound`, `Lab1Memory` | `Lab1!Lab1Spec` implies `[]Lab1Safe`, and every safety property of `MemPool` |
| `CteProofs!Safe` | `Cte!Spec` implies `[]CteSafe` |
| `BootProofs!Safe` | `Boot!Spec` implies `[]BootSafe` |
| `BootProofs!ElfLoaded` | after the loop of `load_elf64` every segment and the argument string are right, for any kernel that `ImageAssumption` allows |
| `NativeProofs!Safe` | `Native!Spec` implies `[]NativeSafe` |
| `VmeProofs!Inductive`, `Safe` | `Vme!Spec` implies `[]IInv`, `[]VmeSafe` |
| `VmeProofs!Refinement` | `Vme!Spec` implies `ImplementsAddressSpace` |

Each of these modules shows that the initial states satisfy the
inductive invariant `IInv` and that every step keeps it, with one step of the
proof, or one lemma, per action. TLC has checked every `IInv` on the instance of its run
(that of `MemPool` with three pages, and the homes and lists that it quantifies computed),
but for that of `Vme`, which quantifies over functions on the frames. `Lab1Inv` takes the
place of `IInv` for the programs of lab1; TLC has checked its parts on the instance of `mem`.

**Assumptions.** Null is no caller, task or node, and there is a node
(`NilAssumption`, `NodeAssumption`); CPUs and tasks are distinct and neither
null (`FlowAssumption`, `CteAssumption`, `NativeAssumption`); `os_run` creates at
least one task (`NumberAssumption`); the key queue has two cells or more
(`NativeAssumption`: `KEY_QUEUE_LEN` is 1024); there is a CPU and a sector has bytes
(`BootAssumption`); there is a CPU and a page of the heap (`CountAssumption`), a page is a
power of two of bytes and an `allocatednode_t` at most half of one (`PageAssumption`: 4096
and 24 bytes), and sizes are numbers that `kalloc` refuses beyond 2^24 at the most
(`SizeAssumption`: line 8 of `pmm.c`); a program of lab1 is a finite sequence of calls that
frees `p` only after it has allocated it, and once (`ScriptAssumption`: `os.c:13` to `24`
and `47` to `58`, both builds); a user address does not use an entry of the kernel's,
and pages that `pgalloc` gives out are not those that are mapped (`VmeAssumption`: `USER_SPACE`
of `vme.c` and the range of `pgalloc`); null is no page with its rights and no address space
(`NoneAssumption`); a kernel is laid out as the linker does it (`ImageAssumption`):
a segment starts at the place in its sector of memory that it has in its sector of
the file, and the sectors that loading it touches have no bytes of another. (A segment of which
nothing is in the file still touches the sector it starts in. An all-zero header touches
none; a notes segment that lies inside another one is left out.) TLC evaluates all of them on
the instances.

**TaskQueue.** `IInv` adds to the types: who is in a section holds its lock
(`LockInv`); `chain` is a list of distinct allocated nodes linked through `next`
(`ChainInv`); `headNode` is its first node but for one step of a dequeue
(`HeadInv`), `tailNode` its last but for one step of an enqueue (`TailInv`); a
node about to be linked is allocated, filled in and in no list (`NewInv`).
`ListIntact` alone is not inductive: it says nothing of what an operation in
progress has in hand, and it is the privacy of the new node and the
distinctness of the others that keep the freed dummy node out of every later
dereference. In particular an enqueue never dereferences the freed dummy node
through `tailNode`: a dequeue frees it only when `next` of it is not null, and
until `tailNode` moves the enqueue that linked holds `tailLock` and only writes
`tailNode`. The refinement maps the linked list to the sequence of its tasks:
`Link` appends, `Free` takes the first, a `ReadEmpty` is the abstract "empty",
every other step stutters (`StepRefines`, from `LinkQueue` and `FreeQueue`,
which say what happens to that sequence).

**SpinLock.** `IInv`: a CPU outside the kernel's own code runs one task, and no flow is on
two CPUs, or saved in two places, or both (`RunInv`); a flow that is not executing has no
lock recorded and is not between `record` and `idle` (`RestInv`); `ownedLockNum` of a CPU is
the number of locks recorded for the flow it executes (`CountInv`); while interrupts
are on, none is (`MaskInv`), hence a recorded lock was taken on this CPU
(`CpuInv`); and exclusion. All of that holds whatever interrupts do, also of handlers:
a flow that is interrupted has no lock recorded (`Interrupted`), nor has one that is
picked (`Picked`). What the window of line 110 breaks is `istate`, and with it the masking of
handlers, and that owners execute: `Restores` and `OwnersRun` need the second invariant,
`CalmInv`, which says what `istate` and the interrupt flag are, that handlers have
interrupts off, and that who does not execute is not in the window, as long as no
interrupt came there.

**Kmt.** The queues hold no task twice (`PlaceInv`), and what keeps a freed address
out of them is a chain of ownership: a task belongs to the one flow that has made it
until that flow has torn it down (`KidInv`), then to `quitTasks` or to the CPU that frees
it (`GoneInv`), and an address that is in neither has been through all of it. `KidInv`
and `GoneInv` are what `InOnePlace` and `NoDangling` lack to be inductive: they relate
the local variables of the flows to the lists. `CpuInv` and `StateInv` say what a CPU has
at each line of `kmt_schedule`. `FreedLate` follows from the same invariant and the
actions, and so does `LostForGood`: the task that the handler has interrupted is on
its CPU, in no queue and on no other, so that no step but its own would give the lock back.

**MemPool.** The properties of the runs speak of the lists that one reaches through `next`
and `combpage`; none is inductive. `IInv` says instead that each page has a home: the
server, a pool, the hands of a CPU, or (the leak of `MemPoolLeak.cfg`) nobody; and that
each pool has a sequence of blocks (`Inv` quantifies both). For the server
`ServerOk` says page by page what its list is: `next` is the next page of the server,
`combpage` the length of the run. A step that takes or returns pages in the middle of a
block changes runs and no sequence, so this is what is shown of `memserver_delivery` and
`memserver_receive` (`ServerRemove`, `ServerAdd`), and the list of blocks, sorted and
never two neighbours, follows (`ServerList`). A pool is a list of blocks (`IsList`), to which
`cpumempool_delivery` adds in front (`ListPush`) and from which `cpumempool_receive` drops
one (`ListDrop`). `OthersKept` says that all other lists stay: no step follows a `next` out
of its own home (`NextOk`). In a page the objects are sorted with room for a header each
(`PageOk`, kept by `Delivered` and `TakenOut`); `RealSizes` and `Powers` give that sizes
are powers of two, so that `Place` aligns and `Fits` finds aligned pages (`Fitting`,
`BlockAligned`). For `FreeFinds` a CPU that searches has its object in the pool it looks at
or in a later one (`Ahead`): blocks never change pools, so what passed behind
it is not its object. That `Heads` walks the same list, a function over the numbers, is an
induction like that of `Boot` (`HeadsAre`, from `Upto`).

**Lab1.** What the checker can find depends on who has an object at each moment, and
`MemPool` says nothing of callers. The lemmas of its steps therefore conclude more than
the invariant: which objects the pools gain and lose, and that a CPU on its way back to the
server keeps the pages it carries (`After`, `Carries`, `Releases`). From these, the lemmas
ending in `Keeps` say what a step means to the callers: no two objects in the pools overlap,
nor does one overlap what a CPU carries (`Clear`), and a new object was in no pool.
`Lab1Inv` adds that the object a CPU keeps, is freeing or is about to print is
nobody else's (`HeldInv`, `SaidInv`: in a pool and still live; in a pool and not
live while `kfree` searches; in the CPU's hands after that), which a script guarantees that
frees only what it has (`Keeping`). `TraceInv` is `TraceKnown` with what it needs to be
inductive: the checker's objects are apart, and one that is printed as free has
no other reason to be in the list. Then `kfree` moves an object from one of the
three sets of `TraceKnown` to the next, and a `free` line finds exactly its own object.
`FalseAlarm` follows: an object about to be printed is live, so that it overlaps none that
is live or being freed. The invariant says nothing of the order in which lines of several
CPUs are read: that is where the alarms come from which remain.

**Cte.** The number of frames on the stack of a flow is tied to the traps it owes an
answer (`TrapInv` in the stub, `ParkInv` when no CPU has the flow, `ProgramInv` in the
program), and a second frame comes only from an interrupt between a gate and its `cli`
(`NestInv`), which is in service then (`ServiceInv`). `OwnInv` says whose flow it is on
the way to `iret`, where `cur` is no longer what runs. `SpaceInv` and `FlagInv` carry
the space, the stack and the interrupt flag of a user task into a frame and back.

**Boot.** The first CPU is alone until `mpe_init` (`EarlyInv`); then the numbers below
`next` run, those above are off, and the one it waits for is on its way (`OrderInv`), until
someone halts; `AloneInv` says what a halt in between leaves of that: whoever is on the
boot stack is the one CPU that is awaited, or that was awaited by a CPU now stopped.
`FirstInv`, `BehindInv` and `OtherInv` say what lies behind each place. The loading is
pure arithmetic: a copy in whole sectors touches no sector but those of its segment
(`WholeSectors`, `Copied`), so the loop has each segment right and keeps what it has
loaded (`ElfLoaded`). That is an induction over the segments; the principle
(`Upto`) is derived in the module, from the least element of a set of numbers
(`Least`), and applied to the set of numbers for which the claim holds.

**Native.** A context is on one process or about to be (`HeldInv`), a user context keeps its
space and stack wherever it is (`HomeInv`), and `is_mapped` says whether some process
is in the space (`PageInv`): that is what `MappedRight` needs through a switch, which
unmaps the old space page by page and maps the new one. The key queue is a separate
invariant (`KeysInv`) about remainders, which `Waits`, `Lies` and `Follows` turn into
case distinctions first.

**Vme.** `VmeSafe` says something of an address space only between its calls. `IInv`
says what there is at every step. The frames that a live address space owns, but for the one
that `pgallocz` has in hand, are a tree under `as->ptr` (`Whole`): there are functions that
give each table its level, the table above it and the index of the entry that leads to it,
and each entry is absent, leads to the one table that says so, or, at the last level, to a
page (`Slot`). These functions are what makes the tree a tree: two entries cannot lead to one
table, and a walk cannot come back. A call is where the walk of its address leads, and
a frame in hand is for an entry that is absent (`Walks`); one that is zeroed has zeros
(`Sound`), which is why linking it adds no entry. While `teardown` is at work, what it has not
freed is the tree without the entries it has passed (`Left`): a table on the path is above
the next one, and a table not on the path still hangs on an entry that is to be visited,
so that the last one freed is the root and none is left (`RootAlone`). Since no two address
spaces own a frame (`Share`) and a step writes only frames of its own, one lemma says that it
keeps the others (`Others`).

The refinement takes `Translate` apart: the entries up to the last level carry all
rights, so what the processor finds is what the last entry says (`FoundIs`). `Link` changes an
entry that is absent into one that leads to a table of absent entries, which no address sees
(`SeesLink`); `Enter` changes the last entry of one address and of no other, since two
walks that meet in one entry have the same indices (`WalksMeet`, `SeesEnter`); `Fill` makes an
address space without addresses, `Unprotect` takes one away; every other step stutters
(`StepRefines`). Frames are reused with whatever content: nothing is assumed of one before it
is zeroed.

**Only model-checked:** the liveness properties (`ReadyRuns`,
`QuitFreed`, `Ends`, `StartsAndStops`: fairness and `ENABLED` are beyond the prover),
and the properties of `Sperf`, `Ioe` and `Lab0`. `Prefix` and `LastComplete` of `Sperf`
speak of sums over all lines and `PictureRight` of `Lab0` of all cells drawn so far: both
would be inductions over data for which the prover has no principle.
`WideMath` and `Klib` declare recursive operators, of which it knows nothing.

## Abstractions, and what is not modelled

- Memory is sequentially consistent, and an access to a word is one step. On
  x86 the exchange that takes a lock orders everything around it; the one
  pair of unlocked accesses to the same word is `tailNode->next`, written by an
  enqueue and read by a dequeue of an empty queue.
- The interrupt gate of the trap entry: between the gate and its `cli` another
  interrupt could nest; `Cte` has that. In `SpinLock` a handler is interrupted only after an
  unlock has turned its interrupts on; lines 450 to 455 and 497 to 503 are one step each,
  that two handlers share a stack is not modelled, and `SPINTASK` counts as no task. In
  `Kmt`, handlers run without interruption, as they do until a task is interrupted in
  the window of line 110; after that, its properties are about handlers that stay masked.
- In `Kmt`, a task interrupted in `kmt_spin_lock` has taken the first lock of its next
  section (inside, interrupts are masked). Other locks
  are left out: tasks take a `stateLock` only with interrupts masked already (`kmt.c:196`,
  `215`), no handler needs the lock of a semaphore, and `pmm` masks interrupts before it
  takes one of its own (`pmm.c:28`, `59`).
- `kmt_context_save` stops the machine without memory for its copy of the struct
  CPU; so does every failure to get a node (`NoNode`). Only the latter is a step
  of the model, the former ends the run before anything changes.
- `Kmt` takes an operation on a queue or on a record list for one step. For the
  queues that is what `TaskQueue` shows; a record list has one lock for all of
  each operation.
- The stack of a task is memory that is allocated or freed; that a CPU still
  executes on it after line 454 or 446 of `kmt.c` is listed as a hazard and not
  modelled.
- `pmm_init`'s layout of control blocks and pages is not modelled (it
  reserves more than it needs: line 76 of `pmm.c` multiplies by the size twice).
  The order of the locks in `MemPool`, server inside pool (`mempool.c:228`), is
  in the order of its steps; locks are not held across steps otherwise.
- What the code behind a failed assert would do is not modelled: for instance
  the wake-up of blocked tasks behind `assert(0)` at line 482.
- System calls, page faults and errors: their handlers give back the context
  they got.
- `Lab1`: a line of the trace is taken to arrive in one piece. `README.md` of the
  repository says that the order of what is printed is not guaranteed
  ("由于print到终端的次序不能得到保证"), and that of lab1 that the test no longer applies for
  that reason; `FalseAlarm` says how far the checker can be trusted nevertheless, and
  `TraceSound` that this is so for any number of CPUs and any such program.
- `Boot` and `Cte` are the 64-bit build. Of descriptor tables and the APIC only that
  they are set up; registers are not modelled one by one. The vectors from 48 on,
  which have no interrupt behind them, are left out.
- `Cte`: two CPUs may be on one stack while one is on its way to `iret`
  (`StacksApart` says so); what they would write there is not modelled.
- `Vme`: translation buffers are left out; the code never flushes them
  (`vme.c:149`), so that a processor may use a mapping after it was taken out.
- `Ioe`: one processor at a time uses a device; two that read the clock at once would
  mix the index and data ports (0x70, 0x71), which nothing in the code prevents.
  `gpu_render` with its canvas tree, the serial line, and registers that only report a
  configuration are not modelled.
- `Native`: the set-up of memory before `main`, the picture, the disk and sound
  (whose `count` is written by two threads, `am/src/native/ioe/audio.c:27`, `38`) are not
  modelled; a context is let go of only when the processor has left it; two processors
  are not in one address space at the same time, as in the kernels of this
  repository, which give every task its own. With two, `is_mapped`, which they share,
  would be wrong for one of them.
- `klib`: `rand` is left out; `malloc`, `free` and the `sprintf` family are not
  implemented. The `.c` and `.S` sources of libgcc are modelled but for `unused.c`, whose
  functions panic; `longlong.h` and `libgcc2.h`,
  copied from gcc, declare and configure.
- The other machines (`am/src/x86/nemu`, `mips`, `riscv` but for libgcc,
  `loongarch`, `platform`) are not modelled: neither kernel runs on them, and most of
  them are stubs.
- In `Sperf`, times are integers, pieces have no length (the buffer of 100 bytes
  and the string of 500 are hazards without a property), and of failing system
  calls only the first `fopen` for reading is modelled. What the traced program writes to
  stderr is one text, with a newline at its end or without; `RecordOther` leaves open what
  `record` makes of it, of which reading beyond the end of the line (line 100) is
  one, taken to stop sperf or to count some name.
- Names, messages and debugging output are left out.

## Disagreements found

Where a configuration is named, TLC shows the disagreement with it: it checks one
property that says what the comment, assertion or declaration says, and ends in
a counterexample. These configurations are not among the runs above.

1. `kmt_spin_lock` takes a lock with interrupts on (`kmt.c:105`) and masks them
   afterwards (`111`). A task that is interrupted in between, for instance in
   `tasks_enqueue` on behalf of `task1`, owns a lock that the handler on its CPU needs to put
   it back (`tailLock` of `readyTasks`, or the lock of `quitTasks`): the handler spins for
   it with interrupts off, for ever; `SpinLockSelfWait.cfg` with `MCSpinLock`
   and `KmtSelfSpin.cfg` with `MCKmt`. `OwnerRuns` says that there is no other way to
   wait for an owner that does not execute, `SpinsForEver` that there is no way back.
2. `kmt_spin_lock` reads `CURRENTCPU` with interrupts on (`kmt.c:110`): a task
   that moves to another CPU there writes the `struct CPU` of the one it left,
   against "assume that the cpu can only change itself!" (`common.h:33`);
   `SpinLockForeignWrite.cfg` with `MCSpinLock`. The lock itself still excludes,
   and the checks of `kmt_spin_unlock` still hold: that is proved.
3. Semaphores use the queue functions with a queue that their assert refuses
   (`kmt.c:289`, `306`): a wait that must block, or a signal, stops the machine;
   `KmtQueueAssert.cfg` with `MCKmt`.
4. `test.c:22` asserts that a torn-down task is not in `aliveTasks`; its address
   may by then be that of another CPU's new task; `KmtTornDown.cfg` with `MCKmt`.
5. `memserver_receive` drops a block that lies above every free one
   (`mempool.c:370`): its condition `own==1` never holds there;
   `MemPoolLeak.cfg` with `MemPool`.
6. `control.c:120` of lab1 reads through a pointer before it tests it for null;
   lab2 has the lines in the other order. `Lab1` models both outcomes.
7. `sperf.c:78` takes for the time what lies between the first `<` and the last
   `>` of a line, which stops sperf at line 97 when an argument has a `<`; and
   `sperf.c:37` never searches the last directory of `PATH`.
8. The address of a page fault is read from `cr2` when the stub has got there
   (`cte.c:84`), but the gates leave interrupts on until its `cli` (`cte.c:113`): after an
   interrupt in between, another task's fault may have overwritten it. TLC finds it
   when `FaultAddress` of `Cte` is checked in place of `CteSafe`; `FaultKnown` is what holds.
9. Two CPUs that halt at the same time may reset each other (`mpe.c:48`) before either
   has switched the power off: `StartsAndStops` leaves that case out.
10. `ball` of lab0 reflects once at each edge (`graph.h:108`): a ball faster than its
    field is wide leaves the screen. `BallInside` leaves that case out (`fast`). `keylut`
    gives two values to 0x38 (`ioe.c:124`).
11. klib: `strcmp` and `strncmp` never move on (`string.c:45`); `memmove` and `memcpy` copy
    nothing or never end (`93`, `88`); `strncpy` writes beyond its bound and does not
    fill up (`30`); `%x` and `%p` of 0 print no digit and `%p` half a pointer
    (`stdio.c:34`, `75`). `KlibRight` names each case it leaves out.
12. Native: `map` of an address that was mapped before makes the list of pages
    circular (`am/src/native/vme.c:113`); a device used before `mpe_init` makes it
    initialise all devices twice (`am/src/native/mpe.c:27`).
13. `sperf.c:336` makes the pipe the stderr of strace and of the program it traces: what that
   program writes there breaks strace's lines, and `record` counts a call that does not
   exist, misses one, or reads beyond the end of a line without `(` (`sperf.c:100`). TLC
   finds it when `Prefix` or `LastComplete` of `Sperf` is checked without `quiet`.

## Plan

*Done:* the modules of the table above, with two refinements (`TaskFifo`,
`AddressSpace`), liveness in `Kmt`, `Sperf` and `Boot`, and the proofs about
`TaskQueue`, `SpinLock`, `Kmt`, `MemPool`, `Lab1`, `Cte`, `Boot`, `Native` and `Vme`.

*What could come next:* `Sorted` of `Sperf` and `RtcSnapshot` and `DiskRight` of `Ioe`, which are
within the prover's reach.
