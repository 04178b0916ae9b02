---------------------------------- MODULE Boot --------------------------------
(***************************************************************************)
(* How the processors of x86-qemu get from reset into the program, and how *)
(* halt stops them (boot/start.S, boot/main.c, start64.S, trm.c, mpe.c and *)
(* the local APIC of ioe.c under am/src/x86/qemu).  Processor 0 is started *)
(* by the firmware at the boot block, which reads the kernel from the disk *)
(* (load_kernel); mpe_init then starts the others one at a time: it puts a *)
(* jump to the boot block and is_ap into the boot record, resets the       *)
(* processor, whose first instruction is that jump, and waits for ap_ready.*)
(* All of them go through the same boot block, the same page tables, one   *)
(* stack at 0xa000 and the static descriptors of set_gdt and set_idt.      *)
(* halt puts a jump to itself into the boot record and resets all others.  *)
(***************************************************************************)
EXTENDS Integers, FiniteSets, Sequences

CONSTANTS NCpu,      \* processors of the machine
          Image,     \* the kernels that may be on the disk: sequences of
                     \* segments [filesz, memsz, paddr, offset]
          SectSize,  \* SECTSIZE
          ArgSects,  \* sectors of the argument string (ARGSIZE / SECTSIZE)
          ArgAddr,   \* MAINARG_ADDR
          Address    \* bytes of memory

ASSUME BootAssumption == /\ NCpu \in Nat \ {0}
                         /\ SectSize \in Nat \ {0}
                         /\ ArgSects \in Nat
                         /\ ArgAddr \in Nat

Segment == [filesz : Nat, memsz : Nat, paddr : Nat, offset : Nat]
SegmentBytes(s) == s.paddr .. s.paddr + s.memsz - 1
ArgBytes == ArgAddr .. ArgAddr + ArgSects * SectSize - 1
Sector(a) == a \div SectSize

\* Loading a segment touches no sector but those of these bytes: the sector of
\* its first byte from its start on, even if nothing of the file goes there.
LoadBytes(s) == s.paddr - (s.paddr % SectSize) .. s.paddr + s.memsz - 1

\* How the linker lays out a kernel: a segment starts at the place in its
\* sector of memory that it has in its sector of the file, and the sectors that
\* its loading touches hold no bytes of another segment or of the argument
\* string.  An empty segment at the start of a sector, as the header that says
\* that the stack is not executable (all zero), touches none.
WellLaid(img) ==
    /\ \A i \in DOMAIN img :
         /\ img[i].filesz <= img[i].memsz
         /\ img[i].offset % SectSize = img[i].paddr % SectSize
         /\ \A a \in LoadBytes(img[i]), b \in ArgBytes : Sector(a) # Sector(b)
    /\ \A i, j \in DOMAIN img : i # j =>
         \A a \in LoadBytes(img[i]), b \in SegmentBytes(img[j]) : Sector(a) # Sector(b)

ASSUME ImageAssumption == /\ \A img \in Image : img \in Seq(Segment) /\ WellLaid(img)
                          /\ Address \subseteq Nat /\ ArgBytes \subseteq Address

Cpu == 0 .. NCpu - 1

VARIABLES image,    \* the kernel on the disk
          mem,      \* each byte of memory
          record,   \* the boot record at 0x7000
          tables,   \* PML4_ADDR holds the entry that start64.S builds
          kernel,   \* user_entry, ap_ready and __am_ncpu, in the kernel's data
          pc, next, \* of each processor; next: the variable cpu of its loop
          percpu,   \* what of __am_percpu_init it has done
          ipi,      \* a reset and start-up message is on its way to it
          power,
          halts     \* history: the processors that called halt

vars == <<image, mem, record, tables, kernel, pc, next, percpu, ipi, power, halts>>

\* On the stack at 0xa000, or in __am_percpu_init.
Booting == {"bootblock", "start64", "startc", "bootcpu", "gdt", "lapic", "irq"}
Prepared == {"gdt", "lapic", "irq"}
Labels == Booting \cup {"off", "record", "main", "mpe", "wait", "ready",
                        "user", "stop", "message", "spin"}
NoKernel == [entry |-> FALSE, ready |-> 0, ncpu |-> 0]

\* The content of a byte says where it comes from.
Byte == {"file", "arg", "zero", "old"} \X Nat
Zero == <<"zero", 0>>

TypeOK == /\ image \in Image
          /\ mem \in [Address -> Byte]
          /\ record \in [jmp : {"zero", "bootblock", "spin"}, ap : {0, 1}]
          /\ tables \in BOOLEAN
          /\ kernel \in [entry : BOOLEAN, ready : {0, 1}, ncpu : 0 .. NCpu]
          /\ pc \in [Cpu -> Labels]
          /\ next \in [Cpu -> 0 .. NCpu]
          /\ percpu \in [Cpu -> SUBSET Prepared]
          /\ ipi \in [Cpu -> BOOLEAN]
          /\ power \in BOOLEAN
          /\ halts \in SUBSET Cpu

\* Memory keeps what it held; the kernel's data have no meaning before they
\* are loaded.
Init == /\ image \in Image
        /\ mem = [a \in Address |-> <<"old", a>>]
        /\ record = [jmp |-> "zero", ap |-> 0]
        /\ tables = FALSE
        /\ kernel = NoKernel
        /\ pc = [c \in Cpu |-> IF c = 0 THEN "bootblock" ELSE "off"]
        /\ next = [c \in Cpu |-> 0]
        /\ percpu = [c \in Cpu |-> {}]
        /\ ipi = [c \in Cpu |-> FALSE]
        /\ power = TRUE
        /\ halts = {}

Goto(c, from, to) == power /\ pc[c] = from /\ pc' = [pc EXCEPT ![c] = to]
------------------------------------------------------------------------------
(* The boot block: the disk and the segments of the kernel.               *)

\* The disk: the boot block, the argument string, the kernel's ELF file.
Disk(b) == LET file == SectSize * (1 + ArgSects)
           IN IF b < SectSize THEN <<"old", b>>
              ELSE IF b < file THEN <<"arg", b - SectSize>>
              ELSE <<"file", b - file>>

\* copy_from_disk reads whole sectors, from the one that holds offset to the
\* sector of buf and on to the end of the buffer: one sector even for nbytes = 0,
\* unless buf is the start of a sector.
Copy(m, buf, nbytes, offset) ==
    LET cur  == buf - (buf % SectSize)
        sect == offset \div SectSize + ArgSects + 1
        size == SectSize * (((buf + nbytes + SectSize - 1) - cur) \div SectSize)
    IN [a \in Address |-> IF a \in cur .. cur + size - 1
                          THEN Disk((sect * SectSize + a) - cur) ELSE m[a]]

LoadProgram(m, s) ==
    LET copied == Copy(m, s.paddr, s.filesz, s.offset)
    IN [a \in Address |-> IF a \in s.paddr + s.filesz .. s.paddr + s.memsz - 1
                          THEN Zero ELSE copied[a]]

\* The argument string lies in front of the file: its offset is negative.
LoadArgs(m) == [a \in Address |->
    IF a \in ArgBytes THEN Disk((SectSize + a) - ArgAddr) ELSE m[a]]

\* load_elf64: one segment after another.
LoadElf(m) ==
    LET load[k \in 0 .. Len(image)] ==
          IF k = 0 THEN m ELSE LoadProgram(load[k - 1], image[k])
    IN load[Len(image)]

\* is_ap tells the first processor, which loads the kernel, from the others.
LoadKernel(c) == /\ Goto(c, "bootblock", "start64")
                 /\ IF record.ap = 0
                    THEN /\ mem' = LoadElf(LoadArgs(mem))
                         /\ kernel' = NoKernel
                    ELSE UNCHANGED <<mem, kernel>>
                 /\ UNCHANGED <<image, record, tables, next, percpu, ipi, power, halts>>
------------------------------------------------------------------------------
(* start64.S, _start_c and mpe_init                                       *)

Start64(c) == /\ Goto(c, "start64", "startc")
              /\ tables' = TRUE
              /\ UNCHANGED <<image, mem, record, kernel, next, percpu, ipi, power, halts>>

StartC(c) == /\ Goto(c, "startc", IF record.ap = 1 THEN "gdt" ELSE "bootcpu")
             /\ UNCHANGED <<image, mem, record, tables, kernel, next, percpu, ipi, power, halts>>

\* __am_bootcpu_init; the processors are counted in the table of the firmware.
BootCpu(c) == /\ Goto(c, "bootcpu", "gdt")
              /\ kernel' = [kernel EXCEPT !.ncpu = NCpu]
              /\ UNCHANGED <<image, mem, record, tables, next, percpu, ipi, power, halts>>

\* __am_percpu_init: the descriptor tables, the local APIC and the interrupts;
\* then back to whichever of the two called it.
Prepare(c, part, to) == /\ Goto(c, part, to)
                        /\ percpu' = [percpu EXCEPT ![c] = @ \cup {part}]
                        /\ UNCHANGED <<image, mem, record, tables, kernel, next, ipi, power, halts>>

InitGdt(c)   == Prepare(c, "gdt", "lapic")
InitLapic(c) == Prepare(c, "lapic", "irq")
InitIrq(c)   == Prepare(c, "irq", IF record.ap = 1 THEN "ready" ELSE "main")

MpeInit(c) == /\ Goto(c, "main", "mpe")
              /\ kernel' = [kernel EXCEPT !.entry = TRUE]
              /\ record' = [record EXCEPT !.jmp = "bootblock"]
              /\ next' = [next EXCEPT ![c] = 1]
              /\ UNCHANGED <<image, mem, tables, percpu, ipi, power, halts>>

\* Variant: the boot record is not told that another processor starts.
BootApFirst(c) == /\ next[c] < kernel.ncpu
                  /\ Goto(c, "mpe", "wait")
                  /\ ipi' = [ipi EXCEPT ![next[c]] = TRUE]
                  /\ UNCHANGED <<image, mem, record, tables, kernel, next, percpu, power, halts>>

\* __am_lapic_bootap; the start-up message is sent twice, the second has no
\* effect on a processor that runs.
BootAp(c) == /\ next[c] < kernel.ncpu
             /\ Goto(c, "mpe", "wait")
             /\ record' = [record EXCEPT !.ap = 1]
             /\ ipi' = [ipi EXCEPT ![next[c]] = TRUE]
             /\ UNCHANGED <<image, mem, tables, kernel, next, percpu, power, halts>>

\* Variant: nobody waits for ap_ready.
WaitReadyNot(c) == /\ Goto(c, "wait", "mpe")
                   /\ next' = [next EXCEPT ![c] = @ + 1]
                   /\ UNCHANGED <<image, mem, record, tables, kernel, percpu, ipi, power, halts>>

\* The exchange that finds ap_ready set; the others change nothing.
WaitReady(c) == /\ kernel.ready = 1
                /\ Goto(c, "wait", "mpe")
                /\ kernel' = [kernel EXCEPT !.ready = 0]
                /\ next' = [next EXCEPT ![c] = @ + 1]
                /\ UNCHANGED <<image, mem, record, tables, percpu, ipi, power, halts>>

AllStarted(c) == /\ next[c] >= kernel.ncpu
                 /\ Goto(c, "mpe", "user")
                 /\ UNCHANGED <<image, mem, record, tables, kernel, next, percpu, ipi, power, halts>>

Ready(c) == /\ Goto(c, "ready", "user")
            /\ kernel' = [kernel EXCEPT !.ready = 1]
            /\ UNCHANGED <<image, mem, record, tables, next, percpu, ipi, power, halts>>
------------------------------------------------------------------------------
(* Reset, and halt                                                        *)

Reset(c) == /\ ipi[c] /\ power
            /\ ipi' = [ipi EXCEPT ![c] = FALSE]
            /\ pc' = [pc EXCEPT ![c] = "record"]
            /\ percpu' = [percpu EXCEPT ![c] = {}]
            /\ UNCHANGED <<image, mem, record, tables, kernel, next, power, halts>>

\* The instruction in the boot record.
Jump(c) == /\ record.jmp # "zero"
           /\ Goto(c, "record", record.jmp)
           /\ UNCHANGED <<image, mem, record, tables, kernel, next, percpu, ipi, power, halts>>

\* main returns or the program calls halt (a panic does).
Halt(c) == /\ pc[c] \in {"main", "user"}
           /\ Goto(c, pc[c], "stop")
           /\ record' = [record EXCEPT !.jmp = "spin"]
           /\ next' = [next EXCEPT ![c] = 0]
           /\ halts' = halts \cup {c}
           /\ UNCHANGED <<image, mem, tables, kernel, percpu, ipi, power>>

StopOther(c) == /\ next[c] < kernel.ncpu
                /\ Goto(c, "stop", "stop")
                /\ next' = [next EXCEPT ![c] = @ + 1]
                /\ ipi' = [ipi EXCEPT ![next[c]] = @ \/ next[c] # c]
                /\ UNCHANGED <<image, mem, record, tables, kernel, percpu, power, halts>>

Stopped(c) == /\ next[c] >= kernel.ncpu
              /\ Goto(c, "stop", "message")
              /\ UNCHANGED <<image, mem, record, tables, kernel, next, percpu, ipi, power, halts>>

PowerOff(c) == /\ power /\ pc[c] = "message"
               /\ power' = FALSE
               /\ UNCHANGED <<image, mem, record, tables, kernel, pc, next, percpu, ipi, halts>>

Step(c) == \/ LoadKernel(c) \/ Start64(c) \/ StartC(c) \/ BootCpu(c)
           \/ InitGdt(c) \/ InitLapic(c) \/ InitIrq(c) \/ MpeInit(c)
           \/ BootAp(c) \/ WaitReady(c) \/ AllStarted(c) \/ Ready(c)
           \/ Reset(c) \/ Jump(c) \/ StopOther(c) \/ Stopped(c) \/ PowerOff(c)

Next == \E c \in Cpu : Step(c) \/ Halt(c)

\* Every processor executes, and every message arrives; nobody has to halt.
Spec == Init /\ [][Next]_vars /\ \A c \in Cpu : WF_vars(Step(c))
------------------------------------------------------------------------------
(* Only one processor at a time is on the boot stack and uses the static  *)
(* descriptors, although all of them boot from the same block.            *)
BootAlone == Cardinality({c \in Cpu : pc[c] \in Booting}) <= 1

(* A processor calls user_entry when it is set and its own tables are     *)
(* ready, and processor 0 calls it as the last.                           *)
EntryKnown ==
    /\ \A c \in Cpu : pc[c] = "user" => kernel.entry /\ tables /\ percpu[c] = Prepared
    /\ pc[0] = "user" /\ halts = {} => \A c \in Cpu : pc[c] = "user"

(* What the boot block has loaded, the kernel finds: each segment with    *)
(* its bytes of the file and its zeros, and the argument string, although *)
(* the disk is read in whole sectors; no later processor loads it again.  *)
Loaded == pc[0] # "bootblock" \/ halts # {} =>
    /\ \A i \in DOMAIN image, a \in Address :
          LET s == image[i]
          IN /\ a \in s.paddr .. s.paddr + s.filesz - 1
                => mem[a] = <<"file", (s.offset + a) - s.paddr>>
             /\ a \in s.paddr + s.filesz .. s.paddr + s.memsz - 1 => mem[a] = Zero
    /\ \A i \in 0 .. ArgSects * SectSize - 1 : mem[ArgAddr + i] = <<"arg", i>>

(* A processor that has been stopped does not boot again.                 *)
StaysStopped == \A c \in Cpu : halts # {} /\ pc[c] = "record" => record.jmp = "spin"

BootSafe == TypeOK /\ BootAlone /\ EntryKnown /\ Loaded /\ StaysStopped

(* mpe_init brings every processor into the program, unless one halts, and *)
(* a processor that halts powers the machine off, unless another one halts *)
(* at the same time: then they may reset each other.                      *)
StartsAndStops ==
    /\ <>(halts # {} \/ \A c \in Cpu : pc[c] = "user")
    /\ \A c \in Cpu : halts = {c} ~> (~power \/ halts # {c})
==============================================================================
