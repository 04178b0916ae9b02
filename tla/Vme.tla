---------------------------------- MODULE Vme ---------------------------------
(***************************************************************************)
(* Page tables of x86-qemu (vme.c): protect and unprotect make and remove  *)
(* an address space, map enters a page or, with MMAP_NONE, takes it out.   *)
(* A walk (ptwalk) makes the tables it misses on its way.  A table comes   *)
(* from pgalloc with the content of its last use and is filled with zeros  *)
(* before it is linked, since the processors may be walking the tables at  *)
(* any time.  Each address space has one caller at a time; different ones  *)
(* are changed at the same time and take their tables from one allocator.  *)
(*                                                                         *)
(* This is the 64-bit build: the kernel's part of every address space is   *)
(* the first entry of the table that start64.S built.  What the processors *)
(* still hold in their translation buffers is not modelled.                *)
(***************************************************************************)
EXTENDS Naturals, Sequences, FiniteSetsExt

CONSTANTS As,      \* address spaces
          Frame,   \* pages that pgalloc gives out
          Page,    \* pages that the kernel maps
          Levels,  \* mmu.ptlevels
          LastIndex,  \* entries of a table are numbered from 0 to this
          Kernel,  \* those among them that the kernel area uses, at level 1
          Va,      \* user addresses: one index for each level
          Prot(_), \* the rights with which an address may be mapped: TRUE
                   \* stands for MMAP_WRITE
          Kpt,     \* the table at PML4_ADDR
          None

ASSUME VmeAssumption == /\ Levels \in Nat \ {0}
                        /\ LastIndex \in Nat
                        /\ Kernel \subseteq 0 .. LastIndex
                        /\ Va \subseteq [1 .. Levels -> 0 .. LastIndex]
                        /\ \A va \in Va : va[1] \notin Kernel
                        /\ {Kpt, None} \cap (Frame \cup Page) = {}
                        /\ Frame \cap Page = {} /\ Kpt # None

\* None is no page with its rights, and no address space.
ASSUME NoneAssumption == LET meaning == [page : Page, write : BOOLEAN]
                         IN None \notin meaning /\ None \notin [Va -> meaning \cup {None}]

VARIABLES tbl,      \* the content of each frame, and of Kpt
          ptr,      \* as->ptr
          live,     \* between the end of protect and unprotect
          free,     \* frames that pgalloc may give out
          job,      \* what the caller of an address space is doing
          owned,    \* history: the frames each address space has taken
          stopped   \* a panic has stopped the machine

vars == <<tbl, ptr, live, free, job, owned, stopped>>

Index == 0 .. LastIndex
Flag == {"P", "W", "U"}
Entry == [to : Frame \cup Page \cup {Kpt, None}, flags : SUBSET Flag]
Absent == [to |-> None, flags |-> {}]
Zeros == [i \in Index |-> Absent]

\* The variables of the functions: op is what to do at the end of a walk, va
\* and new its arguments, at and level where it is, frame the page that
\* pgallocz is about to return, path the tables that teardown is in, each
\* with the next index.
Idle == [op |-> "idle", va |-> None, new |-> Absent, level |-> 0, at |-> None,
         frame |-> None, zero |-> FALSE, path |-> <<>>]
Op == {"idle", "protect", "map", "unmap", "again", "teardown"}

TypeOK == /\ tbl \in [Frame \cup {Kpt} -> [Index -> Entry]]
          /\ ptr \in [As -> Entry]
          /\ live \in SUBSET As
          /\ free \in SUBSET Frame
          /\ \A a \in As : /\ job[a].op \in Op /\ job[a].level \in 0 .. Levels
                           /\ job[a].frame \in Frame \cup {None}
          /\ owned \in [As -> SUBSET Frame]
          /\ stopped \in BOOLEAN

\* Frames hold anything: here, entries that lead back to them.
Init == /\ tbl = [f \in Frame \cup {Kpt} |->
                    IF f = Kpt THEN [i \in Index |-> IF i \in Kernel
                                     THEN [to |-> Kpt, flags |-> {"P", "W"}] ELSE Absent]
                    ELSE [i \in Index |-> [to |-> f, flags |-> Flag]]]
        /\ ptr = [a \in As |-> Absent]
        /\ live = {}
        /\ free = Frame
        /\ job = [a \in As |-> Idle]
        /\ owned = [a \in As |-> {}]
        /\ stopped = FALSE

Do(a, j) == job' = [job EXCEPT ![a] = j]
Panic == stopped' = TRUE /\ UNCHANGED <<tbl, ptr, live, free, job, owned>>
------------------------------------------------------------------------------
(* pgallocz                                                               *)

Alloc(a) == \/ /\ free = {} /\ Panic
            \/ \E f \in free : /\ free' = free \ {f}
                               /\ owned' = [owned EXCEPT ![a] = @ \cup {f}]
                               /\ Do(a, [job[a] EXCEPT !.frame = f])
                               /\ UNCHANGED <<tbl, ptr, live, stopped>>

Zero(a) == /\ job[a].frame # None /\ ~job[a].zero
           /\ tbl' = [tbl EXCEPT ![job[a].frame] = Zeros]
           /\ Do(a, [job[a] EXCEPT !.zero = TRUE])
           /\ UNCHANGED <<ptr, live, free, owned, stopped>>
------------------------------------------------------------------------------
(* protect                                                                *)

Protect(a) == /\ job[a] = Idle /\ a \notin live
              /\ Do(a, [Idle EXCEPT !.op = "protect"])
              /\ UNCHANGED <<tbl, ptr, live, free, owned, stopped>>

Root(a) == job[a].op = "protect" /\ job[a].frame = None /\ Alloc(a)

Fill(a) == LET f == job[a].frame
           IN /\ job[a].op = "protect" /\ job[a].zero
              /\ tbl' = [tbl EXCEPT ![f] = [i \in Index |-> IF i \in Kernel THEN tbl[Kpt][i]
                                                                             ELSE @[i]]]
              /\ ptr' = [ptr EXCEPT ![a] = [to |-> f, flags |-> {"P", "U"}]]
              /\ live' = live \cup {a}
              /\ Do(a, Idle)
              /\ UNCHANGED <<free, owned, stopped>>
------------------------------------------------------------------------------
(* map and ptwalk                                                         *)

Call(a, op, va, new) == /\ job[a] = Idle /\ a \in live
                        /\ Do(a, [Idle EXCEPT !.op = op, !.va = va, !.new = new])
                        /\ UNCHANGED <<tbl, ptr, live, free, owned, stopped>>

Map(a) == \E va \in Va, page \in Page : \E write \in Prot(va) :
    Call(a, "map", va, [to |-> page, flags |-> {"P", "U"} \cup IF write THEN {"W"} ELSE {}])
Unmap(a) == \E va \in Va : Call(a, "unmap", va, Absent)

Walking(a) == job[a].op \in {"map", "unmap", "again"} /\ job[a].level < Levels

\* Level 0 has the one entry as->ptr.
Here(a) == LET j == job[a] IN IF j.level = 0 THEN ptr[a] ELSE tbl[j.at][j.va[j.level]]

Down(a) == /\ Walking(a) /\ "P" \in Here(a).flags
           /\ Do(a, [job[a] EXCEPT !.level = @ + 1, !.at = Here(a).to])
           /\ UNCHANGED <<tbl, ptr, live, free, owned, stopped>>

NewTable(a) == /\ Walking(a) /\ "P" \notin Here(a).flags /\ job[a].frame = None
               /\ Alloc(a)

\* Variant: the table is linked before it is zeroed.
LinkEarly(a) == LET j == job[a]
                IN /\ Walking(a) /\ j.frame # None
                   /\ tbl' = [tbl EXCEPT ![j.at][j.va[j.level]] = [to |-> j.frame, flags |-> Flag],
                                         ![j.frame] = IF j.zero THEN Zeros ELSE @]
                   /\ Do(a, IF j.zero THEN [j EXCEPT !.level = @ + 1, !.at = j.frame,
                                                     !.frame = None, !.zero = FALSE]
                            ELSE [j EXCEPT !.zero = TRUE])
                   /\ UNCHANGED <<ptr, live, free, owned, stopped>>

Link(a) == LET j == job[a]
           IN /\ Walking(a) /\ j.zero
              /\ tbl' = [tbl EXCEPT ![j.at][j.va[j.level]] = [to |-> j.frame, flags |-> Flag]]
              /\ Do(a, [j EXCEPT !.level = @ + 1, !.at = j.frame, !.frame = None, !.zero = FALSE])
              /\ UNCHANGED <<ptr, live, free, owned, stopped>>

\* The second walk of map finds all its tables.
Enter(a) ==
    LET j == job[a]
    IN /\ j.op \in {"map", "unmap"} /\ j.level = Levels
       /\ IF ("P" \in Here(a).flags) = (j.op = "map")
          THEN Panic
          ELSE /\ tbl' = [tbl EXCEPT ![j.at][j.va[j.level]] = j.new]
               /\ Do(a, [Idle EXCEPT !.op = "again", !.va = j.va])
               /\ UNCHANGED <<ptr, live, free, owned, stopped>>

Return(a) == /\ job[a].op = "again" /\ job[a].level = Levels
             /\ Do(a, Idle)
             /\ UNCHANGED <<tbl, ptr, live, free, owned, stopped>>
------------------------------------------------------------------------------
(* unprotect: teardown visits the entries that are present and the user's, *)
(* below the last level nothing, and frees a table after its entries.      *)

Unprotect(a) == /\ job[a] = Idle /\ a \in live
                /\ live' = live \ {a}
                /\ Do(a, [Idle EXCEPT !.op = "teardown",
                                      !.path = <<[table |-> ptr[a].to, index |-> 0]>>])
                /\ UNCHANGED <<tbl, ptr, free, owned, stopped>>

\* Variant: present entries are visited, the kernel's too.
VisitedAll(e, level) == level < Levels /\ "P" \in e.flags

Deepest(a) == job[a].path[Len(job[a].path)]
Visited(e, level) == level < Levels /\ {"P", "U"} \subseteq e.flags

\* The next entry that the loop in the deepest table visits; LastIndex + 1 if
\* there is none.
NextVisit(a) ==
    LET d == Deepest(a)
        left == {i \in d.index .. LastIndex : Visited(tbl[d.table][i], Len(job[a].path))}
    IN Min(left \cup {LastIndex + 1})

Enters(a) ==
    LET j == job[a] n == Len(j.path) i == NextVisit(a)
    IN /\ j.op = "teardown" /\ i \in Index
       /\ Do(a, [j EXCEPT !.path = Append([@ EXCEPT ![n].index = i + 1],
                 [table |-> tbl[Deepest(a).table][i].to, index |-> 0])])
       /\ UNCHANGED <<tbl, ptr, live, free, owned, stopped>>

Frees(a) ==
    LET j == job[a] n == Len(j.path) f == Deepest(a).table
    IN /\ j.op = "teardown" /\ NextVisit(a) \notin Index
       /\ free' = free \cup {f}
       /\ owned' = [owned EXCEPT ![a] = @ \ {f}]
       /\ Do(a, IF n = 1 THEN Idle ELSE [j EXCEPT !.path = SubSeq(@, 1, n - 1)])
       /\ UNCHANGED <<tbl, ptr, live, stopped>>

Step(a) == \/ Protect(a) \/ Root(a) \/ Zero(a) \/ Fill(a)
           \/ Map(a) \/ Unmap(a) \/ Down(a) \/ NewTable(a) \/ Link(a) \/ Enter(a) \/ Return(a)
           \/ Unprotect(a) \/ Enters(a) \/ Frees(a)

Next == ~stopped /\ \E a \in As : Step(a)
Spec == Init /\ [][Next]_vars
------------------------------------------------------------------------------
\* What the processor finds at an address: the entries on the way to it.
Entries(a, va) ==
    LET E[n \in 0 .. Levels] ==
          IF n = 0 THEN ptr[a]
          ELSE IF "P" \in E[n - 1].flags THEN tbl[E[n - 1].to][va[n]] ELSE Absent
    IN E

Translate(a, va) ==
    LET E == Entries(a, va)
    IN IF \E n \in 0 .. Levels : ~({"P", "U"} \subseteq E[n].flags) THEN None
       ELSE [page |-> E[Levels].to, write |-> \A n \in 1 .. Levels : "W" \in E[n].flags]

Space == [a \in As |-> IF a \in live THEN [va \in Va |-> Translate(a, va)] ELSE None]

Abstract == INSTANCE AddressSpace WITH space <- Space

(* At every moment a user program sees the address space that the calls    *)
(* have made, with the rights they gave, and a call changes one address of *)
(* one address space, in one step.                                         *)
ImplementsAddressSpace == Abstract!Spec

\* The tables of an address space, level by level.
Tables(a) ==
    LET T[n \in 1 .. Levels] ==
          IF n = 1 THEN {ptr[a].to}
          ELSE {tbl[x[1]][x[2]].to :
                  x \in {y \in T[n - 1] \X Index : {"P", "U"} \subseteq tbl[y[1]][y[2]].flags}}
    IN UNION {T[n] : n \in 1 .. Levels}

(* No table is in two address spaces, none is lost, none is freed twice,   *)
(* and an address space that is gone has given back all of them.           *)
TablesKept ==
    /\ \A a \in As : job[a] = Idle => owned[a] = IF a \in live THEN Tables(a) ELSE {}
    /\ \A a, b \in As : a # b => owned[a] \cap owned[b] = {}
    /\ free = Frame \ UNION {owned[a] : a \in As}

(* Every address space has the kernel's part, out of the user's reach.     *)
KernelShared == \A a \in live, i \in Kernel :
    tbl[ptr[a].to][i] = tbl[Kpt][i] /\ "U" \notin tbl[ptr[a].to][i].flags

VmeSafe == TypeOK /\ TablesKept /\ KernelShared
==============================================================================
