-------------------------------- MODULE MCBoot --------------------------------
(* Small kernels for Boot, with sectors of two bytes, laid out as the linker *)
(* does: a segment starts at the place in its sector of memory that it has   *)
(* in its sector of the file, and the sectors that are written to load it    *)
(* hold nothing of the others.                                               *)
EXTENDS Boot

First  == {[filesz |-> f, memsz |-> f + b, paddr |-> p, offset |-> p + 2] :
             f \in {1, 3}, b \in {0, 2}, p \in {0, 1}}
Second == [filesz |-> 2, memsz |-> 3, paddr |-> 7, offset |-> 5]

\* Nothing of the file: the header of the stack, and segments of no or some
\* zeros that start in the middle or at the start of a sector.
Stack == [filesz |-> 0, memsz |-> 0, paddr |-> 0, offset |-> 0]
Bss   == {[filesz |-> 0, memsz |-> z, paddr |-> p, offset |-> p + 2] :
             z \in {0, 1}, p \in {10, 11}}

MCImage == {<<s, Second>> : s \in First} \cup {<<Second>>}
             \cup {<<b, s, Stack, Second>> : s \in First, b \in Bss}
MCAddress == 0 .. 15
===============================================================================
