---------------------------------- MODULE MCVme --------------------------------
(* Three levels, one entry for the kernel at level 1, and addresses that share *)
(* all of their tables, two of them, or one.                                   *)
EXTENDS Vme, TLC

MCVa == {<<1, 0, 0>>, <<1, 0, 1>>, <<1, 1, 0>>}
\* The first two are read only.
MCProt(va) == {va[2] = 1}
Symmetry == Permutations(As) \cup Permutations(Frame)
==============================================================================
