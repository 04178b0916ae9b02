------------------------------ MODULE AddressSpace ----------------------------
(* What the virtual memory of the AM promises (am.h: protect, unprotect and *)
(* map): an address space is a function from the addresses of the user area *)
(* to pages, which map changes at one address and at once.                  *)
CONSTANTS As, Va, Page, None

VARIABLES space,   \* of each address space: None, or what each address means
          stopped  \* the machine has panicked

Unmapped == [va \in Va |-> None]

Init == /\ space = [a \in As |-> None]
        /\ stopped = FALSE

\* What one call may make of an address space.
Protect(old, new) == old = None /\ new = Unmapped

Unprotect(old, new) == old # None /\ new = None

Map(old, new, va) == /\ old # None /\ new # None
                     /\ old[va] = None
                     /\ \E p \in Page, w \in BOOLEAN :
                           new = [old EXCEPT ![va] = [page |-> p, write |-> w]]

Unmap(old, new, va) == /\ old # None /\ new # None
                       /\ old[va] # None
                       /\ new = [old EXCEPT ![va] = None]

Call(old, new) == \/ Protect(old, new) \/ Unprotect(old, new)
                  \/ \E va \in Va : Map(old, new, va) \/ Unmap(old, new, va)

\* One address space changes.
Change == LET before == space after == space'
          IN /\ ~stopped /\ UNCHANGED stopped
             /\ before # after
             /\ \E a \in As : /\ Call(before[a], after[a])
                              /\ \A b \in As \ {a} : after[b] = before[b]

\* A panic: an address is mapped twice, or not mapped when it is to be
\* unmapped, or there is no memory for a table.
Stop == stopped' = TRUE /\ UNCHANGED space

Next == Stop \/ Change
Spec == Init /\ [][Next]_<<space, stopped>>
==============================================================================
