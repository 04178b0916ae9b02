---------------------------------- MODULE MCMem --------------------------------
(* The memory manager under three kinds of callers: the two builds of lab1's    *)
(* os_run, and callers that allocate and free whatever they like, as those of   *)
(* lab2 may.                                                                    *)
(*                                                                              *)
(* Pages of 8 bytes instead of 4096.  With TEST, p is of any size, r smaller    *)
(* than two pages, q smaller than a page; without it, the four objects are of   *)
(* two pages, a page, two pages and less than a page.                           *)
EXTENDS Lab1

VARIABLE free    \* callers do what they like

MCVars == <<allVars, free>>

Call(keep, sizes) == [op |-> "alloc", keep |-> keep, sizes |-> sizes]
Then(op) == [op |-> op]

MCScript(t) ==
    IF t THEN <<Call(TRUE, {3, 15, 17}), Call(FALSE, {1, 7}), Call(FALSE, {4}),
                Then("free"), Then("again")>>
    ELSE <<Call(TRUE, {15}), Then("free"), Call(TRUE, {8}), Then("free"),
           Call(TRUE, {15}), Then("free"), Call(TRUE, {1}), Then("free")>>

MCInit == Lab1Init /\ free \in BOOLEAN /\ (free => ~test)
MCNext == /\ UNCHANGED free
          /\ \/ ~free /\ Lab1Next
             \/ free /\ Next /\ UNCHANGED lab1Vars
MCSpec == MCInit /\ [][MCNext]_MCVars
==============================================================================
