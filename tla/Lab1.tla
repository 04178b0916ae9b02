---------------------------------- MODULE Lab1 --------------------------------
(***************************************************************************)
(* The programs of lab1 over its memory manager, and the checker of their  *)
(* trace (testforlab1/test.c).  control.c is mempool.c of lab2 but for one *)
(* line, so each operation is the one of MemPool.  The line: when a small  *)
(* object needs a page and there is none, line 120 reads a null pointer    *)
(* before line 121 tests it.  The compiler may drop the test, and the page *)
(* at address 0 may hold anything: the machine halts or NULL is returned.  *)
(*                                                                         *)
(* os_run comes in two builds.  With TEST every CPU allocates objects and  *)
(* frees some of them until memory is exhausted, and each call prints a    *)
(* line after it has finished; the checker reads these lines.  A line is   *)
(* taken to arrive in one piece.  Without TEST it makes four calls.        *)
(***************************************************************************)
EXTENDS MemPool

CONSTANTS Script(_)   \* os_run with TEST or without: a sequence of steps
                      \* [op, keep, sizes], the sizes in bytes

Step == [op : {"free", "again"}] \cup [op : {"alloc"}, keep : BOOLEAN, sizes : SUBSET Nat]

\* Before its i-th step the script has an object p that it has not freed.
Keeping(t, i) ==
    \E j \in 1 .. i - 1 : /\ Script(t)[j].op = "alloc" /\ Script(t)[j].keep
                          /\ \A k \in j + 1 .. i - 1 : Script(t)[k].op # "free"

\* os_run frees p only when it has allocated it, and once.
ASSUME ScriptAssumption ==
    \A t \in BOOLEAN :
       /\ Script(t) \in Seq(Step)
       /\ \A i \in 1 .. Len(Script(t)) : Script(t)[i].op = "free" => Keeping(t, i)

VARIABLES test,     \* TEST is defined
          step,     \* of each CPU: where in the script it is
          kept,     \* the object p of each CPU, <<>> if NULL
          failed,   \* p, q or r is NULL
          said,     \* the line that a CPU is about to print
          known,    \* the checker's list
          verdict,  \* what the checker has found
          halted

lab1Vars == <<test, step, kept, failed, said, known, verdict, halted>>
allVars == <<vars, lab1Vars>>

Silent == [kind |-> "none", object |-> <<>>]
Line == [kind : {"none", "alloc", "free"}, object : Address \X Address]

Lab1TypeOK == /\ test \in BOOLEAN
              /\ step \in [Cpu -> 1 .. Len(Script(test)) + 1]
              /\ \A c \in Cpu : kept[c] = <<>> \/ kept[c] \in Address \X Address
              /\ failed \in [Cpu -> BOOLEAN]
              /\ \A c \in Cpu : said[c] = Silent \/ said[c] \in Line
              /\ known \subseteq Address \X Address
              /\ verdict \in {"none", "align", "overlap", "free error"}
              /\ halted \in BOOLEAN

Lab1Init == /\ Init
            /\ test \in BOOLEAN
            /\ step = [c \in Cpu |-> 1]
            /\ kept = [c \in Cpu |-> <<>>]
            /\ failed = [c \in Cpu |-> FALSE]
            /\ said = [c \in Cpu |-> Silent]
            /\ known = {}
            /\ verdict = "none"
            /\ halted = FALSE

Now(c) == IF step[c] > Len(Script(test)) THEN [op |-> "end"] ELSE Script(test)[step[c]]
Ready(c, op) == ~halted /\ said[c] = Silent /\ Now(c).op = op

\* A call returns: the object, or NULL, and the line it prints.
Returned(c, object, line) ==
    /\ step' = [step EXCEPT ![c] = @ + 1]
    /\ kept' = IF Now(c).op = "alloc" /\ Now(c).keep THEN [kept EXCEPT ![c] = object] ELSE kept
    /\ failed' = [failed EXCEPT ![c] = @ \/ (Now(c).op = "alloc" /\ object = <<>>)]
    /\ said' = IF test THEN [said EXCEPT ![c] = line] ELSE said
    /\ UNCHANGED <<test, known, verdict, halted>>

New == CHOOSE o \in live' : o \notin live
Allocated(c) == Returned(c, New, [kind |-> "alloc", object |-> New])
NoObject(c) == Returned(c, <<>>, Silent)
------------------------------------------------------------------------------
(* kalloc                                                                  *)

Alloc(c) == /\ Ready(c, "alloc")
            /\ \E bytes \in Now(c).sizes :
                 IF bytes \in 1 .. MaxSize
                 THEN /\ Carve(c, RealSize(bytes))
                      /\ IF pc'[c] = "idle" THEN Allocated(c) ELSE UNCHANGED lab1Vars
                 ELSE pc[c] = "idle" /\ NoObject(c) /\ UNCHANGED vars

\* Without a page line 120 reads through a null pointer.
Deliver1(c) == /\ ~halted /\ Fetch(c)
               /\ \/ /\ pc'[c] = "idle"
                     /\ NoObject(c)
                  \/ /\ pc'[c] = "idle" /\ size[c] < PageSize
                     /\ halted' = TRUE
                     /\ UNCHANGED <<test, step, kept, failed, said, known, verdict>>
                  \/ pc'[c] = "link" /\ UNCHANGED lab1Vars

Give(c) == ~halted /\ Link(c) /\ Allocated(c)
------------------------------------------------------------------------------
(* kfree                                                                   *)

Freed(c, o) == Returned(c, <<>>, [kind |-> "free", object |-> o])

Free1(c) == /\ Ready(c, "free")
            /\ IF kept[c] = <<>> THEN pc[c] = "idle" /\ NoObject(c) /\ UNCHANGED vars
               ELSE Kfree(c, kept[c]) /\ UNCHANGED lab1Vars

Receive(c) == /\ ~halted /\ Search(c)
              /\ IF pc'[c] = "idle" THEN Freed(c, kept[c]) ELSE UNCHANGED lab1Vars

\* Variant: the line is printed before the call.
ReceiveEarly(c) == /\ ~halted /\ GiveBack(c) /\ NoObject(c)

TakeBack(c) == ~halted /\ GiveBack(c) /\ Freed(c, kept[c])
------------------------------------------------------------------------------
(* os_run                                                                  *)

\* The end of the loop of TEST: again, or "stop" and halt.
Again(c) == /\ Ready(c, "again") /\ pc[c] = "idle"
            /\ step' = [step EXCEPT ![c] = 1]
            /\ halted' = failed[c]
            /\ UNCHANGED <<vars, test, kept, failed, said, known, verdict>>
------------------------------------------------------------------------------
(* The checker reads the next line.                                        *)

\* Objects without their headers.
Overlap(o, u) == o[1] < u[2] /\ u[1] < o[2]

InsertNode(o) == IF o[1] % (o[2] - o[1]) # 0 THEN "align"
                 ELSE IF \E u \in known : Overlap(o, u) THEN "overlap" ELSE "none"

DeleteNode(o) == IF \E u \in known : u[1] = o[1] THEN "none" ELSE "free error"

Printf(c) ==
    LET o == said[c].object
        result == IF said[c].kind = "alloc" THEN InsertNode(o) ELSE DeleteNode(o)
    IN /\ ~halted /\ said[c] # Silent
       /\ IF verdict = "none"
          THEN /\ verdict' = result
               /\ known' = IF said[c].kind = "free" THEN {u \in known : u[1] # o[1]}
                           ELSE IF result = "none" THEN known \cup {o} ELSE known
          ELSE UNCHANGED <<verdict, known>>
       /\ said' = [said EXCEPT ![c] = Silent]
       /\ UNCHANGED <<vars, test, step, kept, failed, halted>>

Lab1Next == \E c \in Cpu : \/ Alloc(c) \/ Deliver1(c) \/ Give(c)
                           \/ Free1(c) \/ Receive(c) \/ TakeBack(c)
                           \/ Again(c) \/ Printf(c)

Lab1Spec == Lab1Init /\ [][Lab1Next]_allVars
------------------------------------------------------------------------------
Unsaid(kind) == {said[c].object : c \in {d \in Cpu : said[d].kind = kind}}
Freeing == {kept[c] : c \in {d \in Cpu : pc[d] \in {"search", "giveBack", "lost"}}}

(* The checker's list is what the callers have, but for the lines that are *)
(* still to come; so that it never complains of alignment or of a free.    *)
TraceKnown ==
    /\ verdict \in {"none", "overlap"}
    /\ verdict = "none" /\ test =>
          known = (live \ Unsaid("alloc")) \cup Unsaid("free") \cup Freeing

(* It complains of an overlap only when an object that is printed lies     *)
(* where one has been freed by a CPU that has yet to say so: on one CPU    *)
(* never, on several it may, although the objects are apart.               *)
FalseAlarm == \A c \in Cpu : verdict = "none" /\ said[c].kind = "alloc" =>
    \A u \in known : Overlap(said[c].object, u) => u \in Unsaid("free")

Lab1Safe == Lab1TypeOK /\ TraceKnown /\ FalseAlarm
==============================================================================
