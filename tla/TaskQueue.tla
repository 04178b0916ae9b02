------------------------------ MODULE TaskQueue ------------------------------
(***************************************************************************)
(* The task queues of the kernel (lab2/src/kmt.c, struct tasks of kmt.h):  *)
(* a singly linked list that starts with a dummy node and has one lock for *)
(* each end, so that an enqueue and a dequeue run at the same time.  One   *)
(* step is one access to memory the two ends share; accesses that only     *)
(* touch a node nobody else can reach are part of the step next to them.   *)
(* A node is taken from and given back to pmm, which may hand a freed node *)
(* out again at once.  Nothing is said of fairness: a caller interrupted   *)
(* inside kmt_spin_lock may leave a lock taken for good (SpinLock).        *)
(***************************************************************************)
EXTENDS Naturals, Sequences, FiniteSets

CONSTANTS Proc,  \* the flows of control that call the queue
          Task,  \* task pointers
          Node,  \* the memory pmm can make a tasksNode_t of
          Nil    \* the null pointer

ASSUME NilAssumption == Nil \notin Proc \cup Task \cup Node
ASSUME NodeAssumption == Node # {}

VARIABLES next, task,           \* the fields of each node
          allocated,            \* nodes handed out by pmm->alloc and not freed
          headNode, tailNode,   \* the two ends
          headLock, tailLock,   \* the CPU that holds each lock, or Nil
          pc,                   \* where each CPU is
          arg,                  \* `task' of tasks_enqueue, `ret' of tasks_dequeue
          new,                  \* `newNode' of tasks_enqueue, `newhead' of tasks_dequeue
          chain                 \* history: the dummy node and the linked nodes, in order

mem   == <<next, task, allocated>>
ends  == <<headNode, tailNode>>
locks == <<headLock, tailLock>>
vars  == <<next, task, allocated, headNode, tailNode, headLock, tailLock,
           pc, arg, new, chain>>

TailSection == {"alloc", "link", "moveTail", "unlockTail", "noMemory"}
HeadSection == {"read", "free", "moveHead", "clear", "unlockHead"}
Labels == {"idle", "lockTail", "lockHead"} \cup TailSection \cup HeadSection

TypeOK == /\ next \in [Node -> Node \cup {Nil}]
          /\ task \in [Node -> Task \cup {Nil}]
          /\ allocated \in SUBSET Node
          /\ headNode \in Node
          /\ tailNode \in Node
          /\ headLock \in Proc \cup {Nil}
          /\ tailLock \in Proc \cup {Nil}
          /\ pc \in [Proc -> Labels]
          /\ arg \in [Proc -> Task \cup {Nil}]
          /\ new \in [Proc -> Node \cup {Nil}]
          /\ chain \in Seq(Node)

\* tasks_init: one dummy node, both ends on it.
Init == /\ \E n \in Node : /\ headNode = n
                           /\ allocated = {n}
                           /\ chain = <<n>>
        /\ tailNode = headNode
        /\ next = [n \in Node |-> Nil]
        /\ task = [n \in Node |-> Nil]
        /\ headLock = Nil
        /\ tailLock = Nil
        /\ pc = [p \in Proc |-> "idle"]
        /\ arg = [p \in Proc |-> Nil]
        /\ new = [p \in Proc |-> Nil]

Goto(p, from, to) == pc[p] = from /\ pc' = [pc EXCEPT ![p] = to]
------------------------------------------------------------------------------
(* tasks_enqueue                                                            *)

Enqueue(p, t) == /\ Goto(p, "idle", "lockTail")
                 /\ arg' = [arg EXCEPT ![p] = t]
                 /\ UNCHANGED <<mem, ends, locks, new, chain>>

\* Variant: tailLock is not tested before it is taken.
LockTailUntested(p) == /\ Goto(p, "lockTail", "alloc")
                       /\ tailLock' = p
                       /\ UNCHANGED <<mem, ends, headLock, arg, new, chain>>

LockTail(p) == /\ Goto(p, "lockTail", "alloc")
               /\ tailLock = Nil
               /\ tailLock' = p
               /\ UNCHANGED <<mem, ends, headLock, arg, new, chain>>

\* The new node is filled in before anyone can reach it.
Alloc(p) == /\ Goto(p, "alloc", "link")
            /\ \E n \in Node \ allocated :
                  /\ allocated' = allocated \cup {n}
                  /\ new' = [new EXCEPT ![p] = n]
                  /\ task' = [task EXCEPT ![n] = arg[p]]
                  /\ next' = [next EXCEPT ![n] = Nil]
            /\ UNCHANGED <<ends, locks, arg, chain>>

\* pmm->alloc gives NULL: return 1, with tailLock still held.  Every caller
\* then halts the machine (HELP).
NoMemory(p) == /\ Goto(p, "alloc", "noMemory")
               /\ allocated = Node
               /\ UNCHANGED <<mem, ends, locks, arg, new, chain>>

Link(p) == /\ Goto(p, "link", "moveTail")
           /\ next' = [next EXCEPT ![tailNode] = new[p]]
           /\ chain' = Append(chain, new[p])
           /\ UNCHANGED <<task, allocated, ends, locks, arg, new>>

\* Variant: tailNode moves to the next of the new node.
MoveTailPast(p) == /\ Goto(p, "moveTail", "unlockTail")
                   /\ tailNode' = next[new[p]]
                   /\ UNCHANGED <<mem, headNode, locks, arg, new, chain>>

MoveTail(p) == /\ Goto(p, "moveTail", "unlockTail")
               /\ tailNode' = new[p]
               /\ UNCHANGED <<mem, headNode, locks, arg, new, chain>>

UnlockTail(p) == /\ Goto(p, "unlockTail", "idle")
                 /\ tailLock' = Nil
                 /\ arg' = [arg EXCEPT ![p] = Nil]
                 /\ new' = [new EXCEPT ![p] = Nil]
                 /\ UNCHANGED <<mem, ends, headLock, chain>>
------------------------------------------------------------------------------
(* tasks_dequeue                                                            *)

Dequeue(p) == /\ Goto(p, "idle", "lockHead")
              /\ UNCHANGED <<mem, ends, locks, arg, new, chain>>

\* Variant: headLock is not tested before it is taken.
LockHeadUntested(p) == /\ Goto(p, "lockHead", "read")
                       /\ headLock' = p
                       /\ UNCHANGED <<mem, ends, tailLock, arg, new, chain>>

LockHead(p) == /\ Goto(p, "lockHead", "read")
               /\ headLock = Nil
               /\ headLock' = p
               /\ UNCHANGED <<mem, ends, tailLock, arg, new, chain>>

ReadEmpty(p) == /\ Goto(p, "read", "unlockHead")
                /\ next[headNode] = Nil
                /\ UNCHANGED <<mem, ends, locks, arg, new, chain>>

ReadHead(p) == /\ Goto(p, "read", "free")
               /\ next[headNode] # Nil
               /\ new' = [new EXCEPT ![p] = next[headNode]]
               /\ arg' = [arg EXCEPT ![p] = task[next[headNode]]]
               /\ UNCHANGED <<mem, ends, locks, chain>>

\* Variant: the node with the task is freed, not the old dummy node.
FreeNew(p) == /\ Goto(p, "free", "moveHead")
              /\ allocated' = allocated \ {new[p]}
              /\ chain' = Tail(chain)
              /\ UNCHANGED <<next, task, ends, locks, arg, new>>

\* pmm->free(tasks->headNode): the old dummy node is free before headNode
\* leaves it.
Free(p) == /\ Goto(p, "free", "moveHead")
           /\ allocated' = allocated \ {headNode}
           /\ chain' = Tail(chain)
           /\ UNCHANGED <<next, task, ends, locks, arg, new>>

MoveHead(p) == /\ Goto(p, "moveHead", "clear")
               /\ headNode' = new[p]
               /\ UNCHANGED <<mem, tailNode, locks, arg, new, chain>>

Clear(p) == /\ Goto(p, "clear", "unlockHead")
            /\ task' = [task EXCEPT ![headNode] = Nil]
            /\ UNCHANGED <<next, allocated, ends, locks, arg, new, chain>>

UnlockHead(p) == /\ Goto(p, "unlockHead", "idle")
                 /\ headLock' = Nil
                 /\ arg' = [arg EXCEPT ![p] = Nil]
                 /\ new' = [new EXCEPT ![p] = Nil]
                 /\ UNCHANGED <<mem, ends, tailLock, chain>>
------------------------------------------------------------------------------
Step(p) == \/ LockTail(p) \/ Alloc(p) \/ NoMemory(p)
           \/ Link(p) \/ MoveTail(p) \/ UnlockTail(p)
           \/ LockHead(p) \/ ReadEmpty(p) \/ ReadHead(p)
           \/ Free(p) \/ MoveHead(p) \/ Clear(p) \/ UnlockHead(p)

Next == \E p \in Proc : \/ \E t \in Task : Enqueue(p, t)
                        \/ Dequeue(p)
                        \/ Step(p)

Spec == Init /\ [][Next]_vars
------------------------------------------------------------------------------
(* Properties                                                               *)

\* No access through a pointer to freed memory, although the dummy node is
\* freed while headNode, and perhaps tailNode, still point to it: at every
\* dereference the node is allocated, and no node is freed twice.
NoUseAfterFree ==
  \A p \in Proc :
     /\ pc[p] = "link" => tailNode \in allocated
     /\ pc[p] \in {"read", "free", "clear"} => headNode \in allocated
     /\ pc[p] \in {"link", "moveTail", "free", "moveHead"} => new[p] \in allocated

\* The lists the two ends walk are one list: between operations it runs from
\* headNode to tailNode over allocated nodes, and every node after the dummy
\* holds a task (the asserts on tailNode, headNode and ret).
ListIntact ==
  /\ \A i \in 1 .. Len(chain) :
        /\ chain[i] \in allocated
        /\ i > 1 => task[chain[i]] # Nil
        /\ next[chain[i]] = IF i = Len(chain) THEN Nil ELSE chain[i + 1]
  /\ headLock = Nil => headNode = chain[1]
  /\ tailLock = Nil => tailNode = chain[Len(chain)]

\* The queue the linked list represents, and the operations in progress.
Status == [p \in Proc |->
             CASE pc[p] = "idle" -> "idle"
               [] pc[p] \in {"lockTail", "alloc", "link", "noMemory"} -> "enqueue"
               [] pc[p] \in {"moveTail", "unlockTail"} -> "enqueued"
               [] pc[p] \in {"lockHead", "read", "free"} -> "dequeue"
               [] OTHER -> "dequeued"]

Queue == [i \in 1 .. Len(chain) - 1 |-> task[chain[i + 1]]]

\* What a CPU has in hand counts as its result only once it has taken it.
Val == [p \in Proc |-> IF pc[p] = "free" THEN Nil ELSE arg[p]]

Fifo == INSTANCE TaskFifo WITH queue <- Queue, status <- Status, val <- Val

\* The linked list with its two locks is a first-in first-out queue: every
\* tasks_enqueue and tasks_dequeue takes effect at one instant.
ImplementsFifo == Fifo!FSpec
==============================================================================
