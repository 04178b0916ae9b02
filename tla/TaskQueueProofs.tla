--------------------------- MODULE TaskQueueProofs ---------------------------
(***************************************************************************)
(* Proofs about TaskQueue for any set of callers, tasks and nodes: no use  *)
(* after free, an intact list, and the refinement of the abstract FIFO.    *)
(***************************************************************************)
EXTENDS TaskQueue, SequenceTheorems, TLAPS

\* A lock is held exactly by the caller that is in its critical section.
LockInv == \A p \in Proc : /\ tailLock = p <=> pc[p] \in TailSection
                           /\ headLock = p <=> pc[p] \in HeadSection

\* The nodes of the list are distinct, allocated and linked in order.
ChainInv == /\ Len(chain) >= 1
            /\ \A i \in 1 .. Len(chain) :
                  /\ chain[i] \in allocated
                  /\ i > 1 => task[chain[i]] \in Task
                  /\ i < Len(chain) => next[chain[i]] = chain[i + 1]
                  /\ i = Len(chain) => next[chain[i]] = Nil
            /\ \A i, j \in 1 .. Len(chain) : chain[i] = chain[j] => i = j

\* headNode is the dummy node, except while a dequeue has freed the old one
\* and not yet moved headNode to the new one, which it knows.
HeadInv == /\ (\A p \in Proc : pc[p] # "moveHead") => headNode = chain[1]
           /\ \A p \in Proc :
                 /\ pc[p] = "moveHead" => new[p] = chain[1]
                 /\ pc[p] = "free" => /\ Len(chain) >= 2
                                      /\ new[p] = chain[2]
                                      /\ arg[p] = task[chain[2]]

\* tailNode is the last node, except while an enqueue has linked its node and
\* not yet moved tailNode to it.
TailInv == /\ (\A p \in Proc : pc[p] # "moveTail") => tailNode = chain[Len(chain)]
           /\ \A p \in Proc : pc[p] = "moveTail" => new[p] = chain[Len(chain)]

\* A node about to be linked is private and filled in.
NewInv == \A p \in Proc :
             /\ pc[p] \in {"lockTail", "alloc", "link"} => arg[p] \in Task
             /\ pc[p] \in {"idle", "lockHead", "read"} => arg[p] = Nil
             /\ pc[p] = "link" =>
                   /\ new[p] \in allocated
                   /\ \A i \in 1 .. Len(chain) : chain[i] # new[p]
                   /\ next[new[p]] = Nil
                   /\ task[new[p]] = arg[p]

IInv == TypeOK /\ LockInv /\ ChainInv /\ HeadInv /\ TailInv /\ NewInv
------------------------------------------------------------------------------
\* No step of any caller breaks the invariant: one step of the proof for each
\* action, one under it for each part of the invariant.
THEOREM Inductive == IInv /\ [Next]_vars => IInv'
<1> SUFFICES ASSUME IInv, [Next]_vars PROVE IInv'
  OBVIOUS
<1> USE NilAssumption DEF Labels, TailSection, HeadSection, mem, ends, locks, Goto
<1>1. ASSUME NEW p \in Proc, NEW t \in Task, Enqueue(p, t) PROVE IInv'
  <2>1. TypeOK'
    BY <1>1 DEF IInv, TypeOK, Enqueue
  <2>2. LockInv'
    BY <1>1 DEF IInv, LockInv, Enqueue
  <2>3. ChainInv'
    BY <1>1 DEF IInv, ChainInv, Enqueue
  <2>4. HeadInv'
    BY <1>1 DEF IInv, HeadInv, Enqueue
  <2>5. TailInv'
    BY <1>1 DEF IInv, TailInv, Enqueue
  <2>6. NewInv'
    BY <1>1 DEF IInv, TypeOK, NewInv, Enqueue
  <2> QED BY <2>1, <2>2, <2>3, <2>4, <2>5, <2>6 DEF IInv
<1>2. ASSUME NEW p \in Proc, LockTail(p) PROVE IInv'
  <2>1. TypeOK'
    BY <1>2 DEF IInv, TypeOK, LockTail
  <2>2. LockInv'
    BY <1>2 DEF IInv, TypeOK, LockInv, LockTail
  <2>3. ChainInv'
    BY <1>2 DEF IInv, ChainInv, LockTail
  <2>4. HeadInv'
    BY <1>2 DEF IInv, HeadInv, LockTail
  <2>5. TailInv'
    BY <1>2 DEF IInv, TailInv, LockTail
  <2>6. NewInv'
    BY <1>2 DEF IInv, NewInv, LockTail
  <2> QED BY <2>1, <2>2, <2>3, <2>4, <2>5, <2>6 DEF IInv
<1>3. ASSUME NEW p \in Proc, Alloc(p) PROVE IInv'
  <2>1. TypeOK'
    BY <1>3 DEF IInv, TypeOK, Alloc
  <2>2. LockInv'
    BY <1>3 DEF IInv, LockInv, Alloc
  <2>3. ChainInv'
    BY <1>3 DEF IInv, ChainInv, Alloc
  <2>4. HeadInv'
    BY <1>3 DEF IInv, ChainInv, HeadInv, Alloc
  <2>5. TailInv'
    BY <1>3 DEF IInv, TailInv, Alloc
  <2>6. NewInv'
    BY <1>3 DEF IInv, TypeOK, ChainInv, NewInv, Alloc
  <2> QED BY <2>1, <2>2, <2>3, <2>4, <2>5, <2>6 DEF IInv
<1>4. ASSUME NEW p \in Proc, NoMemory(p) PROVE IInv'
  <2>1. TypeOK'
    BY <1>4 DEF IInv, TypeOK, NoMemory
  <2>2. LockInv'
    BY <1>4 DEF IInv, LockInv, NoMemory
  <2>3. ChainInv'
    BY <1>4 DEF IInv, ChainInv, NoMemory
  <2>4. HeadInv'
    BY <1>4 DEF IInv, HeadInv, NoMemory
  <2>5. TailInv'
    BY <1>4 DEF IInv, TailInv, NoMemory
  <2>6. NewInv'
    BY <1>4 DEF IInv, NewInv, NoMemory
  <2> QED BY <2>1, <2>2, <2>3, <2>4, <2>5, <2>6 DEF IInv
<1>5. ASSUME NEW p \in Proc, Link(p) PROVE IInv'
  <2>1. TypeOK'
    BY <1>5 DEF IInv, TypeOK, NewInv, Link
  <2>2. LockInv'
    BY <1>5 DEF IInv, LockInv, Link
  <2>3. ChainInv'
    <3>1. tailNode = chain[Len(chain)] /\ tailNode # new[p] /\ new[p] \in allocated
      BY <1>5 DEF IInv, LockInv, ChainInv, TailInv, NewInv, Link
    <3>2. /\ chain' = Append(chain, new[p]) /\ Len(chain') = Len(chain) + 1
          /\ \A i \in 1 .. Len(chain) : chain'[i] = chain[i]
          /\ chain'[Len(chain')] = new[p]
      BY <1>5 DEF Link
    <3>3. \A i \in 1 .. Len(chain') : /\ chain'[i] \in allocated'
                                      /\ i > 1 => task'[chain'[i]] \in Task
      BY <1>5 DEF IInv, ChainInv, NewInv, Link
    <3>4. \A i \in 1 .. Len(chain') : i < Len(chain') => next'[chain'[i]] = chain'[i + 1]
      BY <1>5, <3>1 DEF IInv, TypeOK, ChainInv, Link
    <3>5. next'[chain'[Len(chain')]] = Nil
      BY <1>5, <3>1 DEF IInv, NewInv, Link
    <3>6. \A i, j \in 1 .. Len(chain') : chain'[i] = chain'[j] => i = j
      BY <1>5 DEF IInv, ChainInv, NewInv, Link
    <3>7. Len(chain') >= 1
      BY <3>2 DEF IInv, ChainInv
    <3> QED
      BY <3>3, <3>4, <3>5, <3>6, <3>7 DEF ChainInv
  <2>4. HeadInv'
    BY <1>5 DEF IInv, ChainInv, HeadInv, Link
  <2>5. TailInv'
    BY <1>5 DEF IInv, TypeOK, LockInv, TailInv, Link
  <2>6. NewInv'
    BY <1>5 DEF IInv, TypeOK, LockInv, NewInv, Link
  <2> QED BY <2>1, <2>2, <2>3, <2>4, <2>5, <2>6 DEF IInv
<1>6. ASSUME NEW p \in Proc, MoveTail(p) PROVE IInv'
  <2>1. TypeOK'
    BY <1>6 DEF IInv, TypeOK, ChainInv, TailInv, MoveTail
  <2>2. LockInv'
    BY <1>6 DEF IInv, LockInv, MoveTail
  <2>3. ChainInv'
    BY <1>6 DEF IInv, ChainInv, MoveTail
  <2>4. HeadInv'
    BY <1>6 DEF IInv, HeadInv, MoveTail
  <2>5. TailInv'
    BY <1>6 DEF IInv, TailInv, MoveTail
  <2>6. NewInv'
    BY <1>6 DEF IInv, NewInv, MoveTail
  <2> QED BY <2>1, <2>2, <2>3, <2>4, <2>5, <2>6 DEF IInv
<1>7. ASSUME NEW p \in Proc, UnlockTail(p) PROVE IInv'
  <2>1. TypeOK'
    BY <1>7 DEF IInv, TypeOK, UnlockTail
  <2>2. LockInv'
    BY <1>7 DEF IInv, TypeOK, LockInv, UnlockTail
  <2>3. ChainInv'
    BY <1>7 DEF IInv, ChainInv, UnlockTail
  <2>4. HeadInv'
    BY <1>7 DEF IInv, HeadInv, UnlockTail
  <2>5. TailInv'
    BY <1>7 DEF IInv, TailInv, UnlockTail
  <2>6. NewInv'
    BY <1>7 DEF IInv, TypeOK, NewInv, UnlockTail
  <2> QED BY <2>1, <2>2, <2>3, <2>4, <2>5, <2>6 DEF IInv
<1>8. ASSUME NEW p \in Proc, Dequeue(p) PROVE IInv'
  <2>1. TypeOK'
    BY <1>8 DEF IInv, TypeOK, Dequeue
  <2>2. LockInv'
    BY <1>8 DEF IInv, LockInv, Dequeue
  <2>3. ChainInv'
    BY <1>8 DEF IInv, ChainInv, Dequeue
  <2>4. HeadInv'
    BY <1>8 DEF IInv, HeadInv, Dequeue
  <2>5. TailInv'
    BY <1>8 DEF IInv, TailInv, Dequeue
  <2>6. NewInv'
    BY <1>8 DEF IInv, NewInv, Dequeue
  <2> QED BY <2>1, <2>2, <2>3, <2>4, <2>5, <2>6 DEF IInv
<1>9. ASSUME NEW p \in Proc, LockHead(p) PROVE IInv'
  <2>1. TypeOK'
    BY <1>9 DEF IInv, TypeOK, LockHead
  <2>2. LockInv'
    BY <1>9 DEF IInv, TypeOK, LockInv, LockHead
  <2>3. ChainInv'
    BY <1>9 DEF IInv, ChainInv, LockHead
  <2>4. HeadInv'
    BY <1>9 DEF IInv, HeadInv, LockHead
  <2>5. TailInv'
    BY <1>9 DEF IInv, TailInv, LockHead
  <2>6. NewInv'
    BY <1>9 DEF IInv, NewInv, LockHead
  <2> QED BY <2>1, <2>2, <2>3, <2>4, <2>5, <2>6 DEF IInv
<1>10. ASSUME NEW p \in Proc, ReadEmpty(p) PROVE IInv'
  <2>1. TypeOK'
    BY <1>10 DEF IInv, TypeOK, ReadEmpty
  <2>2. LockInv'
    BY <1>10 DEF IInv, LockInv, ReadEmpty
  <2>3. ChainInv'
    BY <1>10 DEF IInv, ChainInv, ReadEmpty
  <2>4. HeadInv'
    BY <1>10 DEF IInv, HeadInv, ReadEmpty
  <2>5. TailInv'
    BY <1>10 DEF IInv, TailInv, ReadEmpty
  <2>6. NewInv'
    BY <1>10 DEF IInv, NewInv, ReadEmpty
  <2> QED BY <2>1, <2>2, <2>3, <2>4, <2>5, <2>6 DEF IInv
<1>11. ASSUME NEW p \in Proc, ReadHead(p) PROVE IInv'
  <2>1. TypeOK'
    BY <1>11 DEF IInv, TypeOK, ReadHead
  <2>2. LockInv'
    BY <1>11 DEF IInv, LockInv, ReadHead
  <2>3. ChainInv'
    BY <1>11 DEF IInv, ChainInv, ReadHead
  <2>4. HeadInv'
    BY <1>11 DEF IInv, TypeOK, LockInv, ChainInv, HeadInv, ReadHead
  <2>5. TailInv'
    BY <1>11 DEF IInv, TailInv, ReadHead
  <2>6. NewInv'
    BY <1>11 DEF IInv, TypeOK, NewInv, ReadHead
  <2> QED BY <2>1, <2>2, <2>3, <2>4, <2>5, <2>6 DEF IInv
<1>12. ASSUME NEW p \in Proc, Free(p) PROVE IInv'
  <2>1. TypeOK'
    BY <1>12 DEF IInv, TypeOK, HeadInv, Free
  <2>2. LockInv'
    BY <1>12 DEF IInv, LockInv, Free
  <2>3. ChainInv'
    BY <1>12 DEF IInv, TypeOK, LockInv, ChainInv, HeadInv, NewInv, Free
  <2>4. HeadInv'
    BY <1>12 DEF IInv, TypeOK, LockInv, HeadInv, Free
  <2>5. TailInv'
    BY <1>12 DEF IInv, HeadInv, TailInv, Free
  <2>6. NewInv'
    BY <1>12 DEF IInv, LockInv, HeadInv, NewInv, Free
  <2> QED BY <2>1, <2>2, <2>3, <2>4, <2>5, <2>6 DEF IInv
<1>13. ASSUME NEW p \in Proc, MoveHead(p) PROVE IInv'
  <2>1. TypeOK'
    BY <1>13 DEF IInv, TypeOK, ChainInv, HeadInv, MoveHead
  <2>2. LockInv'
    BY <1>13 DEF IInv, LockInv, MoveHead
  <2>3. ChainInv'
    BY <1>13 DEF IInv, ChainInv, MoveHead
  <2>4. HeadInv'
    BY <1>13 DEF IInv, HeadInv, MoveHead
  <2>5. TailInv'
    BY <1>13 DEF IInv, TailInv, MoveHead
  <2>6. NewInv'
    BY <1>13 DEF IInv, NewInv, MoveHead
  <2> QED BY <2>1, <2>2, <2>3, <2>4, <2>5, <2>6 DEF IInv
<1>14. ASSUME NEW p \in Proc, Clear(p) PROVE IInv'
  <2>1. TypeOK'
    BY <1>14 DEF IInv, TypeOK, Clear
  <2>2. LockInv'
    BY <1>14 DEF IInv, LockInv, Clear
  <2>3. ChainInv'
    BY <1>14 DEF IInv, LockInv, ChainInv, HeadInv, Clear
  <2>4. HeadInv'
    BY <1>14 DEF IInv, LockInv, HeadInv, Clear
  <2>5. TailInv'
    BY <1>14 DEF IInv, TailInv, Clear
  <2>6. NewInv'
    BY <1>14 DEF IInv, LockInv, ChainInv, HeadInv, NewInv, Clear
  <2> QED BY <2>1, <2>2, <2>3, <2>4, <2>5, <2>6 DEF IInv
<1>15. ASSUME NEW p \in Proc, UnlockHead(p) PROVE IInv'
  <2>1. TypeOK'
    BY <1>15 DEF IInv, TypeOK, UnlockHead
  <2>2. LockInv'
    BY <1>15 DEF IInv, TypeOK, LockInv, UnlockHead
  <2>3. ChainInv'
    BY <1>15 DEF IInv, ChainInv, UnlockHead
  <2>4. HeadInv'
    BY <1>15 DEF IInv, HeadInv, UnlockHead
  <2>5. TailInv'
    BY <1>15 DEF IInv, TailInv, UnlockHead
  <2>6. NewInv'
    BY <1>15 DEF IInv, TypeOK, NewInv, UnlockHead
  <2> QED BY <2>1, <2>2, <2>3, <2>4, <2>5, <2>6 DEF IInv
<1>16. CASE UNCHANGED vars
  BY <1>16 DEF IInv, TypeOK, LockInv, ChainInv, HeadInv, TailInv, NewInv, vars
<1> QED
  BY <1>1, <1>2, <1>3, <1>4, <1>5, <1>6, <1>7, <1>8, <1>9, <1>10, <1>11, <1>12, <1>13, <1>14, <1>15, <1>16 DEF Next, Step

\* tasks_init establishes the invariant.
THEOREM Initial == Init => IInv
  BY NilAssumption
     DEF Init, IInv, TypeOK, LockInv, ChainInv, HeadInv, TailInv, NewInv,
         Labels, TailSection, HeadSection

\* The invariant holds whenever the callers have been running.
THEOREM Invariant == Spec => []IInv
  BY Initial, Inductive, PTL DEF Spec

\* Type correctness: in particular headNode and tailNode are never NULL (the
\* asserts of lines 291, 299, 309 and 319).
THEOREM TypeCorrect == Spec => []TypeOK
  BY Invariant, PTL DEF IInv

\* Neither end of the queue reads, writes or frees a node that pmm has already
\* been given back, however the two ends interleave.
THEOREM MemorySafe == Spec => []NoUseAfterFree
<1>1. IInv => NoUseAfterFree
  <2> SUFFICES ASSUME IInv, NEW p \in Proc
               PROVE /\ pc[p] = "link" => tailNode \in allocated
                     /\ pc[p] \in {"read", "free", "clear"} => headNode \in allocated
                     /\ pc[p] \in {"link", "moveTail", "free", "moveHead"}
                           => new[p] \in allocated
    BY DEF NoUseAfterFree
  <2>1. pc[p] = "link" => tailNode = chain[Len(chain)]
    BY DEF IInv, LockInv, TailInv, TailSection
  <2>2. pc[p] \in {"read", "free", "clear"} => headNode = chain[1]
    BY DEF IInv, LockInv, HeadInv, HeadSection
  <2>3. /\ pc[p] = "link" => new[p] \in allocated
        /\ pc[p] = "moveTail" => new[p] = chain[Len(chain)]
        /\ pc[p] = "free" => Len(chain) >= 2 /\ new[p] = chain[2]
        /\ pc[p] = "moveHead" => new[p] = chain[1]
    BY DEF IInv, HeadInv, TailInv, NewInv
  <2> QED
    BY <2>1, <2>2, <2>3 DEF IInv, ChainInv
<1> QED
  BY <1>1, Invariant, PTL

\* The list from headNode to tailNode is never broken, and a node in it always
\* carries a task (the assert on ret in tasks_dequeue).
THEOREM Intact == Spec => []ListIntact
<1>1. IInv => ListIntact
  <2> SUFFICES ASSUME IInv PROVE ListIntact
    OBVIOUS
  <2>1. headLock = Nil => headNode = chain[1]
    BY NilAssumption DEF IInv, LockInv, HeadInv, HeadSection
  <2>2. tailLock = Nil => tailNode = chain[Len(chain)]
    BY NilAssumption DEF IInv, LockInv, TailInv, TailSection
  <2> QED
    BY <2>1, <2>2, NilAssumption DEF IInv, ChainInv, ListIntact
<1> QED
  BY <1>1, Invariant, PTL
------------------------------------------------------------------------------
\* The abstract queue is a sequence of tasks: those after the dummy node.
LEMMA QueueType ==
  ASSUME IInv
  PROVE  /\ Queue \in Seq(Task)
         /\ Len(Queue) = Len(chain) - 1
         /\ \A i \in 1 .. Len(chain) - 1 : Queue[i] = task[chain[i + 1]]
  BY DEF IInv, ChainInv, Queue

\* A step that moves no node and overwrites no waiting task leaves the
\* abstract queue alone.
LEMMA SameQueue ==
  ASSUME IInv, chain' = chain,
         \A i \in 2 .. Len(chain) : task'[chain[i]] = task[chain[i]]
  PROVE  Queue' = Queue
  BY DEF Queue

\* tasks_enqueue takes effect when it links its node ...
LEMMA LinkQueue ==
  ASSUME IInv, IInv', NEW p \in Proc, Link(p)
  PROVE  Queue' = Append(Queue, arg[p])
<1> DEFINE old == Append(Queue, arg[p])
<1>1. /\ Queue \in Seq(Task) /\ Len(Queue) = Len(chain) - 1
      /\ \A i \in 1 .. Len(chain) - 1 : Queue[i] = task[chain[i + 1]]
  BY QueueType
<1>2. /\ Queue' \in Seq(Task) /\ Len(Queue') = Len(chain') - 1
      /\ \A i \in 1 .. Len(chain') - 1 : Queue'[i] = task'[chain'[i + 1]]
  BY DEF IInv, ChainInv, Queue
<1>3. /\ arg[p] \in Task /\ task[new[p]] = arg[p] /\ task' = task /\ new[p] \in Node
      /\ chain' = Append(chain, new[p]) /\ chain \in Seq(Node) /\ Len(chain) >= 1
  BY DEF Link, IInv, TypeOK, NewInv, ChainInv, Goto
<1>4. /\ old \in Seq(Task) /\ Len(old) = Len(chain)
      /\ \A i \in 1 .. Len(chain) - 1 : old[i] = task[chain[i + 1]]
      /\ old[Len(chain)] = arg[p]
  BY <1>1, <1>3
<1>5. /\ Len(Queue') = Len(chain)
      /\ \A i \in 1 .. Len(chain) - 1 : Queue'[i] = task[chain[i + 1]]
      /\ Queue'[Len(chain)] = arg[p]
  BY <1>2, <1>3
<1>6. \A i \in 1 .. Len(Queue') : Queue'[i] = old[i]
  BY <1>4, <1>5
<1> HIDE DEF old
<1> QED
  BY <1>2, <1>4, <1>5, SeqEqual DEF old

\* ... and a tasks_dequeue that finds a task, when it frees the old dummy.
LEMMA FreeQueue ==
  ASSUME IInv, IInv', NEW p \in Proc, Free(p)
  PROVE  Queue # <<>> /\ arg[p] = Head(Queue) /\ Queue' = Tail(Queue)
<1>1. /\ Queue \in Seq(Task) /\ Len(Queue) = Len(chain) - 1
      /\ \A i \in 1 .. Len(chain) - 1 : Queue[i] = task[chain[i + 1]]
  BY QueueType
<1>2. /\ Queue' \in Seq(Task) /\ Len(Queue') = Len(chain') - 1
      /\ \A i \in 1 .. Len(chain') - 1 : Queue'[i] = task'[chain'[i + 1]]
  BY DEF IInv, ChainInv, Queue
<1>3. /\ Len(chain) >= 2 /\ arg[p] = task[chain[2]] /\ task' = task
      /\ chain' = Tail(chain) /\ chain \in Seq(Node)
  BY DEF Free, IInv, TypeOK, HeadInv, Goto
<1>4. Queue # <<>> /\ arg[p] = Head(Queue)
  BY <1>1, <1>3
<1>5. /\ Tail(Queue) \in Seq(Task) /\ Len(Tail(Queue)) = Len(Queue')
      /\ \A i \in 1 .. Len(Queue') : Queue'[i] = Tail(Queue)[i]
  <2>1. /\ Tail(Queue) \in Seq(Task) /\ Len(Tail(Queue)) = Len(chain) - 2
        /\ \A i \in 1 .. Len(chain) - 2 : Tail(Queue)[i] = task[chain[i + 2]]
    BY <1>1, <1>3
  <2>2. /\ Len(chain') = Len(chain) - 1
        /\ \A i \in 1 .. Len(chain) - 1 : chain'[i] = chain[i + 1]
    BY <1>3
  <2>3. Len(chain') - 1 = Len(chain) - 2
    BY <1>3, <2>2
  <2>4. \A i \in 1 .. Len(chain) - 2 : chain'[i + 1] = chain[i + 2]
    BY <1>3, <2>2
  <2>5. SUFFICES ASSUME NEW i \in 1 .. Len(chain) - 2
                 PROVE  Queue'[i] = Tail(Queue)[i]
    BY <1>2, <2>1, <2>3
  <2>6. Queue'[i] = task'[chain'[i + 1]]
    BY <1>2, <2>3
  <2> QED
    BY <1>3, <2>1, <2>4, <2>6
<1> QED
  BY <1>2, <1>4, <1>5, SeqEqual

\* Every step of the linked list is a step of the first-in first-out queue or
\* leaves it unchanged; a tasks_dequeue that returns NULL takes effect when it
\* reads the dummy's next.
THEOREM StepRefines ==
  ASSUME IInv, IInv', [Next]_vars
  PROVE  [Fifo!FNext]_Fifo!fvars
<1> USE DEF Goto, mem, ends, locks
<1>1. ASSUME NEW p \in Proc, NEW t \in Task, Enqueue(p, t) PROVE Fifo!CallEnqueue(p, t)
  <2>1. Queue' = Queue
    BY <1>1, SameQueue DEF Enqueue
  <2> QED
    BY <1>1, <2>1 DEF Enqueue, Status, Val, IInv, TypeOK, Fifo!CallEnqueue
<1>2. ASSUME NEW p \in Proc, LockTail(p) PROVE UNCHANGED Fifo!fvars
  <2>1. Queue' = Queue
    BY <1>2, SameQueue DEF LockTail
  <2> QED
    BY <1>2, <2>1 DEF LockTail, Status, Val, Fifo!fvars
<1>3. ASSUME NEW p \in Proc, Alloc(p) PROVE UNCHANGED Fifo!fvars
  <2>1. Queue' = Queue
    BY <1>3, SameQueue DEF Alloc, IInv, ChainInv
  <2> QED
    BY <1>3, <2>1 DEF Alloc, Status, Val, Fifo!fvars
<1>4. ASSUME NEW p \in Proc, NoMemory(p) PROVE UNCHANGED Fifo!fvars
  <2>1. Queue' = Queue
    BY <1>4, SameQueue DEF NoMemory
  <2> QED
    BY <1>4, <2>1 DEF NoMemory, Status, Val, Fifo!fvars
<1>5. ASSUME NEW p \in Proc, Link(p) PROVE Fifo!DoEnqueue(p)
  <2>1. Queue' = Append(Queue, arg[p])
    BY <1>5, LinkQueue
  <2> QED
    BY <1>5, <2>1 DEF Link, Status, Val, IInv, TypeOK, Fifo!DoEnqueue
<1>6. ASSUME NEW p \in Proc, MoveTail(p) PROVE UNCHANGED Fifo!fvars
  <2>1. Queue' = Queue
    BY <1>6, SameQueue DEF MoveTail
  <2> QED
    BY <1>6, <2>1 DEF MoveTail, Status, Val, Fifo!fvars
<1>7. ASSUME NEW p \in Proc, UnlockTail(p) PROVE Fifo!Return(p)
  <2>1. Queue' = Queue
    BY <1>7, SameQueue DEF UnlockTail
  <2> QED
    BY <1>7, <2>1 DEF UnlockTail, Status, Val, IInv, TypeOK, Fifo!Return
<1>8. ASSUME NEW p \in Proc, Dequeue(p) PROVE Fifo!CallDequeue(p)
  <2>1. Queue' = Queue
    BY <1>8, SameQueue DEF Dequeue
  <2> QED
    BY <1>8, <2>1 DEF Dequeue, Status, Val, IInv, TypeOK, NewInv, Fifo!CallDequeue
<1>9. ASSUME NEW p \in Proc, LockHead(p) PROVE UNCHANGED Fifo!fvars
  <2>1. Queue' = Queue
    BY <1>9, SameQueue DEF LockHead
  <2> QED
    BY <1>9, <2>1 DEF LockHead, Status, Val, Fifo!fvars
<1>10. ASSUME NEW p \in Proc, ReadEmpty(p) PROVE Fifo!DoDequeue(p)
  <2>1. Queue' = Queue
    BY <1>10, SameQueue DEF ReadEmpty
  <2>2. Queue = <<>>
    <3>1. next[chain[1]] = Nil
      BY <1>10 DEF ReadEmpty, IInv, HeadInv, LockInv, HeadSection
    <3>2. /\ Len(chain) \in Nat /\ Len(chain) >= 1
          /\ Len(chain) > 1 => chain[2] \in Node /\ next[chain[1]] = chain[2]
      BY DEF IInv, TypeOK, ChainInv
    <3>3. ~ (Len(chain) > 1)
      BY <3>1, <3>2, NilAssumption
    <3>4. Queue \in Seq(Task) /\ ~ (Len(Queue) > 0)
      BY <3>3, QueueType
    <3> QED
      BY <3>4
  <2>3. Status[p] = "dequeue" /\ Status' = [Status EXCEPT ![p] = "dequeued"]
    BY <1>10 DEF ReadEmpty, Status, IInv, TypeOK
  <2>4. Val' = [Val EXCEPT ![p] = Nil]
    BY <1>10 DEF ReadEmpty, Val, IInv, NewInv
  <2> QED
    BY <2>1, <2>2, <2>3, <2>4 DEF Fifo!DoDequeue
<1>11. ASSUME NEW p \in Proc, ReadHead(p) PROVE UNCHANGED Fifo!fvars
  <2>1. Queue' = Queue
    BY <1>11, SameQueue DEF ReadHead
  <2> QED
    BY <1>11, <2>1 DEF ReadHead, Status, Val, IInv, NewInv, Fifo!fvars
<1>12. ASSUME NEW p \in Proc, Free(p) PROVE Fifo!DoDequeue(p)
  <2>1. Queue # <<>> /\ arg[p] = Head(Queue) /\ Queue' = Tail(Queue)
    BY <1>12, FreeQueue
  <2> QED
    BY <1>12, <2>1 DEF Free, Status, Val, IInv, TypeOK, NewInv, Fifo!DoDequeue
<1>13. ASSUME NEW p \in Proc, MoveHead(p) PROVE UNCHANGED Fifo!fvars
  <2>1. Queue' = Queue
    BY <1>13, SameQueue DEF MoveHead
  <2> QED
    BY <1>13, <2>1 DEF MoveHead, Status, Val, Fifo!fvars
<1>14. ASSUME NEW p \in Proc, Clear(p) PROVE UNCHANGED Fifo!fvars
  <2>1. Queue' = Queue
    BY <1>14, SameQueue DEF Clear, IInv, ChainInv, HeadInv, LockInv, HeadSection
  <2> QED
    BY <1>14, <2>1 DEF Clear, Status, Val, Fifo!fvars
<1>15. ASSUME NEW p \in Proc, UnlockHead(p) PROVE Fifo!Return(p)
  <2>1. Queue' = Queue
    BY <1>15, SameQueue DEF UnlockHead
  <2> QED
    BY <1>15, <2>1 DEF UnlockHead, Status, Val, IInv, TypeOK, NewInv, Fifo!Return
<1>16. CASE UNCHANGED vars
  BY <1>16 DEF vars, Fifo!fvars, Queue, Status, Val
<1> QED
  BY <1>1, <1>2, <1>3, <1>4, <1>5, <1>6, <1>7, <1>8, <1>9, <1>10, <1>11, <1>12, <1>13, <1>14, <1>15, <1>16 DEF Next, Step, Fifo!FNext

\* The two-lock list implements the first-in first-out queue, for any number of
\* callers, tasks and nodes.
THEOREM Refinement == Spec => ImplementsFifo
<1>1. Init => Fifo!FInit
  BY DEF Init, Fifo!FInit, Queue, Status, Val
<1> QED
  BY <1>1, StepRefines, Invariant, PTL DEF Spec, ImplementsFifo, Fifo!FSpec
==============================================================================
