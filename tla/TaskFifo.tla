------------------------------ MODULE TaskFifo ------------------------------
(***************************************************************************)
(* What readyTasks and blockedTasks promise the scheduler: a first-in      *)
(* first-out queue of task pointers on which every tasks_enqueue and       *)
(* tasks_dequeue takes effect at one instant between its call and its      *)
(* return.  TaskQueue implements this module.                              *)
(***************************************************************************)
EXTENDS Naturals, Sequences

CONSTANTS Proc,  \* the CPUs that call the queue
          Task,  \* task pointers
          Nil    \* the null pointer

VARIABLES queue,   \* the tasks in the queue, oldest first
          status,  \* what each CPU is doing: see Status
          val      \* the task a CPU enqueues, or got from its dequeue

fvars == <<queue, status, val>>

Status == {"idle", "enqueue", "enqueued", "dequeue", "dequeued"}

FInit == /\ queue = <<>>
         /\ status = [p \in Proc |-> "idle"]
         /\ val = [p \in Proc |-> Nil]

CallEnqueue(p, t) == /\ status[p] = "idle"
                     /\ status' = [status EXCEPT ![p] = "enqueue"]
                     /\ val' = [val EXCEPT ![p] = t]
                     /\ UNCHANGED queue

DoEnqueue(p) == /\ status[p] = "enqueue"
                /\ status' = [status EXCEPT ![p] = "enqueued"]
                /\ queue' = Append(queue, val[p])
                /\ UNCHANGED val

CallDequeue(p) == /\ status[p] = "idle"
                  /\ status' = [status EXCEPT ![p] = "dequeue"]
                  /\ val' = [val EXCEPT ![p] = Nil]
                  /\ UNCHANGED queue

\* An empty queue gives NULL, any other its oldest task.
DoDequeue(p) == /\ status[p] = "dequeue"
                /\ status' = [status EXCEPT ![p] = "dequeued"]
                /\ \/ /\ queue = <<>>
                      /\ val' = [val EXCEPT ![p] = Nil]
                      /\ UNCHANGED queue
                   \/ /\ queue # <<>>
                      /\ val' = [val EXCEPT ![p] = Head(queue)]
                      /\ queue' = Tail(queue)

Return(p) == /\ status[p] \in {"enqueued", "dequeued"}
             /\ status' = [status EXCEPT ![p] = "idle"]
             /\ val' = [val EXCEPT ![p] = Nil]
             /\ UNCHANGED queue

FNext == \E p \in Proc :
            \/ \E t \in Task : CallEnqueue(p, t)
            \/ DoEnqueue(p)
            \/ CallDequeue(p)
            \/ DoDequeue(p)
            \/ Return(p)

FSpec == FInit /\ [][FNext]_fvars
=============================================================================
