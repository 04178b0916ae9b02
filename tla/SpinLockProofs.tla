--------------------------- MODULE SpinLockProofs ---------------------------
(***************************************************************************)
(* Proofs about SpinLock for any set of CPUs, tasks and locks.             *)
(***************************************************************************)
EXTENDS SpinLock, FiniteSetTheorems, TLAPS

\* A CPU that executes no flow of the kernel runs a task, and no other CPU has
\* it.  A flow of the kernel is in one place: on a CPU, the context of a task
\* that was put back, or what another handler interrupted.
RunInv == /\ \A c \in Cpu : kernel[c] = Nil => running[c] \in Task
          /\ \A c, d \in Cpu : running[c] = running[d] /\ running[c] # Nil => c = d
          /\ \A c, d \in Cpu : kernel[c] = kernel[d] /\ kernel[c] # Nil => c = d
          /\ \A t, u \in Task : cont[t] = cont[u] /\ cont[t] # Nil => t = u
          /\ \A g, h \in Kernel : prev[g] = prev[h] /\ prev[g] # Nil => g = h
          /\ \A c \in Cpu, t \in Task : cont[t] # Nil => kernel[c] # cont[t]
          /\ \A h \in Kernel : prev[h] # Nil => /\ \A c \in Cpu : kernel[c] # prev[h]
                                            /\ \A t \in Task : cont[t] # prev[h]

\* A flow that is not executing holds no lock: at most it owns one that it
\* was taking when it was interrupted.
RestInv == /\ \A f \in Flow : (\A c \in Cpu : On(c) # f) =>
                 held[f] = {} /\ pc[f] \notin {"record", "settle", "restore"}
           /\ \A t \in Task : pc[t] # "restore"

ArgInv == \A f \in Flow :
             /\ pc[f] \in {"xchg", "record"} \cup Window => lk[f] \in Lock \ held[f]
             /\ pc[f] \in {"test", "store"} => addr[f] \in Cpu

\* ownedLockNum counts the locks of the flow that is executing, and none are
\* held when a trap is taken.
CountInv == /\ \A f \in Flow : IsFiniteSet(held[f])
            /\ \A c \in Cpu :
                  /\ ownedLockNum[c] = Cardinality(held[On(c)])
                                         + (IF pc[On(c)] = "settle" THEN 1 ELSE 0)
                  /\ pc[On(c)] = "restore" => held[On(c)] = {} /\ shot[c].ownedLockNum = 0

\* Whoever holds a lock cannot be interrupted ...
MaskInv == \A c \in Cpu : interrupts[c] => /\ held[On(c)] = {}
                                           /\ pc[On(c)] \notin {"record", "settle", "restore"}

\* ... and so stays on the CPU that took the lock.
CpuInv == \A c \in Cpu : \A l \in held[On(c)] : lockCpu[l] = c

IInv == /\ TypeOK /\ RunInv /\ RestInv /\ ArgInv /\ CountInv /\ MaskInv /\ CpuInv
        /\ MutualExclusion

\* As long as no interrupt has come in the window: istate holds the interrupt
\* flag of the flow that executes while that flow has it off.
CalmInv ==
  calm => /\ \A t \in Task : eflags[t] /\ cont[t] = Nil
          /\ \A h \in Kernel : prev[h] = Nil
          /\ \A f \in Flow : (\A c \in Cpu : On(c) # f) => pc[f] \in {"idle", "xchg"}
          /\ \A c \in Cpu :
                /\ pc[On(c)] \in {"test", "store"} => addr[On(c)] = c
                /\ pc[On(c)] \in {"sense", "store"} => held[On(c)] = {}
                /\ held[On(c)] = {} /\ pc[On(c)] \notin {"record", "settle"}
                      => interrupts[c] = (kernel[c] = Nil)
                /\ held[On(c)] # {} \/ pc[On(c)] \in {"mask", "record", "settle"}
                      => istate[c] = (kernel[c] = Nil)
------------------------------------------------------------------------------
\* Every CPU executes a flow, and no two CPUs the same one.
LEMMA OnFlow ==
  ASSUME TypeOK, RunInv
  PROVE  /\ \A c \in Cpu : On(c) \in Flow
         /\ \A c, d \in Cpu : On(c) = On(d) => c = d
  BY FlowAssumption DEF TypeOK, RunInv, On, Flow

\* A flow that is interrupted holds no lock, and the handler is another one.
LEMMA Interrupted ==
  ASSUME IInv, NEW c \in Cpu, NEW h \in Kernel, Trap(c, h)
  PROVE  /\ h \in Flow /\ On(c) \in Flow /\ \A d \in Cpu : On(d) # h
         /\ held[On(c)] = {} /\ pc[On(c)] \notin {"record", "settle", "restore"}
         /\ held[h] = {} /\ pc[h] \notin {"record", "settle", "restore"} \cup Window
         /\ On(c)' = h /\ \A d \in Cpu \ {c} : On(d)' = On(d)
         /\ pc' = [pc EXCEPT ![h] = "restore"] /\ held' = held
<1>1. h \in Flow /\ On(c) \in Flow /\ \A d \in Cpu : On(d) # h
  BY OnFlow, FlowAssumption DEF IInv, TypeOK, Trap, Fresh, On, Flow
<1>2. held[On(c)] = {} /\ pc[On(c)] \notin {"record", "settle", "restore"}
  BY DEF IInv, MaskInv, Trap
<1>3. held[h] = {} /\ pc[h] \notin {"record", "settle", "restore"} \cup Window
  BY <1>1 DEF IInv, RestInv, Trap, Fresh
<1>4. kernel' = [kernel EXCEPT ![c] = h] /\ running' = running
  BY DEF Trap
<1>5. On(c)' = h /\ \A d \in Cpu \ {c} : On(d)' = On(d)
  BY <1>4, FlowAssumption DEF IInv, TypeOK, On
<1> QED
  BY <1>1, <1>2, <1>3, <1>5 DEF Trap

\* A task that is picked holds no lock, nor does the handler saved for it.
LEMMA Picked ==
  ASSUME IInv, NEW c \in Cpu, NEW t \in Task, Pick(c, t)
  PROVE  /\ On(c) = kernel[c] /\ On(c)' = (IF cont[t] = Nil THEN t ELSE cont[t])
         /\ \A d \in Cpu \ {c} : On(d)' = On(d)
         /\ On(c)' \in Flow /\ \A d \in Cpu : On(d) # On(c)'
         /\ held[On(c)'] = {} /\ pc[On(c)'] \notin {"record", "settle", "restore"}
<1>1. /\ kernel' = [kernel EXCEPT ![c] = cont[t]]
      /\ running' = [running EXCEPT ![c] = t] /\ kernel[c] # Nil
      /\ \A d \in Cpu : running[d] # t
  BY DEF Pick
<1>2. /\ On(c) = kernel[c] /\ On(c)' = (IF cont[t] = Nil THEN t ELSE cont[t])
      /\ \A d \in Cpu \ {c} : On(d)' = On(d)
  BY <1>1, FlowAssumption DEF IInv, TypeOK, On
<1>3. On(c)' \in Flow /\ \A d \in Cpu : On(d) # On(c)'
  BY <1>1, <1>2, FlowAssumption DEF IInv, TypeOK, RunInv, On, Flow
<1>4. held[On(c)'] = {} /\ pc[On(c)'] \notin {"record", "settle", "restore"}
  BY <1>3 DEF IInv, RestInv
<1> QED
  BY <1>2, <1>3, <1>4

\* A step that changes neither a lock's state nor who owns it keeps exclusion.
LEMMA SameOwners ==
  ASSUME MutualExclusion, lockState' = lockState,
         \A f \in Flow, l \in Lock : Owns(f, l)' <=> Owns(f, l)
  PROVE  MutualExclusion'
  BY DEF MutualExclusion

\* The invariant holds when the CPUs enter os_run.
THEOREM Initial == Init => IInv
<1> SUFFICES ASSUME Init PROVE IInv
  OBVIOUS
<1> USE DEF Init, SpinInit, CpuInit
<1>1. TypeOK
  BY DEF TypeOK, Labels, NoShot
<1>2. RunInv
  BY FlowAssumption DEF RunInv
<1>3. RestInv
  BY DEF RestInv, Flow
<1>4. ArgInv
  BY DEF ArgInv, Window
<1>5. CountInv
  BY FS_EmptySet DEF CountInv, On, Flow
<1>6. MaskInv
  BY DEF MaskInv
<1>7. CpuInv
  BY DEF CpuInv, On, Flow
<1>8. MutualExclusion
  BY DEF MutualExclusion, Owns, Window
<1> QED
  BY <1>1, <1>2, <1>3, <1>4, <1>5, <1>6, <1>7, <1>8 DEF IInv

\* No step of any CPU breaks the invariant: one step of the proof for each
\* action, one under it for each part of the invariant.
THEOREM Inductive == IInv /\ [Next]_vars => IInv'
<1> SUFFICES ASSUME IInv, [Next]_vars PROVE IInv'
  OBVIOUS
<1>0. /\ \A c \in Cpu : On(c) \in Flow
      /\ \A c, d \in Cpu : On(c) = On(d) => c = d
  BY OnFlow DEF IInv
<1> USE FlowAssumption DEF lockVars, cpuVars, runVars, Goto
<1>1. ASSUME NEW c \in Cpu, NEW l \in Lock, Call(c, l) PROVE IInv'
  <2>1. TypeOK'
    BY <1>1 DEF IInv, TypeOK, Labels, Call
  <2>2. RunInv'
    BY <1>1 DEF IInv, RunInv, Call
  <2>3. RestInv'
    BY <1>1 DEF IInv, RestInv, On, Call
  <2>4. ArgInv'
    BY <1>1 DEF IInv, ArgInv, TypeOK, Call
  <2>5. CountInv'
    BY <1>1 DEF IInv, CountInv, On, Call
  <2>6. MaskInv'
    BY <1>1 DEF IInv, MaskInv, RunInv, On, Call
  <2>7. CpuInv'
    BY <1>1 DEF IInv, CpuInv, On, Call
  <2>8. MutualExclusion'
    <3>1. \A g \in Flow, m \in Lock : Owns(g, m)' <=> Owns(g, m)
      BY <1>1 DEF Owns, Window, Call
    <3> QED
      BY <3>1, <1>1, SameOwners DEF IInv, Call
  <2> QED
    BY <2>1, <2>2, <2>3, <2>4, <2>5, <2>6, <2>7, <2>8 DEF IInv
<1>2. ASSUME NEW c \in Cpu, NEW l \in Lock, Release(c, l) PROVE IInv'
  <2>1. TypeOK'
    BY <1>2 DEF IInv, TypeOK, Labels, Release
  <2>2. RunInv'
    BY <1>2 DEF IInv, RunInv, Release
  <2>3. RestInv'
    BY <1>2 DEF IInv, RestInv, On, Release
  <2>4. ArgInv'
    BY <1>2 DEF IInv, ArgInv, Window, Release
  <2>5. CountInv'
    <3>1. /\ IsFiniteSet(held[On(c)]) /\ Cardinality(held[On(c)]) \in Nat
          /\ IsFiniteSet(held[On(c)] \ {l})
          /\ Cardinality(held[On(c)] \ {l}) = Cardinality(held[On(c)]) - 1
      BY <1>0, <1>2, FS_CardinalityType, FS_RemoveElement DEF IInv, CountInv, Release
    <3>2. \A d \in Cpu : On(d)' = On(d)
      BY <1>2 DEF Release, On
    <3>3. /\ held'[On(c)] = held[On(c)] \ {l} /\ pc'[On(c)] = "settle"
          /\ \A f \in Flow \ {On(c)} : held'[f] = held[f] /\ pc'[f] = pc[f]
          /\ ownedLockNum' = ownedLockNum /\ shot' = shot
      BY <1>0, <1>2 DEF IInv, TypeOK, Release
    <3>4. ownedLockNum[c] = Cardinality(held[On(c)])
      BY <1>2, <3>1 DEF IInv, CountInv, Release
    <3>5. \A d \in Cpu \ {c} : On(d) \in Flow \ {On(c)}
      BY <1>0
    <3>6. /\ IsFiniteSet(held'[On(c)])
          /\ ownedLockNum'[c] = Cardinality(held'[On(c)]) + 1
      BY <3>1, <3>3, <3>4
    <3>7. \A d \in Cpu : pc'[On(d)] = "restore" => held'[On(d)] = {} /\ shot'[d].ownedLockNum = 0
      BY <1>0, <3>3, <3>5 DEF IInv, CountInv
    <3> QED
      BY <1>0, <3>2, <3>3, <3>6, <3>7 DEF IInv, CountInv
  <2>6. MaskInv'
    BY <1>0, <1>2 DEF IInv, MaskInv, TypeOK, On, Release
  <2>7. CpuInv'
    BY <1>2 DEF IInv, CpuInv, On, Release
  <2>8. MutualExclusion'
    <3>1. /\ lockState' = [lockState EXCEPT ![l] = 0] /\ lk' = lk
          /\ held' = [held EXCEPT ![On(c)] = @ \ {l}]
          /\ pc' = [pc EXCEPT ![On(c)] = "settle"] /\ pc[On(c)] = "idle"
          /\ Owns(On(c), l)
      BY <1>2 DEF Release, Owns
    <3>2. \A g \in Flow : Owns(g, l) => g = On(c)
      BY <1>0, <3>1 DEF IInv, MutualExclusion
    <3>3. l \notin held'[On(c)] /\ pc'[On(c)] = "settle"
      BY <1>0, <3>1 DEF IInv, TypeOK
    <3>4. \A g \in Flow, m \in Lock : Owns(g, m)' <=> Owns(g, m) /\ m # l
      BY <1>0, <3>1, <3>2, <3>3 DEF IInv, TypeOK, Owns, Window
    <3> QED
      BY <3>1, <3>4 DEF IInv, TypeOK, MutualExclusion
  <2> QED
    BY <2>1, <2>2, <2>3, <2>4, <2>5, <2>6, <2>7, <2>8 DEF IInv
<1>3. ASSUME NEW c \in Cpu, Acquire(c) PROVE IInv'
  <2>1. TypeOK'
    BY <1>3 DEF IInv, TypeOK, Labels, Window, Acquire
  <2>2. RunInv'
    BY <1>3 DEF IInv, RunInv, Acquire
  <2>3. RestInv'
    BY <1>3 DEF IInv, RestInv, On, Acquire
  <2>4. ArgInv'
    BY <1>3 DEF IInv, ArgInv, Acquire
  <2>5. CountInv'
    BY <1>3 DEF IInv, CountInv, On, Acquire
  <2>6. MaskInv'
    BY <1>3 DEF IInv, MaskInv, CountInv, On, Flow, Acquire
  <2>7. CpuInv'
    BY <1>3 DEF IInv, CpuInv, On, Acquire
  <2>8. MutualExclusion'
    <3>1. \A g \in Flow : ~Owns(g, lk[On(c)])
      BY <1>0, <1>3 DEF IInv, ArgInv, MutualExclusion, Acquire
    <3>2. \A g \in Flow, m \in Lock :
             Owns(g, m)' <=> Owns(g, m) \/ (g = On(c) /\ m = lk[On(c)])
      BY <1>3 DEF IInv, TypeOK, Owns, Window, Acquire
    <3> QED
      BY <1>0, <1>3, <3>2 DEF IInv, TypeOK, MutualExclusion, Acquire
  <2> QED
    BY <2>1, <2>2, <2>3, <2>4, <2>5, <2>6, <2>7, <2>8 DEF IInv
<1>4. ASSUME NEW c \in Cpu, Look(c) PROVE IInv'
  <2>1. TypeOK'
    BY <1>4 DEF IInv, TypeOK, Labels, Window, Look
  <2>2. RunInv'
    BY <1>4 DEF IInv, RunInv, Look
  <2>3. RestInv'
    BY <1>4 DEF IInv, RestInv, On, Look
  <2>4. ArgInv'
    BY <1>4 DEF IInv, ArgInv, TypeOK, Window, Look
  <2>5. CountInv'
    BY <1>4 DEF IInv, CountInv, On, Look
  <2>6. MaskInv'
    BY <1>4 DEF IInv, MaskInv, CountInv, On, Look
  <2>7. CpuInv'
    BY <1>4 DEF IInv, CpuInv, On, Look
  <2>8. MutualExclusion'
    <3>1. \A g \in Flow, m \in Lock : Owns(g, m)' <=> Owns(g, m)
      BY <1>4 DEF Owns, Window, Look
    <3> QED
      BY <3>1, <1>4, SameOwners DEF IInv, Look
  <2> QED
    BY <2>1, <2>2, <2>3, <2>4, <2>5, <2>6, <2>7, <2>8 DEF IInv
<1>5. ASSUME NEW c \in Cpu, Test(c) PROVE IInv'
  <2>1. TypeOK'
    BY <1>5 DEF IInv, TypeOK, Labels, Window, Test
  <2>2. RunInv'
    BY <1>5 DEF IInv, RunInv, Test
  <2>3. RestInv'
    BY <1>5 DEF IInv, RestInv, TypeOK, On, Flow, Test
  <2>4. ArgInv'
    BY <1>5 DEF IInv, ArgInv, TypeOK, Window, Test
  <2>5. CountInv'
    BY <1>0, <1>5 DEF IInv, CountInv, TypeOK, On, Flow, Test
  <2>6. MaskInv'
    BY <1>0, <1>5 DEF IInv, MaskInv, TypeOK, On, Test
  <2>7. CpuInv'
    BY <1>5 DEF IInv, CpuInv, On, Test
  <2>8. MutualExclusion'
    <3>1. \A g \in Flow, m \in Lock : Owns(g, m)' <=> Owns(g, m)
      BY <1>5 DEF IInv, TypeOK, Owns, Window, Test
    <3> QED
      BY <3>1, <1>5, SameOwners DEF IInv, Test
  <2> QED
    BY <2>1, <2>2, <2>3, <2>4, <2>5, <2>6, <2>7, <2>8 DEF IInv
<1>6. ASSUME NEW c \in Cpu, Sense(c) PROVE IInv'
  <2>1. TypeOK'
    BY <1>6 DEF IInv, TypeOK, Labels, Window, Sense
  <2>2. RunInv'
    BY <1>6 DEF IInv, RunInv, Sense
  <2>3. RestInv'
    BY <1>6 DEF IInv, RestInv, On, Sense
  <2>4. ArgInv'
    BY <1>6 DEF IInv, ArgInv, TypeOK, Window, Sense
  <2>5. CountInv'
    BY <1>6 DEF IInv, CountInv, On, Sense
  <2>6. MaskInv'
    BY <1>6 DEF IInv, MaskInv, CountInv, On, Sense
  <2>7. CpuInv'
    BY <1>6 DEF IInv, CpuInv, On, Sense
  <2>8. MutualExclusion'
    <3>1. \A g \in Flow, m \in Lock : Owns(g, m)' <=> Owns(g, m)
      BY <1>6 DEF Owns, Window, Sense
    <3> QED
      BY <3>1, <1>6, SameOwners DEF IInv, Sense
  <2> QED
    BY <2>1, <2>2, <2>3, <2>4, <2>5, <2>6, <2>7, <2>8 DEF IInv
<1>7. ASSUME NEW c \in Cpu, Store(c) PROVE IInv'
  <2>1. TypeOK'
    BY <1>7 DEF IInv, TypeOK, Labels, Window, Store
  <2>2. RunInv'
    BY <1>7 DEF IInv, RunInv, Store
  <2>3. RestInv'
    BY <1>7 DEF IInv, RestInv, On, Store
  <2>4. ArgInv'
    BY <1>7 DEF IInv, ArgInv, TypeOK, Window, Store
  <2>5. CountInv'
    BY <1>7 DEF IInv, CountInv, On, Store
  <2>6. MaskInv'
    BY <1>0, <1>7 DEF IInv, MaskInv, TypeOK, On, Store
  <2>7. CpuInv'
    BY <1>7 DEF IInv, CpuInv, On, Store
  <2>8. MutualExclusion'
    <3>1. \A g \in Flow, m \in Lock : Owns(g, m)' <=> Owns(g, m)
      BY <1>7 DEF Owns, Window, Store
    <3> QED
      BY <3>1, <1>7, SameOwners DEF IInv, Store
  <2> QED
    BY <2>1, <2>2, <2>3, <2>4, <2>5, <2>6, <2>7, <2>8 DEF IInv
<1>8. ASSUME NEW c \in Cpu, Mask(c) PROVE IInv'
  <2>1. TypeOK'
    BY <1>8 DEF IInv, TypeOK, Labels, Mask
  <2>2. RunInv'
    BY <1>8 DEF IInv, RunInv, Mask
  <2>3. RestInv'
    BY <1>8 DEF IInv, RestInv, On, Mask
  <2>4. ArgInv'
    BY <1>8 DEF IInv, ArgInv, Window, Mask
  <2>5. CountInv'
    BY <1>8 DEF IInv, CountInv, On, Mask
  <2>6. MaskInv'
    BY <1>0, <1>8 DEF IInv, MaskInv, TypeOK, On, Mask
  <2>7. CpuInv'
    BY <1>8 DEF IInv, CpuInv, On, Mask
  <2>8. MutualExclusion'
    <3>1. \A g \in Flow, m \in Lock : Owns(g, m)' <=> Owns(g, m)
      BY <1>8 DEF Owns, Window, Mask
    <3> QED
      BY <3>1, <1>8, SameOwners DEF IInv, Mask
  <2> QED
    BY <2>1, <2>2, <2>3, <2>4, <2>5, <2>6, <2>7, <2>8 DEF IInv
<1>9. ASSUME NEW c \in Cpu, Record(c) PROVE IInv'
  <2>1. TypeOK'
    BY <1>0, <1>9 DEF IInv, TypeOK, ArgInv, Labels, Record
  <2>2. RunInv'
    BY <1>9 DEF IInv, RunInv, Record
  <2>3. RestInv'
    BY <1>9 DEF IInv, RestInv, On, Record
  <2>4. ArgInv'
    BY <1>9 DEF IInv, ArgInv, TypeOK, Window, Record
  <2>5. CountInv'
    <3>1. /\ IsFiniteSet(held[On(c)]) /\ Cardinality(held[On(c)]) \in Nat
          /\ IsFiniteSet(held[On(c)] \cup {lk[On(c)]})
          /\ Cardinality(held[On(c)] \cup {lk[On(c)]}) = Cardinality(held[On(c)]) + 1
      BY <1>0, <1>9, FS_CardinalityType, FS_AddElement DEF IInv, CountInv, ArgInv, Record
    <3>2. \A d \in Cpu : On(d)' = On(d)
      BY <1>9 DEF Record, On
    <3>3. /\ held'[On(c)] = held[On(c)] \cup {lk[On(c)]} /\ pc'[On(c)] = "idle"
          /\ \A f \in Flow \ {On(c)} : held'[f] = held[f] /\ pc'[f] = pc[f]
          /\ ownedLockNum'[c] = ownedLockNum[c] + 1 /\ shot' = shot
          /\ \A d \in Cpu \ {c} : ownedLockNum'[d] = ownedLockNum[d]
      BY <1>0, <1>9 DEF IInv, TypeOK, Record
    <3>4. ownedLockNum[c] = Cardinality(held[On(c)])
      BY <1>9, <3>1 DEF IInv, CountInv, Record
    <3>5. \A d \in Cpu \ {c} : On(d) \in Flow \ {On(c)}
      BY <1>0
    <3>6. /\ IsFiniteSet(held'[On(c)])
          /\ ownedLockNum'[c] = Cardinality(held'[On(c)])
          /\ Cardinality(held'[On(c)]) \in Nat
      BY <3>1, <3>3, <3>4
    <3>7. \A d \in Cpu : pc'[On(d)] = "restore" => held'[On(d)] = {} /\ shot'[d].ownedLockNum = 0
      BY <1>0, <3>3, <3>5 DEF IInv, CountInv
    <3>8. \A d \in Cpu : ownedLockNum'[d] = Cardinality(held'[On(d)])
                                       + (IF pc'[On(d)] = "settle" THEN 1 ELSE 0)
      <4>1. ownedLockNum'[c] = Cardinality(held'[On(c)])
                                 + (IF pc'[On(c)] = "settle" THEN 1 ELSE 0)
        BY <3>3, <3>6
      <4>2. ASSUME NEW d \in Cpu \ {c}
            PROVE  ownedLockNum'[d] = Cardinality(held'[On(d)])
                                        + (IF pc'[On(d)] = "settle" THEN 1 ELSE 0)
        BY <3>3, <3>5 DEF IInv, CountInv
      <4> QED
        BY <4>1, <4>2
    <3>9. \A f \in Flow : IsFiniteSet(held'[f])
      BY <3>3, <3>6 DEF IInv, CountInv
    <3> QED
      BY <3>2, <3>7, <3>8, <3>9 DEF CountInv
  <2>6. MaskInv'
    BY <1>9 DEF IInv, MaskInv, On, Record
  <2>7. CpuInv'
    <3>1. \A d \in Cpu : On(d)' = On(d)
      BY <1>9 DEF Record, On
    <3>2. \A d \in Cpu \ {c} : lk[On(c)] \notin held[On(d)]
      BY <1>0, <1>9 DEF IInv, ArgInv, MutualExclusion, Owns, Record
    <3> QED
      BY <1>0, <1>9, <3>1, <3>2 DEF IInv, TypeOK, ArgInv, CpuInv, Record
  <2>8. MutualExclusion'
    <3>1. \A g \in Flow, m \in Lock : Owns(g, m)' <=> Owns(g, m)
      BY <1>9 DEF IInv, TypeOK, Owns, Window, Record
    <3> QED
      BY <3>1, <1>9, SameOwners DEF IInv, Record
  <2> QED
    BY <2>1, <2>2, <2>3, <2>4, <2>5, <2>6, <2>7, <2>8 DEF IInv
<1>10. ASSUME NEW c \in Cpu, Settle(c) PROVE IInv'
  <2>1. TypeOK'
    <3>1. ownedLockNum[c] = Cardinality(held[On(c)]) + 1 /\ Cardinality(held[On(c)]) \in Nat
      BY <1>0, <1>10, FS_CardinalityType DEF IInv, CountInv, Settle
    <3> QED
      BY <1>0, <1>10, <3>1 DEF IInv, TypeOK, Labels, Settle
  <2>2. RunInv'
    BY <1>10 DEF IInv, RunInv, Settle
  <2>3. RestInv'
    BY <1>10 DEF IInv, RestInv, On, Settle
  <2>4. ArgInv'
    BY <1>10 DEF IInv, ArgInv, Window, Settle
  <2>5. CountInv'
    <3>1. ownedLockNum[c] = Cardinality(held[On(c)]) + 1 /\ Cardinality(held[On(c)]) \in Nat
      BY <1>0, <1>10, FS_CardinalityType DEF IInv, CountInv, Settle
    <3> QED
      BY <1>0, <1>10, <3>1 DEF IInv, TypeOK, CountInv, On, Settle
  <2>6. MaskInv'
    <3>1. ownedLockNum[c] = Cardinality(held[On(c)]) + 1 /\ Cardinality(held[On(c)]) \in Nat
      BY <1>0, <1>10, FS_CardinalityType DEF IInv, CountInv, Settle
    <3>2. interrupts'[c] => held[On(c)] = {}
      BY <1>0, <1>10, <3>1, FS_EmptySet DEF IInv, TypeOK, CountInv, MaskInv, Settle
    <3> QED
      BY <1>0, <1>10, <3>2 DEF IInv, TypeOK, MaskInv, On, Settle
  <2>7. CpuInv'
    BY <1>10 DEF IInv, CpuInv, On, Settle
  <2>8. MutualExclusion'
    <3>1. \A g \in Flow, m \in Lock : Owns(g, m)' <=> Owns(g, m)
      BY <1>10 DEF Owns, Window, Settle
    <3> QED
      BY <3>1, <1>10, SameOwners DEF IInv, Settle
  <2> QED
    BY <2>1, <2>2, <2>3, <2>4, <2>5, <2>6, <2>7, <2>8 DEF IInv
<1>11. ASSUME NEW c \in Cpu, NEW h \in Kernel, Trap(c, h) PROVE IInv'
  <2>0. /\ h \in Flow /\ On(c) \in Flow /\ \A d \in Cpu : On(d) # h
        /\ held[On(c)] = {} /\ pc[On(c)] \notin {"record", "settle", "restore"}
        /\ held[h] = {} /\ pc[h] \notin {"record", "settle", "restore"} \cup Window
        /\ On(c)' = h /\ \A d \in Cpu \ {c} : On(d)' = On(d)
        /\ pc' = [pc EXCEPT ![h] = "restore"] /\ held' = held
    BY <1>11, Interrupted
  <2>1. TypeOK'
    BY <1>11, <2>0 DEF IInv, TypeOK, Labels, Trap
  <2>2. RunInv'
    <3>1. /\ kernel' = [kernel EXCEPT ![c] = h] /\ running' = running /\ cont' = cont
          /\ prev' = [prev EXCEPT ![h] = IF running[c] = Nil THEN Nil ELSE kernel[c]]
          /\ Fresh(h)
      BY <1>11 DEF Trap
    <3> QED
      BY <3>1 DEF IInv, TypeOK, RunInv, Fresh
  <2>3. RestInv'
    BY <2>0 DEF IInv, TypeOK, RestInv, Flow
  <2>4. ArgInv'
    BY <1>11, <2>0 DEF IInv, TypeOK, ArgInv, Window, Trap
  <2>5. CountInv'
    <3>1. Cardinality({}) = 0
      BY FS_EmptySet
    <3>2. ownedLockNum[c] = 0
      <4>1. ownedLockNum[c] = Cardinality(held[On(c)])
                                + (IF pc[On(c)] = "settle" THEN 1 ELSE 0)
        BY DEF IInv, CountInv
      <4> QED
        BY <2>0, <3>1, <4>1
    <3>3. /\ pc'[h] = "restore" /\ \A f \in Flow \ {h} : pc'[f] = pc[f]
          /\ shot'[c].ownedLockNum = 0 /\ \A d \in Cpu \ {c} : shot'[d] = shot[d]
          /\ ownedLockNum' = ownedLockNum
      BY <1>11, <2>0, <3>2 DEF IInv, TypeOK, Trap
    <3>4. \A d \in Cpu \ {c} : On(d)' = On(d) /\ On(d) \in Flow \ {h}
      BY <1>0, <2>0
    <3>5. /\ ownedLockNum'[c] = Cardinality(held'[On(c)'])
                                 + (IF pc'[On(c)'] = "settle" THEN 1 ELSE 0)
          /\ pc'[On(c)'] = "restore" => held'[On(c)'] = {} /\ shot'[c].ownedLockNum = 0
      BY <2>0, <3>1, <3>2, <3>3
    <3>6. ASSUME NEW d \in Cpu \ {c}
          PROVE  /\ ownedLockNum'[d] = Cardinality(held'[On(d)'])
                                         + (IF pc'[On(d)'] = "settle" THEN 1 ELSE 0)
                 /\ pc'[On(d)'] = "restore" => held'[On(d)'] = {} /\ shot'[d].ownedLockNum = 0
      BY <2>0, <3>3, <3>4 DEF IInv, CountInv
    <3>7. \A f \in Flow : IsFiniteSet(held'[f])
      BY <2>0 DEF IInv, CountInv
    <3> QED
      BY <3>5, <3>6, <3>7 DEF CountInv
  <2>6. MaskInv'
    <3>1. interrupts' = [interrupts EXCEPT ![c] = FALSE]
      BY <1>11 DEF Trap
    <3> QED
      BY <1>0, <2>0, <3>1 DEF IInv, TypeOK, MaskInv
  <2>7. CpuInv'
    BY <1>11, <2>0 DEF IInv, CpuInv, Trap
  <2>8. MutualExclusion'
    <3>1. \A g \in Flow, m \in Lock : Owns(g, m)' <=> Owns(g, m)
      BY <1>11, <2>0 DEF IInv, TypeOK, Owns, Window, Trap
    <3> QED
      BY <3>1, <1>11, SameOwners DEF IInv, Trap
  <2> QED
    BY <2>1, <2>2, <2>3, <2>4, <2>5, <2>6, <2>7, <2>8 DEF IInv
<1>12. ASSUME NEW c \in Cpu, Restore(c) PROVE IInv'
  <2>1. TypeOK'
    BY <1>12 DEF IInv, TypeOK, Labels, NoShot, Restore
  <2>2. RunInv'
    BY <1>12 DEF IInv, RunInv, Restore
  <2>3. RestInv'
    BY <1>12 DEF IInv, RestInv, On, Restore
  <2>4. ArgInv'
    BY <1>12 DEF IInv, ArgInv, Window, Restore
  <2>5. CountInv'
    <3>1. /\ \A d \in Cpu : On(d)' = On(d)
          /\ held' = held /\ held[On(c)] = {} /\ shot[c].ownedLockNum = 0
          /\ pc' = [pc EXCEPT ![On(c)] = "idle"]
      BY <1>12 DEF IInv, CountInv, Restore, On
    <3> QED
      <4>1. /\ ownedLockNum' = [ownedLockNum EXCEPT ![c] = shot[c].ownedLockNum]
            /\ shot' = [shot EXCEPT ![c] = NoShot] /\ Cardinality({}) = 0
        BY <1>12, FS_EmptySet DEF Restore
      <4>2. \A d \in Cpu \ {c} : pc'[On(d)] = pc[On(d)]
        BY <1>0, <3>1
      <4>3. pc'[On(c)] = "idle" /\ ownedLockNum'[c] = 0
        BY <1>0, <3>1, <4>1 DEF IInv, TypeOK
      <4>4. \A d \in Cpu \ {c} : ownedLockNum'[d] = ownedLockNum[d] /\ shot'[d] = shot[d]
        BY <4>1 DEF IInv, TypeOK
      <4> QED
        BY <3>1, <4>1, <4>2, <4>3, <4>4 DEF IInv, CountInv
  <2>6. MaskInv'
    BY <1>12 DEF IInv, MaskInv, RunInv, On, Restore
  <2>7. CpuInv'
    BY <1>12 DEF IInv, CpuInv, On, Restore
  <2>8. MutualExclusion'
    <3>1. \A g \in Flow, m \in Lock : Owns(g, m)' <=> Owns(g, m)
      BY <1>12 DEF Owns, Window, Restore
    <3> QED
      BY <3>1, <1>12, SameOwners DEF IInv, Restore
  <2> QED
    BY <2>1, <2>2, <2>3, <2>4, <2>5, <2>6, <2>7, <2>8 DEF IInv
<1>13. ASSUME NEW c \in Cpu, PutBack(c) PROVE IInv'
  <2>1. TypeOK'
    BY <1>13 DEF IInv, TypeOK, PutBack
  <2>2. RunInv'
    BY <1>13 DEF IInv, TypeOK, RunInv, PutBack
  <2>3. RestInv'
    <3>1. \A d \in Cpu : On(d)' = On(d)
      BY <1>13 DEF PutBack, On
    <3> QED
      BY <1>13, <3>1 DEF IInv, RestInv, PutBack
  <2>4. ArgInv'
    BY <1>13 DEF IInv, ArgInv, PutBack
  <2>5. CountInv'
    BY <1>13 DEF IInv, CountInv, On, PutBack
  <2>6. MaskInv'
    BY <1>13 DEF IInv, MaskInv, On, PutBack
  <2>7. CpuInv'
    BY <1>13 DEF IInv, CpuInv, On, PutBack
  <2>8. MutualExclusion'
    <3>1. \A g \in Flow, m \in Lock : Owns(g, m)' <=> Owns(g, m)
      BY <1>13 DEF Owns, PutBack
    <3> QED
      BY <3>1, <1>13, SameOwners DEF IInv, PutBack
  <2> QED
    BY <2>1, <2>2, <2>3, <2>4, <2>5, <2>6, <2>7, <2>8 DEF IInv
<1>14. ASSUME NEW c \in Cpu, NEW t \in Task, Pick(c, t) PROVE IInv'
  <2>0. /\ On(c) = kernel[c] /\ On(c)' = (IF cont[t] = Nil THEN t ELSE cont[t])
        /\ \A d \in Cpu \ {c} : On(d)' = On(d)
        /\ On(c)' \in Flow /\ \A d \in Cpu : On(d) # On(c)'
        /\ held[On(c)'] = {} /\ pc[On(c)'] \notin {"record", "settle", "restore"}
    BY <1>14, Picked
  <2>1. TypeOK'
    BY <1>14 DEF IInv, TypeOK, Pick
  <2>2. RunInv'
    <3>1. /\ kernel' = [kernel EXCEPT ![c] = cont[t]] /\ prev' = prev
          /\ cont' = [cont EXCEPT ![t] = Nil] /\ running' = [running EXCEPT ![c] = t]
          /\ \A d \in Cpu : running[d] # t
      BY <1>14 DEF Pick
    <3> QED
      BY <3>1 DEF IInv, TypeOK, RunInv
  <2>3. RestInv'
    <3>1. held[On(c)] = {} /\ pc[On(c)] = "idle" /\ pc' = pc /\ held' = held
      BY <1>14, <2>0 DEF Pick
    <3> QED
      BY <2>0, <3>1 DEF IInv, RestInv
  <2>4. ArgInv'
    BY <1>14 DEF IInv, ArgInv, Pick
  <2>5. CountInv'
    <3>1. Cardinality({}) = 0
      BY FS_EmptySet
    <3>2. held[On(c)] = {} /\ pc[On(c)] = "idle"
      BY <1>14, <2>0 DEF Pick
    <3>3. ownedLockNum[c] = 0
      BY <3>1, <3>2 DEF IInv, CountInv
    <3>4. /\ ownedLockNum' = ownedLockNum /\ held' = held /\ pc' = pc /\ shot' = shot
      BY <1>14 DEF Pick, cpuVars
    <3>5. /\ ownedLockNum'[c] = Cardinality(held'[On(c)'])
                                 + (IF pc'[On(c)'] = "settle" THEN 1 ELSE 0)
          /\ pc'[On(c)'] = "restore" => held'[On(c)'] = {} /\ shot'[c].ownedLockNum = 0
      BY <2>0, <3>1, <3>3, <3>4
    <3>6. ASSUME NEW d \in Cpu \ {c}
          PROVE  /\ ownedLockNum'[d] = Cardinality(held'[On(d)'])
                                         + (IF pc'[On(d)'] = "settle" THEN 1 ELSE 0)
                 /\ pc'[On(d)'] = "restore" => held'[On(d)'] = {} /\ shot'[d].ownedLockNum = 0
      BY <2>0, <3>4 DEF IInv, CountInv
    <3>7. \A f \in Flow : IsFiniteSet(held'[f])
      BY <3>4 DEF IInv, CountInv
    <3> QED
      BY <3>5, <3>6, <3>7 DEF CountInv
  <2>6. MaskInv'
    <3>1. /\ \A d \in Cpu \ {c} : interrupts'[d] = interrupts[d]
          /\ pc' = pc /\ held' = held
      BY <1>14 DEF IInv, TypeOK, Pick
    <3> QED
      BY <2>0, <3>1 DEF IInv, MaskInv
  <2>7. CpuInv'
    BY <1>14, <2>0 DEF IInv, CpuInv, Pick
  <2>8. MutualExclusion'
    <3>1. \A g \in Flow, m \in Lock : Owns(g, m)' <=> Owns(g, m)
      BY <1>14 DEF Owns, Pick
    <3> QED
      BY <3>1, <1>14, SameOwners DEF IInv, Pick
  <2> QED
    BY <2>1, <2>2, <2>3, <2>4, <2>5, <2>6, <2>7, <2>8 DEF IInv
<1>15. CASE UNCHANGED vars
  <2>1. TypeOK'
    BY <1>15 DEF IInv, TypeOK, vars
  <2>2. RunInv'
    BY <1>15 DEF IInv, RunInv, vars
  <2>3. RestInv'
    BY <1>15 DEF IInv, RestInv, On, vars
  <2>4. ArgInv'
    BY <1>15 DEF IInv, ArgInv, vars
  <2>5. CountInv'
    BY <1>15 DEF IInv, CountInv, On, vars
  <2>6. MaskInv'
    BY <1>15 DEF IInv, MaskInv, On, vars
  <2>7. CpuInv'
    BY <1>15 DEF IInv, CpuInv, On, vars
  <2>8. MutualExclusion'
    BY <1>15 DEF IInv, MutualExclusion, Owns, vars
  <2> QED
    BY <2>1, <2>2, <2>3, <2>4, <2>5, <2>6, <2>7, <2>8 DEF IInv
<1> QED
  BY <1>1, <1>2, <1>3, <1>4, <1>5, <1>6, <1>7, <1>8, <1>9, <1>10, <1>11, <1>12, <1>13, <1>14, <1>15 DEF Next, Step
------------------------------------------------------------------------------
\* The invariant holds throughout.
THEOREM Invariant == Spec => []IInv
  BY Initial, Inductive, PTL DEF Spec

\* Type correctness: in particular ownedLockNum is never negative.
THEOREM TypeCorrect == Spec => []TypeOK
  BY Invariant, PTL DEF IInv

\* Mutual exclusion: a lock has one owner at most, although its owner may be
\* interrupted and continued on another CPU while it takes the lock.
THEOREM Exclusion == Spec => []MutualExclusion
  BY Invariant, PTL DEF IInv

\* The checks of kmt_spin_unlock (lines 118, 119 and 122) never fail.
THEOREM UnlockSafe == Spec => []UnlockChecks
<1>1. IInv => UnlockChecks
  <2> SUFFICES ASSUME IInv, NEW c \in Cpu
               PROVE  /\ \A l \in held[On(c)] : lockState[l] = 1 /\ lockCpu[l] = c
                      /\ pc[On(c)] = "settle" => ownedLockNum[c] - 1 >= 0
    BY DEF UnlockChecks
  <2>1. On(c) \in Flow
    BY OnFlow DEF IInv
  <2>2. \A l \in held[On(c)] : lockState[l] = 1 /\ lockCpu[l] = c
    BY <2>1 DEF IInv, TypeOK, MutualExclusion, Owns, CpuInv
  <2>3. pc[On(c)] = "settle" => ownedLockNum[c] - 1 >= 0
    BY <2>1, FS_CardinalityType DEF IInv, CountInv
  <2> QED
    BY <2>2, <2>3
<1> QED
  BY <1>1, Invariant, PTL

\* Without an interrupt in the window, istate keeps the right flag.
THEOREM CalmInductive == IInv /\ CalmInv /\ [Next]_vars => CalmInv'
<1> SUFFICES ASSUME IInv, CalmInv, [Next]_vars, calm' PROVE CalmInv'
  BY DEF CalmInv
<1>0. /\ \A c \in Cpu : On(c) \in Flow
      /\ \A c, d \in Cpu : On(c) = On(d) => c = d
  BY OnFlow DEF IInv
<1> USE FlowAssumption DEF lockVars, cpuVars, runVars, Goto
<1>1. ASSUME NEW c \in Cpu, NEW l \in Lock, Call(c, l) PROVE CalmInv'
  BY <1>0, <1>1 DEF IInv, TypeOK, CalmInv, On, Call
<1>2. ASSUME NEW c \in Cpu, NEW l \in Lock, Release(c, l) PROVE CalmInv'
  BY <1>0, <1>2 DEF IInv, TypeOK, CalmInv, On, Release
<1>3. ASSUME NEW c \in Cpu, Acquire(c) PROVE CalmInv'
  BY <1>3 DEF CalmInv, On, Acquire
<1>4. ASSUME NEW c \in Cpu, Look(c) PROVE CalmInv'
  BY <1>0, <1>4 DEF IInv, TypeOK, CalmInv, On, Look
<1>5. ASSUME NEW c \in Cpu, Test(c) PROVE CalmInv'
  <2>1. \A d \in Cpu : On(d)' = On(d)
    BY <1>5 DEF Test, On
  <2>2. calm /\ \A d \in Cpu \ {c} : On(d) \in Flow \ {On(c)}
    BY <1>0, <1>5 DEF Test
  <2>3. addr[On(c)] = c /\ ownedLockNum[c] = Cardinality(held[On(c)])
    BY <1>0, <1>5, FS_CardinalityType DEF IInv, CountInv, CalmInv, Test
  <2>4. ownedLockNum[c] = 0 <=> held[On(c)] = {}
    BY <1>0, <2>3, FS_EmptySet DEF IInv, CountInv
  <2>7. /\ pc'[On(c)] \in {"test", "store"} => addr'[On(c)] = c
        /\ pc'[On(c)] \in {"sense", "store"} => held'[On(c)] = {}
        /\ held'[On(c)] = {} /\ pc'[On(c)] \notin {"record", "settle"}
              => interrupts'[c] = (kernel'[c] = Nil)
        /\ held'[On(c)] # {} \/ pc'[On(c)] \in {"mask", "record", "settle"}
              => istate'[c] = (kernel'[c] = Nil)
    BY <1>5, <2>4 DEF IInv, TypeOK, CalmInv, Test
  <2>8. \A d \in Cpu \ {c} :
           /\ pc'[On(d)] = pc[On(d)] /\ held'[On(d)] = held[On(d)]
           /\ addr'[On(d)] = addr[On(d)] /\ interrupts'[d] = interrupts[d]
           /\ kernel'[d] = kernel[d] /\ istate'[d] = istate[d]
    BY <1>5, <2>2 DEF IInv, TypeOK, Test
  <2>9. /\ \A f \in Flow : (\A d \in Cpu : On(d) # f) => pc'[f] = pc[f]
        /\ eflags' = eflags /\ cont' = cont /\ prev' = prev
    BY <1>5 DEF IInv, TypeOK, Test
  <2> QED
    BY <2>1, <2>2, <2>7, <2>8, <2>9 DEF CalmInv
<1>6. ASSUME NEW c \in Cpu, Sense(c) PROVE CalmInv'
  BY <1>0, <1>6 DEF IInv, TypeOK, CalmInv, On, Sense
<1>7. ASSUME NEW c \in Cpu, Store(c) PROVE CalmInv'
  BY <1>0, <1>7 DEF IInv, TypeOK, CalmInv, On, Store
<1>8. ASSUME NEW c \in Cpu, Mask(c) PROVE CalmInv'
  <2>1. \A d \in Cpu : On(d)' = On(d)
    BY <1>8 DEF Mask, On
  <2>2. calm /\ \A d \in Cpu \ {c} : On(d) \in Flow \ {On(c)}
    BY <1>0, <1>8 DEF Mask
  <2>7. /\ pc'[On(c)] \in {"test", "store"} => addr'[On(c)] = c
        /\ pc'[On(c)] \in {"sense", "store"} => held'[On(c)] = {}
        /\ held'[On(c)] = {} /\ pc'[On(c)] \notin {"record", "settle"}
              => interrupts'[c] = (kernel'[c] = Nil)
        /\ held'[On(c)] # {} \/ pc'[On(c)] \in {"mask", "record", "settle"}
              => istate'[c] = (kernel'[c] = Nil)
    BY <1>0, <1>8 DEF IInv, TypeOK, CalmInv, Mask
  <2>8. \A d \in Cpu \ {c} :
           /\ pc'[On(d)] = pc[On(d)] /\ held'[On(d)] = held[On(d)]
           /\ addr'[On(d)] = addr[On(d)] /\ interrupts'[d] = interrupts[d]
           /\ kernel'[d] = kernel[d] /\ istate'[d] = istate[d]
    BY <1>8, <2>2 DEF Mask
  <2>9. /\ \A f \in Flow : (\A d \in Cpu : On(d) # f) => pc'[f] = pc[f]
        /\ eflags' = eflags /\ cont' = cont /\ prev' = prev
    BY <1>8 DEF Mask
  <2> QED
    BY <2>1, <2>2, <2>7, <2>8, <2>9 DEF CalmInv
<1>9. ASSUME NEW c \in Cpu, Record(c) PROVE CalmInv'
  <2>1. \A d \in Cpu : On(d)' = On(d)
    BY <1>9 DEF Record, On
  <2>2. calm /\ \A d \in Cpu \ {c} : On(d) \in Flow \ {On(c)}
    BY <1>0, <1>9 DEF Record
  <2>7. /\ pc'[On(c)] \in {"test", "store"} => addr'[On(c)] = c
        /\ pc'[On(c)] \in {"sense", "store"} => held'[On(c)] = {}
        /\ held'[On(c)] = {} /\ pc'[On(c)] \notin {"record", "settle"}
              => interrupts'[c] = (kernel'[c] = Nil)
        /\ held'[On(c)] # {} \/ pc'[On(c)] \in {"mask", "record", "settle"}
              => istate'[c] = (kernel'[c] = Nil)
    BY <1>0, <1>9 DEF IInv, TypeOK, CalmInv, Record
  <2>8. \A d \in Cpu \ {c} :
           /\ pc'[On(d)] = pc[On(d)] /\ held'[On(d)] = held[On(d)]
           /\ addr'[On(d)] = addr[On(d)] /\ interrupts'[d] = interrupts[d]
           /\ kernel'[d] = kernel[d] /\ istate'[d] = istate[d]
    BY <1>9, <2>2 DEF Record
  <2>9. /\ \A f \in Flow : (\A d \in Cpu : On(d) # f) => pc'[f] = pc[f]
        /\ eflags' = eflags /\ cont' = cont /\ prev' = prev
    BY <1>9 DEF Record
  <2> QED
    BY <2>1, <2>2, <2>7, <2>8, <2>9 DEF CalmInv
<1>10. ASSUME NEW c \in Cpu, Settle(c) PROVE CalmInv'
  <2>1. \A d \in Cpu : On(d)' = On(d)
    BY <1>10 DEF Settle, On
  <2>2. calm /\ \A d \in Cpu \ {c} : On(d) \in Flow \ {On(c)}
    BY <1>0, <1>10 DEF Settle
  <2>3. ownedLockNum[c] = Cardinality(held[On(c)]) + 1 /\ Cardinality(held[On(c)]) \in Nat
    BY <1>0, <1>10, FS_CardinalityType DEF IInv, CountInv, Settle
  <2>4. ownedLockNum[c] = 1 <=> held[On(c)] = {}
    BY <1>0, <2>3, FS_EmptySet DEF IInv, CountInv
  <2>5. interrupts[c] = FALSE
    BY <1>10 DEF IInv, MaskInv, Settle
  <2>6. /\ pc'[On(c)] = "idle" /\ held' = held /\ kernel' = kernel /\ istate' = istate
        /\ interrupts'[c] = (held[On(c)] = {} /\ istate[c])
    BY <1>0, <1>10, <2>4, <2>5 DEF IInv, TypeOK, Settle
  <2>7. /\ pc'[On(c)] \in {"test", "store"} => addr'[On(c)] = c
        /\ pc'[On(c)] \in {"sense", "store"} => held'[On(c)] = {}
        /\ held'[On(c)] = {} /\ pc'[On(c)] \notin {"record", "settle"}
              => interrupts'[c] = (kernel'[c] = Nil)
        /\ held'[On(c)] # {} \/ pc'[On(c)] \in {"mask", "record", "settle"}
              => istate'[c] = (kernel'[c] = Nil)
    BY <1>10, <2>6 DEF IInv, TypeOK, CalmInv, Settle
  <2>8. \A d \in Cpu \ {c} :
           /\ pc'[On(d)] = pc[On(d)] /\ held'[On(d)] = held[On(d)]
           /\ addr'[On(d)] = addr[On(d)] /\ interrupts'[d] = interrupts[d]
           /\ kernel'[d] = kernel[d] /\ istate'[d] = istate[d]
    BY <1>10, <2>2 DEF Settle
  <2>9. /\ \A f \in Flow : (\A d \in Cpu : On(d) # f) => pc'[f] = pc[f]
        /\ eflags' = eflags /\ cont' = cont /\ prev' = prev
    BY <1>10 DEF Settle
  <2> QED
    BY <2>1, <2>2, <2>7, <2>8, <2>9 DEF CalmInv
<1>11. ASSUME NEW c \in Cpu, NEW h \in Kernel, Trap(c, h) PROVE CalmInv'
  <2>0. /\ h \in Flow /\ On(c) \in Flow /\ \A d \in Cpu : On(d) # h
        /\ held[On(c)] = {} /\ pc[On(c)] \notin {"record", "settle", "restore"}
        /\ held[h] = {} /\ pc[h] \notin {"record", "settle", "restore"} \cup Window
        /\ On(c)' = h /\ \A d \in Cpu \ {c} : On(d)' = On(d)
        /\ pc' = [pc EXCEPT ![h] = "restore"] /\ held' = held
    BY <1>11, Interrupted
  <2>1. calm /\ pc[On(c)] \in {"idle", "xchg"}
    BY <1>11, <2>0 DEF IInv, TypeOK, Trap, Labels, Window
  <2>2. interrupts[c] /\ kernel[c] = Nil
    BY <1>11, <2>0, <2>1 DEF CalmInv, Trap
  <2>3. (\A t \in Task : eflags'[t] /\ cont'[t] = Nil) /\ \A k \in Kernel : prev'[k] = Nil
    BY <1>11, <2>1, <2>2 DEF IInv, TypeOK, CalmInv, Trap
  <2>4. /\ pc'[h] = "restore" /\ \A f \in Flow \ {h} : pc'[f] = pc[f]
        /\ addr' = addr /\ istate' = istate
        /\ interrupts'[c] = FALSE /\ \A d \in Cpu \ {c} : interrupts'[d] = interrupts[d]
        /\ kernel'[c] # Nil /\ \A d \in Cpu \ {c} : kernel'[d] = kernel[d]
    BY <1>11, <2>0 DEF IInv, TypeOK, Trap
  <2>6. \A f \in Flow : (\A d \in Cpu : On(d)' # f) => pc'[f] \in {"idle", "xchg"}
    BY <2>0, <2>1, <2>4 DEF CalmInv
  <2>7. \A d \in Cpu \ {c} : On(d) \in Flow \ {h}
    BY <1>0, <2>0
  <2>8. ASSUME NEW d \in Cpu \ {c}
        PROVE  /\ pc'[On(d)] \in {"test", "store"} => addr'[On(d)] = d
               /\ pc'[On(d)] \in {"sense", "store"} => held'[On(d)] = {}
               /\ held'[On(d)] = {} /\ pc'[On(d)] \notin {"record", "settle"}
                     => interrupts'[d] = (kernel'[d] = Nil)
               /\ held'[On(d)] # {} \/ pc'[On(d)] \in {"mask", "record", "settle"}
                     => istate'[d] = (kernel'[d] = Nil)
    BY <2>0, <2>1, <2>4, <2>7 DEF CalmInv
  <2>9. /\ pc'[h] \in {"test", "store"} => addr'[h] = c
        /\ pc'[h] \in {"sense", "store"} => held'[h] = {}
        /\ held'[h] = {} /\ pc'[h] \notin {"record", "settle"}
              => interrupts'[c] = (kernel'[c] = Nil)
        /\ held'[h] # {} \/ pc'[h] \in {"mask", "record", "settle"}
              => istate'[c] = (kernel'[c] = Nil)
    BY <2>0, <2>4
  <2> QED
    BY <2>0, <2>3, <2>6, <2>8, <2>9 DEF CalmInv
<1>12. ASSUME NEW c \in Cpu, Restore(c) PROVE CalmInv'
  <2>1. \A d \in Cpu : On(d)' = On(d)
    BY <1>12 DEF Restore, On
  <2>2. calm /\ \A d \in Cpu \ {c} : On(d) \in Flow \ {On(c)}
    BY <1>0, <1>12 DEF Restore
  <2>3. pc' = [pc EXCEPT ![On(c)] = "idle"] /\ held' = held /\ held[On(c)] = {}
    BY <1>12 DEF IInv, CountInv, Restore
  <2>7. /\ pc'[On(c)] \in {"test", "store"} => addr'[On(c)] = c
        /\ pc'[On(c)] \in {"sense", "store"} => held'[On(c)] = {}
        /\ held'[On(c)] = {} /\ pc'[On(c)] \notin {"record", "settle"}
              => interrupts'[c] = (kernel'[c] = Nil)
        /\ held'[On(c)] # {} \/ pc'[On(c)] \in {"mask", "record", "settle"}
              => istate'[c] = (kernel'[c] = Nil)
    BY <1>0, <1>12, <2>3 DEF IInv, TypeOK, CalmInv, Restore
  <2>8. \A d \in Cpu \ {c} :
           /\ pc'[On(d)] = pc[On(d)] /\ held'[On(d)] = held[On(d)]
           /\ addr'[On(d)] = addr[On(d)] /\ interrupts'[d] = interrupts[d]
           /\ kernel'[d] = kernel[d] /\ istate'[d] = istate[d]
    BY <1>12, <2>2 DEF Restore
  <2>9. /\ \A f \in Flow : (\A d \in Cpu : On(d) # f) => pc'[f] = pc[f]
        /\ eflags' = eflags /\ cont' = cont /\ prev' = prev
    BY <1>12 DEF Restore
  <2> QED
    BY <2>1, <2>2, <2>7, <2>8, <2>9 DEF CalmInv
<1>13. ASSUME NEW c \in Cpu, PutBack(c) PROVE CalmInv'
  <2>1. \A d \in Cpu : On(d)' = On(d)
    BY <1>13 DEF PutBack, On
  <2>2. (\A t \in Task : cont'[t] = Nil) /\ \A h \in Kernel : prev'[h] = Nil
    BY <1>13 DEF IInv, TypeOK, CalmInv, PutBack
  <2> QED
    BY <1>13, <2>1, <2>2 DEF CalmInv, PutBack
<1>14. ASSUME NEW c \in Cpu, NEW t \in Task, Pick(c, t) PROVE CalmInv'
  <2>0. calm /\ cont[t] = Nil /\ eflags[t]
    BY <1>14 DEF CalmInv, Pick
  <2>1. /\ On(c) = kernel[c] /\ On(c)' = t
        /\ \A d \in Cpu \ {c} : On(d)' = On(d)
        /\ t \in Flow /\ \A d \in Cpu : On(d) # t
        /\ held[t] = {} /\ pc[t] \notin {"record", "settle", "restore"}
    BY <1>14, <2>0, Picked
  <2>3. pc[t] \in {"idle", "xchg"}
    BY <2>0, <2>1 DEF CalmInv
  <2>4. /\ pc' = pc /\ held' = held /\ addr' = addr /\ istate' = istate
        /\ prev' = prev /\ pc[On(c)] = "idle" /\ cont' = [cont EXCEPT ![t] = Nil]
        /\ interrupts'[c] = TRUE /\ \A d \in Cpu \ {c} : interrupts'[d] = interrupts[d]
        /\ kernel'[c] = Nil /\ \A d \in Cpu \ {c} : kernel'[d] = kernel[d]
    BY <1>14, <2>0, <2>1 DEF IInv, TypeOK, Pick
  <2>5. \A f \in Flow : (\A d \in Cpu : On(d)' # f) => pc'[f] \in {"idle", "xchg"}
    BY <2>0, <2>1, <2>4 DEF CalmInv
  <2>6. ASSUME NEW d \in Cpu \ {c}
        PROVE  /\ pc'[On(d)] \in {"test", "store"} => addr'[On(d)] = d
               /\ pc'[On(d)] \in {"sense", "store"} => held'[On(d)] = {}
               /\ held'[On(d)] = {} /\ pc'[On(d)] \notin {"record", "settle"}
                     => interrupts'[d] = (kernel'[d] = Nil)
               /\ held'[On(d)] # {} \/ pc'[On(d)] \in {"mask", "record", "settle"}
                     => istate'[d] = (kernel'[d] = Nil)
    BY <2>0, <2>4 DEF CalmInv
  <2>7. /\ pc'[t] \in {"test", "store"} => addr'[t] = c
        /\ pc'[t] \in {"sense", "store"} => held'[t] = {}
        /\ held'[t] = {} /\ pc'[t] \notin {"record", "settle"}
              => interrupts'[c] = (kernel'[c] = Nil)
        /\ held'[t] # {} \/ pc'[t] \in {"mask", "record", "settle"}
              => istate'[c] = (kernel'[c] = Nil)
    BY <2>1, <2>3, <2>4
  <2>8. /\ \A u \in Task : eflags'[u] /\ cont'[u] = Nil
        /\ \A k \in Kernel : prev'[k] = Nil
    BY <1>14, <2>0, <2>4 DEF IInv, TypeOK, CalmInv, Pick
  <2> QED
    BY <2>1, <2>5, <2>6, <2>7, <2>8 DEF CalmInv
<1>15. CASE UNCHANGED vars
  BY <1>15 DEF CalmInv, On, vars
<1> QED
  BY <1>1, <1>2, <1>3, <1>4, <1>5, <1>6, <1>7, <1>8, <1>9, <1>10, <1>11, <1>12, <1>13, <1>14, <1>15 DEF Next, Step

\* The first states are calm in this sense.
LEMMA CalmInitially == Init => CalmInv
<1> SUFFICES ASSUME Init PROVE CalmInv
  OBVIOUS
<1>1. \A c \in Cpu : kernel[c] # Nil /\ On(c) = kernel[c] /\ kernel[c] \in Flow
  BY FlowAssumption DEF Init, On, Flow
<1> QED
  BY <1>1 DEF Init, CpuInit, CalmInv
\* As long as no interrupt has come in the window, who owns a lock is executing:
\* no handler waits for a task that cannot run.
THEOREM OwnersRun == Spec => []OwnerRuns
<1>1. IInv /\ CalmInv => OwnerRuns
  BY DEF IInv, RestInv, CalmInv, OwnerRuns, Owns, Window
<1> QED
  BY <1>1, CalmInitially, Invariant, CalmInductive, PTL DEF Spec

\* Without an interrupt in the window, unlocking restores the interrupts.
THEOREM Restores == Spec => []RestoresInterrupts
<1>1. CalmInv => RestoresInterrupts
  BY DEF CalmInv, RestoresInterrupts
<1> QED
  BY <1>1, CalmInitially, Invariant, CalmInductive, PTL DEF Spec
==============================================================================
