------------------------------ MODULE NativeProofs ----------------------------
(***************************************************************************)
(* Proofs about Native for any number of processors, tasks and pages, and  *)
(* any length of the key queue.                                            *)
(***************************************************************************)
EXTENDS Native, FiniteSetTheorems, TLAPS

\* The address space and the kernel stack that belong to a context.
Home(x) == IF x \in Task THEN x ELSE None

Place == {"text", "lib", "user"}
Event == {"NULL", "IRQ_TIMER", "IRQ_IODEV", "YIELD", "SYSCALL", "PAGEFAULT"}
Page == [va : Va, pa : Pa, is_mapped : BOOLEAN]

Saved == [held : BOOLEAN, rip : Place \cup {None}, blocked : BOOLEAN,
          head : Task \cup {None}, ksp : Task \cup {None}]
Process == [cpuid : Cpu, head : Task \cup {None}, ksp : Task \cup {None}, ev : Event]
Stage == {"none", "child", "fork", "release", "run", "irq", "handler", "switch", "iret"}

TypeInv ==
  /\ stage \in [Cpu -> Stage]
  /\ thiscpu \in [Cpu -> Process]
  /\ on \in [Cpu -> [run : Context, next : Context]]
  /\ rip \in [Cpu -> Place]
  /\ blocked \in [Cpu -> BOOLEAN]
  /\ cause \in [Cpu -> Event]
  /\ ctx \in [Context -> Saved]
  /\ pages \in [Task -> SUBSET Page]
  /\ mm \in [Cpu -> SUBSET (Va \X Pa)]
  /\ pipe \in Int /\ devices \in Nat

\* No byte is in the pipe before the first process has initialised the devices.
BootInv ==
  /\ stage[0] \notin {"none", "child"}
  /\ devices = IF stage[0] = "fork" THEN 0 ELSE 1
  /\ thiscpu[0].cpuid = 0
  /\ stage[0] \in {"fork", "release"} => pipe = 0
  /\ \A c \in Cpu \ {0} :
        /\ stage[c] \notin {"fork", "release"}
        /\ stage[0] \in {"fork", "release"} => stage[c] \in {"none", "child"}
        /\ stage[c] \notin {"none", "child"} => thiscpu[c].cpuid = c

TrapInv ==
  \A c \in Cpu :
    /\ stage[c] \in {"irq", "handler", "switch", "iret"} => blocked[c] /\ ctx[on[c].run].rip # None
    /\ stage[c] \in {"switch", "iret"} => ctx[on[c].next].rip # None
    /\ stage[c] \in {"irq", "handler"} => thiscpu[c].ev = cause[c]
    /\ stage[c] \in {"none", "child", "fork", "release"} => on[c].run \in Cpu

\* A context is on one processor, or about to be.
HeldInv ==
  \A c \in Cpu :
    /\ ctx[on[c].run].held /\ ctx[on[c].next].held
    /\ stage[c] \notin {"switch", "iret"} => on[c].next = on[c].run
    /\ \A d \in Cpu \ {c} : {on[c].run, on[c].next} \cap {on[d].run, on[d].next} = {}

\* A user context keeps its own space and stack, saved or on a processor.
HomeInv ==
  /\ \A t \in Task : /\ ctx[t].rip # None => ctx[t].head = t /\ ctx[t].ksp = t
                     /\ ctx[t].held => ctx[t].rip # None
  /\ \A i \in Cpu : ctx[i].head = None /\ ctx[i].ksp = None /\ ctx[i].rip # "user"
  /\ \A c \in Cpu :
        /\ thiscpu[c].head = Home(IF stage[c] = "iret" THEN on[c].next ELSE on[c].run)
        /\ thiscpu[c].ksp = Home(on[c].run)
        /\ on[c].run \in Cpu => rip[c] # "user"

\* The flags say whether a processor is in the address space.
PageInv == \A t \in Task : \A p \in pages[t] : p.is_mapped <=> \E c \in Cpu : thiscpu[c].head = t

\* The invariant of everything but the keyboard, which shares no state with it.
TrapsInv == TypeInv /\ BootInv /\ TrapInv /\ HeldInv /\ HomeInv /\ PageInv /\ MappedRight

KeyQueue == [cells : [0..(KeyLen - 1) -> Nat], f : 0..(KeyLen - 1), r : 0..(KeyLen - 1),
             pressed : Nat, read : Nat, full : BOOLEAN]
KeyType == queue \in KeyQueue
KeysInv == KeyType /\ KeysInOrder

IInv == TrapsInv /\ KeysInv
------------------------------------------------------------------------------
\* The names of processors, tasks and the null pointer are different, so a user
\* context and its space determine each other.
LEMMA Apart ==
  /\ 0 \in Cpu /\ None \notin Task /\ None \notin Place
  /\ \A c \in Cpu : c \notin Task /\ Home(c) = None /\ c \in Context
  /\ \A t \in Task : Home(t) = t /\ t \in Context
  /\ \A x \in Context : Home(x) \in Task \cup {None} /\ (Home(x) # None => x = Home(x))
  /\ \A x \in Context : x \in Cpu \/ x \in Task
  BY NativeAssumption DEF Cpu, Context, Home, Place

\* What an assignment to one field of the private structure does.
LEMMA ProcessField ==
  ASSUME NEW f \in [Cpu -> Process], NEW c \in Cpu
  PROVE  /\ \A e \in Event : LET g == [f EXCEPT ![c].ev = e]
            IN /\ g \in [Cpu -> Process] /\ g[c].ev = e
               /\ g[c].cpuid = f[c].cpuid /\ g[c].head = f[c].head /\ g[c].ksp = f[c].ksp
               /\ \A d \in Cpu \ {c} : g[d] = f[d]
         /\ \A h \in Task \cup {None} : LET g == [f EXCEPT ![c].head = h]
            IN /\ g \in [Cpu -> Process] /\ g[c].head = h
               /\ g[c].cpuid = f[c].cpuid /\ g[c].ev = f[c].ev /\ g[c].ksp = f[c].ksp
               /\ \A d \in Cpu \ {c} : g[d] = f[d]
         /\ \A k \in Task \cup {None} : LET g == [f EXCEPT ![c].ksp = k]
            IN /\ g \in [Cpu -> Process] /\ g[c].ksp = k
               /\ g[c].cpuid = f[c].cpuid /\ g[c].ev = f[c].ev /\ g[c].head = f[c].head
               /\ \A d \in Cpu \ {c} : g[d] = f[d]
         /\ \A i \in Cpu : LET g == [f EXCEPT ![c].cpuid = i]
            IN /\ g \in [Cpu -> Process] /\ g[c].cpuid = i
               /\ g[c].head = f[c].head /\ g[c].ev = f[c].ev /\ g[c].ksp = f[c].ksp
               /\ \A d \in Cpu \ {c} : g[d] = f[d]
  BY DEF Process

\* A processor that is forked has a number of its own.
LEMMA NextChild == Cardinality(Children) < NCpu - 1 =>
    Cardinality(Children) + 1 \in Cpu \ {0}
<1>1. IsFiniteSet(Cpu)
  BY NativeAssumption, FS_Interval DEF Cpu
<1>2. Children \subseteq Cpu
  BY DEF Children
<1>3. Cardinality(Children) \in Nat
  BY <1>1, <1>2, FS_Subset, FS_CardinalityType
<1> QED
  BY <1>3, NativeAssumption DEF Cpu

\* At the start processor 0 forks, and no task has been made.
THEOREM Initial == Init => IInv
<1> SUFFICES ASSUME Init PROVE IInv
  OBVIOUS
<1> USE Apart DEF Init
<1>1. TypeInv
  <2>1. Private \in Process
    BY DEF Private, Process, Event
  <2>2. ctx \in [Context -> Saved]
    BY DEF Saved
  <2>3. on \in [Cpu -> [run : Context, next : Context]]
    OBVIOUS
  <2> QED
    BY <2>1, <2>2, <2>3 DEF TypeInv, Stage, Place, Event
<1>2. BootInv
  BY DEF BootInv, Private
<1>3. TrapInv
  BY DEF TrapInv
<1>4. HeldInv
  BY DEF HeldInv
<1>5. HomeInv
  <2>1. \A t \in Task : ctx[t].rip = None /\ ~ctx[t].held
    OBVIOUS
  <2>2. \A i \in Cpu : ctx[i].head = None /\ ctx[i].ksp = None /\ ctx[i].rip = None
    OBVIOUS
  <2>3. None # "user"
    BY NativeAssumption
  <2> QED
    BY <2>1, <2>2, <2>3 DEF HomeInv, Private
<1>6. PageInv
  BY DEF PageInv
<1>7. MappedRight
  BY DEF MappedRight, Private
<1>8. KeyType
  BY NativeAssumption DEF KeyType, KeyQueue
<1>9. KeysInOrder
  BY NativeAssumption DEF KeysInOrder
<1> QED
  BY <1>1, <1>2, <1>3, <1>4, <1>5, <1>6, <1>7, <1>8, <1>9 DEF IInv, TrapsInv, KeysInv

\* A step that moves no processor and no page.
LEMMA SameSpaces ==
  ASSUME PageInv, MappedRight, pages' = pages, mm' = mm,
         \A d \in Cpu : thiscpu'[d].head = thiscpu[d].head
  PROVE  PageInv' /\ MappedRight'
<1>1. PageInv'
  BY DEF PageInv
<1>2. MappedRight'
  BY DEF MappedRight
<1> QED
  BY <1>1, <1>2

\* A trap, whatever its cause: the context that runs keeps its space and its
\* stack, and what is saved is not user space if it is a processor's own.
LEMMA Trapped ==
  ASSUME TrapsInv, NEW c \in Cpu, NEW e \in Event, stage[c] = "run", SetupStack(c, e),
         on' = on, rip' = rip, pages' = pages, mm' = mm, pipe' = pipe, devices' = devices
  PROVE  TrapsInv'
<1> DEFINE x == on[c].run
<1>1. TypeInv /\ BootInv /\ TrapInv /\ HeldInv /\ HomeInv /\ PageInv /\ MappedRight
  BY DEF TrapsInv
<1>2. x \in Context /\ rip[c] \in Place /\ blocked[c] \in BOOLEAN
  BY <1>1 DEF TypeInv
<1>3. /\ thiscpu' \in [Cpu -> Process]
      /\ thiscpu'[c].ev = e
      /\ thiscpu'[c].cpuid = thiscpu[c].cpuid
      /\ thiscpu'[c].head = thiscpu[c].head /\ thiscpu'[c].ksp = thiscpu[c].ksp
      /\ \A d \in Cpu \ {c} : thiscpu'[d] = thiscpu[d]
  <2>1. thiscpu \in [Cpu -> Process] /\ thiscpu' = [thiscpu EXCEPT ![c].ev = e]
    BY <1>1 DEF TypeInv, SetupStack
  <2> QED
    BY <2>1, ProcessField
<1>4. /\ ctx' \in [Context -> Saved]
      /\ ctx'[x].rip = rip[c]
      /\ ctx'[x].held = ctx[x].held /\ ctx'[x].head = ctx[x].head /\ ctx'[x].ksp = ctx[x].ksp
      /\ \A y \in Context \ {x} : ctx'[y] = ctx[y]
  <2>1. /\ ctx \in [Context -> Saved]
        /\ ctx' = [ctx EXCEPT ![x].rip = rip[c], ![x].blocked = blocked[c]]
    BY <1>1 DEF TypeInv, SetupStack
  <2> HIDE DEF x
  <2> QED
    BY <1>2, <2>1 DEF Saved
<1>5. /\ blocked' \in [Cpu -> BOOLEAN] /\ blocked'[c]
      /\ \A d \in Cpu \ {c} : blocked'[d] = blocked[d]
      /\ cause' \in [Cpu -> Event] /\ cause'[c] = e
      /\ \A d \in Cpu \ {c} : cause'[d] = cause[d]
      /\ stage' \in [Cpu -> Stage] /\ stage'[c] = "irq"
      /\ \A d \in Cpu \ {c} : stage'[d] = stage[d]
  BY <1>1 DEF TypeInv, SetupStack, Stage
<1> HIDE DEF x
<1>6. TypeInv'
  BY <1>1, <1>3, <1>4, <1>5 DEF TypeInv
<1>7. BootInv'
  BY <1>1, <1>3, <1>5, Apart DEF BootInv
<1>8. TrapInv'
  <2>1. \A y \in Context : y = x \/ ctx[y].rip # None => ctx'[y].rip # None
    BY <1>2, <1>4, Apart
  <2>2. \A d \in Cpu : on[d].run \in Context /\ on[d].next \in Context
    BY <1>1 DEF TypeInv
  <2> QED
    BY <1>1, <1>3, <1>5, <2>1, <2>2 DEF TrapInv, x
<1>9. HeldInv'
  <2>1. \A y \in Context : ctx'[y].held = ctx[y].held
    BY <1>4
  <2>2. \A d \in Cpu : on[d].run \in Context /\ on[d].next \in Context
    BY <1>1 DEF TypeInv
  <2> QED
    BY <1>1, <1>5, <2>1, <2>2 DEF HeldInv
<1>10. HomeInv'
  <2>1. \A t \in Task : /\ ctx'[t].rip # None => ctx'[t].head = t /\ ctx'[t].ksp = t
                        /\ ctx'[t].held => ctx'[t].rip # None
    BY <1>1, <1>2, <1>4, Apart DEF HomeInv, HeldInv, x
  <2>2. \A i \in Cpu : ctx'[i].head = None /\ ctx'[i].ksp = None /\ ctx'[i].rip # "user"
    BY <1>1, <1>2, <1>4, Apart DEF HomeInv, x
  <2> QED
    BY <1>1, <1>3, <1>5, <2>1, <2>2 DEF HomeInv
<1>11. PageInv' /\ MappedRight'
  <2>1. \A d \in Cpu : thiscpu'[d].head = thiscpu[d].head
    BY <1>3
  <2> QED
    BY <1>1, <2>1, SameSpaces
<1> QED
  BY <1>6, <1>7, <1>8, <1>9, <1>10, <1>11 DEF TrapsInv

\* One step per action.  What it does to the structures that an invariant looks
\* into is stated first (<2>1 of each).
THEOREM TrapsInductive == TrapsInv /\ [Next]_vars => TrapsInv'
<1> SUFFICES ASSUME TrapsInv, [Next]_vars PROVE TrapsInv'
  OBVIOUS
<1>0. TypeInv /\ BootInv /\ TrapInv /\ HeldInv /\ HomeInv /\ PageInv /\ MappedRight
  BY DEF TrapsInv
<1>c. \A d \in Cpu : on[d].run \in Context /\ on[d].next \in Context
  BY <1>0 DEF TypeInv
<1>1. ASSUME stage' = stage, thiscpu' = thiscpu, on' = on, rip' = rip, blocked' = blocked,
             cause' = cause, ctx' = ctx, pages' = pages, mm' = mm, pipe' = pipe, devices' = devices
      PROVE  TrapsInv'
  <2>1. TypeInv' /\ BootInv' /\ TrapInv' /\ HeldInv'
    BY <1>0, <1>1 DEF TypeInv, BootInv, TrapInv, HeldInv
  <2>2. HomeInv' /\ PageInv' /\ MappedRight'
    BY <1>0, <1>1 DEF HomeInv, PageInv, MappedRight
  <2> QED
    BY <2>1, <2>2 DEF TrapsInv
<1>2. CASE Fork
  <2> DEFINE c == Cardinality(Children) + 1
  <2>1. c \in Cpu \ {0} /\ stage[0] = "fork"
    BY <1>2, NextChild DEF Fork
  <2>2. /\ stage' = [stage EXCEPT ![c] = "child"] /\ thiscpu' = [thiscpu EXCEPT ![c] = thiscpu[0]]
        /\ on' = on /\ rip' = rip /\ blocked' = blocked /\ cause' = cause /\ ctx' = ctx
        /\ pages' = pages /\ mm' = mm /\ pipe' = pipe /\ devices' = devices
    BY <1>2 DEF Fork, vmVars, bootVars
  <2> HIDE DEF c
  <2>3. /\ stage' \in [Cpu -> Stage] /\ stage'[c] = "child"
        /\ \A d \in Cpu \ {c} : stage'[d] = stage[d]
        /\ thiscpu' \in [Cpu -> Process] /\ thiscpu'[c] = thiscpu[0]
        /\ \A d \in Cpu \ {c} : thiscpu'[d] = thiscpu[d]
    BY <1>0, <2>1, <2>2, Apart DEF TypeInv, Stage
  <2>4. stage[c] \in {"none", "child"} /\ on[c].run \in Cpu /\ on[0].run \in Cpu
    BY <1>0, <2>1, Apart DEF BootInv, TrapInv
  <2>5. \A d \in Cpu : /\ thiscpu'[d].head = thiscpu[d].head
                       /\ thiscpu'[d].ksp = thiscpu[d].ksp
    <3>1. /\ thiscpu[0].head = None /\ thiscpu[0].ksp = None
          /\ thiscpu[c].head = None /\ thiscpu[c].ksp = None
      BY <1>0, <2>1, <2>4, Apart DEF HomeInv
    <3> QED
      BY <2>3, <3>1
  <2>6. TypeInv' /\ BootInv'
    BY <1>0, <2>1, <2>2, <2>3, Apart DEF TypeInv, BootInv
  <2>7. TrapInv' /\ HeldInv'
    BY <1>0, <2>1, <2>2, <2>3, <2>4 DEF TrapInv, HeldInv
  <2>8. HomeInv'
    BY <1>0, <2>1, <2>2, <2>3, <2>4, <2>5 DEF HomeInv
  <2>9. PageInv' /\ MappedRight'
    <3>1. pages' = pages /\ mm' = mm
      BY <2>2
    <3> QED
      <4>1. \A d \in Cpu : thiscpu'[d].head = thiscpu[d].head
        BY <2>5
      <4> QED
        BY <1>0, <3>1, <4>1, SameSpaces
  <2> QED
    BY <2>6, <2>7, <2>8, <2>9 DEF TrapsInv
<1>3. CASE Devices \/ Release
  <2>1. /\ stage[0] \in {"fork", "release"}
        /\ stage' \in [Cpu -> Stage] /\ stage'[0] \in {"release", "run"}
        /\ stage'[0] = "release" => pipe' = pipe /\ stage[0] = "fork" /\ devices' = devices + 1
        /\ stage'[0] = "run" => stage[0] = "release" /\ devices' = devices
        /\ \A d \in Cpu \ {0} : stage'[d] = stage[d]
        /\ pipe' \in Int /\ devices' \in Nat
    <3>1. stage \in [Cpu -> Stage] /\ pipe \in Int /\ devices \in Nat /\ NCpu \in Int
      BY <1>0, NativeAssumption DEF TypeInv
    <3>2. CASE Devices
      BY <3>1, <3>2, Apart DEF Stage, Devices
    <3>3. CASE Release
      BY <3>1, <3>3, Apart DEF Stage, Release
    <3> QED
      BY <1>3, <3>2, <3>3
  <2>2. /\ thiscpu' = thiscpu /\ on' = on /\ rip' = rip /\ blocked' = blocked /\ cause' = cause
        /\ ctx' = ctx /\ pages' = pages /\ mm' = mm
    BY <1>3 DEF Devices, Release, trapVars, vmVars
  <2>3. TypeInv' /\ BootInv'
    BY <1>0, <2>1, <2>2, Apart DEF TypeInv, BootInv
  <2>4. TrapInv' /\ HeldInv' /\ HomeInv'
    BY <1>0, <2>1, <2>2 DEF TrapInv, HeldInv, HomeInv
  <2>5. PageInv' /\ MappedRight'
    BY <1>0, <2>2, SameSpaces
  <2> QED
    BY <2>3, <2>4, <2>5 DEF TrapsInv
<1>4. ASSUME NEW c \in Cpu, Child(c) PROVE TrapsInv'
  <2>1. /\ stage[c] = "child" /\ pipe > 0
        /\ pipe' = pipe - 1 /\ thiscpu' = [thiscpu EXCEPT ![c].cpuid = c]
        /\ stage' = [stage EXCEPT ![c] = "run"]
        /\ on' = on /\ rip' = rip /\ blocked' = blocked /\ cause' = cause /\ ctx' = ctx
        /\ pages' = pages /\ mm' = mm /\ devices' = devices
    BY <1>4 DEF Child, vmVars
  <2>2. /\ thiscpu' \in [Cpu -> Process]
        /\ thiscpu'[c].cpuid = c
        /\ thiscpu'[c].head = thiscpu[c].head /\ thiscpu'[c].ksp = thiscpu[c].ksp
        /\ \A d \in Cpu \ {c} : thiscpu'[d] = thiscpu[d]
    <3>1. thiscpu \in [Cpu -> Process] /\ thiscpu' = [thiscpu EXCEPT ![c].cpuid = c]
      BY <1>0, <2>1 DEF TypeInv
    <3> QED
      BY <3>1, ProcessField
  <2>3. /\ stage' \in [Cpu -> Stage] /\ stage'[c] = "run"
        /\ \A d \in Cpu \ {c} : stage'[d] = stage[d]
        /\ pipe' \in Int
    BY <1>0, <2>1 DEF TypeInv, Stage
  <2>4. c # 0 /\ stage[0] \notin {"fork", "release"}
    BY <1>0, <2>1 DEF BootInv
  <2>5. TypeInv' /\ BootInv'
    BY <1>0, <2>1, <2>2, <2>3, <2>4, Apart DEF TypeInv, BootInv
  <2>6. TrapInv' /\ HeldInv' /\ HomeInv'
    BY <1>0, <2>1, <2>2, <2>3 DEF TrapInv, HeldInv, HomeInv
  <2>7. PageInv' /\ MappedRight'
    <3>1. \A d \in Cpu : thiscpu'[d].head = thiscpu[d].head
      BY <2>2
    <3> QED
      BY <1>0, <2>1, <3>1, SameSpaces
  <2> QED
    BY <2>5, <2>6, <2>7 DEF TrapsInv
<1>5. ASSUME NEW c \in Cpu, Work(c) \/ \E enable \in BOOLEAN : Iset(c, enable) PROVE TrapsInv'
  <2>1. /\ stage[c] = "run"
        /\ rip' \in [Cpu -> Place] /\ rip'[c] # "user" /\ \A d \in Cpu \ {c} : rip'[d] = rip[d]
        /\ blocked' \in [Cpu -> BOOLEAN] /\ \A d \in Cpu \ {c} : blocked'[d] = blocked[d]
    BY <1>0, <1>5 DEF TypeInv, Place, Work, Iset, Runs
  <2>2. /\ stage' = stage /\ thiscpu' = thiscpu /\ on' = on /\ cause' = cause /\ ctx' = ctx
        /\ pages' = pages /\ mm' = mm /\ pipe' = pipe /\ devices' = devices
    BY <1>5 DEF Work, Iset, vmVars, bootVars
  <2>3. TypeInv' /\ BootInv'
    BY <1>0, <2>1, <2>2 DEF TypeInv, BootInv
  <2>4. TrapInv' /\ HeldInv' /\ HomeInv'
    BY <1>0, <2>1, <2>2 DEF TrapInv, HeldInv, HomeInv
  <2>5. PageInv' /\ MappedRight'
    BY <1>0, <2>2, SameSpaces
  <2> QED
    BY <2>3, <2>4, <2>5 DEF TrapsInv
<1>6. ASSUME NEW c \in Cpu, NEW t \in Task, Create(c, t) PROVE TrapsInv'
  <2>1. /\ stage[c] = "run" /\ ctx[t].rip = None
        /\ ctx' = [ctx EXCEPT ![t] = UContext(t)]
        /\ stage' = stage /\ thiscpu' = thiscpu /\ on' = on /\ rip' = rip /\ blocked' = blocked
        /\ cause' = cause /\ pages' = pages /\ mm' = mm /\ pipe' = pipe /\ devices' = devices
    BY <1>6 DEF Create, Runs, vmVars, bootVars
  <2>2. UContext(t) \in Saved
    BY DEF UContext, Saved, Place
  <2>3. /\ ctx' \in [Context -> Saved] /\ ctx'[t] = UContext(t)
        /\ \A y \in Context \ {t} : ctx'[y] = ctx[y]
    BY <1>0, <2>1, <2>2, Apart DEF TypeInv
  <2>4. UContext(t).rip = "user" /\ UContext(t).head = t /\ UContext(t).ksp = t /\ ~UContext(t).held
    BY DEF UContext
  <2>5. ~ctx[t].held
    BY <1>0, <2>1 DEF HomeInv
  <2>6. \A d \in Cpu : on[d].run # t /\ on[d].next # t
    BY <1>0, <2>5 DEF HeldInv
  <2>7. \A d \in Cpu : ctx'[on[d].run] = ctx[on[d].run] /\ ctx'[on[d].next] = ctx[on[d].next]
    BY <1>c, <2>3, <2>6
  <2>8. TypeInv' /\ BootInv'
    BY <1>0, <2>1, <2>3 DEF TypeInv, BootInv
  <2>9. TrapInv' /\ HeldInv'
    BY <1>0, <2>1, <2>7 DEF TrapInv, HeldInv
  <2>10. HomeInv'
    <3>1. \A u \in Task : /\ ctx'[u].rip # None => ctx'[u].head = u /\ ctx'[u].ksp = u
                          /\ ctx'[u].held => ctx'[u].rip # None
      BY <1>0, <2>3, <2>4, Apart DEF HomeInv
    <3>2. \A i \in Cpu : ctx'[i] = ctx[i]
      BY <2>3, Apart
    <3> QED
      BY <1>0, <2>1, <3>1, <3>2 DEF HomeInv
  <2>11. PageInv' /\ MappedRight'
    BY <1>0, <2>1, SameSpaces
  <2> QED
    BY <2>8, <2>9, <2>10, <2>11 DEF TrapsInv
<1>7. ASSUME NEW c \in Cpu, NEW t \in Task, NEW va \in Va, NEW pa \in Pa, Map(c, t, va, pa)
      PROVE  TrapsInv'
  <2> DEFINE now == thiscpu[c].head = t
             new == [va |-> va, pa |-> pa, is_mapped |-> now]
  <2>1. /\ \A d \in Cpu \ {c} : thiscpu[d].head # t
        /\ pages' = [pages EXCEPT ![t] = @ \cup {new}]
        /\ mm' = IF now THEN [mm EXCEPT ![c] = @ \cup {<<va, pa>>}] ELSE mm
        /\ stage' = stage /\ thiscpu' = thiscpu /\ on' = on /\ rip' = rip /\ blocked' = blocked
        /\ cause' = cause /\ ctx' = ctx /\ pipe' = pipe /\ devices' = devices
    BY <1>7 DEF Map, trapVars, bootVars
  <2>2. new \in Page /\ new.va = va /\ new.pa = pa /\ new.is_mapped = now
    BY DEF Page
  <2> HIDE DEF new
  <2>3. /\ pages' \in [Task -> SUBSET Page] /\ mm' \in [Cpu -> SUBSET (Va \X Pa)]
        /\ pages'[t] = pages[t] \cup {new}
        /\ \A u \in Task \ {t} : pages'[u] = pages[u]
        /\ mm'[c] = IF now THEN mm[c] \cup {<<va, pa>>} ELSE mm[c]
        /\ \A d \in Cpu \ {c} : mm'[d] = mm[d]
    BY <1>0, <2>1, <2>2 DEF TypeInv
  <2>4. TypeInv' /\ BootInv'
    BY <1>0, <2>1, <2>3 DEF TypeInv, BootInv
  <2>5. TrapInv' /\ HeldInv' /\ HomeInv'
    BY <1>0, <2>1 DEF TrapInv, HeldInv, HomeInv
  <2>6. PageInv'
    <3>1. now <=> \E d \in Cpu : thiscpu[d].head = t
      BY <2>1
    <3> QED
      BY <1>0, <2>1, <2>2, <2>3, <3>1 DEF PageInv
  <2>7. MappedRight'
    <3> SUFFICES ASSUME NEW d \in Cpu
                 PROVE  mm'[d] = IF thiscpu[d].head = None THEN {}
                                 ELSE {<<p.va, p.pa>> : p \in pages'[thiscpu[d].head]}
      BY <2>1 DEF MappedRight
    <3>1. thiscpu[d].head \in Task \cup {None}
      BY <1>0 DEF TypeInv, Process
    <3>2. CASE d = c /\ now
      <4>1. {<<p.va, p.pa>> : p \in pages[t] \cup {new}}
              = {<<p.va, p.pa>> : p \in pages[t]} \cup {<<va, pa>>}
        BY <2>2
      <4>2. mm[c] = {<<p.va, p.pa>> : p \in pages[t]} /\ thiscpu[c].head # None
        BY <1>0, <3>2, Apart DEF MappedRight
      <4> QED
        BY <2>3, <3>2, <4>1, <4>2
    <3>3. CASE ~(d = c /\ now)
      <4>1. thiscpu[d].head # t
        BY <2>1, <3>3
      <4>2. mm'[d] = mm[d]
        BY <2>3, <3>3
      <4> QED
        BY <1>0, <2>3, <3>1, <4>1, <4>2 DEF MappedRight
    <3> QED
      BY <3>2, <3>3
  <2> QED
    BY <2>4, <2>5, <2>6, <2>7 DEF TrapsInv
<1>8. ASSUME NEW c \in Cpu, NEW e \in {"IRQ_TIMER", "IRQ_IODEV"}, Interrupt(c, e) PROVE TrapsInv'
  <2>1. /\ stage[c] \in {"run", "irq"} /\ ~blocked[c] /\ e \in Event
        /\ on' = on /\ rip' = rip /\ pages' = pages /\ mm' = mm /\ pipe' = pipe
        /\ devices' = devices
    BY <1>8 DEF Interrupt, vmVars, bootVars, Event
  <2>2. stage[c] = "run"
    BY <1>0, <2>1 DEF TrapInv
  <2>3. CASE SignalSafe(c)
    <3>1. SetupStack(c, e)
      BY <1>8, <2>3 DEF Interrupt
    <3> QED
      BY <2>1, <2>2, <3>1, Trapped
  <2>4. CASE ~SignalSafe(c)
    <3>1. /\ thiscpu' = [thiscpu EXCEPT ![c].ev = e]
          /\ stage' = stage /\ blocked' = blocked /\ cause' = cause /\ ctx' = ctx
      BY <1>8, <2>4 DEF Interrupt
    <3>2. /\ thiscpu' \in [Cpu -> Process]
          /\ thiscpu'[c].cpuid = thiscpu[c].cpuid
          /\ thiscpu'[c].head = thiscpu[c].head /\ thiscpu'[c].ksp = thiscpu[c].ksp
          /\ \A d \in Cpu \ {c} : thiscpu'[d] = thiscpu[d]
      <4>1. thiscpu \in [Cpu -> Process] /\ thiscpu' = [thiscpu EXCEPT ![c].ev = e] /\ e \in Event
        BY <1>0, <2>1, <3>1 DEF TypeInv
      <4> QED
        BY <4>1, ProcessField
    <3>3. TypeInv' /\ BootInv'
      BY <1>0, <2>1, <3>1, <3>2, Apart DEF TypeInv, BootInv
    <3>4. TrapInv' /\ HeldInv' /\ HomeInv'
      BY <1>0, <2>1, <2>2, <3>1, <3>2 DEF TrapInv, HeldInv, HomeInv
    <3>5. PageInv' /\ MappedRight'
      <4>1. \A d \in Cpu : thiscpu'[d].head = thiscpu[d].head
        BY <3>2
      <4> QED
        <5>1. pages' = pages /\ mm' = mm
          BY <2>1
        <5> QED
          BY <1>0, <4>1, <5>1, SameSpaces
    <3> QED
      BY <3>3, <3>4, <3>5 DEF TrapsInv
  <2> QED
    BY <2>3, <2>4
<1>9. ASSUME NEW c \in Cpu, Yield(c) \/ \E e \in {"SYSCALL", "PAGEFAULT"} : UserTrap(c, e)
      PROVE  TrapsInv'
  <2>1. PICK e \in Event : SetupStack(c, e)
    BY <1>9 DEF Yield, UserTrap, Event
  <2>2. /\ stage[c] = "run" /\ on' = on /\ rip' = rip /\ pages' = pages /\ mm' = mm
        /\ pipe' = pipe /\ devices' = devices
    BY <1>9 DEF Yield, UserTrap, Runs, vmVars, bootVars
  <2> QED
    BY <2>1, <2>2, Trapped
<1>10. ASSUME NEW c \in Cpu, IrqHandle(c) PROVE TrapsInv'
  <2> DEFINE x == on[c].run  h == thiscpu[c].head  k == thiscpu[c].ksp
  <2>1. /\ stage[c] = "irq" /\ ctx' = [ctx EXCEPT ![x].head = h, ![x].ksp = k]
        /\ stage' = [stage EXCEPT ![c] = "handler"]
        /\ thiscpu' = thiscpu /\ on' = on /\ rip' = rip /\ blocked' = blocked
        /\ cause' = cause /\ pages' = pages /\ mm' = mm /\ pipe' = pipe /\ devices' = devices
    BY <1>10 DEF IrqHandle, vmVars, bootVars
  <2>2. /\ x \in Context /\ h = Home(x) /\ k = Home(x) /\ h \in Task \cup {None}
        /\ k \in Task \cup {None}
    BY <1>0, <1>c, <2>1, Apart DEF HomeInv
  <2>3. ctx \in [Context -> Saved]
    BY <1>0 DEF TypeInv
  <2>4. /\ ctx' \in [Context -> Saved]
        /\ ctx'[x].head = h /\ ctx'[x].ksp = k
        /\ ctx'[x].held = ctx[x].held /\ ctx'[x].rip = ctx[x].rip
        /\ \A y \in Context \ {x} : ctx'[y] = ctx[y]
    <3> HIDE DEF x, h, k
    <3> QED
      BY <2>1, <2>2, <2>3 DEF Saved
  <2>5. /\ stage' \in [Cpu -> Stage] /\ stage'[c] = "handler"
        /\ \A d \in Cpu \ {c} : stage'[d] = stage[d]
    BY <1>0, <2>1 DEF TypeInv, Stage
  <2>6. \A y \in Context : ctx'[y].held = ctx[y].held /\ ctx'[y].rip = ctx[y].rip
    BY <2>4
  <2> HIDE DEF x, h, k
  <2>7. TypeInv' /\ BootInv'
    BY <1>0, <2>1, <2>4, <2>5 DEF TypeInv, BootInv
  <2>8. TrapInv' /\ HeldInv'
    <3>1. /\ on' = on /\ blocked' = blocked /\ thiscpu' = thiscpu /\ cause' = cause
          /\ stage[c] = "irq"
      BY <2>1
    <3>2. TrapInv'
      BY <1>0, <1>c, <2>5, <2>6, <3>1 DEF TrapInv
    <3>3. HeldInv'
      BY <1>0, <1>c, <2>5, <2>6, <3>1 DEF HeldInv
    <3> QED
      BY <3>2, <3>3
  <2>9. HomeInv'
    <3>1. \A t \in Task : /\ ctx'[t].rip # None => ctx'[t].head = t /\ ctx'[t].ksp = t
                          /\ ctx'[t].held => ctx'[t].rip # None
      BY <1>0, <2>2, <2>4, <2>6, Apart DEF HomeInv
    <3>2. \A i \in Cpu : ctx'[i].head = None /\ ctx'[i].ksp = None /\ ctx'[i].rip # "user"
      BY <1>0, <2>2, <2>4, <2>6, Apart DEF HomeInv
    <3> QED
      BY <1>0, <2>1, <2>5, <3>1, <3>2 DEF HomeInv
  <2>10. PageInv' /\ MappedRight'
    BY <1>0, <2>1, SameSpaces
  <2> QED
    BY <2>7, <2>8, <2>9, <2>10 DEF TrapsInv
<1>11. ASSUME NEW c \in Cpu, Schedule(c) PROVE TrapsInv'
  <2>1. /\ stage[c] = "handler" /\ stage' = [stage EXCEPT ![c] = "switch"]
        /\ thiscpu' = thiscpu /\ rip' = rip /\ blocked' = blocked
        /\ cause' = cause /\ pages' = pages /\ mm' = mm /\ pipe' = pipe /\ devices' = devices
    BY <1>11 DEF Schedule, vmVars, bootVars
  <2>2. PICK x \in Context : /\ x = on[c].run \/ (~ctx[x].held /\ ctx[x].rip # None)
                             /\ ctx' = [ctx EXCEPT ![x].held = TRUE]
                             /\ on' = [on EXCEPT ![c].next = x]
    BY <1>11 DEF Schedule
  <2>3. ctx \in [Context -> Saved] /\ on \in [Cpu -> [run : Context, next : Context]]
    BY <1>0 DEF TypeInv
  <2>4. /\ ctx' \in [Context -> Saved] /\ ctx'[x].held
        /\ ctx'[x].rip = ctx[x].rip /\ ctx'[x].head = ctx[x].head /\ ctx'[x].ksp = ctx[x].ksp
        /\ \A y \in Context \ {x} : ctx'[y] = ctx[y]
    BY <2>2, <2>3 DEF Saved
  <2>5. /\ on' \in [Cpu -> [run : Context, next : Context]]
        /\ on'[c].run = on[c].run /\ on'[c].next = x
        /\ \A d \in Cpu \ {c} : on'[d] = on[d]
    BY <2>2, <2>3
  <2>6. /\ stage' \in [Cpu -> Stage] /\ stage'[c] = "switch"
        /\ \A d \in Cpu \ {c} : stage'[d] = stage[d]
    BY <1>0, <2>1 DEF TypeInv, Stage
  <2>7. /\ \A y \in Context : /\ ctx'[y].rip = ctx[y].rip /\ ctx'[y].head = ctx[y].head
                              /\ ctx'[y].ksp = ctx[y].ksp
                              /\ ctx'[y].held <=> y = x \/ ctx[y].held
        /\ ctx[x].rip # None
        /\ \A d \in Cpu \ {c} : x # on[d].run /\ x # on[d].next
    <3>1. ctx[on[c].run].rip # None
      BY <1>0, <2>1 DEF TrapInv
    <3>2. \A d \in Cpu \ {c} : x # on[d].run /\ x # on[d].next
      BY <1>0, <1>c, <2>2 DEF HeldInv
    <3> QED
      BY <2>2, <2>3, <2>4, <3>1, <3>2 DEF Saved
  <2>8. TypeInv' /\ BootInv'
    BY <1>0, <2>1, <2>4, <2>5, <2>6 DEF TypeInv, BootInv
  <2>9. TrapInv'
    BY <1>0, <1>c, <2>1, <2>5, <2>6, <2>7 DEF TrapInv
  <2>10. HeldInv'
    BY <1>0, <1>c, <2>1, <2>5, <2>6, <2>7 DEF HeldInv
  <2>11. HomeInv'
    <3>1. /\ \A t \in Task : /\ ctx'[t].rip # None => ctx'[t].head = t /\ ctx'[t].ksp = t
                             /\ ctx'[t].held => ctx'[t].rip # None
          /\ \A i \in Cpu : ctx'[i].head = None /\ ctx'[i].ksp = None /\ ctx'[i].rip # "user"
      BY <1>0, <2>7, Apart DEF HomeInv
    <3> QED
      BY <1>0, <2>1, <2>5, <2>6, <3>1 DEF HomeInv
  <2>12. PageInv' /\ MappedRight'
    BY <1>0, <2>1, SameSpaces
  <2> QED
    BY <2>8, <2>9, <2>10, <2>11, <2>12 DEF TrapsInv
<1>12. ASSUME NEW c \in Cpu, Switch(c) PROVE TrapsInv'
  <2> DEFINE now == thiscpu[c].head  head == ctx[on[c].next].head
             Flag(p, b) == [p EXCEPT !.is_mapped = b]
             Flagged(t, b) == {Flag(p, b) : p \in pages[t]}
             Pairs(S) == {<<p.va, p.pa>> : p \in S}
             gone == IF now = None THEN {} ELSE Pairs({q \in pages[now] : q.is_mapped})
             come == IF head = None THEN {} ELSE Pairs(pages[head])
  <2>1. /\ stage[c] = "switch" /\ stage' = [stage EXCEPT ![c] = "iret"]
        /\ thiscpu' = [thiscpu EXCEPT ![c].head = head]
        /\ on' = on /\ rip' = rip /\ blocked' = blocked /\ cause' = cause /\ ctx' = ctx
        /\ pipe' = pipe /\ devices' = devices
    BY <1>12 DEF Switch, bootVars
  <2>2. head = Home(on[c].next) /\ now = Home(on[c].run)
    BY <1>0, <1>c, <2>1, Apart DEF TrapInv, HomeInv
  <2>3. now \in Task \cup {None} /\ head \in Task \cup {None}
    BY <1>c, <2>2, Apart
  <2>4. /\ thiscpu' \in [Cpu -> Process]
        /\ thiscpu'[c].head = head
        /\ thiscpu'[c].cpuid = thiscpu[c].cpuid /\ thiscpu'[c].ksp = thiscpu[c].ksp
        /\ \A d \in Cpu \ {c} : thiscpu'[d] = thiscpu[d]
    <3>1. thiscpu \in [Cpu -> Process] /\ thiscpu' = [thiscpu EXCEPT ![c].head = head]
      BY <1>0, <2>1 DEF TypeInv
    <3> HIDE DEF head, now
    <3> QED
      BY <2>3, <3>1, ProcessField
  <2>5. /\ stage' \in [Cpu -> Stage] /\ stage'[c] = "iret"
        /\ \A d \in Cpu \ {c} : stage'[d] = stage[d]
    BY <1>0, <2>1 DEF TypeInv, Stage
  <2>6. ASSUME head = now
        PROVE  /\ pages' \in [Task -> SUBSET Page] /\ mm' \in [Cpu -> SUBSET (Va \X Pa)]
               /\ PageInv' /\ MappedRight'
    <3>1. pages' = pages /\ mm' = mm
      BY <1>12, <2>6 DEF Switch, vmVars
    <3>2. \A d \in Cpu : thiscpu'[d].head = thiscpu[d].head
      BY <2>4, <2>6
    <3>3. pages' \in [Task -> SUBSET Page] /\ mm' \in [Cpu -> SUBSET (Va \X Pa)]
      BY <1>0, <3>1 DEF TypeInv
    <3> QED
      BY <1>0, <3>1, <3>2, <3>3, SameSpaces
  <2>7. ASSUME head # now
        PROVE  /\ pages' \in [Task -> SUBSET Page] /\ mm' \in [Cpu -> SUBSET (Va \X Pa)]
               /\ PageInv' /\ MappedRight'
    <3>1. /\ mm' = [mm EXCEPT ![c] = (@ \ gone) \cup come]
          /\ pages' = [t \in Task |-> CASE t = now -> Flagged(t, FALSE)
                                        [] t = head -> Flagged(t, TRUE)
                                        [] OTHER -> pages[t]]
      BY <1>12, <2>7 DEF Switch
    <3>2. /\ now # None => pages'[now] = Flagged(now, FALSE)
          /\ head # None => pages'[head] = Flagged(head, TRUE)
          /\ \A t \in Task \ {now, head} : pages'[t] = pages[t]
      <4> HIDE DEF now, head, Flagged
      <4> QED
        BY <2>3, <2>7, <3>1
    <3> HIDE DEF now, head
    <3>3. \A t \in Task, b \in BOOLEAN :
            /\ Flagged(t, b) \subseteq Page
            /\ Pairs(Flagged(t, b)) = Pairs(pages[t])
            /\ \A p \in Flagged(t, b) : p.is_mapped = b
      <4> SUFFICES ASSUME NEW t \in Task, NEW b \in BOOLEAN
                   PROVE  /\ Flagged(t, b) \subseteq Page
                          /\ Pairs(Flagged(t, b)) = Pairs(pages[t])
                          /\ \A p \in Flagged(t, b) : p.is_mapped = b
        OBVIOUS
      <4>1. pages[t] \subseteq Page
        BY <1>0 DEF TypeInv
      <4>2. \A p \in pages[t] : /\ Flag(p, b) \in Page /\ Flag(p, b).va = p.va
                                /\ Flag(p, b).pa = p.pa /\ Flag(p, b).is_mapped = b
        BY <4>1 DEF Page
      <4> HIDE DEF Flag
      <4> QED
        BY <4>2
    <3> HIDE DEF Flagged
    <3>4. \A d \in Cpu \ {c} : thiscpu[d].head = None \/ thiscpu[d].head \notin {now, head}
      <4> SUFFICES ASSUME NEW d \in Cpu \ {c}, thiscpu[d].head # None
                   PROVE  thiscpu[d].head \notin {now, head}
        OBVIOUS
      <4>1. PICK y \in {on[d].run, on[d].next} : thiscpu[d].head = Home(y)
        BY <1>0 DEF HomeInv
      <4>2. y # on[c].run /\ y # on[c].next
        BY <1>0, <1>c, <4>1 DEF HeldInv
      <4> QED
        BY <1>c, <2>2, <4>1, <4>2, Apart
    <3>5. pages' \in [Task -> SUBSET Page]
      <4>1. pages' = [t \in Task |-> pages'[t]]
        BY <3>1
      <4>2. \A t \in Task : pages'[t] \subseteq Page
        <5> SUFFICES ASSUME NEW t \in Task PROVE pages'[t] \subseteq Page
          OBVIOUS
        <5>1. CASE t \in {now, head}
          <6>1. pages'[t] = Flagged(t, FALSE) \/ pages'[t] = Flagged(t, TRUE)
            BY <3>2, <5>1, Apart
          <6>2. Flagged(t, FALSE) \subseteq Page /\ Flagged(t, TRUE) \subseteq Page
            BY <3>3
          <6> QED
            BY <6>1, <6>2
        <5>2. CASE t \notin {now, head}
          BY <1>0, <3>2, <5>2 DEF TypeInv
        <5> QED
          BY <5>1, <5>2
      <4> QED
        BY <4>1, <4>2
    <3>6. /\ mm'[c] = come
          /\ \A d \in Cpu \ {c} : mm'[d] = mm[d]
      <4>1. mm[c] = gone
        <5>1. CASE now = None
          BY <1>0, <5>1 DEF MappedRight, now
        <5>2. CASE now # None
          <6>1. {q \in pages[now] : q.is_mapped} = pages[now]
            BY <1>0, <2>3, <5>2 DEF PageInv, TypeInv, Page, now
          <6>2. mm[c] = Pairs(pages[now])
            BY <1>0, <5>2 DEF MappedRight, now
          <6> QED
            BY <5>2, <6>1, <6>2
        <5> QED
          BY <5>1, <5>2
      <4> HIDE DEF gone, come
      <4> QED
        BY <1>0, <3>1, <4>1 DEF TypeInv
    <3>7. mm' \in [Cpu -> SUBSET (Va \X Pa)]
      <4>1. come \subseteq Va \X Pa
        BY <1>0, <2>3 DEF TypeInv, Page
      <4> HIDE DEF come, gone
      <4> QED
        BY <1>0, <3>1, <4>1 DEF TypeInv
    <3>8. PageInv'
      <4> SUFFICES ASSUME NEW t \in Task, NEW p \in pages'[t]
                   PROVE  p.is_mapped <=> \E d \in Cpu : thiscpu'[d].head = t
        BY DEF PageInv
      <4>1. CASE t = now
        <5>1. ~p.is_mapped
          BY <3>2, <3>3, <4>1, Apart
        <5>2. \A d \in Cpu : thiscpu'[d].head # t
          <6>1. thiscpu'[c].head # t
            BY <2>4, <2>7, <4>1
          <6>2. \A d \in Cpu \ {c} : thiscpu'[d].head # t
            BY <2>4, <3>4, <4>1, Apart
          <6> QED
            BY <6>1, <6>2
        <5> QED
          BY <5>1, <5>2
      <4>2. CASE t = head
        BY <2>4, <3>2, <3>3, <4>2, Apart
      <4>3. CASE t \notin {now, head}
        BY <1>0, <2>4, <3>2, <4>3 DEF PageInv, now
      <4> QED
        BY <4>1, <4>2, <4>3
    <3>9. MappedRight'
      <4> SUFFICES ASSUME NEW d \in Cpu
                   PROVE  mm'[d] = IF thiscpu'[d].head = None THEN {}
                                   ELSE Pairs(pages'[thiscpu'[d].head])
        BY DEF MappedRight
      <4>1. CASE d = c
        <5>1. head # None => Pairs(pages'[head]) = Pairs(pages[head])
          BY <2>3, <3>2, <3>3
        <5> HIDE DEF Pairs
        <5> QED
          BY <2>4, <3>6, <4>1, <5>1
      <4>2. CASE d # c
        <5>1. thiscpu[d].head \in Task \cup {None}
          BY <1>0 DEF TypeInv, Process
        <5>2. thiscpu[d].head # None => pages'[thiscpu[d].head] = pages[thiscpu[d].head]
          BY <3>2, <3>4, <4>2, <5>1
        <5>3. mm[d] = IF thiscpu[d].head = None THEN {} ELSE Pairs(pages[thiscpu[d].head])
          BY <1>0 DEF MappedRight
        <5> HIDE DEF Pairs
        <5> QED
          BY <2>4, <3>6, <4>2, <5>2, <5>3
      <4> QED
        BY <4>1, <4>2
    <3> QED
      BY <3>5, <3>7, <3>8, <3>9
  <2>8. /\ pages' \in [Task -> SUBSET Page] /\ mm' \in [Cpu -> SUBSET (Va \X Pa)]
        /\ PageInv' /\ MappedRight'
    BY <2>6, <2>7
  <2> HIDE DEF now, head
  <2>9. TypeInv' /\ BootInv'
    BY <1>0, <2>1, <2>4, <2>5, <2>8, Apart DEF TypeInv, BootInv
  <2>10. TrapInv' /\ HeldInv'
    BY <1>0, <2>1, <2>4, <2>5 DEF TrapInv, HeldInv
  <2>11. HomeInv'
    BY <1>0, <2>1, <2>2, <2>4, <2>5 DEF HomeInv
  <2> QED
    BY <2>8, <2>9, <2>10, <2>11 DEF TrapsInv
<1>13. ASSUME NEW c \in Cpu, Iret(c) PROVE TrapsInv'
  <2> DEFINE x == on[c].next  y == on[c].run
  <2>1. /\ stage[c] = "iret" /\ stage' = [stage EXCEPT ![c] = "run"]
        /\ rip' = [rip EXCEPT ![c] = ctx[x].rip]
        /\ blocked' = [blocked EXCEPT ![c] = ctx[x].blocked]
        /\ thiscpu' = [thiscpu EXCEPT ![c].ksp = ctx[x].ksp]
        /\ on' = [on EXCEPT ![c].run = x]
        /\ ctx' = [z \in Context |-> IF z = y /\ z # x THEN [ctx[z] EXCEPT !.held = FALSE]
                                                       ELSE ctx[z]]
        /\ cause' = cause /\ pages' = pages /\ mm' = mm /\ pipe' = pipe /\ devices' = devices
    BY <1>13 DEF Iret, vmVars, bootVars
  <2>2. /\ x \in Context /\ y \in Context
        /\ ctx[x].rip \in Place /\ ctx[x].blocked \in BOOLEAN /\ ctx[x].ksp = Home(x)
        /\ ctx[x].ksp \in Task \cup {None}
        /\ x \in Cpu => ctx[x].rip # "user"
        /\ thiscpu[c].head = Home(x)
    <3>1. ctx[x] \in Saved /\ x \in Context /\ y \in Context
      BY <1>0, <1>c DEF TypeInv
    <3>2. ctx[x].rip # None
      BY <1>0, <2>1 DEF TrapInv
    <3> QED
      BY <1>0, <2>1, <3>1, <3>2, Apart DEF HomeInv, Saved
  <2>3. /\ thiscpu' \in [Cpu -> Process]
        /\ thiscpu'[c].ksp = Home(x)
        /\ thiscpu'[c].cpuid = thiscpu[c].cpuid /\ thiscpu'[c].head = thiscpu[c].head
        /\ \A d \in Cpu \ {c} : thiscpu'[d] = thiscpu[d]
    <3>1. thiscpu \in [Cpu -> Process] /\ thiscpu' = [thiscpu EXCEPT ![c].ksp = ctx[x].ksp]
      BY <1>0, <2>1 DEF TypeInv
    <3> QED
      BY <2>2, <3>1, ProcessField
  <2>4. /\ on' \in [Cpu -> [run : Context, next : Context]]
        /\ on'[c].run = x /\ on'[c].next = x
        /\ \A d \in Cpu \ {c} : on'[d] = on[d]
    <3>1. on \in [Cpu -> [run : Context, next : Context]]
      BY <1>0 DEF TypeInv
    <3> QED
      BY <2>1, <2>2, <3>1
  <2>5. /\ stage' \in [Cpu -> Stage] /\ stage'[c] = "run"
        /\ \A d \in Cpu \ {c} : stage'[d] = stage[d]
        /\ rip' \in [Cpu -> Place] /\ rip'[c] = ctx[x].rip
        /\ \A d \in Cpu \ {c} : rip'[d] = rip[d]
        /\ blocked' \in [Cpu -> BOOLEAN]
        /\ \A d \in Cpu \ {c} : blocked'[d] = blocked[d]
    BY <1>0, <2>1, <2>2 DEF TypeInv, Stage
  <2>6. /\ ctx' \in [Context -> Saved]
        /\ \A z \in Context : /\ ctx'[z].rip = ctx[z].rip /\ ctx'[z].head = ctx[z].head
                              /\ ctx'[z].ksp = ctx[z].ksp
                              /\ ctx'[z].held <=> ctx[z].held /\ (z # y \/ z = x)
    <3>1. ctx \in [Context -> Saved]
      BY <1>0 DEF TypeInv
    <3>2. \A z \in Context : LET w == [ctx[z] EXCEPT !.held = FALSE]
            IN /\ w \in Saved /\ w.held = FALSE /\ w.rip = ctx[z].rip
               /\ w.head = ctx[z].head /\ w.ksp = ctx[z].ksp
      BY <3>1 DEF Saved
    <3> QED
      BY <2>1, <3>1, <3>2
  <2> HIDE DEF x, y
  <2>7. TypeInv' /\ BootInv'
    BY <1>0, <2>1, <2>3, <2>4, <2>5, <2>6, Apart DEF TypeInv, BootInv
  <2>8. TrapInv'
    BY <1>0, <1>c, <2>1, <2>2, <2>3, <2>4, <2>5, <2>6 DEF TrapInv
  <2>9. HeldInv'
    <3>1. ctx[x].held /\ \A d \in Cpu \ {c} : {x, y} \cap {on[d].run, on[d].next} = {}
      BY <1>0, <2>2 DEF HeldInv, x, y
    <3>2. ctx'[x].held
      BY <2>2, <2>6, <3>1
    <3>3. \A d \in Cpu \ {c} : ctx'[on[d].run].held /\ ctx'[on[d].next].held
      BY <1>0, <1>c, <2>6, <3>1 DEF HeldInv
    <3> QED
      BY <1>0, <2>4, <2>5, <3>1, <3>2, <3>3 DEF HeldInv
  <2>10. HomeInv'
    <3>1. /\ \A t \in Task : /\ ctx'[t].rip # None => ctx'[t].head = t /\ ctx'[t].ksp = t
                             /\ ctx'[t].held => ctx'[t].rip # None
          /\ \A i \in Cpu : ctx'[i].head = None /\ ctx'[i].ksp = None /\ ctx'[i].rip # "user"
      BY <1>0, <2>6, Apart DEF HomeInv
    <3> QED
      BY <1>0, <2>2, <2>3, <2>4, <2>5, <3>1 DEF HomeInv
  <2>11. PageInv' /\ MappedRight'
    <3>1. (\A d \in Cpu : thiscpu'[d].head = thiscpu[d].head) /\ pages' = pages /\ mm' = mm
      BY <2>1, <2>3
    <3> QED
      BY <1>0, <3>1, SameSpaces
  <2> QED
    BY <2>7, <2>8, <2>9, <2>10, <2>11 DEF TrapsInv
<1>14. ASSUME (\E c \in Cpu : Timer(c)) \/ Press \/ SendKbdIntr \/ InputKeybrd \/ UNCHANGED vars
       PROVE  TrapsInv'
  BY <1>1, <1>14 DEF Timer, Press, SendKbdIntr, InputKeybrd, vars, trapVars, vmVars, bootVars
<1> QED
  BY <1>2, <1>3, <1>4, <1>5, <1>6, <1>7, <1>8, <1>9, <1>10, <1>11, <1>12, <1>13, <1>14
  DEF Next, Step

\* The remainders that the two ends of the queue are.
LEMMA Wrap ==
  ASSUME NEW K \in Nat \ {0}, NEW a \in 0..(2 * K - 1)
  PROVE  a % K = IF a < K THEN a ELSE a - K
<1>1. CASE a < K
  BY <1>1
<1>2. CASE a >= K
  <2>1. a - K \in 0..(K - 1) /\ a = (a - K) + 1 * K
    BY <1>2
  <2> QED
    BY <1>2, <2>1
<1> QED
  BY <1>1, <1>2

\* How many keys wait, where the i-th of them is, and the cell after a cell.
Waiting(r, f) == IF r >= f THEN r - f ELSE r - f + KeyLen
At(f, i) == IF f + i < KeyLen THEN f + i ELSE f + i - KeyLen
Following(i) == IF i + 1 < KeyLen THEN i + 1 ELSE 0
Cell == 0..(KeyLen - 1)

\* The length of the queue, without a remainder.
LEMMA Waits ==
  ASSUME NEW r \in Cell, NEW f \in Cell
  PROVE  (r - f + KeyLen) % KeyLen = Waiting(r, f) /\ Waiting(r, f) \in Cell
<1> DEFINE a == r - f + KeyLen
<1>1. KeyLen \in Nat \ {0} /\ a \in 0..(2 * KeyLen - 1)
  BY NativeAssumption DEF Cell
<1>2. a % KeyLen = IF a < KeyLen THEN a ELSE a - KeyLen
  <2> HIDE DEF a
  <2> QED
    BY <1>1, Wrap
<1>3. Waiting(r, f) = (IF a < KeyLen THEN a ELSE a - KeyLen) /\ Waiting(r, f) \in Cell
  BY <1>1 DEF Waiting, Cell
<1> QED
  BY <1>2, <1>3

\* The cell of a key that waits, without a remainder.
LEMMA Lies ==
  ASSUME NEW f \in Cell, NEW i \in Cell
  PROVE  (f + i) % KeyLen = At(f, i) /\ At(f, i) \in Cell
<1> DEFINE a == f + i
<1>1. KeyLen \in Nat \ {0} /\ a \in 0..(2 * KeyLen - 1)
  BY NativeAssumption DEF Cell
<1>2. a % KeyLen = IF a < KeyLen THEN a ELSE a - KeyLen
  <2> HIDE DEF a
  <2> QED
    BY <1>1, Wrap
<1>3. At(f, i) = (IF a < KeyLen THEN a ELSE a - KeyLen) /\ At(f, i) \in Cell
  BY <1>1 DEF At, Cell
<1> QED
  BY <1>2, <1>3

\* The cell after a cell, without a remainder.
LEMMA Follows ==
  ASSUME NEW i \in Cell
  PROVE  (i + 1) % KeyLen = Following(i) /\ Following(i) \in Cell
<1> DEFINE a == i + 1
<1>1. KeyLen \in Nat \ {0} /\ a \in 0..(2 * KeyLen - 1) /\ a <= KeyLen
  BY NativeAssumption DEF Cell
<1>2. a % KeyLen = IF a < KeyLen THEN a ELSE a - KeyLen
  <2> HIDE DEF a
  <2> QED
    BY <1>1, Wrap
<1>3. Following(i) = (IF a < KeyLen THEN a ELSE a - KeyLen) /\ Following(i) \in Cell
  BY <1>1 DEF Following, Cell
<1> QED
  BY <1>2, <1>3

\* When the end of the queue moves on, one key more waits, or none.
LEMMA Longer ==
  ASSUME NEW r \in Cell, NEW f \in Cell
  PROVE  /\ Following(r) = f => Waiting(Following(r), f) = 0
         /\ Following(r) # f => Waiting(Following(r), f) = Waiting(r, f) + 1
         /\ At(f, Waiting(r, f)) = r
         /\ \A i \in 0..(Waiting(r, f) - 1) : At(f, i) # r
  BY NativeAssumption DEF Waiting, Following, At, Cell

\* When the beginning moves on, one key less waits, and the others are where
\* they were.
LEMMA Shorter ==
  ASSUME NEW r \in Cell, NEW f \in Cell, r # f
  PROVE  /\ Waiting(r, f) = Waiting(r, Following(f)) + 1
         /\ At(f, 0) = f
         /\ \A i \in 0..(Waiting(r, Following(f)) - 1) : At(Following(f), i) = At(f, i + 1)
  BY NativeAssumption DEF Waiting, Following, At, Cell

\* KeysInOrder of a queue, without remainders.
InOrder(q) ==
  /\ \A i \in 0..(Waiting(q.r, q.f) - 1) :
        q.cells[At(q.f, i)] = q.pressed - Waiting(q.r, q.f) + 1 + i
  /\ ~q.full => q.read + Waiting(q.r, q.f) = q.pressed

\* InOrder is KeysInOrder.
LEMMA Ordered ==
  ASSUME NEW q \in KeyQueue
  PROVE  InOrder(q) <=>
           LET w == (q.r - q.f + KeyLen) % KeyLen
           IN /\ \A i \in 0..(w - 1) : q.cells[(q.f + i) % KeyLen] = q.pressed - w + 1 + i
              /\ ~q.full => q.read + w = q.pressed
<1>1. q.r \in Cell /\ q.f \in Cell
  BY DEF KeyQueue, Cell
<1>2. (q.r - q.f + KeyLen) % KeyLen = Waiting(q.r, q.f) /\ Waiting(q.r, q.f) \in Cell
  BY <1>1, Waits
<1>3. \A i \in 0..(Waiting(q.r, q.f) - 1) : i \in Cell
  BY <1>2, NativeAssumption DEF Cell
<1>4. \A i \in 0..(Waiting(q.r, q.f) - 1) : (q.f + i) % KeyLen = At(q.f, i)
  BY <1>1, <1>3, Lies
<1> QED
  BY <1>2, <1>4 DEF InOrder

\* A key that is pressed goes where the queue ends, and the queue is one longer
\* unless it wraps onto itself.
LEMMA Pressed ==
  ASSUME NEW q \in KeyQueue, InOrder(q), NEW s \in KeyQueue,
         s.cells = [q.cells EXCEPT ![q.r] = q.pressed + 1], s.f = q.f, s.r = Following(q.r),
         s.pressed = q.pressed + 1, s.read = q.read, s.full = (q.full \/ s.r = q.f)
  PROVE  InOrder(s)
<1> DEFINE w == Waiting(q.r, q.f)  v == Waiting(s.r, s.f)
<1>1. /\ q.f \in Cell /\ q.r \in Cell /\ q.pressed \in Nat /\ q.read \in Nat
      /\ q.full \in BOOLEAN /\ q.cells \in [Cell -> Nat] /\ w \in Cell /\ w \in Nat
  <2>1. /\ q.f \in Cell /\ q.r \in Cell /\ q.pressed \in Nat /\ q.read \in Nat
        /\ q.full \in BOOLEAN /\ q.cells \in [Cell -> Nat]
    BY DEF KeyQueue, Cell
  <2>2. Cell \subseteq Nat
    BY NativeAssumption DEF Cell
  <2> QED
    BY <2>1, <2>2, Waits
<1>2. /\ \A i \in 0..(w - 1) : q.cells[At(q.f, i)] = q.pressed - w + 1 + i
      /\ ~q.full => q.read + w = q.pressed
  BY DEF InOrder
<1>3. /\ s.r = q.f => v = 0
      /\ s.r # q.f => v = w + 1
      /\ At(q.f, w) = q.r
      /\ \A i \in 0..(w - 1) : At(q.f, i) # q.r
  BY <1>1, Longer
<1> HIDE DEF w, v
<1>4. ASSUME NEW i \in 0..(v - 1) PROVE s.cells[At(s.f, i)] = s.pressed - v + 1 + i
  <2>1. v = w + 1
    BY <1>3
  <2>2. CASE i = w
    <3>1. s.cells[q.r] = q.pressed + 1
      BY <1>1
    <3> QED
      BY <1>1, <1>3, <2>1, <2>2, <3>1
  <2>3. CASE i # w
    <3>1. i \in 0..(w - 1) /\ i \in Cell
      BY <1>1, <2>1, <2>3, NativeAssumption DEF Cell
    <3>2. At(q.f, i) \in Cell /\ At(q.f, i) # q.r
      BY <1>1, <1>3, <3>1, Lies
    <3>3. s.cells[At(q.f, i)] = q.cells[At(q.f, i)]
      BY <1>1, <3>2
    <3> QED
      BY <1>1, <1>2, <2>1, <3>1, <3>3
  <2> QED
    BY <2>2, <2>3
<1>5. ~s.full => s.read + v = s.pressed
  <2> SUFFICES ASSUME ~s.full PROVE s.read + v = s.pressed
    OBVIOUS
  <2>1. ~q.full /\ s.r # q.f
    BY Zenon
  <2>2. q.read + w = q.pressed /\ v = w + 1
    BY <1>2, <1>3, <2>1
  <2> QED
    BY <1>1, <2>2
<1> QED
  BY <1>4, <1>5 DEF InOrder, v

\* A key that is read is the first of those that wait.
LEMMA Read ==
  ASSUME NEW q \in KeyQueue, InOrder(q), NEW s \in KeyQueue, q.f # q.r,
         s.cells = q.cells, s.f = Following(q.f), s.r = q.r,
         s.pressed = q.pressed, s.read = q.cells[q.f], s.full = q.full
  PROVE  InOrder(s)
<1> DEFINE w == Waiting(q.r, q.f)  v == Waiting(s.r, s.f)
<1>1. /\ q.f \in Cell /\ q.r \in Cell /\ q.pressed \in Nat /\ s.f \in Cell
      /\ v \in Cell /\ v \in Nat
  <2>1. q.f \in Cell /\ q.r \in Cell /\ q.pressed \in Nat /\ Cell \subseteq Nat
    BY NativeAssumption DEF KeyQueue, Cell
  <2>2. s.f \in Cell /\ s.r \in Cell
    BY <2>1, Follows
  <2> QED
    BY <2>1, <2>2, Waits
<1>2. \A i \in 0..(w - 1) : q.cells[At(q.f, i)] = q.pressed - w + 1 + i
  BY DEF InOrder
<1>3. w = v + 1 /\ At(q.f, 0) = q.f /\ \A i \in 0..(v - 1) : At(s.f, i) = At(q.f, i + 1)
  BY <1>1, Shorter
<1> HIDE DEF w, v
<1>4. ASSUME NEW i \in 0..(v - 1) PROVE s.cells[At(s.f, i)] = s.pressed - v + 1 + i
  <2>1. i + 1 \in 0..(w - 1)
    BY <1>1, <1>3
  <2>2. q.cells[At(q.f, i + 1)] = q.pressed - w + 1 + (i + 1)
    BY <1>2, <2>1
  <2>3. s.cells[At(s.f, i)] = q.cells[At(q.f, i + 1)]
    BY <1>3
  <2> QED
    BY <1>1, <1>3, <2>2, <2>3
<1>5. s.read + v = s.pressed
  <2>1. q.cells[At(q.f, 0)] = q.pressed - w + 1 + 0
    BY <1>1, <1>2, <1>3
  <2> QED
    BY <1>1, <1>3, <2>1
<1> QED
  BY <1>4, <1>5 DEF InOrder, v

\* The event thread and the readers keep the keys in order: the rest of the
\* system does not touch the queue.
THEOREM KeysInductive == KeysInv /\ [Next]_vars => KeysInv'
<1> SUFFICES ASSUME KeysInv, [Next]_vars PROVE KeysInv'
  OBVIOUS
<1>1. queue \in KeyQueue /\ InOrder(queue)
  BY Ordered DEF KeysInv, KeyType, KeysInOrder
<1>2. /\ queue.f \in 0..(KeyLen - 1) /\ queue.r \in 0..(KeyLen - 1)
      /\ queue.pressed \in Nat /\ queue.read \in Nat /\ queue.full \in BOOLEAN
      /\ queue.cells \in [0..(KeyLen - 1) -> Nat]
  BY <1>1 DEF KeyQueue
<1>3. ASSUME queue' \in KeyQueue, InOrder(queue') PROVE KeysInv'
  BY <1>3, Ordered DEF KeysInv, KeyType, KeysInOrder
<1>4. CASE Press
  <2> DEFINE r == (queue.r + 1) % KeyLen
  <2>1. r = Following(queue.r) /\ r \in 0..(KeyLen - 1)
    BY <1>2, Follows DEF Cell
  <2>2. queue' = [queue EXCEPT !.cells[queue.r] = queue.pressed + 1, !.r = r,
                               !.pressed = @ + 1, !.full = @ \/ r = queue.f]
    BY <1>4 DEF Press
  <2> HIDE DEF r
  <2>3. /\ queue' \in KeyQueue
        /\ queue'.cells = [queue.cells EXCEPT ![queue.r] = queue.pressed + 1]
        /\ queue'.f = queue.f /\ queue'.r = r /\ queue'.pressed = queue.pressed + 1
        /\ queue'.read = queue.read /\ queue'.full = (queue.full \/ r = queue.f)
    <3> DEFINE n == queue.pressed + 1  g == queue.full \/ r = queue.f
    <3>1. n \in Nat /\ g \in BOOLEAN
      BY <1>2
    <3>2. queue' = [queue EXCEPT !.cells[queue.r] = n, !.r = r, !.pressed = n, !.full = g]
      BY <2>2
    <3> HIDE DEF n, g
    <3>3. /\ queue' \in KeyQueue
          /\ queue'.cells = [queue.cells EXCEPT ![queue.r] = n]
          /\ queue'.f = queue.f /\ queue'.r = r /\ queue'.pressed = n
          /\ queue'.read = queue.read /\ queue'.full = g
      BY <1>1, <1>2, <2>1, <3>1, <3>2 DEF KeyQueue
    <3> QED
      BY <3>3 DEF n, g
  <2> QED
    BY <1>1, <1>3, <2>1, <2>3, Pressed
<1>5. CASE InputKeybrd
  <2> DEFINE f == (queue.f + 1) % KeyLen
  <2>1. f = Following(queue.f) /\ f \in 0..(KeyLen - 1)
    BY <1>2, Follows DEF Cell
  <2>2. /\ queue.f # queue.r
        /\ queue' = [queue EXCEPT !.f = f, !.read = queue.cells[queue.f]]
    BY <1>5 DEF InputKeybrd
  <2> HIDE DEF f
  <2>3. /\ queue' \in KeyQueue
        /\ queue'.cells = queue.cells /\ queue'.f = f /\ queue'.r = queue.r
        /\ queue'.pressed = queue.pressed /\ queue'.read = queue.cells[queue.f]
        /\ queue'.full = queue.full
    BY <1>1, <1>2, <2>1, <2>2 DEF KeyQueue
  <2> QED
    BY <1>1, <1>3, <2>1, <2>2, <2>3, Read
<1>6. CASE \E c \in Cpu : Step(c)
  <2>1. PICK c \in Cpu : Step(c)
    BY <1>6
  <2>2. CASE Child(c) \/ Work(c) \/ (\E enable \in BOOLEAN : Iset(c, enable)) \/ Timer(c)
    BY <1>1, <1>3, <2>2 DEF Child, Work, Iset, Timer, keyVars
  <2>3. CASE \E t \in Task : Create(c, t) \/ \E va \in Va, pa \in Pa : Map(c, t, va, pa)
    BY <1>1, <1>3, <2>3 DEF Create, Map, keyVars
  <2>4. CASE \E e \in {"IRQ_TIMER", "IRQ_IODEV"} : Interrupt(c, e)
    <3>1. UNCHANGED <<on, rip, vmVars, bootVars, keyVars>>
      BY <2>4 DEF Interrupt
    <3> QED
      BY <1>1, <1>3, <3>1 DEF keyVars
  <2>5. CASE Yield(c) \/ \E e \in {"SYSCALL", "PAGEFAULT"} : UserTrap(c, e)
    BY <1>1, <1>3, <2>5 DEF Yield, UserTrap, keyVars
  <2>6. CASE IrqHandle(c) \/ Schedule(c) \/ Switch(c) \/ Iret(c)
    BY <1>1, <1>3, <2>6 DEF IrqHandle, Schedule, Switch, Iret, keyVars
  <2> QED
    BY <2>1, <2>2, <2>3, <2>4, <2>5, <2>6 DEF Step
<1>7. CASE Fork \/ Devices \/ Release \/ SendKbdIntr \/ UNCHANGED vars
  BY <1>1, <1>3, <1>7 DEF Fork, Devices, Release, SendKbdIntr, keyVars, vars
<1> QED
  BY <1>4, <1>5, <1>6, <1>7 DEF Next

\* The invariant that all five parts of NativeSafe rest on is inductive.
THEOREM Inductive == IInv /\ [Next]_vars => IInv'
  BY TrapsInductive, KeysInductive DEF IInv

\* The invariant of every reachable state.
THEOREM Invariant == Spec => []IInv
<1> QED
  BY Initial, Inductive, PTL DEF Spec

\* The kernel's handler is given the event that has happened, a processor has
\* mapped what its address space says, a trap out of user space finds the
\* task's kernel stack, no processor is released before the devices are ready,
\* and keys are read in order: for any processors, tasks, pages and keys.
THEOREM Safe == Spec => []NativeSafe
<1>1. IInv => NativeSafe
  <2> SUFFICES ASSUME IInv PROVE NativeSafe
    OBVIOUS
  <2>1. TypeInv /\ BootInv /\ TrapInv /\ HomeInv /\ MappedRight /\ KeysInOrder
    BY DEF IInv, TrapsInv, KeysInv
  <2>2. EventRight
    BY <2>1 DEF EventRight, TrapInv
  <2>3. KernelStackRight
    <3> SUFFICES ASSUME NEW c \in Cpu, stage[c] = "run", rip[c] = "user"
                 PROVE  thiscpu[c].ksp = on[c].run /\ thiscpu[c].head = on[c].run
      BY DEF KernelStackRight, Runs
    <3>1. on[c].run \in Task
      BY <2>1, Apart DEF TypeInv, HomeInv
    <3> QED
      BY <2>1, <3>1, Apart DEF HomeInv
  <2>4. StartedRight
    BY <2>1, Apart DEF StartedRight, BootInv
  <2> QED
    BY <2>1, <2>2, <2>3, <2>4 DEF NativeSafe
<1> QED
  BY <1>1, Invariant, PTL
==============================================================================
