------------------------------- MODULE CteProofs ------------------------------
(***************************************************************************)
(* Proofs about Cte for any processors, tasks and exceptions.              *)
(***************************************************************************)
EXTENDS Cte, SequenceTheorems, TLAPS

\* The flow that a processor executes or, past the handler, is about to.
Own(c) == IF where[c] = "iret" THEN ret[c] ELSE cur[c]
Parked(f) == \A c \in Cpu : where[c] = "iret" \/ cur[c] # f

SeqInv == frames \in [Flow -> Seq(Frame)]

\* A flow belongs to one processor at most, and then it is not ready.
OwnInv == /\ \A c, d \in Cpu : Own(c) = Own(d) => c = d
          /\ \A c \in Cpu : Own(c) \notin ready
          /\ \A c \in Cpu : cur[c] \in Cpu => cur[c] = c
          /\ \A c \in Cpu : ret[c] \in Cpu => ret[c] = c

\* A second frame comes only from an interrupt on top of a trap.
NestInv == \A f \in Flow :
    /\ Top(f) \in {0, 1, 2}
    /\ Top(f) >= 1 => frames[f][1].at = "program"
    /\ Top(f) = 2 => frames[f][2].at = "gate" /\ f \in shaken

ProgramInv == \A c \in Cpu : where[c] = "program" =>
    Top(cur[c]) = 0 /\ unanswered[cur[c]] = 0

\* In the stub none of the frames is answered.
TrapInv == \A c \in Cpu : where[c] \in {"gate", "stub"} =>
    /\ Top(cur[c]) >= 1
    /\ unanswered[cur[c]] = Top(cur[c])
    /\ Top(cur[c]) = 2 => inService[c]
    /\ VectorOf(c) = 14 /\ cur[c] \notin shaken => cr2[c] = cur[c]

ServiceInv == \A c \in Cpu : inService[c] =>
    where[c] \in {"gate", "stub"} /\ VectorOf(c) \in {32, 33}

\* Of a flow that no processor executes the last frame is answered, and it is
\* the one that was interrupted last.
ParkInv == \A f \in Flow : Parked(f) =>
    /\ Top(f) >= 1
    /\ unanswered[f] = Top(f) - 1
    /\ f \in User => frames[f][Top(f)].cr3 = f /\ frames[f][Top(f)].rsp0 = f

\* A user task takes its space and its stack with it, into the trap and back.
SpaceInv == \A c \in Cpu : where[c] # "iret" /\ cur[c] \in User =>
    /\ cr3[c] = cur[c] /\ rsp0[c] = cur[c]
    /\ where[c] = "program" => iflag[c]

FlagInv == \A f \in User : \A i \in 1 .. Top(f) :
    frames[f][i].at = "program" => frames[f][i].iflag

IInv == /\ TypeOK /\ SeqInv /\ OwnInv /\ NestInv /\ ProgramInv /\ TrapInv
        /\ ServiceInv /\ ParkInv /\ SpaceInv /\ FlagInv
------------------------------------------------------------------------------
\* A trap puts a frame on top of the stack of a flow.
LEMMA Pushed ==
  ASSUME NEW s \in Seq(Frame), NEW x \in Frame
  PROVE  /\ Append(s, x) \in Seq(Frame)
         /\ Len(Append(s, x)) = Len(s) + 1
         /\ \A i \in 1 .. Len(s) : Append(s, x)[i] = s[i]
         /\ Append(s, x)[Len(s) + 1] = x
  OBVIOUS

\* iret takes the frame on top away, and leaves those below.
LEMMA Popped ==
  ASSUME NEW s \in Seq(Frame), Len(s) >= 1
  PROVE  /\ SubSeq(s, 1, Len(s) - 1) \in Seq(Frame)
         /\ Len(SubSeq(s, 1, Len(s) - 1)) = Len(s) - 1
         /\ \A i \in 1 .. Len(s) - 1 : SubSeq(s, 1, Len(s) - 1)[i] = s[i]
<1> DEFINE n == Len(s) - 1
<1>1. n \in Nat /\ \A i \in 1 .. n : s[i] \in Frame
  BY LenProperties, ElementOfSeq
<1> HIDE DEF n
<1>2. /\ SubSeq(s, 1, n) \in Seq(Frame)
      /\ Len(SubSeq(s, 1, n)) = IF 1 <= n THEN n - 1 + 1 ELSE 0
      /\ \A i \in 1 .. n - 1 + 1 : SubSeq(s, 1, n)[i] = s[1 + i - 1]
  BY <1>1, SubSeqProperties
<1>3. Len(SubSeq(s, 1, n)) = n
  BY <1>1, <1>2
<1>4. \A i \in 1 .. n : SubSeq(s, 1, n)[i] = s[i]
  BY <1>1, <1>2
<1> QED
  BY <1>2, <1>3, <1>4 DEF n

\* The stub saves the space and the stack, and leaves the rest of the frame.
LEMMA CompletedFrame ==
  ASSUME NEW x \in Frame, NEW space \in Space, NEW stack \in User \cup {None}
  PROVE  LET y == Completed(x, space, stack)
         IN /\ y \in Frame
            /\ y.at = x.at /\ y.iflag = x.iflag
            /\ y.cr3 = space /\ y.rsp0 = stack
  BY DEF Completed, Frame, Vector

\* The handler changes one frame of a stack.
LEMMA Answered ==
  ASSUME NEW s \in Seq(Frame), NEW n \in 1 .. Len(s), NEW y \in Frame
  PROVE  LET u == [s EXCEPT ![n] = y]
         IN /\ u \in Seq(Frame) /\ Len(u) = Len(s)
            /\ \A i \in 1 .. Len(s) : u[i] = IF i = n THEN y ELSE s[i]
  BY ExceptSeq

\* The stack of a flow is a sequence of frames.
LEMMA Stack ==
  ASSUME NEW s \in Seq(Frame)
  PROVE  /\ Len(s) \in Nat
         /\ DOMAIN s = 1 .. Len(s)
         /\ \A i \in 1 .. Len(s) : s[i] \in Frame
  BY LenProperties, ElementOfSeq

\* Before a processor leaves the program for the first time: the stacks of the
\* tasks hold the frames kcontext and ucontext made, those of the processors
\* are empty.
THEOREM Initial == Init => IInv
<1> SUFFICES ASSUME Init PROVE IInv
  OBVIOUS
<1> USE CteAssumption DEF Init, Flow, Task
<1>0. /\ \A t \in Task : KContext(t) \in Frame
      /\ \A t \in User : UContext(t) \in Frame
  BY DEF KContext, UContext, Frame, Vector, Space
<1>a. /\ \A t \in Kernel : frames[t] = <<KContext(t)>>
      /\ \A t \in User : frames[t] = <<UContext(t)>>
      /\ \A c \in Cpu : frames[c] = <<>>
  OBVIOUS
<1>b. /\ \A t \in Task : Top(t) = 1
      /\ \A c \in Cpu : Top(c) = 0
  BY <1>a DEF Top
<1>1. SeqInv
  BY <1>0, <1>a DEF SeqInv
<1>2. TypeOK
  BY <1>0, <1>a DEF TypeOK, Space
<1>3. OwnInv
  BY DEF OwnInv, Own
<1>4. NestInv
  BY <1>a, <1>b DEF NestInv, KContext, UContext
<1>5. ProgramInv
  BY <1>b DEF ProgramInv
<1>6. TrapInv
  BY DEF TrapInv
<1>7. ServiceInv
  BY DEF ServiceInv
<1>8. ParkInv
  BY <1>a, <1>b DEF ParkInv, Parked, UContext
<1>9. SpaceInv
  BY DEF SpaceInv
<1>10. FlagInv
  BY <1>a, <1>b DEF FlagInv, UContext
<1> QED
  BY <1>1, <1>2, <1>3, <1>4, <1>5, <1>6, <1>7, <1>8, <1>9, <1>10 DEF IInv

\* One step per action.  What the trap, the handler and iret do to a stack is
\* stated first (<2>1 and <2>2 of each), the rest is about Top and the frames.
THEOREM Inductive == IInv /\ [Next]_vars => IInv'
<1> SUFFICES ASSUME IInv, [Next]_vars PROVE IInv'
  OBVIOUS
<1>0. /\ \A f \in Flow : frames[f] \in Seq(Frame)
      /\ \A f \in Flow : \A i \in 1 .. Top(f) : frames[f][i] \in Frame
  BY Stack DEF IInv, SeqInv, Top
<1>1. \A f \in Flow : Top(f) \in {0, 1, 2}
  BY DEF IInv, NestInv
<1>2. \A c \in Cpu : cur[c] \in Flow /\ ret[c] \in Flow /\ Own(c) \in Flow
  BY DEF IInv, TypeOK, Own
<1>3. ASSUME SeqInv', NestInv'
      PROVE  /\ \A f \in Flow : Len(frames'[f]) <= 2
             /\ \A f \in Flow : \A i \in DOMAIN frames'[f] : frames'[f][i] \in Frame
  <2>1. \A f \in Flow : frames'[f] \in Seq(Frame)
    BY <1>3 DEF SeqInv
  <2>2. \A f \in Flow : Len(frames'[f]) \in {0, 1, 2}
    BY <1>3 DEF NestInv, Top
  <2> QED
    BY <2>1, <2>2, Stack
<1>4. ASSUME NEW c \in Cpu, NEW v \in Vector,
             (Interrupt(c, v) /\ v \in {32, 33}) \/ Raise(c, v)
      PROVE  IInv'
  <2> PICK s \in Flow : s = cur[c]
    BY <1>2
  <2> DEFINE x == [at |-> where[c], vec |-> v, iflag |-> iflag[c], cr3 |-> None, rsp0 |-> None]
             y == frames'[s][Top(s) + 1]
  <2>1. /\ frames' = [frames EXCEPT ![s] = Append(@, x)]
        /\ x \in Frame /\ x.at = where[c] /\ x.iflag = iflag[c] /\ x.vec = v
    BY <1>4 DEF Interrupt, Raise, Push, IInv, TypeOK, Frame, Space
  <2> HIDE DEF x
  <2>2. /\ SeqInv'
        /\ Top(s)' = Top(s) + 1
        /\ \A f \in Flow \ {s} : frames'[f] = frames[f] /\ Top(f)' = Top(f)
        /\ \A i \in 1 .. Top(s) : frames'[s][i] = frames[s][i]
        /\ y = x
    <3>1. frames'[s] = Append(frames[s], x)
      BY <2>1 DEF IInv, SeqInv
    <3>2. \A f \in Flow \ {s} : frames'[f] = frames[f]
      BY <2>1 DEF IInv, SeqInv
    <3>3. frames' \in [Flow -> Seq(Frame)]
      BY <1>0, <2>1, Pushed DEF IInv, SeqInv
    <3> QED
      BY <1>0, <2>1, <3>1, <3>2, <3>3, Pushed DEF SeqInv, Top
  <2>3. /\ Top(s) = IF where[c] = "program" THEN 0 ELSE 1
        /\ where[c] \in {"program", "gate"}
        /\ ~inService[c]
        /\ unanswered[s] = Top(s)
        /\ where[c] = "gate" => s \in shaken'
    BY <1>1, <1>4 DEF Interrupt, Raise, IInv, ProgramInv, TrapInv, ServiceInv, TypeOK
  <2>4. /\ where' = [where EXCEPT ![c] = "gate"] /\ cur' = cur /\ ret' = ret
        /\ unanswered' = [unanswered EXCEPT ![s] = @ + 1]
        /\ iflag' = iflag /\ cr3' = cr3 /\ rsp0' = rsp0 /\ ready' = ready
        /\ shaken' = shaken \/ shaken' = shaken \cup {s}
        /\ \A d \in Cpu \ {c} : inService'[d] = inService[d] /\ cr2'[d] = cr2[d]
        /\ inService'[c] => v \in {32, 33}
        /\ where[c] = "gate" => inService'[c]
        /\ v = 14 => cr2'[c] = s
    BY <1>4, <2>3 DEF Interrupt, Raise, Push, IInv, TypeOK
  <2>5. \A d \in Cpu \ {c} : where[d] # "iret" => cur[d] # s
    BY <2>3 DEF IInv, OwnInv, Own
  <2>a. \A d \in Cpu \ {c} : where[d] # "iret" => VectorOf(d)' = VectorOf(d)
    BY <1>2, <2>2, <2>4, <2>5 DEF VectorOf
  <2>b. VectorOf(c)' = v
    BY <2>1, <2>2, <2>4 DEF VectorOf
  <2>6. NestInv'
    BY <1>1, <2>1, <2>2, <2>3, <2>4 DEF IInv, NestInv
  <2>7. TypeOK'
    <3>1. unanswered' \in [Flow -> Nat]
      BY <2>4 DEF IInv, TypeOK
    <3>2. cr2' \in [Cpu -> Flow \cup {None}] /\ inService' \in [Cpu -> BOOLEAN]
      BY <1>4 DEF Interrupt, Raise, IInv, TypeOK
    <3> QED
      BY <1>3, <2>2, <2>4, <2>6, <3>1, <3>2 DEF IInv, TypeOK
  <2>8. OwnInv'
    BY <2>3, <2>4 DEF IInv, OwnInv, Own, TypeOK
  <2>9. ProgramInv'
    BY <1>2, <2>2, <2>4, <2>5 DEF IInv, ProgramInv, TypeOK
  <2>10. TrapInv'
    BY <1>2, <2>2, <2>3, <2>4, <2>5, <2>a, <2>b DEF IInv, TrapInv, TypeOK
  <2>11. ServiceInv'
    BY <2>4, <2>a, <2>b DEF IInv, ServiceInv, TypeOK
  <2>12. ParkInv'
    BY <2>2, <2>3, <2>4 DEF IInv, ParkInv, Parked, TypeOK
  <2>13. SpaceInv'
    BY <2>3, <2>4 DEF IInv, SpaceInv, TypeOK
  <2>14. FlagInv'
    <3>1. ASSUME NEW g \in User, NEW i \in 1 .. Top(g)', frames'[g][i].at = "program"
          PROVE  frames'[g][i].iflag
      <4>1. CASE g # s
        BY <2>2, <3>1, <4>1 DEF IInv, FlagInv, Flow, Task
      <4>2. CASE g = s /\ i \in 1 .. Top(s)
        BY <2>2, <3>1, <4>2 DEF IInv, FlagInv
      <4>3. CASE g = s /\ i = Top(s) + 1
        BY <2>1, <2>2, <2>3, <3>1, <4>3 DEF IInv, SpaceInv
      <4> QED
        BY <1>1, <2>2, <4>1, <4>2, <4>3
    <3> QED
      BY <3>1 DEF FlagInv
  <2> QED
    BY <2>2, <2>6, <2>7, <2>8, <2>9, <2>10, <2>11, <2>12, <2>13, <2>14 DEF IInv
<1>5. ASSUME NEW c \in Cpu, Iset(c) PROVE IInv'
  <2>1. /\ \A f \in Flow : frames'[f] = frames[f] /\ Top(f)' = Top(f)
        /\ \A d \in Cpu : VectorOf(d)' = VectorOf(d) /\ Own(d)' = Own(d)
        /\ \A f \in Flow : Parked(f)' = Parked(f)
    BY <1>5 DEF Iset, Top, VectorOf, Own, Parked
  <2>2. TypeOK' /\ SeqInv'
    BY <1>5 DEF IInv, TypeOK, SeqInv, Iset
  <2>3. OwnInv' /\ NestInv'
    BY <1>5, <2>1 DEF IInv, OwnInv, NestInv, Iset
  <2>4. ProgramInv' /\ ServiceInv'
    BY <1>5, <2>1 DEF IInv, TypeOK, ProgramInv, ServiceInv, Iset
  <2>5. TrapInv'
    BY <1>5, <2>1 DEF IInv, TypeOK, TrapInv, Iset
  <2>6. ParkInv'
    BY <1>5, <2>1 DEF IInv, ParkInv, Iset
  <2>7. SpaceInv'
    BY <1>5 DEF IInv, TypeOK, SpaceInv, Iset
  <2>8. FlagInv'
    BY <2>1 DEF IInv, FlagInv, Flow, Task
  <2> QED
    BY <2>2, <2>3, <2>4, <2>5, <2>6, <2>7, <2>8 DEF IInv
<1>6. ASSUME NEW c \in Cpu, Cli(c) PROVE IInv'
  <2>1. /\ \A f \in Flow : frames'[f] = frames[f] /\ Top(f)' = Top(f)
        /\ \A d \in Cpu : VectorOf(d)' = VectorOf(d) /\ Own(d)' = Own(d)
        /\ \A f \in Flow : Parked(f)' = Parked(f)
    BY <1>6 DEF Cli, Top, VectorOf, Own, Parked, IInv, TypeOK
  <2>2. TypeOK' /\ SeqInv'
    BY <1>6 DEF IInv, TypeOK, SeqInv, Cli
  <2>3. OwnInv' /\ NestInv'
    BY <1>6, <2>1 DEF IInv, OwnInv, NestInv, Cli
  <2>4. ProgramInv' /\ ServiceInv'
    BY <1>6, <2>1 DEF IInv, TypeOK, ProgramInv, ServiceInv, Cli
  <2>5. TrapInv'
    BY <1>6, <2>1 DEF IInv, TypeOK, TrapInv, Cli
  <2>6. ParkInv'
    BY <1>6, <2>1 DEF IInv, ParkInv, Cli
  <2>7. SpaceInv'
    BY <1>6 DEF IInv, TypeOK, SpaceInv, Cli
  <2>8. FlagInv'
    BY <2>1 DEF IInv, FlagInv, Flow, Task
  <2> QED
    BY <2>2, <2>3, <2>4, <2>5, <2>6, <2>7, <2>8 DEF IInv
<1>7. ASSUME NEW c \in Cpu, NEW f \in Flow, Handle(c, f) PROVE IInv'
  <2> PICK s \in Flow : s = cur[c]
    BY <1>2
  <2> DEFINE x == frames[s][Top(s)]
             y == Completed(x, cr3[c], rsp0[c])
  <2>1. /\ where[c] = "stub"
        /\ Top(s) >= 1 /\ Top(s) \in {1, 2} /\ unanswered[s] = Top(s)
    BY <1>1, <1>7 DEF Handle, IInv, TrapInv
  <2>2. /\ x \in Frame
        /\ frames' = [frames EXCEPT ![s] = [@ EXCEPT ![Top(s)] = y]]
    BY <1>0, <1>7, <2>1 DEF Handle
  <2>3. y \in Frame /\ y.at = x.at /\ y.iflag = x.iflag /\ y.cr3 = cr3[c] /\ y.rsp0 = rsp0[c]
    BY <2>2, CompletedFrame DEF IInv, TypeOK
  <2> HIDE DEF x, y
  <2>4. /\ SeqInv'
        /\ Top(s)' = Top(s)
        /\ \A g \in Flow \ {s} : frames'[g] = frames[g] /\ Top(g)' = Top(g)
        /\ \A i \in 1 .. Top(s) : frames'[s][i] = IF i = Top(s) THEN y ELSE frames[s][i]
    <3>1. frames'[s] = [frames[s] EXCEPT ![Top(s)] = y]
      BY <2>2 DEF IInv, SeqInv
    <3>2. \A g \in Flow \ {s} : frames'[g] = frames[g]
      BY <2>2 DEF IInv, SeqInv
    <3>3. Top(s) \in 1 .. Len(frames[s])
      BY <2>1 DEF Top
    <3>4. /\ [frames[s] EXCEPT ![Top(s)] = y] \in Seq(Frame)
          /\ Len([frames[s] EXCEPT ![Top(s)] = y]) = Len(frames[s])
          /\ \A i \in 1 .. Len(frames[s]) :
                [frames[s] EXCEPT ![Top(s)] = y][i] = IF i = Top(s) THEN y ELSE frames[s][i]
      BY <1>0, <2>3, <3>3, Answered
    <3>5. frames' \in [Flow -> Seq(Frame)]
      BY <1>0, <2>2, <3>4 DEF IInv, SeqInv
    <3> QED
      BY <3>1, <3>2, <3>4, <3>5 DEF SeqInv, Top
  <2>5. \A i \in 1 .. Top(s) : /\ frames'[s][i].at = frames[s][i].at
                               /\ frames'[s][i].iflag = frames[s][i].iflag
    BY <2>3, <2>4 DEF x
  <2>6. /\ where' = [where EXCEPT ![c] = "iret"] /\ cur' = cur
        /\ ret' = [ret EXCEPT ![c] = f]
        /\ unanswered' = [unanswered EXCEPT ![s] = @ - 1]
        /\ inService' = [inService EXCEPT ![c] = @ /\ ~Acked(c)]
        /\ iflag' = iflag /\ cr3' = cr3 /\ rsp0' = rsp0 /\ cr2' = cr2
        /\ shaken' = IF x.at = "gate" THEN shaken ELSE shaken \ {s}
    BY <1>7 DEF Handle, x
  <2>7. \A d \in Cpu \ {c} : where[d] # "iret" => cur[d] # s
    BY <2>1 DEF IInv, OwnInv, Own
  <2>8. ~inService'[c]
    <3>1. inService[c] => Acked(c)
      BY DEF IInv, ServiceInv, Acked
    <3> QED
      BY <2>6, <3>1 DEF IInv, TypeOK
  <2>a. \A d \in Cpu \ {c} : where[d] # "iret" => VectorOf(d)' = VectorOf(d)
    BY <1>2, <2>4, <2>6, <2>7 DEF VectorOf
  <2>9. NestInv'
    BY <1>1, <2>1, <2>4, <2>5, <2>6 DEF IInv, NestInv, x
  <2>10. OwnInv'
    <3>1. /\ f \in ready \cup {s} \cup {c}
          /\ f # c => f = s \/ f \in ready
          /\ ready' \subseteq (ready \cup {s}) \ {f}
      BY <1>7, <2>1 DEF Handle, Choice, Able, Switches, IInv, OwnInv, Own
    <3>2. Own(c) = s /\ Own(c)' = f /\ \A d \in Cpu \ {c} : Own(d)' = Own(d)
      BY <2>1, <2>6 DEF IInv, TypeOK, Own
    <3>3. \A d \in Cpu : Own(d) \in Cpu => Own(d) = d
      BY DEF IInv, OwnInv, Own
    <3>4. \A d \in Cpu \ {c} : Own(d) # f
      BY <3>1, <3>2, <3>3 DEF IInv, OwnInv
    <3>5. f \in Cpu => f = c
      BY <3>1, CteAssumption DEF IInv, OwnInv, TypeOK, Task
    <3> QED
      <4>1. \A d, e \in Cpu : Own(d)' = Own(e)' => d = e
        BY <3>2, <3>4 DEF IInv, OwnInv
      <4>2. \A d \in Cpu : Own(d)' \notin ready'
        BY <3>1, <3>2 DEF IInv, OwnInv
      <4>3. \A d \in Cpu : ret'[d] \in Cpu => ret'[d] = d
        BY <2>6, <3>5 DEF IInv, OwnInv, TypeOK
      <4> QED
        BY <2>6, <4>1, <4>2, <4>3 DEF IInv, OwnInv
  <2>11. TypeOK'
    <3>1. ready' \in SUBSET Task
      BY <1>7 DEF Handle, Able, IInv, TypeOK
    <3> QED
      BY <1>3, <2>1, <2>4, <2>6, <2>9, <3>1 DEF IInv, TypeOK
  <2>12. ProgramInv'
    BY <1>2, <2>4, <2>6, <2>7 DEF IInv, ProgramInv, TypeOK
  <2>13. TrapInv'
    BY <1>2, <2>4, <2>6, <2>7, <2>a DEF IInv, TrapInv, TypeOK
  <2>14. ServiceInv'
    BY <2>6, <2>8, <2>a DEF IInv, ServiceInv, TypeOK
  <2>15. ParkInv'
    <3>1. ASSUME NEW g \in Flow \ {s}, Parked(g)'
          PROVE  Parked(g) /\ unanswered'[g] = unanswered[g]
      BY <2>6, <3>1 DEF Parked, IInv, TypeOK
    <3>2. s \in User => cr3[c] = s /\ rsp0[c] = s
      BY <2>1 DEF IInv, SpaceInv
    <3>3. unanswered'[s] = Top(s) - 1 /\ frames'[s][Top(s)] = y
      BY <2>1, <2>4, <2>6 DEF IInv, TypeOK
    <3> QED
      BY <2>1, <2>3, <2>4, <3>1, <3>2, <3>3 DEF IInv, ParkInv
  <2>16. SpaceInv'
    BY <2>6 DEF IInv, SpaceInv, TypeOK
  <2>17. FlagInv'
    <3>1. ASSUME NEW g \in User, NEW i \in 1 .. Top(g)', frames'[g][i].at = "program"
          PROVE  frames'[g][i].iflag
      <4>1. CASE g # s
        BY <2>4, <3>1, <4>1 DEF IInv, FlagInv, Flow, Task
      <4>2. CASE g = s
        BY <2>4, <2>5, <3>1, <4>2 DEF IInv, FlagInv
      <4> QED
        BY <4>1, <4>2
    <3> QED
      BY <3>1 DEF FlagInv
  <2> QED
    BY <2>4, <2>9, <2>10, <2>11, <2>12, <2>13, <2>14, <2>15, <2>16, <2>17 DEF IInv
<1>8. ASSUME NEW c \in Cpu, Iret(c) PROVE IInv'
  <2> PICK f \in Flow : f = ret[c]
    BY <1>2
  <2> DEFINE x == frames[f][Top(f)]
  <2>1. where[c] = "iret" /\ Own(c) = f /\ Parked(f)
    BY <1>8 DEF Iret, IInv, OwnInv, Own, Parked
  <2>2. /\ Top(f) \in {1, 2} /\ Top(f) >= 1 /\ unanswered[f] = Top(f) - 1
        /\ f \in User => x.cr3 = f /\ x.rsp0 = f
    BY <1>1, <2>1 DEF IInv, ParkInv
  <2>3. x \in Frame /\ frames' = [frames EXCEPT ![f] = SubSeq(@, 1, Top(f) - 1)]
    BY <1>0, <1>8, <2>2 DEF Iret
  <2>4. /\ SeqInv'
        /\ Top(f)' = Top(f) - 1
        /\ \A g \in Flow \ {f} : frames'[g] = frames[g] /\ Top(g)' = Top(g)
        /\ \A i \in 1 .. Top(f) - 1 : frames'[f][i] = frames[f][i]
    <3>1. frames'[f] = SubSeq(frames[f], 1, Len(frames[f]) - 1) /\ Len(frames[f]) >= 1
      BY <2>2, <2>3 DEF IInv, SeqInv, Top
    <3>2. \A g \in Flow \ {f} : frames'[g] = frames[g]
      BY <2>3 DEF IInv, SeqInv
    <3>3. frames' \in [Flow -> Seq(Frame)]
      BY <1>0, <2>3, <3>1, Popped DEF IInv, SeqInv
    <3> QED
      BY <1>0, <3>1, <3>2, <3>3, Popped DEF SeqInv, Top
  <2>5. /\ where' = [where EXCEPT ![c] = x.at]
        /\ cur' = [cur EXCEPT ![c] = f] /\ ret' = [ret EXCEPT ![c] = c]
        /\ iflag' = [iflag EXCEPT ![c] = x.iflag]
        /\ cr3' = IF x.cr3 = None THEN cr3 ELSE [cr3 EXCEPT ![c] = x.cr3]
        /\ rsp0' = IF x.cr3 = None THEN rsp0 ELSE [rsp0 EXCEPT ![c] = x.rsp0]
        /\ UNCHANGED <<cr2, inService, ready, unanswered, shaken>>
    BY <1>8 DEF Iret
  <2>6. /\ x.at \in {"program", "gate"} /\ x.cr3 \in Space
        /\ x.rsp0 \in User \cup {None} /\ x.iflag \in BOOLEAN
        /\ Top(f) = 1 => x.at = "program" /\ (f \in User => x.iflag)
        /\ Top(f) = 2 => x.at = "gate" /\ f \in shaken
    BY <2>2, <2>3 DEF Frame, IInv, NestInv, FlagInv
  <2> HIDE DEF x
  <2>7. \A d \in Cpu \ {c} : where[d] # "iret" => cur[d] # f
    BY <2>1 DEF Parked
  <2>8. ~inService[c]
    BY <2>1 DEF IInv, ServiceInv
  <2>a. \A d \in Cpu \ {c} : where[d] # "iret" => VectorOf(d)' = VectorOf(d)
    BY <1>2, <2>4, <2>5, <2>7 DEF VectorOf
  <2>9. NestInv'
    BY <1>1, <2>2, <2>4, <2>5 DEF IInv, NestInv
  <2>10. OwnInv'
    BY <2>1, <2>5, <2>6 DEF IInv, OwnInv, Own, TypeOK
  <2>11. TypeOK'
    <3>1. cr3' \in [Cpu -> Space \ {None}] /\ rsp0' \in [Cpu -> User \cup {None}]
      BY <2>5, <2>6 DEF IInv, TypeOK
    <3>2. c \in Flow
      BY DEF Flow
    <3> QED
      BY <1>3, <2>4, <2>5, <2>6, <2>9, <3>1, <3>2 DEF IInv, TypeOK
  <2>12. ProgramInv'
    BY <1>2, <2>2, <2>4, <2>5, <2>6, <2>7 DEF IInv, ProgramInv, TypeOK
  <2>13. TrapInv'
    BY <1>2, <2>2, <2>4, <2>5, <2>6, <2>7 DEF IInv, TrapInv, TypeOK, VectorOf
  <2>14. ServiceInv'
    BY <2>5, <2>8, <2>a DEF IInv, ServiceInv, TypeOK
  <2>15. ParkInv'
    <3>1. ASSUME NEW g \in Flow, Parked(g)'
          PROVE  g # f /\ Parked(g)
      BY <2>1, <2>5, <2>6, <3>1 DEF Parked, IInv, TypeOK
    <3> QED
      BY <2>4, <2>5, <3>1 DEF IInv, ParkInv
  <2>16. SpaceInv'
    <3>1. f \in User => f # None
      BY CteAssumption
    <3> QED
      BY <2>2, <2>5, <2>6, <3>1 DEF IInv, SpaceInv, TypeOK
  <2>17. FlagInv'
    <3>1. ASSUME NEW g \in User, NEW i \in 1 .. Top(g)', frames'[g][i].at = "program"
          PROVE  frames'[g][i].iflag
      <4>1. CASE g # f
        BY <2>4, <3>1, <4>1 DEF IInv, FlagInv, Flow, Task
      <4>2. CASE g = f
        <5>1. i \in 1 .. Top(f) - 1 /\ i \in 1 .. Top(f)
          BY <1>1, <2>4, <3>1, <4>2
        <5> QED
          BY <2>4, <3>1, <4>2, <5>1 DEF IInv, FlagInv
      <4> QED
        BY <4>1, <4>2
    <3> QED
      BY <3>1 DEF FlagInv
  <2> QED
    BY <2>4, <2>9, <2>10, <2>11, <2>12, <2>13, <2>14, <2>15, <2>16, <2>17 DEF IInv
<1>9. CASE UNCHANGED vars
  <2>1. /\ \A f \in Flow : frames'[f] = frames[f] /\ Top(f)' = Top(f)
        /\ \A f \in Flow : Parked(f)' = Parked(f)
        /\ \A d \in Cpu : VectorOf(d)' = VectorOf(d) /\ Own(d)' = Own(d)
    BY <1>9 DEF vars, regs, Top, VectorOf, Own, Parked
  <2>2. TypeOK' /\ SeqInv'
    BY <1>9 DEF IInv, TypeOK, SeqInv, vars, regs
  <2>3. OwnInv' /\ NestInv'
    BY <1>9, <2>1 DEF IInv, OwnInv, NestInv, vars, regs
  <2>4. ProgramInv' /\ ServiceInv'
    BY <1>9, <2>1 DEF IInv, TypeOK, ProgramInv, ServiceInv, vars, regs
  <2>5. TrapInv'
    BY <1>9, <2>1 DEF IInv, TypeOK, TrapInv, vars, regs
  <2>6. ParkInv'
    BY <1>9, <2>1 DEF IInv, ParkInv, vars, regs
  <2>7. SpaceInv'
    BY <1>9 DEF IInv, TypeOK, SpaceInv, vars, regs
  <2>8. FlagInv'
    BY <2>1 DEF IInv, FlagInv, Flow, Task
  <2> QED
    BY <2>2, <2>3, <2>4, <2>5, <2>6, <2>7, <2>8 DEF IInv
<1>10. {32, 33} \cup Exception \subseteq Vector
  BY CteAssumption DEF Vector
<1> QED
  BY <1>4, <1>5, <1>6, <1>7, <1>8, <1>9, <1>10 DEF Next

\* The invariant of every reachable state.
THEOREM Invariant == Spec => []IInv
BY Initial, Inductive, PTL DEF Spec

\* Whatever is interrupted and wherever a stub goes on: a user task runs in its
\* own space and on its own stack, a flow continues only when its trap is
\* answered, no stack is used twice, an interrupt is acknowledged where it came
\* in, and the page fault that is reported is the one that happened.
THEOREM Safe == Spec => []CteSafe
<1>1. IInv => CteSafe
  <2> SUFFICES ASSUME IInv PROVE CteSafe
    OBVIOUS
  <2>1. \A c \in Cpu : cur[c] \in Flow /\ ret[c] \in Flow
    BY DEF IInv, TypeOK
  <2>2. \A f \in Flow : Top(f) = 0 => frames[f] = <<>>
    BY EmptySeq DEF IInv, SeqInv, Top
  <2>3. UserReady
    BY <2>1, <2>2 DEF UserReady, IInv, ProgramInv, SpaceInv
  <2>4. TrapsAnswered
    BY DEF TrapsAnswered, IInv, ProgramInv
  <2>5. StacksApart
    BY DEF StacksApart, IInv, OwnInv, Own
  <2>6. FaultKnown
    BY DEF FaultKnown, IInv, TrapInv
  <2>7. Acknowledged
    BY DEF Acknowledged, IInv, ServiceInv
  <2> QED
    BY <2>3, <2>4, <2>5, <2>6, <2>7 DEF CteSafe, IInv
<1> QED
  BY <1>1, Invariant, PTL
==============================================================================
