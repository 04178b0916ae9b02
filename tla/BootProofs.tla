------------------------------ MODULE BootProofs ------------------------------
(***************************************************************************)
(* Proofs about Boot for any number of processors and any kernel that is   *)
(* laid out as the linker lays it out.                                     *)
(***************************************************************************)
EXTENDS Boot, FiniteSetTheorems, TLAPS

Ap == Cpu \ {0}

\* From the jump to the boot block to the last step before user_entry, on a
\* processor that is not the first.
Coming(c) == pc[c] \in Booting \cup {"ready"}

\* Until mpe_init the first processor is alone.
EarlyInv ==
  pc[0] \in Booting \cup {"main"} =>
    /\ record = [jmp |-> "zero", ap |-> 0] /\ halts = {}
    /\ ~ipi[0] /\ kernel.ready = 0
    /\ \A c \in Ap : pc[c] = "off" /\ ~ipi[c]

\* The first processor has set user_entry before it starts the others.
FirstInv ==
  /\ pc[0] \notin {"off", "ready"}
  /\ pc[0] \notin {"bootblock", "start64", "startc", "bootcpu"} => kernel.ncpu = NCpu
  /\ pc[0] \in {"mpe", "wait", "user"} => kernel.entry
  /\ pc[0] = "wait" => next[0] < NCpu

\* What a processor has behind it at each place.
BehindInv ==
  \A c \in Cpu :
    /\ pc[c] \in {"lapic", "irq"} => "gdt" \in percpu[c]
    /\ pc[c] = "irq" => "lapic" \in percpu[c]
    /\ pc[c] \in {"ready", "main", "mpe", "wait", "user"} => percpu[c] = Prepared
    /\ pc[c] \notin {"off", "record", "spin", "bootblock", "start64"} => tables

\* The others find is_ap set, unless someone has called halt.
OtherInv ==
  \A c \in Ap :
    /\ pc[c] \notin {"bootcpu", "main", "mpe", "wait"}
    /\ pc[c] \notin {"off", "record", "spin"} => kernel.entry /\ record.ap = 1
    /\ ipi[c] \/ pc[c] = "record" => record.ap = 1 \/ halts # {}

\* The jump in the boot record says whether someone has called halt, and before
\* that nobody is reset but by mpe_init.
HaltInv ==
  /\ record.jmp = "spin" <=> halts # {}
  /\ record.jmp = "bootblock" => kernel.entry
  /\ halts = {} =>
       /\ pc[0] \in Booting \cup {"main", "mpe", "wait", "user"} /\ ~ipi[0]
       /\ \A c \in Ap : pc[c] \in Booting \cup {"off", "record", "ready", "user"}

\* mpe_init starts the others in their order, and one at a time.
OrderInv ==
  halts = {} /\ pc[0] \in {"mpe", "wait", "user"} =>
    /\ next[0] \in 1 .. NCpu
    /\ pc[0] = "user" => next[0] = NCpu
    /\ kernel.ready = 1 => pc[0] = "wait"
    /\ \A c \in Ap :
         /\ c < next[0] => pc[c] = "user" /\ ~ipi[c]
         /\ c > next[0] \/ (c = next[0] /\ pc[0] # "wait") => pc[c] = "off" /\ ~ipi[c]
         /\ c = next[0] /\ pc[0] = "wait" =>
              /\ kernel.ready = 1 => pc[c] = "user" /\ ~ipi[c]
              /\ kernel.ready = 0 => pc[c] # "user"
              /\ pc[c] # "off" => ~ipi[c]

\* A halt in between changes nothing of that.
AloneInv ==
  /\ \A c \in Ap : Coming(c) => /\ pc[0] \in {"wait", "record", "spin"}
                                /\ kernel.ready = 0
                                /\ pc[0] = "wait" => c = next[0]
  /\ \A c, d \in Ap : Coming(c) /\ Coming(d) => c = d

------------------------------------------------------------------------------
(* Numbers.                                                                *)

\* Division with rest.
LEMMA Division ==
  ASSUME NEW n \in Nat, NEW d \in Nat \ {0}
  PROVE  /\ n \div d \in Nat /\ n % d \in 0 .. d - 1
         /\ n = d * (n \div d) + (n % d)
  OBVIOUS

\* The multiples of d are d apart.
LEMMA Multiples ==
  ASSUME NEW d \in Nat, NEW x \in Nat, NEW y \in Nat, x < y
  PROVE  d * x + d <= d * y
<1>1. y = x + 1 + (y - x - 1) /\ y - x - 1 \in Nat
  OBVIOUS
<1>2. \A k \in Nat : d * (x + 1 + k) = d * x + d + d * k /\ d * k >= 0
  OBVIOUS
<1>. QED BY <1>1, <1>2

\* The quotient of a number between two multiples.
LEMMA Quotient ==
  ASSUME NEW a \in Nat, NEW q \in Nat, NEW d \in Nat \ {0}, d * q <= a, a < d * q + d
  PROVE  a \div d = q
<1> DEFINE e == a \div d
<1>1. e \in Nat /\ d * e <= a /\ a < d * e + d
  BY Division
<1> HIDE DEF e
<1>2. d * e \in Nat /\ d * q \in Nat
  BY <1>1
<1>3. ~ (e < q) /\ ~ (q < e)
  BY <1>1, <1>2, Multiples
<1>4. e = q
  BY <1>1, <1>3
<1>. QED BY <1>4 DEF e

\* Every nonempty set of numbers has a least one: the intervals from 0 are well
\* founded.
LEMMA Least ==
  ASSUME NEW S \in SUBSET Nat, S # {}
  PROVE  \E m \in S : \A n \in S : m <= n
<1> DEFINE T == {0 .. n : n \in S}
<1>1. T \subseteq FiniteSubsetsOf(Nat)
  <2>1. \A n \in Nat : IsFiniteSet(0 .. n) /\ 0 .. n \in SUBSET Nat
    BY FS_Interval
  <2>. QED BY <2>1 DEF FiniteSubsetsOf
<1>2. T # {}
  OBVIOUS
<1> HIDE DEF T
<1>3. PICK x \in T : \A y \in T : ~ (<<y, x>> \in StrictSubsetOrdering(Nat))
  BY <1>1, <1>2, FS_StrictSubsetOrderingWellFounded, WFMin
<1>4. PICK m \in S : x = 0 .. m
  BY DEF T
<1>5. ASSUME NEW n \in S, n < m PROVE FALSE
  <2>1. 0 .. n \in T
    BY DEF T
  <2>2. 0 .. n \subseteq 0 .. m /\ 0 .. n \subseteq Nat /\ 0 .. m \subseteq Nat
    BY <1>5
  <2>3. m \in 0 .. m /\ m \notin 0 .. n
    BY <1>5
  <2>4. <<0 .. n, 0 .. m>> \in StrictSubsetOrdering(Nat)
    BY <2>2, <2>3 DEF StrictSubsetOrdering
  <2>. QED BY <1>3, <1>4, <2>1, <2>4
<1>. QED BY <1>5

\* Induction up to n, for a set of numbers.
LEMMA Upto ==
  ASSUME NEW n \in Nat, NEW P, 0 \in P, \A k \in 0 .. n - 1 : k \in P => k + 1 \in P
  PROVE  0 .. n \subseteq P
<1> DEFINE S == (0 .. n) \ P
<1>1. SUFFICES ASSUME S # {} PROVE FALSE
  OBVIOUS
<1>2. PICK m \in S : \A k \in S : m <= k
  <2>1. S \in SUBSET Nat
    OBVIOUS
  <2> HIDE DEF S
  <2>. QED BY <1>1, <2>1, Least
<1>3. m # 0 /\ m - 1 \in 0 .. n - 1 /\ m - 1 \notin S
  BY <1>2
<1>4. m - 1 \in P /\ (m - 1) + 1 = m
  BY <1>3
<1>. QED BY <1>2, <1>3, <1>4

\* Reading whole sectors for n bytes from buf on: from the start of a sector to
\* past the last byte, and every byte that is read lies in the sector of one
\* between that start and the last byte.
LEMMA WholeSectors ==
  ASSUME NEW buf \in Nat, NEW n \in Nat, NEW d \in Nat \ {0}
  PROVE  LET cur == buf - (buf % d)
             size == d * (((buf + n + d - 1) - cur) \div d)
         IN /\ cur \in Nat /\ cur <= buf /\ size \in Nat /\ buf + n <= cur + size
            /\ \A a \in cur .. cur + size - 1 :
                  \E b \in cur .. buf + n - 1 : a \div d = b \div d
<1> DEFINE q == buf \div d
           cur == buf - (buf % d)
           x == (buf + n + d - 1) - cur
           k == x \div d
           size == d * k
           last == buf + n - 1
<1>1. q \in Nat /\ cur = d * q /\ cur \in Nat /\ cur <= buf /\ buf < cur + d
  <2>1. q \in Nat /\ (buf % d) \in 0 .. d - 1 /\ buf = d * q + (buf % d)
    BY Division
  <2>2. d * q \in Nat
    BY <2>1
  <2> HIDE DEF q
  <2>3. cur = d * q
    BY <2>1, <2>2
  <2>. QED BY <2>1, <2>2, <2>3
<1>2. x \in Nat /\ x = last + d - cur
  <2> HIDE DEF cur
  <2>. QED BY <1>1
<1> HIDE DEF q, cur, x
<1>3. k \in Nat /\ size \in Nat /\ size <= x /\ x < size + d
  <2>1. k \in Nat /\ (x % d) \in 0 .. d - 1 /\ x = d * k + (x % d)
    BY <1>2, Division
  <2>2. d * k \in Nat
    BY <2>1
  <2> DEFINE r == x % d
  <2>3. r \in 0 .. d - 1 /\ x = size + r
    BY <2>1
  <2> HIDE DEF r, k
  <2>4. size \in Nat
    BY <2>2
  <2> HIDE DEF size
  <2>5. size <= x /\ x < size + d
    BY <1>2, <2>3, <2>4
  <2>. QED BY <2>1, <2>4, <2>5 DEF k
<1>4. last \in Int /\ last < cur + size /\ cur + size <= last + d
  BY <1>1, <1>2, <1>3
<1>5. ASSUME NEW a \in cur .. cur + size - 1
      PROVE  \E b \in cur .. buf + n - 1 : a \div d = b \div d
  <2>1. a \in Nat /\ cur <= a /\ a < cur + size
    BY <1>1, <1>3
  <2>2. CASE a > last
    <3>1. k > 0
      <4>1. k = 0 => size = 0
        OBVIOUS
      <4>2. size > 0
        BY <1>1, <1>3, <2>1
      <4>. QED BY <1>3, <4>1, <4>2
    <3>2. cur + size = d * (q + k - 1) + d /\ cur <= d * (q + k - 1)
      <4>1. k - 1 \in Nat /\ d * (k - 1) \in Nat /\ d * q \in Nat
        BY <1>1, <1>3, <3>1
      <4>2. d * (q + k - 1) = d * q + d * (k - 1) /\ d * k = d * (k - 1) + d
        BY <1>1, <1>3
      <4>. QED BY <1>1, <4>1, <4>2
    <3>3. q + k - 1 \in Nat /\ d * (q + k - 1) \in Nat
      BY <1>1, <1>3, <3>1
    <3> HIDE DEF last, size, k
    <3>4. /\ d * (q + k - 1) <= last /\ last < d * (q + k - 1) + d
          /\ last \in Nat /\ last \in cur .. last
      BY <1>1, <1>3, <1>4, <2>1, <2>2, <3>2, <3>3
    <3>5. d * (q + k - 1) <= a /\ a < d * (q + k - 1) + d
      BY <1>1, <1>3, <1>4, <2>1, <2>2, <3>2, <3>3, <3>4
    <3>6. a \div d = q + k - 1 /\ last \div d = q + k - 1
      BY <2>1, <3>3, <3>4, <3>5, Quotient
    <3>. QED BY <3>4, <3>6 DEF last
  <2>3. CASE a <= last
    BY <2>1, <2>3, <1>1, <1>4
  <2>. QED BY <2>1, <2>2, <2>3, <1>4
<1>6. last < cur + size => buf + n <= cur + size
  BY <1>1, <1>3
<1>7. /\ cur \in Nat /\ cur <= buf /\ size \in Nat /\ buf + n <= cur + size
      /\ \A a \in cur .. cur + size - 1 :
            \E b \in cur .. buf + n - 1 : a \div d = b \div d
  BY <1>1, <1>3, <1>4, <1>5, <1>6
<1>. QED BY <1>7 DEF cur, x
------------------------------------------------------------------------------
(* What load_kernel leaves in memory.                                      *)

Memory == [Address -> Byte]

\* The file, and what lies before it.
LEMMA OnDisk ==
  ASSUME NEW b \in Nat
  PROVE  /\ Disk(b) \in Byte
         /\ \A i \in Nat : b = SectSize * (1 + ArgSects) + i => Disk(b) = <<"file", i>>
         /\ \A i \in 0 .. ArgSects * SectSize - 1 : b = SectSize + i => Disk(b) = <<"arg", i>>
<1> DEFINE file == SectSize * (1 + ArgSects)
<1>1. SectSize \in Nat \ {0} /\ ArgSects * SectSize \in Nat /\ file \in Nat
      /\ file = SectSize + ArgSects * SectSize
  BY BootAssumption
<1>2. Disk(b) = IF b < SectSize THEN <<"old", b>>
                ELSE IF b < file THEN <<"arg", b - SectSize>> ELSE <<"file", b - file>>
  BY DEF Disk
<1> HIDE DEF file
<1>3. Disk(b) \in Byte
  <2>1. CASE b < SectSize
    BY <1>2, <2>1 DEF Byte
  <2>2. CASE b >= SectSize /\ b < file
    <3>1. b - SectSize \in Nat
      BY <1>1, <2>2
    <3>. QED BY <1>1, <1>2, <2>2, <3>1 DEF Byte
  <2>3. CASE b >= SectSize /\ b >= file
    <3>1. b - file \in Nat
      BY <1>1, <2>3
    <3>. QED BY <1>1, <1>2, <2>3, <3>1 DEF Byte
  <2>. QED BY <1>1, <2>1, <2>2, <2>3
<1>4. \A i \in Nat : b = file + i => Disk(b) = <<"file", i>>
  <2> TAKE i \in Nat
  <2> HAVE b = file + i
  <2>1. ~ (b < SectSize) /\ ~ (b < file) /\ b - file = i
    BY <1>1
  <2>. QED BY <1>2, <2>1
<1>5. \A i \in 0 .. ArgSects * SectSize - 1 : b = SectSize + i => Disk(b) = <<"arg", i>>
  <2> TAKE i \in 0 .. ArgSects * SectSize - 1
  <2> HAVE b = SectSize + i
  <2>1. ~ (b < SectSize) /\ b < file /\ b - SectSize = i
    BY <1>1
  <2>. QED BY <1>2, <2>1
<1>. QED BY <1>3, <1>4, <1>5 DEF file

\* Memory m has n bytes of the file, from its byte o on, in their place p.
FromFile(m, p, n, o) ==
  \A a \in Address : a \in p .. p + n - 1 => m[a] = <<"file", (o + a) - p>>

\* copy_from_disk puts the bytes of the file in their places, and touches no
\* sector but theirs and that of the place where they start.
LEMMA Copied ==
  ASSUME NEW m \in Memory, NEW p \in Nat, NEW n \in Nat, NEW o \in Nat,
         o % SectSize = p % SectSize, Address \subseteq Nat
  PROVE  /\ Copy(m, p, n, o) \in Memory
         /\ FromFile(Copy(m, p, n, o), p, n, o)
         /\ \A a \in Address :
               (\A b \in p - (p % SectSize) .. p + n - 1 : Sector(a) # Sector(b))
                 => Copy(m, p, n, o)[a] = m[a]
<1> DEFINE cur == p - (p % SectSize)
           sect == o \div SectSize + ArgSects + 1
           size == SectSize * (((p + n + SectSize - 1) - cur) \div SectSize)
           file == SectSize * (1 + ArgSects)
           place(a) == (sect * SectSize + a) - cur
           C == Copy(m, p, n, o)
<1>0. SectSize \in Nat \ {0} /\ ArgSects \in Nat /\ file \in Nat
  BY BootAssumption
<1>1. C = [a \in Address |-> IF a \in cur .. cur + size - 1
                             THEN Disk(place(a)) ELSE m[a]]
  BY DEF Copy
<1>2. /\ cur \in Nat /\ cur <= p /\ size \in Nat /\ p + n <= cur + size
      /\ \A a \in cur .. cur + size - 1 : \E b \in cur .. p + n - 1 :
            a \div SectSize = b \div SectSize
  BY <1>0, WholeSectors
<1>3. /\ sect * SectSize = file + (o - (o % SectSize))
      /\ o - (o % SectSize) \in Nat
  <2> DEFINE q == o \div SectSize  r == o % SectSize
  <2>1. q \in Nat /\ r \in 0 .. SectSize - 1 /\ o = SectSize * q + r
    BY <1>0, Division
  <2> HIDE DEF q, r
  <2>2. SectSize * q \in Nat /\ (q + ArgSects + 1) * SectSize = file + SectSize * q
    BY <1>0, <2>1
  <2>3. o - r = SectSize * q
    BY <1>0, <2>1, <2>2
  <2>. QED BY <2>2, <2>3 DEF q, r
<1> DEFINE r == o % SectSize  start == sect * SectSize
<1>4. r \in Nat /\ cur = p - r /\ start = file + (o - r) /\ o - r \in Nat
  <2>1. r \in Nat
    BY <1>0, Division
  <2>. QED BY <1>3, <2>1
<1> HIDE DEF cur, start, r, size, file
<1>5. \A a \in Nat : a >= cur => /\ place(a) \in Nat
                                 /\ a >= p => place(a) = file + ((o + a) - p)
                                              /\ (o + a) - p \in Nat
  <2>1. \A a : place(a) = (start + a) - cur
    BY DEF start
  <2> HIDE DEF place
  <2>2. cur \in Nat /\ cur <= p
    BY <1>2
  <2>. QED BY <1>0, <1>4, <2>1, <2>2
<1> HIDE DEF place
<1>6. \A a \in Address : C[a] = IF a \in cur .. cur + size - 1 THEN Disk(place(a)) ELSE m[a]
  BY <1>1
<1>7. C \in Memory
  <2>1. \A a \in Address : C[a] \in Byte
    <3> TAKE a \in Address
    <3>1. m[a] \in Byte
      BY DEF Memory
    <3>2. a \in cur .. cur + size - 1 => Disk(place(a)) \in Byte
      BY <1>2, <1>5, OnDisk
    <3>. QED BY <1>6, <3>1, <3>2
  <2>. QED BY <1>1, <2>1 DEF Memory
<1>8. ASSUME NEW a \in Address, a \in p .. p + n - 1
      PROVE  C[a] = <<"file", (o + a) - p>>
  <2>1. a \in Nat /\ a >= p /\ a >= cur /\ a \in cur .. cur + size - 1
    BY <1>2, <1>8
  <2>2. place(a) \in Nat /\ place(a) = file + ((o + a) - p) /\ (o + a) - p \in Nat
    BY <1>5, <2>1
  <2>3. Disk(place(a)) = <<"file", (o + a) - p>>
    BY <2>2, OnDisk DEF file
  <2>. QED BY <1>6, <2>1, <2>3
<1>9. ASSUME NEW a \in Address, \A b \in cur .. p + n - 1 : Sector(a) # Sector(b)
      PROVE  C[a] = m[a]
  BY <1>2, <1>6, <1>9 DEF Sector
<1>. QED BY <1>7, <1>8, <1>9 DEF FromFile, cur
------------------------------------------------------------------------------
\* A segment lies in memory m as it is in the file, with its zeros; and so does
\* the argument string.
SegmentRight(m, s) ==
  /\ FromFile(m, s.paddr, s.filesz, s.offset)
  /\ \A a \in Address : a \in s.paddr + s.filesz .. s.paddr + s.memsz - 1 => m[a] = Zero
ArgsRight(m) == \A i \in 0 .. ArgSects * SectSize - 1 : m[ArgAddr + i] = <<"arg", i>>

\* load_program gets its segment right, and touches no sector but the segment's
\* and that of its start.
LEMMA ProgramLoaded ==
  ASSUME NEW m \in Memory, NEW s \in Segment, s.filesz <= s.memsz,
         s.offset % SectSize = s.paddr % SectSize, Address \subseteq Nat
  PROVE  /\ LoadProgram(m, s) \in Memory
         /\ SegmentRight(LoadProgram(m, s), s)
         /\ \A a \in Address : (\A b \in LoadBytes(s) : Sector(a) # Sector(b))
                                 => LoadProgram(m, s)[a] = m[a]
<1> DEFINE p == s.paddr  n == s.filesz  z == s.memsz  o == s.offset
           C == Copy(m, p, n, o)
           L == LoadProgram(m, s)
           cur == p - (p % SectSize)
<1>1. /\ p \in Nat /\ n \in Nat /\ z \in Nat /\ o \in Nat /\ n <= z
      /\ o % SectSize = p % SectSize
  BY DEF Segment
<1>2. /\ C \in Memory /\ FromFile(C, p, n, o)
      /\ \A a \in Address : (\A b \in cur .. p + n - 1 : Sector(a) # Sector(b)) => C[a] = m[a]
  <2> HIDE DEF p, n, z, o
  <2>. QED BY <1>1, Copied
<1>3. L = [a \in Address |-> IF a \in p + n .. p + z - 1 THEN Zero ELSE C[a]]
  BY DEF LoadProgram
<1>4. LoadBytes(s) = cur .. p + z - 1 /\ cur \in Int /\ cur <= p
  <2>1. (p % SectSize) \in Nat /\ p \in Nat
    <3> HIDE DEF p
    <3>. QED BY <1>1, BootAssumption, Division
  <2>. QED BY <2>1 DEF LoadBytes
<1> HIDE DEF C, L, cur
<1>5. Zero \in Byte
  BY DEF Zero, Byte
<1>6. L \in Memory
  BY <1>2, <1>3, <1>5 DEF Memory
<1>7. SegmentRight(L, s)
  <2> HIDE DEF p, n, z, o
  <2>1. ASSUME NEW a \in Address, a \in p .. p + n - 1
        PROVE  L[a] = <<"file", (o + a) - p>>
    <3>1. a \notin p + n .. p + z - 1
      BY <1>1, <2>1
    <3>. QED BY <1>2, <1>3, <2>1, <3>1 DEF FromFile
  <2>2. \A a \in Address : a \in p + n .. p + z - 1 => L[a] = Zero
    BY <1>3
  <2>. QED BY <2>1, <2>2 DEF SegmentRight, FromFile, p, n, z, o
<1>8. ASSUME NEW a \in Address, \A b \in LoadBytes(s) : Sector(a) # Sector(b)
      PROVE  L[a] = m[a]
  <2> HIDE DEF p, n, z, o
  <2>1. a \notin cur .. p + z - 1
    BY <1>4, <1>8
  <2>2. a \notin p + n .. p + z - 1
    BY <1>1, <1>4, <2>1
  <2>3. \A b \in cur .. p + n - 1 : Sector(a) # Sector(b)
    <3>1. cur .. p + n - 1 \subseteq cur .. p + z - 1
      BY <1>1, <1>4
    <3>. QED BY <1>4, <1>8, <3>1
  <2>. QED BY <1>2, <1>3, <2>2, <2>3
<1>. QED BY <1>6, <1>7, <1>8 DEF L

\* The argument string comes from in front of the file.
LEMMA ArgsLoaded ==
  ASSUME NEW m \in Memory
  PROVE  LoadArgs(m) \in Memory /\ ArgsRight(LoadArgs(m))
<1> DEFINE d == SectSize  l == ArgSects * SectSize  A == LoadArgs(m)
<1>1. d \in Nat /\ l \in Nat /\ ArgAddr \in Nat /\ ArgBytes = ArgAddr .. ArgAddr + l - 1
      /\ Address \subseteq Nat /\ ArgBytes \subseteq Address
  BY BootAssumption, ImageAssumption DEF ArgBytes
<1>2. A = [a \in Address |-> IF a \in ArgBytes THEN Disk((d + a) - ArgAddr) ELSE m[a]]
  BY DEF LoadArgs
<1> HIDE DEF A, d
<1>3. \A a \in ArgBytes : (d + a) - ArgAddr \in Nat
  <2> HIDE DEF l
  <2>. QED BY <1>1
<1>4. A \in Memory
  BY <1>2, <1>3, OnDisk DEF Memory
<1>5. ASSUME NEW i \in 0 .. ArgSects * SectSize - 1 PROVE A[ArgAddr + i] = <<"arg", i>>
  <2> HIDE DEF l
  <2>1. i \in 0 .. l - 1
    BY <1>5 DEF l
  <2>2. ArgAddr + i \in ArgBytes /\ (d + (ArgAddr + i)) - ArgAddr = d + i /\ d + i \in Nat
    BY <1>1, <2>1
  <2>3. Disk(d + i) = <<"arg", i>>
    BY <2>2, OnDisk DEF d
  <2>. QED BY <1>1, <1>2, <2>2, <2>3
<1>. QED BY <1>4, <1>5 DEF ArgsRight, A
------------------------------------------------------------------------------
\* After the loop of load_elf64 every segment is right, though each was read in
\* whole sectors and over what the others had left; and so is what lies in the
\* sectors of none of them.
LEMMA ElfLoaded ==
  ASSUME image \in Image, NEW m \in Memory, ArgsRight(m)
  PROVE  /\ LoadElf(m) \in Memory
         /\ \A i \in DOMAIN image : SegmentRight(LoadElf(m), image[i])
         /\ ArgsRight(LoadElf(m))
<1> DEFINE n == Len(image)
           Follows(g, k) == g[0] = m /\ \A i \in 1 .. k : g[i] = LoadProgram(g[i - 1], image[i])
           load[k \in 0 .. n] == IF k = 0 THEN m ELSE LoadProgram(load[k - 1], image[k])
<1>1. /\ image \in Seq(Segment) /\ n \in Nat /\ DOMAIN image = 1 .. n
      /\ Address \subseteq Nat /\ ArgBytes \subseteq Address
  BY ImageAssumption
<1>2. ASSUME NEW i \in 1 .. n
      PROVE  /\ image[i] \in Segment
             /\ image[i].filesz <= image[i].memsz
             /\ image[i].offset % SectSize = image[i].paddr % SectSize
             /\ \A a \in LoadBytes(image[i]), b \in ArgBytes : Sector(a) # Sector(b)
             /\ \A j \in 1 .. n : i # j =>
                  \A a \in LoadBytes(image[i]), b \in SegmentBytes(image[j]) :
                     Sector(a) # Sector(b)
  BY <1>1, ImageAssumption DEF WellLaid
<1> HIDE DEF n
<1>3. ASSUME NEW i \in 1 .. n, NEW x \in Memory
      PROVE  /\ LoadProgram(x, image[i]) \in Memory
             /\ SegmentRight(LoadProgram(x, image[i]), image[i])
             /\ \A a \in Address : (\A b \in LoadBytes(image[i]) : Sector(a) # Sector(b))
                                     => LoadProgram(x, image[i])[a] = x[a]
  BY <1>1, <1>2, ProgramLoaded
<1>4. \E g \in [0 .. n -> Memory] : Follows(g, n)
  <2> DEFINE P == {k \in 0 .. n : \E g \in [0 .. k -> Memory] : Follows(g, k)}
  <2>1. 0 \in P
    <3> DEFINE g == [i \in 0 .. 0 |-> m]
    <3>1. g \in [0 .. 0 -> Memory] /\ Follows(g, 0)
      OBVIOUS
    <3>2. 0 \in 0 .. n
      BY <1>1
    <3> HIDE DEF g, Follows
    <3>. QED BY <3>1, <3>2
  <2>2. ASSUME NEW k \in 0 .. n - 1, k \in P PROVE k + 1 \in P
    <3>1. PICK g \in [0 .. k -> Memory] : Follows(g, k)
      BY <2>2
    <3>2. k \in Nat /\ k + 1 \in 1 .. n
      BY <1>1
    <3> DEFINE next1 == LoadProgram(g[k], image[k + 1])
               h == [i \in 0 .. k + 1 |-> IF i = k + 1 THEN next1 ELSE g[i]]
    <3>3. next1 \in Memory
      BY <1>3, <3>2
    <3>4. h \in [0 .. k + 1 -> Memory]
      <4> HIDE DEF next1
      <4>1. \A i \in 0 .. k + 1 : i # k + 1 => i \in 0 .. k
        BY <3>2
      <4>. QED BY <3>3, <4>1
    <3>5. h[0] = m
      BY <3>1, <3>2
    <3>6. ASSUME NEW i \in 1 .. k + 1 PROVE h[i] = LoadProgram(h[i - 1], image[i])
      <4>1. CASE i = k + 1
        <5>1. i - 1 = k /\ h[k] = g[k] /\ h[i] = next1
          BY <3>2, <4>1
        <5>. QED BY <4>1, <5>1
      <4>2. CASE i # k + 1
        <5>1. i \in 1 .. k /\ h[i] = g[i] /\ h[i - 1] = g[i - 1]
          BY <3>2, <4>2
        <5>. QED BY <3>1, <5>1
      <4>. QED BY <4>1, <4>2
    <3> HIDE DEF h
    <3>7. k + 1 \in 0 .. n
      BY <1>1
    <3>. QED BY <3>4, <3>5, <3>6, <3>7
  <2> HIDE DEF P
  <2>3. 0 .. n \subseteq P
    BY <1>1, <2>1, <2>2, Upto
  <2>. QED BY <1>1, <2>3 DEF P
<1>5. PICK g \in [0 .. n -> Memory] : Follows(g, n)
  BY <1>4
<1>6. load = [k \in 0 .. n |-> IF k = 0 THEN m ELSE LoadProgram(load[k - 1], image[k])]
  <2>1. g = [k \in 0 .. n |-> IF k = 0 THEN m ELSE LoadProgram(g[k - 1], image[k])]
    <3>1. \A k \in 0 .. n : g[k] = IF k = 0 THEN m ELSE LoadProgram(g[k - 1], image[k])
      BY <1>1, <1>5
    <3>. QED BY <3>1
  <2>. QED BY <2>1
<1>7. LoadElf(m) = load[n]
  BY DEF LoadElf, n
<1> HIDE DEF load, Follows
<1> DEFINE Right(k) == /\ load[k] \in Memory
                       /\ \A i \in 1 .. k : SegmentRight(load[k], image[i])
                       /\ ArgsRight(load[k])
<1>8. Right(n)
  <2> DEFINE P == {k \in 0 .. n : Right(k)}
  <2>1. 0 \in P
    <3>1. 0 \in 0 .. n /\ load[0] = m
      BY <1>1, <1>6
    <3>. QED BY <3>1
  <2>2. ASSUME NEW k \in 0 .. n - 1, k \in P PROVE k + 1 \in P
    <3> DEFINE x == load[k]  y == load[k + 1]
    <3>1. k + 1 \in 1 .. n /\ k + 1 \in 0 .. n /\ k + 1 # 0 /\ (k + 1) - 1 = k
      BY <1>1
    <3>2. y = LoadProgram(x, image[k + 1])
      BY <1>6, <3>1
    <3>3. Right(k)
      BY <2>2
    <3> HIDE DEF x, y
    <3>4. /\ y \in Memory /\ SegmentRight(y, image[k + 1])
          /\ \A a \in Address :
               (\A b \in LoadBytes(image[k + 1]) : Sector(a) # Sector(b)) => y[a] = x[a]
      BY <1>3, <3>1, <3>2, <3>3 DEF x
    <3>5. ASSUME NEW i \in 1 .. k + 1 PROVE SegmentRight(y, image[i])
      <4>1. CASE i = k + 1
        BY <3>4, <4>1
      <4>2. CASE i # k + 1
        <5>1. i \in 1 .. k /\ i \in 1 .. n
          BY <1>1, <4>2
        <5>2. SegmentRight(x, image[i])
          BY <3>3, <5>1 DEF x
        <5>3. ASSUME NEW a \in Address, a \in SegmentBytes(image[i]) PROVE y[a] = x[a]
          BY <1>2, <3>1, <3>4, <4>2, <5>1, <5>3
        <5>4. image[i] \in Segment /\ image[i].filesz <= image[i].memsz
          BY <1>2, <5>1
        <5> DEFINE p == image[i].paddr  f == image[i].filesz  z == image[i].memsz
                   w == image[i].offset
        <5>5. p \in Nat /\ f \in Nat /\ z \in Nat /\ f <= z
              /\ SegmentBytes(image[i]) = p .. p + z - 1
          BY <5>4 DEF Segment, SegmentBytes
        <5>6. /\ \A a \in Address : a \in p .. p + f - 1 => x[a] = <<"file", (w + a) - p>>
              /\ \A a \in Address : a \in p + f .. p + z - 1 => x[a] = Zero
          BY <5>2 DEF SegmentRight, FromFile
        <5> HIDE DEF p, f, z, w
        <5>7. \A a \in Address : a \in p .. p + z - 1 => y[a] = x[a]
          BY <5>3, <5>5
        <5>8. /\ \A a \in Address : a \in p .. p + f - 1 => y[a] = <<"file", (w + a) - p>>
              /\ \A a \in Address : a \in p + f .. p + z - 1 => y[a] = Zero
          <6>1. p .. p + f - 1 \subseteq p .. p + z - 1 /\ p + f .. p + z - 1 \subseteq p .. p + z - 1
            BY <5>5
          <6>. QED BY <5>6, <5>7, <6>1
        <5>. QED BY <5>8 DEF SegmentRight, FromFile, p, f, z, w
      <4>. QED BY <4>1, <4>2
    <3>6. ArgsRight(y)
      <4> SUFFICES ASSUME NEW i \in 0 .. ArgSects * SectSize - 1
                   PROVE  y[ArgAddr + i] = <<"arg", i>>
        BY DEF ArgsRight
      <4>1. ArgAddr + i \in ArgBytes
        BY BootAssumption DEF ArgBytes
      <4>2. y[ArgAddr + i] = x[ArgAddr + i]
        BY <1>1, <1>2, <3>1, <3>4, <4>1
      <4>. QED BY <3>3, <4>2 DEF x, ArgsRight
    <3>. QED BY <3>1, <3>4, <3>5, <3>6 DEF y
  <2> HIDE DEF P
  <2>3. 0 .. n \subseteq P
    BY <1>1, <2>1, <2>2, Upto
  <2>. QED BY <1>1, <2>3 DEF P
<1>. QED BY <1>1, <1>7, <1>8
------------------------------------------------------------------------------
(* The processors.                                                         *)

\* What the kernel's data can be.
KernelData == [entry : BOOLEAN, ready : {0, 1}, ncpu : 0 .. NCpu]

\* What the loader and mpe_init write into the kernel's data has its type.
LEMMA KernelTyped ==
  /\ NoKernel \in KernelData
  /\ \A k \in KernelData : /\ [k EXCEPT !.ncpu = NCpu] \in KernelData
                            /\ [k EXCEPT !.entry = TRUE] \in KernelData
                            /\ [k EXCEPT !.ready = 0] \in KernelData
                            /\ [k EXCEPT !.ready = 1] \in KernelData
<1>1. NCpu \in 0 .. NCpu /\ 0 \in 0 .. NCpu
  BY BootAssumption
<1>. QED BY <1>1 DEF KernelData, NoKernel

\* The invariant of the places; it does not speak of memory.
PlacesInv == /\ TypeOK /\ EarlyInv /\ FirstInv /\ BehindInv /\ OtherInv
             /\ HaltInv /\ OrderInv /\ AloneInv

\* The inductive invariant.
IInv == PlacesInv /\ Loaded

\* Initially the first processor is at the boot block, the others are off, and
\* memory need not hold anything.
THEOREM Initial == Init => IInv
<1> SUFFICES ASSUME Init PROVE IInv
  OBVIOUS
<1> USE BootAssumption DEF Init, Cpu, Ap, NoKernel
<1>1. TypeOK
  <2>0. /\ kernel \in KernelData /\ record \in [jmp : {"zero", "bootblock", "spin"}, ap : {0, 1}]
        /\ pc \in [Cpu -> Labels] /\ next \in [Cpu -> 0 .. NCpu]
    BY KernelTyped DEF Labels, Booting
  <2>1. mem \in [Address -> Byte]
    BY ImageAssumption DEF Byte
  <2>. QED BY <2>0, <2>1 DEF TypeOK, KernelData
<1>2. EarlyInv /\ FirstInv /\ BehindInv /\ OtherInv /\ HaltInv /\ OrderInv
  BY DEF EarlyInv, FirstInv, BehindInv, OtherInv, HaltInv, OrderInv, Booting
<1>3. AloneInv
  BY DEF AloneInv, Coming, Booting
<1>4. Loaded
  BY DEF Loaded
<1>. QED BY <1>1, <1>2, <1>3, <1>4 DEF IInv, PlacesInv

\* The boot block loads the kernel once: on the first processor.
LEMMA LoadedOnce ==
  ASSUME PlacesInv, NEW c \in Cpu, LoadKernel(c)
  PROVE  record.ap = 0 <=> c = 0
  BY DEF PlacesInv, EarlyInv, OtherInv, LoadKernel, Goto, Ap, Booting

\* Memory stays memory.
LEMMA MemoryTyped ==
  ASSUME PlacesInv, NEW c \in Cpu, Step(c) \/ Halt(c)
  PROVE  mem' \in Memory
<1>1. mem \in Memory /\ image \in Image
  BY DEF PlacesInv, TypeOK, Memory
<1>2. CASE LoadKernel(c)
  <2>1. LoadElf(LoadArgs(mem)) \in Memory
    BY <1>1, ArgsLoaded, ElfLoaded
  <2>. QED BY <1>1, <1>2, <2>1 DEF LoadKernel
<1>3. CASE ~ LoadKernel(c)
  <2>1. mem' = mem
    BY <1>3 DEF Step, Start64, StartC, BootCpu, InitGdt, InitLapic, InitIrq, Prepare, MpeInit,
                BootAp, WaitReady, AllStarted, Ready, Reset, Jump, StopOther, Stopped,
                PowerOff, Halt
  <2>. QED BY <1>1, <2>1
<1>. QED BY <1>2, <1>3

\* A step of a processor keeps the invariant of the places.
LEMMA PlacesInductive ==
  ASSUME PlacesInv, NEW c \in Cpu, Step(c) \/ Halt(c)
  PROVE  PlacesInv'
<1> TypeOK /\ EarlyInv /\ FirstInv /\ BehindInv /\ OtherInv /\ HaltInv /\ OrderInv /\ AloneInv
  BY DEF PlacesInv
<1> USE BootAssumption DEF TypeOK, Cpu, Ap, Goto, Booting, Labels
<1>0. mem' \in [Address -> Byte]
  BY MemoryTyped DEF Memory
<1>1. CASE LoadKernel(c)
  <2>1. TypeOK'
    <3>1. kernel' \in KernelData
      BY <1>1, KernelTyped DEF LoadKernel, KernelData
    <3>2. pc' \in [Cpu -> Labels]
      BY <1>1 DEF LoadKernel
    <3>. QED BY <1>1, <1>0, <3>1, <3>2 DEF LoadKernel, KernelData
  <2>2. EarlyInv'
    <3>1. CASE c = 0
      BY <1>1, <3>1 DEF LoadKernel, EarlyInv, NoKernel
    <3>2. CASE c # 0
      BY <1>1, <3>2 DEF LoadKernel, EarlyInv
    <3>. QED BY <3>1, <3>2
  <2>3. FirstInv'
    <3>1. CASE c = 0
      BY <1>1, <3>1 DEF LoadKernel, FirstInv
    <3>2. CASE c # 0
      <4>0. record.ap # 0
        BY <1>1, <3>2, LoadedOnce
      <4>1. pc'[0] = pc[0] /\ kernel' = kernel /\ next' = next
        BY <1>1, <3>2, <4>0 DEF LoadKernel
      <4>. QED BY <4>1 DEF FirstInv
    <3>. QED BY <3>1, <3>2
  <2>4. BehindInv'
    BY <1>1 DEF LoadKernel, Prepared, BehindInv, EarlyInv, OtherInv, FirstInv
  <2>5. OtherInv'
    BY <1>1 DEF LoadKernel, OtherInv, EarlyInv, FirstInv, HaltInv
  <2>6. HaltInv'
    <3>1. CASE c = 0
      BY <1>1, <3>1 DEF LoadKernel, HaltInv, EarlyInv
    <3>2. CASE c # 0
      <4>1. kernel' = kernel
        BY <1>1, <3>2, LoadedOnce DEF LoadKernel
      <4>. QED BY <1>1, <3>2, <4>1 DEF LoadKernel, HaltInv
    <3>. QED BY <3>1, <3>2
  <2>7. OrderInv'
    BY <1>1 DEF LoadKernel, OrderInv, HaltInv, FirstInv, OtherInv, EarlyInv
  <2>8. AloneInv'
    BY <1>1 DEF LoadKernel, Coming, AloneInv, OrderInv, HaltInv, FirstInv, OtherInv, EarlyInv
  <2>. QED BY <2>1, <2>2, <2>3, <2>4, <2>5, <2>6, <2>7, <2>8 DEF PlacesInv
<1>2. CASE Start64(c)
  <2>1. TypeOK'
    BY <1>2, <1>0 DEF Start64, OrderInv, FirstInv, OtherInv, EarlyInv
  <2>2. EarlyInv'
    BY <1>2 DEF Start64, EarlyInv, HaltInv, FirstInv, OtherInv
  <2>3. FirstInv'
    BY <1>2 DEF Start64, EarlyInv, FirstInv, HaltInv, OtherInv, OrderInv
  <2>4. BehindInv'
    BY <1>2 DEF Start64, Prepared, BehindInv, EarlyInv, OtherInv, FirstInv
  <2>5. OtherInv'
    BY <1>2 DEF Start64, OtherInv, EarlyInv, FirstInv, HaltInv
  <2>6. HaltInv'
    BY <1>2 DEF Start64, HaltInv, EarlyInv, OtherInv, FirstInv
  <2>7. OrderInv'
    BY <1>2 DEF Start64, OrderInv, HaltInv, FirstInv, OtherInv, EarlyInv
  <2>8. AloneInv'
    BY <1>2 DEF Start64, Coming, AloneInv, OrderInv, HaltInv, FirstInv, OtherInv, EarlyInv
  <2>. QED BY <2>1, <2>2, <2>3, <2>4, <2>5, <2>6, <2>7, <2>8 DEF PlacesInv
<1>3. CASE StartC(c)
  <2>1. TypeOK'
    BY <1>3, <1>0 DEF StartC, OrderInv, FirstInv, OtherInv, EarlyInv
  <2>2. EarlyInv'
    BY <1>3 DEF StartC, EarlyInv, HaltInv, FirstInv, OtherInv
  <2>3. FirstInv'
    BY <1>3 DEF StartC, EarlyInv, FirstInv, HaltInv, OtherInv, OrderInv
  <2>4. BehindInv'
    BY <1>3 DEF StartC, Prepared, BehindInv, EarlyInv, OtherInv, FirstInv
  <2>5. OtherInv'
    BY <1>3 DEF StartC, OtherInv, EarlyInv, FirstInv, HaltInv
  <2>6. HaltInv'
    BY <1>3 DEF StartC, HaltInv, EarlyInv, OtherInv, FirstInv
  <2>7. OrderInv'
    BY <1>3 DEF StartC, OrderInv, HaltInv, FirstInv, OtherInv, EarlyInv
  <2>8. AloneInv'
    BY <1>3 DEF StartC, Coming, AloneInv, OrderInv, HaltInv, FirstInv, OtherInv, EarlyInv
  <2>. QED BY <2>1, <2>2, <2>3, <2>4, <2>5, <2>6, <2>7, <2>8 DEF PlacesInv
<1>4. CASE BootCpu(c)
  <2>1. TypeOK'
    <3>1. kernel' \in KernelData
      BY <1>4, KernelTyped DEF BootCpu, KernelData
    <3>2. pc' \in [Cpu -> Labels]
      BY <1>4 DEF BootCpu
    <3>. QED BY <1>4, <1>0, <3>1, <3>2 DEF BootCpu, KernelData
  <2>2. EarlyInv'
    BY <1>4 DEF BootCpu, EarlyInv, HaltInv, FirstInv, OtherInv
  <2>3. FirstInv'
    BY <1>4 DEF BootCpu, EarlyInv, FirstInv, HaltInv, OtherInv, OrderInv
  <2>4. BehindInv'
    BY <1>4 DEF BootCpu, Prepared, BehindInv, EarlyInv, OtherInv, FirstInv
  <2>5. OtherInv'
    BY <1>4 DEF BootCpu, OtherInv, EarlyInv, FirstInv, HaltInv
  <2>6. HaltInv'
    BY <1>4 DEF BootCpu, HaltInv, EarlyInv, OtherInv, FirstInv
  <2>7. OrderInv'
    BY <1>4 DEF BootCpu, OrderInv, HaltInv, FirstInv, OtherInv, EarlyInv
  <2>8. AloneInv'
    BY <1>4 DEF BootCpu, Coming, AloneInv, OrderInv, HaltInv, FirstInv, OtherInv, EarlyInv
  <2>. QED BY <2>1, <2>2, <2>3, <2>4, <2>5, <2>6, <2>7, <2>8 DEF PlacesInv
<1>5. CASE InitGdt(c)
  <2>1. TypeOK'
    <3>1. pc' \in [Cpu -> Labels]
      BY <1>5 DEF InitGdt, Prepare
    <3>2. percpu' = [percpu EXCEPT ![c] = percpu[c] \cup {"gdt"}] /\ "gdt" \in Prepared
      BY <1>5 DEF InitGdt, Prepare, Prepared
    <3>3. percpu' \in [Cpu -> SUBSET Prepared]
      BY <3>2
    <3>. QED BY <1>5, <1>0, <3>1, <3>3 DEF InitGdt, Prepare
  <2>2. EarlyInv'
    BY <1>5 DEF InitGdt, Prepare, EarlyInv, HaltInv, FirstInv, OtherInv
  <2>3. FirstInv'
    BY <1>5 DEF InitGdt, Prepare, EarlyInv, FirstInv, HaltInv, OtherInv, OrderInv
  <2>4. BehindInv'
    BY <1>5 DEF InitGdt, Prepare, Prepared, BehindInv, EarlyInv, OtherInv, FirstInv
  <2>5. OtherInv'
    BY <1>5 DEF InitGdt, Prepare, OtherInv, EarlyInv, FirstInv, HaltInv
  <2>6. HaltInv'
    BY <1>5 DEF InitGdt, Prepare, HaltInv, EarlyInv, OtherInv, FirstInv
  <2>7. OrderInv'
    BY <1>5 DEF InitGdt, Prepare, OrderInv, HaltInv, FirstInv, OtherInv, EarlyInv
  <2>8. AloneInv'
    BY <1>5 DEF InitGdt, Prepare, Coming, AloneInv, OrderInv, HaltInv, FirstInv, OtherInv, EarlyInv
  <2>. QED BY <2>1, <2>2, <2>3, <2>4, <2>5, <2>6, <2>7, <2>8 DEF PlacesInv
<1>6. CASE InitLapic(c)
  <2>1. TypeOK'
    <3>1. pc' \in [Cpu -> Labels]
      BY <1>6 DEF InitLapic, Prepare
    <3>2. percpu' = [percpu EXCEPT ![c] = percpu[c] \cup {"lapic"}] /\ "lapic" \in Prepared
      BY <1>6 DEF InitLapic, Prepare, Prepared
    <3>3. percpu' \in [Cpu -> SUBSET Prepared]
      BY <3>2
    <3>. QED BY <1>6, <1>0, <3>1, <3>3 DEF InitLapic, Prepare
  <2>2. EarlyInv'
    BY <1>6 DEF InitLapic, Prepare, EarlyInv, HaltInv, FirstInv, OtherInv
  <2>3. FirstInv'
    BY <1>6 DEF InitLapic, Prepare, EarlyInv, FirstInv, HaltInv, OtherInv, OrderInv
  <2>4. BehindInv'
    BY <1>6 DEF InitLapic, Prepare, Prepared, BehindInv, EarlyInv, OtherInv, FirstInv
  <2>5. OtherInv'
    BY <1>6 DEF InitLapic, Prepare, OtherInv, EarlyInv, FirstInv, HaltInv
  <2>6. HaltInv'
    BY <1>6 DEF InitLapic, Prepare, HaltInv, EarlyInv, OtherInv, FirstInv
  <2>7. OrderInv'
    BY <1>6 DEF InitLapic, Prepare, OrderInv, HaltInv, FirstInv, OtherInv, EarlyInv
  <2>8. AloneInv'
    BY <1>6 DEF InitLapic, Prepare, Coming, AloneInv, OrderInv, HaltInv, FirstInv, OtherInv, EarlyInv
  <2>. QED BY <2>1, <2>2, <2>3, <2>4, <2>5, <2>6, <2>7, <2>8 DEF PlacesInv
<1>7. CASE InitIrq(c)
  <2>1. TypeOK'
    <3>1. pc' \in [Cpu -> Labels]
      BY <1>7 DEF InitIrq, Prepare
    <3>2. percpu' = [percpu EXCEPT ![c] = percpu[c] \cup {"irq"}] /\ "irq" \in Prepared
      BY <1>7 DEF InitIrq, Prepare, Prepared
    <3>3. percpu' \in [Cpu -> SUBSET Prepared]
      BY <3>2
    <3>. QED BY <1>7, <1>0, <3>1, <3>3 DEF InitIrq, Prepare
  <2>2. EarlyInv'
    BY <1>7 DEF InitIrq, Prepare, EarlyInv, HaltInv, FirstInv, OtherInv
  <2>3. FirstInv'
    BY <1>7 DEF InitIrq, Prepare, EarlyInv, FirstInv, HaltInv, OtherInv, OrderInv
  <2>4. BehindInv'
    BY <1>7 DEF InitIrq, Prepare, Prepared, BehindInv, EarlyInv, OtherInv, FirstInv
  <2>5. OtherInv'
    BY <1>7 DEF InitIrq, Prepare, OtherInv, EarlyInv, FirstInv, HaltInv
  <2>6. HaltInv'
    <3>1. CASE c = 0
      BY <1>7, <3>1 DEF InitIrq, Prepare, HaltInv, EarlyInv
    <3>2. CASE c # 0
      <4>1. pc' = [pc EXCEPT ![c] = "ready"]
        BY <1>7, <3>2 DEF InitIrq, Prepare, OtherInv
      <4>. QED BY <1>7, <3>2, <4>1 DEF InitIrq, Prepare, HaltInv
    <3>. QED BY <3>1, <3>2
  <2>7. OrderInv'
    BY <1>7 DEF InitIrq, Prepare, OrderInv, HaltInv, FirstInv, OtherInv, EarlyInv
  <2>8. AloneInv'
    BY <1>7 DEF InitIrq, Prepare, Coming, AloneInv, OrderInv, HaltInv, FirstInv, OtherInv, EarlyInv
  <2>. QED BY <2>1, <2>2, <2>3, <2>4, <2>5, <2>6, <2>7, <2>8 DEF PlacesInv
<1>8. CASE MpeInit(c)
  <2>1. TypeOK'
    <3>1. kernel' \in KernelData
      BY <1>8, KernelTyped DEF MpeInit, KernelData
    <3>2. record' \in [jmp : {"zero", "bootblock", "spin"}, ap : {0, 1}]
      BY <1>8 DEF MpeInit
    <3>3. pc' \in [Cpu -> Labels] /\ next' \in [Cpu -> 0 .. NCpu]
      BY <1>8 DEF MpeInit
    <3>. QED BY <1>8, <1>0, <3>1, <3>2, <3>3 DEF MpeInit, KernelData
  <2>2. EarlyInv'
    BY <1>8 DEF MpeInit, EarlyInv, HaltInv, FirstInv, OtherInv
  <2>3. FirstInv'
    BY <1>8 DEF MpeInit, EarlyInv, FirstInv, HaltInv, OtherInv, OrderInv
  <2>4. BehindInv'
    BY <1>8 DEF MpeInit, Prepared, BehindInv, EarlyInv, OtherInv, FirstInv
  <2>5. OtherInv'
    BY <1>8 DEF MpeInit, OtherInv, EarlyInv, FirstInv, HaltInv
  <2>6. HaltInv'
    BY <1>8 DEF MpeInit, HaltInv, EarlyInv, OtherInv, FirstInv
  <2>7. OrderInv'
    <3>1. c = 0
      BY <1>8 DEF MpeInit, OtherInv
    <3>2. /\ pc'[0] = "mpe" /\ next'[0] = 1 /\ kernel'.ready = 0
          /\ \A a \in Ap : pc'[a] = "off" /\ ~ipi'[a]
      BY <1>8, <3>1 DEF MpeInit, EarlyInv
    <3>. QED BY <3>2 DEF OrderInv
  <2>8. AloneInv'
    BY <1>8 DEF MpeInit, Coming, AloneInv, OrderInv, HaltInv, FirstInv, OtherInv, EarlyInv
  <2>. QED BY <2>1, <2>2, <2>3, <2>4, <2>5, <2>6, <2>7, <2>8 DEF PlacesInv
<1>9. CASE BootAp(c)
  <2>1. TypeOK'
    BY <1>9, <1>0 DEF BootAp, OrderInv, FirstInv, OtherInv, EarlyInv
  <2>2. EarlyInv'
    BY <1>9 DEF BootAp, EarlyInv, HaltInv, FirstInv, OtherInv
  <2>3. FirstInv'
    BY <1>9 DEF BootAp, EarlyInv, FirstInv, HaltInv, OtherInv, OrderInv
  <2>4. BehindInv'
    BY <1>9 DEF BootAp, Prepared, BehindInv, EarlyInv, OtherInv, FirstInv
  <2>5. OtherInv'
    BY <1>9 DEF BootAp, OtherInv, EarlyInv, FirstInv, HaltInv
  <2>6. HaltInv'
    <3>1. c = 0
      BY <1>9 DEF BootAp, OtherInv
    <3>2. halts = {} => ~ipi'[0]
      BY <1>9, <3>1 DEF BootAp, HaltInv, OrderInv, FirstInv
    <3>. QED BY <1>9, <3>1, <3>2 DEF BootAp, HaltInv
  <2>7. OrderInv'
    BY <1>9 DEF BootAp, OrderInv, HaltInv, FirstInv, OtherInv, EarlyInv
  <2>8. AloneInv'
    BY <1>9 DEF BootAp, Coming, AloneInv, OrderInv, HaltInv, FirstInv, OtherInv, EarlyInv
  <2>. QED BY <2>1, <2>2, <2>3, <2>4, <2>5, <2>6, <2>7, <2>8 DEF PlacesInv
<1>10. CASE WaitReady(c)
  <2>1. TypeOK'
    <3>1. kernel' \in KernelData
      BY <1>10, KernelTyped DEF WaitReady, KernelData
    <3>2. c = 0
      BY <1>10 DEF WaitReady, OtherInv
    <3>3. pc' \in [Cpu -> Labels] /\ next' \in [Cpu -> 0 .. NCpu]
      BY <1>10, <3>2 DEF WaitReady, FirstInv
    <3>. QED BY <1>10, <1>0, <3>1, <3>3 DEF WaitReady, KernelData
  <2>2. EarlyInv'
    BY <1>10 DEF WaitReady, EarlyInv, HaltInv, FirstInv, OtherInv
  <2>3. FirstInv'
    BY <1>10 DEF WaitReady, EarlyInv, FirstInv, HaltInv, OtherInv, OrderInv
  <2>4. BehindInv'
    BY <1>10 DEF WaitReady, Prepared, BehindInv, EarlyInv, OtherInv, FirstInv
  <2>5. OtherInv'
    BY <1>10 DEF WaitReady, OtherInv, EarlyInv, FirstInv, HaltInv
  <2>6. HaltInv'
    BY <1>10 DEF WaitReady, HaltInv, EarlyInv, OtherInv, FirstInv
  <2>7. OrderInv'
    BY <1>10 DEF WaitReady, OrderInv, HaltInv, FirstInv, OtherInv, EarlyInv
  <2>8. AloneInv'
    BY <1>10 DEF WaitReady, Coming, AloneInv, OrderInv, HaltInv, FirstInv, OtherInv, EarlyInv
  <2>. QED BY <2>1, <2>2, <2>3, <2>4, <2>5, <2>6, <2>7, <2>8 DEF PlacesInv
<1>11. CASE AllStarted(c)
  <2>1. TypeOK'
    BY <1>11, <1>0 DEF AllStarted, OrderInv, FirstInv, OtherInv, EarlyInv
  <2>2. EarlyInv'
    BY <1>11 DEF AllStarted, EarlyInv, HaltInv, FirstInv, OtherInv
  <2>3. FirstInv'
    BY <1>11 DEF AllStarted, EarlyInv, FirstInv, HaltInv, OtherInv, OrderInv
  <2>4. BehindInv'
    BY <1>11 DEF AllStarted, Prepared, BehindInv, EarlyInv, OtherInv, FirstInv
  <2>5. OtherInv'
    BY <1>11 DEF AllStarted, OtherInv, EarlyInv, FirstInv, HaltInv
  <2>6. HaltInv'
    BY <1>11 DEF AllStarted, HaltInv, EarlyInv, OtherInv, FirstInv
  <2>7. OrderInv'
    BY <1>11 DEF AllStarted, OrderInv, HaltInv, FirstInv, OtherInv, EarlyInv
  <2>8. AloneInv'
    BY <1>11 DEF AllStarted, Coming, AloneInv, OrderInv, HaltInv, FirstInv, OtherInv, EarlyInv
  <2>. QED BY <2>1, <2>2, <2>3, <2>4, <2>5, <2>6, <2>7, <2>8 DEF PlacesInv
<1>12. CASE Ready(c)
  <2>1. TypeOK'
    <3>1. kernel' \in KernelData
      BY <1>12, KernelTyped DEF Ready, KernelData
    <3>2. pc' \in [Cpu -> Labels]
      BY <1>12 DEF Ready
    <3>. QED BY <1>12, <1>0, <3>1, <3>2 DEF Ready, KernelData
  <2>2. EarlyInv'
    BY <1>12 DEF Ready, EarlyInv, HaltInv, FirstInv, OtherInv
  <2>3. FirstInv'
    BY <1>12 DEF Ready, EarlyInv, FirstInv, HaltInv, OtherInv, OrderInv
  <2>4. BehindInv'
    BY <1>12 DEF Ready, Prepared, BehindInv, EarlyInv, OtherInv, FirstInv
  <2>5. OtherInv'
    BY <1>12 DEF Ready, OtherInv, EarlyInv, FirstInv, HaltInv
  <2>6. HaltInv'
    BY <1>12 DEF Ready, HaltInv, EarlyInv, OtherInv, FirstInv
  <2>7. OrderInv'
    BY <1>12 DEF Ready, OrderInv, HaltInv, FirstInv, OtherInv, EarlyInv
  <2>8. AloneInv'
    BY <1>12 DEF Ready, Coming, AloneInv, OrderInv, HaltInv, FirstInv, OtherInv, EarlyInv
  <2>. QED BY <2>1, <2>2, <2>3, <2>4, <2>5, <2>6, <2>7, <2>8 DEF PlacesInv
<1>13. CASE Reset(c)
  <2>1. TypeOK'
    BY <1>13, <1>0 DEF Reset, OrderInv, FirstInv, OtherInv, EarlyInv
  <2>2. EarlyInv'
    BY <1>13 DEF Reset, EarlyInv, HaltInv, FirstInv, OtherInv
  <2>3. FirstInv'
    BY <1>13 DEF Reset, EarlyInv, FirstInv, HaltInv, OtherInv, OrderInv
  <2>4. BehindInv'
    BY <1>13 DEF Reset, Prepared, BehindInv, EarlyInv, OtherInv, FirstInv
  <2>5. OtherInv'
    BY <1>13 DEF Reset, OtherInv, EarlyInv, FirstInv, HaltInv
  <2>6. HaltInv'
    BY <1>13 DEF Reset, HaltInv, EarlyInv, OtherInv, FirstInv
  <2>7. OrderInv'
    BY <1>13 DEF Reset, OrderInv, HaltInv, FirstInv, OtherInv, EarlyInv
  <2>8. AloneInv'
    BY <1>13 DEF Reset, Coming, AloneInv, OrderInv, HaltInv, FirstInv, OtherInv, EarlyInv
  <2>. QED BY <2>1, <2>2, <2>3, <2>4, <2>5, <2>6, <2>7, <2>8 DEF PlacesInv
<1>14. CASE Jump(c)
  <2>1. TypeOK'
    BY <1>14, <1>0 DEF Jump, OrderInv, FirstInv, OtherInv, EarlyInv
  <2>2. EarlyInv'
    BY <1>14 DEF Jump, EarlyInv, HaltInv, FirstInv, OtherInv
  <2>3. FirstInv'
    BY <1>14 DEF Jump, EarlyInv, FirstInv, HaltInv, OtherInv, OrderInv
  <2>4. BehindInv'
    BY <1>14 DEF Jump, Prepared, BehindInv, EarlyInv, OtherInv, FirstInv
  <2>5. OtherInv'
    BY <1>14 DEF Jump, OtherInv, EarlyInv, FirstInv, HaltInv
  <2>6. HaltInv'
    <3>1. CASE c = 0
      BY <1>14, <3>1 DEF Jump, HaltInv
    <3>2. CASE c # 0
      <4>1. /\ pc' = [pc EXCEPT ![c] = record.jmp] /\ record.jmp \in {"bootblock", "spin"}
            /\ UNCHANGED <<record, kernel, ipi, halts>>
        BY <1>14 DEF Jump
      <4>2. halts = {} => pc' = [pc EXCEPT ![c] = "bootblock"]
        BY <4>1 DEF HaltInv
      <4>. QED BY <3>2, <4>1, <4>2 DEF HaltInv
    <3>. QED BY <3>1, <3>2
  <2>7. OrderInv'
    BY <1>14 DEF Jump, OrderInv, HaltInv, FirstInv, OtherInv, EarlyInv
  <2>8. AloneInv'
    BY <1>14 DEF Jump, Coming, AloneInv, OrderInv, HaltInv, FirstInv, OtherInv, EarlyInv
  <2>. QED BY <2>1, <2>2, <2>3, <2>4, <2>5, <2>6, <2>7, <2>8 DEF PlacesInv
<1>15. CASE StopOther(c)
  <2>1. TypeOK'
    BY <1>15, <1>0 DEF StopOther, OrderInv, FirstInv, OtherInv, EarlyInv
  <2>2. EarlyInv'
    BY <1>15 DEF StopOther, EarlyInv, HaltInv, FirstInv, OtherInv
  <2>3. FirstInv'
    BY <1>15 DEF StopOther, EarlyInv, FirstInv, HaltInv, OtherInv, OrderInv
  <2>4. BehindInv'
    BY <1>15 DEF StopOther, Prepared, BehindInv, EarlyInv, OtherInv, FirstInv
  <2>5. OtherInv'
    BY <1>15 DEF StopOther, OtherInv, EarlyInv, FirstInv, HaltInv
  <2>6. HaltInv'
    BY <1>15 DEF StopOther, HaltInv, EarlyInv, OtherInv, FirstInv
  <2>7. OrderInv'
    BY <1>15 DEF StopOther, OrderInv, HaltInv, FirstInv, OtherInv, EarlyInv
  <2>8. AloneInv'
    <3>1. pc' = pc /\ kernel' = kernel /\ (pc[0] = "wait" => next'[0] = next[0])
      BY <1>15 DEF StopOther
    <3>. QED BY <3>1 DEF AloneInv, Coming
  <2>. QED BY <2>1, <2>2, <2>3, <2>4, <2>5, <2>6, <2>7, <2>8 DEF PlacesInv
<1>16. CASE Stopped(c)
  <2>1. TypeOK'
    BY <1>16, <1>0 DEF Stopped, OrderInv, FirstInv, OtherInv, EarlyInv
  <2>2. EarlyInv'
    BY <1>16 DEF Stopped, EarlyInv, HaltInv, FirstInv, OtherInv
  <2>3. FirstInv'
    BY <1>16 DEF Stopped, EarlyInv, FirstInv, HaltInv, OtherInv, OrderInv
  <2>4. BehindInv'
    BY <1>16 DEF Stopped, Prepared, BehindInv, EarlyInv, OtherInv, FirstInv
  <2>5. OtherInv'
    BY <1>16 DEF Stopped, OtherInv, EarlyInv, FirstInv, HaltInv
  <2>6. HaltInv'
    BY <1>16 DEF Stopped, HaltInv, EarlyInv, OtherInv, FirstInv
  <2>7. OrderInv'
    BY <1>16 DEF Stopped, OrderInv, HaltInv, FirstInv, OtherInv, EarlyInv
  <2>8. AloneInv'
    BY <1>16 DEF Stopped, Coming, AloneInv, OrderInv, HaltInv, FirstInv, OtherInv, EarlyInv
  <2>. QED BY <2>1, <2>2, <2>3, <2>4, <2>5, <2>6, <2>7, <2>8 DEF PlacesInv
<1>17. CASE PowerOff(c)
  <2>1. TypeOK'
    BY <1>17, <1>0 DEF PowerOff, OrderInv, FirstInv, OtherInv, EarlyInv
  <2>2. EarlyInv'
    BY <1>17 DEF PowerOff, EarlyInv, HaltInv, FirstInv, OtherInv
  <2>3. FirstInv'
    BY <1>17 DEF PowerOff, EarlyInv, FirstInv, HaltInv, OtherInv, OrderInv
  <2>4. BehindInv'
    BY <1>17 DEF PowerOff, Prepared, BehindInv, EarlyInv, OtherInv, FirstInv
  <2>5. OtherInv'
    BY <1>17 DEF PowerOff, OtherInv, EarlyInv, FirstInv, HaltInv
  <2>6. HaltInv'
    BY <1>17 DEF PowerOff, HaltInv, EarlyInv, OtherInv, FirstInv
  <2>7. OrderInv'
    BY <1>17 DEF PowerOff, OrderInv, HaltInv, FirstInv, OtherInv, EarlyInv
  <2>8. AloneInv'
    BY <1>17 DEF PowerOff, Coming, AloneInv, OrderInv, HaltInv, FirstInv, OtherInv, EarlyInv
  <2>. QED BY <2>1, <2>2, <2>3, <2>4, <2>5, <2>6, <2>7, <2>8 DEF PlacesInv
<1>18. CASE Halt(c)
  <2>1. TypeOK'
    <3>1. record' \in [jmp : {"zero", "bootblock", "spin"}, ap : {0, 1}]
      BY <1>18 DEF Halt
    <3>2. pc' \in [Cpu -> Labels] /\ next' \in [Cpu -> 0 .. NCpu]
      BY <1>18 DEF Halt
    <3>. QED BY <1>18, <1>0, <3>1, <3>2 DEF Halt
  <2>2. EarlyInv'
    BY <1>18 DEF Halt, EarlyInv, HaltInv, FirstInv, OtherInv
  <2>3. FirstInv'
    BY <1>18 DEF Halt, EarlyInv, FirstInv, HaltInv, OtherInv, OrderInv
  <2>4. BehindInv'
    BY <1>18 DEF Halt, Prepared, BehindInv, EarlyInv, OtherInv, FirstInv
  <2>5. OtherInv'
    BY <1>18 DEF Halt, OtherInv, EarlyInv, FirstInv, HaltInv
  <2>6. HaltInv'
    BY <1>18 DEF Halt, HaltInv, EarlyInv, OtherInv, FirstInv
  <2>7. OrderInv'
    BY <1>18 DEF Halt, OrderInv, HaltInv, FirstInv, OtherInv, EarlyInv
  <2>8. AloneInv'
    BY <1>18 DEF Halt, Coming, AloneInv, OrderInv, HaltInv, FirstInv, OtherInv, EarlyInv
  <2>. QED BY <2>1, <2>2, <2>3, <2>4, <2>5, <2>6, <2>7, <2>8 DEF PlacesInv
<1>. QED BY <1>1, <1>2, <1>3, <1>4, <1>5, <1>6, <1>7, <1>8, <1>9, <1>10, <1>11, <1>12, <1>13, <1>14, <1>15, <1>16, <1>17, <1>18 DEF Step

\* Loaded, said of a memory.
LEMMA LoadedIs ==
  ASSUME NEW m, NEW img, \A i \in DOMAIN img : img[i] \in Segment
  PROVE  (\A i \in DOMAIN img : SegmentRight(m, img[i]))
         <=> \A i \in DOMAIN img, a \in Address :
               LET s == img[i]
               IN /\ a \in s.paddr .. s.paddr + s.filesz - 1
                     => m[a] = <<"file", (s.offset + a) - s.paddr>>
                  /\ a \in s.paddr + s.filesz .. s.paddr + s.memsz - 1 => m[a] = Zero
BY DEF SegmentRight, FromFile

\* Only the first processor passes the boot block with an empty memory, and it
\* leaves the kernel and the arguments there; nobody writes over them.
LEMMA LoadedInductive ==
  ASSUME PlacesInv, Loaded, NEW c \in Cpu, Step(c) \/ Halt(c)
  PROVE  Loaded'
<1>1. image' = image /\ image \in Image /\ mem \in Memory
  BY DEF PlacesInv, TypeOK, Memory, Step, LoadKernel, Start64, StartC, BootCpu, InitGdt,
         InitLapic, InitIrq, Prepare, MpeInit, BootAp, WaitReady, AllStarted, Ready, Reset, Jump,
         StopOther, Stopped, PowerOff, Halt
<1>2. \A i \in DOMAIN image : image[i] \in Segment
  BY <1>1, ImageAssumption
<1>3. ASSUME \A i \in DOMAIN image : SegmentRight(mem', image[i]), ArgsRight(mem')
      PROVE  Loaded'
  BY <1>1, <1>2, <1>3, LoadedIs DEF Loaded, ArgsRight
<1>4. CASE LoadKernel(c) /\ c = 0
  <2>1. mem' = LoadElf(LoadArgs(mem))
    BY <1>4, LoadedOnce DEF LoadKernel
  <2>2. LoadArgs(mem) \in Memory /\ ArgsRight(LoadArgs(mem))
    BY <1>1, ArgsLoaded
  <2>. QED BY <1>1, <1>3, <2>1, <2>2, ElfLoaded
<1>5. CASE ~ (LoadKernel(c) /\ c = 0)
  <2>1. mem' = mem
    <3>1. CASE LoadKernel(c)
      BY <1>5, <3>1, LoadedOnce DEF LoadKernel
    <3>2. CASE ~ LoadKernel(c)
      BY <3>2 DEF Step, Start64, StartC, BootCpu, InitGdt, InitLapic, InitIrq, Prepare, MpeInit,
                  BootAp, WaitReady, AllStarted, Ready, Reset, Jump, StopOther, Stopped,
                  PowerOff, Halt
    <3>. QED BY <3>1, <3>2
  <2>2. pc[0] # "bootblock"
    <3> SUFFICES ASSUME pc[0] = "bootblock" PROVE FALSE
      OBVIOUS
    <3>1. ~ ipi[c] /\ pc[c] = IF c = 0 THEN "bootblock" ELSE "off"
      BY DEF PlacesInv, EarlyInv, Booting, Ap
    <3>2. ~ LoadKernel(c)
      BY <1>5, <3>1 DEF LoadKernel, Goto
    <3>. QED BY <3>1, <3>2 DEF Step, Start64, StartC, BootCpu, InitGdt, InitLapic, InitIrq,
                               Prepare, MpeInit, BootAp, WaitReady, AllStarted, Ready, Reset,
                               Jump, StopOther, Stopped, PowerOff, Halt, Goto
  <2>3. (\A i \in DOMAIN image : SegmentRight(mem, image[i])) /\ ArgsRight(mem)
    BY <1>2, <2>2, LoadedIs DEF Loaded, ArgsRight
  <2>. QED BY <1>3, <2>1, <2>3
<1>. QED BY <1>4, <1>5

\* Every step keeps the invariant.
THEOREM Inductive == IInv /\ [Next]_vars => IInv'
<1> SUFFICES ASSUME IInv, [Next]_vars PROVE IInv'
  OBVIOUS
<1>1. CASE Next
  BY <1>1, PlacesInductive, LoadedInductive DEF IInv, Next
<1>2. CASE UNCHANGED vars
  BY <1>2 DEF vars, IInv, PlacesInv, TypeOK, EarlyInv, FirstInv, BehindInv, OtherInv, HaltInv,
              OrderInv, AloneInv, Coming, Loaded
<1>. QED BY <1>1, <1>2

\* The invariant says what BootSafe promises.
LEMMA InvariantSafe == IInv => BootSafe
<1> SUFFICES ASSUME IInv PROVE BootSafe
  OBVIOUS
<1> USE BootAssumption DEF IInv, PlacesInv, Cpu, Ap
<1>1. BootAlone
  <2> DEFINE B == {c \in Cpu : pc[c] \in Booting}
  <2>1. ASSUME NEW c \in B, NEW d \in B PROVE c = d
    <3>1. CASE c # 0 /\ d # 0
      BY <3>1 DEF AloneInv, Coming
    <3>2. CASE pc[0] \in Booting
      BY <3>2 DEF EarlyInv, Booting
    <3>. QED BY <3>1, <3>2
  <2>2. CASE B = {}
    BY <2>2, FS_EmptySet DEF BootAlone
  <2>3. ASSUME NEW c \in B PROVE Cardinality(B) <= 1
    <3>1. B = {c}
      BY <2>1
    <3>2. Cardinality({c}) = 1
      BY FS_Singleton
    <3> HIDE DEF B
    <3>. QED BY <3>1, <3>2
  <2>. QED BY <2>2, <2>3 DEF BootAlone
<1>2. EntryKnown
  <2>1. ASSUME NEW c \in Cpu, pc[c] = "user"
        PROVE  kernel.entry /\ tables /\ percpu[c] = Prepared
    <3>1. kernel.entry
      BY <2>1 DEF FirstInv, OtherInv
    <3>. QED BY <2>1, <3>1 DEF BehindInv
  <2>2. ASSUME pc[0] = "user", halts = {}, NEW c \in Cpu PROVE pc[c] = "user"
    BY <2>2 DEF OrderInv
  <2>. QED BY <2>1, <2>2 DEF EntryKnown
<1>3. StaysStopped
  BY DEF StaysStopped, HaltInv
<1>. QED BY <1>1, <1>2, <1>3 DEF BootSafe

\* The invariant holds of every behaviour.
THEOREM Invariant == Spec => []IInv
<1>. QED BY Initial, Inductive, PTL DEF Spec

\* What the boot code promises, for any number of processors and any kernel:
\* one processor at a time on the boot stack, user_entry known and the tables
\* ready before a processor calls it, the whole kernel and its arguments in
\* memory, and a stopped processor does not boot again.
THEOREM Safe == Spec => []BootSafe
<1>. QED BY Invariant, InvariantSafe, PTL
================================================================================
