-------------------------------- MODULE Klib --------------------------------
(* klib: the strings, conversions and wide arithmetic that the programs on   *)
(* the abstract machine are linked with.  Every function is an operator; a   *)
(* step calls one of them with inputs from small sets and keeps what it got  *)
(* in "call", which the properties compare with what the C library promises. *)
(*                                                                           *)
(* Memory is an array of characters; a character is signed, as on x86, and   *)
(* 0 ends a string.  An int has IntBits bits.                                *)
EXTENDS WideMath, Sequences, FiniteSets

CONSTANTS
  MemSize,      \* characters of memory
  CharCount,    \* a character is a residue below CharCount
  IntBits       \* the width of an int

ASSUME KlibAssumption ==
  /\ MemSize \in Nat \ {0}
  /\ \E k \in 1..8 : CharCount = 2^k
  /\ IntBits \in 5..30

VARIABLE call   \* the last call: its name, its arguments, what it returned
vars == <<call>>

Address == 0..(MemSize - 1)
Memory == [Address -> 0..(CharCount - 1)]
Ints == 0..(2^IntBits - 1)

Signed(x, count) == IF x >= count \div 2 THEN x - count ELSE x

\* Stands for the result of a loop that does not end.
Spins == 2

-----------------------------------------------------------------------------
(* string.c                                                                  *)

IsString(m, s) == \E i \in Address : i >= s /\ m[i] = 0

Strlen(m, s) ==
  (CHOOSE e \in Address : e >= s /\ m[e] = 0 /\ \A i \in s..(e - 1) : m[i] # 0) - s

\* The loop of strncpy, and of strcpy, which has no bound: the length of the
\* source is taken anew before every character.
RECURSIVE CopyFrom(_, _, _, _, _)
CopyFrom(m, dst, src, n, i) ==
  IF i < Strlen(m, src) /\ i < n
    THEN CopyFrom([m EXCEPT ![dst + i] = m[src + i]], dst, src, n, i + 1)
    ELSE [m EXCEPT ![dst + i] = 0]

Strncpy(m, dst, src, n) == CopyFrom(m, dst, src, n, 0)
Strcpy(m, dst, src) == CopyFrom(m, dst, src, MemSize, 0)
Strcat(m, dst, src) == Strcpy(m, dst + Strlen(m, dst), src)

Compared(a, b) ==
  LET x == Signed(a, CharCount)  y == Signed(b, CharCount)
  IN IF x > y THEN 1 ELSE IF x < y THEN -1 ELSE 0

\* Nothing moves the index of strcmp and strncmp: they return when the first
\* characters differ, or n is 0.
Strcmp(m, s1, s2) ==
  IF Compared(m[s1], m[s2]) # 0 THEN Compared(m[s1], m[s2]) ELSE Spins
Strncmp(m, s1, s2, n) == IF n = 0 THEN 0 ELSE Strcmp(m, s1, s2)

Memset(m, s, c, n) == [i \in Address |-> IF i \in s..(s + n - 1) THEN c ELSE m[i]]

\* The unsigned index of the first loop of memmove is never negative, and the
\* second loop runs while 0 < 0.  memcpy is memmove.
Memmove(m, dst, src, n) == IF dst > src THEN Spins ELSE m

Memcmp(m, s1, s2, n) ==
  LET differ == {i \in 0..(n - 1) : m[s1 + i] # m[s2 + i]}
      first == CHOOSE i \in differ : \A j \in differ : i <= j
  IN IF differ = {} THEN 0 ELSE Compared(m[s1 + first], m[s2 + first])

-----------------------------------------------------------------------------
(* stdio.c and stdlib.c                                                      *)

num == <<"0", "1", "2", "3", "4", "5", "6", "7",
         "8", "9", "a", "b", "c", "d", "e", "f">>
DigitOf(c) == CHOOSE d \in 0..15 : num[d + 1] = c

\* The digits of n, the last remainder first, as putnum's stack gives them.
RECURSIVE Digits(_, _)
Digits(n, base) ==
  IF n = 0 THEN <<>> ELSE Append(Digits(n \div base, base), num[1 + (n % base)])

\* A variant for checking the properties: 0 has no digits.
PutNumNoZero(type, n) ==
  IF type = "HEX" THEN <<"0x">> \o Digits(n, 16)
  ELSE IF n >= 2^(IntBits - 1) THEN <<"-">> \o Digits(2^IntBits - n, 10)
  ELSE Digits(n, 10)

\* putnum: what it hands to putch.  -(int)n of the smallest int is itself.
PutNum(type, n) ==
  IF type = "HEX" THEN <<"0x">> \o Digits(n, 16)
  ELSE IF n = 0 THEN <<"0">>
  ELSE IF n >= 2^(IntBits - 1) THEN <<"-">> \o Digits(2^IntBits - n, 10)
  ELSE Digits(n, 10)

\* printf: a format is a sequence of conversions and other characters.  A
\* pointer is cut down to an unsigned int.
RECURSIVE Printf(_, _)
Printf(fmt, args) ==
  IF fmt = <<>> THEN <<>>
  ELSE CASE Head(fmt) = "%d" -> PutNum("DEC", Head(args)) \o Printf(Tail(fmt), Tail(args))
         [] Head(fmt) \in {"%x", "%p"} ->
              PutNum("HEX", Head(args) % 2^IntBits) \o Printf(Tail(fmt), Tail(args))
         [] Head(fmt) \in {"%c", "%s"} -> <<Head(args)>> \o Printf(Tail(fmt), Tail(args))
         [] Head(fmt) = "%?" -> <<"panic">>
         [] OTHER -> <<Head(fmt)>> \o Printf(Tail(fmt), args)

\* atoi: no sign.  The value is kept modulo the width of an int.
RECURSIVE Atoi(_, _)
Atoi(str, x) ==
  IF str # <<>> /\ Head(str) = " " THEN Atoi(Tail(str), x)
  ELSE LET end == {i \in 1..Len(str) : \A d \in 1..10 : str[i] # num[d]}
           n == IF end = {} THEN Len(str)
                ELSE (CHOOSE i \in end : \A j \in end : i <= j) - 1
           value[i \in 0..n] ==
             IF i = 0 THEN x ELSE (10 * value[i - 1] + DigitOf(str[i])) % 2^IntBits
       IN value[n]

Abs(x) == IF Signed(x, 2^IntBits) < 0 THEN (2^IntBits - x) % 2^IntBits ELSE x

-----------------------------------------------------------------------------
(* Calls                                                                     *)

Init == call = [name |-> "none"]

\* A dividend first, then the calls that divide it: the work of the second
\* step is shared out among the workers of the model checker.
Dividend ==
  /\ call.name = "none"
  /\ \E a \in 0..(Double - 1) : call' = [name |-> "dividend", a |-> a]

Arithmetic ==
  /\ call.name = "dividend"
  /\ \E b \in 0..(Double - 1) :
       call' = [name |-> "arithmetic", a |-> call.a, b |-> b,
                udivmod |-> IF b = 0 THEN <<0, 0>> ELSE <<UDiv(call.a, b), UMod(call.a, b)>>,
                div |-> IF b = 0 THEN 0 ELSE Div(call.a, b),
                mod |-> IF b = 0 THEN 0 ELSE Mod(call.a, b),
                rvudiv |-> RvUDiv(call.a, b),
                rvdiv |-> RvDiv(call.a, b),
                rvmod |-> RvMod(call.a, b),
                rvmul |-> RvMul(call.a, b, Double),
                mul |-> Mul(call.a, b)]

Words ==
  /\ call.name = "dividend"
  /\ \E b \in 0..(Word - 1) :
       LET x == Extend(call.a)  y == Extend(b)
       IN call' = [name |-> "words", a |-> call.a, b |-> b,
                   clz |-> Clz2(call.a), ctz |-> Ctz2(call.a),
                   shift |-> IF b < 2 * W THEN ShiftLeft(call.a, b) ELSE 0,
                   udivw |-> RvUDivW(x, y),
                   umodw |-> RvUModW(x, y),
                   divw |-> RvDivW(x, y)]

\* What the C library asks of a caller: the strings end, what is written has
\* room, and the strings of a copy do not overlap.
Strings ==
  /\ call.name = "none"
  /\ \E m \in Memory, dst \in Address, src \in Address :
       /\ IsString(m, src)
       /\ \E n \in 0..MemSize :
            /\ dst + Strlen(m, src) < src \/ src + Strlen(m, src) < dst
            /\ dst + n < src \/ src + Strlen(m, src) < dst
            /\ dst + Strlen(m, src) < MemSize /\ dst + n < MemSize
            /\ call' = [name |-> "copy", m |-> m, dst |-> dst, src |-> src, n |-> n,
                        strcpy |-> Strcpy(m, dst, src),
                        strncpy |-> Strncpy(m, dst, src, n)]

Concatenate ==
  /\ call.name = "none"
  /\ \E m \in Memory, dst \in Address, src \in Address :
       /\ IsString(m, src) /\ IsString(m, dst)
       /\ LET last == dst + Strlen(m, dst) + Strlen(m, src)
          IN last < MemSize /\ (last < src \/ src + Strlen(m, src) < dst)
       /\ call' = [name |-> "strcat", m |-> m, dst |-> dst, src |-> src,
                   strcat |-> Strcat(m, dst, src)]

Blocks ==
  /\ call.name = "none"
  /\ \E m \in Memory, s1 \in Address, s2 \in Address, n \in 0..MemSize :
       /\ s1 + n <= MemSize /\ s2 + n <= MemSize
       /\ call' = [name |-> "blocks", m |-> m, s1 |-> s1, s2 |-> s2, n |-> n,
                   memset |-> Memset(m, s1, m[s2], n),
                   memcmp |-> Memcmp(m, s1, s2, n),
                   memmove |-> Memmove(m, s1, s2, n),
                   strcmp |-> Strcmp(m, s1, s2),
                   strncmp |-> Strncmp(m, s1, s2, n)]

Numbers ==
  /\ call.name = "none"
  /\ \E n \in Ints :
       call' = [name |-> "numbers", n |-> n,
                dec |-> Printf(<<"%d">>, <<n>>), hex |-> Printf(<<"%p">>, <<n>>),
                text |-> Printf(<<" ", "%d", ",", "%s", "%?", "%d">>, <<n, "s", n>>),
                abs |-> Abs(n)]

Next == Dividend \/ Arithmetic \/ Words \/ Strings \/ Concatenate \/ Blocks \/ Numbers

Spec == Init /\ [][Next]_vars

-----------------------------------------------------------------------------
(* Properties                                                                *)

\* Division of signed numbers rounds towards zero.
TruncDiv(a, b) ==
  LET q == Magnitude(a) \div Magnitude(b)
  IN IF Negative(a) = Negative(b) THEN q % Double ELSE Negate(q % Double)

\* The double words that int64.c and libgcc compute from words are those of
\* the arithmetic modulo 2^(2W): the quotient and the rest of every pair, with
\* and without a sign, through every special case of __udivmoddi4 and every
\* alignment of the divisor; dividing by zero gives libgcc's caller all ones
\* and the dividend, as the processor with a divider does.
WideMathRight ==
  /\ call.name = "arithmetic" =>
       LET a == call.a  b == call.b
       IN /\ call.rvmul = (a * b) % Double
          /\ call.mul = call.rvmul
          /\ IF b = 0
               THEN call.rvudiv = <<Double - 1, a>> /\ call.rvdiv = Double - 1 /\ call.rvmod = a
               ELSE /\ call.udivmod = <<a \div b, a % b>>
                    /\ call.rvudiv = call.udivmod
                    /\ call.div = TruncDiv(a, b)
                    /\ call.rvdiv = call.div
                    /\ call.mod = (a - TruncDiv(a, b) * b) % Double
                    /\ call.rvmod = call.mod
  /\ call.name = "words" =>
       LET x == Low(call.a)  y == call.b
       IN /\ y < 2 * W => call.shift = Shl2(call.a, y)
          /\ call.a # 0 =>
               /\ call.a \in 2^(2 * W - 1 - call.clz)..(2^(2 * W - call.clz) - 1)
               /\ call.a % 2^call.ctz = 0 /\ (call.a \div 2^call.ctz) % 2 = 1
          /\ y # 0 =>
               /\ call.udivw = Extend(x \div y)
               /\ call.umodw = Extend(x % y)
               /\ Low(call.divw) = Low(TruncDiv(Extend(x), Extend(y)))

\* The value that a sequence of digits stands for.
ValueOf(s, base) ==
  LET value[i \in 0..Len(s)] == IF i = 0 THEN 0 ELSE base * value[i - 1] + DigitOf(s[i])
  IN value[Len(s)]

\* What string.c, stdio.c and stdlib.c leave behind is what the C library
\* promises, wherever their loops end: copies are the characters of the
\* source and one terminator and change nothing else, comparisons have the
\* sign of the first difference, and atoi and the reader of lab1's trace get
\* back the number that printf was given.  What the code does not do right is
\* left out by name: memmove, strings that begin alike in strcmp, bytes above
\* the signed range, the terminator and the missing padding of strncpy, the
\* hexadecimal 0, and a sign in atoi.
KlibRight ==
  /\ call.name = "copy" =>
       LET m == call.m  dst == call.dst  length == Strlen(m, call.src)
           Copy(n) == [i \in Address |->
                         IF i \in dst..(dst + n - 1) THEN m[call.src + i - dst]
                         ELSE IF i = dst + n THEN 0 ELSE m[i]]
       IN /\ call.strcpy = Copy(length)
          /\ call.strncpy = Copy(IF call.n < length THEN call.n ELSE length)
  /\ call.name = "strcat" =>
       LET m == call.m  l1 == Strlen(m, call.dst)  l2 == Strlen(m, call.src)
       IN /\ Strlen(call.strcat, call.dst) = l1 + l2
          /\ \A i \in 0..(l1 - 1) : call.strcat[call.dst + i] = m[call.dst + i]
          /\ \A i \in 0..l2 : call.strcat[call.dst + l1 + i] = m[call.src + i]
          /\ \A i \in Address \ (call.dst..(call.dst + l1 + l2)) : call.strcat[i] = m[i]
  /\ call.name = "blocks" =>
       LET m == call.m  n == call.n  s1 == call.s1  s2 == call.s2
           Ascii == \A i \in Address : m[i] < CharCount \div 2
           SignOf(i) == IF m[s1 + i] > m[s2 + i] THEN 1 ELSE -1
           Same(i) == \A j \in 0..(i - 1) : m[s1 + j] = m[s2 + j]
       IN /\ \A i \in Address :
               call.memset[i] = IF i - s1 \in 0..(n - 1) THEN m[s2] ELSE m[i]
          /\ (call.memcmp = 0) = Same(n)
          /\ Ascii => \A i \in 0..(n - 1) :
                        Same(i) /\ m[s1 + i] # m[s2 + i] => call.memcmp = SignOf(i)
          /\ Ascii /\ call.strcmp # Spins => call.strcmp = SignOf(0)
          /\ Ascii /\ call.strncmp # Spins => n = 0 \/ call.strncmp = SignOf(0)
  /\ call.name = "numbers" =>
       LET n == call.n
       IN /\ n < 2^(IntBits - 1) => Atoi(<<" ">> \o call.dec, 0) = n /\ call.abs = n
          /\ n >= 2^(IntBits - 1) =>
               /\ Head(call.dec) = "-"
               /\ ValueOf(Tail(call.dec), 10) = 2^IntBits - n
               /\ call.abs = 2^IntBits - n
          /\ call.dec # <<>> /\ (call.dec[1] = "0" => n = 0)
          /\ ValueOf(Tail(call.hex), 16) = n
          /\ call.text = <<" ">> \o call.dec \o <<",", "s", "panic">>
=============================================================================
