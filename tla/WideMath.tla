------------------------------ MODULE WideMath ------------------------------
(* Arithmetic on double words where the processor has only words, as the     *)
(* compiler calls it: klib/src/int64.c for machines of 32 bits, and          *)
(* am/src/riscv/npc/libgcc (div.S, muldi3.S, multi3.c, ashldi3.c) for a      *)
(* processor that neither multiplies nor divides.                            *)
(*                                                                           *)
(* A word has W bits, 32 in the code, and a double word 2 * W.  A number is  *)
(* its residue, for signed types as for unsigned ones.  Bits that do not     *)
(* overlap are or-ed by an addition.                                         *)
EXTENDS Integers

CONSTANT W

ASSUME WAssumption == \E k \in 1..5 : W = 2^k

Word == 2^W
Double == 2^(2 * W)

High(x) == x \div Word
Low(x) == x % Word
Join(high, low) == high * Word + low

\* x << n and x >> n in a word and in a double word.
Shl(x, n) == (x * 2^n) % Word
Shr(x, n) == x \div 2^n
Shl2(x, n) == (x * 2^n) % Double

Negative(x) == x >= Double \div 2
Negate(x) == (Double - x) % Double
Magnitude(x) == IF Negative(x) THEN Negate(x) ELSE x

PowerOfTwo(x) == \E k \in 0..(W - 1) : x = 2^k

-----------------------------------------------------------------------------
(* int64.c                                                                   *)

\* __clzsi2 and __ctzsi2 in the w low bits of x: the half that has no bit
\* set is skipped, down to two bits.
RECURSIVE Clz(_, _), Ctz(_, _)
Clz(x, w) ==
  IF w = 2
    THEN IF x < 2 THEN 2 - x ELSE 0
    ELSE LET t == IF Shr(x, w \div 2) = 0 THEN w \div 2 ELSE 0
         IN t + Clz(Shr(x, w \div 2 - t), w \div 2)
Ctz(x, w) ==
  IF w = 2
    THEN IF x % 2 = 0 THEN 2 - Shr(x % 4, 1) ELSE 0
    ELSE LET t == IF x % 2^(w \div 2) = 0 THEN w \div 2 ELSE 0
         IN t + Ctz(Shr(x, t), w \div 2)

\* __clzdi2 and __ctzdi2
Clz2(x) == IF High(x) = 0 THEN W + Clz(Low(x), W) ELSE Clz(High(x), W)
Ctz2(x) == IF Low(x) = 0 THEN W + Ctz(High(x), W) ELSE Ctz(Low(x), W)

\* The quotient and the rest before the loop: n << (2 * W - sr) and n >> sr,
\* put together from words.
Begin(n, sr) ==
  IF sr = W
    THEN [q |-> Join(Low(n), 0), r |-> High(n)]
  ELSE IF sr < W
    THEN [q |-> Join(Shl(Low(n), W - sr), 0),
          r |-> Join(Shr(High(n), sr), Shl(High(n), W - sr) + Shr(Low(n), sr))]
    ELSE [q |-> Join(Shl(High(n), 2 * W - sr) + Shr(Low(n), sr - W),
                     Shl(Low(n), 2 * W - sr)),
          r |-> Shr(High(n), sr - W)]

\* One bit of the quotient in each of sr rounds: r:q moves left, and the
\* divisor is taken off when it fits.
RECURSIVE Rounds(_, _, _, _)
Rounds(qr, d, carry, sr) ==
  IF sr = 0
    THEN <<Shl2(qr.q, 1) + carry, qr.r>>
    ELSE LET r == Shl2(qr.r, 1) + Shr(qr.q, 2 * W - 1)
             fits == (d - r - 1) % Double >= Double \div 2
         IN Rounds([q |-> Shl2(qr.q, 1) + carry,
                    r |-> IF fits THEN r - d ELSE r],
                   d, IF fits THEN 1 ELSE 0, sr - 1)

\* A variant for checking the properties: one round too few.
RoundsShort(n, d) ==
  IF High(d) = 0
    THEN 1 + W + Clz(Low(d), W) - Clz(High(n), W)
    ELSE Clz(High(d), W) - Clz(High(n), W)

\* How many rounds; none when the divisor is the larger number.
RoundsFor(n, d) ==
  IF High(d) = 0
    THEN 1 + W + Clz(Low(d), W) - Clz(High(n), W)
    ELSE Clz(High(d), W) - Clz(High(n), W) + 1

\* __udivmoddi4: quotient and rest, d # 0.
UDivMod(n, d) ==
  LET nh == High(n)  nl == Low(n)  dh == High(d)  dl == Low(d)
      most == IF dl = 0 THEN W - 1 ELSE W
  IN IF nh = 0 THEN IF dh = 0 THEN <<nl \div dl, nl % dl>> ELSE <<0, nl>>
     ELSE IF dl = 0 /\ nl = 0 THEN <<nh \div dh, Join(nh % dh, 0)>>
     ELSE IF dl = 0 /\ PowerOfTwo(dh)
       THEN <<Shr(nh, Ctz(dh, W)), Join(nh % dh, nl)>>
     ELSE IF dh = 0 /\ PowerOfTwo(dl)
       THEN <<IF dl = 1 THEN n
              ELSE Join(Shr(nh, Ctz(dl, W)),
                        Shl(nh, W - Ctz(dl, W)) + Shr(nl, Ctz(dl, W))),
              nl % dl>>
     ELSE IF dh # 0 /\ RoundsFor(n, d) \notin 1..most THEN <<0, n>>
     ELSE Rounds(Begin(n, RoundsFor(n, d)), d, 0, RoundsFor(n, d))

\* __udivdi3 and __umoddi3
UDiv(a, b) == UDivMod(a, b)[1]
UMod(a, b) == UDivMod(a, b)[2]

\* __divdi3 and __moddi3, of which __divmoddi4 is made
Div(a, b) ==
  LET q == UDivMod(Magnitude(a), Magnitude(b))[1]
  IN IF Negative(a) = Negative(b) THEN q ELSE Negate(q)
Mod(a, b) ==
  LET r == UDivMod(Magnitude(a), Magnitude(b))[2]
  IN IF Negative(a) THEN Negate(r) ELSE r
DivMod(a, b) == <<Div(a, b), (a - Div(a, b) * b) % Double>>

-----------------------------------------------------------------------------
(* libgcc for the processor without multiplication and division.             *)

\* Labels .L1 of __udivdi3: the divisor and its bit move left until the
\* divisor covers the dividend or has reached the sign.
RECURSIVE Align(_, _, _)
Align(n, d, bit) ==
  IF d = 0 \/ Negative(d) THEN <<d, bit>>
  ELSE IF n > 2 * d THEN Align(n, 2 * d, 2 * bit) ELSE <<2 * d, 2 * bit>>

\* Label .L3: they move right again, and the divisor is taken off.
RECURSIVE Subtract(_, _, _, _)
Subtract(n, d, bit, q) ==
  LET fits == n >= d
      n2 == IF fits THEN n - d ELSE n
      q2 == IF fits THEN q + bit ELSE q
  IN IF bit = 1 THEN <<q2, n2>> ELSE Subtract(n2, d \div 2, bit \div 2, q2)

\* __udivdi3 returns the quotient, and the rest in a1; d = 0 is defined.
RvUDiv(n, d) ==
  IF d = 0 THEN <<Double - 1, n>>
  ELSE LET top == IF d >= n THEN <<d, 1>> ELSE Align(n, d, 1)
       IN Subtract(n, top[1], top[2], 0)

\* __divdi3: zero is handled as a negative divisor.
RvDiv(a, b) ==
  LET positive == b # 0 /\ ~Negative(b)
  IN IF Negative(a)
       THEN IF positive THEN Negate(RvUDiv(Negate(a), b)[1])
                        ELSE RvUDiv(Negate(a), Negate(b))[1]
       ELSE IF Negative(b) THEN Negate(RvUDiv(a, Negate(b))[1])
                           ELSE RvUDiv(a, b)[1]

\* __moddi3
RvMod(a, b) ==
  LET r == RvUDiv(Magnitude(a), Magnitude(b))[2]
  IN IF Negative(a) THEN Negate(r) ELSE r

\* sext.w, and the functions on words of a processor with double words.
Extend(x) == IF Low(x) >= Word \div 2 THEN Join(Word - 1, Low(x)) ELSE Low(x)
RvUDivW(a, b) == Extend(RvUDiv(Shl2(a, W), Shl2(b, W))[1])
RvUModW(a, b) == Extend(RvUDiv(Low(a), Low(b))[2])
RvDivW(a, b) ==
  IF b = Double - 1 /\ a = Double - Word \div 2 THEN a ELSE RvDiv(a, b)

\* __muldi3, modulo m: the bits of b choose multiples of a.
RECURSIVE RvMul(_, _, _)
RvMul(a, b, m) ==
  IF b = 0 THEN 0
  ELSE ((IF b % 2 = 1 THEN a ELSE 0) + RvMul((2 * a) % m, b \div 2, m)) % m

\* The loop of __multi3: u and v are words, wide the high word of u moved
\* left; the product comes as two words.
RECURSIVE WordProduct(_, _, _, _, _)
WordProduct(u, v, wide, low, high) ==
  LET sum == Low(low + u)
      carry == IF sum < low THEN 1 ELSE 0
      takes == v % 2 = 1
      low2 == IF takes THEN sum ELSE low
      high2 == IF takes THEN Low(carry + wide + high) ELSE high
  IN IF v \div 2 = 0
       THEN Join(high2, low2)
       ELSE WordProduct(Shl(u, 1), v \div 2, Shl(wide, 1) + Shr(u, W - 1),
                        low2, high2)

\* __multi3: the two cross products count in the high word only.
Mul(u, v) ==
  LET p == WordProduct(Low(u), Low(v), 0, 0, 0)
  IN Join(Low(High(p) + RvMul(Low(v), High(u), Word)
                      + RvMul(Low(u), High(v), Word)),
          Low(p))

\* __ashldi3
ShiftLeft(u, b) ==
  IF b = 0 THEN u
  ELSE IF b >= W THEN Join(Shl(Low(u), b - W), 0)
  ELSE Join(Low(Shl(High(u), b) + Shr(Low(u), W - b)), Shl(Low(u), b))
=============================================================================
