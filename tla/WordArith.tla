----------------------------- MODULE WordArith ------------------------------
(***************************************************************************)
(* The hand-made arithmetic on words: products, quotients and partial      *)
(* words of src/cpus/sync/mips-fast/exec_helper.cc, with the big-endian    *)
(* lane selectors of src/lib/mem.h.  A word has four bytes, a byte one of  *)
(* Radix values; Radix = 256 in the program.  To shift by n bytes is to    *)
(* multiply or divide by Power(n), and to mask the low n bytes is the      *)
(* remainder.  Every operation wraps to the width of a word.               *)
(***************************************************************************)
EXTENDS Integers

CONSTANT Radix

ASSUME RadixAssumption == Radix \in Nat \ {0} /\ Radix % 2 = 0

\* Radix to the n, for n in 0..4.
Power(n) == <<1, Radix, Radix * Radix, Radix * (Radix * Radix), (Radix * Radix) * (Radix * Radix)>>[n + 1]
Mod   == Power(4)
Words == 0 .. Mod - 1

Signed(x) == IF x >= Mod \div 2 THEN x - Mod ELSE x
Unsigned(x) == x % Mod
Bool01(p) == IF p THEN 1 ELSE 0

-----------------------------------------------------------------------------
\* The carry out of the middle half words of a product.
H == Power(2)
NoCarry(t1, t2) == 0
MiddleCarry(t1, t2) == ((t1 % H) + (t2 % H)) \div H

\* func_multu: schoolbook product of the two half words of each operand.
MultuHiLo(a, b) ==
    LET t   == (a % H) * (b % H)
        t1  == (a % H) * (b \div H) + t \div H
        t2  == (b % H) * (a \div H)
        lo  == (t % H) + ((t1 + t2) % H) * H
        hi  == (a \div H) * (b \div H) + t1 \div H + t2 \div H
                 + MiddleCarry(t1, t2)
    IN <<hi % Mod, lo % Mod>>

\* The carry into the high word when a double word is negated.
NoNegateCarry(lo) == 0
NegateCarry(lo) == Bool01(lo = 0)

\* func_mult: the magnitude of a negative operand is masked to all but the
\* highest bit.
MultHiLo(a, b) ==
    LET neg(x) == x >= Mod \div 2
        mag(x) == IF neg(x) THEN (Mod - x) % (Mod \div 2) ELSE x
        p      == MultuHiLo(mag(a), mag(b))
        lo     == (Mod - p[2]) % Mod
        hi     == (Mod - 1 - p[1] + NegateCarry(lo)) % Mod
    IN IF neg(a) # neg(b) THEN <<hi, lo>> ELSE p

\* C division truncates toward zero.
Magnitude(x) == IF x < 0 THEN -x ELSE x
Floored(x, y) == IF y > 0 THEN x \div y ELSE -x \div (-y)
Truncated(x, y) ==
    LET q == Magnitude(x) \div Magnitude(y) IN IF (x < 0) # (y < 0) THEN -q ELSE q

\* func_div and func_divu.  A zero divisor leaves the largest positive
\* word in both halves.  (C gives the least word divided by -1 no value, and
\* it traps on the host.)
DivHiLo(op, a, b) ==
    LET x        == IF op = "div" THEN Signed(a) ELSE a
        y        == IF op = "div" THEN Signed(b) ELSE b
        quotient == Truncated(x, y)
    IN IF b = 0 THEN <<Mod \div 2 - 1, Mod \div 2 - 1>>
                ELSE <<Unsigned(x - quotient * y), Unsigned(quotient)>>

MulDivHiLo(op, a, b) ==
    CASE op = "mult"  -> MultHiLo(a, b)
      [] op = "multu" -> MultuHiLo(a, b)
      [] OTHER        -> DivHiLo(op, a, b)

-----------------------------------------------------------------------------
\* BEGetByte, BEGetHalfWord, BESetByte, BESetHalfWord on one word: byte 0 is
\* the most significant one.  A lane has so many values, and lies below so
\* many bytes.
LittleEndianLane(op, addr) ==
    IF op \in {"lb", "lbu", "sb"}
    THEN [values |-> Radix, place |-> Power(addr % 4)]
    ELSE [values |-> Power(2), place |-> Power(2 * ((addr % 4) \div 2))]
Lane(op, addr) == IF op \in {"lb", "lbu", "sb"}
                  THEN [values |-> Radix, place |-> Power(3 - (addr % 4))]
                  ELSE [values |-> Power(2), place |-> Power(2 - 2 * ((addr % 4) \div 2))]
GetLane(l, w) == (w \div l.place) % l.values
SetLane(l, w, v) == w - GetLane(l, w) * l.place + (v % l.values) * l.place
SignExtend(l, v) == IF v >= l.values \div 2 THEN v + Mod - l.values ELSE v

\* 1 << s1: in lwl and swl as many bytes as lie before the address, in lwr
\* and swr as many as lie after it in the word.
Before(addr) == Power(addr % 4)
AfterAndSelf(addr) == Power(4 - (addr % 4))
After(addr) == Power(3 - (addr % 4))

\* mem_lb .. mem_lwc1: the register value after a load of memory word w.
LoadResult(op, w, addr, old) ==
    LET l     == Lane(op, addr)
        left  == Before(addr)
        right == After(addr)
    IN CASE op \in {"lb", "lh"}   -> SignExtend(l, GetLane(l, w))
         [] op \in {"lbu", "lhu"} -> GetLane(l, w)
         [] op = "lwl" -> ((w * left) % Mod) + (old % left)
         [] op = "lwr" -> w \div right + (old - (old % (Mod \div right)))
         [] OTHER      -> w

\* mem_sb .. mem_swc1: the memory word after a store of register value r.
StoreResult(op, w, addr, r) ==
    LET left  == Before(addr)
        right == After(addr)
    IN CASE op \in {"sb", "sh"} -> SetLane(Lane(op, addr), w, r)
         [] op = "swl" -> r \div left + (w - (w % (Mod \div left)))
         [] op = "swr" -> ((r * right) % Mod) + (w % right)
         [] OTHER      -> r
=============================================================================
