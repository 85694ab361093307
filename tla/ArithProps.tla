----------------------------- MODULE ArithProps -----------------------------
(***************************************************************************)
(* WordArith against reference definitions.  The reference of a product or *)
(* a quotient is integer arithmetic; the reference of a partial memory     *)
(* access is the sequence of bytes.                                        *)
(***************************************************************************)
EXTENDS WordArith, Sequences

CONSTANTS Operands2, Operands3,     \* what the second and third operand range over
          Offsets                  \* byte offsets into a word

ASSUME OperandsAssumption == /\ Operands2 \subseteq Words /\ Operands3 \subseteq Words
                             /\ Offsets \subseteq 0..3

VARIABLES x, y, z, k               \* three operands and a byte offset

vars == <<x, y, z, k>>

Init == x \in Words /\ y \in Operands2 /\ z \in Operands3 /\ k \in Offsets

\* The four operands are inputs: nothing changes them.
Next == UNCHANGED vars

Spec == Init /\ [][Next]_vars

-----------------------------------------------------------------------------
Wide(p) == p[1] * Mod + p[2]
Least == Mod \div 2                \* the most negative word

\* func_multu returns the double-word product of its operands, func_mult the
\* signed one, save for the most negative word, whose magnitude the mask
\* 0x7fffffff turns into zero.
ProductsExact ==
    /\ Wide(MultuHiLo(x, y)) = x * y
    /\ x # Least /\ y # Least =>
         Wide(MultHiLo(x, y)) = (Signed(x) * Signed(y)) % (Mod * Mod)

\* The low half of the product is right for every operand, as the comments
\* "bottom 32 bits" of func_mult say.
MultBottomBits == MultHiLo(x, y)[2] = (Signed(x) * Signed(y)) % Mod

\* func_div and func_divu: the remainder has the sign of the dividend, is
\* smaller than the divisor, and completes the quotient to the dividend.
Abs(n) == IF n < 0 THEN -n ELSE n
DivExact ==
    y # 0 =>
        /\ LET p == DivHiLo("divu", x, y)
           IN x = p[2] * y + p[1] /\ p[1] < y
        /\ ~(x = Least /\ y = Mod - 1) =>
             LET p == DivHiLo("div", x, y)
                 r == Signed(p[1])
             IN /\ Signed(x) = Signed(p[2]) * Signed(y) + r
                /\ Abs(r) < Abs(Signed(y))
                /\ r # 0 => (r < 0 <=> Signed(x) < 0)

-----------------------------------------------------------------------------
Bytes(w) == [i \in 1 .. 4 |-> (w \div Power(4 - i)) % Radix]

\* The words at addresses 0 and 4 are x and y; z is a register; the access
\* starts at byte k.
Memory == Bytes(x) \o Bytes(y)

\* lwl at the first byte and lwr at the last one load the unaligned word,
\* whatever the register held before; swl and swr store it and leave the
\* other bytes alone (exec_helper.cc:1249-1327).
UnalignedExact ==
    LET left  == LoadResult("lwl", x, k, z)
        whole == LoadResult("lwr", IF k = 0 THEN x ELSE y, k + 3, left)
        w0 == StoreResult("swl", x, k, z)
        v0 == IF k = 0 THEN StoreResult("swr", w0, 3, z) ELSE w0
        v1 == IF k = 0 THEN y ELSE StoreResult("swr", y, k + 3, z)
    IN /\ Bytes(whole) = SubSeq(Memory, k + 1, k + 4)
       /\ Bytes(v0) \o Bytes(v1) =
            [i \in 1 .. 8 |-> IF i \in k + 1 .. k + 4 THEN Bytes(z)[i - k] ELSE Memory[i]]

\* A byte or half word that was stored is loaded again, sign- or zero-extended,
\* and its neighbours keep their value.
PartialRoundTrip ==
    LET b == StoreResult("sb", x, k, z)
        h == StoreResult("sh", x, k, z)
        low(n) == z % n
    IN /\ LoadResult("lbu", b, k, y) = low(Radix)
       /\ LoadResult("lhu", h, k, y) = low(Power(2))
       /\ Signed(LoadResult("lb", b, k, y)) % Radix = low(Radix)
       /\ LoadResult("lb", b, k, y) >= Least <=> low(Radix) >= Radix \div 2
       /\ LoadResult("lh", h, k, y) >= Least <=> low(Power(2)) >= Power(2) \div 2
       /\ \A i \in 1 .. 4 :
            /\ i # k + 1 => Bytes(b)[i] = Bytes(x)[i]
            /\ (i - 1) \div 2 # k \div 2 => Bytes(h)[i] = Bytes(x)[i]
=============================================================================
