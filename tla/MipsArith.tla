----------------------------- MODULE MipsArith ------------------------------
(***************************************************************************)
(* What the execute handlers compute bit by bit: shifts, logic,            *)
(* comparisons and branch conditions, EM::func_* of                        *)
(* src/cpus/sync/mips-fast/exec_helper.cc.  A byte has B bits; B = 8 in    *)
(* the program.  Products, quotients and partial words are WordArith's.    *)
(***************************************************************************)
EXTENDS WordArith, Bitwise

CONSTANT B

ASSUME ByteWidth == B \in Nat \ {0} /\ Radix = 2 ^ B

W == 4 * B

\* func_sll .. func_srav; the variable shifts mask the amount to the width.
ShiftLeft(x, s) == (x * 2 ^ (s % W)) % Mod
ShiftRight(x, s) == x \div 2 ^ (s % W)
ShiftRightArith(x, s) == Unsigned(Signed(x) \div 2 ^ (s % W))

AluResult(op, a, b, sa) ==
    CASE op \in {"add", "addi"}   -> Unsigned(a + b)
      [] op = "sub"               -> Unsigned(a - b)
      [] op \in {"and", "andi"}   -> a & b
      [] op \in {"or", "ori"}     -> a | b
      [] op \in {"xor", "xori"}   -> a ^^ b
      [] op = "nor"               -> Mod - 1 - (a | b)
      [] op \in {"slt", "slti"}   -> Bool01(Signed(a) < Signed(b))
      [] op \in {"sltu", "sltiu"} -> Bool01(a < b)
      [] op = "sll"               -> ShiftLeft(b, sa)
      [] op = "srl"               -> ShiftRight(b, sa)
      [] op = "sra"               -> ShiftRightArith(b, sa)
      [] op = "sllv"              -> ShiftLeft(b, a)
      [] op = "srlv"              -> ShiftRight(b, a)
      [] op = "srav"              -> ShiftRightArith(b, a)
      [] op = "lui"               -> (b * 2 ^ (W \div 2)) % Mod

BranchTaken(op, a, b) ==
    CASE op = "beq"               -> a = b
      [] op = "bne"               -> a # b
      [] op \in {"bgez", "bgezal"} -> Signed(a) >= 0
      [] op \in {"bltz", "bltzal"} -> Signed(a) < 0
      [] op = "bgtz"              -> Signed(a) > 0
      [] op = "blez"              -> Signed(a) <= 0
=============================================================================
