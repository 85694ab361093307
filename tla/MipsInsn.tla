------------------------------ MODULE MipsInsn ------------------------------
(***************************************************************************)
(* The decode table of the MIPS pipeline simulator: which registers an     *)
(* instruction reads and writes and which control signals DE::Dec raises   *)
(* for it (src/cpus/sync/mips-fast/exec_helper.cc).  In the program every  *)
(* control signal is a field of the latch that carries the instruction; it *)
(* is a function of the instruction word alone, so here it is an operator  *)
(* on instructions and the latches carry the instruction.                  *)
(*                                                                         *)
(* An instruction is a record with the fields of the encoding: op, rs, rt, *)
(* rd and imm.  imm stands for the immediate, the shift amount, the branch *)
(* offset or the jump target, already extended the way its handler does.   *)
(* Code addresses are counted in instructions, so pc+4 reads pc+1 here.    *)
(* What the arithmetic computes is a parameter (see MipsArith).            *)
(***************************************************************************)
EXTENDS Integers

CONSTANTS
    M,                  \* number of words: 2^32 in the program
    Reg,                \* register numbers of both files: 0 .. 31 in the program
    Alu(_, _, _, _),    \* op, source 1, source 2, shift amount -> result
    MulDiv(_, _, _),    \* op, source 1, source 2 -> <<hi, lo>>
    Taken(_, _, _),     \* op, source 1, source 2 -> is the branch taken
    Load(_, _, _, _),   \* op, memory word, address, old register -> result
    Store(_, _, _, _),  \* op, memory word, address, register -> memory word
    SysRet(_, _),       \* v0, a0 -> what an emulated system call returns
    SysFails(_, _),     \* v0, a0 -> does it report an error
    SysStores(_),       \* v0 -> does the call write the simulated memory
    SysQuits(_)         \* v0 -> does the call end the simulation

LO == 32                \* register numbers of the bypass logic, mips.h
HI == 33
HI_LO == 35
V0 == 2                 \* system call number and result
A0 == 4                 \* first argument
A3 == 7                 \* error flag of a system call
RA == 31                \* link register

Word == 0 .. M - 1
One(p) == IF p THEN 1 ELSE 0
MemAddr == {a \in Word : a % 4 = 0}

(***************************************************************************)
(* Instruction classes.  Instructions the decoder and the pipeline cannot  *)
(* tell apart (addu and add, subu and sub) share a name.                   *)
(***************************************************************************)
AluR == {"add", "sub", "and", "or", "xor", "nor", "slt", "sltu",
         "sll", "srl", "sra", "sllv", "srlv", "srav"}
AluI == {"addi", "andi", "ori", "xori", "slti", "sltiu", "lui"}
MulDivOps == {"mult", "multu", "div", "divu"}
CondBranch2 == {"beq", "bne"}
CondBranchLink == {"bgezal", "bltzal"}
CondBranch1 == {"bgez", "bltz", "bgtz", "blez"} \cup CondBranchLink
Jumps == {"j", "jal", "jr", "jalr"}
IntLoads == {"lb", "lbu", "lh", "lhu", "lw"}
SubregLoads == {"lwl", "lwr"}
LoadOps == IntLoads \cup SubregLoads \cup {"lwc1"}
StoreOps == {"sb", "sh", "swl", "sw", "swr", "swc1"}
CondOps == CondBranch2 \cup CondBranch1
SpecialOnly == {"mfhi", "mflo", "mthi", "mtlo", "jr", "jalr", "break", "syscall"}
Ops == AluR \cup AluI \cup MulDivOps \cup CondOps \cup Jumps \cup LoadOps
         \cup StoreOps \cup SpecialOnly \cup {"mtc1", "mfc1", "illegal"}

Insn == [op : Ops, rs : Reg, rt : Reg, rd : Reg, imm : Word]

\* The instruction word 0 (sll $0,$0,0), which the stages use as a bubble.
Nop == [op |-> "sll", rs |-> 0, rt |-> 0, rd |-> 0, imm |-> 0]

ASSUME ConstantsOK ==
    /\ M \in Nat \ {0}
    /\ M % 4 = 0
    /\ {0, V0, A0, A3, RA} \subseteq Reg
    /\ Reg \subseteq 0 .. 31

ASSUME ArithmeticOK ==
    /\ \A op \in AluR \cup AluI, a, b, sa \in Word : Alu(op, a, b, sa) \in Word
    /\ \A op \in MulDivOps, a, b \in Word : MulDiv(op, a, b) \in Word \X Word
    /\ \A op \in CondOps, a, b \in Word : Taken(op, a, b) \in BOOLEAN
    /\ \A op \in LoadOps \cup StoreOps, w, a, r \in Word :
            Load(op, w, a, r) \in Word /\ Store(op, w, a, r) \in Word
    /\ \A v, a \in Word : SysRet(v, a) \in Word /\ SysFails(v, a) \in BOOLEAN
    /\ \A v \in Word : SysStores(v) \in BOOLEAN /\ SysQuits(v) \in BOOLEAN

-----------------------------------------------------------------------------
\* The registers after UNIX_RETURN: the result, or errno, and the error flag.
\* A call that ends the simulation returns nothing.
AfterCall(r, v0, a0) ==
    IF SysQuits(v0) THEN r
    ELSE [r EXCEPT ![V0] = SysRet(v0, a0), ![A3] = One(SysFails(v0, a0))]

(***************************************************************************)
(* Control signals set by DE::Dec.                                         *)
(***************************************************************************)
MemControl(i) == i.op \in LoadOps \cup StoreOps
WriteREG(i) == i.op \in AluR \cup AluI \cup IntLoads \cup SubregLoads
                  \cup CondBranchLink \cup {"mfhi", "mflo", "jal", "jalr", "mfc1"}
WriteFREG(i) == i.op \in {"lwc1", "mtc1"}
HiWPort(i) == i.op \in MulDivOps \cup {"mthi"}
LoWPort(i) == i.op \in MulDivOps \cup {"mtlo"}
IsSyscall(i) == i.op = "syscall"
IsIllegalOp(i) == i.op = "illegal"
IsStore(i) == i.op \in StoreOps

\* rs_num and rt_num: the registers the bypass and interlock logic compares.
\* Zero means none.  A store's data register is not among them: MEM reads it.
RsNum(i) == CASE i.op = "mfhi" -> HI
              [] i.op = "mflo" -> LO
              [] i.op = "mtc1" -> i.rt
              [] i.op \in {"lui", "j", "jal", "mfc1"} -> 0
              [] OTHER -> i.rs

RtNum(i) ==
    IF i.op \in AluR \cup MulDivOps \cup CondBranch2 \cup SubregLoads
                  \cup (SpecialOnly \ {"mfhi", "mflo"}) \cup {"illegal"}
    THEN i.rt ELSE 0

\* _decodedDST, with the fix-ups Decode::MainLoop applies to HI and LO.
DecodedDST(i) ==
    CASE i.op \in MulDivOps -> HI_LO
      [] i.op = "mthi" -> HI
      [] i.op = "mtlo" -> LO
      [] i.op \in AluR \cup (SpecialOnly \ {"mthi", "mtlo"}) \cup {"mtc1"} -> i.rd
      [] i.op \in CondBranchLink \cup {"jal"} -> RA
      [] i.op \in AluI \cup LoadOps \cup StoreOps \cup {"mfc1"} -> i.rt
      [] OTHER -> 0

\* _btgt: pc-relative for branches, absolute for j and jal; jr and jalr take
\* it from their source operand in EM::func_jr and EM::func_jalr.
TargetUnwrapped(i, pc, src1) ==
    IF i.op \in CondOps THEN pc + 1 + i.imm + M
    ELSE IF i.op \in {"j", "jal"} THEN i.imm ELSE src1
BranchTarget(i, pc, src1) ==
    CASE i.op \in CondOps -> (pc + 1 + i.imm) % M
      [] i.op \in {"j", "jal"} -> i.imm
      [] i.op \in {"jr", "jalr"} -> src1
      [] OTHER -> 0

\* EM::func_beq .. EM::func_jal and func_jr: does the instruction redirect
\* the program counter.
Branches(i, src1, src2) ==
    \/ i.op \in Jumps
    \/ i.op \in CondOps /\ Taken(i.op, src1, src2)
=============================================================================
