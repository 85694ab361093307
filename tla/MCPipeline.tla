----------------------------- MODULE MCPipeline -----------------------------
(***************************************************************************)
(* Instances of Pipeline for TLC: words of four one-bit bytes (16 words,   *)
(* 16 code addresses, 4 memory words), the registers the system call       *)
(* convention names, and every program of a few instructions over an       *)
(* alphabet chosen for one kind of hazard.                                 *)
(***************************************************************************)
EXTENDS PipelineValues, MipsArith, Sequences, TLC

\* A program is Text followed by Tail; the rest of memory is illegal code.
R(op, rd, rs, rt) == [op |-> op, rs |-> rs, rt |-> rt, rd |-> rd, imm |-> 0]
I(op, rt, rs, imm) == [op |-> op, rs |-> rs, rt |-> rt, rd |-> 0, imm |-> imm]
Shift(op, rd, rt, sa) == [op |-> op, rs |-> 0, rt |-> rt, rd |-> rd, imm |-> sa]
Illegal == R("illegal", 0, 0, 0)
Syscall == R("syscall", 0, 0, 0)
ExitCall == <<I("addi", 2, 0, 1), Syscall>>

Image(text, tail) ==
    LET image == text \o tail
    IN [a \in Word |-> IF a < Len(image) THEN image[a + 1] ELSE Illegal]
ProgramsOver(alphabet, n, tail) ==
    {Image(text, tail) : text \in [1 .. n -> alphabet]}

-----------------------------------------------------------------------------
\* Integer producers and consumers one and two apart, with loads, stores and
\* branches that depend on them.
IntegerAlphabet ==
    {R("add", 2, 2, 4), R("sub", 4, 4, 2), I("addi", 2, 4, 3), I("lw", 4, 2, 0),
     I("sw", 4, 2, 0), I("bne", 2, 4, 1), I("jal", 0, 0, 4)}

IntegerPrograms == ProgramsOver(IntegerAlphabet, 4, <<>>)

\* HI and LO: multiply, divide, and the moves from and to them.
HiLoAlphabet ==
    {R("mult", 0, 2, 4), R("divu", 0, 4, 2), R("mfhi", 2, 0, 0), R("mflo", 4, 0, 0),
     R("mthi", 0, 4, 0), R("mtlo", 0, 2, 0), R("add", 2, 2, 4)}

\* Coprocessor 1: moves, loads and stores of one floating-point register.
FpAlphabet ==
    {R("mtc1", 2, 0, 4), R("mfc1", 2, 0, 4), R("mfc1", 2, 0, 2), I("lwc1", 2, 4, 0),
     I("swc1", 2, 4, 4), I("addi", 4, 2, 3), I("lw", 4, 2, 0)}

\* Unprotected pairs (the run hilo_bypass shows the first) stay three apart.
Spaced(p) == \A a \in Word, d \in {1, 2} :
                a + d \in Word => ~Unprotected(p[a], p[a + d])

HiLoPrograms == {p \in ProgramsOver(HiLoAlphabet, 3, <<>>) : Spaced(p)}
FpPrograms   == {p \in ProgramsOver(FpAlphabet, 3, <<>>) : Spaced(p)}
MoveToHi     == {Image(<<R("mthi", 0, 4, 0)>> \o gap \o <<R("mfhi", 2, 0, 0)>>, <<>>) :
                    gap \in {<<>>, <<Nop>>, <<Nop, Nop>>}}

\* Partial words: both halves of an unaligned access, bytes and half words,
\* merged into a register or a memory word that was just written.
PartialAlphabet ==
    {I("lwl", 2, 4, 1), I("lwr", 2, 4, 4), I("swl", 2, 4, 2), I("swr", 2, 4, 5),
     I("sb", 2, 4, 3), I("lh", 2, 4, 2), I("addi", 4, 2, 1)}
PartialPrograms == ProgramsOver(PartialAlphabet, 3, <<>>)
AddPrograms == ProgramsOver({R("add", 2, 2, 2), R("add", 4, 4, 2), I("lw", 2, 4, 0)}, 3, <<>>)

\* Branches, jumps and links, also in the delay slot of one another.
BranchAlphabet ==
    {R("jr", 0, 31, 0), R("jalr", 2, 4, 0), I("j", 0, 0, 3), I("bltzal", 0, 4, 1),
     I("blez", 0, 2, 15), R("sub", 4, 2, 31), I("lw", 31, 4, 0)}
BranchPrograms == ProgramsOver(BranchAlphabet, 4, <<>>)

DataPrograms == IntegerPrograms \cup HiLoPrograms \cup FpPrograms
                  \cup PartialPrograms \cup BranchPrograms

\* System calls among instructions that feed them and depend on them.
SyscallAlphabet ==
    {R("syscall", 0, 0, 0), R("syscall", 0, 2, 2), I("lw", 2, 4, 0),
     I("addi", 2, 4, 10), R("add", 4, 2, 7), I("sw", 2, 4, 0), I("beq", 2, 2, 1)}
SyscallPrograms == ProgramsOver(SyscallAlphabet, 3, ExitCall)

\* A few of everything, for the run in which the tasks run in any order.
MixedAlphabet ==
    {R("syscall", 0, 2, 2), I("lw", 2, 4, 0), R("add", 4, 2, 2),
     I("sw", 4, 2, 0), I("beq", 2, 2, 1), Illegal}
MixedPrograms == ProgramsOver(MixedAlphabet, 3, <<>>)

-----------------------------------------------------------------------------
AnyOrder(t, tasks) == TRUE

\* One fixed order, for the runs in which the order is not the question.
Rank(t) == CASE t = "WB" -> 1 [] t = "MEM" -> 2 [] t = "EXE" -> 3
             [] t = "DECODE" -> 4 [] t = "FETCH" -> 5
StageOrder(t, tasks) == \A u \in tasks : Rank(t) <= Rank(u)

MCReg == {0, 2, 4, 7, 31}
MCGprs == {(0 :> 0) @@ (2 :> 5) @@ (4 :> 8) @@ (7 :> 13) @@ (31 :> 3)}
MCFprs == {[r \in MCReg |-> (r + 6) % 16]}
MCMems == {[a \in MemAddr |-> (a + 11) % 16]}

\* Call 1 exits, call 2 fills a buffer, the others only return a value.
MCSysRet(v0, a0) == (v0 + a0 + 3) % 16
MCSysFails(v0, a0) == a0 % 2 = 1
MCSysStores(v0) == v0 = 2
MCSysQuits(v0) == v0 = 1
=============================================================================
