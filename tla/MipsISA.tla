------------------------------ MODULE MipsISA -------------------------------
(***************************************************************************)
(* What the simulator promises: a MIPS machine that executes one           *)
(* instruction at a time, with one branch delay slot.  The delay slot is   *)
(* the pair pc, npc: the instruction at pc is executed, the one at npc     *)
(* follows it, and a taken branch at pc only replaces what follows npc.    *)
(* There are no stages, no latches and no bypasses here.                   *)
(***************************************************************************)
EXTENDS MipsInsn

CONSTANTS
    BootPC,                     \* where execution starts
    InitGprs, InitFprs,         \* register files the machine may start with
    InitHiLo,                   \* values HI and LO may start with
    InitMems                    \* data images, [MemAddr -> Word]

VARIABLES code, pc, npc, gpr, fpr, hi, lo, mem, halted

isaVars == <<code, pc, npc, gpr, fpr, hi, lo, mem, halted>>

Init ==
    /\ code \in [Word -> Insn]
    /\ pc = BootPC
    /\ npc = (BootPC + 1) % M
    /\ gpr \in InitGprs
    /\ fpr \in InitFprs
    /\ hi \in InitHiLo
    /\ lo \in InitHiLo
    /\ mem \in InitMems
    /\ halted = FALSE

Insn0 == code[pc]
Rs == gpr[Insn0.rs]
Rt == gpr[Insn0.rt]
Address == (Rs + Insn0.imm) % M
WordAt(a) == a - (a % 4)

\* Register 0 reads as zero whatever is written to it.
SetGpr(r, x) == gpr' = IF r = 0 THEN gpr ELSE [gpr EXCEPT ![r] = x]

Advance(taken) ==
    /\ pc' = npc
    /\ npc' = IF taken
              THEN CASE Insn0.op \in {"jr", "jalr"} -> Rs
                     [] Insn0.op \in {"j", "jal"} -> Insn0.imm
                     [] OTHER -> (pc + 1 + Insn0.imm) % M
              ELSE (npc + 1) % M

Compute ==
    /\ Insn0.op \in AluR \cup AluI \cup MulDivOps \cup
                   {"mfhi", "mflo", "mthi", "mtlo", "mtc1", "mfc1", "break"}
    /\ CASE Insn0.op \in AluR ->
                /\ SetGpr(Insn0.rd, Alu(Insn0.op, Rs, Rt, Insn0.imm))
                /\ UNCHANGED <<fpr, hi, lo>>
         [] Insn0.op \in AluI ->
                /\ SetGpr(Insn0.rt, Alu(Insn0.op, Rs, Insn0.imm, 0))
                /\ UNCHANGED <<fpr, hi, lo>>
         [] Insn0.op \in MulDivOps ->
                /\ <<hi', lo'>> = MulDiv(Insn0.op, Rs, Rt)
                /\ UNCHANGED <<gpr, fpr>>
         [] Insn0.op = "mfhi" -> SetGpr(Insn0.rd, hi) /\ UNCHANGED <<fpr, hi, lo>>
         [] Insn0.op = "mflo" -> SetGpr(Insn0.rd, lo) /\ UNCHANGED <<fpr, hi, lo>>
         [] Insn0.op = "mthi" -> hi' = Rs /\ UNCHANGED <<gpr, fpr, lo>>
         [] Insn0.op = "mtlo" -> lo' = Rs /\ UNCHANGED <<gpr, fpr, hi>>
         [] Insn0.op = "mtc1" -> /\ fpr' = [fpr EXCEPT ![Insn0.rd] = Rt]
                                 /\ UNCHANGED <<gpr, hi, lo>>
         [] Insn0.op = "mfc1" -> /\ SetGpr(Insn0.rt, fpr[Insn0.rd])
                                 /\ UNCHANGED <<fpr, hi, lo>>
         [] Insn0.op = "break" -> UNCHANGED <<gpr, fpr, hi, lo>>
    /\ Advance(FALSE)
    /\ UNCHANGED <<mem, halted>>

\* Branches and jumps; the linking ones write the address after the slot.
Branch ==
    /\ Insn0.op \in CondOps \cup Jumps
    /\ LET link == IF Insn0.op \in CondBranchLink \cup {"jal"} THEN RA
                   ELSE IF Insn0.op = "jalr" THEN Insn0.rd ELSE 0
       IN SetGpr(link, (pc + 2) % M)
    /\ Advance(IF Insn0.op \in Jumps THEN TRUE
               ELSE Taken(Insn0.op, Rs, IF Insn0.op \in CondBranch2 THEN Rt ELSE 0))
    /\ UNCHANGED <<fpr, hi, lo, mem, halted>>

LoadMem ==
    /\ Insn0.op \in LoadOps
    /\ LET x == Load(Insn0.op, mem[WordAt(Address)], Address, Rt)
       IN IF Insn0.op = "lwc1"
          THEN fpr' = [fpr EXCEPT ![Insn0.rt] = x] /\ UNCHANGED gpr
          ELSE SetGpr(Insn0.rt, x) /\ UNCHANGED fpr
    /\ Advance(FALSE)
    /\ UNCHANGED <<hi, lo, mem, halted>>

StoreMem ==
    /\ Insn0.op \in StoreOps
    /\ LET x == IF Insn0.op = "swc1" THEN fpr[Insn0.rt] ELSE Rt
       IN mem' = [mem EXCEPT ![WordAt(Address)] = Store(Insn0.op, @, Address, x)]
    /\ Advance(FALSE)
    /\ UNCHANGED <<gpr, fpr, hi, lo, halted>>

SystemCall ==
    /\ Insn0.op = "syscall"
    /\ LET v0 == gpr[V0]
           a0 == gpr[A0]
       IN /\ gpr' = AfterCall(gpr, v0, a0)
          /\ mem' = IF SysStores(v0)
                    THEN [mem EXCEPT ![WordAt(a0)] = SysRet(v0, a0)] ELSE mem
          /\ halted' = SysQuits(v0)
    /\ Advance(FALSE)
    /\ UNCHANGED <<fpr, hi, lo>>

IllegalOp ==
    /\ Insn0.op = "illegal"
    /\ halted' = TRUE
    /\ UNCHANGED <<pc, npc, gpr, fpr, hi, lo, mem>>

Step ==
    /\ ~halted
    /\ UNCHANGED code
    /\ \/ Compute \/ Branch \/ LoadMem \/ StoreMem \/ SystemCall \/ IllegalOp

\* The registers of a machine stopped by an illegal instruction are final
\* (they are what the simulator prints); its memory is not looked at again.
AfterHalt ==
    /\ halted
    /\ UNCHANGED <<code, gpr, fpr, hi, lo, halted>>

Next == Step \/ AfterHalt

Spec == Init /\ [][Next]_isaVars
=============================================================================
