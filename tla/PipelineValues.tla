--------------------------- MODULE PipelineValues ---------------------------
(***************************************************************************)
(* Why the pipeline computes what the sequential machine computes: the     *)
(* registers as the instructions in flight will leave them, and the        *)
(* invariant that every result was computed from the registers its         *)
(* instruction would read if it ran alone.                                 *)
(***************************************************************************)
EXTENDS PipelineProps

\* The instructions that must stay at least three apart: the pipeline has no
\* bypass and no interlock for them (the run hilo_bypass shows the first).
Unprotected(i, j) ==
    \/ i.op = "mthi" /\ j.op = "mfhi"
    \/ i.op = "mtlo" /\ j.op = "mflo"
    \/ i.op \in {"mtc1", "lwc1"} /\ j.op = "mfc1"

\* DECODE meets no such pair: the two instructions ahead of the one it has
\* captured protect it.  A condition on the program that runs.
Separated == /\ ~Unprotected(dloc.prev_ex, dloc.ins)
             /\ ~Unprotected(dloc.prev_me, dloc.ins)

\* No program has both instructions of such a pair.
NoUnprotected == \A p \in Programs : \A a, b \in Word : ~Unprotected(p[a], p[b])

\* Every instruction in the pipeline is one of the program or the bubble.
Sources == {Nop} \cup {code[a] : a \in Word}
SourceInv ==
    /\ fd.ins \in Sources /\ de.ins \in Sources /\ em.ins \in Sources
    /\ dloc.ins \in Sources /\ dloc.prev_ex \in Sources /\ dloc.prev_me \in Sources
    /\ eloc.ins \in Sources
    /\ lock_pipeline_data => de.store_ins \in Sources

\* The arithmetic ignores the operands an instruction does not have: the shift
\* amount and, for lui, the first source; the old register of a whole load.
ASSUME UnusedOperands ==
    /\ \A op \in AluI, a, b, sa \in Word :
          Alu(op, a, b, sa) = Alu(op, IF op = "lui" THEN 0 ELSE a, b, 0)
    /\ \A op \in LoadOps \ SubregLoads, w, a, r \in Word :
          Load(op, w, a, r) = Load(op, w, a, 0)

-----------------------------------------------------------------------------
Regs == [gpr |-> gpr, fpr |-> fpr, hi |-> hi, lo |-> lo]

\* Registers R once instruction i has written its results.
WrittenBack(R, i, resLo, resHi) ==
    [gpr |-> [r \in Reg |-> IF r # 0 /\ Writes(i, r) THEN resLo ELSE R.gpr[r]],
     fpr |-> [r \in Reg |-> IF WriteFREG(i) /\ DecodedDST(i) = r THEN resLo ELSE R.fpr[r]],
     hi  |-> IF HiWPort(i) THEN resHi ELSE R.hi,
     lo  |-> IF LoWPort(i) THEN resLo ELSE R.lo]

\* What the load of latch l reads.
Loaded(l) == Load(l.ins.op, mem[WordAt(l.addr)], l.addr, l.sub)
Value(l) == IF l.ins.op \in LoadOps THEN Loaded(l) ELSE l.resLo

\* The operands of instruction i in registers R.
Reads(i, R) ==
    [src1 |-> CASE i.op = "mfc1" -> R.fpr[i.rd]
                [] i.op = "mtc1" -> R.gpr[i.rt]
                [] i.op \in {"lui", "j", "jal"} -> 0
                [] OTHER -> R.gpr[i.rs],
     src2 |-> CASE i.op \in AluI \cup LoadOps \cup StoreOps -> i.imm
                [] i.op \in AluR \cup MulDivOps \cup CondBranch2 -> R.gpr[i.rt]
                [] OTHER -> 0,
     sub  |-> IF i.op \in SubregLoads THEN R.gpr[i.rt] ELSE 0,
     hi   |-> R.hi,
     lo   |-> R.lo]

\* EXE computed for latch l what its instruction computes in registers R.
Right(l, R) ==
    LET i == l.ins
        o == Reads(i, R)
    IN ~IsSyscall(i) /\ ~IsIllegalOp(i) =>
         /\ l.btaken = Branches(i, o.src1, o.src2)
         /\ l.btgt = BranchTarget(i, l.pc, o.src1)
         /\ IF MemControl(i) THEN l.addr = (o.src1 + o.src2) % M /\ l.sub = o.sub
            ELSE l.resLo = ResultLo(i, l.pc, o) /\ l.resHi = ResultHi(i, o)

\* The registers once WB has written them in this cycle, and once the
\* instruction one stage behind has, which is what the next one reads.
Settled == IF "WB" \in todo THEN WrittenBack(Regs, mw.ins, mw.resLo, mw.resHi) ELSE Regs
Next0 == WrittenBack(Settled, em.ins, Value(em), em.resHi)
Next1 == IF "MEM" \in todo THEN WrittenBack(Regs, mloc.ins, Value(mloc), mloc.resHi)
         ELSE WrittenBack(Regs, mw.ins, mw.resLo, mw.resHi)

\* Every result in flight is the one the sequential machine computes after
\* the instructions ahead have written theirs; DECODE has read the registers
\* as they are and knows what is ahead.
Values0 ==
    /\ "WB" \in todo /\ Unretired(mw) => Right(mw, Regs) /\ mw.resLo = Value(mw)
    /\ em.v => Right(em, Settled)
    /\ de.v => Right(Executed(de), Next0)
    /\ "EXE" \notin todo => eloc = Executed(de)
    /\ "DECODE" \notin todo => dloc.prev_ex = de.ins /\ dloc.prev_me = em.ins
Values1 ==
    /\ dloc.prev_ex = eloc.ins /\ dloc.prev_me = mloc.ins
    /\ "MEM" \in todo /\ mloc.v => Right(mloc, Regs)
    /\ "MEM" \notin todo => mw.ins = mloc.ins
    /\ "MEM" \notin todo /\ Unretired(mw) => Right(mw, Regs) /\ mw.resLo = Value(mw)
    /\ eloc.v => Right(eloc, Next1)
    /\ "EXE" \notin todo => em = eloc
    /\ "DECODE" \notin todo /\ de.v =>
          de = Decoded(dloc.ins, FALSE) /\ ~Stalls(dloc.ins, dloc.prev_ex)
ValueInv == /\ gpr[0] = 0
            /\ phase = 0 => Values0
            /\ phase = 1 => Values1

\* The inductive invariants of the pipeline.
PipelineInv == /\ SquashInv /\ FlightInv /\ LatchInv /\ SlotInv /\ CountInv
               /\ QuitInv /\ CycleInv /\ OrderInv /\ SourceInv /\ ValueInv
=============================================================================
