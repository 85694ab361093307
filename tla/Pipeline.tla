------------------------------ MODULE Pipeline ------------------------------
(***************************************************************************)
(* The five stages of src/cpus/sync/mips-fast as five cooperative tasks.   *)
(* Time moves in half cycles.  In PHI0 (even) and again in PHI1 (odd) each *)
(* task runs the code between two AWAIT_P_PHI macros once; the scheduler   *)
(* of src/lib/tasking.cc runs the tasks of a half cycle one after another  *)
(* and moves time on when none is left.  FETCH, when it finds the pipeline *)
(* locked by a system call, pauses for a whole cycle.                      *)
(*                                                                         *)
(* The latches fd, de, em, mw are read in PHI0 and written in PHI1; what a *)
(* task keeps in C++ locals from PHI0 to PHI1 is in dloc, eloc, mloc, wloc *)
(* and fetch.  Control signals are operators on the latched instruction    *)
(* (MipsInsn).                                                             *)
(*                                                                         *)
(* apc, anpc, hist and the field v of the latches are history: v marks an  *)
(* instruction of the program, as opposed to a bubble; apc and anpc are    *)
(* the addresses of the next two instructions to retire; hist counts.      *)
(*                                                                         *)
(* A definition that nothing uses (NeverLocked, NextPC, StallsAny, ..) is  *)
(* a plausible fault in place of the definition after it, for the checks   *)
(* that a property notices such a fault.                                   *)
(***************************************************************************)
EXTENDS MipsInsn

CONSTANTS
    BootPC, Programs, InitGprs, InitFprs, InitHiLo, InitMems,
    InitLoadStall,      \* values _load_stall may have: nothing initialises it
    SubregGarbage,      \* values DE(FD*) may leave in is_subreg, same reason
    MayRun(_, _),       \* may task t run next, when tasks S have yet to run
    MaxCycle            \* bound: cycles simulated

Task == {"FETCH", "DECODE", "EXE", "MEM", "WB"}

ASSUME PipelineOK ==
    /\ BootPC \in Word
    /\ \A p \in Programs : p \in [Word -> Insn]
    /\ InitGprs \subseteq [Reg -> Word]
    /\ InitFprs \subseteq [Reg -> Word]
    /\ InitHiLo \subseteq Word
    /\ InitMems \subseteq [MemAddr -> Word]
    /\ InitLoadStall \subseteq Nat
    /\ SubregGarbage \subseteq BOOLEAN
    /\ MaxCycle \in Nat

VARIABLES
    \* the machine: Mipc and its memory
    code, mem, gpr, fpr, hi, lo, pc,
    lock_pipeline_sys, lock_pipeline_data, isSyscall,
    fd, de, em, mw,
    nfetched, load_stall, sim_exit,
    \* the tasks: half cycle, tasks still to run in it, their locals
    cycle, phase, todo, fetch, dloc, eloc, mloc, wloc, exited,
    \* history
    apc, anpc, hist

archVars  == <<mem, gpr, fpr, hi, lo>>
lockVars  == <<lock_pipeline_sys, lock_pipeline_data, isSyscall>>
latchVars == <<fd, de, em, mw>>
statVars  == <<nfetched, load_stall>>
exitVars  == <<sim_exit, exited>>
timeVars  == <<cycle, phase>>
locVars   == <<fetch, dloc, eloc, mloc, wloc>>
histVars  == <<apc, anpc, hist>>
vars == <<code, archVars, pc, lockVars, latchVars, statVars, exitVars,
          timeVars, todo, locVars, histVars>>

EmptyFD == [ins |-> Nop, pc |-> 0, v |-> FALSE]
EmptyDE == [ins |-> Nop, pc |-> 0, v |-> FALSE, src1 |-> 0, src2 |-> 0,
            sub |-> 0, hi |-> 0, lo |-> 0, is_subreg |-> FALSE,
            EX_EX_1 |-> FALSE, EX_EX_2 |-> FALSE,
            MEM_EX_1 |-> FALSE, MEM_EX_2 |-> FALSE,
            store_ins |-> Nop, store_pc |-> 0]
EmptyEM == [ins |-> Nop, pc |-> 0, v |-> FALSE, sub |-> 0, addr |-> 0,
            resHi |-> 0, resLo |-> 0, btaken |-> FALSE, btgt |-> 0]
EmptyDloc == [ins |-> Nop, pc |-> 0, v |-> FALSE, prev_ex |-> Nop, prev_me |-> Nop]

Init ==
    /\ code \in Programs
    /\ mem \in InitMems
    /\ gpr \in InitGprs
    /\ gpr[0] = 0
    /\ fpr \in InitFprs
    /\ hi \in InitHiLo
    /\ lo \in InitHiLo
    /\ pc = BootPC
    /\ lock_pipeline_sys = FALSE
    /\ lock_pipeline_data = FALSE
    /\ isSyscall = FALSE
    /\ fd = EmptyFD
    /\ de = EmptyDE
    /\ em = EmptyEM
    /\ mw = EmptyEM
    /\ nfetched = 0
    /\ load_stall \in InitLoadStall
    /\ sim_exit = FALSE
    /\ cycle = 0
    /\ phase = 0
    /\ todo = Task
    /\ fetch = "open"
    /\ dloc = EmptyDloc
    /\ eloc = EmptyEM
    /\ mloc = EmptyEM
    /\ wloc = EmptyEM
    /\ exited = FALSE
    /\ apc = BootPC
    /\ anpc = (BootPC + 1) % M
    /\ hist = [retired |-> 0, syscalls |-> 0, stalls |-> 0]

-----------------------------------------------------------------------------
\* Task t runs its code for half cycle ph, once per half cycle.
Runs(t, ph) ==
    /\ ~exited
    /\ phase = ph
    /\ t \in todo
    /\ MayRun(t, todo)
    /\ todo' = todo \ {t}
    /\ UNCHANGED <<code, timeVars>>

\* Every task of the half cycle has run: the time event count moves on.  A
\* FETCH that paused in PHI1 is not woken until the next PHI1.
Tick ==
    /\ ~exited
    /\ todo = {}
    /\ phase = 1 => cycle < MaxCycle
    /\ phase' = 1 - phase
    /\ cycle' = cycle + phase
    /\ todo' = IF phase = 1 /\ fetch = "paused" THEN Task \ {"FETCH"} ELSE Task
    /\ UNCHANGED <<code, archVars, pc, lockVars, latchVars, statVars,
                   exitVars, locVars, histVars>>

\* The instruction of latch record l leaves the pipeline for good.
Retire(l) ==
    /\ apc' = anpc
    /\ anpc' = IF l.btaken THEN l.btgt ELSE (anpc + 1) % M
    /\ hist' = [hist EXCEPT !.retired = @ + 1]

-----------------------------------------------------------------------------
(***************************************************************************)
(* FETCH: Mipc::MainLoop.  The lock is sampled in PHI0 and used in PHI1.   *)
(* The loop condition is tested when an iteration ends.                    *)
(***************************************************************************)
NeverLocked == "open"
SampledLock == IF lock_pipeline_sys THEN "locked" ELSE "open"

FetchPhi0 ==
    /\ Runs("FETCH", 0)
    /\ fetch' = SampledLock
    /\ UNCHANGED <<archVars, pc, lockVars, latchVars, statVars, exitVars,
                   dloc, eloc, mloc, wloc, histVars>>

FetchInstruction ==
    /\ Runs("FETCH", 1)
    /\ fetch = "open"
    /\ fd' = [ins |-> code[pc], pc |-> pc, v |-> TRUE]
    /\ nfetched' = nfetched + 1
    /\ pc' = (pc + 1) % M
    /\ exited' = sim_exit
    /\ UNCHANGED <<archVars, lockVars, de, em, mw, load_stall, sim_exit,
                   locVars, histVars>>

FetchWaits(next) ==
    /\ Runs("FETCH", 1)
    /\ fetch = "locked"
    /\ fetch' = next
    /\ UNCHANGED <<archVars, pc, lockVars, latchVars, statVars, exitVars,
                   dloc, eloc, mloc, wloc, histVars>>

FetchSpins == FetchWaits("open")
FetchPause == FetchWaits("paused")

FetchResume ==
    /\ Runs("FETCH", 1)
    /\ fetch = "paused"
    /\ fetch' = "open"
    /\ exited' = sim_exit
    /\ UNCHANGED <<archVars, pc, lockVars, latchVars, statVars, sim_exit,
                   dloc, eloc, mloc, wloc, histVars>>

-----------------------------------------------------------------------------
(***************************************************************************)
(* DECODE: Decode::MainLoop.  PHI0 first undoes the fetch that ran ahead   *)
(* of a stall or of a system call, then captures the instruction and what  *)
(* the two instructions ahead of it will write.                            *)
(***************************************************************************)
NextPC == pc
DiscardedPC == fd.pc                 \* the fetch that ran ahead, to be redone
StillCounted == nfetched
Uncounted == nfetched - 1
KeptFetch == fd
DiscardedFetch == [fd EXCEPT !.ins = Nop, !.v = FALSE]

Capture(l) == dloc' = [ins |-> l.ins, pc |-> l.pc, v |-> l.v,
                       prev_ex |-> de.ins, prev_me |-> em.ins]

TakeBack == /\ pc' = DiscardedPC
            /\ nfetched' = Uncounted
            /\ load_stall' = load_stall + 1

RedoStalled ==
    /\ lock_pipeline_data
    /\ TakeBack
    /\ fd' = [ins |-> de.store_ins, pc |-> de.store_pc, v |-> TRUE]
    /\ lock_pipeline_data' = FALSE
    /\ hist' = [hist EXCEPT !.stalls = @ + 1]
    /\ UNCHANGED isSyscall

DropFetched ==
    /\ ~lock_pipeline_data /\ isSyscall
    /\ TakeBack
    /\ fd' = DiscardedFetch
    /\ isSyscall' = FALSE
    /\ UNCHANGED <<lock_pipeline_data, hist>>

KeepFetched ==
    /\ ~lock_pipeline_data /\ ~isSyscall
    /\ UNCHANGED <<pc, fd, lock_pipeline_data, isSyscall, statVars, hist>>

DecodePhi0 ==
    /\ Runs("DECODE", 0)
    /\ RedoStalled \/ DropFetched \/ KeepFetched
    /\ Capture(fd')
    /\ UNCHANGED <<archVars, lock_pipeline_sys, de, em, mw, exitVars,
                   fetch, eloc, mloc, wloc, apc, anpc>>

\* The values DE::Dec reads for instruction i.
Source1(i) == CASE i.op = "mfc1" -> fpr[i.rd]
                [] i.op = "mtc1" -> gpr[i.rt]
                [] i.op \in {"lui", "j", "jal"} -> 0
                [] OTHER -> gpr[i.rs]
Source2(i) == CASE i.op \in AluI \cup LoadOps \cup StoreOps -> i.imm
                [] i.op \in AluR \cup MulDivOps \cup CondBranch2 \cup SpecialOnly
                     -> gpr[i.rt]
                [] OTHER -> 0

\* Does the instruction ahead, prev, write the register numbered r.
Writes(prev, r) == WriteREG(prev) /\ DecodedDST(prev) = r
WritesHiLo(prev, r) == DecodedDST(prev) = HI_LO /\ r \in {HI, LO}

\* Is a source of i the destination of a load that is one instruction ahead.
NeedsInterlock(i, prev) ==
    /\ MemControl(prev)
    /\ WriteREG(prev)
    /\ \/ RsNum(i) # 0 /\ RsNum(i) = DecodedDST(prev)
       \/ RtNum(i) # 0 /\ RtNum(i) = DecodedDST(prev)

\* A system call is tested for first and never stalls.
StallsAny(i, prev) == NeedsInterlock(i, prev)
Stalls(i, prev) == ~IsSyscall(i) /\ NeedsInterlock(i, prev)

Decoded(i, garbage) ==
    LET rs == RsNum(i)
        rt == RtNum(i)
        ex == dloc.prev_ex
        me == dloc.prev_me
    IN [ins |-> i, pc |-> dloc.pc, v |-> dloc.v,
        src1 |-> Source1(i), src2 |-> Source2(i),
        sub |-> IF i.op \in SubregLoads THEN gpr[i.rt] ELSE 0,
        hi |-> IF i.op = "mfhi" THEN hi ELSE 0,
        lo |-> IF i.op = "mflo" THEN lo ELSE 0,
        is_subreg |-> IF i.op \in SubregLoads THEN TRUE ELSE garbage,
        EX_EX_1 |-> rs # 0 /\ ~MemControl(ex) /\ (WritesHiLo(ex, rs) \/ Writes(ex, rs)),
        EX_EX_2 |-> rt # 0 /\ ~MemControl(ex) /\ Writes(ex, rt),
        MEM_EX_1 |-> rs # 0 /\ (WritesHiLo(me, rs) \/ Writes(me, rs)),
        MEM_EX_2 |-> rt # 0 /\ Writes(me, rt),
        store_ins |-> Nop, store_pc |-> 0]

\* The bubble left in de while the stalled instruction waits in store_ins.
StalledCopy(d) == [d EXCEPT !.store_ins = d.ins, !.store_pc = d.pc]
Bubble(d) == [d EXCEPT !.ins = Nop, !.v = FALSE,
                       !.src1 = gpr[0], !.src2 = gpr[0],
                       !.store_ins = d.ins, !.store_pc = d.pc]

DecodePhi1 ==
    /\ Runs("DECODE", 1)
    /\ \E garbage \in SubregGarbage :
         LET d == Decoded(dloc.ins, garbage)
             stall == Stalls(d.ins, dloc.prev_ex)
         IN /\ de' = IF stall THEN Bubble(d) ELSE d
            /\ lock_pipeline_data' = stall
            /\ lock_pipeline_sys' = (lock_pipeline_sys \/ IsSyscall(d.ins))
            /\ isSyscall' = (isSyscall \/ IsSyscall(d.ins))
    /\ UNCHANGED <<archVars, pc, fd, em, mw, statVars, exitVars, locVars, histVars>>

-----------------------------------------------------------------------------
(***************************************************************************)
(* EXE: Exe::MainLoop.  Operands come from the latch de unless a bypass    *)
(* from em (EX-EX) or, failing that, from mw (MEM-EX) is selected.         *)
(***************************************************************************)
ForwardOldest(exex, memex, fromEM, fromMW, latched) ==
    IF memex THEN fromMW ELSE IF exex THEN fromEM ELSE latched
Forward(exex, memex, fromEM, fromMW, latched) ==
    IF exex THEN fromEM ELSE IF memex THEN fromMW ELSE latched

Operands(d) ==
    LET rs  == RsNum(d.ins)
        rt  == RtNum(d.ins)
        one(fromEM, fromMW, latched) ==
            Forward(d.EX_EX_1, d.MEM_EX_1, fromEM, fromMW, latched)
        two(latched) == Forward(rt # 0 /\ d.EX_EX_2, rt # 0 /\ d.MEM_EX_2,
                                em.resLo, mw.resLo, latched)
    IN [src1 |-> IF rs # 0 THEN one(em.resLo, mw.resLo, d.src1) ELSE d.src1,
        src2 |-> IF d.is_subreg THEN d.src2 ELSE two(d.src2),
        sub  |-> IF d.is_subreg THEN two(d.sub) ELSE d.sub,
        hi   |-> IF rs = HI THEN one(em.resHi, mw.resHi, d.hi) ELSE d.hi,
        lo   |-> IF rs = LO THEN one(em.resLo, mw.resLo, d.lo) ELSE d.lo]

\* EM::func_*: the result registers of instruction i at address a.
ResultLo(i, a, o) ==
    CASE i.op \in AluR \cup AluI -> Alu(i.op, o.src1, o.src2, i.imm)
      [] i.op \in MulDivOps -> MulDiv(i.op, o.src1, o.src2)[2]
      [] i.op = "mfhi" -> o.hi
      [] i.op = "mflo" -> o.lo
      [] i.op \in {"mtlo", "mtc1", "mfc1"} -> o.src1
      [] i.op \in CondBranchLink \cup {"jal", "jalr"} -> (a + 2) % M
      [] OTHER -> 0
ResultHi(i, o) ==
    CASE i.op \in MulDivOps -> MulDiv(i.op, o.src1, o.src2)[1]
      [] i.op = "mthi" -> o.src1
      [] OTHER -> 0

Executed(d) ==
    LET o == Operands(d)
        i == d.ins
        runs == ~IsSyscall(i) /\ ~IsIllegalOp(i)
    IN [ins |-> i, pc |-> d.pc, v |-> d.v, sub |-> o.sub,
        addr   |-> IF MemControl(i) THEN (o.src1 + o.src2) % M ELSE 0,
        resLo  |-> IF runs THEN ResultLo(i, d.pc, o) ELSE 0,
        resHi  |-> IF runs THEN ResultHi(i, o) ELSE 0,
        btaken |-> runs /\ Branches(i, o.src1, o.src2),
        btgt   |-> BranchTarget(i, d.pc, o.src1)]

ExePhi0 ==
    /\ Runs("EXE", 0)
    /\ eloc' = Executed(de)
    /\ pc' = IF eloc'.btaken THEN eloc'.btgt ELSE pc
    /\ UNCHANGED <<archVars, lockVars, latchVars, statVars, exitVars,
                   fetch, dloc, mloc, wloc, histVars>>

ExePhi1 ==
    /\ Runs("EXE", 1)
    /\ em' = eloc
    /\ UNCHANGED <<archVars, pc, lockVars, fd, de, mw, statVars, exitVars,
                   locVars, histVars>>

-----------------------------------------------------------------------------
(***************************************************************************)
(* MEM: Memory::MainLoop.  Loads and stores touch memory in PHI1; a store  *)
(* reads its data register then, after WB wrote the registers in PHI0.     *)
(***************************************************************************)
WordAt(a) == a - (a % 4)

MemPhi0 ==
    /\ Runs("MEM", 0)
    /\ mloc' = em
    /\ UNCHANGED <<archVars, pc, lockVars, latchVars, statVars, exitVars,
                   fetch, dloc, eloc, wloc, histVars>>

StoreData(i) == IF i.op = "swc1" THEN fpr[i.rt] ELSE gpr[i.rt]

MemStore ==
    /\ Runs("MEM", 1)
    /\ IsStore(mloc.ins)
    /\ mem' = [mem EXCEPT ![WordAt(mloc.addr)] =
                  Store(mloc.ins.op, @, mloc.addr, StoreData(mloc.ins))]
    /\ mw' = mloc
    /\ Retire(mloc)
    /\ UNCHANGED <<gpr, fpr, hi, lo, pc, lockVars, fd, de, em, statVars,
                   exitVars, locVars>>

MemLoad ==
    /\ Runs("MEM", 1)
    /\ mloc.ins.op \in LoadOps
    /\ mw' = [mloc EXCEPT !.resLo =
                 Load(mloc.ins.op, mem[WordAt(mloc.addr)], mloc.addr, mloc.sub)]
    /\ UNCHANGED <<archVars, pc, lockVars, fd, de, em, statVars, exitVars,
                   locVars, histVars>>

MemNothing ==
    /\ Runs("MEM", 1)
    /\ ~MemControl(mloc.ins)
    /\ mw' = mloc
    /\ UNCHANGED <<archVars, pc, lockVars, fd, de, em, statVars, exitVars,
                   locVars, histVars>>

-----------------------------------------------------------------------------
(***************************************************************************)
(* WB: Writeback::MainLoop.  PHI0 writes the registers; PHI1 emulates a    *)
(* system call and releases FETCH, or stops at an illegal instruction.     *)
(***************************************************************************)
WritesBack(i) == WriteREG(i) \/ WriteFREG(i) \/ HiWPort(i) \/ LoWPort(i)

WbPhi0 ==
    /\ Runs("WB", 0)
    /\ wloc' = mw
    /\ LET i == mw.ins
           d == DecodedDST(i)
       IN /\ gpr' = IF WriteREG(i)
                    THEN [gpr EXCEPT ![d] = mw.resLo, ![0] = 0]
                    ELSE [gpr EXCEPT ![0] = 0]
          /\ fpr' = IF WriteFREG(i) THEN [fpr EXCEPT ![d] = mw.resLo] ELSE fpr
          /\ hi' = IF HiWPort(i) THEN mw.resHi ELSE hi
          /\ lo' = IF LoWPort(i) THEN mw.resLo ELSE lo
          /\ IF mw.v /\ ~IsStore(i) /\ ~IsSyscall(i) /\ ~IsIllegalOp(i)
             THEN Retire(mw)
             ELSE UNCHANGED histVars
    /\ UNCHANGED <<mem, pc, lockVars, latchVars, statVars, exitVars,
                   fetch, dloc, eloc, mloc>>

\* Mipc::fake_syscall around SysCall::EmulateSysCall: the call is named by
\* v0, leaves its result there and an error flag in a3, may write memory and
\* may ask to quit.
Trap(lockAfter) ==
    /\ Runs("WB", 1)
    /\ IsSyscall(wloc.ins)
    /\ LET v0 == gpr[V0]
           a0 == gpr[A0]
       IN /\ gpr' = AfterCall(gpr, v0, a0)
          /\ mem' = IF SysStores(v0)
                    THEN [mem EXCEPT ![WordAt(a0)] = SysRet(v0, a0)] ELSE mem
          /\ sim_exit' = (sim_exit \/ SysQuits(v0))
    /\ lock_pipeline_sys' = lockAfter
    /\ apc' = anpc
    /\ anpc' = (anpc + 1) % M
    /\ hist' = [hist EXCEPT !.retired = @ + 1, !.syscalls = @ + 1]
    /\ UNCHANGED <<fpr, hi, lo, pc, lock_pipeline_data, isSyscall, latchVars,
                   statVars, exited, locVars>>

TrapKeepsLock == Trap(TRUE)
WbSyscall == Trap(FALSE)

WbIllegal ==
    /\ Runs("WB", 1)
    /\ IsIllegalOp(wloc.ins)
    /\ exited' = TRUE
    /\ UNCHANGED <<archVars, pc, lockVars, latchVars, statVars, sim_exit,
                   locVars, histVars>>

WbNothing ==
    /\ Runs("WB", 1)
    /\ ~IsSyscall(wloc.ins) /\ ~IsIllegalOp(wloc.ins)
    /\ UNCHANGED <<archVars, pc, lockVars, latchVars, statVars, exitVars,
                   locVars, histVars>>

-----------------------------------------------------------------------------
Fetch  == FetchPhi0 \/ FetchInstruction \/ FetchPause \/ FetchResume
Decode == DecodePhi0 \/ DecodePhi1
Exe    == ExePhi0 \/ ExePhi1
Memory == MemPhi0 \/ MemStore \/ MemLoad \/ MemNothing
Writeback == WbPhi0 \/ WbSyscall \/ WbIllegal \/ WbNothing

\* exit(0) was called: nothing runs any more.
Stopped == exited /\ UNCHANGED vars

Next == Tick \/ Fetch \/ Decode \/ Exe \/ Memory \/ Writeback \/ Stopped

Spec == Init /\ [][Next]_vars

\* One thread runs everything and no task blocks outside the scheduler, so
\* the simulation as a whole goes on as long as it can.
FairSpec == Spec /\ WF_vars(Next)
=============================================================================
