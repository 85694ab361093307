--------------------------- MODULE PipelineProofs ---------------------------
(***************************************************************************)
(* Proofs about Pipeline, for every program, every size of words and        *)
(* register files, every arithmetic that yields words, and every order in   *)
(* which the tasks of a half cycle run: types, the squashes and the system  *)
(* call in flight, what the simulator prints, the order in which            *)
(* instructions retire, and that the pipeline implements the sequential     *)
(* machine MipsISA.                                                         *)
(***************************************************************************)
EXTENDS PipelineValues, TLAPS

-----------------------------------------------------------------------------
(***************************************************************************)
(* Types.                                                                  *)
(***************************************************************************)
\* The remainder by M is a word.
LEMMA ModWord == \A x \in Int : x % M \in Word
  BY ConstantsOK DEF Word

\* Zero is a word, and words are integers.
LEMMA ZeroWord == 0 \in Word /\ Word \subseteq Int
  BY ConstantsOK DEF Word

\* The aligned address below a word is one memory has a word at.
LEMMA AlignedAddr == \A a \in Word : WordAt(a) \in MemAddr
  <1> SUFFICES ASSUME NEW a \in Word PROVE WordAt(a) \in MemAddr
    OBVIOUS
  <1>1. a \in Nat /\ a - (a % 4) \in 0 .. a /\ (a - (a % 4)) % 4 = 0
    BY ConstantsOK DEF Word
  <1> QED
    BY <1>1, ConstantsOK DEF Word, MemAddr, WordAt

\* The bubble is an instruction.
LEMMA NopInsn == Nop \in Insn
  BY ConstantsOK DEF Nop, Insn, Ops, AluR, Word

\* The fields of an instruction have their types.
LEMMA InsnFields ==
  ASSUME NEW i \in Insn
  PROVE  i.op \in Ops /\ i.rs \in Reg /\ i.rt \in Reg /\ i.rd \in Reg /\ i.imm \in Word
  BY DEF Insn

\* DE::Dec reads words from the register files.
LEMMA SourcesType ==
  ASSUME gpr \in [Reg -> Word], fpr \in [Reg -> Word], NEW i \in Insn
  PROVE  Source1(i) \in Word /\ Source2(i) \in Word
  <1>1. gpr[i.rs] \in Word /\ gpr[i.rt] \in Word /\ fpr[i.rd] \in Word
    BY InsnFields
  <1>2. Source1(i) \in Word
   BY <1>1, ZeroWord DEF Source1
  <1>3. Source2(i) \in Word
   BY <1>1, ZeroWord, InsnFields DEF Source2
  <1> QED BY <1>2, <1>3

\* DECODE leaves a well-typed latch, with or without a stall.
LEMMA DecodedType ==
  ASSUME gpr \in [Reg -> Word], fpr \in [Reg -> Word], hi \in Word, lo \in Word,
         dloc \in DlocType, NEW i \in Insn, NEW g \in BOOLEAN
  PROVE  Decoded(i, g) \in DEType /\ Bubble(Decoded(i, g)) \in DEType
  <1>1. Source1(i) \in Word /\ Source2(i) \in Word
    BY SourcesType
  <1>2. gpr[i.rt] \in Word /\ gpr[0] \in Word
    BY InsnFields, ConstantsOK
  <1>3. dloc.pc \in Word /\ dloc.v \in BOOLEAN
    BY DEF DlocType
  <1>4. Decoded(i, g) \in DEType
    BY <1>1, <1>2, <1>3, ZeroWord, NopInsn DEF Decoded, DEType
  <1>5. Bubble(Decoded(i, g)) \in DEType
    BY <1>2, <1>4, NopInsn DEF Bubble, DEType
  <1> QED BY <1>4, <1>5

\* The operands EXE selects, bypassed or latched, are words.
LEMMA OperandsType ==
  ASSUME em \in EMType, mw \in EMType, NEW d \in DEType
  PROVE  Operands(d) \in [src1 : Word, src2 : Word, sub : Word, hi : Word, lo : Word]
  <1>1. /\ em.resLo \in Word /\ em.resHi \in Word
        /\ mw.resLo \in Word /\ mw.resHi \in Word
    BY DEF EMType
  <1>2. /\ d.src1 \in Word /\ d.src2 \in Word /\ d.sub \in Word
        /\ d.hi \in Word /\ d.lo \in Word
    BY DEF DEType
  <1> QED BY <1>1, <1>2 DEF Operands, Forward

\* What EM::func_* computes from words is a word.
LEMMA ResultsType ==
  ASSUME NEW i \in Insn, NEW a \in Word,
         NEW o \in [src1 : Word, src2 : Word, sub : Word, hi : Word, lo : Word]
  PROVE  ResultLo(i, a, o) \in Word /\ ResultHi(i, o) \in Word
  <1>1. i.op \in MulDivOps =>
           /\ MulDiv(i.op, o.src1, o.src2)[1] \in Word
           /\ MulDiv(i.op, o.src1, o.src2)[2] \in Word
    BY ArithmeticOK
  <1>2. i.op \in AluR \cup AluI => Alu(i.op, o.src1, o.src2, i.imm) \in Word
    BY ArithmeticOK, InsnFields
  <1>3. (a + 2) % M \in Word
    BY ModWord, ZeroWord
  <1>4. ResultLo(i, a, o) \in Word
    BY <1>1, <1>2, <1>3, ZeroWord DEF ResultLo
  <1>5. ResultHi(i, o) \in Word
    BY <1>1, ZeroWord DEF ResultHi
  <1> QED BY <1>4, <1>5

\* A branch target is a word: the addition wraps.
LEMMA BranchTargetType ==
  ASSUME NEW i \in Insn, NEW a \in Word, NEW s \in Word
  PROVE  BranchTarget(i, a, s) \in Word
  <1>1. (a + 1 + i.imm) % M \in Word
    BY ModWord, ZeroWord, InsnFields
  <1> QED BY <1>1, ZeroWord, InsnFields DEF BranchTarget

\* EXE captures a well-typed latch.
LEMMA ExecutedType ==
  ASSUME em \in EMType, mw \in EMType, NEW d \in DEType
  PROVE  Executed(d) \in EMType
  <1> DEFINE o == Operands(d)
  <1>1. o \in [src1 : Word, src2 : Word, sub : Word, hi : Word, lo : Word]
    BY OperandsType
  <1> HIDE DEF o
  <1>2. d.ins \in Insn /\ d.pc \in Word /\ d.v \in BOOLEAN
    BY DEF DEType
  <1>3. ResultLo(d.ins, d.pc, o) \in Word /\ ResultHi(d.ins, o) \in Word
    BY <1>1, <1>2, ResultsType
  <1>4. BranchTarget(d.ins, d.pc, o.src1) \in Word
    BY <1>1, <1>2, BranchTargetType
  <1>5. Branches(d.ins, o.src1, o.src2) \in BOOLEAN
    BY DEF Branches
  <1>6. (o.src1 + o.src2) % M \in Word
    <2>1. o.src1 \in Int /\ o.src2 \in Int
      BY <1>1, ZeroWord
    <2> QED BY <2>1, ModWord
  <1> QED BY <1>1, <1>2, <1>3, <1>4, <1>5, <1>6, ZeroWord DEF Executed, EMType, o

-----------------------------------------------------------------------------
\* Retiring an instruction keeps the history variables typed.
LEMMA RetireType ==
  ASSUME TypeOK, NEW l \in EMType, Retire(l)
  PROVE  apc' \in Word /\ anpc' \in Word
         /\ hist' \in [retired : Nat, syscalls : Nat, stalls : Nat]
  <1>1. (anpc + 1) % M \in Word /\ l.btgt \in Word
    BY ModWord, ZeroWord DEF TypeOK, ControlTypeOK, EMType
  <1> QED BY <1>1 DEF Retire, TypeOK, ControlTypeOK

\* The initial states are well typed.
LEMMA TypeInit == Init => TypeOK
  <1> SUFFICES ASSUME Init PROVE TypeOK
    OBVIOUS
  <1>1. BootPC \in Word /\ (BootPC + 1) % M \in Word
    BY PipelineOK, ModWord, ZeroWord
  <1>2. ControlTypeOK
    <2>1. load_stall \in Nat
      BY PipelineOK DEF Init
    <2>2. hist \in [retired : Nat, syscalls : Nat, stalls : Nat]
      BY DEF Init
    <2>3. pc \in Word /\ apc \in Word /\ anpc \in Word
      BY <1>1 DEF Init
    <2>4. /\ lock_pipeline_sys \in BOOLEAN /\ lock_pipeline_data \in BOOLEAN
          /\ isSyscall \in BOOLEAN /\ sim_exit \in BOOLEAN /\ exited \in BOOLEAN
      BY DEF Init
    <2>5. /\ cycle \in Nat /\ phase \in {0, 1} /\ todo \subseteq Task
          /\ fetch \in {"open", "locked", "paused"} /\ nfetched \in Int
      BY DEF Init
    <2> QED BY <2>1, <2>2, <2>3, <2>4, <2>5 DEF ControlTypeOK
  <1>3. fd \in FDType /\ dloc \in DlocType
    BY NopInsn, ZeroWord DEF Init, EmptyFD, EmptyDloc, FDType, DlocType
  <1>4. de \in DEType
    BY NopInsn, ZeroWord DEF Init, EmptyDE, DEType
  <1>5. EmptyEM \in EMType
    BY NopInsn, ZeroWord DEF EmptyEM, EMType
  <1> QED BY <1>2, <1>3, <1>4, <1>5, PipelineOK DEF Init, TypeOK

\* FETCH keeps the types.
LEMMA TypeFetch == ASSUME TypeOK, Fetch PROVE TypeOK'
  <1> USE DEF TypeOK, ControlTypeOK, Runs, archVars, lockVars, latchVars,
              statVars, exitVars, timeVars, locVars, histVars
  <1>1. CASE FetchPhi0
    BY <1>1 DEF FetchPhi0, SampledLock
  <1>2. CASE FetchInstruction
    <2>1. (pc + 1) % M \in Word
      BY ModWord, ZeroWord
    <2>2. fd' \in FDType
      BY <1>2 DEF FetchInstruction, FDType
    <2> QED BY <1>2, <2>1, <2>2 DEF FetchInstruction
  <1>3. CASE FetchPause
    BY <1>3 DEF FetchPause, FetchWaits
  <1>4. CASE FetchResume
    BY <1>4 DEF FetchResume
  <1> QED BY <1>1, <1>2, <1>3, <1>4 DEF Fetch

\* DECODE keeps the types.
LEMMA TypeDecode == ASSUME TypeOK, Decode PROVE TypeOK'
  <1> USE DEF Runs, archVars, lockVars, latchVars,
              statVars, exitVars, timeVars, locVars, histVars
  <1>1. CASE DecodePhi0
    <2>1. /\ pc' \in Word /\ fd' \in FDType
          /\ lock_pipeline_data' \in BOOLEAN /\ isSyscall' \in BOOLEAN
          /\ nfetched' \in Int /\ load_stall' \in Nat
          /\ hist' \in [retired : Nat, syscalls : Nat, stalls : Nat]
      <3>1. fd.pc \in Word /\ DiscardedFetch \in FDType
            /\ [ins |-> de.store_ins, pc |-> de.store_pc, v |-> TRUE] \in FDType
        BY NopInsn DEF TypeOK, FDType, DEType, DiscardedFetch
      <3>5. nfetched - 1 \in Int /\ load_stall + 1 \in Nat
            /\ [hist EXCEPT !.stalls = @ + 1] \in [retired : Nat, syscalls : Nat, stalls : Nat]
        BY DEF TypeOK, ControlTypeOK
      <3>2. CASE RedoStalled
        BY <3>1, <3>2, <3>5 DEF RedoStalled, TakeBack, DiscardedPC, Uncounted,
                                TypeOK, ControlTypeOK
      <3>3. CASE DropFetched
        BY <3>1, <3>3, <3>5 DEF DropFetched, TakeBack, DiscardedPC, Uncounted,
                                TypeOK, ControlTypeOK
      <3>4. CASE KeepFetched
        BY <1>1, <3>1, <3>4 DEF DecodePhi0, KeepFetched, TypeOK, ControlTypeOK
      <3> QED BY <1>1, <3>2, <3>3, <3>4 DEF DecodePhi0
    <2>2. dloc' \in DlocType
      BY <1>1, <2>1 DEF DecodePhi0, Capture, TypeOK, DlocType, FDType, DEType, EMType
    <2> QED BY <1>1, <2>1, <2>2 DEF DecodePhi0, TypeOK, ControlTypeOK
  <1>2. CASE DecodePhi1
    <2>1. PICK g \in SubregGarbage :
            LET d == Decoded(dloc.ins, g)
            IN /\ de' = IF Stalls(d.ins, dloc.prev_ex) THEN Bubble(d) ELSE d
               /\ lock_pipeline_data' = Stalls(d.ins, dloc.prev_ex)
               /\ lock_pipeline_sys' = (lock_pipeline_sys \/ IsSyscall(d.ins))
               /\ isSyscall' = (isSyscall \/ IsSyscall(d.ins))
      BY <1>2 DEF DecodePhi1
    <2>2. g \in BOOLEAN /\ dloc.ins \in Insn
      BY PipelineOK DEF TypeOK, DlocType
    <2>3. de' \in DEType
      BY <2>1, <2>2, DecodedType DEF TypeOK
    <2>4. /\ lock_pipeline_data' \in BOOLEAN /\ lock_pipeline_sys' \in BOOLEAN
          /\ isSyscall' \in BOOLEAN
      BY <2>1 DEF Stalls
    <2> QED BY <1>2, <2>3, <2>4 DEF DecodePhi1, TypeOK, ControlTypeOK
  <1> QED BY <1>1, <1>2 DEF Decode

\* EXE keeps the types.
LEMMA TypeExe == ASSUME TypeOK, Exe PROVE TypeOK'
  <1> USE DEF Runs, archVars, lockVars, latchVars,
              statVars, exitVars, timeVars, locVars, histVars
  <1>1. CASE ExePhi0
    <2>1. eloc' \in EMType
      BY <1>1, ExecutedType DEF ExePhi0, TypeOK
    <2>2. pc' \in Word
      BY <1>1, <2>1 DEF ExePhi0, TypeOK, ControlTypeOK, EMType
    <2> QED BY <1>1, <2>1, <2>2 DEF ExePhi0, TypeOK, ControlTypeOK
  <1>2. CASE ExePhi1
    BY <1>2 DEF ExePhi1, TypeOK, ControlTypeOK
  <1> QED BY <1>1, <1>2 DEF Exe

\* MEM keeps the types.
LEMMA TypeMemory == ASSUME TypeOK, Memory PROVE TypeOK'
  <1> USE DEF Runs, archVars, lockVars, latchVars,
              statVars, exitVars, timeVars, locVars, histVars
  <1>1. mloc \in EMType /\ mloc.ins \in Insn /\ mloc.addr \in Word /\ mloc.sub \in Word
    BY DEF TypeOK, EMType
  <1>2. mem[WordAt(mloc.addr)] \in Word
    BY <1>1, AlignedAddr DEF TypeOK
  <1>3. CASE MemPhi0
    BY <1>3 DEF MemPhi0, TypeOK, ControlTypeOK
  <1>4. CASE MemStore
    <2>1. StoreData(mloc.ins) \in Word
      BY <1>1, InsnFields DEF StoreData, TypeOK
    <2>2. Store(mloc.ins.op, mem[WordAt(mloc.addr)], mloc.addr, StoreData(mloc.ins)) \in Word
      BY <1>1, <1>2, <1>4, <2>1, ArithmeticOK DEF MemStore, IsStore
    <2>3. mem' \in [MemAddr -> Word]
      BY <1>4, <2>2 DEF MemStore, TypeOK
    <2>4. apc' \in Word /\ anpc' \in Word
          /\ hist' \in [retired : Nat, syscalls : Nat, stalls : Nat]
      BY <1>1, <1>4, RetireType DEF MemStore
    <2> QED BY <1>1, <1>4, <2>3, <2>4 DEF MemStore, TypeOK, ControlTypeOK
  <1>5. CASE MemLoad
    <2>1. Load(mloc.ins.op, mem[WordAt(mloc.addr)], mloc.addr, mloc.sub) \in Word
      BY <1>1, <1>2, <1>5, ArithmeticOK DEF MemLoad
    <2>2. mw' \in EMType
      BY <1>1, <1>5, <2>1 DEF MemLoad, EMType
    <2> QED BY <1>5, <2>2 DEF MemLoad, TypeOK, ControlTypeOK
  <1>6. CASE MemNothing
    BY <1>6 DEF MemNothing, TypeOK, ControlTypeOK
  <1> QED BY <1>3, <1>4, <1>5, <1>6 DEF Memory

\* WB keeps the types.
LEMMA TypeWriteback == ASSUME TypeOK, Writeback PROVE TypeOK'
  <1> USE DEF Runs, archVars, lockVars, latchVars,
              statVars, exitVars, timeVars, locVars, histVars
  <1>1. CASE WbPhi0
    <2>1. mw \in EMType /\ mw.resLo \in Word /\ mw.resHi \in Word
      BY DEF TypeOK, EMType
    <2>2. gpr' \in [Reg -> Word] /\ fpr' \in [Reg -> Word]
      BY <1>1, <2>1, ZeroWord DEF WbPhi0, TypeOK
    <2>3. hi' \in Word /\ lo' \in Word
      BY <1>1, <2>1 DEF WbPhi0, TypeOK
    <2>4. apc' \in Word /\ anpc' \in Word
          /\ hist' \in [retired : Nat, syscalls : Nat, stalls : Nat]
      <3>1. Retire(mw) \/ UNCHANGED histVars
        BY <1>1 DEF WbPhi0
      <3> QED BY <2>1, <3>1, RetireType DEF TypeOK, ControlTypeOK
    <2> QED BY <1>1, <2>1, <2>2, <2>3, <2>4 DEF WbPhi0, TypeOK, ControlTypeOK
  <1>2. CASE WbSyscall
    <2>1. gpr[V0] \in Word /\ gpr[A0] \in Word
      BY ConstantsOK DEF TypeOK
    <2>2. SysRet(gpr[V0], gpr[A0]) \in Word
      BY <2>1, ArithmeticOK
    <2>3. \A p : One(p) \in Word
      BY ConstantsOK DEF One, Word
    <2>4. gpr' \in [Reg -> Word]
      BY <1>2, <2>2, <2>3 DEF WbSyscall, Trap, AfterCall, TypeOK
    <2>5. mem' \in [MemAddr -> Word]
      BY <1>2, <2>2 DEF WbSyscall, Trap, TypeOK
    <2>6. sim_exit' \in BOOLEAN
      BY <1>2 DEF WbSyscall, Trap
    <2>7. (anpc + 1) % M \in Word
      BY ModWord, ZeroWord DEF TypeOK, ControlTypeOK
    <2>8. hist' \in [retired : Nat, syscalls : Nat, stalls : Nat]
      <3>1. hist \in [retired : Nat, syscalls : Nat, stalls : Nat]
        BY DEF TypeOK, ControlTypeOK
      <3>2. [hist EXCEPT !.retired = @ + 1, !.syscalls = @ + 1]
              \in [retired : Nat, syscalls : Nat, stalls : Nat]
        <4>1. hist.retired + 1 \in Nat /\ hist.syscalls + 1 \in Nat
          BY <3>1
        <4> QED BY <3>1, <4>1, Zenon
      <3> QED BY <1>2, <3>2 DEF WbSyscall, Trap
    <2> QED BY <1>2, <2>4, <2>5, <2>6, <2>7, <2>8 DEF WbSyscall, Trap, TypeOK, ControlTypeOK
  <1>3. CASE WbIllegal
    BY <1>3 DEF WbIllegal, TypeOK, ControlTypeOK
  <1>4. CASE WbNothing
    BY <1>4 DEF WbNothing, TypeOK, ControlTypeOK
  <1> QED BY <1>1, <1>2, <1>3, <1>4 DEF Writeback

\* A new half cycle keeps the types.
LEMMA TypeTick == ASSUME TypeOK, Tick PROVE TypeOK'
  BY DEF Tick, Task, TypeOK, ControlTypeOK, archVars, lockVars, latchVars, statVars,
         exitVars, locVars, histVars

\* TypeOK is inductive: every step keeps it.
LEMMA TypeStep == TypeOK /\ [Next]_vars => TypeOK'
  <1> SUFFICES ASSUME TypeOK, [Next]_vars PROVE TypeOK'
    OBVIOUS
  <1>1. CASE UNCHANGED vars
    BY <1>1 DEF vars, TypeOK, ControlTypeOK, archVars, lockVars, latchVars, statVars,
                exitVars, timeVars, locVars, histVars
  <1> QED BY <1>1, TypeTick, TypeFetch, TypeDecode, TypeExe, TypeMemory, TypeWriteback
          DEF Next, Stopped

(***************************************************************************)
(* Whatever the program, the initial data and the order of the tasks, every *)
(* latch holds an instruction of the program or a bubble, and every         *)
(* register, address and program counter is a word.                         *)
(***************************************************************************)
THEOREM TypeCorrect == Spec => []TypeOK
  BY TypeInit, TypeStep, PTL DEF Spec

-----------------------------------------------------------------------------
(***************************************************************************)
(* The squashes and the system call on their way through the pipeline:     *)
(* SquashInv and FlightInv are invariants, and the properties of the       *)
(* program counter and of the lock follow.                                 *)
(***************************************************************************)
\* The bubble is not a system call.
LEMMA NopIsNoCall == ~IsSyscall(Nop)
  BY DEF IsSyscall, Nop

\* DE::Dec leaves the captured instruction in the latch.
LEMMA DecodedFields ==
  ASSUME NEW i, NEW g
  PROVE  Decoded(i, g).ins = i /\ Decoded(i, g).v = dloc.v
  BY DEF Decoded

\* After a stall the latch holds a bubble.
LEMMA BubbleFields ==
  ASSUME NEW d \in DEType
  PROVE  Empty(Bubble(d))
  BY DEF DEType, Bubble, Empty

\* DECODE PHI1 passes the instruction on, or stalls it behind a bubble; only
\* an instruction that is no system call stalls, and only a call locks FETCH.
LEMMA DecodePhi1Effect ==
  ASSUME TypeOK, DecodePhi1
  PROVE  /\ \/ /\ Empty(de')
               /\ lock_pipeline_data' = TRUE
               /\ ~IsSyscall(dloc.ins)
               /\ NeedsInterlock(dloc.ins, dloc.prev_ex)
            \/ /\ de'.ins = dloc.ins /\ de'.v = dloc.v
               /\ lock_pipeline_data' = FALSE
         /\ lock_pipeline_sys' = (lock_pipeline_sys \/ IsSyscall(dloc.ins))
         /\ isSyscall' = (isSyscall \/ IsSyscall(dloc.ins))
  <1>1. PICK g \in SubregGarbage :
          LET d == Decoded(dloc.ins, g)
          IN /\ de' = IF Stalls(d.ins, dloc.prev_ex) THEN Bubble(d) ELSE d
             /\ lock_pipeline_data' = Stalls(d.ins, dloc.prev_ex)
             /\ lock_pipeline_sys' = (lock_pipeline_sys \/ IsSyscall(d.ins))
             /\ isSyscall' = (isSyscall \/ IsSyscall(d.ins))
    BY DEF DecodePhi1
  <1> DEFINE d == Decoded(dloc.ins, g)
  <1>2. d \in DEType
    BY DecodedType, PipelineOK DEF TypeOK, DlocType
  <1>3. d.ins = dloc.ins /\ d.v = dloc.v
    BY DecodedFields
  <1> HIDE DEF d
  <1>4. /\ de' = IF Stalls(d.ins, dloc.prev_ex) THEN Bubble(d) ELSE d
        /\ lock_pipeline_data' = Stalls(d.ins, dloc.prev_ex)
        /\ lock_pipeline_sys' = (lock_pipeline_sys \/ IsSyscall(d.ins))
        /\ isSyscall' = (isSyscall \/ IsSyscall(d.ins))
    BY <1>1 DEF d
  <1>5. Empty(Bubble(d))
    BY <1>2, BubbleFields
  <1> QED BY <1>3, <1>4, <1>5 DEF Stalls

\* DECODE PHI0 settles whatever squash was pending, and after a system call
\* discards the instruction fetched behind it.
LEMMA DecodePhi0Effect ==
  ASSUME TypeOK, SquashInv, DecodePhi0
  PROVE  /\ lock_pipeline_data' = FALSE /\ isSyscall' = FALSE
         /\ dloc'.ins = fd'.ins /\ dloc'.v = fd'.v
         /\ lock_pipeline_data \/ Empty(fd') \/ (~isSyscall /\ fd' = fd)
         /\ isSyscall => Empty(fd')
         /\ phase = 0 /\ todo' = todo \ {"DECODE"}
         /\ UNCHANGED <<lock_pipeline_sys, de, em, mw, fetch, phase, eloc, mloc, wloc>>
  <1>1. /\ RedoStalled \/ DropFetched \/ KeepFetched
        /\ dloc'.ins = fd'.ins /\ dloc'.v = fd'.v
        /\ phase = 0 /\ todo' = todo \ {"DECODE"}
        /\ UNCHANGED <<lock_pipeline_sys, de, em, mw, fetch, phase, eloc, mloc, wloc>>
    BY Zenon DEF DecodePhi0, Capture, Runs, timeVars
  <1>2. RedoStalled => lock_pipeline_data /\ lock_pipeline_data' = FALSE /\ isSyscall' = isSyscall
    BY Zenon DEF RedoStalled
  <1>3. DropFetched => /\ ~lock_pipeline_data /\ isSyscall' = FALSE
                       /\ fd' = DiscardedFetch
                       /\ lock_pipeline_data' = lock_pipeline_data
    BY Zenon DEF DropFetched
  <1>4. KeepFetched => /\ ~lock_pipeline_data /\ ~isSyscall
                       /\ UNCHANGED <<fd, lock_pipeline_data, isSyscall>>
    BY Zenon DEF KeepFetched
  <1>5. Empty(DiscardedFetch)
    BY DEF TypeOK, FDType, DiscardedFetch, Empty
  <1>6. lock_pipeline_data \in BOOLEAN /\ isSyscall \in BOOLEAN
    BY DEF TypeOK, ControlTypeOK
  <1>7. ~(lock_pipeline_data /\ isSyscall)
    BY DEF SquashInv, OneSquash
  <1> QED BY <1>1, <1>2, <1>3, <1>4, <1>5, <1>6, <1>7

-----------------------------------------------------------------------------
\* SquashInv depends on four variables and on whether DECODE has run.
LEMMA SquashKept ==
  ASSUME SquashInv, UNCHANGED <<lock_pipeline_data, isSyscall, de, phase>>,
         "DECODE" \in todo' <=> "DECODE" \in todo
  PROVE  SquashInv'
  BY DEF SquashInv, OneSquash, SyscallIn

\* SquashInv is inductive.
LEMMA SquashStep == TypeOK /\ SquashInv /\ [Next]_vars => SquashInv'
  <1> SUFFICES ASSUME TypeOK, SquashInv, [Next]_vars PROVE SquashInv'
    OBVIOUS
  <1> USE DEF Runs, archVars, lockVars, latchVars, statVars, exitVars,
              timeVars, locVars, histVars
  <1>1. CASE UNCHANGED vars \/ Stopped
    BY <1>1, SquashKept DEF vars, Stopped
  <1>2. CASE Tick
    <2>1. phase \in {0, 1} /\ phase' = 1 - phase
      BY <1>2 DEF Tick, TypeOK, ControlTypeOK
    <2>2. "DECODE" \notin todo /\ "DECODE" \in todo'
      BY <1>2 DEF Tick, Task
    <2>3. UNCHANGED <<lock_pipeline_data, isSyscall, de>>
      BY <1>2 DEF Tick
    <2> QED BY <2>1, <2>2, <2>3 DEF SquashInv, OneSquash, SyscallIn
  <1>3. CASE Fetch
    BY <1>3, SquashKept DEF Fetch, FetchPhi0, FetchInstruction, FetchPause,
                            FetchWaits, FetchResume
  <1>4. CASE DecodePhi0
    <2>1. /\ ~lock_pipeline_data' /\ ~isSyscall'
          /\ phase' = 0 /\ "DECODE" \notin todo' /\ de' = de
      BY <1>4, DecodePhi0Effect
    <2> QED BY <2>1 DEF SquashInv, OneSquash
  <1>5. CASE DecodePhi1
    <2>1. phase' = 1 /\ "DECODE" \notin todo' /\ ~isSyscall
      BY <1>5 DEF DecodePhi1, SquashInv
    <2>2. isSyscall' <=> IsSyscall(dloc.ins)
      BY <1>5, <2>1, DecodePhi1Effect
    <2>3. CASE lock_pipeline_data' = TRUE
      <3>1. de'.ins = Nop /\ ~isSyscall'
        BY <1>5, <2>2, <2>3, DecodePhi1Effect DEF Empty
      <3> QED BY <2>1, <3>1 DEF SquashInv, OneSquash
    <2>4. CASE lock_pipeline_data' = FALSE /\ de'.ins = dloc.ins
      BY <2>1, <2>2, <2>4 DEF SquashInv, OneSquash, SyscallIn
    <2> QED BY <1>5, <2>3, <2>4, DecodePhi1Effect
  <1>6. CASE Exe
    BY <1>6, SquashKept DEF Exe, ExePhi0, ExePhi1
  <1>7. CASE Memory
    BY <1>7, SquashKept DEF Memory, MemPhi0, MemStore, MemLoad, MemNothing
  <1>8. CASE Writeback
    BY <1>8, SquashKept DEF Writeback, WbPhi0, WbSyscall, Trap, WbIllegal, WbNothing
  <1> QED BY <1>1, <1>2, <1>3, <1>4, <1>5, <1>6, <1>7, <1>8 DEF Next, Decode

\* No squash is pending when the simulation starts.
LEMMA SquashInit == Init => SquashInv
  BY DEF Init, SquashInv, OneSquash, Task

\* A pending squash means that DECODE left the bubble of the stall, or the
\* system call, in de, and it is settled before DECODE decodes again
\* (decode.cc:186-201, 234-244).
THEOREM SquashHolds == Spec => []SquashInv
  BY SquashInit, SquashStep, TypeCorrect, PTL DEF Spec

\* A stall and a system call never both ask DECODE to take a fetch back, so
\* the if .. else if of decode.cc:186-201 loses neither.
THEOREM OneSquashHolds == Spec => []OneSquash
  <1>1. SquashInv => OneSquash
    BY DEF SquashInv
  <1> QED BY <1>1, SquashHolds, PTL

\* DECODE and EXE never write the program counter in the same half cycle
\* (decode.cc:187, 195 and executor.cc:227), in whatever order they run: the
\* instruction in EXE while a squash is pending does not branch.
THEOREM NoPcRaceHolds == Spec => []NoPcRace
  <1>1. SquashInv => NoPcRace
    <2> SUFFICES ASSUME SquashInv, SquashPending PROVE ~Executed(de).btaken
      BY DEF NoPcRace, BranchPending
    <2>1. de.ins = Nop \/ IsSyscall(de.ins)
      BY DEF SquashInv, SquashPending, SyscallIn
    <2>2. Executed(de).btaken = (/\ ~IsSyscall(de.ins) /\ ~IsIllegalOp(de.ins)
                                 /\ Branches(de.ins, Operands(de).src1, Operands(de).src2))
      BY DEF Executed
    <2>3. ~Branches(Nop, Operands(de).src1, Operands(de).src2)
      BY DEF Nop, Branches, Jumps, CondOps, CondBranch1, CondBranch2, CondBranchLink
    <2> QED BY <2>1, <2>2, <2>3
  <1> QED BY <1>1, SquashHolds, PTL

-----------------------------------------------------------------------------
\* The simulation starts with no system call in the pipeline.
LEMMA FlightInit == Init => FlightInv
  BY NopIsNoCall DEF Init, FlightInv, Copied, NoCall0, SyscallIn, EmptyDE, EmptyEM, Task

\* With the half cycle the call moves from the latch to the task that
\* captured it, and from there into the next latch.
LEMMA FlightTick ==
  ASSUME TypeOK, SquashInv, FlightInv, Tick
  PROVE  FlightInv'
  <1>1. /\ todo = {} /\ phase' = 1 - phase
        /\ todo' = IF phase = 1 /\ fetch = "paused" THEN Task \ {"FETCH"} ELSE Task
        /\ UNCHANGED <<lock_pipeline_sys, lock_pipeline_data, isSyscall, fd, de, em, mw,
                       fetch, dloc, eloc, mloc, wloc>>
    BY DEF Tick, lockVars, latchVars, locVars
  <1>2. "DECODE" \in todo' /\ "EXE" \in todo' /\ "MEM" \in todo' /\ "WB" \in todo'
    BY <1>1 DEF Task
  <1>3. CASE phase = 0
    <2>1. phase' = 1 /\ "FETCH" \in todo' /\ ~lock_pipeline_data /\ ~isSyscall
      BY <1>1, <1>3 DEF Task, SquashInv
    <2>2. Copied /\ (NoCall0 \/ Decoded0 \/ Executed0 \/ Reached0)
      BY <1>3 DEF FlightInv
    <2>3. /\ dloc.ins = fd.ins /\ dloc.v = fd.v /\ eloc.ins = de.ins /\ eloc.v = de.v
          /\ mloc = em /\ wloc = mw
      BY <1>1, <2>2 DEF Copied
    <2>4. NoCall0 => NoCall1'
      BY <1>1, <1>2, <2>1, <2>3 DEF NoCall0, NoCall1, SyscallIn
    <2>5. Decoded0 => InExe1'
      BY <1>1, <1>2, <2>1, <2>3 DEF Decoded0, InExe1, SyscallIn, Empty, FetchMoves
    <2>6. Executed0 => InMem1'
      BY <1>1, <1>2, <2>1, <2>3 DEF Executed0, InMem1, SyscallIn, Empty, FetchMoves
    <2>7. Reached0 => InWb1'
      BY <1>1, <1>2, <2>1, <2>3 DEF Reached0, InWb1, SyscallIn, Empty, FetchMoves
    <2> QED BY <2>1, <2>2, <2>4, <2>5, <2>6, <2>7 DEF FlightInv
  <1>4. CASE phase = 1
    <2>1. phase' = 0 /\ ("FETCH" \in todo' <=> fetch # "paused")
      BY <1>1, <1>4 DEF Task
    <2>2. NoCall1 \/ InExe1 \/ InMem1 \/ InWb1
      BY <1>4 DEF FlightInv
    <2>3. Copied'
      BY <1>2 DEF Copied
    <2>4. NoCall1 => NoCall0' \/ Decoded0'
      BY <1>1, <1>2, <2>1 DEF NoCall0, Decoded0, NoCall1, SyscallIn, FetchMoves
    <2>5. InExe1 => Executed0'
      BY <1>1, <1>2, <2>1 DEF Executed0, InExe1, SyscallIn, Empty, FetchMoves
    <2>6. InMem1 => Reached0'
      BY <1>1, <1>2, <2>1 DEF Reached0, InMem1, SyscallIn, Empty, FetchMoves
    <2>7. InWb1 => NoCall0'
      BY <1>1, <1>2, <2>1, NopIsNoCall DEF NoCall0, InWb1, SyscallIn, Empty, FetchMoves
    <2> QED BY <2>1, <2>2, <2>3, <2>4, <2>5, <2>6, <2>7 DEF FlightInv
  <1> QED BY <1>3, <1>4 DEF TypeOK, ControlTypeOK

\* FETCH keeps the flight invariant: it sees the lock in one half cycle and
\* pauses in the next, or comes back from the pause.
LEMMA FlightFetch ==
  ASSUME FlightInv, Fetch
  PROVE  FlightInv'
  <1>1. /\ "FETCH" \in todo /\ todo' = todo \ {"FETCH"} /\ phase' = phase
        /\ UNCHANGED <<lock_pipeline_sys, lock_pipeline_data, isSyscall, de, em, mw,
                       dloc, eloc, mloc, wloc>>
    BY DEF Fetch, FetchPhi0, FetchInstruction, FetchPause, FetchWaits, FetchResume,
           Runs, timeVars, lockVars, latchVars, locVars
  <1>2. CASE FetchPhi0
    <2>1. phase = 0 /\ fd' = fd /\ fetch' = IF lock_pipeline_sys THEN "locked" ELSE "open"
      BY <1>2 DEF FetchPhi0, SampledLock, Runs, latchVars
    <2>2. Copied /\ (NoCall0 \/ Decoded0 \/ Executed0 \/ Reached0)
      BY <2>1 DEF FlightInv
    <2>3. Copied'
      BY <1>1, <2>1, <2>2 DEF Copied
    <2>4. NoCall0 => NoCall0'
      BY <1>1, <2>1 DEF NoCall0, SyscallIn
    <2>5. Decoded0 => Decoded0'
      BY <1>1, <2>1 DEF Decoded0, SyscallIn, Empty, FetchMoves
    <2>6. ~Executed0
      BY <1>1 DEF Executed0
    <2>7. Reached0 => Reached0'
      BY <1>1, <2>1 DEF Reached0, SyscallIn, Empty, FetchMoves
    <2> QED BY <1>1, <2>1, <2>2, <2>3, <2>4, <2>5, <2>6, <2>7 DEF FlightInv
  <1>3. CASE FetchInstruction \/ FetchPause \/ FetchResume
    <2>1. /\ phase = 1
          /\ \/ fetch = "open" /\ fetch' = "open"
             \/ fetch = "locked" /\ fetch' = "paused" /\ fd' = fd
             \/ fetch = "paused" /\ fetch' = "open" /\ fd' = fd
      BY <1>3 DEF FetchInstruction, FetchPause, FetchWaits, FetchResume, Runs,
                  locVars, latchVars
    <2>2. NoCall1 \/ InExe1 \/ InMem1 \/ InWb1
      BY <2>1 DEF FlightInv
    <2>3. NoCall1 => NoCall1'
      BY <1>1, <2>1 DEF NoCall1, SyscallIn
    <2>4. InExe1 => InExe1'
      BY <1>1, <2>1 DEF InExe1, SyscallIn, Empty, FetchMoves
    <2>5. InMem1 => InMem1'
      BY <1>1, <2>1 DEF InMem1, SyscallIn, Empty, FetchMoves
    <2>6. InWb1 => InWb1'
      BY <1>1, <2>1 DEF InWb1, SyscallIn, Empty, FetchMoves
    <2> QED BY <1>1, <2>1, <2>2, <2>3, <2>4, <2>5, <2>6 DEF FlightInv
  <1> QED BY <1>2, <1>3 DEF Fetch

\* DECODE keeps the flight invariant: it raises the lock for a new call,
\* discards the fetch behind it, and decodes bubbles while one is ahead.
LEMMA FlightDecode ==
  ASSUME TypeOK, SquashInv, FlightInv, Decode
  PROVE  FlightInv'
  <1>1. CASE DecodePhi0
    <2>1. /\ "DECODE" \in todo /\ todo' = todo \ {"DECODE"} /\ phase = 0 /\ phase' = 0
          /\ UNCHANGED <<lock_pipeline_sys, de, em, mw, fetch, eloc, mloc, wloc>>
          /\ ~isSyscall'  /\ ~lock_pipeline_data'
      BY <1>1, DecodePhi0Effect DEF DecodePhi0, Runs
    <2>2. Copied /\ (NoCall0 \/ Decoded0 \/ Executed0 \/ Reached0)
      BY <2>1 DEF FlightInv
    <2>3. Copied'
      BY <1>1, <2>1, <2>2, DecodePhi0Effect DEF Copied
    <2>4. NoCall0 => NoCall0'
      BY <2>1 DEF NoCall0, SyscallIn
    <2>5. Decoded0 => Decoded0'
      BY <1>1, <2>1, DecodePhi0Effect DEF Decoded0, SyscallIn, FetchMoves
    <2>6. ~lock_pipeline_data /\ ~isSyscall /\ Empty(fd) => Empty(fd')
      BY <1>1, DecodePhi0Effect
    <2>7. Executed0 => Executed0'
      BY <2>1, <2>6 DEF Executed0, SyscallIn, Empty
    <2>8. Reached0 => Reached0'
      BY <2>1, <2>6 DEF Reached0, SyscallIn, Empty, FetchMoves
    <2> QED BY <2>1, <2>2, <2>3, <2>4, <2>5, <2>7, <2>8 DEF FlightInv
  <1>2. CASE DecodePhi1
    <2>1. /\ "DECODE" \in todo /\ todo' = todo \ {"DECODE"} /\ phase = 1 /\ phase' = 1
          /\ UNCHANGED <<fd, em, mw, fetch, dloc, eloc, mloc, wloc>>
          /\ ~isSyscall /\ ~lock_pipeline_data
      BY <1>2 DEF DecodePhi1, Runs, timeVars, locVars, SquashInv
    <2>2. NoCall1 \/ InExe1 \/ InMem1 \/ InWb1
      BY <2>1 DEF FlightInv
    <2>3. NoCall1 => NoCall1'
      <3>1. lock_pipeline_data' = TRUE => ~SyscallIn(de)' /\ ~IsSyscall(dloc.ins)
        BY <1>2, DecodePhi1Effect, NopIsNoCall DEF SyscallIn, Empty
      <3>2. lock_pipeline_data' # TRUE => SyscallIn(de)' = IsSyscall(dloc.ins)
        BY <1>2, DecodePhi1Effect DEF SyscallIn
      <3>3. /\ lock_pipeline_sys' <=> lock_pipeline_sys \/ IsSyscall(dloc.ins)
            /\ isSyscall' <=> isSyscall \/ IsSyscall(dloc.ins)
        BY <1>2, DecodePhi1Effect
      <3> QED BY <2>1, <3>1, <3>2, <3>3 DEF NoCall1, SyscallIn
    <2>4. Empty(dloc) => /\ Empty(de)' /\ ~lock_pipeline_data' /\ ~isSyscall'
                         /\ lock_pipeline_sys' = lock_pipeline_sys
      <3>1. ~NeedsInterlock(Nop, dloc.prev_ex)
        BY DEF NeedsInterlock, RsNum, RtNum, Nop
      <3>2. lock_pipeline_sys \in BOOLEAN
        BY DEF TypeOK, ControlTypeOK
      <3> QED BY <1>2, <2>1, <3>1, <3>2, DecodePhi1Effect, NopIsNoCall DEF Empty
    <2>5. InExe1 => InExe1'
      BY <2>1, <2>4 DEF InExe1, SyscallIn, Empty, FetchMoves
    <2>6. InMem1 => InMem1'
      BY <2>1, <2>4 DEF InMem1, SyscallIn, Empty, FetchMoves
    <2>7. InWb1 => InWb1'
      BY <2>1, <2>4 DEF InWb1, SyscallIn, Empty, FetchMoves
    <2> QED BY <2>1, <2>2, <2>3, <2>5, <2>6, <2>7 DEF FlightInv
  <1> QED BY <1>1, <1>2 DEF Decode

\* EXE moves the call, or the bubble behind it, from de to em.
LEMMA FlightExe ==
  ASSUME FlightInv, Exe
  PROVE  FlightInv'
  <1>1. /\ "EXE" \in todo /\ todo' = todo \ {"EXE"} /\ phase' = phase
        /\ UNCHANGED <<lock_pipeline_sys, lock_pipeline_data, isSyscall, fd, de, mw,
                       fetch, dloc, mloc, wloc>>
    BY DEF Exe, ExePhi0, ExePhi1, Runs, timeVars, lockVars, latchVars, locVars
  <1>2. CASE ExePhi0
    <2>1. phase = 0 /\ em' = em /\ eloc'.ins = de.ins /\ eloc'.v = de.v
      BY <1>2 DEF ExePhi0, Executed, Runs, latchVars
    <2>2. Copied /\ (NoCall0 \/ Decoded0 \/ Executed0 \/ Reached0)
      BY <2>1 DEF FlightInv
    <2>3. Copied'
      BY <1>1, <2>1, <2>2 DEF Copied
    <2>4. NoCall0 => NoCall0'
      BY <1>1, <2>1 DEF NoCall0, SyscallIn
    <2>5. Decoded0 => Decoded0'
      BY <1>1, <2>1 DEF Decoded0, SyscallIn, Empty, FetchMoves
    <2>6. Executed0 => Executed0'
      BY <1>1, <2>1 DEF Executed0, SyscallIn, Empty
    <2>7. Reached0 => Reached0'
      BY <1>1, <2>1 DEF Reached0, SyscallIn, Empty, FetchMoves
    <2> QED BY <1>1, <2>1, <2>2, <2>3, <2>4, <2>5, <2>6, <2>7 DEF FlightInv
  <1>3. CASE ExePhi1
    <2>1. phase = 1 /\ em' = eloc /\ eloc' = eloc
      BY <1>3 DEF ExePhi1, Runs, locVars
    <2>2. NoCall1 \/ InExe1 \/ InMem1 \/ InWb1
      BY <2>1 DEF FlightInv
    <2>3. NoCall1 => NoCall1'
      BY <1>1, <2>1 DEF NoCall1, SyscallIn
    <2>4. InExe1 => InExe1'
      BY <1>1, <2>1 DEF InExe1, SyscallIn, Empty, FetchMoves
    <2>5. InMem1 => InMem1'
      BY <1>1, <2>1 DEF InMem1, SyscallIn, Empty, FetchMoves
    <2>6. InWb1 => InWb1'
      BY <1>1, <2>1 DEF InWb1, SyscallIn, Empty, FetchMoves
    <2> QED BY <1>1, <2>1, <2>2, <2>3, <2>4, <2>5, <2>6 DEF FlightInv
  <1> QED BY <1>2, <1>3 DEF Exe

\* MEM moves the call, or the bubble behind it, from em to mw.
LEMMA FlightMemory ==
  ASSUME TypeOK, FlightInv, Memory
  PROVE  FlightInv'
  <1>1. /\ "MEM" \in todo /\ todo' = todo \ {"MEM"} /\ phase' = phase
        /\ UNCHANGED <<lock_pipeline_sys, lock_pipeline_data, isSyscall, fd, de, em,
                       fetch, dloc, eloc, wloc>>
    BY DEF Memory, MemPhi0, MemStore, MemLoad, MemNothing, Runs, timeVars, lockVars,
           latchVars, locVars
  <1>2. CASE MemPhi0
    <2>1. phase = 0 /\ mw' = mw /\ mloc' = em
      BY <1>2 DEF MemPhi0, Runs, latchVars
    <2>2. Copied /\ (NoCall0 \/ Decoded0 \/ Executed0 \/ Reached0)
      BY <2>1 DEF FlightInv
    <2>3. Copied'
      BY <1>1, <2>1, <2>2 DEF Copied
    <2>4. NoCall0 => NoCall0'
      BY <1>1, <2>1 DEF NoCall0, SyscallIn
    <2>5. Decoded0 => Decoded0'
      BY <1>1, <2>1 DEF Decoded0, SyscallIn, Empty, FetchMoves
    <2>6. Executed0 => Executed0'
      BY <1>1, <2>1 DEF Executed0, SyscallIn, Empty
    <2>7. Reached0 => Reached0'
      BY <1>1, <2>1 DEF Reached0, SyscallIn, Empty, FetchMoves
    <2> QED BY <1>1, <2>1, <2>2, <2>3, <2>4, <2>5, <2>6, <2>7 DEF FlightInv
  <1>3. CASE MemStore \/ MemLoad \/ MemNothing
    <2>1. phase = 1 /\ mloc' = mloc /\ mw'.ins = mloc.ins /\ mw'.v = mloc.v
      <3>1. \A x : [mloc EXCEPT !.resLo = x].ins = mloc.ins
                   /\ [mloc EXCEPT !.resLo = x].v = mloc.v
        BY DEF TypeOK, EMType
      <3> QED BY <1>3, <3>1, Zenon DEF MemStore, MemLoad, MemNothing, Runs, locVars
    <2>2. NoCall1 \/ InExe1 \/ InMem1 \/ InWb1
      BY <2>1 DEF FlightInv
    <2>3. NoCall1 => NoCall1'
      BY <1>1, <2>1 DEF NoCall1, SyscallIn
    <2>4. InExe1 => InExe1'
      BY <1>1, <2>1 DEF InExe1, SyscallIn, Empty, FetchMoves
    <2>5. InMem1 => InMem1'
      BY <1>1, <2>1 DEF InMem1, SyscallIn, Empty, FetchMoves
    <2>6. InWb1 => InWb1'
      BY <1>1, <2>1 DEF InWb1, SyscallIn, Empty, FetchMoves
    <2> QED BY <1>1, <2>1, <2>2, <2>3, <2>4, <2>5, <2>6 DEF FlightInv
  <1> QED BY <1>2, <1>3 DEF Memory

\* WB emulates the call once it has captured it, and only then unlocks.
LEMMA FlightWriteback ==
  ASSUME FlightInv, Writeback
  PROVE  FlightInv'
  <1>1. /\ "WB" \in todo /\ todo' = todo \ {"WB"} /\ phase' = phase
        /\ UNCHANGED <<lock_pipeline_data, isSyscall, fd, de, em, mw,
                       fetch, dloc, eloc, mloc>>
    BY DEF Writeback, WbPhi0, WbSyscall, Trap, WbIllegal, WbNothing, Runs, timeVars,
           lockVars, latchVars, locVars
  <1>2. CASE WbPhi0
    <2>1. phase = 0 /\ lock_pipeline_sys' = lock_pipeline_sys /\ wloc' = mw
      BY <1>2 DEF WbPhi0, Runs, lockVars
    <2>2. Copied /\ (NoCall0 \/ Decoded0 \/ Executed0 \/ Reached0)
      BY <2>1 DEF FlightInv
    <2>3. Copied'
      BY <1>1, <2>1, <2>2 DEF Copied
    <2>4. NoCall0 => NoCall0'
      BY <1>1, <2>1 DEF NoCall0, SyscallIn
    <2>5. Decoded0 => Decoded0'
      BY <1>1, <2>1 DEF Decoded0, SyscallIn, Empty, FetchMoves
    <2>6. Executed0 => Executed0'
      BY <1>1, <2>1 DEF Executed0, SyscallIn, Empty
    <2>7. Reached0 => Reached0'
      BY <1>1, <2>1 DEF Reached0, SyscallIn, Empty, FetchMoves
    <2> QED BY <1>1, <2>1, <2>2, <2>3, <2>4, <2>5, <2>6, <2>7 DEF FlightInv
  <1>3. CASE WbSyscall \/ WbIllegal \/ WbNothing
    <2>1. /\ phase = 1 /\ wloc' = wloc
          /\ \/ SyscallIn(wloc) /\ lock_pipeline_sys' = FALSE
             \/ ~SyscallIn(wloc) /\ lock_pipeline_sys' = lock_pipeline_sys
      BY <1>3 DEF WbSyscall, Trap, WbIllegal, WbNothing, Runs, locVars, lockVars,
                  SyscallIn, IsSyscall, IsIllegalOp
    <2>2. NoCall1 \/ InExe1 \/ InMem1 \/ InWb1
      BY <2>1 DEF FlightInv
    <2>3. NoCall1 => NoCall1'
      BY <1>1, <2>1 DEF NoCall1, SyscallIn
    <2>4. InExe1 => InExe1'
      BY <1>1, <2>1 DEF InExe1, SyscallIn, Empty, FetchMoves
    <2>5. InMem1 => InMem1'
      BY <1>1, <2>1 DEF InMem1, SyscallIn, Empty, FetchMoves
    <2>6. InWb1 => InWb1'
      BY <1>1, <2>1 DEF InWb1, SyscallIn, Empty, FetchMoves
    <2> QED BY <1>1, <2>1, <2>2, <2>3, <2>4, <2>5, <2>6 DEF FlightInv
  <1> QED BY <1>2, <1>3 DEF Writeback

\* FlightInv is inductive relative to TypeOK and SquashInv.
LEMMA FlightStep == TypeOK /\ SquashInv /\ FlightInv /\ [Next]_vars => FlightInv'
  <1> SUFFICES ASSUME TypeOK, SquashInv, FlightInv, [Next]_vars PROVE FlightInv'
    OBVIOUS
  <1>1. CASE UNCHANGED vars
    BY <1>1 DEF vars, lockVars, latchVars, timeVars, locVars, FlightInv, Copied,
                NoCall0, Decoded0, Executed0, Reached0, NoCall1, InExe1, InMem1, InWb1,
                SyscallIn, Empty, FetchMoves
  <1> QED BY <1>1, FlightTick, FlightFetch, FlightDecode, FlightExe, FlightMemory,
             FlightWriteback DEF Next, Stopped

\* At most one system call is in the pipeline, followed by bubbles, and the
\* lock and the state of FETCH follow its position.
THEOREM FlightHolds == Spec => []FlightInv
  BY FlightInit, FlightStep, TypeCorrect, SquashHolds, PTL DEF Spec

\* When WB emulates a system call (wb.cc:69-75) every other stage holds a
\* bubble, for every program and every order of the tasks.
THEOREM SyscallDrainedHolds == Spec => []SyscallDrained
  <1>1. FlightInv => SyscallDrained
    BY DEF FlightInv, NoCall1, InExe1, InMem1, InWb1, Empty, SyscallDrained
  <1> QED BY <1>1, FlightHolds, PTL

\* At the end of a cycle lock_pipeline_sys is raised if and only if a system
\* call is in one of de, em and mw, and then in exactly one of them.
THEOREM LockMatchesFlightHolds == Spec => []LockMatchesFlight
  <1>1. FlightInv => LockMatchesFlight
    <2> SUFFICES ASSUME FlightInv, phase = 1, todo = {}
                 PROVE  /\ lock_pipeline_sys <=> Holders # {}
                        /\ \A s, t \in Holders : s = t
      BY DEF LockMatchesFlight
    <2>1. NoCall1 \/ InExe1 \/ InMem1 \/ InWb1
      BY DEF FlightInv
    <2>2. CASE NoCall1
      BY <2>2 DEF NoCall1, Holders, Task
    <2>3. CASE InExe1
      BY <2>3, NopIsNoCall DEF InExe1, Holders, Task, SyscallIn, Empty
    <2>4. CASE InMem1
      BY <2>4, NopIsNoCall DEF InMem1, Holders, Task, SyscallIn, Empty
    <2>5. CASE InWb1
      BY <2>5, NopIsNoCall DEF InWb1, Holders, Task, SyscallIn, Empty
    <2> QED BY <2>1, <2>2, <2>3, <2>4, <2>5
  <1> QED BY <1>1, FlightHolds, PTL

-----------------------------------------------------------------------------
(***************************************************************************)
(* What the simulator prints is exact: LatchInv, SlotInv, CountInv, QuitInv*)
(* and CycleInv are invariants, and the number of instructions and of      *)
(* cycles follow from them.                                                *)
(***************************************************************************)
\* The bubble neither branches nor belongs to an instruction class that
\* stalls, retires late or stops the simulation.
LEMMA NopClasses ==
  /\ ~IsSyscall(Nop) /\ ~IsIllegalOp(Nop) /\ ~IsStore(Nop)
  /\ \A prev : ~NeedsInterlock(Nop, prev)
  BY ConstantsOK DEF Nop, IsSyscall, IsIllegalOp, IsStore, StoreOps, NeedsInterlock, RsNum,
         RtNum, AluR

\* EXE takes a branch only for a branch or a jump.
LEMMA ExecutedFields ==
  ASSUME NEW d
  PROVE  /\ Executed(d).ins = d.ins /\ Executed(d).v = d.v /\ Executed(d).pc = d.pc
         /\ Branching(Executed(d))
  BY DEF Executed, Branching, Branches

-----------------------------------------------------------------------------
(***************************************************************************)
(* What a task does in a half cycle, to the variables that tell which      *)
(* instruction is where.                                                   *)
(***************************************************************************)
\* FETCH samples the lock, fetches, or takes a step of its pause.
LEMMA FetchEffect ==
  ASSUME Fetch
  PROVE  /\ ~exited /\ "FETCH" \in todo /\ todo' = todo \ {"FETCH"}
         /\ phase' = phase /\ cycle' = cycle
         /\ UNCHANGED <<code, lock_pipeline_sys, lock_pipeline_data, isSyscall, de, em, mw,
                        dloc, eloc, mloc, wloc, sim_exit, apc, anpc, hist>>
         /\ \/ /\ phase = 0 /\ fetch' = IF lock_pipeline_sys THEN "locked" ELSE "open"
               /\ UNCHANGED <<fd, pc, nfetched, exited>>
            \/ /\ phase = 1 /\ fetch = "open" /\ fetch' = "open"
               /\ fd'.ins = code[pc] /\ fd'.pc = pc /\ fd'.v = TRUE
               /\ nfetched' = nfetched + 1 /\ pc' = (pc + 1) % M /\ exited' = sim_exit
            \/ /\ phase = 1 /\ fetch = "locked" /\ fetch' = "paused"
               /\ UNCHANGED <<fd, pc, nfetched, exited>>
            \/ /\ phase = 1 /\ fetch = "paused" /\ fetch' = "open" /\ exited' = sim_exit
               /\ UNCHANGED <<fd, pc, nfetched>>
  BY DEF Fetch, FetchPhi0, SampledLock, FetchInstruction, FetchPause, FetchWaits,
         FetchResume, Runs, timeVars, lockVars, latchVars, statVars, exitVars, locVars,
         histVars

\* DECODE PHI0 puts the stalled instruction back, or empties the latch behind
\* a system call, or leaves everything alone.
LEMMA SquashEffect ==
  ASSUME TypeOK, SquashInv, DecodePhi0
  PROVE  /\ ~exited /\ phase = 0 /\ phase' = 0 /\ "DECODE" \in todo
         /\ todo' = todo \ {"DECODE"}
         /\ ~lock_pipeline_data' /\ ~isSyscall'
         /\ dloc'.ins = fd'.ins /\ dloc'.v = fd'.v /\ dloc'.pc = fd'.pc
         /\ UNCHANGED <<code, lock_pipeline_sys, de, em, mw, cycle, sim_exit, exited, fetch,
                        eloc, mloc, wloc, apc, anpc>>
         /\ hist'.retired = hist.retired /\ hist'.syscalls = hist.syscalls
         /\ \/ /\ lock_pipeline_data /\ ~isSyscall
               /\ fd'.ins = de.store_ins /\ fd'.pc = de.store_pc /\ fd'.v = TRUE
               /\ pc' = fd.pc /\ nfetched' = nfetched - 1
               /\ hist'.stalls = hist.stalls + 1
            \/ /\ ~lock_pipeline_data /\ isSyscall
               /\ Empty(fd') /\ fd'.pc = fd.pc
               /\ pc' = fd.pc /\ nfetched' = nfetched - 1
               /\ hist'.stalls = hist.stalls
            \/ /\ ~lock_pipeline_data /\ ~isSyscall
               /\ UNCHANGED <<fd, pc, nfetched>> /\ hist'.stalls = hist.stalls
  <1>1. /\ ~exited /\ phase = 0 /\ phase' = 0 /\ "DECODE" \in todo
        /\ todo' = todo \ {"DECODE"}
        /\ dloc'.ins = fd'.ins /\ dloc'.v = fd'.v /\ dloc'.pc = fd'.pc
        /\ UNCHANGED <<code, lock_pipeline_sys, de, em, mw, cycle, sim_exit, exited, fetch,
                       eloc, mloc, wloc, apc, anpc>>
        /\ RedoStalled \/ DropFetched \/ KeepFetched
    BY Zenon DEF DecodePhi0, Capture, Runs, timeVars, exitVars
  <1>2. hist \in [retired : Nat, syscalls : Nat, stalls : Nat]
        /\ lock_pipeline_data \in BOOLEAN /\ isSyscall \in BOOLEAN
    BY DEF TypeOK, ControlTypeOK
  <1>3. ~(lock_pipeline_data /\ isSyscall)
    BY DEF SquashInv, OneSquash
  <1>4. CASE RedoStalled
    BY <1>1, <1>2, <1>3, <1>4 DEF RedoStalled, TakeBack, DiscardedPC, Uncounted
  <1>5. CASE DropFetched
    <2>1. Empty(DiscardedFetch) /\ DiscardedFetch.pc = fd.pc
      BY DEF TypeOK, FDType, DiscardedFetch, Empty
    <2> QED BY <1>1, <1>5, <2>1 DEF DropFetched, TakeBack, DiscardedPC, Uncounted
  <1>6. CASE KeepFetched
    BY <1>1, <1>6 DEF KeepFetched, statVars
  <1> QED BY <1>1, <1>4, <1>5, <1>6

\* DECODE PHI1 stalls the captured instruction behind a bubble, or passes it
\* on; a bubble never stalls.
LEMMA PassEffect ==
  ASSUME TypeOK, DecodePhi1
  PROVE  /\ ~exited /\ phase = 1 /\ phase' = 1 /\ "DECODE" \in todo
         /\ todo' = todo \ {"DECODE"}
         /\ UNCHANGED <<code, pc, fd, em, mw, nfetched, cycle, sim_exit, exited, fetch,
                        dloc, eloc, mloc, wloc, apc, anpc, hist>>
         /\ lock_pipeline_sys' = (lock_pipeline_sys \/ IsSyscall(dloc.ins))
         /\ isSyscall' = (isSyscall \/ IsSyscall(dloc.ins))
         /\ \/ /\ lock_pipeline_data' = TRUE /\ Empty(de')
               /\ de'.store_ins = dloc.ins /\ de'.store_pc = dloc.pc
               /\ dloc.ins # Nop /\ ~IsSyscall(dloc.ins)
            \/ /\ lock_pipeline_data' = FALSE
               /\ de'.ins = dloc.ins /\ de'.v = dloc.v /\ de'.pc = dloc.pc
  <1>1. PICK g \in SubregGarbage :
          LET d == Decoded(dloc.ins, g)
          IN /\ de' = IF Stalls(d.ins, dloc.prev_ex) THEN Bubble(d) ELSE d
             /\ lock_pipeline_data' = Stalls(d.ins, dloc.prev_ex)
             /\ lock_pipeline_sys' = (lock_pipeline_sys \/ IsSyscall(d.ins))
             /\ isSyscall' = (isSyscall \/ IsSyscall(d.ins))
    BY DEF DecodePhi1
  <1> DEFINE d == Decoded(dloc.ins, g)
  <1>2. d \in DEType
    BY DecodedType, PipelineOK DEF TypeOK, DlocType
  <1>3. d.ins = dloc.ins /\ d.v = dloc.v /\ d.pc = dloc.pc
    BY DEF Decoded
  <1> HIDE DEF d
  <1>4. /\ de' = IF Stalls(d.ins, dloc.prev_ex) THEN Bubble(d) ELSE d
        /\ lock_pipeline_data' = Stalls(d.ins, dloc.prev_ex)
        /\ lock_pipeline_sys' = (lock_pipeline_sys \/ IsSyscall(d.ins))
        /\ isSyscall' = (isSyscall \/ IsSyscall(d.ins))
    BY <1>1 DEF d
  <1>5. Empty(Bubble(d)) /\ Bubble(d).store_ins = d.ins /\ Bubble(d).store_pc = d.pc
    BY <1>2 DEF DEType, Bubble, Empty
  <1>6. Stalls(d.ins, dloc.prev_ex) => d.ins # Nop /\ ~IsSyscall(d.ins)
    BY NopClasses DEF Stalls
  <1>7. /\ ~exited /\ phase = 1 /\ phase' = 1 /\ "DECODE" \in todo
        /\ todo' = todo \ {"DECODE"}
        /\ UNCHANGED <<code, pc, fd, em, mw, nfetched, cycle, sim_exit, exited, fetch,
                       dloc, eloc, mloc, wloc, apc, anpc, hist>>
    BY DEF DecodePhi1, Runs, timeVars, statVars, exitVars, locVars, histVars
  <1>8. Stalls(d.ins, dloc.prev_ex) \in BOOLEAN
    BY DEF Stalls
  <1> QED BY <1>3, <1>4, <1>5, <1>6, <1>7, <1>8

\* EXE executes what de holds and redirects the program counter, then passes
\* the result on.
LEMMA ExeEffect ==
  ASSUME Exe
  PROVE  /\ ~exited /\ "EXE" \in todo /\ todo' = todo \ {"EXE"}
         /\ phase' = phase /\ cycle' = cycle
         /\ UNCHANGED <<code, lock_pipeline_sys, lock_pipeline_data, isSyscall, fd, de, mw,
                        nfetched, sim_exit, exited, fetch, dloc, mloc, wloc, apc, anpc, hist>>
         /\ \/ /\ phase = 0 /\ em' = em /\ eloc' = Executed(de)
               /\ pc' = IF eloc'.btaken THEN eloc'.btgt ELSE pc
            \/ phase = 1 /\ em' = eloc /\ eloc' = eloc /\ pc' = pc
  BY DEF Exe, ExePhi0, ExePhi1, Runs, timeVars, lockVars, latchVars, statVars, exitVars,
         locVars, histVars

\* MEM passes on what it captured, a load's result apart, and retires a store.
LEMMA MemEffect ==
  ASSUME TypeOK, Memory
  PROVE  /\ ~exited /\ "MEM" \in todo /\ todo' = todo \ {"MEM"}
         /\ phase' = phase /\ cycle' = cycle
         /\ UNCHANGED <<code, pc, lock_pipeline_sys, lock_pipeline_data, isSyscall, fd, de, em,
                        nfetched, sim_exit, exited, fetch, dloc, eloc, wloc>>
         /\ \/ phase = 0 /\ mloc' = em /\ mw' = mw /\ UNCHANGED <<apc, anpc, hist>>
            \/ /\ phase = 1 /\ mloc' = mloc
               /\ mw'.ins = mloc.ins /\ mw'.v = mloc.v /\ mw'.pc = mloc.pc
               /\ mw'.btaken = mloc.btaken /\ mw'.btgt = mloc.btgt
               /\ IF IsStore(mloc.ins) THEN Retire(mloc) ELSE UNCHANGED <<apc, anpc, hist>>
  <1>1. /\ ~exited /\ "MEM" \in todo /\ todo' = todo \ {"MEM"}
        /\ phase' = phase /\ cycle' = cycle
        /\ UNCHANGED <<code, pc, lock_pipeline_sys, lock_pipeline_data, isSyscall, fd, de, em,
                       nfetched, sim_exit, exited, fetch, dloc, eloc, wloc>>
    BY Zenon DEF Memory, MemPhi0, MemStore, MemLoad, MemNothing, Runs, timeVars, lockVars,
                 latchVars, exitVars, locVars, statVars
  <1>2. CASE MemPhi0
    BY <1>1, <1>2 DEF MemPhi0, Runs, latchVars, histVars
  <1>3. CASE MemStore
    BY <1>1, <1>3, Zenon DEF MemStore, Runs, locVars
  <1>4. CASE MemLoad
    <2>1. \A x : LET l == [mloc EXCEPT !.resLo = x]
                 IN /\ l.ins = mloc.ins /\ l.v = mloc.v /\ l.pc = mloc.pc
                    /\ l.btaken = mloc.btaken /\ l.btgt = mloc.btgt
      BY DEF TypeOK, EMType
    <2>2. \E x : mw' = [mloc EXCEPT !.resLo = x]
      BY <1>4, Zenon DEF MemLoad
    <2>3. ~IsStore(mloc.ins)
      BY <1>4 DEF MemLoad, IsStore, LoadOps, IntLoads, SubregLoads, StoreOps
    <2>4. phase = 1 /\ mloc' = mloc /\ UNCHANGED <<apc, anpc, hist>>
      BY <1>4, Zenon DEF MemLoad, Runs, locVars, histVars
    <2>5. /\ mw'.ins = mloc.ins /\ mw'.v = mloc.v /\ mw'.pc = mloc.pc
          /\ mw'.btaken = mloc.btaken /\ mw'.btgt = mloc.btgt
      BY <2>1, <2>2, Zenon
    <2> QED BY <1>1, <2>3, <2>4, <2>5
  <1>5. CASE MemNothing
    <2>1. ~IsStore(mloc.ins) /\ mw' = mloc
      BY <1>5 DEF MemNothing, IsStore, MemControl
    <2>2. phase = 1 /\ mloc' = mloc /\ UNCHANGED <<apc, anpc, hist>>
      BY <1>5, Zenon DEF MemNothing, Runs, locVars, histVars
    <2> QED BY <1>1, <2>1, <2>2
  <1> QED BY <1>2, <1>3, <1>4, <1>5 DEF Memory

\* The classes of instructions that retire elsewhere than WB are disjoint.
LEMMA ClassesDisjoint ==
  ASSUME NEW i
  PROVE  /\ IsStore(i) => ~IsSyscall(i) /\ ~IsIllegalOp(i)
         /\ ~(IsSyscall(i) /\ IsIllegalOp(i))
  BY DEF IsStore, StoreOps, IsSyscall, IsIllegalOp

\* The types the sums need.
LEMMA CountTypes ==
  ASSUME TypeOK
  PROVE  /\ nfetched \in Int /\ hist.retired \in Int /\ hist.stalls \in Int
         /\ hist.syscalls \in Int /\ cycle \in Int /\ phase \in {0, 1}
         /\ lock_pipeline_data \in BOOLEAN /\ isSyscall \in BOOLEAN
         /\ fd.v \in BOOLEAN /\ de.v \in BOOLEAN /\ em.v \in BOOLEAN /\ mw.v \in BOOLEAN
         /\ dloc.v \in BOOLEAN /\ eloc.v \in BOOLEAN /\ mloc.v \in BOOLEAN
         /\ wloc.v \in BOOLEAN /\ fetch \in {"open", "locked", "paused"}
         /\ sim_exit \in BOOLEAN /\ exited \in BOOLEAN /\ lock_pipeline_sys \in BOOLEAN
  BY DEF TypeOK, ControlTypeOK, FDType, DEType, EMType, DlocType

\* What retiring an instruction does to the counters.
LEMMA RetireEffect ==
  ASSUME TypeOK, NEW l, Retire(l)
  PROVE  /\ apc' = anpc
         /\ anpc' = IF l.btaken THEN l.btgt ELSE (anpc + 1) % M
         /\ hist'.retired = hist.retired + 1
         /\ hist'.stalls = hist.stalls /\ hist'.syscalls = hist.syscalls
  BY DEF Retire, TypeOK, ControlTypeOK

\* What retiring a system call does to the counters.
LEMMA CallEffect ==
  ASSUME TypeOK, hist' = [hist EXCEPT !.retired = @ + 1, !.syscalls = @ + 1]
  PROVE  /\ hist'.retired = hist.retired + 1 /\ hist'.syscalls = hist.syscalls + 1
         /\ hist'.stalls = hist.stalls
  BY DEF TypeOK, ControlTypeOK

\* WB captures and retires in PHI0, and in PHI1 emulates a system call or
\* stops at an illegal instruction.
LEMMA WbEffect ==
  ASSUME TypeOK, Writeback
  PROVE  /\ ~exited /\ "WB" \in todo /\ todo' = todo \ {"WB"}
         /\ phase' = phase /\ cycle' = cycle
         /\ UNCHANGED <<code, pc, lock_pipeline_data, isSyscall, fd, de, em, mw,
                        nfetched, fetch, dloc, eloc, mloc>>
         /\ \/ /\ phase = 0 /\ wloc' = mw /\ UNCHANGED <<lock_pipeline_sys, sim_exit, exited>>
               /\ IF mw.v /\ ~IsStore(mw.ins) /\ ~IsSyscall(mw.ins) /\ ~IsIllegalOp(mw.ins)
                  THEN Retire(mw) ELSE UNCHANGED <<apc, anpc, hist>>
            \/ /\ phase = 1 /\ wloc' = wloc /\ exited' = exited /\ IsSyscall(wloc.ins)
               /\ apc' = anpc /\ anpc' = (anpc + 1) % M
               /\ hist'.retired = hist.retired + 1 /\ hist'.syscalls = hist.syscalls + 1
               /\ hist'.stalls = hist.stalls
            \/ /\ phase = 1 /\ wloc' = wloc /\ ~IsSyscall(wloc.ins)
               /\ exited' = (exited \/ IsIllegalOp(wloc.ins))
               /\ UNCHANGED <<lock_pipeline_sys, sim_exit, apc, anpc, hist>>
  <1>1. /\ ~exited /\ "WB" \in todo /\ todo' = todo \ {"WB"} /\ phase' = phase /\ cycle' = cycle
        /\ UNCHANGED <<code, pc, lock_pipeline_data, isSyscall, fd, de, em, mw,
                       nfetched, fetch, dloc, eloc, mloc>>
    BY Zenon DEF Writeback, WbPhi0, WbSyscall, Trap, WbIllegal, WbNothing, Runs, timeVars,
                 lockVars, latchVars, exitVars, locVars, statVars
  <1>2. CASE WbPhi0
    <2>1. IF mw.v /\ ~IsStore(mw.ins) /\ ~IsSyscall(mw.ins) /\ ~IsIllegalOp(mw.ins)
          THEN Retire(mw) ELSE UNCHANGED histVars
      BY <1>2, Zenon DEF WbPhi0
    <2>2. phase = 0 /\ wloc' = mw /\ UNCHANGED <<lock_pipeline_sys, sim_exit, exited>>
      BY <1>2, Zenon DEF WbPhi0, Runs, lockVars, exitVars
    <2> QED BY <1>1, <2>1, <2>2 DEF histVars
  <1>3. CASE WbSyscall
    <2>1. /\ phase = 1 /\ wloc' = wloc /\ exited' = exited /\ IsSyscall(wloc.ins)
          /\ apc' = anpc /\ anpc' = (anpc + 1) % M
          /\ hist' = [hist EXCEPT !.retired = @ + 1, !.syscalls = @ + 1]
      BY <1>3, Zenon DEF WbSyscall, Trap, Runs, locVars
    <2>2. /\ hist'.retired = hist.retired + 1 /\ hist'.syscalls = hist.syscalls + 1
          /\ hist'.stalls = hist.stalls
      BY <2>1, CallEffect
    <2> QED BY <1>1, <2>1, <2>2
  <1>4. CASE WbIllegal
    BY <1>1, <1>4, ClassesDisjoint DEF WbIllegal, Runs, lockVars, locVars, histVars
  <1>5. CASE WbNothing
    BY <1>1, <1>5, CountTypes DEF WbNothing, Runs, lockVars, exitVars, locVars, histVars
  <1> QED BY <1>2, <1>3, <1>4, <1>5 DEF Writeback

-----------------------------------------------------------------------------
(***************************************************************************)
(* LatchInv: what carries no instruction is the bubble.                    *)
(***************************************************************************)
\* The simulation starts with bubbles only.
LEMMA LatchInit == Init => LatchInv
  BY DEF Init, LatchInv, Marked, Branching, EmptyFD, EmptyDE, EmptyEM, EmptyDloc

\* LatchInv is inductive: a latch is filled by FETCH with an instruction, by
\* DECODE with a bubble, and by everyone else with the latch before it.
LEMMA LatchStep == TypeOK /\ SquashInv /\ LatchInv /\ [Next]_vars => LatchInv'
  <1> SUFFICES ASSUME TypeOK, SquashInv, LatchInv, [Next]_vars PROVE LatchInv'
    OBVIOUS
  <1>1. CASE UNCHANGED <<fd, de, em, mw, dloc, eloc, mloc, wloc>>
    BY <1>1 DEF LatchInv, Marked, Branching
  <1>2. CASE UNCHANGED vars \/ Stopped \/ Tick
    BY <1>1, <1>2 DEF vars, Stopped, Tick, latchVars, locVars
  <1>3. CASE Fetch
    <2>1. UNCHANGED <<de, em, mw, dloc, eloc, mloc, wloc>> /\ (fd' = fd \/ fd'.v = TRUE)
      BY <1>3, FetchEffect, Zenon
    <2> QED BY <2>1 DEF LatchInv, Marked, Branching
  <1>4. CASE DecodePhi0
    <2>1. Marked(fd') /\ Marked(dloc')
      BY <1>4, SquashEffect DEF LatchInv, Marked, Empty
    <2> QED BY <1>4, <2>1, SquashEffect DEF LatchInv, Marked, Branching
  <1>5. CASE DecodePhi1
    <2>1. Marked(de')
      BY <1>5, PassEffect DEF LatchInv, Marked, Empty
    <2> QED BY <1>5, <2>1, PassEffect DEF LatchInv, Marked, Branching
  <1>6. CASE Exe
    <2>1. Marked(Executed(de)) /\ Branching(Executed(de))
      BY ExecutedFields DEF LatchInv, Marked
    <2> QED BY <1>6, <2>1, ExeEffect DEF LatchInv, Marked, Branching
  <1>7. CASE Memory
    BY <1>7, MemEffect DEF LatchInv, Marked, Branching
  <1>8. CASE Writeback
    <2>1. UNCHANGED <<fd, de, em, mw, dloc, eloc, mloc>> /\ (wloc' = wloc \/ wloc' = mw)
      BY <1>8, WbEffect, Zenon
    <2> QED BY <2>1 DEF LatchInv, Marked, Branching
  <1> QED BY <1>2, <1>3, <1>4, <1>5, <1>6, <1>7, <1>8 DEF Next, Decode

\* A latch or a local that carries no instruction of the program holds the
\* bubble, and only a branch or a jump is marked as taken.
THEOREM LatchHolds == Spec => []LatchInv
  BY LatchInit, LatchStep, TypeCorrect, SquashHolds, PTL DEF Spec

-----------------------------------------------------------------------------
(***************************************************************************)
(* SlotInv: FETCH stands still only when DECODE has nothing.               *)
(***************************************************************************)
\* Tick changes the half cycle and nothing in the pipeline.
LEMMA TickEffect ==
  ASSUME TypeOK, Tick
  PROVE  /\ ~exited /\ todo = {} /\ "DECODE" \in todo' /\ "EXE" \in todo'
         /\ "MEM" \in todo' /\ "WB" \in todo'
         /\ UNCHANGED <<code, pc, lock_pipeline_sys, lock_pipeline_data, isSyscall, fd, de, em,
                        mw, nfetched, sim_exit, exited, fetch, dloc, eloc, mloc, wloc, apc,
                        anpc, hist>>
         /\ \/ phase = 0 /\ phase' = 1 /\ cycle' = cycle /\ "FETCH" \in todo'
            \/ /\ phase = 1 /\ phase' = 0 /\ cycle' = cycle + 1
               /\ "FETCH" \in todo' <=> fetch # "paused"
  BY DEF Tick, Task, TypeOK, ControlTypeOK, lockVars, latchVars, statVars, exitVars, locVars,
         histVars

\* No squash is pending and FETCH is not paused when the simulation starts.
LEMMA SlotInit == Init => SlotInv
  BY DEF Init, SlotInv, EmptyDE, Task

\* SlotInv is inductive.
LEMMA SlotStep ==
  TypeOK /\ SquashInv /\ FlightInv /\ LatchInv /\ SlotInv /\ [Next]_vars => SlotInv'
  <1> SUFFICES ASSUME TypeOK, SquashInv, FlightInv, LatchInv, SlotInv, [Next]_vars
               PROVE SlotInv'
    OBVIOUS
  <1>0. phase \in {0, 1} /\ fd.v \in BOOLEAN /\ de.v \in BOOLEAN
        /\ lock_pipeline_data \in BOOLEAN /\ isSyscall \in BOOLEAN
    BY DEF TypeOK, ControlTypeOK, FDType, DEType
  <1>1. CASE UNCHANGED vars \/ Stopped
    BY <1>1 DEF vars, Stopped, latchVars, locVars, lockVars, timeVars, SlotInv, Empty,
                SyscallIn
  <1>2. CASE Tick
    <2>1. CASE phase = 0
      <3>1. phase' = 1 /\ Copied /\ ~lock_pipeline_data /\ ~isSyscall
        BY <1>2, <2>1, TickEffect DEF FlightInv, SquashInv
      <3>2. dloc.ins = fd.ins /\ dloc.v = fd.v
        BY <1>2, <3>1, TickEffect DEF Copied
      <3>3. fetch = "open" \/ Empty(fd)
        BY <1>2, <2>1, TickEffect DEF FlightInv, NoCall0, Decoded0, Executed0, Reached0, SlotInv
      <3> QED BY <1>2, <3>1, <3>2, <3>3, TickEffect DEF SlotInv, Empty
    <2>2. CASE phase = 1
      BY <1>0, <1>2, <2>2, TickEffect DEF SlotInv, Empty
    <2> QED BY <1>0, <2>1, <2>2
  <1>3. CASE Fetch
    <2>1. /\ phase' = phase /\ "FETCH" \notin todo' /\ "FETCH" \in todo
          /\ "DECODE" \in todo' <=> "DECODE" \in todo
          /\ UNCHANGED <<lock_pipeline_data, isSyscall, de, dloc>>
      BY <1>3, FetchEffect
    <2>2. \/ phase = 0 /\ fetch' \in {"open", "locked"} /\ fd' = fd
          \/ phase = 1 /\ fetch' = "open" /\ fd'.v = TRUE
          \/ phase = 1 /\ fetch # "open" /\ fd' = fd
      BY <1>3, FetchEffect
    <2> QED BY <1>0, <2>1, <2>2 DEF SlotInv, Empty, SyscallIn
  <1>4. CASE DecodePhi0
    <2>1. isSyscall => SyscallIn(de) /\ ~lock_pipeline_data
      BY DEF SquashInv, OneSquash
    <2>2. ~isSyscall' /\ ~lock_pipeline_data'
      BY <1>4, SquashEffect
    <2>3. /\ phase = 0 /\ phase' = 0 /\ dloc'.pc = fd'.pc
          /\ "DECODE" \in todo /\ "DECODE" \notin todo'
          /\ UNCHANGED <<de, fetch>>
      BY <1>4, SquashEffect
    <2>4. \/ lock_pipeline_data /\ fd'.v = TRUE
          \/ isSyscall /\ Empty(fd')
          \/ ~lock_pipeline_data /\ ~isSyscall /\ fd' = fd
      BY <1>4, SquashEffect, Zenon
    <2>5. CASE lock_pipeline_data /\ fd'.v = TRUE
      BY <1>0, <2>2, <2>3, <2>5 DEF SlotInv, Empty
    <2>6. CASE isSyscall /\ Empty(fd')
      BY <1>0, <2>1, <2>2, <2>3, <2>6 DEF SlotInv, Empty, SyscallIn
    <2>7. CASE ~lock_pipeline_data /\ ~isSyscall /\ fd' = fd
      BY <1>0, <2>2, <2>3, <2>7 DEF SlotInv, Empty, SyscallIn
    <2> QED BY <2>4, <2>5, <2>6, <2>7
  <1>5. CASE DecodePhi1
    <2>1. ~lock_pipeline_data /\ ~isSyscall
      BY <1>5, PassEffect DEF SquashInv
    <2>2. Empty(dloc) => ~de'.v /\ ~lock_pipeline_data' /\ ~isSyscall'
      BY <1>5, <2>1, PassEffect, NopClasses DEF Empty
    <2>3. /\ phase = 1 /\ phase' = 1 /\ "DECODE" \in todo /\ "DECODE" \notin todo'
          /\ "FETCH" \in todo' <=> "FETCH" \in todo
          /\ UNCHANGED <<fd, fetch>>
      BY <1>5, PassEffect
    <2>4. lock_pipeline_data' => ~de'.v
      BY <1>5, PassEffect DEF Empty
    <2> QED BY <1>0, <2>2, <2>3, <2>4 DEF SlotInv, Empty
  <1>6. CASE Exe
    BY <1>6, ExeEffect DEF SlotInv, Empty, SyscallIn
  <1>7. CASE Memory
    BY <1>7, MemEffect DEF SlotInv, Empty, SyscallIn
  <1>8. CASE Writeback
    BY <1>8, WbEffect DEF SlotInv, Empty, SyscallIn
  <1> QED BY <1>1, <1>2, <1>3, <1>4, <1>5, <1>6, <1>7, <1>8 DEF Next, Decode

\* While a squash is pending the fetch to be taken back has been made, and
\* behind a branch in EXE there is its delay slot (decode.cc:186-201,
\* mips.cc:54-72).
THEOREM SlotHolds == Spec => []SlotInv
  BY SlotInit, SlotStep, TypeCorrect, SquashHolds, FlightHolds, LatchHolds, PTL DEF Spec

-----------------------------------------------------------------------------
(***************************************************************************)
(* CountInv: what was fetched has retired or is in flight.                 *)
(***************************************************************************)
\* The simulation starts with nothing fetched and nothing in flight.
LEMMA CountInit == Init => CountInv
  BY DEF Init, CountInv, InFlight0, Unretired, Held, One, EmptyFD, EmptyDE, EmptyEM

\* A new half cycle moves every instruction from a latch to the task that
\* captured it, or to the next latch.
LEMMA CountTick ==
  ASSUME TypeOK, SquashInv, FlightInv, CountInv, Tick
  PROVE  CountInv'
  <1>1. CASE phase = 0
    <2>1. /\ phase' = 1 /\ ~lock_pipeline_data
          /\ dloc.v = fd.v /\ eloc.v = de.v /\ mloc = em /\ wloc = mw
      BY <1>1, TickEffect DEF FlightInv, SquashInv, Copied
    <2>2. nfetched = hist.retired + One(fd.v) + One(de.v) + One(em.v) + One(Held(mw))
      BY <1>1, <2>1, TickEffect, CountTypes DEF CountInv, InFlight0, One
    <2>3. InFlight1' = One(dloc.v) + One(eloc.v) + One(mloc.v) + One(Held(wloc))
      BY <1>1, <2>1, TickEffect, CountTypes DEF InFlight1, One, Held
    <2> QED BY <2>1, <2>2, <2>3, TickEffect, CountTypes DEF CountInv, One
  <1>2. CASE phase = 1
    <2>1. phase' = 0
      BY <1>2, TickEffect
    <2>2. nfetched = hist.retired + One(fd.v) + One(de.v \/ lock_pipeline_data) + One(em.v)
                       + One(Unretired(mw))
      BY <1>2, TickEffect, CountTypes DEF CountInv, InFlight1, One
    <2>3. InFlight0' = One(fd.v) + One(de.v \/ lock_pipeline_data) + One(em.v)
                         + One(Unretired(mw))
      BY <1>2, TickEffect, CountTypes DEF InFlight0, One, Unretired
    <2> QED BY <2>1, <2>2, <2>3, TickEffect, CountTypes DEF CountInv, One
  <1> QED BY <1>1, <1>2, CountTypes

\* FETCH counts an instruction when it puts it into the empty slot.
LEMMA CountFetch ==
  ASSUME TypeOK, SlotInv, CountInv, Fetch
  PROVE  CountInv'
  <1>1. /\ "FETCH" \in todo /\ "FETCH" \notin todo' /\ phase' = phase
        /\ todo' = todo \ {"FETCH"}
        /\ UNCHANGED <<lock_pipeline_data, de, em, mw, dloc, eloc, mloc, wloc, hist>>
    BY FetchEffect
  <1>2. CASE phase = 0
    <2>1. fd' = fd /\ nfetched' = nfetched /\ exited' = exited
      BY <1>2, FetchEffect
    <2> QED BY <1>1, <1>2, <2>1 DEF CountInv, InFlight0, Unretired, Held
  <1>3. CASE phase = 1 /\ fetch = "open"
    <2>1. fd'.v = TRUE /\ nfetched' = nfetched + 1
      <3>1. phase # 0 /\ fetch # "locked" /\ fetch # "paused"
        BY <1>3
      <3> QED BY <3>1, FetchEffect, Zenon
    <2>2. InFlight1' = InFlight1 + 1
      BY <1>1, <2>1, CountTypes DEF InFlight1, Unretired, Held, One
    <2>3. ~exited /\ phase' = 1
      BY <1>1, <1>3, FetchEffect
    <2>4. InFlight1 \in Int
      BY DEF InFlight1, One
    <2> QED BY <1>3, <2>1, <2>2, <2>3, <2>4, <1>1, CountTypes DEF CountInv
  <1>4. CASE phase = 1 /\ fetch # "open"
    <2>1. ~fd.v
      BY <1>4 DEF SlotInv, Empty
    <2>2. fd' = fd /\ nfetched' = nfetched
      BY <1>4, FetchEffect
    <2>3. InFlight1' = InFlight1
      BY <1>1, <2>1, <2>2 DEF InFlight1, Unretired, Held, One
    <2>4. ~exited /\ phase' = 1
      BY <1>1, <1>4, FetchEffect
    <2> QED BY <1>4, <2>2, <2>3, <2>4, <1>1 DEF CountInv
  <1> QED BY <1>2, <1>3, <1>4, CountTypes

\* DECODE uncounts the fetch it takes back.
LEMMA CountDecode ==
  ASSUME TypeOK, SquashInv, LatchInv, SlotInv, CountInv, Decode
  PROVE  CountInv'
  <1>1. CASE DecodePhi0
    <2>1. /\ phase = 0 /\ phase' = 0 /\ "DECODE" \in todo
          /\ "WB" \in todo' <=> "WB" \in todo
          /\ UNCHANGED <<de, em, mw, exited>> /\ ~lock_pipeline_data'
          /\ hist'.retired = hist.retired
      BY <1>1, SquashEffect
    <2>2. \/ lock_pipeline_data /\ fd'.v = TRUE /\ nfetched' = nfetched - 1
          \/ isSyscall /\ ~lock_pipeline_data /\ fd'.v = FALSE /\ nfetched' = nfetched - 1
          \/ ~lock_pipeline_data /\ fd' = fd /\ nfetched' = nfetched
      <3>1. fd'.v \in BOOLEAN
        BY TypeStep DEF TypeOK, FDType, Next
      <3> QED BY <1>1, <3>1, SquashEffect DEF Empty
    <2>3. /\ lock_pipeline_data => fd.v /\ ~de.v
          /\ isSyscall => fd.v
      <3>1. isSyscall => de.v
        BY NopIsNoCall DEF SquashInv, SyscallIn, LatchInv, Marked
      <3> QED BY <2>1, <3>1 DEF SlotInv
    <2>4. InFlight0' - nfetched' = InFlight0 - nfetched
      BY <2>1, <2>2, <2>3, CountTypes DEF InFlight0, Unretired, Held, One
    <2>5. InFlight0 \in Int /\ InFlight0' \in Int /\ nfetched' \in Int
      BY <2>2, CountTypes DEF InFlight0, One
    <2> QED BY <2>1, <2>4, <2>5, CountTypes DEF CountInv
  <1>2. CASE DecodePhi1
    <2>1. /\ phase = 1 /\ phase' = 1 /\ "DECODE" \in todo /\ todo' = todo \ {"DECODE"}
          /\ UNCHANGED <<fd, em, mw, nfetched, exited, eloc, mloc, wloc, hist>>
      BY <1>2, PassEffect
    <2>2. dloc.v <=> de'.v \/ lock_pipeline_data'
      BY <1>2, PassEffect, CountTypes DEF LatchInv, Marked, Empty
    <2>3. InFlight1' = InFlight1
      BY <2>1, <2>2, CountTypes DEF InFlight1, Unretired, Held, One
    <2> QED BY <2>1, <2>3 DEF CountInv
  <1> QED BY <1>1, <1>2 DEF Decode

\* EXE moves an instruction on.
LEMMA CountExe ==
  ASSUME TypeOK, CountInv, Exe
  PROVE  CountInv'
  <1>1. /\ "EXE" \in todo /\ todo' = todo \ {"EXE"} /\ phase' = phase
        /\ UNCHANGED <<fd, de, mw, lock_pipeline_data, dloc, mloc, wloc, nfetched, exited, hist>>
        /\ \/ phase = 0 /\ em' = em
           \/ phase = 1 /\ em' = eloc
    BY ExeEffect
  <1>2. CASE phase = 0
    BY <1>1, <1>2 DEF CountInv, InFlight0, Unretired, Held
  <1>3. CASE phase = 1
    <2>1. InFlight1' = InFlight1
      BY <1>1, <1>3 DEF InFlight1, Unretired, Held
    <2> QED BY <1>1, <1>3, <2>1 DEF CountInv
  <1> QED BY <1>2, <1>3, CountTypes

\* MEM moves an instruction on, and a store out of the pipeline.
LEMMA CountMemory ==
  ASSUME TypeOK, LatchInv, CountInv, Memory
  PROVE  CountInv'
  <1>1. /\ "MEM" \in todo /\ todo' = todo \ {"MEM"} /\ phase' = phase
        /\ UNCHANGED <<fd, de, em, lock_pipeline_data, dloc, eloc, wloc, nfetched, exited>>
    BY MemEffect
  <1>2. CASE phase = 0
    <2>1. mw' = mw /\ hist' = hist
      BY <1>2, MemEffect
    <2> QED BY <1>1, <1>2, <2>1 DEF CountInv, InFlight0, Unretired, Held
  <1>3. CASE phase = 1
    <2>1. mw'.v = mloc.v /\ mw'.ins = mloc.ins
      BY <1>3, MemEffect
    <2>2. CASE IsStore(mloc.ins)
      <3>1. hist'.retired = hist.retired + 1
        BY <1>3, <2>2, MemEffect, RetireEffect
      <3>2. mloc.v
        BY <2>2, NopClasses DEF LatchInv, Marked
      <3>3. InFlight1' = InFlight1 - 1
        BY <1>1, <2>1, <2>2, <3>2, CountTypes DEF InFlight1, Unretired, Held, One
      <3>4. InFlight1 \in Int
        BY DEF InFlight1, One
      <3> QED BY <1>1, <1>3, <3>1, <3>3, <3>4, CountTypes DEF CountInv
    <2>3. CASE ~IsStore(mloc.ins)
      <3>1. hist' = hist
        BY <1>3, <2>3, MemEffect
      <3>2. InFlight1' = InFlight1
        BY <1>1, <2>1, <2>3, CountTypes DEF InFlight1, Unretired, Held, One
      <3> QED BY <1>1, <1>3, <3>1, <3>2 DEF CountInv
    <2> QED BY <2>2, <2>3
  <1> QED BY <1>2, <1>3, CountTypes

\* WB moves an instruction out of the pipeline.
LEMMA CountWriteback ==
  ASSUME TypeOK, LatchInv, CountInv, Writeback
  PROVE  CountInv'
  <1>1. /\ "WB" \in todo /\ todo' = todo \ {"WB"} /\ phase' = phase
        /\ UNCHANGED <<fd, de, em, mw, lock_pipeline_data, dloc, eloc, mloc, nfetched>>
    BY WbEffect
  <1>2. CASE phase = 0
    <2>1. /\ exited' = exited
          /\ IF mw.v /\ ~IsStore(mw.ins) /\ ~IsSyscall(mw.ins) /\ ~IsIllegalOp(mw.ins)
             THEN hist'.retired = hist.retired + 1 ELSE hist'.retired = hist.retired
      BY <1>2, WbEffect, RetireEffect
    <2>2. InFlight0' = InFlight0 - (hist'.retired - hist.retired)
      BY <1>1, <2>1, ClassesDisjoint, CountTypes DEF InFlight0, Unretired, Held, One
    <2>3. InFlight0 \in Int /\ hist'.retired \in Int
      BY <2>1, CountTypes DEF InFlight0, One
    <2> QED BY <1>1, <1>2, <2>1, <2>2, <2>3, CountTypes DEF CountInv
  <1>3. CASE phase = 1
    <2>0. phase # 0
      BY <1>3
    <2>1. CASE IsSyscall(wloc.ins)
      <3>1. wloc' = wloc /\ exited' = exited /\ hist'.retired = hist.retired + 1
        BY <2>0, <2>1, WbEffect, ClassesDisjoint, Zenon
      <3>2. wloc.v
        BY <2>1, NopClasses DEF LatchInv, Marked
      <3>3. InFlight1' = InFlight1 - 1
        BY <1>1, <2>1, <3>1, <3>2, CountTypes DEF InFlight1, Unretired, Held, One
      <3>4. InFlight1 \in Int
        BY DEF InFlight1, One
      <3> QED BY <1>1, <1>3, <3>1, <3>3, <3>4, CountTypes DEF CountInv
    <2>2. CASE IsIllegalOp(wloc.ins)
      <3>1. exited'
        BY <2>0, <2>2, WbEffect, ClassesDisjoint, Zenon
      <3> QED BY <3>1 DEF CountInv
    <2>3. CASE ~IsSyscall(wloc.ins) /\ ~IsIllegalOp(wloc.ins)
      <3>1. wloc' = wloc /\ (exited' <=> exited) /\ hist' = hist
        BY <2>0, <2>3, WbEffect, Zenon
      <3>2. InFlight1' = InFlight1
        BY <1>1, <2>3, <3>1, CountTypes DEF InFlight1, Unretired, Held, One
      <3> QED BY <1>1, <1>3, <3>1, <3>2 DEF CountInv
    <2> QED BY <2>1, <2>2, <2>3
  <1> QED BY <1>2, <1>3, CountTypes

\* CountInv is inductive relative to the invariants above.
LEMMA CountStep ==
  TypeOK /\ SquashInv /\ FlightInv /\ LatchInv /\ SlotInv /\ CountInv /\ [Next]_vars
    => CountInv'
  <1> SUFFICES ASSUME TypeOK, SquashInv, FlightInv, LatchInv, SlotInv, CountInv, [Next]_vars
               PROVE CountInv'
    OBVIOUS
  <1>1. CASE UNCHANGED vars
    BY <1>1 DEF vars, lockVars, latchVars, statVars, exitVars, timeVars, locVars, histVars,
                CountInv, InFlight0, InFlight1, Unretired, Held
  <1> QED BY <1>1, CountTick, CountFetch, CountDecode, CountExe, CountMemory,
             CountWriteback DEF Next, Stopped

\* In every half cycle, after every task, each instruction that was fetched
\* has retired or is in one place of the pipeline.
THEOREM CountHolds == Spec => []CountInv
  BY CountInit, CountStep, TypeCorrect, SquashHolds, FlightHolds, LatchHolds, SlotHolds, PTL
     DEF Spec

-----------------------------------------------------------------------------
(***************************************************************************)
(* QuitInv: the exit call ends the simulation with nothing in flight.      *)
(***************************************************************************)
\* Neither the exit call nor an illegal instruction is there at the start.
LEMMA QuitInit == Init => QuitInv
  BY NopClasses DEF Init, QuitInv, EmptyEM

\* Once as many instructions have retired as were fetched, no place of the
\* pipeline holds one.
LEMMA NothingLeft ==
  ASSUME TypeOK, SquashInv, LatchInv, SlotInv, CountInv, ~exited, nfetched = hist.retired
  PROVE  /\ phase = 0 /\ "DECODE" \in todo => ~lock_pipeline_data /\ ~isSyscall
         /\ phase = 0 /\ "WB" \in todo /\ mw.v => IsStore(mw.ins)
         /\ phase = 1 /\ "MEM" \in todo => ~IsStore(mloc.ins)
         /\ phase = 1 /\ "WB" \in todo => ~IsSyscall(wloc.ins)
  <1>1. /\ phase = 0 => InFlight0 = 0
        /\ phase = 1 => InFlight1 = 0
    BY CountTypes DEF CountInv, InFlight0, InFlight1, One
  <1>2. ASSUME phase = 0, "DECODE" \in todo
        PROVE  ~lock_pipeline_data /\ ~isSyscall
    <2>1. ~fd.v /\ ~de.v /\ ~lock_pipeline_data
      BY <1>1, <1>2, CountTypes DEF InFlight0, One
    <2> QED BY <2>1, NopIsNoCall DEF SquashInv, SyscallIn, LatchInv, Marked
  <1>3. ASSUME phase = 0, "WB" \in todo, mw.v
        PROVE  IsStore(mw.ins)
    BY <1>1, <1>3, CountTypes DEF InFlight0, One, Unretired
  <1>4. ASSUME phase = 1, "MEM" \in todo
        PROVE  ~IsStore(mloc.ins)
    <2>1. ~mloc.v
      BY <1>1, <1>4, CountTypes DEF InFlight1, One
    <2> QED BY <2>1, NopClasses DEF LatchInv, Marked
  <1>5. ASSUME phase = 1, "WB" \in todo
        PROVE  ~IsSyscall(wloc.ins)
    <2>1. ~Held(wloc)
      BY <1>1, <1>5, CountTypes DEF InFlight1, One
    <2> QED BY <2>1, NopClasses DEF LatchInv, Marked, Held
  <1> QED BY <1>2, <1>3, <1>4, <1>5

\* When WB emulates a system call it is the only instruction in flight.
LEMMA OnlyCall ==
  ASSUME TypeOK, FlightInv, LatchInv, CountInv, ~exited,
         phase = 1, "WB" \in todo, IsSyscall(wloc.ins)
  PROVE  nfetched = hist.retired + 1 /\ FetchMoves("locked", "paused")
  <1>1. InWb1
    BY DEF FlightInv, NoCall1, InExe1, InMem1, SyscallIn
  <1>2. ~fd.v /\ ~dloc.v /\ ~de.v /\ ~lock_pipeline_data /\ ~eloc.v /\ ~em.v /\ ~mloc.v
        /\ ("MEM" \notin todo => ~mw.v)
    BY <1>1 DEF InWb1, Empty
  <1>3. wloc.v
    BY NopClasses DEF LatchInv, Marked
  <1>4. InFlight1 = 1
    BY <1>2, <1>3, CountTypes DEF InFlight1, Held, Unretired, One
  <1> QED BY <1>1, <1>4, CountTypes DEF CountInv, InWb1

\* QuitInv is inductive relative to the invariants above.
LEMMA QuitStep ==
  TypeOK /\ SquashInv /\ FlightInv /\ LatchInv /\ SlotInv /\ CountInv /\ QuitInv /\ [Next]_vars
    => QuitInv'
  <1> SUFFICES ASSUME TypeOK, SquashInv, FlightInv, LatchInv, SlotInv, CountInv, QuitInv,
                      [Next]_vars
               PROVE QuitInv'
    OBVIOUS
  <1>0. ASSUME ~exited, sim_exit
        PROVE  /\ phase = 0 /\ "DECODE" \in todo => ~lock_pipeline_data /\ ~isSyscall
               /\ phase = 0 /\ "WB" \in todo /\ mw.v => IsStore(mw.ins)
               /\ phase = 1 /\ "MEM" \in todo => ~IsStore(mloc.ins)
               /\ phase = 1 /\ "WB" \in todo => ~IsSyscall(wloc.ins)
    BY <1>0, NothingLeft DEF QuitInv
  <1>1. CASE UNCHANGED vars \/ Stopped
    BY <1>1 DEF vars, Stopped, statVars, exitVars, timeVars, locVars, histVars, QuitInv,
                FetchMoves
  <1>2. CASE Tick
    BY <1>2, TickEffect DEF QuitInv, FetchMoves
  <1>3. CASE Fetch
    <2>1. /\ ~exited /\ "FETCH" \in todo /\ "FETCH" \notin todo' /\ phase' = phase
          /\ "WB" \in todo' <=> "WB" \in todo
          /\ UNCHANGED <<wloc, sim_exit, hist>>
      BY <1>3, FetchEffect
    <2>2. sim_exit => /\ nfetched' = nfetched /\ phase' = 1
                      /\ \/ fetch' = "paused" /\ "WB" \notin todo
                         \/ exited' = TRUE
      <3>1. sim_exit => phase = 1 /\ (fetch = "paused" \/ (fetch = "locked" /\ "WB" \notin todo))
        BY <2>1 DEF QuitInv, FetchMoves
      <3>2. CASE phase = 1 /\ fetch = "paused"
        <4>1. phase # 0 /\ fetch # "open" /\ fetch # "locked"
          BY <3>2
        <4>2. nfetched' = nfetched /\ exited' = sim_exit
          BY <1>3, <4>1, FetchEffect, Zenon
        <4> QED BY <2>1, <3>2, <4>2, CountTypes
      <3>3. CASE phase = 1 /\ fetch = "locked" /\ "WB" \notin todo
        <4>1. phase # 0 /\ fetch # "open" /\ fetch # "paused"
          BY <3>3
        <4>2. nfetched' = nfetched /\ fetch' = "paused"
          BY <1>3, <4>1, FetchEffect, Zenon
        <4> QED BY <2>1, <3>3, <4>2
      <3> QED BY <3>1, <3>2, <3>3
    <2>3. IsIllegalOp(wloc.ins) /\ "WB" \notin todo => phase = 0
      BY <2>1 DEF QuitInv
    <2> QED BY <2>1, <2>2, <2>3 DEF QuitInv, FetchMoves
  <1>4. CASE DecodePhi0
    <2>1. /\ phase = 0 /\ phase' = 0 /\ "DECODE" \in todo /\ ~exited
          /\ "WB" \in todo' <=> "WB" \in todo
          /\ "FETCH" \in todo' <=> "FETCH" \in todo
          /\ UNCHANGED <<wloc, sim_exit, exited, fetch>> /\ hist'.retired = hist.retired
      BY <1>4, SquashEffect
    <2>2. sim_exit => nfetched' = nfetched
      BY <1>0, <1>4, <2>1, SquashEffect
    <2> QED BY <2>1, <2>2 DEF QuitInv, FetchMoves
  <1>5. CASE DecodePhi1
    <2>1. /\ phase = 1 /\ phase' = 1
          /\ "WB" \in todo' <=> "WB" \in todo
          /\ "FETCH" \in todo' <=> "FETCH" \in todo
          /\ UNCHANGED <<wloc, nfetched, sim_exit, exited, fetch, hist>>
      BY <1>5, PassEffect
    <2> QED BY <2>1 DEF QuitInv, FetchMoves
  <1>6. CASE Exe
    <2>1. /\ phase' = phase
          /\ "WB" \in todo' <=> "WB" \in todo
          /\ "FETCH" \in todo' <=> "FETCH" \in todo
          /\ UNCHANGED <<wloc, nfetched, sim_exit, exited, fetch, hist>>
      BY <1>6, ExeEffect
    <2> QED BY <2>1 DEF QuitInv, FetchMoves
  <1>7. CASE Memory
    <2>1. /\ phase' = phase /\ ~exited /\ "MEM" \in todo
          /\ "WB" \in todo' <=> "WB" \in todo
          /\ "FETCH" \in todo' <=> "FETCH" \in todo
          /\ UNCHANGED <<wloc, nfetched, sim_exit, exited, fetch>>
      BY <1>7, MemEffect
    <2>2. sim_exit => hist' = hist
      BY <1>0, <1>7, <2>1, MemEffect
    <2> QED BY <2>1, <2>2 DEF QuitInv, FetchMoves
  <1>8. CASE Writeback
    <2>1. /\ phase' = phase /\ ~exited /\ "WB" \in todo /\ "WB" \notin todo'
          /\ "FETCH" \in todo' <=> "FETCH" \in todo
          /\ UNCHANGED <<nfetched, fetch>>
      BY <1>8, WbEffect
    <2>2. CASE phase = 0
      <3>1. UNCHANGED <<sim_exit, exited>> /\ (sim_exit => hist' = hist)
        BY <1>0, <1>8, <2>1, <2>2, WbEffect
      <3> QED BY <2>1, <2>2, <3>1 DEF QuitInv, FetchMoves
    <2>3. CASE phase = 1 /\ IsSyscall(wloc.ins)
      <3>1. nfetched = hist.retired + 1 /\ FetchMoves("locked", "paused")
        BY <2>1, <2>3, OnlyCall
      <3>2. wloc' = wloc /\ hist'.retired = hist.retired + 1 /\ ~IsIllegalOp(wloc.ins)
        <4>1. phase # 0
          BY <2>3
        <4> QED BY <1>8, <2>3, <4>1, WbEffect, ClassesDisjoint, Zenon
      <3> QED BY <2>1, <2>3, <3>1, <3>2 DEF QuitInv, FetchMoves
    <2>4. CASE phase = 1 /\ ~IsSyscall(wloc.ins)
      <3>1. /\ wloc' = wloc /\ sim_exit' = sim_exit /\ hist' = hist
            /\ exited' <=> IsIllegalOp(wloc.ins)
        <4>1. phase # 0
          BY <2>4
        <4> QED BY <1>8, <2>1, <2>4, <4>1, WbEffect, Zenon
      <3> QED BY <2>1, <2>4, <3>1 DEF QuitInv, FetchMoves
    <2> QED BY <2>2, <2>3, <2>4, CountTypes
  <1> QED BY <1>1, <1>2, <1>3, <1>4, <1>5, <1>6, <1>7, <1>8 DEF Next, Decode

\* After the exit call nothing is in flight, FETCH fetches nothing more, and
\* an illegal instruction ends the simulation in the cycle WB captured it
\* (wb.cc:69-82, mips.cc:74-80).
THEOREM QuitHolds == Spec => []QuitInv
  BY QuitInit, QuitStep, TypeCorrect, SquashHolds, FlightHolds, LatchHolds, SlotHolds,
     CountHolds, PTL DEF Spec

\* The number of instructions the simulator prints is exact at the end of
\* every cycle and after a normal exit (mips.cc:88, decode.cc:188, 196).
THEOREM FetchAccountingHolds == Spec => []FetchAccounting
  <1>1. TypeOK /\ CountInv /\ QuitInv => FetchAccounting
    <2> SUFFICES ASSUME TypeOK, CountInv, QuitInv PROVE FetchAccounting
      OBVIOUS
    <2>1. CycleDone => nfetched = hist.retired + InFlight
      BY CountTypes DEF CycleDone, CountInv, InFlight1, InFlight, Unretired, One
    <2> QED BY <2>1 DEF QuitInv, FetchAccounting
  <1> QED BY <1>1, TypeCorrect, CountHolds, QuitHolds, PTL

-----------------------------------------------------------------------------
(***************************************************************************)
(* CycleInv: the cycles a system call costs.                               *)
(***************************************************************************)
\* Nothing has been fetched in cycle 0.
LEMMA CycleInit == Init => CycleInv
  BY NopIsNoCall DEF Init, CycleInv, Lag, Lag0, Lag1, Fetches, SyscallIn, EmptyDE, EmptyEM, One

\* Nothing CycleInv depends on has changed.
LEMMA CycleKept ==
  ASSUME TypeOK, CycleInv, UNCHANGED <<cycle, phase, fetch>>, Fetches' = Fetches,
         "DECODE" \in todo' <=> "DECODE" \in todo, "WB" \in todo' <=> "WB" \in todo,
         "FETCH" \in todo' <=> "FETCH" \in todo,
         phase = 0 => UNCHANGED <<de, em, mw>>,
         phase = 1 => UNCHANGED <<eloc, mloc, wloc>>
  PROVE  CycleInv'
  <1>1. Lag' = Lag
    BY CountTypes DEF Lag, Lag0, Lag1, SyscallIn
  <1> QED BY <1>1 DEF CycleInv

\* A new half cycle moves the system call, and every second one adds a cycle.
LEMMA CycleTick ==
  ASSUME TypeOK, SquashInv, FlightInv, CycleInv, Tick
  PROVE  CycleInv'
  <1>1. Fetches' = Fetches
    BY TickEffect DEF Fetches
  <1>2. Fetches \in Int /\ cycle \in Int
    BY CountTypes DEF Fetches
  <1>3. CASE phase = 0
    <2>1. /\ phase' = 1 /\ cycle' = cycle /\ "WB" \in todo' /\ "FETCH" \in todo'
          /\ "DECODE" \notin todo /\ fetch' = fetch
          /\ eloc'.ins = de.ins /\ mloc'.ins = em.ins /\ wloc'.ins = mw.ins
      BY <1>3, TickEffect DEF FlightInv, Copied
    <2>2. Lag' = Lag
      BY <1>3, <2>1 DEF Lag, Lag0, Lag1, SyscallIn, One
    <2> QED BY <1>1, <2>1, <2>2 DEF CycleInv
  <1>4. CASE phase = 1
    <2>1. /\ phase' = 0 /\ cycle' = cycle + 1 /\ "DECODE" \in todo'
          /\ todo = {} /\ UNCHANGED <<fetch, de, em, mw>>
      BY <1>4, TickEffect
    <2>2. NoCall1 \/ InExe1 \/ InMem1 \/ InWb1
      BY <1>4 DEF FlightInv
    <2>3. CASE NoCall1
      <3>1. Lag = -1 /\ Lag' = 0
        BY <1>4, <2>1, <2>3 DEF NoCall1, Lag, Lag0, Lag1, SyscallIn, One
      <3> QED BY <1>1, <1>2, <2>1, <3>1 DEF CycleInv
    <2>4. CASE InExe1
      <3>1. Lag = 1 /\ Lag' = 2
        BY <1>4, <2>1, <2>4, NopIsNoCall DEF InExe1, Lag, Lag0, Lag1, SyscallIn, Empty, One
      <3> QED BY <1>1, <1>2, <2>1, <3>1 DEF CycleInv
    <2>5. CASE InMem1
      <3>1. Lag = 2 /\ Lag' = 3
        BY <1>4, <2>1, <2>5, NopIsNoCall DEF InMem1, Lag, Lag0, Lag1, SyscallIn, Empty, One
      <3> QED BY <1>1, <1>2, <2>1, <3>1 DEF CycleInv
    <2>6. CASE InWb1
      <3>1. Lag = -2 /\ Lag' = -1
        BY <1>4, <2>1, <2>6, NopIsNoCall DEF InWb1, Lag, Lag0, Lag1, SyscallIn, Empty, One,
                                             FetchMoves
      <3> QED BY <1>1, <1>2, <2>1, <3>1 DEF CycleInv
    <2> QED BY <2>2, <2>3, <2>4, <2>5, <2>6
  <1> QED BY <1>3, <1>4, CountTypes

\* FETCH makes the one fetch of the cycle, unless it waits for a system call.
LEMMA CycleFetch ==
  ASSUME TypeOK, FlightInv, CycleInv, Fetch
  PROVE  CycleInv'
  <1>1. /\ "FETCH" \in todo /\ "FETCH" \notin todo' /\ phase' = phase /\ cycle' = cycle
        /\ "DECODE" \in todo' <=> "DECODE" \in todo
        /\ "WB" \in todo' <=> "WB" \in todo
        /\ UNCHANGED <<hist, de, em, mw, eloc, mloc, wloc>>
    BY FetchEffect
  <1>2. CASE phase = 0
    <2>1. /\ nfetched' = nfetched
          /\ fetch' = IF lock_pipeline_sys THEN "locked" ELSE "open"
      BY <1>2, FetchEffect
    <2>2. NoCall0 \/ Decoded0 \/ Executed0 \/ Reached0
      BY <1>2 DEF FlightInv
    <2>3. fetch' # "paused" /\ (NoCall0 => fetch # "paused")
      BY <1>1, <2>1 DEF NoCall0
    <2>4. Lag' = Lag
      BY <1>1, <1>2, <2>2, <2>3 DEF Lag, Lag0, Lag1, SyscallIn, One, NoCall0, Decoded0,
                                    Executed0, Reached0
    <2> QED BY <1>1, <2>1, <2>4 DEF CycleInv, Fetches
  <1>3. CASE phase = 1 /\ fetch = "open"
    <2>1. nfetched' = nfetched + 1
      <3>1. phase # 0 /\ fetch # "locked" /\ fetch # "paused"
        BY <1>3
      <3> QED BY <3>1, FetchEffect, Zenon
    <2>2. NoCall1
      BY <1>1, <1>3 DEF FlightInv, InExe1, InMem1, InWb1, FetchMoves
    <2>3. Lag = 0 /\ Lag' = -1
      BY <1>1, <1>3, <2>2 DEF Lag, Lag0, Lag1, NoCall1, SyscallIn, One
    <2> QED BY <1>1, <2>1, <2>3, CountTypes DEF CycleInv, Fetches
  <1>4. CASE phase = 1 /\ fetch # "open"
    <2>1. nfetched' = nfetched
      BY <1>4, FetchEffect
    <2>2. NoCall1 \/ InExe1 \/ InMem1 \/ InWb1
      BY <1>4 DEF FlightInv
    <2>3. Lag' = Lag
      BY <1>1, <1>4, <2>2 DEF Lag, Lag0, Lag1, SyscallIn, One, NoCall1, InExe1, InMem1, InWb1
    <2> QED BY <1>1, <2>1, <2>3 DEF CycleInv, Fetches
  <1> QED BY <1>2, <1>3, <1>4, CountTypes

\* DECODE takes a fetch back: for a stall the cycle is counted as one, for a
\* system call the cycle is lost.
LEMMA CycleDecodePhi0 ==
  ASSUME TypeOK, SquashInv, FlightInv, CycleInv, DecodePhi0
  PROVE  CycleInv'
  <1>1. /\ phase = 0 /\ phase' = 0 /\ cycle' = cycle
        /\ "DECODE" \in todo /\ "DECODE" \notin todo'
        /\ UNCHANGED <<fetch, de, em, mw>>
        /\ hist'.syscalls = hist.syscalls
    BY SquashEffect
  <1>2. NoCall0 \/ Decoded0 \/ Executed0 \/ Reached0
    BY <1>1 DEF FlightInv
  <1>3. CASE isSyscall
    <2>1. nfetched' = nfetched - 1 /\ hist'.stalls = hist.stalls
      BY <1>3, SquashEffect
    <2>2. Lag = 0 /\ Lag' = 1
      BY <1>1, <1>2, <1>3 DEF NoCall0, Decoded0, Executed0, Reached0, Lag, Lag0, Lag1, One,
                              SyscallIn
    <2> QED BY <1>1, <2>1, <2>2, CountTypes DEF CycleInv, Fetches
  <1>4. CASE ~isSyscall
    <2>1. \/ nfetched' = nfetched - 1 /\ hist'.stalls = hist.stalls + 1
          \/ nfetched' = nfetched /\ hist'.stalls = hist.stalls
      BY <1>4, SquashEffect
    <2>2. ~SyscallIn(de)
      BY <1>1, <1>2, <1>4, NopIsNoCall DEF NoCall0, Decoded0, Executed0, Reached0, SyscallIn,
                                           Empty
    <2>3. Lag' = Lag
      BY <1>1, <2>2 DEF Lag, Lag0, Lag1, SyscallIn
    <2> QED BY <1>1, <2>1, <2>3, CountTypes DEF CycleInv, Fetches
  <1> QED BY <1>3, <1>4, CountTypes

\* WB ends the wait: the system call has cost five cycles.
LEMMA CycleWriteback ==
  ASSUME TypeOK, FlightInv, CycleInv, Writeback
  PROVE  CycleInv'
  <1>1. /\ "WB" \in todo /\ "WB" \notin todo' /\ phase' = phase /\ cycle' = cycle
        /\ "DECODE" \in todo' <=> "DECODE" \in todo
        /\ "FETCH" \in todo' <=> "FETCH" \in todo
        /\ UNCHANGED <<nfetched, fetch, de, em, mw, eloc, mloc>>
    BY WbEffect
  <1>2. CASE phase = 0
    <2>1. hist'.syscalls = hist.syscalls /\ hist'.stalls = hist.stalls
      BY <1>2, WbEffect, RetireEffect
    <2>2. Lag' = Lag
      BY <1>1, <1>2 DEF Lag, Lag0, Lag1, SyscallIn
    <2> QED BY <1>1, <2>1, <2>2 DEF CycleInv, Fetches
  <1>3. CASE phase = 1 /\ ~IsSyscall(wloc.ins)
    <2>1. phase # 0
      BY <1>3
    <2>2. wloc' = wloc /\ hist' = hist
      BY <1>3, <2>1, WbEffect, Zenon
    <2>3. Lag' = Lag
      BY <1>1, <1>3, <2>2 DEF Lag, Lag0, Lag1, SyscallIn
    <2> QED BY <1>1, <2>2, <2>3 DEF CycleInv, Fetches
  <1>4. CASE phase = 1 /\ IsSyscall(wloc.ins)
    <2>1. phase # 0
      BY <1>4
    <2>2. wloc' = wloc /\ hist'.syscalls = hist.syscalls + 1 /\ hist'.stalls = hist.stalls
      BY <1>4, <2>1, WbEffect, Zenon
    <2>3. InWb1
      BY <1>4 DEF FlightInv, NoCall1, InExe1, InMem1, SyscallIn
    <2>4. Lag = 3 /\ Lag' = -2
      BY <1>1, <1>4, <2>2, <2>3, NopIsNoCall DEF InWb1, Lag, Lag0, Lag1, SyscallIn, Empty
    <2> QED BY <1>1, <2>2, <2>4, CountTypes DEF CycleInv, Fetches
  <1> QED BY <1>2, <1>3, <1>4, CountTypes

\* CycleInv is inductive relative to the invariants above.
LEMMA CycleStep ==
  TypeOK /\ SquashInv /\ FlightInv /\ CycleInv /\ [Next]_vars => CycleInv'
  <1> SUFFICES ASSUME TypeOK, SquashInv, FlightInv, CycleInv, [Next]_vars PROVE CycleInv'
    OBVIOUS
  <1>1. CASE UNCHANGED vars \/ Stopped
    BY <1>1 DEF vars, Stopped, statVars, timeVars, latchVars, locVars, histVars, CycleInv,
                Fetches, Lag, Lag0, Lag1, SyscallIn
  <1>2. CASE DecodePhi1
    <2>1. /\ UNCHANGED <<cycle, phase, fetch, eloc, mloc, wloc, nfetched, hist>> /\ phase = 1
          /\ "WB" \in todo' <=> "WB" \in todo
          /\ "FETCH" \in todo' <=> "FETCH" \in todo
      BY <1>2, PassEffect
    <2>2. Lag' = Lag
      BY <2>1 DEF Lag, Lag0, Lag1, SyscallIn
    <2> QED BY <2>1, <2>2 DEF CycleInv, Fetches
  <1>3. CASE Exe
    <2>1. /\ UNCHANGED <<cycle, phase, fetch, nfetched, hist>>
          /\ "DECODE" \in todo' <=> "DECODE" \in todo
          /\ "WB" \in todo' <=> "WB" \in todo
          /\ "FETCH" \in todo' <=> "FETCH" \in todo
          /\ phase = 0 => UNCHANGED <<de, em, mw>>
          /\ phase = 1 => UNCHANGED <<eloc, mloc, wloc>>
      BY <1>3, ExeEffect
    <2> QED BY <2>1, CycleKept DEF Fetches
  <1>4. CASE Memory
    <2>1. /\ UNCHANGED <<cycle, phase, fetch, nfetched>>
          /\ "DECODE" \in todo' <=> "DECODE" \in todo
          /\ "WB" \in todo' <=> "WB" \in todo
          /\ "FETCH" \in todo' <=> "FETCH" \in todo
          /\ phase = 0 => UNCHANGED <<de, em, mw>>
          /\ phase = 1 => UNCHANGED <<eloc, mloc, wloc>>
      BY <1>4, MemEffect
    <2>2. hist'.stalls = hist.stalls /\ hist'.syscalls = hist.syscalls
      BY <1>4, MemEffect, RetireEffect
    <2> QED BY <2>1, <2>2, CycleKept DEF Fetches
  <1> QED BY <1>1, <1>2, <1>3, <1>4, CycleTick, CycleFetch, CycleDecodePhi0, CycleWriteback
          DEF Next, Decode

\* The cycle count runs ahead of what was fetched by as much as the stage of
\* the system call in the pipeline says.
THEOREM CycleHolds == Spec => []CycleInv
  BY CycleInit, CycleStep, TypeCorrect, SquashHolds, FlightHolds, PTL DEF Spec

\* Every system call costs five cycles in all, every load-use stall one, and
\* nothing else costs any (decode.cc:186-201, mips.cc:54-72; report.pdf,
\* section 2.2).
THEOREM FourStallCyclesHolds == Spec => []FourStallCycles
  <1>1. TypeOK /\ FlightInv /\ CycleInv => FourStallCycles
    <2> SUFFICES ASSUME TypeOK, FlightInv, CycleInv, phase = 1, todo = {}, fetch = "open",
                        ~lock_pipeline_sys
                 PROVE  cycle + 1 = Fetches
      BY DEF FourStallCycles, CycleDone, Fetches
    <2>1. NoCall1
      BY DEF FlightInv, InExe1, InMem1, InWb1, FetchMoves
    <2>2. Lag = -1
      BY <2>1 DEF NoCall1, Lag, Lag0, Lag1, One
    <2> QED BY <2>2, CountTypes DEF CycleInv, Fetches
  <1> QED BY <1>1, TypeCorrect, FlightHolds, CycleHolds, PTL

-----------------------------------------------------------------------------
(***************************************************************************)
(* Instructions retire in program order: OrderInv is an invariant, for every*)
(* mix of stalls, squashes, branches and system calls.                     *)
(***************************************************************************)
(***************************************************************************)
(* Chains of instructions in flight.                                       *)
(***************************************************************************)
\* The oldest instruction retires: it is the next of the program order and
\* the rest is the chain that goes on behind it.
LEMMA ChainRetire ==
  ASSUME NEW p, NEW s, NEW a, NEW b, NEW c, NEW d, NEW q,
         Chain(p, s, a, b, c, d, q), a.v
  PROVE  /\ a.pc = s[1] /\ a.ins = p[s[1]]
         /\ Chain(p, Past(s, a), NoSlot, b, c, d, q)
  BY DEF Chain, At, Past, NoSlot

\* So does the second when the first place is empty.
LEMMA ChainRetireNext ==
  ASSUME NEW p, NEW s, NEW b, NEW c, NEW d, NEW q,
         Chain(p, s, NoSlot, b, c, d, q), b.v
  PROVE  /\ b.pc = s[1] /\ b.ins = p[s[1]]
         /\ Chain(p, Past(s, b), NoSlot, NoSlot, c, d, q)
  BY DEF Chain, At, Past, NoSlot

\* Everything moves up by one place.
LEMMA ChainShift ==
  ASSUME NEW p, NEW s, NEW b, NEW c, NEW d, NEW q, Chain(p, s, NoSlot, b, c, d, q)
  PROVE  Chain(p, s, b, c, d, NoSlot, q)
  BY DEF Chain, At, Past, NoSlot

\* The instruction just fetched joins the chain at its end.
LEMMA ChainFetched ==
  ASSUME NEW p, NEW s, NEW b, NEW c, NEW d, NEW q, NEW f,
         Chain(p, s, NoSlot, b, c, d, q),
         f.v, f.pc = q, f.ins = p[q], ~f.taken
  PROVE  Chain(p, s, b, c, d, f, (q + 1) % M)
  <1>1. Chain(p, s, b, c, d, NoSlot, q)
    BY ChainShift
  <1> DEFINE s3 == Past(Past(Past(s, b), c), d)
  <1>2. At(p, s, b) /\ At(p, Past(s, b), c) /\ At(p, Past(Past(s, b), c), d) /\ s3 = From(q)
    BY <1>1 DEF Chain, Past, NoSlot
  <1>3. At(p, s3, f) /\ Past(s3, f) = From((q + 1) % M)
    BY <1>2 DEF At, Past, From
  <1> QED BY <1>2, <1>3 DEF Chain

\* An empty place may be on either side of the last instruction.
LEMMA ChainSwap ==
  ASSUME NEW p, NEW s, NEW a, NEW b, NEW c, NEW q, Chain(p, s, a, b, c, NoSlot, q)
  PROVE  Chain(p, s, a, b, NoSlot, c, q)
  BY DEF Chain, At, Past, NoSlot

\* A branch is taken when its delay slot is the last instruction of the
\* chain: what follows the delay slot is the target.
LEMMA ChainBranch ==
  ASSUME NEW p, NEW s, NEW a, NEW b, NEW c, NEW d, NEW q, NEW taken,
         Chain(p, s, a, b, c, d, q), c.v, ~c.taken, d.v, ~d.taken,
         taken.v, taken.pc = c.pc, taken.ins = c.ins, taken.taken
  PROVE  Chain(p, s, a, b, taken, d, taken.tgt)
  <1> DEFINE s2 == Past(Past(s, a), b)
  <1>1. /\ At(p, s, a) /\ At(p, Past(s, a), b) /\ At(p, s2, c) /\ At(p, Past(s2, c), d)
    BY DEF Chain
  <1>2. At(p, s2, taken) /\ Past(s2, taken) = <<s2[2], taken.tgt>>
    BY <1>1 DEF At, Past
  <1>3. d.pc = s2[2] /\ d.ins = p[s2[2]]
    BY <1>1 DEF At, Past
  <1>4. At(p, Past(s2, taken), d) /\ Past(Past(s2, taken), d) = From(taken.tgt)
    BY <1>2, <1>3 DEF At, Past, From
  <1> QED BY <1>1, <1>2, <1>4 DEF Chain

-----------------------------------------------------------------------------
(***************************************************************************)
(* What is at each place, and how the tasks move it.                       *)
(***************************************************************************)
\* What a place shows depends on the instruction, its address and its branch.
LEMMA SameSlot ==
  ASSUME NEW l, NEW m, l.v = m.v, l.pc = m.pc, l.ins = m.ins
  PROVE  /\ Unresolved(l) = Unresolved(m)
         /\ l.btaken = m.btaken /\ l.btgt = m.btgt => Resolved(l) = Resolved(m)
  BY DEF Unresolved, Resolved, Slot

\* A latch that carries no instruction is an empty place.
LEMMA VacantSlot ==
  ASSUME NEW l, ~l.v
  PROVE  Unresolved(l) = NoSlot /\ Resolved(l) = NoSlot
  BY DEF Unresolved, Resolved, Slot

\* A latch that carries one is not.
LEMMA FilledSlot ==
  ASSUME NEW l, l.v
  PROVE  /\ Unresolved(l) = [v |-> TRUE, pc |-> l.pc, ins |-> l.ins, taken |-> FALSE, tgt |-> 0]
         /\ Resolved(l) = [v |-> TRUE, pc |-> l.pc, ins |-> l.ins, taken |-> l.btaken,
                           tgt |-> IF l.btaken THEN l.btgt ELSE 0]
  BY DEF Unresolved, Resolved, Slot

\* The place shows the instruction and its address.
LEMMA FilledFields ==
  ASSUME NEW l, l.v
  PROVE  Resolved(l).v /\ Resolved(l).pc = l.pc /\ Resolved(l).ins = l.ins
  BY DEF Resolved, Slot

\* Nothing is in flight when the simulation starts.
LEMMA OrderInit == Init => OrderInv
  <1> SUFFICES ASSUME Init PROVE OrderInv
    OBVIOUS
  <1>1. /\ phase = 0 /\ ~fd.v /\ ~de.v /\ ~em.v /\ ~mw.v
        /\ ~lock_pipeline_data /\ ~isSyscall
        /\ "EXE" \in todo /\ "WB" \in todo
        /\ <<apc, anpc>> = From(pc)
    BY DEF Init, EmptyFD, EmptyDE, EmptyEM, Task, From
  <1>2. W0 = NoSlot /\ M0 = NoSlot /\ E0 = NoSlot /\ D0 = NoSlot /\ Q0 = pc
    BY <1>1, VacantSlot DEF W0, M0, E0, D0, Q0, Only, Unretired, DecodeSlot, Squashes
  <1>3. Chain(code, From(pc), NoSlot, NoSlot, NoSlot, NoSlot, pc)
    BY DEF Chain, At, Past, NoSlot
  <1> QED BY <1>1, <1>2, <1>3 DEF OrderInv

\* A new half cycle moves the latches to the tasks, or the tasks' results to
\* the next stage; there the fetch of this cycle joins the chain unless it is
\* to be taken back.
LEMMA OrderTick ==
  ASSUME TypeOK, SquashInv, FlightInv, SlotInv, QuitInv, OrderInv, Tick
  PROVE  OrderInv'
  <1>1. CASE phase = 0
    <2>1. /\ todo = {} /\ phase' = 1
          /\ "FETCH" \in todo' /\ "DECODE" \in todo' /\ "EXE" \in todo'
          /\ "MEM" \in todo' /\ "WB" \in todo'
          /\ UNCHANGED <<code, pc, lock_pipeline_data, isSyscall, fd, de, em, mw,
                         dloc, eloc, mloc, wloc, apc, anpc>>
      BY <1>1, TickEffect
    <2>2. /\ ~lock_pipeline_data /\ ~isSyscall /\ mloc = em /\ wloc = mw
          /\ dloc.ins = fd.ins /\ dloc.v = fd.v /\ dloc.pc = fd.pc
      BY <1>1, <2>1 DEF SquashInv, FlightInv, Copied, SlotInv
    <2>3. /\ W0 = Only(Held(mw), Resolved(mw)) /\ M0 = Resolved(em) /\ E0 = Resolved(eloc)
          /\ D0 = Unresolved(fd) /\ Q0 = pc
      BY <2>1, <2>2 DEF W0, M0, E0, D0, Q0, Squashes, Only
    <2>4. /\ W1' = Only(Held(wloc), Resolved(wloc)) /\ M1' = Resolved(mloc)
          /\ E1' = Resolved(eloc) /\ D1' = Unresolved(dloc) /\ Q1' = pc
      BY <2>1 DEF W1, M1, E1, D1, Q1, Only, Held, Resolved, Unresolved
    <2>5. W1' = W0 /\ M1' = M0 /\ E1' = E0 /\ D1' = D0 /\ Q1' = Q0
      BY <2>2, <2>3, <2>4, SameSlot
    <2>6. Chain(code, <<apc, anpc>>, W0, M0, E0, D0, Q0)
      BY <1>1 DEF OrderInv
    <2>7. Chain(code, <<apc, anpc>>, W1, M1, E1, D1, Q1)'
      BY <2>1, <2>5, <2>6 DEF Chain
    <2> QED BY <2>1, <2>7 DEF OrderInv
  <1>2. CASE phase = 1
    <2>1. /\ ~exited /\ todo = {} /\ phase' = 0
          /\ "EXE" \in todo' /\ "WB" \in todo'
          /\ UNCHANGED <<code, pc, lock_pipeline_data, isSyscall, fd, de, em, mw,
                         wloc, apc, anpc>>
      BY <1>2, TickEffect
    <2>2. ~IsIllegalOp(wloc.ins)
      BY <1>2, <2>1 DEF QuitInv
    <2>3. /\ Chain(code, <<apc, anpc>>, W1, M1, E1, D1, Q1)
          /\ fd.v => fd.ins = code[fd.pc] /\ pc = (fd.pc + 1) % M
      BY <1>2, <2>1, <2>2 DEF OrderInv
    <2>4. /\ W1 = NoSlot /\ M1 = Only(Unretired(mw), Resolved(mw)) /\ E1 = Resolved(em)
          /\ D1 = DecodeSlot /\ Q1 = IF fd.v THEN fd.pc ELSE pc
      BY <2>1 DEF W1, M1, E1, D1, Q1, Only
    <2>5. /\ W0' = M1 /\ M0' = E1 /\ E0' = D1
      BY <2>1, <2>4 DEF W0, M0, E0, Only, Unretired, Held, Resolved, DecodeSlot, Waiting, Unresolved
    <2>6. D0' = Only(~Squashes, Unresolved(fd)) /\ Q0' = IF Squashes THEN fd.pc ELSE pc
      BY <2>1 DEF D0, Q0, Only, Squashes, Unresolved
    <2>7. Squashes => fd.v
      BY <1>2, <2>1 DEF Squashes, SlotInv
    <2>8. Chain(code, <<apc, anpc>>, W0', M0', E0', D0', Q0')
      <3>1. CASE Squashes \/ ~fd.v
        <4>1. D0' = NoSlot /\ Q0' = Q1
          BY <2>4, <2>6, <2>7, <3>1, VacantSlot DEF Only
        <4> QED BY <2>3, <2>4, <2>5, <4>1, ChainShift
      <3>2. CASE ~Squashes /\ fd.v
        <4> DEFINE f == Unresolved(fd)
        <4>1. D0' = f /\ Q0' = (Q1 + 1) % M
          BY <2>3, <2>4, <2>6, <3>2 DEF Only
        <4>2. f.v /\ f.pc = Q1 /\ f.ins = code[Q1] /\ ~f.taken
          BY <2>3, <2>4, <3>2, FilledSlot
        <4> HIDE DEF f
        <4> QED BY <2>3, <2>4, <2>5, <4>1, <4>2, ChainFetched
      <3> QED BY <3>1, <3>2
    <2>9. Chain(code, <<apc, anpc>>, W0, M0, E0, D0, Q0)'
      BY <2>1, <2>8 DEF Chain
    <2> QED BY <2>1, <2>9 DEF OrderInv
  <1> QED BY <1>1, <1>2, CountTypes

\* FETCH puts the instruction at the end of the chain into fd and steps past
\* it; while it waits nothing changes.
LEMMA OrderFetch ==
  ASSUME TypeOK, SlotInv, OrderInv, Fetch
  PROVE  OrderInv'
  <1>1. /\ "FETCH" \in todo /\ todo' = todo \ {"FETCH"} /\ phase' = phase
        /\ UNCHANGED <<code, lock_pipeline_data, isSyscall, de, em, mw, dloc, eloc, mloc, wloc,
                       apc, anpc>>
    BY FetchEffect
  <1>2. CASE phase = 0
    <2>1. fd' = fd /\ pc' = pc
      BY <1>2, FetchEffect
    <2>2. W0' = W0 /\ M0' = M0 /\ E0' = E0 /\ D0' = D0 /\ Q0' = Q0
      BY <1>1, <2>1 DEF W0, M0, E0, D0, Q0, Only, Unretired, Held, Resolved, Unresolved,
                        Squashes, DecodeSlot, Waiting
    <2> QED BY <1>1, <1>2, <2>2 DEF OrderInv, Chain
  <1>3. CASE phase = 1
    <2>1. W1' = W1 /\ M1' = M1 /\ E1' = E1 /\ D1' = D1
      BY <1>1 DEF W1, M1, E1, D1, Only, Unretired, Held, Resolved, Unresolved, DecodeSlot,
                  Waiting
    <2>2. Q1 = pc
      BY <1>1 DEF Q1
    <2>3. Q1' = pc /\ (fd'.v => fd'.ins = code[fd'.pc] /\ pc' = (fd'.pc + 1) % M)
      <3>1. CASE fetch = "open"
        <4>1. phase # 0 /\ fetch # "locked" /\ fetch # "paused"
          BY <1>3, <3>1
        <4>2. fd'.ins = code[pc] /\ fd'.pc = pc /\ fd'.v = TRUE /\ pc' = (pc + 1) % M
          BY <4>1, FetchEffect, Zenon
        <4> QED BY <1>1, <4>2 DEF Q1
      <3>2. CASE fetch # "open"
        <4>1. fd' = fd /\ pc' = pc /\ ~fd.v
          BY <1>3, <3>2, FetchEffect DEF SlotInv, Empty
        <4> QED BY <4>1 DEF Q1
      <3> QED BY <3>1, <3>2
    <2> QED BY <1>1, <1>3, <2>1, <2>2, <2>3 DEF OrderInv, Chain
  <1> QED BY <1>2, <1>3, CountTypes

\* DECODE gives a fetch back: the stalled instruction takes the place in front
\* of it, or the place stays empty behind a system call, and the address goes
\* back to FETCH.
LEMMA OrderDecodePhi0 ==
  ASSUME TypeOK, SquashInv, FlightInv, SlotInv, OrderInv, DecodePhi0
  PROVE  OrderInv'
  <1>1. /\ phase = 0 /\ phase' = 0 /\ "DECODE" \in todo /\ todo' = todo \ {"DECODE"}
        /\ ~lock_pipeline_data' /\ ~isSyscall'
        /\ UNCHANGED <<code, de, em, mw, eloc, apc, anpc>>
    BY SquashEffect
  <1>2. W0' = W0 /\ M0' = M0
    BY <1>1 DEF W0, M0, Only, Unretired, Held, Resolved
  <1>3. /\ E0' = IF "EXE" \in todo THEN Unresolved(de) ELSE Resolved(eloc)
        /\ D0' = Unresolved(fd)' /\ Q0' = pc'
    BY <1>1 DEF E0, D0, Q0, Only, Squashes, DecodeSlot, Unresolved, Resolved
  <1>4. Chain(code, <<apc, anpc>>, W0, M0, E0, D0, Q0)
    BY <1>1 DEF OrderInv
  <1>5. Chain(code, <<apc, anpc>>, W0, M0, E0', D0', Q0')
    <2>1. CASE lock_pipeline_data
      <3>1. E0 = Waiting /\ D0 = NoSlot /\ Q0 = fd.pc
        BY <2>1 DEF E0, D0, Q0, DecodeSlot, Only, Squashes
      <3>2. /\ fd'.ins = de.store_ins /\ fd'.pc = de.store_pc /\ fd'.v = TRUE
            /\ pc' = fd.pc
        BY <2>1, SquashEffect, Zenon
      <3>3. Unresolved(fd') = Waiting
        BY <3>2, FilledSlot DEF Waiting
      <3>4. ~de.v /\ ("EXE" \notin todo => eloc.v = de.v)
        BY <1>1, <2>1 DEF SlotInv, FlightInv, Copied
      <3>5. E0' = NoSlot
        BY <1>3, <3>4, VacantSlot
      <3>6. D0' = Waiting /\ Q0' = fd.pc
        BY <1>3, <3>2, <3>3 DEF Unresolved
      <3> QED BY <1>4, <3>1, <3>5, <3>6, ChainSwap
    <2>2. CASE ~lock_pipeline_data /\ isSyscall
      <3>1. /\ E0 = IF "EXE" \in todo THEN Unresolved(de) ELSE Resolved(eloc)
            /\ D0 = NoSlot /\ Q0 = fd.pc
        BY <2>2 DEF E0, D0, Q0, DecodeSlot, Only, Squashes
      <3>2. Empty(fd') /\ pc' = fd.pc
        BY <2>2, SquashEffect, Zenon
      <3>3. Unresolved(fd') = NoSlot
        BY <3>2, VacantSlot DEF Empty
      <3>4. D0' = NoSlot
        BY <1>3, <3>3 DEF Unresolved
      <3> QED BY <1>3, <1>4, <3>1, <3>2, <3>4
    <2>3. CASE ~lock_pipeline_data /\ ~isSyscall
      <3>1. fd' = fd /\ pc' = pc
        BY <2>3, SquashEffect, Zenon
      <3>2. /\ E0 = IF "EXE" \in todo THEN Unresolved(de) ELSE Resolved(eloc)
            /\ D0 = Unresolved(fd) /\ Q0 = pc
        BY <2>3 DEF E0, D0, Q0, DecodeSlot, Only, Squashes
      <3> QED BY <1>3, <1>4, <3>1, <3>2 DEF Unresolved
    <2> QED BY <2>1, <2>2, <2>3
  <1>6. Chain(code, <<apc, anpc>>, W0, M0, E0, D0, Q0)'
    BY <1>1, <1>2, <1>5 DEF Chain
  <1> QED BY <1>1, <1>6 DEF OrderInv

\* DECODE passes its instruction on, or stalls it behind a bubble: the place
\* still shows it.
LEMMA OrderDecodePhi1 ==
  ASSUME TypeOK, LatchInv, OrderInv, DecodePhi1
  PROVE  OrderInv'
  <1>1. /\ phase = 1 /\ phase' = 1 /\ "DECODE" \in todo /\ todo' = todo \ {"DECODE"}
        /\ UNCHANGED <<code, pc, fd, em, mw, eloc, mloc, wloc, apc, anpc>>
    BY PassEffect
  <1>2. W1' = W1 /\ M1' = M1 /\ E1' = E1 /\ Q1' = Q1
    BY <1>1 DEF W1, M1, E1, Q1, Only, Unretired, Held, Resolved
  <1>3. D1 = Unresolved(dloc) /\ D1' = DecodeSlot'
    BY <1>1 DEF D1, DecodeSlot, Waiting, Unresolved
  <1>4. DecodeSlot' = Unresolved(dloc)
    <2>1. CASE lock_pipeline_data' = TRUE
      <3>1. /\ de'.store_ins = dloc.ins /\ de'.store_pc = dloc.pc /\ dloc.ins # Nop
        BY <2>1, PassEffect
      <3>2. dloc.v
        BY <3>1 DEF LatchInv, Marked
      <3> QED BY <2>1, <3>1, <3>2, FilledSlot DEF DecodeSlot, Waiting
    <2>2. CASE lock_pipeline_data' # TRUE
      <3>1. /\ lock_pipeline_data' = FALSE
            /\ de'.ins = dloc.ins /\ de'.v = dloc.v /\ de'.pc = dloc.pc
        BY <2>2, PassEffect
      <3>2. Unresolved(de') = Unresolved(dloc)
        BY <3>1, SameSlot
      <3> QED BY <3>1, <3>2 DEF DecodeSlot, Unresolved
    <2> QED BY <2>1, <2>2
  <1>5. D1' = D1
    BY <1>3, <1>4
  <1> QED BY <1>1, <1>2, <1>5 DEF OrderInv, Chain

\* EXE resolves the branch: what follows its delay slot, which is the last
\* instruction fetched, is the target.
LEMMA OrderExe ==
  ASSUME TypeOK, SquashInv, FlightInv, LatchInv, SlotInv, OrderInv, Exe
  PROVE  OrderInv'
  <1>1. /\ "EXE" \in todo /\ todo' = todo \ {"EXE"} /\ phase' = phase
        /\ UNCHANGED <<code, lock_pipeline_data, isSyscall, fd, de, mw, dloc, mloc, wloc,
                       apc, anpc>>
        /\ \/ /\ phase = 0 /\ em' = em /\ eloc' = Executed(de)
              /\ pc' = IF eloc'.btaken THEN eloc'.btgt ELSE pc
           \/ phase = 1 /\ em' = eloc /\ eloc' = eloc /\ pc' = pc
    BY ExeEffect
  <1>2. CASE phase = 0
    <2>1. /\ em' = em /\ eloc' = Executed(de)
          /\ pc' = IF eloc'.btaken THEN eloc'.btgt ELSE pc
      BY <1>1, <1>2
    <2>2. /\ eloc'.ins = de.ins /\ eloc'.v = de.v /\ eloc'.pc = de.pc
          /\ eloc'.btaken => de.ins.op \in Jumps \cup CondOps
          /\ eloc'.btaken \in BOOLEAN
      BY <2>1, ExecutedFields, ExecutedType DEF Branching, TypeOK, EMType
    <2>3. W0' = W0 /\ M0' = M0 /\ D0' = D0
      BY <1>1, <2>1 DEF W0, M0, D0, Only, Unretired, Held, Resolved, Unresolved, Squashes
    <2>4. Chain(code, <<apc, anpc>>, W0, M0, E0, D0, Q0)
      BY <1>2 DEF OrderInv
    <2>5. Chain(code, <<apc, anpc>>, W0, M0, E0', D0, Q0')
      <3>1. CASE lock_pipeline_data
        <4>1. E0' = E0 /\ Q0' = Q0
          BY <1>1, <3>1 DEF E0, Q0, DecodeSlot, Waiting, Squashes
        <4> QED BY <2>4, <4>1
      <3>2. CASE ~lock_pipeline_data
        <4>1. E0 = Unresolved(de) /\ E0' = Resolved(eloc')
          BY <1>1, <3>2 DEF E0, DecodeSlot, Resolved
        <4>2. CASE ~eloc'.btaken
          <5>1. Resolved(eloc') = Unresolved(de)
            BY <2>2, <4>2 DEF Resolved, Unresolved, Slot
          <5>2. Q0' = Q0
            BY <1>1, <2>1, <4>2 DEF Q0, Squashes
          <5> QED BY <2>4, <4>1, <5>1, <5>2
        <4>3. CASE eloc'.btaken
          <5>1. de.v /\ ~IsSyscall(de.ins)
            <6>1. de.ins # Nop /\ ~IsSyscall(de.ins)
              BY <2>2, <4>3 DEF Nop, IsSyscall, Jumps, CondOps, CondBranch1, CondBranch2,
                                CondBranchLink
            <6> QED BY <6>1 DEF LatchInv, Marked
          <5>2. ~isSyscall /\ fd.v
            BY <1>2, <5>1 DEF SquashInv, SlotInv, SyscallIn
          <5>3. D0 = Unresolved(fd) /\ Q0' = eloc'.btgt
            BY <1>1, <2>1, <3>2, <4>3, <5>2 DEF D0, Q0, Squashes, Only
          <5> DEFINE c == Unresolved(de)
                     d == Unresolved(fd)
                     t == Resolved(eloc')
          <5>4. /\ c.v /\ ~c.taken /\ d.v /\ ~d.taken
                /\ t.v /\ t.pc = c.pc /\ t.ins = c.ins /\ t.taken /\ t.tgt = eloc'.btgt
            <6>1. eloc'.btaken = TRUE /\ eloc'.v /\ eloc'.pc = de.pc /\ eloc'.ins = de.ins
              BY <2>2, <4>3, <5>1
            <6>2. t = [v |-> TRUE, pc |-> de.pc, ins |-> de.ins, taken |-> TRUE,
                       tgt |-> eloc'.btgt]
              BY <6>1, FilledSlot
            <6>3. c = [v |-> TRUE, pc |-> de.pc, ins |-> de.ins, taken |-> FALSE, tgt |-> 0]
              BY <5>1, FilledSlot
            <6>4. d.v /\ ~d.taken
              BY <5>2, FilledSlot
            <6> HIDE DEF c, d, t
            <6> QED BY <6>2, <6>3, <6>4
          <5>5. Chain(code, <<apc, anpc>>, W0, M0, c, d, Q0)
            BY <2>4, <4>1, <5>3
          <5> HIDE DEF c, d, t
          <5>6. Chain(code, <<apc, anpc>>, W0, M0, t, d, t.tgt)
            BY <5>4, <5>5, ChainBranch
          <5> QED BY <4>1, <5>3, <5>4, <5>6 DEF c, d, t
        <4> QED BY <4>2, <4>3
      <3> QED BY <3>1, <3>2
    <2>6. Chain(code, <<apc, anpc>>, W0, M0, E0, D0, Q0)'
      BY <1>1, <2>3, <2>5 DEF Chain
    <2> QED BY <1>1, <1>2, <2>6 DEF OrderInv
  <1>3. CASE phase = 1
    <2>1. W1' = W1 /\ M1' = M1 /\ D1' = D1 /\ Q1' = Q1
      BY <1>1, <1>3 DEF W1, M1, D1, Q1, Only, Unretired, Held, Resolved, Unresolved, DecodeSlot,
                        Waiting
    <2>2. E1' = E1
      BY <1>1, <1>3 DEF E1, Resolved
    <2> QED BY <1>1, <1>3, <2>1, <2>2 DEF OrderInv, Chain
  <1> QED BY <1>2, <1>3, CountTypes

\* What an instruction that retires leaves to be executed next.
LEMMA RetirePast ==
  ASSUME NEW l, l.v, apc' = anpc, anpc' = IF l.btaken THEN l.btgt ELSE (anpc + 1) % M
  PROVE  /\ <<apc', anpc'>> = Past(<<apc, anpc>>, Resolved(l))
         /\ Resolved(l).v /\ Resolved(l).pc = l.pc /\ Resolved(l).ins = l.ins
  <1> DEFINE slot == Resolved(l)
  <1>1. slot = [v |-> TRUE, pc |-> l.pc, ins |-> l.ins, taken |-> l.btaken,
                tgt |-> IF l.btaken THEN l.btgt ELSE 0]
    BY FilledSlot
  <1> HIDE DEF slot
  <1>2. Past(<<apc, anpc>>, slot) = <<anpc, IF l.btaken THEN l.btgt ELSE (anpc + 1) % M>>
    BY <1>1 DEF Past
  <1> QED BY <1>1, <1>2 DEF slot

\* When MEM is about to store, WB has nothing left to retire: a store follows
\* a system call only after two bubbles.
LEMMA StoreIsNext ==
  ASSUME FlightInv, LatchInv, phase = 1, "MEM" \in todo, IsStore(mloc.ins),
         ~IsIllegalOp(wloc.ins)
  PROVE  W1 = NoSlot /\ M1 = Resolved(mloc) /\ mloc.v
  <1>1. ~IsSyscall(wloc.ins)
    BY NopClasses DEF FlightInv, NoCall1, InExe1, InMem1, InWb1, SyscallIn, Empty
  <1>2. mloc.v
    BY NopClasses DEF LatchInv, Marked
  <1> QED BY <1>1, <1>2 DEF W1, M1, Held, Only

\* MEM retires a store, and leaves everything else to WB.
LEMMA OrderMemory ==
  ASSUME TypeOK, FlightInv, LatchInv, OrderInv, Memory
  PROVE  OrderInv'
  <1>1. /\ "MEM" \in todo /\ todo' = todo \ {"MEM"} /\ phase' = phase
        /\ UNCHANGED <<code, pc, lock_pipeline_data, isSyscall, fd, de, em, dloc, eloc, wloc>>
    BY MemEffect
  <1>2. CASE phase = 0
    <2>1. mw' = mw /\ apc' = apc /\ anpc' = anpc
      BY <1>2, MemEffect
    <2>2. W0' = W0 /\ M0' = M0 /\ E0' = E0 /\ D0' = D0 /\ Q0' = Q0
      BY <1>1, <2>1 DEF W0, M0, E0, D0, Q0, Only, Unretired, Held, Resolved, Unresolved,
                        Squashes, DecodeSlot, Waiting
    <2> QED BY <1>1, <1>2, <2>1, <2>2 DEF OrderInv, Chain
  <1>3. CASE phase = 1 /\ ~IsIllegalOp(wloc.ins)
    <2>1. /\ mw'.ins = mloc.ins /\ mw'.v = mloc.v /\ mw'.pc = mloc.pc
          /\ mw'.btaken = mloc.btaken /\ mw'.btgt = mloc.btgt
      BY <1>3, MemEffect
    <2>2. W1' = W1 /\ E1' = E1 /\ D1' = D1 /\ Q1' = Q1
      BY <1>1 DEF W1, E1, D1, Q1, Only, Held, Resolved, Unresolved, DecodeSlot, Waiting
    <2>3. /\ M1 = Resolved(mloc)
          /\ M1' = Only(Unretired(mw'), Resolved(mw'))
      BY <1>1 DEF M1, Only, Unretired, Resolved
    <2>4. Resolved(mw') = Resolved(mloc)
      BY <2>1, SameSlot
    <2>5. Chain(code, <<apc, anpc>>, W1, M1, E1, D1, Q1)
      BY <1>3 DEF OrderInv
    <2>6. Chain(code, <<apc', anpc'>>, W1, M1', E1, D1, Q1)
      <3>1. CASE IsStore(mloc.ins)
        <4>1. W1 = NoSlot /\ mloc.v
          BY <1>1, <1>3, <3>1, StoreIsNext
        <4>2. apc' = anpc /\ anpc' = IF mloc.btaken THEN mloc.btgt ELSE (anpc + 1) % M
          BY <1>3, <3>1, MemEffect, RetireEffect
        <4>3. <<apc', anpc'>> = Past(<<apc, anpc>>, M1) /\ M1.v
          BY <2>3, <4>1, <4>2, RetirePast
        <4>4. M1' = NoSlot
          BY <2>1, <2>3, <3>1 DEF Unretired, Only
        <4> QED BY <2>5, <4>1, <4>3, <4>4, ChainRetireNext
      <3>2. CASE ~IsStore(mloc.ins)
        <4>1. apc' = apc /\ anpc' = anpc
          BY <1>3, <3>2, MemEffect
        <4>2. M1' = M1
          BY <2>1, <2>3, <2>4, <3>2, VacantSlot DEF Unretired, Only
        <4> QED BY <2>5, <4>1, <4>2
      <3> QED BY <3>1, <3>2
    <2>7. Chain(code, <<apc, anpc>>, W1, M1, E1, D1, Q1)'
      BY <1>1, <2>2, <2>6 DEF Chain
    <2> QED BY <1>1, <1>3, <2>7 DEF OrderInv
  <1>4. CASE phase = 1 /\ IsIllegalOp(wloc.ins)
    BY <1>1, <1>4 DEF OrderInv
  <1> QED BY <1>2, <1>3, <1>4, CountTypes

\* WB retires the oldest instruction, a system call in PHI1 and the others in
\* PHI0.
LEMMA OrderWriteback ==
  ASSUME TypeOK, LatchInv, OrderInv, Writeback
  PROVE  OrderInv'
  <1>1. /\ "WB" \in todo /\ todo' = todo \ {"WB"} /\ phase' = phase
        /\ UNCHANGED <<code, pc, lock_pipeline_data, isSyscall, fd, de, em, mw, dloc, eloc, mloc>>
    BY WbEffect
  <1>2. CASE phase = 0
    <2>1. M0' = M0 /\ E0' = E0 /\ D0' = D0 /\ Q0' = Q0
      BY <1>1 DEF M0, E0, D0, Q0, Only, Resolved, Unresolved, Squashes, DecodeSlot, Waiting
    <2>2. /\ W0 = Only(Unretired(mw), Resolved(mw))
          /\ W0' = Only(Held(mw), Resolved(mw))
      BY <1>1 DEF W0, Only, Unretired, Held, Resolved
    <2>3. Chain(code, <<apc, anpc>>, W0, M0, E0, D0, Q0)
      BY <1>2 DEF OrderInv
    <2>4. Chain(code, <<apc', anpc'>>, W0', M0, E0, D0, Q0)
      <3>1. CASE mw.v /\ ~IsStore(mw.ins) /\ ~IsSyscall(mw.ins) /\ ~IsIllegalOp(mw.ins)
        <4>1. apc' = anpc /\ anpc' = IF mw.btaken THEN mw.btgt ELSE (anpc + 1) % M
          BY <1>2, <3>1, WbEffect, RetireEffect
        <4>2. W0 = Resolved(mw) /\ W0' = NoSlot
          BY <2>2, <3>1 DEF Unretired, Held, Only
        <4>3. <<apc', anpc'>> = Past(<<apc, anpc>>, W0) /\ W0.v
          BY <3>1, <4>1, <4>2, RetirePast
        <4> QED BY <2>3, <4>2, <4>3, ChainRetire
      <3>2. CASE ~mw.v \/ IsStore(mw.ins) \/ IsSyscall(mw.ins) \/ IsIllegalOp(mw.ins)
        <4>1. apc' = apc /\ anpc' = anpc
          BY <1>2, <3>2, WbEffect
        <4>2. W0' = W0
          BY <2>2, <3>2, ClassesDisjoint DEF Unretired, Held, Only
        <4> QED BY <2>3, <4>1, <4>2
      <3> QED BY <3>1, <3>2
    <2>5. Chain(code, <<apc, anpc>>, W0, M0, E0, D0, Q0)'
      BY <1>1, <2>1, <2>4 DEF Chain
    <2> QED BY <1>1, <1>2, <2>5 DEF OrderInv
  <1>3. CASE phase = 1 /\ ~IsIllegalOp(wloc.ins)
    <2>0. phase # 0
      BY <1>3
    <2>1. M1' = M1 /\ E1' = E1 /\ D1' = D1 /\ Q1' = Q1
      BY <1>1 DEF M1, E1, D1, Q1, Only, Unretired, Resolved, Unresolved, DecodeSlot, Waiting
    <2>2. W1 = Only(Held(wloc), Resolved(wloc)) /\ W1' = NoSlot
      BY <1>1 DEF W1, Only
    <2>3. Chain(code, <<apc, anpc>>, W1, M1, E1, D1, Q1)
      BY <1>3 DEF OrderInv
    <2>4. Chain(code, <<apc', anpc'>>, NoSlot, M1, E1, D1, Q1)
      <3>1. CASE IsSyscall(wloc.ins)
        <4>1. apc' = anpc /\ anpc' = (anpc + 1) % M
          BY <2>0, <3>1, WbEffect, Zenon
        <4>2. wloc.v /\ ~wloc.btaken
          BY <3>1, NopClasses DEF LatchInv, Marked, Branching, IsSyscall, Jumps, CondOps,
                                  CondBranch1, CondBranch2, CondBranchLink
        <4>3. W1 = Resolved(wloc)
          BY <2>2, <3>1, <4>2 DEF Held, Only
        <4>4. <<apc', anpc'>> = Past(<<apc, anpc>>, W1) /\ W1.v
          BY <4>1, <4>2, <4>3, RetirePast
        <4> QED BY <2>3, <4>4, ChainRetire
      <3>2. CASE ~IsSyscall(wloc.ins)
        <4>1. apc' = apc /\ anpc' = anpc
          BY <2>0, <3>2, WbEffect, Zenon
        <4>2. W1 = NoSlot
          BY <1>3, <2>2, <3>2 DEF Held, Only
        <4> QED BY <2>3, <4>1, <4>2
      <3> QED BY <3>1, <3>2
    <2>5. Chain(code, <<apc, anpc>>, W1, M1, E1, D1, Q1)'
      BY <1>1, <2>1, <2>2, <2>4 DEF Chain
    <2> QED BY <1>1, <1>3, <2>5 DEF OrderInv
  <1>4. CASE phase = 1 /\ IsIllegalOp(wloc.ins)
    <2>1. wloc' = wloc
      <3>1. phase # 0
        BY <1>4
      <3> QED BY <3>1, WbEffect, Zenon
    <2> QED BY <1>1, <1>4, <2>1 DEF OrderInv
  <1> QED BY <1>2, <1>3, <1>4, CountTypes

\* OrderInv is inductive relative to the invariants above.
LEMMA OrderStep ==
  /\ TypeOK /\ SquashInv /\ FlightInv /\ LatchInv /\ SlotInv /\ QuitInv
  /\ OrderInv /\ [Next]_vars
  => OrderInv'
  <1> SUFFICES ASSUME TypeOK, SquashInv, FlightInv, LatchInv, SlotInv, QuitInv, OrderInv,
                      [Next]_vars
               PROVE  OrderInv'
    OBVIOUS
  <1>1. CASE UNCHANGED vars
    <2>1. /\ UNCHANGED <<code, pc, lock_pipeline_data, isSyscall, fd, de, em, mw, phase, todo,
                         dloc, eloc, mloc, wloc, apc, anpc>>
      BY <1>1 DEF vars, lockVars, latchVars, timeVars, locVars, histVars
    <2>2. W0' = W0 /\ M0' = M0 /\ E0' = E0 /\ D0' = D0 /\ Q0' = Q0
      BY <2>1 DEF W0, M0, E0, D0, Q0, Only, Unretired, Held, Resolved, Unresolved,
                  Squashes, DecodeSlot, Waiting
    <2>3. W1' = W1 /\ M1' = M1 /\ E1' = E1 /\ D1' = D1 /\ Q1' = Q1
      BY <2>1 DEF W1, M1, E1, D1, Q1, Only, Unretired, Held, Resolved, Unresolved,
                  DecodeSlot, Waiting
    <2> QED BY <2>1, <2>2, <2>3 DEF OrderInv, Chain
  <1> QED BY <1>1, OrderTick, OrderFetch, OrderDecodePhi0, OrderDecodePhi1, OrderExe,
             OrderMemory, OrderWriteback DEF Next, Decode, Stopped

\* In every half cycle, after every task, the instructions in flight are the
\* next ones of the program order, without a gap and without a repetition, and
\* FETCH goes on where they end.
THEOREM OrderHolds == Spec => []OrderInv
  BY OrderInit, OrderStep, TypeCorrect, SquashHolds, FlightHolds, LatchHolds, SlotHolds,
     QuitHolds, PTL DEF Spec

\* The instruction WB or MEM retires is the next of the program order, in
\* every program and every order of the tasks: branches have one delay slot,
\* and stalls, squashes and system calls neither lose nor repeat an
\* instruction (decode.cc:186-201, executor.cc:227, mips.cc:54-72).
THEOREM ProgramOrderHolds == Spec => []ProgramOrder
  <1>1. TypeOK /\ FlightInv /\ LatchInv /\ OrderInv => ProgramOrder
    <2> SUFFICES ASSUME TypeOK, FlightInv, LatchInv, OrderInv PROVE ProgramOrder
      OBVIOUS
    <2>1. ASSUME phase = 0, "WB" \in todo, mw.v, ~IsStore(mw.ins)
          PROVE  mw.pc = apc /\ mw.ins = code[apc]
      <3>1. Chain(code, <<apc, anpc>>, Resolved(mw), M0, E0, D0, Q0)
        BY <2>1 DEF OrderInv, W0, Only, Unretired
      <3>2. Resolved(mw).v /\ Resolved(mw).pc = mw.pc /\ Resolved(mw).ins = mw.ins
        BY <2>1, FilledFields
      <3> QED BY <3>1, <3>2, ChainRetire
    <2>2. ASSUME phase = 1, "MEM" \in todo, mloc.v, IsStore(mloc.ins), ~Halted
          PROVE  mloc.pc = apc /\ mloc.ins = code[apc]
      <3>1. Chain(code, <<apc, anpc>>, NoSlot, Resolved(mloc), E1, D1, Q1)
        BY <2>2, StoreIsNext DEF OrderInv, Halted
      <3>2. Resolved(mloc).v /\ Resolved(mloc).pc = mloc.pc /\ Resolved(mloc).ins = mloc.ins
        BY <2>2, FilledFields
      <3> QED BY <3>1, <3>2, ChainRetireNext
    <2> QED BY <2>1, <2>2 DEF ProgramOrder
  <1> QED BY <1>1, TypeCorrect, FlightHolds, LatchHolds, OrderHolds, PTL
-----------------------------------------------------------------------------
(***************************************************************************)
(* The pipeline implements the sequential machine MipsISA: ValueInv is an  *)
(* invariant of Pipeline, and every step of the pipeline is a step of the  *)
(* sequential machine or changes nothing it sees.                          *)
(*                                                                         *)
(* Two things the code does not guarantee are hypotheses: is_subreg, which *)
(* nothing initialises, is clear, and no two instructions without a bypass *)
(* or an interlock between them meet in the pipeline (Separated).          *)
(***************************************************************************)

-----------------------------------------------------------------------------
(***************************************************************************)
(* Registers after a write-back.                                           *)
(***************************************************************************)
RegsType == [gpr : [Reg -> Word], fpr : [Reg -> Word], hi : Word, lo : Word]

\* The destination of an instruction that writes a general register is one,
\* and the destination that stands for HI and LO belongs to mult and div.
LEMMA Destinations ==
  ASSUME NEW i \in Insn
  PROVE  /\ WriteREG(i) => DecodedDST(i) \in Reg
         /\ WriteFREG(i) => DecodedDST(i) \in Reg
         /\ DecodedDST(i) = HI_LO <=> i.op \in MulDivOps
         /\ i.op \in MulDivOps => ~MemControl(i)
         /\ Reg \subseteq 0 .. 31
  <1>1. i.rs \in Reg /\ i.rt \in Reg /\ i.rd \in Reg /\ 0 \in Reg /\ RA \in Reg
        /\ Reg \subseteq 0 .. 31
    BY InsnFields, ConstantsOK
  <1>2. i.rt # HI_LO /\ i.rd # HI_LO
    BY <1>1 DEF HI_LO
  <1>3. WriteREG(i) => DecodedDST(i) \in Reg
    BY <1>1 DEF WriteREG, DecodedDST, AluR, AluI, IntLoads, SubregLoads, CondBranchLink,
                LoadOps,
                StoreOps, SpecialOnly, MulDivOps
  <1>4. WriteFREG(i) => DecodedDST(i) \in Reg
    BY <1>1 DEF WriteFREG, DecodedDST, AluR, AluI, IntLoads, SubregLoads, CondBranchLink,
                LoadOps,
                StoreOps, SpecialOnly, MulDivOps
  <1>5. i.op \notin MulDivOps => DecodedDST(i) \in {HI, LO, i.rd, RA, i.rt, 0}
    BY SMT DEF DecodedDST
  <1>6. i.op \in MulDivOps => DecodedDST(i) = HI_LO /\ ~MemControl(i)
    <2>1. i.op \in MulDivOps => DecodedDST(i) = HI_LO
      BY DEF DecodedDST, AluR, AluI, MulDivOps, SpecialOnly, LoadOps, StoreOps, IntLoads,
             SubregLoads, CondBranchLink
    <2>2. i.op \in MulDivOps => ~MemControl(i)
      BY DEF MulDivOps, MemControl, LoadOps, IntLoads, SubregLoads, StoreOps
    <2> QED BY <2>1, <2>2
  <1> QED BY <1>1, <1>2, <1>3, <1>4, <1>5, <1>6 DEF HI, LO, RA, HI_LO

\* The registers after a write-back are registers.
LEMMA WrittenType ==
  ASSUME NEW R \in RegsType, NEW i, NEW x \in Word, NEW y \in Word
  PROVE  WrittenBack(R, i, x, y) \in RegsType
  BY DEF RegsType, WrittenBack

\* What each register holds after a write-back.
LEMMA WrittenFields ==
  ASSUME NEW R, NEW i, NEW x, NEW y
  PROVE  /\ \A r \in Reg : WrittenBack(R, i, x, y).gpr[r]
                             = IF r # 0 /\ Writes(i, r) THEN x ELSE R.gpr[r]
         /\ \A r \in Reg : WrittenBack(R, i, x, y).fpr[r]
                             = IF WriteFREG(i) /\ DecodedDST(i) = r THEN x ELSE R.fpr[r]
         /\ WrittenBack(R, i, x, y).hi = IF HiWPort(i) THEN y ELSE R.hi
         /\ WrittenBack(R, i, x, y).lo = IF LoWPort(i) THEN x ELSE R.lo
  BY DEF WrittenBack

\* Nothing changes when the instruction writes no register.
LEMMA NothingWritten ==
  ASSUME NEW R \in RegsType, NEW i, NEW x, NEW y,
         \A r \in Reg : r # 0 => ~Writes(i, r),
         ~WriteFREG(i), ~HiWPort(i), ~LoWPort(i)
  PROVE  WrittenBack(R, i, x, y) = R
  <1>1. [r \in Reg |-> R.gpr[r]] = R.gpr /\ [r \in Reg |-> R.fpr[r]] = R.fpr
    BY DEF RegsType
  <1>2. WrittenBack(R, i, x, y) = [gpr |-> R.gpr, fpr |-> R.fpr, hi |-> R.hi, lo |-> R.lo]
    BY <1>1 DEF WrittenBack
  <1> QED BY <1>2 DEF RegsType

\* The classes that write no register at all.
LEMMA NonWriters ==
  ASSUME NEW i \in Insn,
         i = Nop \/ IsSyscall(i) \/ IsIllegalOp(i) \/ IsStore(i) \/ i.op = "break"
  PROVE  /\ \A r \in Reg : r # 0 => ~Writes(i, r)
         /\ ~WriteFREG(i) /\ ~HiWPort(i) /\ ~LoWPort(i)
  <1>1. CASE i = Nop
    <2>1. Nop.op = "sll" /\ Nop.rd = 0
      BY DEF Nop
    <2>2. "sll" \in AluR /\ "sll" \notin MulDivOps
      BY DEF AluR, MulDivOps
    <2>3. DecodedDST(Nop) = 0
      BY <2>1, SMT DEF DecodedDST, AluR, AluI, MulDivOps, SpecialOnly, LoadOps, StoreOps,
                       IntLoads,
             SubregLoads, CondBranchLink
    <2> QED BY <1>1, <2>1, <2>2, <2>3 DEF Writes, WriteFREG, HiWPort, LoWPort
  <1>2. CASE i # Nop
    BY <1>2 DEF IsSyscall, IsIllegalOp, IsStore, StoreOps, Writes, WriteREG, WriteFREG, HiWPort,
                LoWPort, MulDivOps, AluR, AluI, IntLoads, SubregLoads, CondBranchLink
  <1> QED BY <1>1, <1>2

\* The registers of the machine are registers.
LEMMA RegsAreTyped == TypeOK => Regs \in RegsType
  BY DEF TypeOK, Regs, RegsType

-----------------------------------------------------------------------------
(***************************************************************************)
(* Bypassing: what EXE selects is what the instruction would read once the *)
(* two instructions ahead of it, in em and mw, had written their results.  *)
(***************************************************************************)
Behind == WrittenBack(Regs, mw.ins, mw.resLo, mw.resHi)
Ahead == WrittenBack(Behind, em.ins, Value(em), em.resHi)

\* What the registers hold once both have written.
LEMMA AheadFields ==
  /\ \A r \in Reg : Ahead.gpr[r] = IF r # 0 /\ Writes(em.ins, r) THEN Value(em)
                                   ELSE IF r # 0 /\ Writes(mw.ins, r) THEN mw.resLo ELSE gpr[r]
  /\ \A r \in Reg : ~WriteFREG(em.ins) /\ ~WriteFREG(mw.ins) => Ahead.fpr[r] = fpr[r]
  /\ Ahead.hi = IF HiWPort(em.ins) THEN em.resHi ELSE IF HiWPort(mw.ins) THEN mw.resHi ELSE hi
  /\ Ahead.lo = IF LoWPort(em.ins) THEN Value(em) ELSE IF LoWPort(mw.ins) THEN mw.resLo ELSE lo
  <1>1. /\ \A r \in Reg : Behind.gpr[r] = IF r # 0 /\ Writes(mw.ins, r) THEN mw.resLo ELSE gpr[r]
        /\ \A r \in Reg : ~WriteFREG(mw.ins) => Behind.fpr[r] = fpr[r]
        /\ Behind.hi = IF HiWPort(mw.ins) THEN mw.resHi ELSE hi
        /\ Behind.lo = IF LoWPort(mw.ins) THEN mw.resLo ELSE lo
    BY WrittenFields DEF Behind, Regs
  <1>2. /\ \A r \in Reg : Ahead.gpr[r] = IF r # 0 /\ Writes(em.ins, r) THEN Value(em) ELSE Behind.gpr[r]
        /\ \A r \in Reg : ~WriteFREG(em.ins) => Ahead.fpr[r] = Behind.fpr[r]
        /\ Ahead.hi = IF HiWPort(em.ins) THEN em.resHi ELSE Behind.hi
        /\ Ahead.lo = IF LoWPort(em.ins) THEN Value(em) ELSE Behind.lo
    BY WrittenFields DEF Ahead
  <1> QED BY <1>1, <1>2

\* A general register, whichever of the two numbers of the instruction names
\* it, unless the load one instruction ahead writes it.
LEMMA Bypass ==
  ASSUME TypeOK, NEW r \in Reg, r # 0,
         ~(MemControl(em.ins) /\ WriteREG(em.ins) /\ r = DecodedDST(em.ins))
  PROVE  /\ ~WritesHiLo(em.ins, r) /\ ~WritesHiLo(mw.ins, r)
         /\ Forward(~MemControl(em.ins) /\ Writes(em.ins, r), Writes(mw.ins, r),
                    em.resLo, mw.resLo, gpr[r]) = Ahead.gpr[r]
  <1>1. r # HI /\ r # LO
    BY ConstantsOK DEF HI, LO
  <1>2. Writes(em.ins, r) => ~MemControl(em.ins)
    BY DEF Writes
  <1>3. ~MemControl(em.ins) => Value(em) = em.resLo
    BY DEF MemControl, Value
  <1>4. Ahead.gpr[r] = IF Writes(em.ins, r) THEN Value(em)
                       ELSE IF Writes(mw.ins, r) THEN mw.resLo ELSE gpr[r]
    BY AheadFields
  <1> QED BY <1>1, <1>2, <1>3, <1>4 DEF WritesHiLo, Forward

\* HI and LO, unless mthi or mtlo is ahead.
LEMMA BypassHiLo ==
  ASSUME TypeOK, NEW r \in {HI, LO},
         em.ins.op # IF r = HI THEN "mthi" ELSE "mtlo",
         mw.ins.op # IF r = HI THEN "mthi" ELSE "mtlo"
  PROVE  LET exex == ~MemControl(em.ins) /\ (WritesHiLo(em.ins, r) \/ Writes(em.ins, r))
             memex == WritesHiLo(mw.ins, r) \/ Writes(mw.ins, r)
         IN /\ r = HI => Forward(exex, memex, em.resHi, mw.resHi, hi) = Ahead.hi
            /\ r = LO => Forward(exex, memex, em.resLo, mw.resLo, lo) = Ahead.lo
  <1>1. em.ins \in Insn /\ mw.ins \in Insn /\ HI # LO
    BY DEF TypeOK, EMType, HI, LO
  <1>2. ASSUME NEW i \in Insn
        PROVE  ~Writes(i, r) /\ (WritesHiLo(i, r) <=> i.op \in MulDivOps)
    <2>1. r \notin 0 .. 31
      BY DEF HI, LO
    <2> QED BY <2>1, Destinations DEF Writes, WritesHiLo
  <1>3. em.ins.op \in MulDivOps => ~MemControl(em.ins) /\ Value(em) = em.resLo
    BY <1>1, Destinations DEF MemControl, Value
  <1>4. CASE r = HI
    <2>1. /\ HiWPort(em.ins) <=> em.ins.op \in MulDivOps
          /\ HiWPort(mw.ins) <=> mw.ins.op \in MulDivOps
      BY <1>4 DEF HiWPort
    <2>2. Ahead.hi = IF HiWPort(em.ins) THEN em.resHi
                     ELSE IF HiWPort(mw.ins) THEN mw.resHi ELSE hi
      BY AheadFields
    <2> QED BY <1>1, <1>2, <1>3, <1>4, <2>1, <2>2 DEF Forward
  <1>5. CASE r = LO
    <2>1. /\ LoWPort(em.ins) <=> em.ins.op \in MulDivOps
          /\ LoWPort(mw.ins) <=> mw.ins.op \in MulDivOps
      BY <1>1, <1>5 DEF LoWPort
    <2>2. Ahead.lo = IF LoWPort(em.ins) THEN Value(em)
                     ELSE IF LoWPort(mw.ins) THEN mw.resLo ELSE lo
      BY AheadFields
    <2> QED BY <1>1, <1>2, <1>3, <1>5, <2>1, <2>2 DEF Forward
  <1> QED BY <1>4, <1>5

\* The first source: its number, what DE::Dec latches for it and what the
\* instruction reads.
LEMMA FirstSource ==
  ASSUME NEW i \in Insn, NEW R
  PROVE  /\ i.op \notin {"mfhi", "mflo", "mtc1", "mfc1", "lui", "j", "jal"} =>
              RsNum(i) = i.rs /\ Source1(i) = gpr[i.rs] /\ Reads(i, R).src1 = R.gpr[i.rs]
         /\ i.op = "mtc1" =>
              RsNum(i) = i.rt /\ Source1(i) = gpr[i.rt] /\ Reads(i, R).src1 = R.gpr[i.rt]
         /\ i.op = "mfc1" =>
              RsNum(i) = 0 /\ Source1(i) = fpr[i.rd] /\ Reads(i, R).src1 = R.fpr[i.rd]
         /\ i.op \in {"lui", "j", "jal"} =>
              RsNum(i) = 0 /\ Source1(i) = 0 /\ Reads(i, R).src1 = 0
         /\ i.op = "mfhi" => RsNum(i) = HI
         /\ i.op = "mflo" => RsNum(i) = LO
  <1>1. /\ i.op \notin {"mfhi", "mflo", "mtc1", "mfc1", "lui", "j", "jal"} => RsNum(i) = i.rs
        /\ i.op = "mtc1" => RsNum(i) = i.rt
        /\ i.op \in {"mfc1", "lui", "j", "jal"} => RsNum(i) = 0
        /\ i.op = "mfhi" => RsNum(i) = HI
        /\ i.op = "mflo" => RsNum(i) = LO
    BY DEF RsNum
  <1>2. /\ i.op \notin {"mtc1", "mfc1", "lui", "j", "jal"} => Source1(i) = gpr[i.rs]
        /\ i.op = "mtc1" => Source1(i) = gpr[i.rt]
        /\ i.op = "mfc1" => Source1(i) = fpr[i.rd]
        /\ i.op \in {"lui", "j", "jal"} => Source1(i) = 0
    BY DEF Source1
  <1>3. /\ i.op \notin {"mtc1", "mfc1", "lui", "j", "jal"} => Reads(i, R).src1 = R.gpr[i.rs]
        /\ i.op = "mtc1" => Reads(i, R).src1 = R.gpr[i.rt]
        /\ i.op = "mfc1" => Reads(i, R).src1 = R.fpr[i.rd]
        /\ i.op \in {"lui", "j", "jal"} => Reads(i, R).src1 = 0
    BY DEF Reads
  <1> QED BY <1>1, <1>2, <1>3

\* The second source, which is a register or the immediate.
LEMMA SecondSource ==
  ASSUME NEW i \in Insn, NEW R
  PROVE  /\ i.op \in AluR \cup MulDivOps \cup CondBranch2 =>
              /\ RtNum(i) = i.rt /\ Source2(i) = gpr[i.rt] /\ Reads(i, R).src2 = R.gpr[i.rt]
              /\ i.op \notin SubregLoads
         /\ i.op \in AluI \cup LoadOps \cup StoreOps =>
              /\ Source2(i) = i.imm /\ Reads(i, R).src2 = i.imm
              /\ i.op \notin SubregLoads => RtNum(i) = 0
         /\ i.op \in CondBranch1 =>
              RtNum(i) = 0 /\ Source2(i) = 0 /\ Reads(i, R).src2 = 0
         /\ i.op \in SubregLoads => RtNum(i) = i.rt
  <1>1. ASSUME i.op \in AluR \cup MulDivOps \cup CondBranch2
        PROVE  /\ RtNum(i) = i.rt /\ Source2(i) = gpr[i.rt] /\ Reads(i, R).src2 = R.gpr[i.rt]
               /\ i.op \notin SubregLoads
    <2>1. i.op \notin AluI \cup LoadOps \cup StoreOps /\ i.op \notin SubregLoads
      BY <1>1 DEF AluR, MulDivOps, CondBranch2, AluI, LoadOps, IntLoads, SubregLoads, StoreOps
    <2>2. RtNum(i) = i.rt
      BY <1>1 DEF RtNum
    <2>3. Source2(i) = gpr[i.rt]
      BY <1>1, <2>1, SMT DEF Source2
    <2>4. Reads(i, R).src2 = R.gpr[i.rt]
      BY <1>1, <2>1, SMT DEF Reads
    <2> QED BY <2>1, <2>2, <2>3, <2>4
  <1>2. ASSUME i.op \in AluI \cup LoadOps \cup StoreOps
        PROVE  /\ Source2(i) = i.imm /\ Reads(i, R).src2 = i.imm
               /\ i.op \notin SubregLoads => RtNum(i) = 0
    <2>1. i.op \notin AluR \cup MulDivOps \cup CondBranch2 \cup SpecialOnly \cup {"illegal"}
      BY <1>2 DEF AluR, MulDivOps, CondBranch2, AluI, LoadOps, IntLoads, SubregLoads, StoreOps,
                  SpecialOnly
    <2>2. i.op \notin SubregLoads => RtNum(i) = 0
      BY <2>1 DEF RtNum
    <2>3. Source2(i) = i.imm
      BY <1>2, <2>1, SMT DEF Source2
    <2>4. Reads(i, R).src2 = i.imm
      BY <1>2, <2>1, SMT DEF Reads
    <2> QED BY <2>2, <2>3, <2>4
  <1>3. ASSUME i.op \in CondBranch1
        PROVE  RtNum(i) = 0 /\ Source2(i) = 0 /\ Reads(i, R).src2 = 0
    <2>1. i.op \notin AluR \cup MulDivOps \cup CondBranch2 \cup SpecialOnly \cup {"illegal"}
             \cup AluI \cup LoadOps \cup StoreOps \cup SubregLoads
      BY <1>3 DEF AluR, MulDivOps, CondBranch2, AluI, LoadOps, IntLoads, SubregLoads, StoreOps,
                  SpecialOnly, CondBranch1, CondBranchLink
    <2> QED BY <2>1, SMT DEF RtNum, Source2, Reads
  <1>4. i.op \in SubregLoads => RtNum(i) = i.rt
    BY DEF RtNum
  <1> QED BY <1>1, <1>2, <1>3, <1>4

\* DECODE met instruction i behind the instructions now in em and mw, it did
\* not stall, and they protect it.
Decodable(i) ==
    /\ dloc.prev_ex = em.ins /\ dloc.prev_me = mw.ins
    /\ gpr[0] = 0
    /\ ~IsSyscall(i) /\ ~IsIllegalOp(i)
    /\ ~Stalls(i, em.ins)
    /\ ~Unprotected(em.ins, i) /\ ~Unprotected(mw.ins, i)

\* What DECODE latches for EXE to choose from.
LEMMA DecodedSources ==
  ASSUME NEW i \in Insn, dloc.prev_ex = em.ins, dloc.prev_me = mw.ins
  PROVE  LET d == Decoded(i, FALSE)
         IN /\ d.ins = i /\ d.pc = dloc.pc /\ d.v = dloc.v
            /\ d.src1 = Source1(i) /\ d.src2 = Source2(i)
            /\ d.sub = IF i.op \in SubregLoads THEN gpr[i.rt] ELSE 0
            /\ i.op = "mfhi" => d.hi = hi
            /\ i.op = "mflo" => d.lo = lo
            /\ d.is_subreg <=> i.op \in SubregLoads
            /\ RsNum(i) # 0 =>
                 /\ d.EX_EX_1 <=> ~MemControl(em.ins) /\ (WritesHiLo(em.ins, RsNum(i))
                                                            \/ Writes(em.ins, RsNum(i)))
                 /\ d.MEM_EX_1 <=> WritesHiLo(mw.ins, RsNum(i)) \/ Writes(mw.ins, RsNum(i))
            /\ RtNum(i) # 0 =>
                 /\ d.EX_EX_2 <=> ~MemControl(em.ins) /\ Writes(em.ins, RtNum(i))
                 /\ d.MEM_EX_2 <=> Writes(mw.ins, RtNum(i))
  BY DEF Decoded, Writes, WritesHiLo

\* How EXE selects its operands.
LEMMA Selections ==
  ASSUME NEW d
  PROVE  LET rs == RsNum(d.ins)
             rt == RtNum(d.ins)
             two(latched) == Forward(rt # 0 /\ d.EX_EX_2, rt # 0 /\ d.MEM_EX_2,
                                     em.resLo, mw.resLo, latched)
         IN /\ Operands(d).src1 =
                 IF rs # 0 THEN Forward(d.EX_EX_1, d.MEM_EX_1, em.resLo, mw.resLo, d.src1)
                 ELSE d.src1
            /\ Operands(d).src2 = IF d.is_subreg THEN d.src2 ELSE two(d.src2)
            /\ Operands(d).sub = IF d.is_subreg THEN two(d.sub) ELSE d.sub
            /\ rs = HI => Operands(d).hi =
                            Forward(d.EX_EX_1, d.MEM_EX_1, em.resHi, mw.resHi, d.hi)
            /\ rs = LO => Operands(d).lo =
                            Forward(d.EX_EX_1, d.MEM_EX_1, em.resLo, mw.resLo, d.lo)
  BY DEF Operands

\* The first operand of EXE, when it is a general register.
LEMMA FirstOperand ==
  ASSUME TypeOK, NEW i \in Insn, Decodable(i),
         RsNum(i) \in Reg, Source1(i) = gpr[RsNum(i)]
  PROVE  Operands(Decoded(i, FALSE)).src1 = Ahead.gpr[RsNum(i)]
  <1> DEFINE d == Decoded(i, FALSE)
             r == RsNum(i)
  <1> SUFFICES Operands(d).src1 = Ahead.gpr[r]
    OBVIOUS
  <1>1. /\ d.ins = i /\ d.src1 = gpr[r]
        /\ r # 0 => /\ d.EX_EX_1 <=> ~MemControl(em.ins) /\ (WritesHiLo(em.ins, r)
                                                               \/ Writes(em.ins, r))
                    /\ d.MEM_EX_1 <=> WritesHiLo(mw.ins, r) \/ Writes(mw.ins, r)
    BY DecodedSources DEF Decodable
  <1> HIDE DEF d
  <1>2. Operands(d).src1 = IF r # 0 THEN Forward(d.EX_EX_1, d.MEM_EX_1, em.resLo, mw.resLo, d.src1)
                           ELSE d.src1
    BY <1>1, Selections, Zenon
  <1>3. CASE r = 0
    <2>1. Ahead.gpr[r] = gpr[r]
      BY <1>3, AheadFields
    <2> QED BY <1>1, <1>2, <1>3, <2>1
  <1>4. CASE r # 0
    <2>1. ~(MemControl(em.ins) /\ WriteREG(em.ins) /\ r = DecodedDST(em.ins))
      BY <1>4 DEF Decodable, Stalls, NeedsInterlock
    <2>2. /\ ~WritesHiLo(em.ins, r) /\ ~WritesHiLo(mw.ins, r)
          /\ Forward(~MemControl(em.ins) /\ Writes(em.ins, r), Writes(mw.ins, r),
                     em.resLo, mw.resLo, gpr[r]) = Ahead.gpr[r]
      BY <1>4, <2>1, Bypass
    <2>3. /\ d.EX_EX_1 <=> ~MemControl(em.ins) /\ Writes(em.ins, r)
          /\ d.MEM_EX_1 <=> Writes(mw.ins, r)
      BY <1>1, <1>4, <2>2, Zenon
    <2> HIDE DEF r
    <2> QED BY <1>1, <1>2, <1>4, <2>2, <2>3 DEF Forward
  <1> QED BY <1>3, <1>4

\* A register EXE takes as second operand, or lwl and lwr as the old value.
LEMMA SecondOperand ==
  ASSUME TypeOK, NEW i \in Insn, Decodable(i), RtNum(i) = i.rt
  PROVE  LET d == Decoded(i, FALSE)
         IN /\ i.op \notin SubregLoads /\ Source2(i) = gpr[i.rt] =>
                 Operands(d).src2 = Ahead.gpr[i.rt]
            /\ i.op \in SubregLoads => Operands(d).sub = Ahead.gpr[i.rt]
  <1> DEFINE d == Decoded(i, FALSE)
             r == i.rt
             two == Forward(r # 0 /\ d.EX_EX_2, r # 0 /\ d.MEM_EX_2, em.resLo, mw.resLo, gpr[r])
  <1>1. /\ d.ins = i /\ d.src2 = Source2(i) /\ (d.is_subreg <=> i.op \in SubregLoads)
        /\ d.sub = IF i.op \in SubregLoads THEN gpr[r] ELSE 0
        /\ r # 0 => /\ d.EX_EX_2 <=> ~MemControl(em.ins) /\ Writes(em.ins, r)
                    /\ d.MEM_EX_2 <=> Writes(mw.ins, r)
    BY DecodedSources DEF Decodable
  <1> HIDE DEF d
  <1>2. /\ i.op \notin SubregLoads /\ Source2(i) = gpr[r] => Operands(d).src2 = two
        /\ i.op \in SubregLoads => Operands(d).sub = two
    BY <1>1 DEF Operands
  <1>3. r \in Reg
    BY InsnFields
  <1>4. two = Ahead.gpr[r]
    <2>1. CASE r = 0
      BY <1>3, <2>1, AheadFields DEF Forward
    <2>2. CASE r # 0
      <3>1. ~(MemControl(em.ins) /\ WriteREG(em.ins) /\ r = DecodedDST(em.ins))
        BY <2>2 DEF Decodable, Stalls, NeedsInterlock
      <3>2. Forward(~MemControl(em.ins) /\ Writes(em.ins, r), Writes(mw.ins, r),
                     em.resLo, mw.resLo, gpr[r]) = Ahead.gpr[r]
        BY <1>3, <2>2, <3>1, Bypass
      <3> QED BY <1>1, <2>2, <3>2 DEF Forward
    <2> QED BY <2>1, <2>2
  <1> QED BY <1>2, <1>4 DEF d

\* HI and LO, as mfhi and mflo take them.
LEMMA HiLoOperand ==
  ASSUME TypeOK, NEW i \in Insn, Decodable(i)
  PROVE  LET d == Decoded(i, FALSE)
         IN /\ i.op = "mfhi" => Operands(d).hi = Ahead.hi
            /\ i.op = "mflo" => Operands(d).lo = Ahead.lo
  <1> DEFINE d == Decoded(i, FALSE)
             r == RsNum(i)
  <1>1. ASSUME r \in {HI, LO}
        PROVE  /\ d.EX_EX_1 <=> ~MemControl(em.ins) /\ (WritesHiLo(em.ins, r)
                                                           \/ Writes(em.ins, r))
               /\ d.MEM_EX_1 <=> WritesHiLo(mw.ins, r) \/ Writes(mw.ins, r)
               /\ d.ins = i
               /\ i.op = "mfhi" => d.hi = hi
               /\ i.op = "mflo" => d.lo = lo
    <2>1. r # 0
      BY <1>1 DEF HI, LO
    <2> QED BY <2>1, DecodedSources DEF Decodable
  <1> HIDE DEF d
  <1>2. CASE i.op = "mfhi"
    <2>1. r = HI
      BY <1>2, FirstSource
    <2>2. em.ins.op # "mthi" /\ mw.ins.op # "mthi"
      BY <1>2 DEF Decodable, Unprotected
    <2>3. Operands(d).hi = Forward(d.EX_EX_1, d.MEM_EX_1, em.resHi, mw.resHi, d.hi)
      BY <1>1, <2>1 DEF Operands
    <2>4. Forward(~MemControl(em.ins) /\ (WritesHiLo(em.ins, HI) \/ Writes(em.ins, HI)),
                  WritesHiLo(mw.ins, HI) \/ Writes(mw.ins, HI), em.resHi, mw.resHi, hi) = Ahead.hi
      BY <2>2, BypassHiLo
    <2>5. Operands(d).hi = Ahead.hi
      BY <1>1, <1>2, <2>1, <2>3, <2>4 DEF Forward
    <2> QED BY <1>2, <2>5 DEF d
  <1>3. CASE i.op = "mflo"
    <2>1. r = LO /\ LO # HI
      BY <1>3, FirstSource DEF LO, HI
    <2>2. em.ins.op # "mtlo" /\ mw.ins.op # "mtlo"
      BY <1>3 DEF Decodable, Unprotected
    <2>3. Operands(d).lo = Forward(d.EX_EX_1, d.MEM_EX_1, em.resLo, mw.resLo, d.lo)
      BY <1>1, <2>1 DEF Operands
    <2>4. Forward(~MemControl(em.ins) /\ (WritesHiLo(em.ins, LO) \/ Writes(em.ins, LO)),
                  WritesHiLo(mw.ins, LO) \/ Writes(mw.ins, LO), em.resLo, mw.resLo, lo) = Ahead.lo
      BY <2>1, <2>2, BypassHiLo
    <2>5. Operands(d).lo = Ahead.lo
      BY <1>1, <1>3, <2>1, <2>3, <2>4 DEF Forward
    <2> QED BY <1>3, <2>5 DEF d
  <1> QED BY <1>2, <1>3 DEF d

\* EXE gets from the bypasses what the instruction reads after the two ahead.
LEMMA OperandsRight ==
  ASSUME TypeOK, NEW i \in Insn, Decodable(i)
  PROVE  LET o == Operands(Decoded(i, FALSE))
             q == Reads(i, Ahead)
         IN /\ i.op \notin {"mfhi", "mflo"} => o.src1 = q.src1
            /\ i.op \in AluR \cup AluI \cup MulDivOps \cup CondOps \cup LoadOps \cup StoreOps =>
                 o.src2 = q.src2
            /\ o.sub = q.sub
            /\ i.op = "mfhi" => o.hi = q.hi
            /\ i.op = "mflo" => o.lo = q.lo
  <1> DEFINE d == Decoded(i, FALSE)
             o == Operands(d)
             q == Reads(i, Ahead)
  <1>1. /\ d.ins = i /\ d.src1 = Source1(i) /\ d.src2 = Source2(i)
        /\ d.is_subreg <=> i.op \in SubregLoads
        /\ i.op \notin SubregLoads => d.sub = 0
    BY DecodedSources DEF Decodable
  <1> SUFFICES /\ i.op \notin {"mfhi", "mflo"} => o.src1 = q.src1
               /\ i.op \in AluR \cup AluI \cup MulDivOps \cup CondOps \cup LoadOps \cup StoreOps =>
                    o.src2 = q.src2
               /\ o.sub = q.sub
               /\ i.op = "mfhi" => o.hi = q.hi
               /\ i.op = "mflo" => o.lo = q.lo
    BY Zenon
  <1> HIDE DEF d
  <1>2. i.op \notin {"mfhi", "mflo"} => o.src1 = q.src1
    <2>1. CASE i.op \notin {"mfhi", "mflo", "mtc1", "mfc1", "lui", "j", "jal"}
      <3>1. RsNum(i) = i.rs /\ Source1(i) = gpr[i.rs] /\ q.src1 = Ahead.gpr[i.rs]
        BY <2>1, FirstSource
      <3>2. i.rs \in Reg
        BY InsnFields
      <3> QED BY <3>1, <3>2, FirstOperand DEF d
    <2>2. CASE i.op = "mtc1"
      <3>1. RsNum(i) = i.rt /\ Source1(i) = gpr[i.rt] /\ q.src1 = Ahead.gpr[i.rt]
        BY <2>2, FirstSource
      <3>2. i.rt \in Reg
        BY InsnFields
      <3> QED BY <3>1, <3>2, FirstOperand DEF d
    <2>3. CASE i.op = "mfc1"
      <3>1. RsNum(i) = 0 /\ Source1(i) = fpr[i.rd] /\ q.src1 = Ahead.fpr[i.rd]
        BY <2>3, FirstSource
      <3>2. ~WriteFREG(em.ins) /\ ~WriteFREG(mw.ins)
        BY <2>3 DEF Decodable, Unprotected, WriteFREG
      <3>3. Ahead.fpr[i.rd] = fpr[i.rd]
        BY <3>2, AheadFields, InsnFields
      <3>4. o.src1 = d.src1
        BY <1>1, <3>1, Selections
      <3> QED BY <1>1, <3>1, <3>3, <3>4
    <2>4. CASE i.op \in {"lui", "j", "jal"}
      <3>1. RsNum(i) = 0 /\ Source1(i) = 0 /\ q.src1 = 0
        BY <2>4, FirstSource
      <3>2. o.src1 = d.src1
        BY <1>1, <3>1, Selections
      <3> QED BY <1>1, <3>1, <3>2
    <2> QED BY <2>1, <2>2, <2>3, <2>4
  <1>3. i.op \in AluR \cup AluI \cup MulDivOps \cup CondOps \cup LoadOps \cup StoreOps =>
          o.src2 = q.src2
    <2>1. CASE i.op \in AluR \cup MulDivOps \cup CondBranch2
      <3>1. /\ RtNum(i) = i.rt /\ Source2(i) = gpr[i.rt] /\ q.src2 = Ahead.gpr[i.rt]
            /\ i.op \notin SubregLoads
        BY <2>1, SecondSource
      <3> QED BY <3>1, SecondOperand DEF d
    <2>2. CASE i.op \in AluI \cup LoadOps \cup StoreOps
      <3>1. /\ Source2(i) = i.imm /\ q.src2 = i.imm
            /\ i.op \notin SubregLoads => RtNum(i) = 0
        BY <2>2, SecondSource
      <3>2. o.src2 = d.src2
        <4>1. CASE i.op \in SubregLoads
          BY <1>1, <4>1, Selections
        <4>2. CASE i.op \notin SubregLoads
          BY <1>1, <3>1, <4>2, Selections DEF Forward
        <4> QED BY <4>1, <4>2
      <3> QED BY <1>1, <3>1, <3>2
    <2>3. CASE i.op \in CondBranch1
      <3>1. RtNum(i) = 0 /\ Source2(i) = 0 /\ q.src2 = 0
        BY <2>3, SecondSource
      <3>2. o.src2 = d.src2
        BY <1>1, <3>1, Selections DEF Forward
      <3> QED BY <1>1, <3>1, <3>2
    <2> QED BY <2>1, <2>2, <2>3 DEF CondOps
  <1>4. o.sub = q.sub
    <2>1. CASE i.op \in SubregLoads
      <3>1. q.sub = Ahead.gpr[i.rt] /\ RtNum(i) = i.rt
        BY <2>1, SecondSource DEF Reads
      <3> QED BY <2>1, <3>1, SecondOperand DEF d
    <2>2. CASE i.op \notin SubregLoads
      <3>1. q.sub = 0
        BY <2>2 DEF Reads
      <3>2. o.sub = d.sub
        BY <1>1, <2>2, Selections
      <3> QED BY <1>1, <2>2, <3>1, <3>2
    <2> QED BY <2>1, <2>2
  <1>5. /\ i.op = "mfhi" => o.hi = q.hi
        /\ i.op = "mflo" => o.lo = q.lo
    <2>1. q.hi = Ahead.hi /\ q.lo = Ahead.lo
      BY DEF Reads
    <2> QED BY <2>1, HiLoOperand DEF d
  <1> QED BY <1>2, <1>3, <1>4, <1>5

\* Operands that agree where the instruction looks give the same results.
LEMMA SameResults ==
  ASSUME NEW i \in Insn, NEW a, NEW o, NEW q,
         i.op \notin {"mfhi", "mflo"} => o.src1 = q.src1,
         i.op \in AluR \cup AluI \cup MulDivOps \cup CondOps \cup LoadOps \cup StoreOps =>
           o.src2 = q.src2,
         i.op = "mfhi" => o.hi = q.hi,
         i.op = "mflo" => o.lo = q.lo
  PROVE  /\ Branches(i, o.src1, o.src2) <=> Branches(i, q.src1, q.src2)
         /\ BranchTarget(i, a, o.src1) = BranchTarget(i, a, q.src1)
         /\ MemControl(i) => (o.src1 + o.src2) % M = (q.src1 + q.src2) % M
         /\ ResultLo(i, a, o) = ResultLo(i, a, q) /\ ResultHi(i, o) = ResultHi(i, q)
  <1>1. Branches(i, o.src1, o.src2) <=> Branches(i, q.src1, q.src2)
    <2>1. i.op \in CondOps => i.op \notin {"mfhi", "mflo"}
      BY DEF CondOps, CondBranch1, CondBranch2, CondBranchLink
    <2>2. i.op \in CondOps => o.src1 = q.src1 /\ o.src2 = q.src2
      BY <2>1
    <2> QED BY <2>2, Zenon DEF Branches
  <1>2. BranchTarget(i, a, o.src1) = BranchTarget(i, a, q.src1)
    BY DEF BranchTarget
  <1>3. MemControl(i) => (o.src1 + o.src2) % M = (q.src1 + q.src2) % M
    BY DEF MemControl, LoadOps, IntLoads, SubregLoads, StoreOps
  <1>4. i.op \in AluR \cup AluI \cup MulDivOps => o.src1 = q.src1 /\ o.src2 = q.src2
    BY DEF AluR, AluI, MulDivOps
  <1>5. ResultLo(i, a, o) = ResultLo(i, a, q)
    BY <1>4 DEF ResultLo
  <1>6. ResultHi(i, o) = ResultHi(i, q)
    BY <1>4 DEF ResultHi
  <1> QED BY <1>1, <1>2, <1>3, <1>5, <1>6

\* What EXE captures of a decoded instruction is right in the registers as
\* the two instructions ahead leave them.
LEMMA ExecutedRight ==
  ASSUME TypeOK, NEW i \in Insn, Decodable(i)
  PROVE  Right(Executed(Decoded(i, FALSE)), Ahead)
  <1> DEFINE d == Decoded(i, FALSE)
             o == Operands(d)
             q == Reads(i, Ahead)
             l == Executed(d)
  <1>1. d.ins = i
    BY DecodedSources DEF Decodable
  <1>2. /\ i.op \notin {"mfhi", "mflo"} => o.src1 = q.src1
        /\ i.op \in AluR \cup AluI \cup MulDivOps \cup CondOps \cup LoadOps \cup StoreOps =>
             o.src2 = q.src2
        /\ o.sub = q.sub
        /\ i.op = "mfhi" => o.hi = q.hi
        /\ i.op = "mflo" => o.lo = q.lo
    BY OperandsRight, Zenon
  <1>3. ~IsSyscall(i) /\ ~IsIllegalOp(i)
    BY DEF Decodable
  <1> SUFFICES Right(l, Ahead)
    OBVIOUS
  <1> HIDE DEF d
  <1>4. /\ l.ins = i /\ l.pc = d.pc /\ l.sub = o.sub
        /\ MemControl(i) => l.addr = (o.src1 + o.src2) % M
        /\ l.resLo = ResultLo(i, d.pc, o) /\ l.resHi = ResultHi(i, o)
        /\ l.btaken <=> Branches(i, o.src1, o.src2)
        /\ l.btgt = BranchTarget(i, d.pc, o.src1)
    BY <1>1, <1>3 DEF Executed
  <1>5. l.btaken \in BOOLEAN
    BY DEF Executed, Branches
  <1> HIDE DEF o, q, l
  <1>6. /\ Branches(i, o.src1, o.src2) <=> Branches(i, q.src1, q.src2)
        /\ BranchTarget(i, d.pc, o.src1) = BranchTarget(i, d.pc, q.src1)
        /\ MemControl(i) => (o.src1 + o.src2) % M = (q.src1 + q.src2) % M
        /\ ResultLo(i, d.pc, o) = ResultLo(i, d.pc, q) /\ ResultHi(i, o) = ResultHi(i, q)
    BY <1>2, SameResults, Zenon
  <1>7. /\ l.btaken <=> Branches(i, q.src1, q.src2)
        /\ l.btgt = BranchTarget(i, l.pc, q.src1)
        /\ IF MemControl(i) THEN l.addr = (q.src1 + q.src2) % M /\ l.sub = q.sub
           ELSE l.resLo = ResultLo(i, l.pc, q) /\ l.resHi = ResultHi(i, q)
    BY <1>2, <1>4, <1>6, Zenon
  <1>8. Branches(i, q.src1, q.src2) \in BOOLEAN
    BY DEF Branches
  <1> QED BY <1>4, <1>5, <1>7, <1>8 DEF Right, q

-----------------------------------------------------------------------------
(***************************************************************************)
(* Who changes registers and memory.                                       *)
(***************************************************************************)
\* FETCH, DECODE and EXE do not, and a new half cycle does not.
LEMMA ArchKept ==
  ASSUME Tick \/ Fetch \/ Decode \/ Exe
  PROVE  UNCHANGED <<mem, gpr, fpr, hi, lo>>
  BY DEF Tick, Fetch, FetchPhi0, FetchInstruction, FetchPause, FetchWaits, FetchResume,
         Decode, DecodePhi0, DecodePhi1, Exe, ExePhi0, ExePhi1, archVars

\* DECODE remembers what is ahead of the instruction it captures, and what it
\* passes on it has decoded without a stall.
LEMMA AheadCaptured ==
  /\ DecodePhi0 => dloc'.prev_ex = de.ins /\ dloc'.prev_me = em.ins
  /\ SubregGarbage = {FALSE} /\ DecodePhi1 =>
       \/ ~de'.v
       \/ de' = Decoded(dloc.ins, FALSE) /\ ~Stalls(dloc.ins, dloc.prev_ex)
  <1>1. DecodePhi0 => dloc'.prev_ex = de.ins /\ dloc'.prev_me = em.ins
    BY DEF DecodePhi0, Capture
  <1>2. ASSUME SubregGarbage = {FALSE}, DecodePhi1
        PROVE  \/ ~de'.v
               \/ de' = Decoded(dloc.ins, FALSE) /\ ~Stalls(dloc.ins, dloc.prev_ex)
    <2> DEFINE d == Decoded(dloc.ins, FALSE)
    <2>1. d.ins = dloc.ins
      BY DEF Decoded
    <2>2. Bubble(d).v = FALSE
      BY DEF Bubble, Decoded
    <2>3. de' = IF Stalls(d.ins, dloc.prev_ex) THEN Bubble(d) ELSE d
      BY <1>2 DEF DecodePhi1
    <2> HIDE DEF d
    <2>4. \/ ~de'.v
          \/ de' = d /\ ~Stalls(dloc.ins, dloc.prev_ex)
      BY <2>1, <2>2, <2>3
    <2> QED BY <2>4 DEF d
  <1> QED BY <1>1, <1>2

\* MEM changes memory for a store only, and leaves the value of a load in mw.
LEMMA MemValue ==
  ASSUME TypeOK, Memory
  PROVE  /\ UNCHANGED <<gpr, fpr, hi, lo>>
         /\ phase = 0 => UNCHANGED <<mem, mw>>
         /\ phase = 1 =>
              /\ mw'.ins = mloc.ins /\ mw'.v = mloc.v /\ mw'.pc = mloc.pc
              /\ mw'.btaken = mloc.btaken /\ mw'.btgt = mloc.btgt
              /\ mw'.sub = mloc.sub /\ mw'.addr = mloc.addr /\ mw'.resHi = mloc.resHi
              /\ mw'.resLo = Value(mloc)
              /\ IF IsStore(mloc.ins)
                 THEN mem' = [mem EXCEPT ![WordAt(mloc.addr)] =
                                Store(mloc.ins.op, @, mloc.addr, StoreData(mloc.ins))]
                 ELSE mem' = mem
  <1>1. LoadOps \cap StoreOps = {}
    BY DEF LoadOps, IntLoads, SubregLoads, StoreOps
  <1>2. CASE MemPhi0
    BY <1>2 DEF MemPhi0, Runs, archVars, latchVars
  <1>3. CASE MemStore
    <2>1. /\ phase = 1 /\ UNCHANGED <<gpr, fpr, hi, lo>> /\ mw' = mloc /\ IsStore(mloc.ins)
          /\ mem' = [mem EXCEPT ![WordAt(mloc.addr)] =
                       Store(mloc.ins.op, @, mloc.addr, StoreData(mloc.ins))]
      BY <1>3, Zenon DEF MemStore, Runs
    <2>2. Value(mloc) = mloc.resLo
      BY <1>1, <2>1 DEF Value, IsStore
    <2>3. phase # 0
      BY <2>1
    <2> QED BY <2>1, <2>2, <2>3, Zenon
  <1>4. CASE MemLoad
    <2>1. /\ phase = 1 /\ UNCHANGED <<mem, gpr, fpr, hi, lo>> /\ mloc.ins.op \in LoadOps
          /\ mw' = [mloc EXCEPT !.resLo =
                 Load(mloc.ins.op, mem[WordAt(mloc.addr)], mloc.addr, mloc.sub)]
      BY <1>4, Zenon DEF MemLoad, Runs, archVars
    <2>2. mw' = [mloc EXCEPT !.resLo = Value(mloc)]
      BY <2>1 DEF Value, Loaded
    <2>3. mloc \in EMType
      BY DEF TypeOK
    <2>4. \A x : LET l == [mloc EXCEPT !.resLo = x]
                 IN /\ l.ins = mloc.ins /\ l.v = mloc.v /\ l.pc = mloc.pc
                    /\ l.btaken = mloc.btaken /\ l.btgt = mloc.btgt
                    /\ l.sub = mloc.sub /\ l.addr = mloc.addr /\ l.resHi = mloc.resHi
                    /\ l.resLo = x
      BY <2>3 DEF EMType
    <2>5. ~IsStore(mloc.ins)
      BY <1>1, <2>1 DEF IsStore
    <2>6. phase # 0
      BY <2>1
    <2> QED BY <2>1, <2>2, <2>4, <2>5, <2>6, Zenon
  <1>5. CASE MemNothing
    <2>1. phase = 1 /\ UNCHANGED <<mem, gpr, fpr, hi, lo>> /\ mw' = mloc /\ ~MemControl(mloc.ins)
      BY <1>5, Zenon DEF MemNothing, Runs, archVars
    <2>2. Value(mloc) = mloc.resLo /\ ~IsStore(mloc.ins)
      BY <2>1 DEF Value, IsStore, MemControl
    <2>3. phase # 0
      BY <2>1
    <2> QED BY <2>1, <2>2, <2>3, Zenon
  <1> QED BY <1>2, <1>3, <1>4, <1>5 DEF Memory

\* WB writes the results of mw to the registers in PHI0.
LEMMA WbWrites ==
  ASSUME TypeOK, gpr[0] = 0, WbPhi0
  PROVE  /\ phase = 0 /\ mem' = mem /\ wloc' = mw
         /\ gpr' = Behind.gpr /\ fpr' = Behind.fpr /\ hi' = Behind.hi /\ lo' = Behind.lo
  <1> DEFINE i == mw.ins
             d == DecodedDST(i)
  <1>1. /\ phase = 0 /\ mem' = mem /\ wloc' = mw
        /\ gpr' = IF WriteREG(i) THEN [gpr EXCEPT ![d] = mw.resLo, ![0] = 0]
                  ELSE [gpr EXCEPT ![0] = 0]
        /\ fpr' = IF WriteFREG(i) THEN [fpr EXCEPT ![d] = mw.resLo] ELSE fpr
        /\ hi' = IF HiWPort(i) THEN mw.resHi ELSE hi
        /\ lo' = IF LoWPort(i) THEN mw.resLo ELSE lo
    BY Zenon DEF WbPhi0, Runs
  <1>2. i \in Insn /\ gpr \in [Reg -> Word] /\ fpr \in [Reg -> Word] /\ 0 \in Reg
    BY ConstantsOK DEF TypeOK, EMType
  <1>3. /\ Behind.gpr = [r \in Reg |-> IF r # 0 /\ Writes(i, r) THEN mw.resLo ELSE gpr[r]]
        /\ Behind.fpr = [r \in Reg |-> IF WriteFREG(i) /\ d = r THEN mw.resLo ELSE fpr[r]]
        /\ Behind.hi = IF HiWPort(i) THEN mw.resHi ELSE hi
        /\ Behind.lo = IF LoWPort(i) THEN mw.resLo ELSE lo
    BY DEF Behind, WrittenBack, Regs
  <1> HIDE DEF i, d
  <1>4. gpr' = Behind.gpr
    <2>1. CASE WriteREG(i)
      <3>1. \A r \in Reg : gpr'[r] = IF r = 0 THEN 0 ELSE IF r = d THEN mw.resLo ELSE gpr[r]
        BY <1>1, <1>2, <2>1
      <3>2. gpr' = [r \in Reg |-> gpr'[r]]
        BY <1>1, <1>2, <2>1
      <3>3. \A r \in Reg : gpr'[r] = Behind.gpr[r]
        BY <1>3, <2>1, <3>1 DEF Writes, d
      <3>4. Behind.gpr = [r \in Reg |-> Behind.gpr[r]]
        BY <1>3
      <3> QED BY <3>2, <3>3, <3>4
    <2>2. CASE ~WriteREG(i)
      <3>1. gpr' = gpr
        BY <1>1, <1>2, <2>2
      <3>2. Behind.gpr = [r \in Reg |-> gpr[r]]
        BY <1>3, <2>2 DEF Writes
      <3> QED BY <1>2, <3>1, <3>2
    <2> QED BY <2>1, <2>2
  <1>5. fpr' = Behind.fpr
    <2>1. CASE WriteFREG(i)
      BY <1>1, <1>2, <1>3, <2>1
    <2>2. CASE ~WriteFREG(i)
      BY <1>1, <1>2, <1>3, <2>2
    <2> QED BY <2>1, <2>2
  <1> QED BY <1>1, <1>3, <1>4, <1>5

\* In PHI1 WB changes registers and memory for a system call only.
LEMMA WbCalls ==
  ASSUME TypeOK, gpr[0] = 0, Writeback, phase = 1
  PROVE  /\ wloc' = wloc /\ UNCHANGED <<fpr, hi, lo>> /\ gpr'[0] = 0
         /\ IF IsSyscall(wloc.ins)
            THEN /\ gpr' = AfterCall(gpr, gpr[V0], gpr[A0])
                 /\ mem' = IF SysStores(gpr[V0])
                           THEN [mem EXCEPT ![WordAt(gpr[A0])] = SysRet(gpr[V0], gpr[A0])]
                           ELSE mem
                 /\ sim_exit' = (sim_exit \/ SysQuits(gpr[V0]))
                 /\ apc' = anpc /\ anpc' = (anpc + 1) % M
            ELSE UNCHANGED <<mem, gpr, sim_exit, apc, anpc>>
  <1>1. CASE WbPhi0
    BY <1>1 DEF WbPhi0, Runs
  <1>2. CASE WbSyscall
    <2>1. /\ wloc' = wloc /\ UNCHANGED <<fpr, hi, lo>> /\ IsSyscall(wloc.ins)
          /\ gpr' = AfterCall(gpr, gpr[V0], gpr[A0])
          /\ mem' = IF SysStores(gpr[V0])
                    THEN [mem EXCEPT ![WordAt(gpr[A0])] = SysRet(gpr[V0], gpr[A0])]
                    ELSE mem
          /\ sim_exit' = (sim_exit \/ SysQuits(gpr[V0]))
          /\ apc' = anpc /\ anpc' = (anpc + 1) % M
      BY <1>2, Zenon DEF WbSyscall, Trap, locVars
    <2>2. gpr'[0] = 0
      <3>1. gpr \in [Reg -> Word] /\ 0 \in Reg /\ V0 # 0 /\ A3 # 0
        BY ConstantsOK DEF TypeOK, V0, A3
      <3> QED BY <2>1, <3>1 DEF AfterCall
    <2> QED BY <2>1, <2>2, Zenon
  <1>3. CASE WbIllegal \/ WbNothing
    <2>1. /\ wloc' = wloc /\ UNCHANGED <<mem, gpr, fpr, hi, lo, sim_exit, apc, anpc>>
          /\ ~IsSyscall(wloc.ins)
      BY <1>3, ClassesDisjoint DEF WbIllegal, WbNothing, locVars, archVars, exitVars, histVars
    <2> QED BY <2>1
  <1> QED BY <1>1, <1>2, <1>3 DEF Writeback

-----------------------------------------------------------------------------
(***************************************************************************)
(* ValueInv is an invariant.                                               *)
(***************************************************************************)
\* Nothing is in flight when the simulation starts.
LEMMA ValueInit == Init => ValueInv
  <1> SUFFICES ASSUME Init PROVE ValueInv
    OBVIOUS
  <1>1. /\ phase = 0 /\ gpr[0] = 0 /\ todo = Task
        /\ ~mw.v /\ ~em.v /\ ~de.v
    BY DEF Init, EmptyEM, EmptyDE
  <1> QED BY <1>1 DEF ValueInv, Values0, Task, Unretired

\* PHI0 has ended: what MEM and EXE captured takes the place of the latches.
LEMMA ValueTick0 ==
  ASSUME TypeOK, FlightInv, ValueInv, Tick, phase = 0
  PROVE  ValueInv'
  <1>1. /\ todo = {} /\ phase' = 1 /\ {"DECODE", "EXE", "MEM", "WB"} \subseteq todo'
        /\ UNCHANGED <<de, em, mw, dloc, eloc, mloc>>
    BY TickEffect
  <1>2. UNCHANGED <<mem, gpr, fpr, hi, lo>>
    BY ArchKept
  <1>3. /\ em.v => Right(em, Settled)
        /\ de.v => Right(Executed(de), Next0)
        /\ eloc = Executed(de) /\ dloc.prev_ex = de.ins /\ dloc.prev_me = em.ins
        /\ gpr[0] = 0
    BY <1>1 DEF ValueInv, Values0
  <1>4. mloc = em
    BY <1>1 DEF FlightInv, Copied
  <1>5. Settled = Regs /\ Next0 = WrittenBack(Regs, em.ins, Value(em), em.resHi)
    BY <1>1 DEF Settled, Next0
  <1>6. Regs' = Regs /\ Value(mloc)' = Value(mloc)
    BY <1>1, <1>2 DEF Regs, Value, Loaded
  <1>7. Next1' = Next0
    BY <1>1, <1>4, <1>5, <1>6 DEF Next1
  <1>8. eloc.ins = de.ins /\ eloc.v = de.v
    BY <1>3, ExecutedFields
  <1>9. /\ eloc'.v => Right(eloc', Next1')
        /\ mloc'.v => Right(mloc', Regs')
    BY <1>1, <1>3, <1>4, <1>5, <1>6, <1>7, <1>8
  <1>10. /\ dloc'.prev_ex = eloc'.ins /\ dloc'.prev_me = mloc'.ins
         /\ "MEM" \in todo' /\ "EXE" \in todo' /\ "DECODE" \in todo'
    BY <1>1, <1>3, <1>4, <1>8
  <1>11. Values1'
    BY <1>9, <1>10, Zenon DEF Values1
  <1> QED BY <1>1, <1>2, <1>3, <1>11 DEF ValueInv

\* PHI1 has ended: DECODE decoded the instruction behind those now in em and
\* mw, so EXE will get the right operands for it.
LEMMA ValueTick1 ==
  ASSUME TypeOK, ValueInv, Separated, Tick, phase = 1
  PROVE  ValueInv'
  <1>1. /\ todo = {} /\ phase' = 0 /\ {"DECODE", "EXE", "MEM", "WB"} \subseteq todo'
        /\ UNCHANGED <<de, em, mw, dloc, eloc, mloc>>
    BY TickEffect
  <1>2. UNCHANGED <<mem, gpr, fpr, hi, lo>>
    BY ArchKept
  <1>3. /\ dloc.prev_ex = eloc.ins /\ dloc.prev_me = mloc.ins /\ mw.ins = mloc.ins
        /\ Unretired(mw) => Right(mw, Regs) /\ mw.resLo = Value(mw)
        /\ eloc.v => Right(eloc, Next1)
        /\ em = eloc
        /\ de.v => de = Decoded(dloc.ins, FALSE) /\ ~Stalls(dloc.ins, dloc.prev_ex)
        /\ gpr[0] = 0
    BY <1>1 DEF ValueInv, Values1
  <1>4. Next1 = Behind
    BY <1>1 DEF Next1, Behind
  <1>5. Regs' = Regs /\ Value(em)' = Value(em) /\ Value(mw)' = Value(mw)
    BY <1>1, <1>2 DEF Regs, Value, Loaded
  <1>6. Settled' = Behind
    BY <1>1, <1>5 DEF Settled, Behind
  <1>7. Next0' = Ahead
    BY <1>1, <1>5, <1>6 DEF Next0, Ahead
  <1>8. Executed(de)' = Executed(de)
    BY <1>1 DEF Executed, Operands
  <1>9. de.v => Right(Executed(de), Ahead)
    <2> SUFFICES ASSUME de.v PROVE Right(Executed(de), Ahead)
      OBVIOUS
    <2> DEFINE i == dloc.ins
    <2>1. i \in Insn
      BY DEF TypeOK, DlocType
    <2>2. de = Decoded(i, FALSE)
      BY <1>3
    <2>3. CASE IsSyscall(i) \/ IsIllegalOp(i)
      <3>1. Executed(de).ins = i
        BY <2>2, ExecutedFields DEF Decoded
      <3> QED BY <2>3, <3>1 DEF Right
    <2>4. CASE ~IsSyscall(i) /\ ~IsIllegalOp(i)
      <3>1. Decodable(i)
        BY <1>3, <2>4 DEF Decodable, Separated
      <3> HIDE DEF i
      <3> QED BY <2>1, <2>2, <3>1, ExecutedRight
    <2> QED BY <2>3, <2>4
  <1>10. Values0'
    <2>1. "WB" \in todo' /\ "EXE" \in todo' /\ "DECODE" \in todo'
      BY <1>1
    <2>2. Unretired(mw') => Right(mw', Regs') /\ mw'.resLo = Value(mw)'
      BY <1>1, <1>3, <1>5 DEF Unretired
    <2>3. em'.v => Right(em', Settled')
      BY <1>1, <1>3, <1>4, <1>6
    <2>4. de'.v => Right(Executed(de)', Next0')
      BY <1>1, <1>7, <1>8, <1>9
    <2> QED BY <2>1, <2>2, <2>3, <2>4, Zenon DEF Values0
  <1> QED BY <1>1, <1>2, <1>3, <1>10 DEF ValueInv

\* Nothing ValueInv speaks of has changed.
LEMMA ValueKept ==
  ASSUME ValueInv, UNCHANGED <<mem, gpr, fpr, hi, lo, phase, de, em, mw, dloc, eloc, mloc>>,
         \A t \in {"DECODE", "EXE", "MEM"} : t \in todo' <=> t \in todo,
         phase = 1 \/ ("WB" \in todo' <=> "WB" \in todo)
  PROVE  ValueInv'
  <1>1. /\ "DECODE" \in todo' <=> "DECODE" \in todo
        /\ "EXE" \in todo' <=> "EXE" \in todo
        /\ "MEM" \in todo' <=> "MEM" \in todo
    OBVIOUS
  <1>2. Regs' = Regs /\ Value(em)' = Value(em) /\ Value(mw)' = Value(mw)
        /\ Value(mloc)' = Value(mloc)
    BY DEF Regs, Value, Loaded
  <1>3. phase = 0 => Values0'
    <2> SUFFICES ASSUME phase = 0 PROVE Values0'
      OBVIOUS
    <2>1. Values0 /\ ("WB" \in todo' <=> "WB" \in todo)
      BY DEF ValueInv
    <2>2. Settled' = Settled
      BY <1>2, <2>1 DEF Settled
    <2>3. Next0' = Next0
      BY <1>2, <2>2 DEF Next0
    <2>4. Executed(de)' = Executed(de)
      BY DEF Executed, Operands
    <2> QED BY <1>1, <1>2, <2>1, <2>2, <2>3, <2>4, Zenon DEF Values0, Unretired
  <1>4. phase = 1 => Values1'
    <2> SUFFICES ASSUME phase = 1 PROVE Values1'
      OBVIOUS
    <2>1. Values1
      BY DEF ValueInv
    <2>2. Next1' = Next1
      BY <1>1, <1>2 DEF Next1
    <2>3. Decoded(dloc.ins, FALSE)' = Decoded(dloc.ins, FALSE)
      BY DEF Decoded, Source1, Source2
    <2> QED BY <1>1, <1>2, <2>1, <2>2, <2>3, Zenon DEF Values1, Unretired
  <1> QED BY <1>3, <1>4 DEF ValueInv

\* DECODE and EXE fill in what they captured and what they pass on.
LEMMA ValueDecode ==
  ASSUME TypeOK, SquashInv, ValueInv, SubregGarbage = {FALSE}, Decode
  PROVE  ValueInv'
  <1>1. UNCHANGED <<mem, gpr, fpr, hi, lo>>
    BY ArchKept
  <1>2. Regs' = Regs /\ gpr'[0] = 0
    BY <1>1 DEF Regs, ValueInv
  <1>3. CASE DecodePhi0
    <2>1. /\ phase = 0 /\ phase' = 0 /\ todo' = todo \ {"DECODE"}
          /\ UNCHANGED <<de, em, mw, eloc, mloc>>
      BY <1>3, SquashEffect
    <2>2. Values0 /\ phase' # 1
      BY <2>1 DEF ValueInv
    <2>3. Value(em)' = Value(em) /\ Value(mw)' = Value(mw)
      BY <1>1, <2>1 DEF Value, Loaded
    <2>4. Settled' = Settled
      BY <1>2, <2>1 DEF Settled
    <2>5. Next0' = Next0
      BY <2>1, <2>3, <2>4 DEF Next0
    <2>6. Executed(de)' = Executed(de)
      BY <2>1 DEF Executed, Operands
    <2>7. /\ "WB" \in todo' <=> "WB" \in todo
          /\ "EXE" \in todo' <=> "EXE" \in todo
          /\ dloc'.prev_ex = de'.ins /\ dloc'.prev_me = em'.ins
      BY <1>3, <2>1, AheadCaptured
    <2>8. Values0'
      BY <1>2, <2>1, <2>2, <2>3, <2>4, <2>5, <2>6, <2>7, Zenon DEF Values0, Unretired
    <2> QED BY <1>2, <2>2, <2>8 DEF ValueInv
  <1>4. CASE DecodePhi1
    <2>1. /\ phase = 1 /\ phase' = 1 /\ todo' = todo \ {"DECODE"}
          /\ UNCHANGED <<em, mw, dloc, eloc, mloc>>
      BY <1>4, PassEffect
    <2>2. Values1 /\ phase' # 0
      BY <2>1 DEF ValueInv
    <2>3. Value(mloc)' = Value(mloc) /\ Value(mw)' = Value(mw)
      BY <1>1, <2>1 DEF Value, Loaded
    <2>4. Next1' = Next1
      BY <1>2, <2>1, <2>3 DEF Next1
    <2>5. Decoded(dloc.ins, FALSE)' = Decoded(dloc.ins, FALSE)
      BY <1>1, <2>1 DEF Decoded, Source1, Source2
    <2>6. de'.v => de' = Decoded(dloc.ins, FALSE) /\ ~Stalls(dloc.ins, dloc.prev_ex)
      BY <1>4, AheadCaptured
    <2>7. /\ "MEM" \in todo' <=> "MEM" \in todo
          /\ "EXE" \in todo' <=> "EXE" \in todo
      BY <2>1
    <2>8. Values1'
      BY <1>2, <2>1, <2>2, <2>3, <2>4, <2>5, <2>6, <2>7, Zenon DEF Values1, Unretired
    <2> QED BY <1>2, <2>2, <2>8 DEF ValueInv
  <1> QED BY <1>3, <1>4 DEF Decode

\* EXE computes in PHI0 and passes on in PHI1.
LEMMA ValueExe ==
  ASSUME ValueInv, Exe
  PROVE  ValueInv'
  <1>1. UNCHANGED <<mem, gpr, fpr, hi, lo>>
    BY ArchKept
  <1>2. /\ todo' = todo \ {"EXE"} /\ phase' = phase
        /\ UNCHANGED <<de, mw, dloc, mloc>>
        /\ \/ phase = 0 /\ em' = em /\ eloc' = Executed(de)
           \/ phase = 1 /\ em' = eloc /\ eloc' = eloc
    BY ExeEffect
  <1>3. Regs' = Regs /\ Value(mw)' = Value(mw) /\ Value(mloc)' = Value(mloc)
    BY <1>1, <1>2 DEF Regs, Value, Loaded
  <1>4. /\ "WB" \in todo' <=> "WB" \in todo
        /\ "MEM" \in todo' <=> "MEM" \in todo
        /\ "DECODE" \in todo' <=> "DECODE" \in todo
        /\ "EXE" \notin todo'
    BY <1>2
  <1>5. CASE phase = 0
    <2>1. Values0 /\ em' = em /\ eloc' = Executed(de)
      BY <1>2, <1>5 DEF ValueInv
    <2>2. Settled' = Settled
      BY <1>2, <1>3, <1>4 DEF Settled
    <2>3. Value(em)' = Value(em)
      BY <1>1, <2>1 DEF Value, Loaded
    <2>4. Next0' = Next0
      BY <2>1, <2>2, <2>3 DEF Next0
    <2>5. Executed(de)' = Executed(de)
      <3>1. UNCHANGED <<de, em, mw>>
        BY <1>2, <2>1
      <3> QED BY <3>1 DEF Executed, Operands
    <2>6. Values0'
      BY <1>2, <1>3, <1>4, <2>1, <2>2, <2>4, <2>5, Zenon DEF Values0, Unretired
    <2> QED BY <1>1, <1>2, <1>5, <2>6 DEF ValueInv
  <1>6. CASE phase = 1
    <2>1. Values1 /\ em' = eloc /\ eloc' = eloc
      BY <1>2, <1>6 DEF ValueInv
    <2>2. Next1' = Next1
      BY <1>2, <1>3, <1>4 DEF Next1
    <2>3. Decoded(dloc.ins, FALSE)' = Decoded(dloc.ins, FALSE)
      BY <1>1, <1>2 DEF Decoded, Source1, Source2
    <2>4. Values1'
      BY <1>2, <1>3, <1>4, <2>1, <2>2, <2>3, Zenon DEF Values1, Unretired
    <2> QED BY <1>1, <1>2, <1>6, <2>4 DEF ValueInv
  <1> QED BY <1>2, <1>5, <1>6

\* MEM reads for a load the word the sequential machine reads.
LEMMA ValueMemory ==
  ASSUME TypeOK, ValueInv, Memory
  PROVE  ValueInv'
  <1>1. UNCHANGED <<gpr, fpr, hi, lo>> /\ Regs' = Regs
    BY MemValue DEF Regs
  <1>2. /\ todo' = todo \ {"MEM"} /\ phase' = phase
        /\ UNCHANGED <<de, em, dloc, eloc>>
    BY MemEffect
  <1>3. /\ "WB" \in todo' <=> "WB" \in todo
        /\ "EXE" \in todo' <=> "EXE" \in todo
        /\ "DECODE" \in todo' <=> "DECODE" \in todo
        /\ "MEM" \notin todo'
    BY <1>2
  <1>4. CASE phase = 0
    <2>1. Values0 /\ UNCHANGED <<mem, mw>>
      BY <1>4, MemValue DEF ValueInv
    <2>2. Value(em)' = Value(em) /\ Value(mw)' = Value(mw)
      BY <1>2, <2>1 DEF Value, Loaded
    <2>3. Settled' = Settled
      BY <1>1, <1>3, <2>1 DEF Settled
    <2>4. Next0' = Next0
      BY <1>2, <2>2, <2>3 DEF Next0
    <2>5. Executed(de)' = Executed(de)
      BY <1>2, <2>1 DEF Executed, Operands
    <2>6. Values0'
      BY <1>1, <1>2, <1>3, <2>1, <2>2, <2>3, <2>4, <2>5, Zenon DEF Values0, Unretired
    <2> QED BY <1>1, <1>2, <1>4, <2>6 DEF ValueInv
  <1>5. CASE phase = 1
    <2>1. Values1 /\ "MEM" \in todo
      BY <1>5, MemEffect DEF ValueInv
    <2>2. /\ mw'.ins = mloc.ins /\ mw'.v = mloc.v /\ mw'.pc = mloc.pc
          /\ mw'.btaken = mloc.btaken /\ mw'.btgt = mloc.btgt
          /\ mw'.sub = mloc.sub /\ mw'.addr = mloc.addr /\ mw'.resHi = mloc.resHi
          /\ mw'.resLo = Value(mloc)
          /\ ~IsStore(mloc.ins) => mem' = mem
      BY <1>5, MemValue
    <2>3. mloc' = mloc
      BY <1>5, MemEffect
    <2>4. Next1' = Next1
      BY <1>1, <1>3, <2>1, <2>2 DEF Next1
    <2>5. Decoded(dloc.ins, FALSE)' = Decoded(dloc.ins, FALSE)
      BY <1>1, <1>2 DEF Decoded, Source1, Source2
    <2>6. Unretired(mw') => Right(mw', Regs') /\ mw'.resLo = Value(mw)'
      <3> SUFFICES ASSUME Unretired(mw') PROVE Right(mw', Regs') /\ mw'.resLo = Value(mw)'
        OBVIOUS
      <3>1. mloc.v /\ ~IsStore(mloc.ins) /\ mem' = mem
        BY <2>2 DEF Unretired
      <3>2. Right(mloc, Regs)
        BY <2>1, <3>1 DEF Values1
      <3>3. ~MemControl(mloc.ins) => mw'.resLo = mloc.resLo
        BY <2>2 DEF Value, MemControl
      <3>4. Right(mw', Regs)
        BY <2>2, <3>2, <3>3, Zenon DEF Right
      <3>5. mw'.resLo = Value(mw)'
        BY <2>2, <3>1 DEF Value, Loaded
      <3> QED BY <1>1, <3>4, <3>5
    <2>7. Values1'
      BY <1>1, <1>2, <1>3, <2>1, <2>2, <2>3, <2>4, <2>5, <2>6, Zenon DEF Values1
    <2> QED BY <1>1, <1>2, <1>5, <2>7 DEF ValueInv
  <1>6. phase \in {0, 1}
    BY DEF TypeOK, ControlTypeOK
  <1> QED BY <1>4, <1>5, <1>6

\* WB writes what was about to be written; a system call changes registers
\* when nothing else is in flight.
LEMMA ValueWriteback ==
  ASSUME TypeOK, FlightInv, ValueInv, Writeback
  PROVE  ValueInv'
  <1>1. /\ todo' = todo \ {"WB"} /\ "WB" \in todo /\ phase' = phase
        /\ UNCHANGED <<de, em, mw, dloc, eloc, mloc>>
    BY WbEffect
  <1>2. /\ "MEM" \in todo' <=> "MEM" \in todo
        /\ "EXE" \in todo' <=> "EXE" \in todo
        /\ "DECODE" \in todo' <=> "DECODE" \in todo
        /\ "WB" \notin todo'
    BY <1>1
  <1>3. gpr[0] = 0 /\ phase \in {0, 1}
    BY DEF ValueInv, TypeOK, ControlTypeOK
  <1>4. CASE phase = 0
    <2>1. WbPhi0
      BY <1>4 DEF Writeback, WbSyscall, Trap, WbIllegal, WbNothing, Runs
    <2>2. /\ mem' = mem
          /\ gpr' = Behind.gpr /\ fpr' = Behind.fpr /\ hi' = Behind.hi /\ lo' = Behind.lo
      BY <1>3, <2>1, WbWrites
    <2>3. Regs' = Behind
      <3>1. Behind = [gpr |-> Behind.gpr, fpr |-> Behind.fpr, hi |-> Behind.hi, lo |-> Behind.lo]
        BY DEF Behind, WrittenBack
      <3> QED BY <2>2, <3>1 DEF Regs
    <2>4. Settled' = Settled
      BY <1>1, <1>2, <2>3 DEF Settled, Behind
    <2>5. Value(em)' = Value(em)
      BY <1>1, <2>2 DEF Value, Loaded
    <2>6. Next0' = Next0
      BY <1>1, <2>4, <2>5 DEF Next0
    <2>7. Executed(de)' = Executed(de)
      BY <1>1 DEF Executed, Operands
    <2>8. Values0
      BY <1>4 DEF ValueInv
    <2>9. Values0'
      BY <1>1, <1>2, <2>4, <2>6, <2>7, <2>8, Zenon DEF Values0
    <2>10. gpr'[0] = 0
      <3>1. Behind.gpr[0] = gpr[0]
        BY WrittenFields, ConstantsOK DEF Behind, Regs
      <3> QED BY <1>3, <2>2, <3>1
    <2> QED BY <1>1, <1>4, <2>9, <2>10 DEF ValueInv
  <1>5. CASE phase = 1 /\ IsSyscall(wloc.ins)
    <2>1. InWb1
      BY <1>1, <1>5 DEF FlightInv, NoCall1, InExe1, InMem1, SyscallIn
    <2>2. /\ ~mloc.v /\ ~eloc.v /\ ~de.v
          /\ "MEM" \notin todo => ~mw.v
      BY <2>1 DEF InWb1, Empty
    <2>3. Values1
      BY <1>5 DEF ValueInv
    <2>4. Values1'
      BY <1>1, <1>2, <2>2, <2>3, Zenon DEF Values1, Unretired
    <2>5. gpr'[0] = 0
      BY <1>3, <1>5, WbCalls
    <2> QED BY <1>1, <1>5, <2>4, <2>5 DEF ValueInv
  <1>6. CASE phase = 1 /\ ~IsSyscall(wloc.ins)
    <2>1. UNCHANGED <<mem, gpr, fpr, hi, lo>>
      BY <1>3, <1>6, WbCalls
    <2> QED BY <1>1, <1>2, <1>6, <2>1, ValueKept
  <1> QED BY <1>3, <1>4, <1>5, <1>6

\* ValueInv is inductive relative to the invariants above.
LEMMA ValueStep ==
  ASSUME SubregGarbage = {FALSE}
  PROVE  TypeOK /\ SquashInv /\ FlightInv /\ ValueInv /\ Separated /\ [Next]_vars => ValueInv'
  <1> SUFFICES ASSUME TypeOK, SquashInv, FlightInv, ValueInv, Separated, [Next]_vars
               PROVE ValueInv'
    OBVIOUS
  <1>1. CASE UNCHANGED vars \/ Stopped
    <2>1. UNCHANGED <<mem, gpr, fpr, hi, lo, phase, todo, de, em, mw, dloc, eloc, mloc>>
      BY <1>1 DEF vars, Stopped, archVars, latchVars, timeVars, locVars
    <2> QED BY <2>1, ValueKept
  <1>2. CASE Tick
    <2>1. phase \in {0, 1}
      BY DEF TypeOK, ControlTypeOK
    <2> QED BY <1>2, <2>1, ValueTick0, ValueTick1
  <1>3. CASE Fetch
    <2>1. UNCHANGED <<mem, gpr, fpr, hi, lo>>
      BY <1>3, ArchKept
    <2>2. /\ todo' = todo \ {"FETCH"}
          /\ UNCHANGED <<phase, de, em, mw, dloc, eloc, mloc>>
      BY <1>3, FetchEffect
    <2> QED BY <2>1, <2>2, ValueKept
  <1> QED BY <1>1, <1>2, <1>3, ValueDecode, ValueExe, ValueMemory, ValueWriteback DEF Next

\* Every result in flight is the one the sequential machine computes.
THEOREM ValueHolds ==
  ASSUME SubregGarbage = {FALSE}
  PROVE  Spec /\ []Separated => []ValueInv
  BY ValueInit, ValueStep, TypeCorrect, SquashHolds, FlightHolds, PTL DEF Spec

-----------------------------------------------------------------------------
(***************************************************************************)
(* The steps of the sequential machine.                                    *)
(***************************************************************************)
\* MipsISA reads the decode table of MipsInsn.
LEMMA SameTable ==
  /\ ISA!AluR = AluR /\ ISA!AluI = AluI /\ ISA!MulDivOps = MulDivOps /\ ISA!CondOps = CondOps
  /\ ISA!CondBranch2 = CondBranch2 /\ ISA!CondBranchLink = CondBranchLink /\ ISA!Jumps = Jumps
  /\ ISA!LoadOps = LoadOps /\ ISA!StoreOps = StoreOps /\ ISA!Insn = Insn /\ ISA!Word = Word
  /\ ISA!RA = RA /\ ISA!V0 = V0 /\ ISA!A0 = A0
  /\ \A a : ISA!WordAt(a) = WordAt(a)
  /\ \A r, v, a : ISA!AfterCall(r, v, a) = AfterCall(r, v, a)
  <1>1. /\ ISA!AluR = AluR /\ ISA!AluI = AluI /\ ISA!MulDivOps = MulDivOps
        /\ ISA!CondBranch2 = CondBranch2 /\ ISA!CondBranchLink = CondBranchLink
        /\ ISA!Jumps = Jumps
    BY DEF ISA!AluR, AluR, ISA!AluI, AluI, ISA!MulDivOps, MulDivOps,
           ISA!CondBranch2, CondBranch2, ISA!CondBranchLink, CondBranchLink, ISA!Jumps, Jumps
  <1>2. ISA!CondOps = CondOps
    BY <1>1 DEF ISA!CondOps, CondOps, ISA!CondBranch1, CondBranch1
  <1>3. ISA!LoadOps = LoadOps /\ ISA!StoreOps = StoreOps
    BY DEF ISA!LoadOps, LoadOps, ISA!IntLoads, IntLoads, ISA!SubregLoads, SubregLoads,
           ISA!StoreOps, StoreOps
  <1>4. \A a : ISA!WordAt(a) = WordAt(a)
    BY DEF ISA!WordAt, WordAt
  <1>5. \A r, v, a : ISA!AfterCall(r, v, a) = AfterCall(r, v, a)
    BY DEF ISA!AfterCall, AfterCall, ISA!One, One, ISA!V0, V0, ISA!A3, A3
  <1>6. ISA!RA = RA /\ ISA!V0 = V0 /\ ISA!A0 = A0 /\ ISA!Word = Word
    BY DEF ISA!RA, RA, ISA!V0, V0, ISA!A0, A0, ISA!Word, Word
  <1>7. ISA!Ops = Ops
    BY <1>1, <1>2, <1>3 DEF ISA!Ops, Ops, ISA!SpecialOnly, SpecialOnly
  <1>8. ISA!Insn = Insn
    BY <1>6, <1>7 DEF ISA!Insn, Insn
  <1> QED BY <1>1, <1>2, <1>3, <1>4, <1>5, <1>6, <1>8

\* WB retires mw, which holds the next instruction of the program with the
\* results it has when it runs alone.
RetiresNext ==
    /\ mw.ins = code[apc] /\ mw.pc = apc /\ Right(mw, Regs) /\ mw.resLo = Value(mw)
    /\ ~IsSyscall(mw.ins) /\ ~IsIllegalOp(mw.ins) /\ ~IsStore(mw.ins)
    /\ gpr' = Behind.gpr /\ fpr' = Behind.fpr /\ hi' = Behind.hi /\ lo' = Behind.lo
    /\ mem' = mem /\ Halted' = Halted
    /\ apc' = anpc /\ anpc' = IF mw.btaken THEN mw.btgt ELSE (anpc + 1) % M

\* The register files after the write-back, by what the instruction writes.
LEMMA GprWritten ==
  ASSUME TypeOK, RetiresNext
  PROVE  /\ ~WriteREG(mw.ins) => gpr' = gpr
         /\ WriteREG(mw.ins) =>
              gpr' = IF DecodedDST(mw.ins) = 0 THEN gpr
                     ELSE [gpr EXCEPT ![DecodedDST(mw.ins)] = mw.resLo]
         /\ fpr' = IF WriteFREG(mw.ins) THEN [fpr EXCEPT ![DecodedDST(mw.ins)] = mw.resLo]
                   ELSE fpr
         /\ hi' = IF HiWPort(mw.ins) THEN mw.resHi ELSE hi
         /\ lo' = IF LoWPort(mw.ins) THEN mw.resLo ELSE lo
  <1> DEFINE i == mw.ins
             d == DecodedDST(i)
  <1>1. i \in Insn /\ gpr \in [Reg -> Word] /\ fpr \in [Reg -> Word]
    BY DEF TypeOK, EMType
  <1>2. /\ gpr' = [r \in Reg |-> IF r # 0 /\ Writes(i, r) THEN mw.resLo ELSE gpr[r]]
        /\ fpr' = [r \in Reg |-> IF WriteFREG(i) /\ d = r THEN mw.resLo ELSE fpr[r]]
        /\ hi' = IF HiWPort(i) THEN mw.resHi ELSE hi
        /\ lo' = IF LoWPort(i) THEN mw.resLo ELSE lo
    BY DEF RetiresNext, Behind, WrittenBack, Regs
  <1> HIDE DEF i, d
  <1>3. ~WriteREG(i) => gpr' = gpr
    BY <1>1, <1>2 DEF Writes
  <1>4. WriteREG(i) => gpr' = IF d = 0 THEN gpr ELSE [gpr EXCEPT ![d] = mw.resLo]
    <2> SUFFICES ASSUME WriteREG(i)
                 PROVE  gpr' = IF d = 0 THEN gpr ELSE [gpr EXCEPT ![d] = mw.resLo]
      OBVIOUS
    <2>1. gpr' = [r \in Reg |-> IF r # 0 /\ d = r THEN mw.resLo ELSE gpr[r]]
      BY <1>2 DEF Writes, d
    <2>2. CASE d = 0
      BY <1>1, <2>1, <2>2
    <2>3. CASE d # 0
      BY <1>1, <2>1, <2>3
    <2> QED BY <2>2, <2>3
  <1>5. fpr' = IF WriteFREG(i) THEN [fpr EXCEPT ![d] = mw.resLo] ELSE fpr
    <2>1. CASE WriteFREG(i)
      BY <1>1, <1>2, <2>1
    <2>2. CASE ~WriteFREG(i)
      BY <1>1, <1>2, <2>2
    <2> QED BY <2>1, <2>2
  <1> QED BY <1>2, <1>3, <1>4, <1>5 DEF i, d

\* The classes of instructions exclude each other.
LEMMA Kinds ==
  ASSUME NEW op
  PROVE  /\ op \in AluR => op \notin AluI \cup MulDivOps
         /\ op \in AluI => op \notin MulDivOps
         /\ op \in AluR \cup AluI \cup MulDivOps =>
              op \notin {"mfhi", "mflo", "mthi", "mtlo", "mtc1", "mfc1", "break"}
         /\ op \in AluR \cup AluI \cup MulDivOps
                  \cup {"mfhi", "mflo", "mthi", "mtlo", "mtc1", "mfc1", "break"} =>
              op \notin CondOps \cup Jumps \cup LoadOps \cup StoreOps \cup CondBranchLink
         /\ op \in CondOps \cup Jumps => op \notin LoadOps \cup StoreOps
         /\ op \in CondOps => op \notin Jumps
         /\ op \in CondBranchLink => op \in CondOps
         /\ op \in AluR \cup MulDivOps \cup CondOps => op # "lui"
  <1> USE DEF AluR, AluI, MulDivOps, CondOps, CondBranch1, CondBranch2, CondBranchLink, Jumps,
              LoadOps, IntLoads, SubregLoads, StoreOps
  <1>1. /\ op \in AluR => op \notin AluI \cup MulDivOps
        /\ op \in AluI => op \notin MulDivOps
        /\ op \in AluR \cup AluI \cup MulDivOps =>
              op \notin {"mfhi", "mflo", "mthi", "mtlo", "mtc1", "mfc1", "break"}
    OBVIOUS
  <1>2. op \in AluR \cup AluI \cup MulDivOps
                  \cup {"mfhi", "mflo", "mthi", "mtlo", "mtc1", "mfc1", "break"} =>
              op \notin CondOps \cup Jumps \cup LoadOps \cup StoreOps \cup CondBranchLink
    OBVIOUS
  <1>3. /\ op \in CondOps \cup Jumps => op \notin LoadOps \cup StoreOps
        /\ op \in CondOps => op \notin Jumps
        /\ op \in CondBranchLink => op \in CondOps
        /\ op \in AluR \cup MulDivOps \cup CondOps => op # "lui"
    OBVIOUS
  <1> QED BY <1>1, <1>2, <1>3

\* What the instructions that write a general register write, and which.
LEMMA RegPorts ==
  ASSUME NEW i
  PROVE  /\ i.op \in AluR \cup {"mfhi", "mflo", "jalr"} => WriteREG(i) /\ DecodedDST(i) = i.rd
         /\ i.op \in AluI \cup (LoadOps \ {"lwc1"}) \cup {"mfc1"} =>
              WriteREG(i) /\ DecodedDST(i) = i.rt
         /\ i.op \in CondBranchLink \cup {"jal"} => WriteREG(i) /\ DecodedDST(i) = RA
         /\ i.op \in MulDivOps \cup {"mthi", "mtlo", "mtc1", "break", "lwc1", "j", "jr"}
                       \cup (CondOps \ CondBranchLink) => ~WriteREG(i)
  <1> USE DEF AluR, AluI, MulDivOps, CondOps, CondBranch1, CondBranch2, CondBranchLink,
              LoadOps, IntLoads, SubregLoads, StoreOps, SpecialOnly
  <1>1. i.op \in AluR \cup {"mfhi", "mflo", "jalr"} => WriteREG(i) /\ DecodedDST(i) = i.rd
    BY DEF WriteREG, DecodedDST
  <1>2. i.op \in AluI \cup (LoadOps \ {"lwc1"}) \cup {"mfc1"} =>
          WriteREG(i) /\ DecodedDST(i) = i.rt
    BY DEF WriteREG, DecodedDST
  <1>3. i.op \in CondBranchLink \cup {"jal"} => WriteREG(i) /\ DecodedDST(i) = RA
    BY DEF WriteREG, DecodedDST
  <1>4. i.op \in MulDivOps \cup {"mthi", "mtlo", "mtc1", "break", "lwc1", "j", "jr"}
                   \cup (CondOps \ CondBranchLink) => ~WriteREG(i)
    BY DEF WriteREG
  <1> QED BY <1>1, <1>2, <1>3, <1>4

\* Which instructions write elsewhere.
LEMMA OtherPorts ==
  ASSUME NEW i
  PROVE  /\ WriteFREG(i) <=> i.op \in {"lwc1", "mtc1"}
         /\ WriteFREG(i) => DecodedDST(i) = IF i.op = "mtc1" THEN i.rd ELSE i.rt
         /\ HiWPort(i) <=> i.op \in MulDivOps \cup {"mthi"}
         /\ LoWPort(i) <=> i.op \in MulDivOps \cup {"mtlo"}
         /\ MemControl(i) <=> i.op \in LoadOps \cup StoreOps
  BY DEF WriteFREG, DecodedDST, HiWPort, LoWPort, MemControl, AluR, AluI, MulDivOps,
         CondBranchLink, LoadOps, IntLoads, SubregLoads, StoreOps, SpecialOnly

\* The results of the instructions that compute, in registers R.
LEMMA ComputedResults ==
  ASSUME NEW i \in Insn, NEW a, NEW R, NEW q, q = Reads(i, R)
  PROVE  /\ i.op \in AluR =>
              ResultLo(i, a, q) = Alu(i.op, R.gpr[i.rs], R.gpr[i.rt], i.imm)
         /\ i.op \in AluI =>
              ResultLo(i, a, q) = Alu(i.op, IF i.op = "lui" THEN 0 ELSE R.gpr[i.rs], i.imm, i.imm)
         /\ i.op \in MulDivOps =>
              /\ ResultLo(i, a, q) = MulDiv(i.op, R.gpr[i.rs], R.gpr[i.rt])[2]
              /\ ResultHi(i, q) = MulDiv(i.op, R.gpr[i.rs], R.gpr[i.rt])[1]
         /\ i.op = "mfhi" => ResultLo(i, a, q) = R.hi
         /\ i.op = "mflo" => ResultLo(i, a, q) = R.lo
         /\ i.op = "mthi" => ResultHi(i, q) = R.gpr[i.rs]
         /\ i.op = "mtlo" => ResultLo(i, a, q) = R.gpr[i.rs]
         /\ i.op = "mtc1" => ResultLo(i, a, q) = R.gpr[i.rt]
         /\ i.op = "mfc1" => ResultLo(i, a, q) = R.fpr[i.rd]
         /\ i.op \in CondBranchLink \cup {"jal", "jalr"} => ResultLo(i, a, q) = (a + 2) % M
  <1>1. /\ i.op \in AluR \cup MulDivOps => q.src1 = R.gpr[i.rs] /\ q.src2 = R.gpr[i.rt]
        /\ i.op \in AluI => q.src1 = (IF i.op = "lui" THEN 0 ELSE R.gpr[i.rs]) /\ q.src2 = i.imm
        /\ i.op \in {"mthi", "mtlo"} => q.src1 = R.gpr[i.rs]
        /\ i.op = "mtc1" => q.src1 = R.gpr[i.rt]
        /\ i.op = "mfc1" => q.src1 = R.fpr[i.rd]
    <2>1. i.op \in AluR \cup AluI \cup MulDivOps => i.op \notin Jumps
      BY Kinds
    <2>2. i.op \in AluR \cup AluI \cup MulDivOps =>
             i.op \notin {"mfhi", "mflo", "mtc1", "mfc1", "j", "jal"}
      BY <2>1, Kinds DEF Jumps
    <2>3. i.op \in AluR \cup MulDivOps => i.op # "lui"
      BY Kinds
    <2> QED BY <2>2, <2>3, FirstSource, SecondSource
  <1>2. q.hi = R.hi /\ q.lo = R.lo
    BY DEF Reads
  <1>3. /\ i.op \in AluR \cup AluI => ResultLo(i, a, q) = Alu(i.op, q.src1, q.src2, i.imm)
        /\ i.op \in MulDivOps => ResultLo(i, a, q) = MulDiv(i.op, q.src1, q.src2)[2]
        /\ i.op = "mfhi" => ResultLo(i, a, q) = q.hi
        /\ i.op = "mflo" => ResultLo(i, a, q) = q.lo
        /\ i.op \in {"mtlo", "mtc1", "mfc1"} => ResultLo(i, a, q) = q.src1
        /\ i.op \in CondBranchLink \cup {"jal", "jalr"} => ResultLo(i, a, q) = (a + 2) % M
    BY DEF ResultLo, AluR, AluI, MulDivOps, CondBranchLink
  <1>4. /\ i.op \in MulDivOps => ResultHi(i, q) = MulDiv(i.op, q.src1, q.src2)[1]
        /\ i.op = "mthi" => ResultHi(i, q) = q.src1
    BY DEF ResultHi, MulDivOps
  <1> QED BY <1>1, <1>2, <1>3, <1>4

\* What EXE left in mw, for the instruction at apc.
LEMMA RetiredResults ==
  ASSUME TypeOK, RetiresNext, NEW q, q = Reads(code[apc], Regs)
  PROVE  /\ code[apc] \in Insn
         /\ Regs.gpr = gpr /\ Regs.fpr = fpr /\ Regs.hi = hi /\ Regs.lo = lo
         /\ mw.btaken <=> Branches(code[apc], q.src1, q.src2)
         /\ mw.btgt = BranchTarget(code[apc], apc, q.src1)
         /\ MemControl(code[apc]) => mw.addr = (q.src1 + q.src2) % M /\ mw.sub = q.sub
         /\ ~MemControl(code[apc]) => /\ mw.resLo = ResultLo(code[apc], apc, q)
                                      /\ mw.resHi = ResultHi(code[apc], q)
  <1>1. mw.ins \in Insn /\ mw.ins = code[apc] /\ mw.pc = apc
    BY DEF TypeOK, EMType, RetiresNext
  <1>2. Right(mw, Regs) /\ ~IsSyscall(mw.ins) /\ ~IsIllegalOp(mw.ins)
    BY DEF RetiresNext
  <1>3. /\ mw.btaken = Branches(mw.ins, q.src1, q.src2)
        /\ mw.btgt = BranchTarget(mw.ins, mw.pc, q.src1)
        /\ IF MemControl(mw.ins) THEN mw.addr = (q.src1 + q.src2) % M /\ mw.sub = q.sub
           ELSE mw.resLo = ResultLo(mw.ins, mw.pc, q) /\ mw.resHi = ResultHi(mw.ins, q)
    BY <1>1, <1>2, Zenon DEF Right
  <1>4. Regs.gpr = gpr /\ Regs.fpr = fpr /\ Regs.hi = hi /\ Regs.lo = lo
    BY DEF Regs
  <1> QED BY <1>1, <1>3, <1>4, Zenon

\* An instruction that computes.
LEMMA RetireCompute ==
  ASSUME TypeOK, RetiresNext,
         code[apc].op \in AluR \cup AluI \cup MulDivOps
                   \cup {"mfhi", "mflo", "mthi", "mtlo", "mtc1", "mfc1", "break"}
  PROVE  ISA!Compute
  <1> DEFINE i == code[apc]
             op == i.op
             q == Reads(i, Regs)
  <1>1. /\ i \in Insn /\ mw.ins = i
        /\ Regs.gpr = gpr /\ Regs.fpr = fpr /\ Regs.hi = hi /\ Regs.lo = lo
        /\ mw.btaken <=> Branches(i, q.src1, q.src2)
        /\ ~MemControl(i) => mw.resLo = ResultLo(i, apc, q) /\ mw.resHi = ResultHi(i, q)
    BY RetiredResults DEF RetiresNext
  <1>2. ~MemControl(i) /\ ~Branches(i, q.src1, q.src2)
    BY Kinds, OtherPorts DEF Branches
  <1>3. mw.resLo = ResultLo(i, apc, q) /\ mw.resHi = ResultHi(i, q) /\ ~mw.btaken
    BY <1>1, <1>2
  <1>4. ISA!Advance(FALSE)
    BY <1>3 DEF RetiresNext, ISA!Advance
  <1>5. UNCHANGED <<mem, Halted>>
    BY DEF RetiresNext
  <1>6. /\ op \in AluR => mw.resLo = Alu(op, gpr[i.rs], gpr[i.rt], i.imm)
        /\ op \in AluI => mw.resLo = Alu(op, IF op = "lui" THEN 0 ELSE gpr[i.rs], i.imm, i.imm)
        /\ op \in MulDivOps => /\ mw.resLo = MulDiv(op, gpr[i.rs], gpr[i.rt])[2]
                               /\ mw.resHi = MulDiv(op, gpr[i.rs], gpr[i.rt])[1]
        /\ op = "mfhi" => mw.resLo = hi
        /\ op = "mflo" => mw.resLo = lo
        /\ op = "mthi" => mw.resHi = gpr[i.rs]
        /\ op = "mtlo" => mw.resLo = gpr[i.rs]
        /\ op = "mtc1" => mw.resLo = gpr[i.rt]
        /\ op = "mfc1" => mw.resLo = fpr[i.rd]
    BY <1>1, <1>3, ComputedResults
  <1> HIDE DEF q
  <1>7. /\ ~WriteREG(i) => gpr' = gpr
        /\ WriteREG(i) => gpr' = IF DecodedDST(i) = 0 THEN gpr
                                 ELSE [gpr EXCEPT ![DecodedDST(i)] = mw.resLo]
        /\ fpr' = IF WriteFREG(i) THEN [fpr EXCEPT ![DecodedDST(i)] = mw.resLo] ELSE fpr
        /\ hi' = IF HiWPort(i) THEN mw.resHi ELSE hi
        /\ lo' = IF LoWPort(i) THEN mw.resLo ELSE lo
    BY <1>1, GprWritten
  <1>8. gpr[i.rs] \in Word /\ gpr[i.rt] \in Word /\ i.imm \in Word
    BY <1>1, InsnFields DEF TypeOK
  <1> HIDE DEF i
  <1> USE DEF ISA!SetGpr, ISA!Insn0, ISA!Rs, ISA!Rt
  <1>9. CASE op \in AluR
    <2>1. /\ gpr' = IF i.rd = 0 THEN gpr ELSE [gpr EXCEPT ![i.rd] = mw.resLo]
          /\ UNCHANGED <<fpr, hi, lo>>
      BY <1>7, <1>9, RegPorts, OtherPorts, Kinds
    <2>2. op \notin AluI \cup MulDivOps
            /\ op \notin {"mfhi", "mflo", "mthi", "mtlo", "mtc1", "mfc1", "break"}
      BY <1>9, Kinds
    <2> QED BY <1>4, <1>5, <1>6, <1>9, <2>1, <2>2, SameTable DEF ISA!Compute, i
  <1>10. CASE op \in AluI
    <2>1. /\ gpr' = IF i.rt = 0 THEN gpr ELSE [gpr EXCEPT ![i.rt] = mw.resLo]
          /\ UNCHANGED <<fpr, hi, lo>>
      BY <1>7, <1>10, RegPorts, OtherPorts, Kinds
    <2>2. op \notin AluR \cup MulDivOps
            /\ op \notin {"mfhi", "mflo", "mthi", "mtlo", "mtc1", "mfc1", "break"}
      BY <1>10, Kinds
    <2>3. mw.resLo = Alu(op, gpr[i.rs], i.imm, 0)
      <3>1. 0 \in Word
        BY ZeroWord
      <3>2. CASE op = "lui"
        BY <1>6, <1>8, <1>10, <3>1, <3>2, UnusedOperands
      <3>3. CASE op # "lui"
        BY <1>6, <1>8, <1>10, <3>1, <3>3, UnusedOperands
      <3> QED BY <3>2, <3>3
    <2> QED BY <1>4, <1>5, <1>10, <2>1, <2>2, <2>3, SameTable DEF ISA!Compute, i
  <1>11. CASE op \in MulDivOps
    <2>1. gpr' = gpr /\ fpr' = fpr /\ hi' = mw.resHi /\ lo' = mw.resLo
      <3>1. ~WriteREG(i) /\ ~WriteFREG(i) /\ HiWPort(i) /\ LoWPort(i)
        BY <1>11, RegPorts, OtherPorts, Kinds DEF MulDivOps
      <3> QED BY <1>7, <3>1
    <2>2. op \notin AluR \cup AluI
            /\ op \notin {"mfhi", "mflo", "mthi", "mtlo", "mtc1", "mfc1", "break"}
      BY <1>11, Kinds
    <2>3. MulDiv(op, gpr[i.rs], gpr[i.rt]) \in Word \X Word
      BY <1>8, <1>11, ArithmeticOK
    <2>4. <<hi', lo'>> = MulDiv(op, gpr[i.rs], gpr[i.rt])
      BY <1>6, <1>11, <2>1, <2>3
    <2> QED BY <1>4, <1>5, <1>11, <2>1, <2>2, <2>4, SameTable DEF ISA!Compute, i
  <1>12. CASE op \in {"mfhi", "mflo", "mthi", "mtlo", "mtc1", "mfc1", "break"}
    <2>1. op \notin AluR \cup AluI \cup MulDivOps
      BY <1>12, Kinds
    <2>2. CASE op = "mfhi"
      <3>1. /\ gpr' = IF i.rd = 0 THEN gpr ELSE [gpr EXCEPT ![i.rd] = hi]
            /\ UNCHANGED <<fpr, hi, lo>>
        BY <1>6, <1>7, <2>1, <2>2, RegPorts, OtherPorts
      <3> QED BY <1>4, <1>5, <2>1, <2>2, <3>1, SameTable DEF ISA!Compute, i
    <2>3. CASE op = "mflo"
      <3>1. /\ gpr' = IF i.rd = 0 THEN gpr ELSE [gpr EXCEPT ![i.rd] = lo]
            /\ UNCHANGED <<fpr, hi, lo>>
        BY <1>6, <1>7, <2>1, <2>3, RegPorts, OtherPorts
      <3> QED BY <1>4, <1>5, <2>1, <2>3, <3>1, SameTable DEF ISA!Compute, i
    <2>4. CASE op = "mthi"
      <3>1. hi' = gpr[i.rs] /\ UNCHANGED <<gpr, fpr, lo>>
        BY <1>6, <1>7, <2>1, <2>4, RegPorts, OtherPorts
      <3> QED BY <1>4, <1>5, <2>1, <2>4, <3>1, SameTable DEF ISA!Compute, i
    <2>5. CASE op = "mtlo"
      <3>1. lo' = gpr[i.rs] /\ UNCHANGED <<gpr, fpr, hi>>
        BY <1>6, <1>7, <2>1, <2>5, RegPorts, OtherPorts
      <3> QED BY <1>4, <1>5, <2>1, <2>5, <3>1, SameTable DEF ISA!Compute, i
    <2>6. CASE op = "mtc1"
      <3>1. fpr' = [fpr EXCEPT ![i.rd] = gpr[i.rt]] /\ UNCHANGED <<gpr, hi, lo>>
        BY <1>6, <1>7, <2>1, <2>6, RegPorts, OtherPorts
      <3> QED BY <1>4, <1>5, <2>1, <2>6, <3>1, SameTable DEF ISA!Compute, i
    <2>7. CASE op = "mfc1"
      <3>1. /\ gpr' = IF i.rt = 0 THEN gpr ELSE [gpr EXCEPT ![i.rt] = fpr[i.rd]]
            /\ UNCHANGED <<fpr, hi, lo>>
        BY <1>6, <1>7, <2>1, <2>7, RegPorts, OtherPorts
      <3> QED BY <1>4, <1>5, <2>1, <2>7, <3>1, SameTable DEF ISA!Compute, i
    <2>8. CASE op = "break"
      <3>1. UNCHANGED <<gpr, fpr, hi, lo>>
        BY <1>7, <2>1, <2>8, RegPorts, OtherPorts
      <3> QED BY <1>4, <1>5, <2>1, <2>8, <3>1, SameTable DEF ISA!Compute, i
    <2> QED BY <1>12, <2>2, <2>3, <2>4, <2>5, <2>6, <2>7, <2>8
  <1> QED BY <1>9, <1>10, <1>11, <1>12 DEF i

\* A branch or a jump, and the link register it writes.
LEMMA RetireBranch ==
  ASSUME TypeOK, RetiresNext, code[apc].op \in CondOps \cup Jumps
  PROVE  ISA!Branch
  <1> DEFINE i == code[apc]
             op == i.op
             q == Reads(i, Regs)
             link == IF op \in CondBranchLink \cup {"jal"} THEN RA
                     ELSE IF op = "jalr" THEN i.rd ELSE 0
             taken == IF op \in Jumps THEN TRUE
                      ELSE Taken(op, gpr[i.rs], IF op \in CondBranch2 THEN gpr[i.rt] ELSE 0)
             target == CASE op \in {"jr", "jalr"} -> gpr[i.rs]
                         [] op \in {"j", "jal"} -> i.imm
                         [] OTHER -> (apc + 1 + i.imm) % M
  <1>1. /\ i \in Insn /\ mw.ins = i
        /\ Regs.gpr = gpr /\ Regs.fpr = fpr /\ Regs.hi = hi /\ Regs.lo = lo
        /\ mw.btaken <=> Branches(i, q.src1, q.src2)
        /\ mw.btgt = BranchTarget(i, apc, q.src1)
        /\ ~MemControl(i) => mw.resLo = ResultLo(i, apc, q) /\ mw.resHi = ResultHi(i, q)
    BY RetiredResults DEF RetiresNext
  <1>2. /\ op \notin LoadOps \cup StoreOps
        /\ op \notin AluR \cup AluI \cup MulDivOps \cup
                       {"mfhi", "mflo", "mthi", "mtlo", "mtc1", "mfc1", "break"}
        /\ op \in CondOps => op \notin Jumps
        /\ op \in CondBranchLink => op \in CondOps
        /\ op # "lui"
    BY Kinds DEF AluI
  <1>3. ~MemControl(i) /\ op \notin {"lwc1", "mtc1", "mthi", "mtlo"}
    BY <1>2, OtherPorts DEF LoadOps
  <1>4. /\ op \in CondOps \cup {"jr", "jalr"} => q.src1 = gpr[i.rs]
        /\ op \in CondOps => q.src2 = IF op \in CondBranch2 THEN gpr[i.rt] ELSE 0
    <2>1. op \in CondOps \cup {"jr", "jalr"} =>
             op \notin {"mfhi", "mflo", "mtc1", "mfc1", "lui", "j", "jal"}
      BY <1>2 DEF Jumps
    <2>2. op \in CondOps /\ op \notin CondBranch2 => op \in CondBranch1
      BY DEF CondOps
    <2> QED BY <1>1, <2>1, <2>2, FirstSource, SecondSource
  <1>5. op \in CondBranchLink \cup {"jal", "jalr"} => mw.resLo = (apc + 2) % M
    BY <1>1, <1>3, ComputedResults
  <1>6. mw.btaken <=> taken
    BY <1>1, <1>2, <1>4 DEF Branches
  <1>7. mw.btaken => mw.btgt = target
    BY <1>1, <1>2, <1>4 DEF BranchTarget, Jumps
  <1> HIDE DEF q
  <1>8. UNCHANGED <<fpr, hi, lo, mem, Halted>>
    BY <1>1, <1>2, <1>3, GprWritten, OtherPorts DEF RetiresNext
  <1>9. gpr' = IF link = 0 THEN gpr ELSE [gpr EXCEPT ![link] = (apc + 2) % M]
    <2>1. CASE op \in CondBranchLink \cup {"jal"}
      BY <1>1, <1>5, <2>1, GprWritten, RegPorts DEF CondBranchLink
    <2>2. CASE op = "jalr"
      BY <1>1, <1>5, <2>2, GprWritten, RegPorts DEF CondBranchLink
    <2>3. CASE op \notin CondBranchLink \cup {"jal", "jalr"}
      <3>1. op \in {"j", "jr"} \cup (CondOps \ CondBranchLink)
        BY <2>3 DEF Jumps
      <3> QED BY <1>1, <2>3, <3>1, GprWritten, RegPorts
    <2> QED BY <2>1, <2>2, <2>3
  <1>10. apc' = anpc /\ anpc' = IF taken THEN target ELSE (anpc + 1) % M
    BY <1>6, <1>7 DEF RetiresNext
  <1>11. ISA!Advance(taken)
    BY <1>10 DEF ISA!Advance, ISA!Insn0, ISA!Rs
  <1> QED BY <1>8, <1>9, <1>11, SameTable
          DEF ISA!Branch, ISA!SetGpr, ISA!Insn0, ISA!Rs, ISA!Rt

\* A load: mw holds what MEM read, in the word the instruction addresses.
LEMMA RetireLoad ==
  ASSUME TypeOK, RetiresNext, code[apc].op \in LoadOps
  PROVE  ISA!LoadMem
  <1> DEFINE i == code[apc]
             op == i.op
             q == Reads(i, Regs)
             a == (gpr[i.rs] + i.imm) % M
             x == Load(op, mem[WordAt(a)], a, gpr[i.rt])
  <1>1. /\ i \in Insn /\ mw.ins = i
        /\ Regs.gpr = gpr /\ Regs.fpr = fpr /\ Regs.hi = hi /\ Regs.lo = lo
        /\ mw.btaken <=> Branches(i, q.src1, q.src2)
        /\ MemControl(i) => mw.addr = (q.src1 + q.src2) % M /\ mw.sub = q.sub
    BY RetiredResults DEF RetiresNext
  <1>2. ~Branches(i, q.src1, q.src2) /\ MemControl(i)
    BY Kinds, OtherPorts DEF Branches
  <1>3. op \notin {"mfhi", "mflo", "mtc1", "mfc1", "lui", "j", "jal", "mthi", "mtlo"}
        /\ op \notin MulDivOps
    BY DEF LoadOps, IntLoads, SubregLoads, MulDivOps
  <1>4. mw.addr = a /\ mw.sub = (IF op \in SubregLoads THEN gpr[i.rt] ELSE 0)
    <2>1. q.src1 = gpr[i.rs] /\ q.src2 = i.imm
      BY <1>1, <1>3, FirstSource, SecondSource
    <2>2. q.sub = IF op \in SubregLoads THEN gpr[i.rt] ELSE 0
      BY <1>1 DEF Reads
    <2> QED BY <1>1, <1>2, <2>1, <2>2
  <1> HIDE DEF q
  <1>5. a \in Word /\ gpr[i.rt] \in Word /\ mem[WordAt(a)] \in Word
    <2>1. gpr[i.rs] \in Int /\ i.imm \in Int /\ gpr[i.rt] \in Word
      BY <1>1, InsnFields, ZeroWord DEF TypeOK
    <2>2. a \in Word
      BY <2>1, ModWord
    <2> HIDE DEF a
    <2> QED BY <2>1, <2>2, AlignedAddr DEF TypeOK
  <1> HIDE DEF a
  <1>6. mw.resLo = x
    <2>1. mw.resLo = Load(op, mem[WordAt(a)], a, mw.sub)
      BY <1>1, <1>4 DEF RetiresNext, Value, Loaded
    <2>2. 0 \in Word
      BY ZeroWord
    <2>3. CASE op \in SubregLoads
      BY <1>4, <2>1, <2>3
    <2>4. CASE op \notin SubregLoads
      BY <1>4, <1>5, <2>1, <2>2, <2>4, UnusedOperands
    <2> QED BY <2>3, <2>4
  <1> HIDE DEF x
  <1>7. ISA!Advance(FALSE)
    BY <1>1, <1>2 DEF RetiresNext, ISA!Advance
  <1>8. UNCHANGED <<hi, lo, mem, Halted>>
    BY <1>1, <1>3, GprWritten, OtherPorts DEF RetiresNext
  <1>9. IF op = "lwc1" THEN fpr' = [fpr EXCEPT ![i.rt] = x] /\ gpr' = gpr
        ELSE gpr' = (IF i.rt = 0 THEN gpr ELSE [gpr EXCEPT ![i.rt] = x]) /\ fpr' = fpr
    <2>1. CASE op = "lwc1"
      BY <1>1, <1>6, <2>1, GprWritten, RegPorts, OtherPorts
    <2>2. CASE op # "lwc1"
      BY <1>1, <1>3, <1>6, <2>2, GprWritten, RegPorts, OtherPorts
    <2> QED BY <2>1, <2>2
  <1>10. ISA!Address = a
    BY DEF ISA!Address, ISA!Rs, ISA!Insn0, a
  <1> QED BY <1>7, <1>8, <1>9, <1>10, SameTable
          DEF ISA!LoadMem, ISA!SetGpr, ISA!Insn0, ISA!Rt, x

\* Everything the steps below rest on.
Invariants == TypeOK /\ ProgramOrder /\ PipelineInv

\* The states of the two machines correspond at the start.
LEMMA RefineInit == Init => ISA!Init
  <1> SUFFICES ASSUME Init PROVE ISA!Init
    OBVIOUS
  <1>1. code \in [Word -> Insn]
    BY PipelineOK DEF Init
  <1>2. /\ apc = BootPC /\ anpc = (BootPC + 1) % M
        /\ gpr \in InitGprs /\ fpr \in InitFprs /\ hi \in InitHiLo /\ lo \in InitHiLo
        /\ mem \in InitMems
    BY DEF Init
  <1>3. Halted = FALSE
    <2>1. sim_exit = FALSE /\ wloc = EmptyEM
      BY DEF Init
    <2> QED BY <2>1, NopClasses DEF Halted, EmptyEM
  <1> QED BY <1>1, <1>2, <1>3, SameTable DEF ISA!Init

\* What the sequential machine does not see.
LEMMA RefineStutter ==
  ASSUME UNCHANGED <<code, mem, gpr, fpr, hi, lo, apc, anpc, sim_exit, wloc>>
  PROVE  UNCHANGED ISA!isaVars
  <1>1. Halted' = Halted
    BY DEF Halted
  <1> QED BY <1>1 DEF ISA!isaVars

\* Stepping FETCH, DECODE and EXE, and moving the time on, changes nothing.
LEMMA RefineQuiet ==
  ASSUME TypeOK, SquashInv, Tick \/ Fetch \/ Decode \/ Exe
  PROVE  UNCHANGED ISA!isaVars
  <1>1. UNCHANGED <<mem, gpr, fpr, hi, lo>>
    BY ArchKept
  <1>2. UNCHANGED <<code, apc, anpc, sim_exit, wloc>>
    <2>1. CASE Tick
      BY <2>1, TickEffect
    <2>2. CASE Fetch
      BY <2>2, FetchEffect, Zenon
    <2>3. CASE DecodePhi0
      BY <2>3, SquashEffect, Zenon
    <2>4. CASE DecodePhi1
      BY <2>4, PassEffect, Zenon
    <2>5. CASE Exe
      BY <2>5, ExeEffect, Zenon
    <2> QED BY <2>1, <2>2, <2>3, <2>4, <2>5 DEF Decode
  <1> QED BY <1>1, <1>2, RefineStutter

\* MEM stores the word the sequential machine stores, when it is next.
LEMMA RefineMemory ==
  ASSUME Invariants, Memory
  PROVE  [ISA!Next]_ISA!isaVars
  <1> USE DEF Invariants, PipelineInv
  <1>1. /\ ~exited /\ "MEM" \in todo
        /\ UNCHANGED <<code, sim_exit, wloc>> /\ UNCHANGED <<gpr, fpr, hi, lo>>
    BY MemEffect, MemValue
  <1>2. Halted' = Halted
    BY <1>1 DEF Halted
  <1>3. CASE phase = 0
    <2>1. UNCHANGED <<mem, apc, anpc>>
      BY <1>3, MemEffect, MemValue
    <2> QED BY <1>1, <2>1, RefineStutter
  <1>4. CASE phase = 1 /\ ~IsStore(mloc.ins)
    <2>1. UNCHANGED <<mem, apc, anpc>>
      BY <1>4, MemEffect, MemValue
    <2> QED BY <1>1, <2>1, RefineStutter
  <1>5. CASE phase = 1 /\ IsStore(mloc.ins) /\ Halted
    BY <1>1, <1>2, <1>5 DEF ISA!Next, ISA!AfterHalt
  <1>6. CASE phase = 1 /\ IsStore(mloc.ins) /\ ~Halted
    <2> DEFINE i == code[apc]
               q == Reads(i, Regs)
               a == (gpr[i.rs] + i.imm) % M
               x == IF i.op = "swc1" THEN fpr[i.rt] ELSE gpr[i.rt]
    <2>1. /\ Retire(mloc)
          /\ mem' = [mem EXCEPT ![WordAt(mloc.addr)] =
                       Store(mloc.ins.op, @, mloc.addr, StoreData(mloc.ins))]
      <3>1. phase # 0
        BY <1>6
      <3> QED BY <1>6, <3>1, MemEffect, MemValue, Zenon
    <2>2. mloc.v
      BY <1>6, NopClasses DEF LatchInv, Marked
    <2>3. mloc.ins = i /\ mloc.pc = apc /\ i \in Insn
      BY <1>1, <1>6, <2>2 DEF ProgramOrder, TypeOK, EMType
    <2>4. Right(mloc, Regs)
      BY <1>1, <1>6, <2>2 DEF ValueInv, Values1
    <2>5. i.op \in StoreOps /\ ~IsSyscall(i) /\ ~IsIllegalOp(i) /\ MemControl(i)
          /\ i.op \notin CondOps \cup Jumps
          /\ i.op \notin {"mfhi", "mflo", "mtc1", "mfc1", "lui", "j", "jal"}
      BY <1>6, <2>3, ClassesDisjoint, Kinds DEF IsStore, MemControl, StoreOps
    <2>6. mloc.addr = a /\ ~mloc.btaken
      <3>1. mloc.btaken = Branches(i, q.src1, q.src2) /\ mloc.addr = (q.src1 + q.src2) % M
        BY <2>3, <2>4, <2>5, Zenon DEF Right
      <3>2. Regs.gpr = gpr
        BY DEF Regs
      <3>3. q.src1 = gpr[i.rs] /\ q.src2 = i.imm
        BY <2>3, <2>5, <3>2, FirstSource, SecondSource
      <3> QED BY <2>5, <3>1, <3>3 DEF Branches
    <2>7. StoreData(i) = x
      BY DEF StoreData
    <2>8. mem' = [mem EXCEPT ![WordAt(a)] = Store(i.op, @, a, x)]
      BY <2>1, <2>3, <2>6, <2>7
    <2>9. ISA!Advance(FALSE)
      BY <2>1, <2>6 DEF Retire, ISA!Advance
    <2>10. ISA!Address = a /\ ISA!WordAt(a) = WordAt(a) /\ ISA!StoreOps = StoreOps
      BY SameTable DEF ISA!Address, ISA!Rs, ISA!Insn0
    <2> HIDE DEF a
    <2>11. ISA!StoreMem
      BY <1>1, <1>2, <2>5, <2>8, <2>9, <2>10 DEF ISA!StoreMem, ISA!Insn0, ISA!Rt
    <2> QED BY <1>1, <1>6, <2>11 DEF ISA!Next, ISA!Step
  <1>7. phase \in {0, 1}
    BY DEF TypeOK, ControlTypeOK
  <1> QED BY <1>3, <1>4, <1>5, <1>6, <1>7

\* WB, writing the registers in PHI0, retires the next instruction, or finds
\* that it is illegal, or has nothing to write.
LEMMA RefineWbPhi0 ==
  ASSUME Invariants, WbPhi0
  PROVE  [ISA!Next]_ISA!isaVars
  <1> USE DEF Invariants, PipelineInv
  <1> DEFINE i == mw.ins
  <1>0. WbPhi0 => Writeback
    BY DEF Writeback
  <1>1. /\ ~exited /\ phase = 0 /\ "WB" \in todo /\ wloc' = mw /\ mem' = mem
        /\ UNCHANGED <<code, sim_exit>>
        /\ gpr' = Behind.gpr /\ fpr' = Behind.fpr /\ hi' = Behind.hi /\ lo' = Behind.lo
        /\ IF mw.v /\ ~IsStore(i) /\ ~IsSyscall(i) /\ ~IsIllegalOp(i)
           THEN Retire(mw) ELSE UNCHANGED <<apc, anpc, hist>>
    <2>1. phase = 0 /\ wloc' = mw /\ mem' = mem
          /\ gpr' = Behind.gpr /\ fpr' = Behind.fpr /\ hi' = Behind.hi /\ lo' = Behind.lo
      BY WbWrites DEF ValueInv
    <2>2. /\ IF mw.v /\ ~IsStore(i) /\ ~IsSyscall(i) /\ ~IsIllegalOp(i)
             THEN Retire(mw) ELSE UNCHANGED histVars
          /\ UNCHANGED exitVars
          /\ ~exited /\ "WB" \in todo /\ code' = code
      BY Zenon DEF WbPhi0, Runs
    <2> QED BY <2>1, <2>2 DEF histVars, exitVars
  <1>2. ~IsIllegalOp(wloc.ins) /\ (sim_exit /\ mw.v => IsStore(i))
    <2>1. phase # 1
      BY <1>1
    <2>2. sim_exit /\ mw.v => IsStore(i)
      BY <1>1, NothingLeft DEF QuitInv
    <2> QED BY <1>1, <2>1, <2>2 DEF QuitInv
  <1>3. Halted = sim_exit /\ Halted' = (sim_exit \/ IsIllegalOp(i))
    BY <1>1, <1>2, CountTypes DEF Halted
  <1>4. CASE mw.v /\ ~IsStore(i) /\ ~IsSyscall(i) /\ ~IsIllegalOp(i)
    <2>1. ~Halted /\ ~Halted'
      BY <1>2, <1>3, <1>4
    <2>2. Halted \in BOOLEAN
      BY CountTypes DEF Halted, IsIllegalOp
    <2>3. mw.ins = code[apc] /\ mw.pc = apc
      BY <1>1, <1>4 DEF ProgramOrder
    <2>4. Right(mw, Regs) /\ mw.resLo = Value(mw)
      BY <1>1, <1>4 DEF ValueInv, Values0, Unretired
    <2>5. Retire(mw)
      BY <1>1, <1>4
    <2>6. apc' = anpc /\ anpc' = IF mw.btaken THEN mw.btgt ELSE (anpc + 1) % M
      BY <2>5 DEF Retire
    <2>7. Halted' = Halted
      BY <1>3, <1>4, <2>1, <2>2
    <2>8. RetiresNext
      BY <1>1, <1>4, <2>3, <2>4, <2>6, <2>7 DEF RetiresNext
    <2>9. ISA!Compute \/ ISA!Branch \/ ISA!LoadMem
      <3>1. code[apc].op \in Ops
        BY <2>3, InsnFields DEF TypeOK, EMType
      <3>2. code[apc].op \notin StoreOps \cup {"syscall", "illegal"}
        BY <1>4, <2>3 DEF IsStore, IsSyscall, IsIllegalOp
      <3>3. \/ code[apc].op \in AluR \cup AluI \cup MulDivOps
                   \cup {"mfhi", "mflo", "mthi", "mtlo", "mtc1", "mfc1", "break"}
            \/ code[apc].op \in CondOps \cup Jumps
            \/ code[apc].op \in LoadOps
        BY <3>1, <3>2 DEF Ops, SpecialOnly, Jumps
      <3> QED BY <2>8, <3>3, RetireCompute, RetireBranch, RetireLoad
    <2> QED BY <1>1, <2>1, <2>9 DEF ISA!Next, ISA!Step
  <1>5. CASE ~(mw.v /\ ~IsStore(i) /\ ~IsSyscall(i) /\ ~IsIllegalOp(i))
    <2>1. UNCHANGED <<apc, anpc>>
      BY <1>1, <1>5
    <2>2. i = Nop \/ IsSyscall(i) \/ IsIllegalOp(i) \/ IsStore(i)
      BY <1>5 DEF LatchInv, Marked
    <2>3. Behind = Regs
      <3>1. i \in Insn
        BY DEF TypeOK, EMType
      <3> QED BY <2>2, <3>1, NonWriters, NothingWritten, RegsAreTyped DEF Behind
    <2>4. UNCHANGED <<gpr, fpr, hi, lo>>
      BY <1>1, <2>3 DEF Regs
    <2>5. CASE ~IsIllegalOp(i)
      <3>1. Halted' = Halted
        BY <1>3, <2>5, CountTypes
      <3> QED BY <1>1, <2>1, <2>4, <3>1 DEF ISA!isaVars
    <2>6. CASE IsIllegalOp(i)
      <3>1. mw.v /\ ~IsStore(i)
        BY <2>6, NopClasses, ClassesDisjoint DEF LatchInv, Marked
      <3>2. ~Halted /\ Halted' = TRUE
        BY <1>2, <1>3, <2>6, <3>1
      <3>3. code[apc].op = "illegal"
        BY <1>1, <2>6, <3>1 DEF ProgramOrder, IsIllegalOp
      <3>4. ISA!IllegalOp
        BY <1>1, <2>1, <2>4, <3>2, <3>3 DEF ISA!IllegalOp, ISA!Insn0
      <3> QED BY <1>1, <3>2, <3>4 DEF ISA!Next, ISA!Step
    <2> QED BY <2>5, <2>6
  <1> QED BY <1>4, <1>5

\* WB emulates a system call in PHI1 when it is the next instruction, and
\* nothing else it does then is seen.
LEMMA RefineWbPhi1 ==
  ASSUME Invariants, Writeback, phase = 1
  PROVE  [ISA!Next]_ISA!isaVars
  <1> USE DEF Invariants, PipelineInv
  <1>1. /\ ~exited /\ "WB" \in todo /\ code' = code /\ wloc' = wloc
        /\ UNCHANGED <<fpr, hi, lo>>
    BY WbEffect, WbCalls DEF ValueInv
  <1>2. CASE ~IsSyscall(wloc.ins)
    <2>1. UNCHANGED <<mem, gpr, sim_exit, apc, anpc>>
      BY <1>2, WbCalls DEF ValueInv
    <2> QED BY <1>1, <2>1, RefineStutter
  <1>3. CASE IsSyscall(wloc.ins)
    <2>1. /\ gpr' = AfterCall(gpr, gpr[V0], gpr[A0])
          /\ mem' = IF SysStores(gpr[V0])
                    THEN [mem EXCEPT ![WordAt(gpr[A0])] = SysRet(gpr[V0], gpr[A0])]
                    ELSE mem
          /\ sim_exit' = (sim_exit \/ SysQuits(gpr[V0]))
          /\ apc' = anpc /\ anpc' = (anpc + 1) % M
      BY <1>3, WbCalls DEF ValueInv
    <2>2. ~IsIllegalOp(wloc.ins) /\ wloc.v
      BY <1>3, ClassesDisjoint, NopClasses DEF LatchInv, Marked
    <2>3. ~sim_exit
      BY <1>1, <1>3, NothingLeft DEF QuitInv
    <2>4. ~Halted /\ Halted' = SysQuits(gpr[V0])
      <3>1. V0 \in Reg
        BY ConstantsOK DEF V0
      <3>2. SysQuits(gpr[V0]) \in BOOLEAN
        BY <3>1, ArithmeticOK DEF TypeOK
      <3>3. Halted' = (SysQuits(gpr[V0]) \/ IsIllegalOp(wloc.ins))
        BY <1>1, <2>1, <2>3 DEF Halted
      <3> QED BY <2>2, <2>3, <3>2, <3>3 DEF Halted
    <2>5. wloc.ins = code[apc]
      <3>1. Chain(code, <<apc, anpc>>, W1, M1, E1, D1, Q1)
        BY <2>2 DEF OrderInv
      <3>2. W1 = Resolved(wloc)
        BY <1>1, <1>3, <2>2 DEF W1, Only, Held
      <3>3. <<apc, anpc>>[1] = apc
        OBVIOUS
      <3> QED BY <2>2, <3>1, <3>2, <3>3, ChainRetire, FilledFields
    <2>6. code[apc].op = "syscall"
      BY <1>3, <2>5 DEF IsSyscall
    <2>7. ISA!Advance(FALSE)
      BY <2>1 DEF ISA!Advance
    <2>8. ISA!SystemCall
      BY <1>1, <2>1, <2>4, <2>6, <2>7, SameTable DEF ISA!SystemCall, ISA!Insn0
    <2> QED BY <1>1, <2>4, <2>8 DEF ISA!Next, ISA!Step
  <1> QED BY <1>2, <1>3

\* Every step of the pipeline is a step of the sequential machine or changes
\* nothing the sequential machine has.
LEMMA RefineStep ==
  ASSUME Invariants, [Next]_vars
  PROVE  [ISA!Next]_ISA!isaVars
  <1>1. CASE UNCHANGED vars \/ Stopped
    <2>1. UNCHANGED <<code, mem, gpr, fpr, hi, lo, apc, anpc, sim_exit, wloc>>
      BY <1>1 DEF vars, Stopped, archVars, exitVars, locVars, histVars
    <2> QED BY <2>1, RefineStutter
  <1>2. CASE Tick \/ Fetch \/ Decode \/ Exe
    BY <1>2, RefineQuiet DEF Invariants, PipelineInv
  <1>3. CASE Memory
    BY <1>3, RefineMemory
  <1>4. CASE Writeback
    <2>1. phase = 0 \/ phase = 1
      BY DEF Invariants, TypeOK, ControlTypeOK
    <2>2. ASSUME phase = 0 PROVE WbPhi0
      <3>1. phase # 1
        BY <2>2
      <3> QED BY <1>4, <3>1, Zenon DEF Writeback, WbSyscall, Trap, WbIllegal, WbNothing, Runs
    <2> QED BY <1>4, <2>1, <2>2, RefineWbPhi0, RefineWbPhi1
  <1> QED BY <1>1, <1>2, <1>3, <1>4 DEF Next

-----------------------------------------------------------------------------
(***************************************************************************)
(* SourceInv: the pipeline holds instructions of the program only.         *)
(***************************************************************************)
\* Nothing is in flight when the simulation starts.
LEMMA SourceInit == Init => SourceInv
  BY DEF Init, SourceInv, Sources, EmptyFD, EmptyDE, EmptyEM, EmptyDloc

\* FETCH reads the program, the other stages pass on what they were given,
\* and a stalled instruction waits in store_ins.
LEMMA SourceStep == TypeOK /\ SquashInv /\ SourceInv /\ [Next]_vars => SourceInv'
  <1> SUFFICES ASSUME TypeOK, SquashInv, SourceInv, [Next]_vars
               PROVE  SourceInv'
    OBVIOUS
  <1>1. CASE UNCHANGED vars \/ Stopped
    BY <1>1 DEF vars, Stopped, latchVars, lockVars, locVars, SourceInv, Sources
  <1>2. CASE Tick
    BY <1>2, TickEffect DEF SourceInv, Sources
  <1>3. CASE Fetch
    <2>1. /\ UNCHANGED <<code, lock_pipeline_data, de, em, dloc, eloc>>
          /\ fd' = fd \/ fd'.ins = code[pc]
      BY <1>3, FetchEffect, Zenon
    <2>2. pc \in Word
      BY DEF TypeOK, ControlTypeOK
    <2> QED BY <2>1, <2>2 DEF SourceInv, Sources
  <1>4. CASE DecodePhi0
    <2>1. dloc'.prev_ex = de.ins /\ dloc'.prev_me = em.ins
      BY <1>4, AheadCaptured
    <2>2. fd'.ins \in Sources
      BY <1>4, SquashEffect DEF SourceInv, Empty, Sources
    <2> QED BY <1>4, <2>1, <2>2, SquashEffect DEF SourceInv, Sources
  <1>5. CASE DecodePhi1
    <2>1. de'.ins \in Sources /\ (lock_pipeline_data' => de'.store_ins \in Sources)
      BY <1>5, PassEffect DEF SourceInv, Empty, Sources
    <2> QED BY <1>5, <2>1, PassEffect DEF SourceInv, Sources
  <1>6. CASE Exe
    BY <1>6, ExeEffect, ExecutedFields DEF SourceInv, Sources
  <1>7. CASE Memory
    BY <1>7, MemEffect DEF SourceInv, Sources
  <1>8. CASE Writeback
    BY <1>8, WbEffect DEF SourceInv, Sources
  <1> QED BY <1>1, <1>2, <1>3, <1>4, <1>5, <1>6, <1>7, <1>8 DEF Next, Decode

\* The pipeline never holds an instruction that is neither the bubble nor in
\* the program.
THEOREM SourceHolds == Spec => []SourceInv
  BY SourceInit, SourceStep, TypeCorrect, SquashHolds, PTL DEF Spec

\* The program does not change.
LEMMA CodeKept == TypeOK /\ [Next]_vars => code' = code
  <1> SUFFICES ASSUME TypeOK, [Next]_vars PROVE code' = code
    OBVIOUS
  <1>1. CASE UNCHANGED vars \/ Stopped
    BY <1>1 DEF vars, Stopped
  <1>2. CASE Tick
    BY <1>2, TickEffect
  <1>3. CASE Fetch
    BY <1>3, FetchEffect, Zenon
  <1>4. CASE Decode
    BY <1>4, Zenon DEF Decode, DecodePhi0, DecodePhi1, Runs
  <1>5. CASE Exe
    BY <1>5, ExeEffect, Zenon
  <1> QED BY <1>1, <1>2, <1>3, <1>4, <1>5, MemEffect, WbEffect DEF Next

\* A program without an unprotected pair is separated, whatever it branches to.
LEMMA SourcesSeparated == NoUnprotected /\ code \in Programs /\ SourceInv => Separated
  <1> SUFFICES ASSUME NoUnprotected, code \in Programs, SourceInv,
                      NEW i \in Sources, NEW j \in Sources
               PROVE  ~Unprotected(i, j)
    BY DEF Separated, SourceInv
  <1>1. CASE i = Nop \/ j = Nop
    BY <1>1 DEF Unprotected, Nop
  <1>2. CASE i # Nop /\ j # Nop
    BY <1>2 DEF Sources, NoUnprotected
  <1> QED BY <1>1, <1>2

-----------------------------------------------------------------------------
\* All of the inductive invariants hold together.
THEOREM PipelineInvHolds ==
  ASSUME SubregGarbage = {FALSE}
  PROVE  Spec /\ []Separated => []PipelineInv
  BY SquashHolds, FlightHolds, LatchHolds, SlotHolds, CountHolds, QuitHolds, CycleHolds,
     OrderHolds, SourceHolds, ValueHolds, PTL DEF PipelineInv

\* The pipeline of mips-fast implements the sequential machine, for every
\* program that keeps the unprotected pairs apart, every emulation of system
\* calls and every order in which the scheduler runs the tasks, provided the
\* uninitialised is_subreg of DE(FD*) reads false.
THEOREM ImplementsISAHolds ==
  ASSUME SubregGarbage = {FALSE}
  PROVE  Spec /\ []Separated => ImplementsISA
  <1>1. Init => ISA!Init
    BY RefineInit
  <1>2. Invariants /\ [Next]_vars => [ISA!Next]_ISA!isaVars
    BY RefineStep
  <1>3. Spec /\ []Separated => []Invariants
    BY TypeCorrect, ProgramOrderHolds, PipelineInvHolds, PTL DEF Invariants
  <1>4. Spec /\ []Separated => ISA!Init /\ [][ISA!Next]_ISA!isaVars
    BY <1>1, <1>2, <1>3, PTL DEF Spec
  <1> QED BY <1>4 DEF ImplementsISA, ISA!Spec

\* In particular for every program that has not both instructions of an
\* unprotected pair: a condition on its text alone.
THEOREM ProgramsImplementISA ==
  ASSUME SubregGarbage = {FALSE}, NoUnprotected
  PROVE  Spec => ImplementsISA
  <1>1. SourceInv /\ code \in Programs => Separated
    BY SourcesSeparated
  <1>2. Init => code \in Programs
    BY DEF Init
  <1>3. code \in Programs /\ TypeOK /\ [Next]_vars => (code \in Programs)'
    BY CodeKept
  <1>4. Spec => [](code \in Programs)
    BY <1>2, <1>3, TypeCorrect, PTL DEF Spec
  <1> QED BY <1>1, <1>4, SourceHolds, ImplementsISAHolds, PTL
=============================================================================
