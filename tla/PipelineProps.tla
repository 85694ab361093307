--------------------------- MODULE PipelineProps ----------------------------
(***************************************************************************)
(* The correctness properties of Pipeline.                                 *)
(***************************************************************************)
EXTENDS Pipeline

\* The sequential machine has stopped once the exit call was emulated or WB
\* captured an illegal instruction, although the tasks go on a little longer.
Halted == sim_exit \/ IsIllegalOp(wloc.ins)

FDType == [ins : Insn, pc : Word, v : BOOLEAN]
DEType == [ins : Insn, pc : Word, v : BOOLEAN, src1 : Word, src2 : Word,
           sub : Word, hi : Word, lo : Word, is_subreg : BOOLEAN,
           EX_EX_1 : BOOLEAN, EX_EX_2 : BOOLEAN,
           MEM_EX_1 : BOOLEAN, MEM_EX_2 : BOOLEAN,
           store_ins : Insn, store_pc : Word]
EMType == [ins : Insn, pc : Word, v : BOOLEAN, sub : Word, addr : Word,
           resHi : Word, resLo : Word, btaken : BOOLEAN, btgt : Word]
DlocType == [ins : Insn, pc : Word, v : BOOLEAN, prev_ex : Insn, prev_me : Insn]

ControlTypeOK ==
    /\ pc \in Word /\ apc \in Word /\ anpc \in Word
    /\ lock_pipeline_sys \in BOOLEAN /\ lock_pipeline_data \in BOOLEAN
    /\ isSyscall \in BOOLEAN /\ sim_exit \in BOOLEAN /\ exited \in BOOLEAN
    /\ cycle \in Nat /\ phase \in {0, 1} /\ todo \subseteq Task
    /\ fetch \in {"open", "locked", "paused"}
    /\ nfetched \in Int /\ load_stall \in Nat
    /\ hist \in [retired : Nat, syscalls : Nat, stalls : Nat]

\* Every variable holds a value of its C++ type; in particular every latch
\* holds an instruction that was in the program or the bubble.
TypeOK ==
    /\ code \in [Word -> Insn]
    /\ mem \in [MemAddr -> Word]
    /\ gpr \in [Reg -> Word] /\ fpr \in [Reg -> Word]
    /\ hi \in Word /\ lo \in Word
    /\ fd \in FDType /\ de \in DEType /\ em \in EMType /\ mw \in EMType
    /\ dloc \in DlocType
    /\ eloc \in EMType /\ mloc \in EMType /\ wloc \in EMType
    /\ ControlTypeOK

-----------------------------------------------------------------------------
(***************************************************************************)
(* The program counter has three writers and no owner.                     *)
(***************************************************************************)
SquashPending == /\ phase = 0
                 /\ "DECODE" \in todo
                 /\ lock_pipeline_data \/ isSyscall
BranchPending == phase = 0 /\ "EXE" \in todo /\ Executed(de).btaken

\* In a half cycle in which DECODE takes the program counter back to the
\* discarded instruction (decode.cc:187, 195), EXE does not also write a
\* branch target to it (executor.cc:227): nothing in the code orders the two
\* writes, so whichever came last would win.
NoPcRace == ~(SquashPending /\ BranchPending)

\* At most one of the two reasons to take a fetch back is pending, as the
\* if .. else if of decode.cc:186-201 takes for granted.
OneSquash == ~(lock_pipeline_data /\ isSyscall)

-----------------------------------------------------------------------------
(***************************************************************************)
(* System calls stop the pipeline: lock_pipeline_sys is set when DECODE    *)
(* sees one and cleared three cycles later when WB has emulated it.        *)
(***************************************************************************)
SyscallIn(l) == IsSyscall(l.ins)

\* When the emulation layer runs in WB, every stage behind it holds a bubble
\* (report.pdf, section 2.2: "the pipeline is filled with nop's when the
\* syscall is executed in WB stage"), so nobody can have read a register or
\* a memory word the call is about to change.
SyscallDrained ==
    phase = 1 /\ "WB" \in todo /\ SyscallIn(wloc) =>
        \A l \in {fd, de, em, dloc, eloc, mloc} : l.ins = Nop /\ ~l.v

\* The lock is held exactly while a system call is between DECODE and WB:
\* never left behind, never released early, never two calls at once.
Holders == {t \in Task :
               \/ t = "DECODE" /\ SyscallIn(de)
               \/ t = "EXE" /\ SyscallIn(em)
               \/ t = "MEM" /\ SyscallIn(mw)}
LockMatchesFlight ==
    phase = 1 /\ todo = {} =>
        /\ lock_pipeline_sys <=> Holders # {}
        /\ \A s, t \in Holders : s = t

-----------------------------------------------------------------------------
(***************************************************************************)
(* Why the four properties above hold: the inductive invariant.            *)
(***************************************************************************)
\* Between the two halves of DECODE no squash is pending, and a pending one
\* tells what DECODE left in de: the bubble or the system call.
SquashInv ==
    /\ OneSquash
    /\ phase = 0 /\ "DECODE" \notin todo => ~lock_pipeline_data /\ ~isSyscall
    /\ phase = 1 /\ "DECODE" \in todo => ~lock_pipeline_data /\ ~isSyscall
    /\ lock_pipeline_data => de.ins = Nop
    /\ isSyscall => SyscallIn(de)

Empty(l) == l.ins = Nop /\ ~l.v

\* What the tasks that ran in PHI0 copied out of the latches.
Copied ==
    /\ "DECODE" \notin todo => dloc.ins = fd.ins /\ dloc.v = fd.v
    /\ "EXE" \notin todo => eloc.ins = de.ins /\ eloc.v = de.v
    /\ "MEM" \notin todo => mloc = em
    /\ "WB" \notin todo => wloc = mw

\* FETCH holds before until it runs in this half cycle and after from then on.
FetchMoves(before, after) == fetch = IF "FETCH" \in todo THEN before ELSE after

\* PHI0, by the stage the system call has reached.
NoCall0 == /\ ~SyscallIn(de) /\ ~SyscallIn(em) /\ ~SyscallIn(mw)
           /\ ~lock_pipeline_sys /\ ~isSyscall
           /\ fetch = "open" \/ (fetch = "paused" /\ "FETCH" \notin todo)
Decoded0 == /\ SyscallIn(de) /\ ~SyscallIn(em) /\ ~SyscallIn(mw)
            /\ lock_pipeline_sys
            /\ isSyscall <=> "DECODE" \in todo
            /\ "DECODE" \notin todo => Empty(fd)
            /\ FetchMoves("open", "locked")
Executed0 == /\ SyscallIn(em) /\ Empty(fd) /\ Empty(de) /\ ~SyscallIn(mw)
             /\ lock_pipeline_sys /\ ~isSyscall /\ ~lock_pipeline_data
             /\ fetch = "paused" /\ "FETCH" \notin todo
Reached0 == /\ SyscallIn(mw) /\ Empty(fd) /\ Empty(de) /\ Empty(em)
            /\ lock_pipeline_sys /\ ~isSyscall /\ ~lock_pipeline_data
            /\ FetchMoves("open", "locked")

\* PHI1, by the stage whose task has captured the system call.
NoCall1 == /\ ~SyscallIn(eloc) /\ ~SyscallIn(mloc) /\ ~SyscallIn(wloc)
           /\ lock_pipeline_sys <=> isSyscall
           /\ isSyscall <=> "DECODE" \notin todo /\ SyscallIn(de)
           /\ "EXE" \notin todo => ~SyscallIn(em)
           /\ "MEM" \notin todo => ~SyscallIn(mw)
           /\ fetch = "open" \/ (fetch = "paused" /\ "FETCH" \in todo)
InExe1 == /\ SyscallIn(eloc) /\ Empty(dloc) /\ Empty(fd)
          /\ ~SyscallIn(mloc) /\ ~SyscallIn(wloc)
          /\ lock_pipeline_sys /\ ~isSyscall /\ ~lock_pipeline_data
          /\ "DECODE" \notin todo => Empty(de)
          /\ "EXE" \notin todo => SyscallIn(em)
          /\ "MEM" \notin todo => ~SyscallIn(mw)
          /\ FetchMoves("locked", "paused")
InMem1 == /\ SyscallIn(mloc) /\ Empty(fd) /\ Empty(dloc) /\ Empty(de) /\ Empty(eloc)
          /\ ~SyscallIn(wloc)
          /\ lock_pipeline_sys /\ ~isSyscall /\ ~lock_pipeline_data
          /\ "EXE" \notin todo => Empty(em)
          /\ "MEM" \notin todo => SyscallIn(mw)
          /\ FetchMoves("paused", "open")
InWb1 == /\ SyscallIn(wloc) /\ Empty(fd) /\ Empty(dloc) /\ Empty(de) /\ Empty(eloc)
         /\ Empty(em) /\ Empty(mloc)
         /\ lock_pipeline_sys <=> "WB" \in todo
         /\ ~isSyscall /\ ~lock_pipeline_data
         /\ "MEM" \notin todo => Empty(mw)
         /\ FetchMoves("locked", "paused")

\* At most one system call is in the pipeline, bubbles follow it from the
\* cycle after its decoding on, the lock is held from DECODE to WB, and FETCH
\* alternates between finding the pipeline locked and pausing.
FlightInv ==
    /\ phase = 0 => /\ Copied
                    /\ NoCall0 \/ Decoded0 \/ Executed0 \/ Reached0
    /\ phase = 1 => NoCall1 \/ InExe1 \/ InMem1 \/ InWb1

-----------------------------------------------------------------------------
(***************************************************************************)
(* Instructions retire in program order, each exactly once, whatever was   *)
(* stalled, squashed and fetched again in between.                         *)
(***************************************************************************)
\* The instruction MEM or WB is about to retire is the next of the program
\* order: a branch has one delay slot, and no instruction is lost, repeated
\* or fetched down the wrong path.
ProgramOrder ==
    /\ phase = 0 /\ "WB" \in todo /\ mw.v /\ ~IsStore(mw.ins)
            => mw.pc = apc /\ mw.ins = code[apc]
    /\ phase = 1 /\ "MEM" \in todo /\ mloc.v /\ IsStore(mloc.ins) /\ ~Halted
            => mloc.pc = apc /\ mloc.ins = code[apc]

\* The architected state of the pipeline.  Registers change when WB writes
\* them, memory changes when MEM does: a store retires half a cycle before
\* the other instructions of its stage.
ISA == INSTANCE MipsISA WITH pc <- apc, npc <- anpc, halted <- Halted

\* The pipeline implements the sequential machine: stalls, bypasses, squashes
\* and the order in which the scheduler runs the tasks do not show.
ImplementsISA == ISA!Spec

-----------------------------------------------------------------------------
(***************************************************************************)
(* What the simulator prints when it stops.                                *)
(***************************************************************************)
CycleDone == phase = 1 /\ todo = {} /\ ~exited

\* Instructions fetched and not retired yet.  A store is retired once it is
\* in mw; the instruction a squash will take back is still counted in fd; a
\* stalled instruction waits in de.store_ins behind a bubble.
InFlight == One(fd.v) + One(de.v \/ lock_pipeline_data) + One(em.v)
              + One(mw.v /\ ~IsStore(mw.ins))

\* _nfetched, the "Number of instructions" the CPI is computed from, counts
\* every retired instruction once although stalled and squashed instructions
\* are fetched twice; after a normal exit nothing else is left in it.
FetchAccounting == /\ CycleDone => nfetched = hist.retired + InFlight
                   /\ exited /\ sim_exit => nfetched = hist.retired

\* A system call costs four stall cycles on top of the fetch it discards, a
\* load-use dependence costs the discarded fetch only (report.pdf, section
\* 2.2: "4 stall cycles per syscall").
FourStallCycles ==
    CycleDone /\ fetch = "open" /\ ~lock_pipeline_sys =>
        cycle + 1 = nfetched + hist.stalls + 5 * hist.syscalls

-----------------------------------------------------------------------------
(***************************************************************************)
(* Why the instructions are counted once and retire in program order: the  *)
(* inductive invariants.                                                   *)
(***************************************************************************)
\* What is no instruction of the program is the bubble, and only a branch or
\* a jump takes a branch.
Marked(l) == l.v \/ l.ins = Nop
Branching(l) == l.btaken => l.ins.op \in Jumps \cup CondOps
LatchInv ==
    /\ Marked(fd) /\ Marked(de) /\ Marked(em) /\ Marked(mw)
    /\ Marked(dloc) /\ Marked(eloc) /\ Marked(mloc) /\ Marked(wloc)
    /\ Branching(em) /\ Branching(mw)
    /\ Branching(eloc) /\ Branching(mloc) /\ Branching(wloc)

\* The fetch a squash will take back has been made, and a branch in EXE has
\* its delay slot in fd: FETCH only stands still behind bubbles.
SlotInv ==
    /\ phase = 0 =>
          /\ fetch = "paused" => Empty(fd)
          /\ de.v \/ lock_pipeline_data =>
                fd.v \/ ("DECODE" \notin todo /\ SyscallIn(de))
          /\ "DECODE" \notin todo => dloc.pc = fd.pc
    /\ phase = 1 =>
          \/ fetch = "open" /\ ("FETCH" \in todo \/ fd.v)
          \/ /\ Empty(fd)
             /\ IF "DECODE" \in todo THEN Empty(dloc)
                ELSE ~de.v /\ ~lock_pipeline_data /\ ~isSyscall
    /\ lock_pipeline_data => ~de.v

\* InFlight in the middle of a cycle: what WB has left to retire, and per
\* stage the latch or what its task captured.
Held(l) == l.v /\ (IsSyscall(l.ins) \/ IsIllegalOp(l.ins))
Unretired(l) == l.v /\ ~IsStore(l.ins)
InFlight0 == One(fd.v) + One(de.v \/ lock_pipeline_data) + One(em.v)
               + One(IF "WB" \in todo THEN Unretired(mw) ELSE Held(mw))
InFlight1 == One("FETCH" \notin todo /\ fd.v)
               + One(IF "DECODE" \in todo THEN dloc.v ELSE de.v \/ lock_pipeline_data)
               + One(IF "EXE" \in todo THEN eloc.v ELSE em.v)
               + One(IF "MEM" \in todo THEN mloc.v ELSE Unretired(mw))
               + One("WB" \in todo /\ Held(wloc))
CountInv == ~exited =>
    nfetched = hist.retired + IF phase = 0 THEN InFlight0 ELSE InFlight1

\* Once the exit call was emulated nothing is in flight and FETCH is on its
\* way to the test that ends the loop; an illegal instruction ends it in WB.
QuitInv ==
    /\ sim_exit => /\ nfetched = hist.retired
                   /\ \/ phase = 0 /\ fetch = "paused" /\ "FETCH" \notin todo
                      \/ phase = 1 /\ "WB" \notin todo /\ FetchMoves("locked", "paused")
                      \/ phase = 1 /\ "FETCH" \in todo /\ fetch = "paused"
                      \/ exited
    /\ IsIllegalOp(wloc.ins) /\ "WB" \in todo => phase = 1
    /\ IsIllegalOp(wloc.ins) /\ "WB" \notin todo => phase = 0 \/ exited

\* By how many cycles the clock is ahead of what was fetched, stalled and
\* charged to system calls: it tells how far the system call has got.
Fetches == nfetched + hist.stalls + 5 * hist.syscalls
Lag0 == IF SyscallIn(de) THEN One("DECODE" \notin todo)
        ELSE IF SyscallIn(em) THEN 2
        ELSE IF SyscallIn(mw) THEN 3
        ELSE IF fetch = "paused" THEN -1 ELSE 0
Lag1 == IF SyscallIn(eloc) THEN 1
        ELSE IF SyscallIn(mloc) THEN 2
        ELSE IF SyscallIn(wloc) THEN IF "WB" \in todo THEN 3 ELSE -2
        ELSE IF "FETCH" \notin todo \/ fetch = "paused" THEN -1 ELSE 0
Lag == IF phase = 0 THEN Lag0 ELSE Lag1
CycleInv == cycle - Fetches = Lag

\* A place in the pipeline, as the sequence of addresses sees it: empty, or
\* an instruction with its address and the branch it is known to take.
NoSlot == [v |-> FALSE]
Slot(l, taken, tgt) == IF ~l.v THEN NoSlot
                       ELSE [v |-> TRUE, pc |-> l.pc, ins |-> l.ins,
                             taken |-> taken, tgt |-> IF taken THEN tgt ELSE 0]
Resolved(l) == Slot(l, l.btaken, l.btgt)
Unresolved(l) == Slot(l, FALSE, 0)
Waiting == [v |-> TRUE, pc |-> de.store_pc, ins |-> de.store_ins,
            taken |-> FALSE, tgt |-> 0]
Only(p, slot) == IF p THEN slot ELSE NoSlot

\* s is a pair of addresses in program p, of an instruction and of the one
\* that follows it.
From(a) == <<a, (a + 1) % M>>
At(p, s, slot) == slot.v => slot.pc = s[1] /\ slot.ins = p[s[1]]
Past(s, slot) == IF ~slot.v THEN s
                 ELSE <<s[2], IF slot.taken THEN slot.tgt ELSE (s[2] + 1) % M>>

\* The instructions at a, b, c and d, oldest first, are the next ones of the
\* program order, and the instruction at address q comes after them.
Chain(p, s, a, b, c, d, q) ==
    LET s1 == Past(s, a)
        s2 == Past(s1, b)
        s3 == Past(s2, c)
    IN /\ At(p, s, a) /\ At(p, s1, b) /\ At(p, s2, c) /\ At(p, s3, d)
       /\ Past(s3, d) = From(q)

\* The four places, in PHI0 and in PHI1, and the address to be fetched next
\* once the squashes are settled.
Squashes == lock_pipeline_data \/ isSyscall
DecodeSlot == IF lock_pipeline_data THEN Waiting ELSE Unresolved(de)

W0 == Only(IF "WB" \in todo THEN Unretired(mw) ELSE Held(mw), Resolved(mw))
M0 == Resolved(em)
E0 == IF lock_pipeline_data \/ "EXE" \in todo THEN DecodeSlot ELSE Resolved(eloc)
D0 == Only(~Squashes, Unresolved(fd))
Q0 == IF Squashes THEN fd.pc ELSE pc

W1 == Only("WB" \in todo /\ Held(wloc), Resolved(wloc))
M1 == IF "MEM" \in todo THEN Resolved(mloc) ELSE Only(Unretired(mw), Resolved(mw))
E1 == IF "EXE" \in todo THEN Resolved(eloc) ELSE Resolved(em)
D1 == IF "DECODE" \in todo THEN Unresolved(dloc) ELSE DecodeSlot
Q1 == IF "FETCH" \notin todo /\ fd.v THEN fd.pc ELSE pc

\* What is in flight is the next stretch of the program order, and FETCH goes
\* on where it ends.
OrderInv ==
    /\ phase = 0 => Chain(code, <<apc, anpc>>, W0, M0, E0, D0, Q0)
    /\ phase = 1 /\ ~IsIllegalOp(wloc.ins) =>
         /\ Chain(code, <<apc, anpc>>, W1, M1, E1, D1, Q1)
         /\ "FETCH" \notin todo /\ fd.v =>
                fd.ins = code[fd.pc] /\ pc = (fd.pc + 1) % M

-----------------------------------------------------------------------------
\* FETCH is released: a system call that locks the pipeline unlocks it.
SyscallReleases == lock_pipeline_sys ~> ~lock_pipeline_sys

\* A program whose branches only go forward reaches its end.
Terminates == <>exited
=============================================================================
