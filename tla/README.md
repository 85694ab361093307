# A verification project for the five-stage MIPS pipeline simulator

TLA+ modules, TLC configurations and TLAPS proofs for the simulator in
`src/cpus/sync/mips-fast` and `src/cpus/common`, and for the simulation libraries
under `src/lib` that it and the other simulators of the repository are built on.
Paths below are relative to `src/`; `mips-fast/` stands for `cpus/sync/mips-fast/`.

## 1. The system

A MIPS processor with five stages is simulated by five tasks on one host thread.
The tasks are cooperative: a task runs until it waits for simulated time
(`AWAIT_P_PHI0`, `AWAIT_P_PHI1`, `PAUSE`, `lib/sim.h:190`). A cycle has two
halves; in PHI0 the stages read the latches into locals, in PHI1 they write the
latches. The scheduler (`lib/tasking.cc`) runs the tasks that are due in an order
that depends on which task moved time on last, so no order of the stages within a
half cycle may be assumed.

| Component | State | Operations | Interaction | What makes it correct |
|---|---|---|---|---|
| FETCH `mips-fast/mips.cc` | `_pc`, `_fd`, `_nfetched`, the sampled lock | fetch; pause a cycle; exit | reads `lock_pipeline_sys`; `_pc` is also written by DECODE and EXE | never fetches while a call is in flight; counts each instruction once |
| DECODE `decode.cc`, `DE::Dec` | `_de`, `lock_pipeline_data`, `_isSyscall`, the parked instruction | take back a fetch after a stall or call; decode; choose bypasses; stall; lock | reads `_fd`, `_de`, `_em` of the older instructions | takes back exactly the fetch that ran ahead; right bypass and stall decisions |
| EXE `executor.cc`, `EM::func_*` | `_em` | bypass; execute; redirect `_pc` | reads `_em` and `_mw` while they still hold the older instructions | operands are those of program order |
| MEM `memory.cc`, `MW::mem_*` | `_mw`, memory | load; store | reads the register file in PHI1, after WB wrote it | loads and stores in program order, right lanes |
| WB `wb.cc` | register files, HI, LO | write back; emulate a call and unlock; stop at an illegal instruction | the emulation layer reads and writes registers and memory | calls see and leave exact state; the lock is released |
| System calls `cpus/common/syscall.cc` | descriptor table, argument area, `quit` | files, `brk`, time, `syscall()`, exit, the back door | called by WB; host files | the right descriptor and buffer, result in v0, error flag in a3, everything else as it was |
| Scheduler `lib/tasking.cc` | time, time list, hint, event counts | `epause`, `await`, `advance`, `ticket`, create and finish a task | runs the five tasks | each task runs when it is due, none is lost |
| Queues, wake-up calls `lib/queue.cc`, `lib/wakeupcall.cc` | tickets, ring, alarms | `Put`, `Get`, `future_advance` | on top of the scheduler | first come first served within the capacity; alarms in order |
| Checkpoint `lib/checkpoint.cc` | a file with the scheduler's and the queues' state | save, restart, restore | replaces the lists of the scheduler | the restored process goes on where the saved one was |
| Memory `lib/mem.cc`, `lib/mem.h` | sorted rows of 64-bit units, two row caches | `Read`, `Write`, lanes, images read, merged and dumped | used by FETCH, MEM, the emulation layer | last value written is read |
| Asynchronous library `lib/contexts.c`, `thread.c`, `channel.c`, `mutex.c`, `count.c` | ready queue, per-thread local time, channels | send, receive, select, lock, wait, signal, preempt | threads meet on channels | messages in order, at times that preemption cannot change unless filled slots cost time; no wake-up of a channel, mutex or condition is lost |
| Production-rule simulator `lib/prs.c`, `heap.c` | nodes, guards with counters, event heap | set a node, step, initialise | used by `prs_proc.cc` | counters stay those of the present values; no due event is lost |
| Circuits as processes `lib/prs_proc.cc` | a handshake state per port | `Send`, `Recv`, `MainLoop` | threads on one side, the circuit on the other | the values received are those sent |
| Decision diagrams `lib/bool.c` | nodes, reference counts, unique tables, result caches | the Boolean operations, quantification, collection | used by tools | equal functions are equal nodes; a node in use is not freed |
| Configuration, log, lexer, viewer; containers; cache model; disassembler; benchmarks; tools | | | not shared state, or not built | out of scope |

### What is hard to test here

The list with one line of source per item is `hazards` in `PROJECT.json`. In short:
three tasks write the program counter and nothing orders two of them; the lock is
sampled in one half cycle and used in the next; a stalled instruction is parked in
the latch it leaves, and a younger one is fetched meanwhile and must be fetched
again; the counters are corrected by hand for every fetch taken back; the bypass
network compares with destinations captured a half cycle earlier; a call changes
registers and memory behind the pipeline; a call, stall or branch can sit in the
delay slot of a branch; the products and the partial-word accesses are hand-made
bit arithmetic.

Below the pipeline: the scheduler skips part of its lists through a remembered hint,
bypasses them when nobody else is due, and gets all of them replaced when a checkpoint
is restored; row caches and result caches outlive the rows and nodes they name;
references are counted by hand on every path; a thread may be preempted between the
two halves of a channel operation, and either side may have come first; guard values
are only ever changed by differences; a handshake is driven from two sides that can
each be ahead.

## 2. The modules

| Module | Models | Parameters |
|---|---|---|
| `MipsInsn` | the decode tables of `DE::Dec`: instruction classes, operand registers, destination, control signals, branch targets | word size `M`, registers `Reg`, and what the arithmetic and the calls compute |
| `WordArith` | `EM::func_mult` to `func_divu` and `MW::mem_*`: products, quotients, partial words | values of a byte `Radix` |
| `MipsArith` | the other `EM::func_*`: sums, logic, shifts, comparisons, branch conditions | bits of a byte `B` |
| `ArithProps`, `ArithProofs` | `WordArith` against integer arithmetic and byte sequences; proofs that they agree | |
| `Pipeline` | the five tasks, one action per task, half cycle and outcome | programs, initial data, `MayRun` (which task may go next), `MaxCycle` |
| `PipelineProps` | the properties of `Pipeline`, the inductive invariants of its control, the refinement mapping | |
| `PipelineValues` | what the results in flight have to be: the inductive invariant of the data, `PipelineInv` | |
| `MipsISA` | the sequential machine with one delay slot, which the pipeline has to implement | |
| `PipelineProofs` | proofs of the control, the counts, program order and the refinement | |
| `Tasking` | the pointer lists of `tasking.cc`: `find_next_task` with its hint, `epause`, `await`, `advance`, `finish_task`, as operators on a record | tasks, event counts |
| `Scheduling` | tasks on `Tasking`: pauses, events, alarms (`wakeupcall.cc`), a clocked queue (`queue.cc`), a checkpoint and a restart | programs of the tasks, queue size, checkpoint time |
| `SchedulingProps` | its properties; the refinement mapping to `TicketQueue`; the inductive invariant `SchedulingInv` | |
| `SchedulingProofs` | proofs about the operations of `Tasking`, and of the properties of `Scheduling` | |
| `TicketQueue`, `TicketQueueProofs` | abstract: what `Put` and `Get` promise; a proof about it | queue size |
| `Loops` | proved facts about recursive functions of a number of passes | |
| `MemStore` | `mem.cc`: rows, row caches, growth, splitting, merging, image files, comparison | units, growth limits, images |
| `Memory` | abstract: a function from units to words | |
| `MemProps`, `MemoryProofs` | properties of `MemStore`, the mapping to `Memory`; proofs of both | |
| `SysCalls`, `SysProps`, `SysProofs` | `syscall.cc` on an external model of the host's files; what a guest may rely on; proofs of it | table size, calls made, guest addresses |
| `Bdd`, `BddProps` | `bool.c`; canonicity and exact references | nodes, variables, `RefMax`, calls made |
| `Channels` | threads, channels, selection, mutexes, conditions, counters | programs of the threads, slack, latency |
| `BoundedChannels` | abstract: ordered delivery within the slack | |
| `ThreadProps`, `ChannelProofs` | where the threads of `Channels` are; a proof that none is lost | |
| `ChannelProps` | order and times of messages, the mapping to `BoundedChannels` | |
| `Heap`, `Prs` | `heap.c` and `prs.c`: building guards from rules, events, exclusion rings | netlists, inputs |
| `PrsProc`, `PrsProps` | `prs_proc.cc` on `Prs`; properties of both | ports, values sent |
| `MCPipeline`, `MCScheduling`, `MCStorage`, `MCAsync` | instances for TLC | |

### State and actions

The variables keep the names of the source. `fd`, `de`, `em`, `mw` are the latches;
`dloc`, `eloc`, `mloc`, `wloc` and `fetch` are what DECODE, EXE, MEM, WB and FETCH
hold in C++ locals between PHI0 and PHI1 (`fetch` is `"open"`, `"locked"`, or
`"paused"` while FETCH is inside `PAUSE(1)`). `phase`, `cycle` and `todo` are the
time: `todo` holds the tasks that have not run in this half cycle, and `Tick` moves
on when it is empty. In the pipeline, actions are named after the task and the half cycle:
`FetchPhi0`, `FetchInstruction`, `FetchPause`, `FetchResume`; `DecodePhi0` (with its
three alternatives `RedoStalled`, `DropFetched`, `KeepFetched`), `DecodePhi1`;
`ExePhi0`, `ExePhi1`; `MemPhi0`, `MemStore`, `MemLoad`, `MemNothing`; `WbPhi0`,
`WbSyscall`, `WbIllegal`, `WbNothing`. An action is all the code a task runs between
two waits.

In the libraries the state of a component is a record, and its functions are operators
that keep their C names and give the next record: `s` in `Scheduling` (heads and links
of the lists, counts, hint, running task), `mem` in `MemStore`, `sys` in `SysCalls`,
`bdd` in `Bdd`, `rt` in `Channels`, `sim` in `Prs`, `proc` in `PrsProc`. The head of
each module says which field is which member. An action is what runs without another
task, thread or caller getting in between: to the next wait for tasks, to the end of
the critical section for threads, a call for the memory, the system calls and the
diagrams, an event for the circuit.

### Abstractions

Of the pipeline:

* A control signal is a function of the instruction word; the program copies it from
  latch to latch, the model recomputes it from the instruction in the latch.
* Program addresses count instructions, so `pc + 4` is `pc + 1`.
* The code is a constant function of the address, separate from data memory: programs
  that modify themselves are outside the model.
* An emulated call reads v0 and a0, sets v0 and a3, may write one memory word and may
  end the simulation; it is atomic (`BackDoor_Delay`, which suspends WB in the middle
  of it, is not covered).
* Logging, the debug file and the printed register dump are left out.
* `apc`, `anpc`, `hist` and the flag `v` in the latches are history variables: no
  action's guard and no other variable depends on them.
* The order of the tasks in a half cycle is any order. The scheduler's own order, a
  rotation that depends on `epause`'s shortcut, is one of them.

Of the libraries:

* A checkpoint is the state it holds; the file format is left out. A restart creates the
  tasks of the program again, runs them until the restore task's turn, and then the
  saved lists, counts and programs replace those. The file has 32 bits for a count
  (`count_write`, `tasking.cc:513-528`): the model, and what is proved of restored
  processes, is about checkpoints whose counts fit (section 5).
* `MemStore` has units of eight one-bit bytes and scaled growth constants (`ChunkSize`,
  `AdjLimit`, `DoubleThreshold`); the text of image files is a list of items.
* In `SysCalls` a byte, a word or a `stat` structure takes one guest address, a file name
  is the address of its string, and host descriptors and files are external. `Reset` is
  an operation of the interface that the simulator itself never calls. The host's
  `errno` is kept, since an emulated error hands the guest whatever the last host call left
  there.
* `Bdd`: the buckets of a hash table are sets, since what a lookup finds does not depend
  on them; result caches are lists, the newest entry first. Of the freed nodes the one
  with the lowest address is reused, the code takes the one freed last; no property
  depends on the addresses. The model stops after `fatal_error`, and its properties
  are about the states before the first node that `bool_exists` hands out without a
  reference (`bare`, see below).
* `Channels`: one sender and one receiver per channel, selection among receives; sleeping
  threads are not modelled. A thread is preempted only outside a critical section. The
  tail that a counter's list keeps after a removal is not modelled; nobody awaits a
  counter again after that in the scenarios.
* `Prs`: keys of the heap count from the present time, delays are at least one, no random
  timing; a node is in at most one ring per direction.
* `PrsProc`: one thread per port. A preemption within the pass over the ports that ends a
  handshake is taken to come after the pass.

## 3. Runs

Sizes: words of four one-bit bytes, hence 16 words, 16 code addresses and four memory
words; the registers 0, 2 (v0), 4 (a0), 7 (a3) and 31. Every hazard of this pipeline
is between instructions at most three apart, so programs of three or four
instructions (plus the exit sequence) over an alphabet with every kind of producer
and consumer meet all of them; what follows the program is illegal code, which ends
the simulation.

| Run | Question | Bound and why it is enough |
|---|---|---|
| `interleavings` | Does the task order ever show? Types, program counter race, pending squashes, drained pipeline, lock, and `PipelineInv`, the inductive invariants of control and data, all under every order of the tasks | all 216 programs of three instructions over six kinds; every program stops, deadlock is checked |
| `dataflow` | Does every consumer get its producer's value? Program order and refinement of `MipsISA` | all 2401 programs of four instructions over an integer and over a branch alphabet of seven, all of three instructions over the HI/LO, coprocessor 1 and partial-word alphabets; one fixed task order. Some programs loop, so `MaxCycle = 14` cuts them and deadlock is not checked; 14 cycles retire eight or more instructions |
| `syscalls` | Accounting and termination: fetch count, stall cycles, release of the lock, end of the program | all 343 programs of three instructions ending with the exit call; `MaxCycle = 50` is never reached by a program that ends |
| `scheduling` | Does every task run exactly when it is due, and is none lost, with pauses, events, alarms, a queue and a restart? Lists, hint, alarms, queue slots; the inductive invariant `SchedulingInv` (the types are part of it) and `ProgramFits`, what its proofs assume of a program; refinement of `TicketQueue`; liveness | three scenarios with choices at each step: four tasks and the wake-up task against each other; two producers and two consumers on a queue of two; a checkpoint at time 1 and one restart. 11123 states. Tasks end, so deadlock is not checked |
| `storage` | Is memory a plain function, do the file calls keep to POSIX, are the diagrams canonical? | side by side: six units, at most four stores and two images; a table of five guest and six host descriptors, one file of at most three bytes, up to four calls; three variables, up to four operations from menus and four diagrams held, `RefMax = 9`, so that counts do saturate. 51370 states. Calls are bounded, so deadlock is not checked |
| `async` | Do channels deliver in order and on time, is no thread, event or wake-up lost, do values pass a circuit? Refinement of `BoundedChannels`, liveness | 67 scenarios of two or three threads, slack 0 to 2, latency 0 or 3 and a cycle equal to it, longer or shorter, plain and traced channels, every place of preemption; five netlists (C-element, several rules for one direction with a connection, arbiter, interfering guards, one-bit buffer); the buffer with two calls on either side. 34850 states. Programs end, so deadlock is not checked |
| `arithmetic` | `func_mult`, `func_multu`, `func_div(u)`, `lwl/lwr/swl/swr`, byte and half-word accesses against integer arithmetic and byte sequences | `Radix = 4`: all pairs of eight-bit words and all offsets; the register operand takes two values whose four two-bit bytes are all different |

Runs that expect a violation (each explained in `findings`):

| Run | What the code does |
|---|---|
| `hilo_bypass` | `mthi` then `mfhi` within two instructions reads the old HI; the same for `mtlo`/`mflo` and for `mtc1` or `lwc1` before `mfc1` |
| `subreg_garbage` | an uninitialised flag can divert a bypass |
| `mult_least` | `mult` of the most negative word yields zero |
| `stale_hint` | after a restart from a checkpoint the insertion hint is that of the process before the restore, and a task is lost |
| `count_jump` | a counter incremented past the value awaited wakes nobody |

The passing runs therefore assume what these show to be needed: `SubregGarbage =
{FALSE}`, `InitLoadStall = {0}`, and the programs of the `dataflow` run keep the pairs
above three apart (`Spaced`). `ProductsExact` excludes the most negative word from the
signed products, and `DivExact` the most negative word divided by -1, which has no value in C.

`ImplementsISA` is the refinement: the architected registers are those of the
pipeline; memory changes in MEM, half a cycle before the registers of the same
instruction group change in WB, so a store retires in MEM and everything else in WB.
After the exit call, or once WB holds an illegal instruction, the abstract machine is
halted and its registers must not change; memory may (a store behind an illegal
instruction may still reach memory before WB stops the simulation). `dataflow` checks it in one
order of the tasks; `PipelineInv`, on which its proof for all orders rests, is checked
in `interleavings` under all of them.

`FetchAccounting` ties the printed instruction count to retired instructions, at every
step and at the exit, `FourStallCycles` ties cycles to it: a call costs its fetch taken
back and four more cycles, a load-use stall one.

In `scheduling`, `NoTaskLost` and `ListsOrdered` are what the pointer work in
`tasking.cc` has to keep, `ResumedWhenDue` and `DueTaskRuns` what callers get from it:
nobody goes on early or late, everybody due goes on. The scenario with the restart
chooses its last inserted task so that the hint is a valid one; `stale_hint` shows the
other case. `PlainMemory`, `QueuePromise` and `ChannelPromise` are refinements: of a
function from units to words, of the ticket queue, of an ordered channel with slack.
`FilesAsPromised` and `CallFrame` compare the states before and after a call with what
POSIX says of it, through whichever descriptor, directly or through `syscall()`.
`CountsExact` counts all references to a node from scratch and compares; a diagram that
was freed too early would be reused for another function, which `DiagramsCanonical`
sees. `TimesDeterministic` computes from the programs alone, without any queue, when
each message passes, and compares with the local times the threads have. It is about
channels on which that is possible (`Regular`). The code adds `cycle - lat` to the stamp
of a message for every slot that is filled when the call runs, not at the local time of
the call, so with two slots or more the stamps depend on preemption and on who comes
first. They do not if the cycle is the latency (`ch_new` makes both 0), or if the number of filled
slots is zero whenever a message is stamped: with one slot on plain channels, with none
on traced ones. In the other cases TLC finds times that differ, also between a plain and a
traced channel; for the order of messages (`ChannelPromise`) and for the threads
(`ThreadsPlaced`, `ProgramsEnd`) these cases are in the run.
`ProgramsEnd` says nothing of counters: they are only incremented to exactly the value awaited,
and `count_jump` shows what happens otherwise.
`Incremental` recomputes every guard from the present values of its sons.

Each property of a passing run has a mutant in `PROJECT.json`: an operator that nothing
uses (`NeverLocked`, `StillCounted`, `NoCarry` and so on), which in place of the
definition after it makes TLC find the property violated.

### Fairness

One thread runs everything; a task never waits for anything but simulated time, and
time moves on when no task is due. So as long as some step is possible one is taken:
`FairSpec` is weak fairness of `Next`, nothing finer. The liveness properties
(`SyscallReleases`, `Terminates`) are checked under it. `DueTaskRuns` is checked under
the same fairness of `Scheduling`: only one task can move at a time, and it does.

In `async` threads are preempted, so weak fairness would let the timer starve a thread
for ever. `lib/contexts.c:112-128` preempts only at the second signal without a switch
between, which makes a time slice longer than a call: a thread that gets the processor
again and again finishes its call. That is strong fairness of each thread's own steps
(`Turn`), under which `ProgramsEnd` is checked; nothing is assumed of the preemptions.

## 4. Proofs

The proofs about the pipeline hold for every set of programs, every word size divisible
by four, every register set, every arithmetic with results in `Word` (`ArithmeticOK`),
every order of the tasks (`MayRun` is arbitrary) and, but for the refinement, every value
of the uninitialised flag. Each inductive invariant is a conjunct of `PipelineInv`, which
TLC checks in `interleavings`.

* Types (`PipelineProofs`): `TypeCorrect`, `Spec => []TypeOK`. One lemma per task, resting on
  lemmas for what `DE::Dec`, the bypass network and the handlers return.
* Where a system call is (`PipelineProofs`):
  * `OneSquashHolds`, `NoPcRaceHolds`. Neither property is inductive: a squash is
    decided in PHI1 and settled in PHI0 of the next cycle. `SquashInv` adds that
    between the two nothing is pending, and what DECODE left in its latch while
    something is: the bubble or the call. Neither branches, so EXE, which reads that
    latch in the half cycle of the squash, does not write the program counter.
  * `SyscallDrainedHolds`, `LockMatchesFlightHolds`. `FlightInv` says, for each half
    cycle, which of four positions a call is at (none, or captured by EXE, MEM, WB),
    which latches and locals hold bubbles there, who has run, who holds the lock and
    whether FETCH has sampled, is paused or is open. One lemma per task shows that
    the task's step keeps the position, and `FlightTick` that a new half cycle moves
    it on.
* The numbers that are printed (`PipelineProofs`). The lemmas `FetchEffect` to
  `WbEffect` say once what a task's step does to the variables that tell which
  instruction is where; the later proofs cite them instead of the actions.
  * `FetchAccountingHolds`. `CountInv` extends the sum from the end of a cycle to any
    moment of it: per stage it counts the latch or what the task has captured of it,
    depending on who has run. It needs `LatchInv` (what carries no instruction is the
    bubble) and `SlotInv` (a fetch that is going to be taken back has been made, so the
    decrement is of something counted), and for the exit `QuitInv`.
  * `FourStallCyclesHolds`. `CycleInv` gives the difference between the clock and the
    charged cycles for each position of a call; it rests on `FlightInv`.
* Program order (`PipelineProofs`): `ProgramOrderHolds`. The property speaks of the oldest instruction
  only. `OrderInv` reads the latches and locals as a chain of four places, oldest first,
  each empty or filled, and says that the filled ones are the next addresses of the
  program order beginning with (`apc`, `anpc`), and that the address to be fetched next,
  once the pending squashes are settled, continues it. `SlotInv` puts the delay slot
  behind a branch that EXE takes; the lemmas `Chain...` move, add, remove and redirect.
* The refinement (`PipelineProofs`): `ImplementsISAHolds`, the pipeline implements the
  sequential machine.
  * `ValueInv` (module `PipelineValues`) says of every result in flight that it is what
    its instruction computes from the registers once the instructions ahead have written
    theirs, and of DECODE's latch that EXE will compute that from it through the bypass
    network. `OperandsRight` is the heart of it: the selections made from the
    destinations captured half a cycle earlier pick, for each operand of each kind of
    instruction, the youngest producer ahead; the load in EX-EX distance is excluded by
    the interlock.
  * Every step then maps: WB in PHI0 retires the next instruction of the program
    (`OrderInv`) with its results (`ValueInv`), MEM a store, WB in PHI1 a call; all other
    steps stutter.
  * Two hypotheses, and the runs of section 3 show that each is needed: `SubregGarbage =
    {FALSE}` (`subreg_garbage`), and `[]Separated` (`hilo_bypass`), DECODE never meets an
    instruction with an unprotected producer one or two ahead. `ProgramsImplementISA`
    replaces the second by a condition on the program's text, that it does not have both
    instructions of such a pair anywhere; `SourceInv` connects them.
  * One assumption on the arithmetic besides `ArithmeticOK`: `UnusedOperands`, which says that
    the operations ignore operands their instructions do not have (a shift amount for an
    immediate operation, the first source for `lui`, the old register for a whole load).
    It is needed because the latches hold zero or an unrelated register there. TLC
    evaluates both for `MipsArith` with bytes of one bit; `ResultsAreWords`, below, proves the part of
    `ArithmeticOK` about products, quotients, loads and stores for every size of a byte.

* `ArithProofs`, for every even number of values of a byte, 256 among them, and every operand:
  `AlwaysProductsExact`, `AlwaysDivExact`, `AlwaysUnalignedExact`, `AlwaysPartialRoundTrip` and
  `ResultsAreWords`. The formulas of the handlers do not depend on the size of a byte, but
  the provers' arithmetic is linear: each nonlinear step is a lemma of its own.
  * `Schoolbook` is the product of two half words each, with all its carries, about
    numbers alone; `MultuIs` finds it in `func_multu`, and `MultIs` adds the signs
    (`NegateIs`: the double word is negated half by half). The exceptions stated are real: the
    mask makes zero of the magnitude of the most negative word (`mult_least`), and that word divided
    by -1 has no value in C.
  * A word is four digits (`BytesWord`, `WordBytes`). `Cuts` is the word cut at a byte. The two
    shapes in which `lwl`, `lwr`, `swl` and `swr` put a word together are `HighIs` and
    `LowIs`, and `HighBytes` and `LowBytes` say which byte of it comes from where; `Unaligned`
    compares that with the window of four bytes in two words. A byte or half-word
    access is a lane with a place (`LanesAre`, `RoundTrip`).

* `SysProofs`: `DescriptorsHold` and `FilesAsPromisedHolds`, for every size of the table,
  every set of host descriptors, files and addresses, and every program.
  * `SysInv` adds to `Descriptors` what the state consists of (`Typed`) and that a host
    descriptor without a file is the closed one, with positions and lengths within
    `MaxFile` (`Sound`). There is one lemma per call: what it makes of an invariant state
    is invariant, and the promise holds between the two. Three lemmas say how
    descriptors change, one moves (`DescriptorMoves`), is opened (`DescriptorOpens`) or is
    closed (`DescriptorCloses`). `xstat` passes through a state in which a host descriptor
    is open that no slot stands for, so its lemma goes around the invariant.
    `PromiseMoves` carries the promise over the registers that `syscall()` shifts.
  * `write` is a loop of host calls, `WriteLoop`. Its invariant `Writing` says that after
    n bytes either the loop has been left, or the last n bytes before the position are
    the first n of the buffer. The promise as it stood before the proof was wrong where it
    excuses a full file: a descriptor opened to append can find the file full with its own
    position short of the end. The run did not reach that case, and now does.
  * Assumed are `SysConstants` (kinds and bounds) and `GuestBuffers`: a guest hands over
    buffers it has, of a length that is not negative. Both are evaluated in `storage`.
  * What a recursive function computes is proved by a least counterexample (`LeastExists`, module `Loops`):
    the least n at which the loop, or the join of the argument strings, goes wrong
    contradicts the step from n - 1.
  * `CallFrame` is not proved: that argument strings, pointers and stack do not overlap
    depends on where the instance puts them.

* `MemoryProofs`: `RowsOrderedHolds` and `ImplementsPlainMemory`, for every chunk size
  and limit, every set of units and byte values, every program and every image.
  * `Reads(m, u, v)` says what unit u of memory m holds without any search: v is what
    every row with u has there, and MEM_BAD if none has. `Fine(m)` is what a search needs:
    rows in order, in the types of the rows. `ReadFinds` shows that `Read` agrees with
    `Reads` whichever row is remembered, from what the binary search ends with
    (`HalveRuns`, `HalveFinds`, `SearchEnds`); `WritePlace` says where `Write` looks.
  * One lemma per way to change the rows says that they stay `Fine` and that every unit
    holds what it held: a row remembered (`Remembers`), extended (`MoreEffect`), grown
    downward (`DownEffect`), inserted (`InsertEffect`), merged with the next
    (`MergeEffect`), all rows collected (`CollectEffect`). Each first makes the unit part
    of a row; then storing there changes one unit (`SetEffect`). `WriteEffect` puts the
    cases of `Write` together.
  * Loops (passes of `chunk_gc`, entries of an image, assignments of the plain memory) are
    recursive functions of the number of passes. `RunExists` shows that such a function
    exists if every pass stays in the set of states, and `UpTo` is induction up to a bound;
    both are in `Loops` and come from `LeastExists`. `FlattenFacts` says what `FlattenSeq` has in it.
  * `MemInv` is `Fine` for both memories, with the statics and the file in their types;
    `PlainInv` adds that the bytes of the file lie in the lanes meant. Every call then is a step of
    `Memory`: a merge assigns entry by entry what `Overlay` does (`MergeOverlay`,
    `DuplicateOverlay`), a dump has every unit of every row (`DumpOverlay`), rows found equal
    hold the same (`CompareSound`).
  * `ImplementsPlainMemory` has one hypothesis, `LanesAgree`, because of the lanes of
    section 5; `storage` evaluates it for its images.

* `TicketQueueProofs`: `BufferBounded`. For every size and every order of service, the
  number of items served by `Put` and not yet by `Get` is between zero and the size.
  The bounds on the counts are not inductive by themselves; `TicketInv` adds where the
  tickets served lie: each below the bound its event count had reached, and the bounds
  only grow. That `Queue` on the scheduler is this ticket queue is `QueueImplements`, below.

* `SchedulingProofs`, for every set of tasks and event counts, every
  program of the workers, every queue size and every time of the checkpoint: `TasksKept`
  (`NoTaskLost`), `OrderKept` (`ListsOrdered`), `SlotsKept` (`SlotsInOrder`), `DueKept`
  (`ResumedWhenDue`), `QueueImplements` (`QueuePromise`), `AlarmsArmed` (`AlarmArmed`) and
  `AssertionsKept` (`AssertionsHold`).
  * Lists. The scheduler has pointers, the invariant speaks of sequences. `Has(sc, q)` says
    that the pointers of `sc` make the lists `q` and that a task is on them at most once; then
    walking them gives `q` and nothing else (`FollowIs`, `HasWaiting`). There is one
    lemma per way to change pointers: a task put behind another or in front, unlinked, the
    first tasks of an event moved in front of the time list. `Fit` adds that the lists are in order
    and nobody is overdue, which is what makes the places found right: the insertion that
    starts at the hint stops where the one from the head would, because the hint
    is on the time list and its count is not greater than the value to insert.
  * `SchedulingInv` says that the lists are sound (`ListsSound`), that exactly the tasks alive
    are on them or running, each with what it waits for (`Placed`), which calls which task may be
    suspended in (`Roles`), that every ticket has one owner and the event counts are the
    numbers of tickets served (`Tickets`), what is in the slots (`Ring`, `Counters`), and that a
    checkpoint on file satisfies all of this too (`FileSound`). Each part is needed: the
    properties say nothing of the file, so no step that restores it would keep them, and
    `ResumedWhenDue` does not follow from the lists alone. One lemma per action of
    `Scheduling` (`PauseStep` to `RestoreStep`); steps that leave the queue alone share
    `QuietStep`. For the queue, `Advance` in `Put` is one more ticket of `Get` (`Served1`), and
    the slot written is free because tickets below the bound are all that is served.
  * Two parts of the state are not in a checkpoint, the hint and the alarms (section 5), and
    the hypotheses are about them. `[]HintFits` says that a hint that outlives a restoring is a task of the
    list restored; `stale_hint` shows that without it a task is lost. The first five theorems
    have this hypothesis and no other. `SoundUntilRestored` has none: until a checkpoint is
    restored (`Unrestored`) the invariant, hence `NoTaskLost`, `ListsOrdered` and `SlotsInOrder`, holds
    in every program. `AlarmsArmed` and `AssertionsKept` are about the same states.
  * Two more are about programs. `WakeFirst`: a program that sets alarms runs the wake-up task before
    anything else (`AlarmInv`, `WakeWell`); set up later, the task is on the time list for the
    time of its creation and not for that of the alarm. It is an assumption on the constants, which
    TLC evaluates in `MCScheduling`. `[]TimeLeft`, only for `AssertionsKept`: no task pauses until the
    end of time, `Never`, for which the wake-up task waits when it has no alarm. `scheduling` checks
    `HintFits` and `TimeLeft` in its three scenarios, as `ProgramFits`.

* `ChannelProofs`: `ThreadsStayPlaced` (`ThreadsPlaced`), for all programs of all threads,
  plain and traced channels of every slack, latency and cycle, and preemption at any point. Assumed is how
  programs use the library (`ProgramsUse`, which `async` and `count_jump` evaluate): a channel has one
  sender and one receiver, as `ch_t` has room for, and one thread awaits the counter. With
  two the property is wrong, since `count_increment` loses those behind the one it wakes (section 5).
  * The queues, by name, and a place for each thread are witnesses: `Core(x, R, q, loc)` says that
    the record x has the queues q, that a thread is in a queue, once, exactly if loc places it
    there, that `in_readyq`, the selections and the threads destroyed agree with loc, and that
    the threads in R are on none. R is what makes calls provable: within a call
    a thread may be off all queues on its way from one to another, and `Held(x, R)` names these.
    A wait takes a thread out of R (`EnterHeld`), a release puts its partner in (`LeaveHeld`), a
    wake-up takes it out again (`WakeHeld`); at the switch R is empty, afterwards the new thread alone (`SwitchHeld`).
    What moves only times, counts and messages is `Calm`. There is one lemma per call, plain and traced,
    from these (`FsendSteps` to `ExitSteps`).
  * `DO_SELECTION` wakes the threads of a list that others may join; `AgainRuns` says
    whom, from `Loops`, and that nobody is woken twice, because `in_readyq` is read first.
  * `Control`, where each thread stands in its program, is needed besides: a call writes itself into
    the queue of its channel, over whoever is there, so it has to be known that no other
    thread uses that side of the channel (`Partners`, `OnChannel`), also when a selection
    chose it; and a thread marked as in a selection has to stand at one.

Only model-checked: shifts, logic and comparisons (`MipsArith` uses `Bitwise`, which
the prover cannot use; the pipeline's theorems hold whatever they compute within
`ArithmeticOK`); the registers and arguments around a system call (`CallFrame`); the
diagrams and the circuits, whose modules walk trees and heaps with RECURSIVE operators;
the order and the times of messages on channels (`ChannelPromise`, `TimesDeterministic`),
whose logs and times are folded or recursive; and liveness (`SyscallReleases`,
`Terminates`, `DueTaskRuns`, `ProgramsEnd`).

## 5. What the code does that its texts do not say

`findings` in `PROJECT.json` lists the disagreements between the code and a text of the
repository. Other things met while modelling, which the models follow as they are:

* `lib/checkpoint.cc`: the alarms and the hint of the scheduler are not saved. The alarms a process
  has when a checkpoint is restored are those of the process before it, while the wake-up task is
  where the saved one was. A count is cut to 32 bits on its way to the file, so the wake-up
  task without an alarm, which waits until 2^63 - 1 (`wakeupcall.cc:167`), comes back waiting for
  2^32 - 1.
* `lib/queue.cc`: tickets drawn and not served are saved, the two counters behind
  `isEmpty` and `isFull` are not.
* `lib/wakeupcall.cc:176`: the wake-up task that is the only one left stops the program
  with an assertion; `AssertionsHold` allows exactly this one.
* `lib/mem.cc:763-769`: `MergeImage` takes the lane of a single byte from two bits of its
  address, while units have eight bytes and `BEGetByte`, `LEGetByte` (`mem.h:79-84`) use
  three. A big-endian byte with an address in the first half of its unit is stored in the
  other half, a little-endian one likewise if it is in the second half. `PlainMemory` is
  about images whose bytes lie where both agree.
* `lib/mem.cc:128`: the body of `freemem` is commented out, so reading an image merges it
  like `MergeImage`.
* `syscall.cc`: when the host's `creat` fails the guest still gets the number of a descriptor
  as if it had succeeded (775-787), `fxstat` does not look whether its descriptor is in use (837),
  `write` counts the byte that the host's write of nothing did not take (735), and a back door call
  made through `syscall()` loses its result, since a0 is restored (861-883).
* `lib/bool.c:1051`: `bool_exists` returns a node it has made without counting a
  reference; freeing the call's own result cache frees it before the caller gets it, and
  equal sons are not merged. `msort` sorts lists of up to two variables only.
* `lib/channel.c`: a thread that selects on a channel with slack is not woken by a send
  that does not block; the run selects on channels without slack.
* `lib/channel.c`: the delay of a message counts the slots that are filled when the call
  runs (241, 526-527, 563, 653, 725, 759), in the order the program runs its threads in and not in
  local time. When a sender has waited, a plain channel counts after the receiver has moved
  on, so that one without slots charges for a filled one; a traced one counts before.
* `decode.cc:199`: a system call is counted as a load stall, in a counter that nothing
  initialises.
* `lib/count.c:93`: the test of `count_increment` is that of `count_await` the wrong way
  round. A thread whose value is passed is not woken, one whose value is not reached
  may be, and those behind a woken one are lost from the list.
* `lib/mutex.c:68`: a thread woken in `mutex_lock` that finds the mutex taken again prints a line
  and takes it all the same.
* `lib/prs.c`: merging nodes of which the second one has leaves trips an assertion;
  `or_merge` links a further disjunct to its disjunction upwards only (1450: `e1->l` is not
  set), so counts reach the guard but a walk from the guard does not find it.

## 6. Not modelled

The timers of sleeping threads and the timed queue of nondeterministic selection
(`thread_pause`, `lib/time.c`), saved threads, the text of netlists, image files and
configuration files, logging and the replay of logged calls, `BackDoor_Delay` (which
suspends WB inside the emulation layer), random timing and fan-in queries of `prs.c`,
the viewer, the lexer, the containers (their users see sets, functions and sequences),
`lib/mem2.cc` (not built), the cache model (nothing instantiates it) and the
disassembler. Programs that modify themselves are outside the model, since code and data
are separate. The counters of instruction classes (`_num_load` and the like) are
incremented in latch objects that are thrown away, so the simulator prints zero for
them; this is visible from the code and no run is about it.

## 7. Plan

1. Done: the pipeline, its arithmetic and `MipsISA`, their runs, the proofs of the control
   properties.
2. Done: scheduler, queue, alarms and checkpoint; memory; system calls; diagrams;
   threads and channels; circuits and their ports; the abstract specifications
   `TicketQueue`, `Memory` and `BoundedChannels`.
3. Done: proofs of the accounting, of program order, of the refinement of `MipsISA`,
   of the system calls on files, of the memory, of the scheduler and of the threads on channels.
4. Timers and sleeping threads; data and code in one memory, for programs that modify
   themselves; several threads on one port.
