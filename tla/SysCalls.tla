------------------------------ MODULE SysCalls ------------------------------
(***************************************************************************)
(* System call emulation (cpus/common/syscall.cc): a call is taken from    *)
(* v0, its arguments from a0..a2, and is carried out on files of the host. *)
(*                                                                         *)
(* All state is in the record sys:                                         *)
(*   v0, a0, a1, a2, a3, sp   the guest registers that matter              *)
(*   fdlist     _fdlist: guest descriptor -> host descriptor, or -1        *)
(*   cell       guest memory; a byte, a word or a stat takes one address   *)
(*   argv       _argv, the strings with their final zero                   *)
(*   quit, fatal                                                           *)
(*   host, data, errno        external: descriptors and files of the host  *)
(*   call       the call as the guest made it, for the properties          *)
(* A file name is the address of the string that names it.                 *)
(***************************************************************************)
EXTENDS Integers, Sequences, FiniteSets, SequencesExt, FiniteSetsExt

CONSTANTS TableSize,   \* 256 in the code
          HostFDs,     \* host descriptors the process may have
          Files,       \* names of regular files, as addresses
          Cells,       \* guest addresses
          ArgAddr,     \* _argaddr, Mipc.ArgvAddr
          Argvs,       \* argument vectors for ArgumentSetup
          StackTop,    \* sp when the program starts, a multiple of 8
          FileCalls,   \* calls the guest may make, <<v0, a0, a1, a2>> or
          OtherCalls,  \* <<SYS_syscall, number, a0, a1, a2>>
          MaxFile,     \* bound: bytes in a file
          MaxCalls,    \* bound: calls made
          MaxOthers    \* bound: how many calls may precede one of OtherCalls

VARIABLES sys, ncalls
scvars == <<sys, ncalls>>

\* The call a guest makes with the registers c, through syscall or not.
CallOf(c) == LET k == IF c[1] = 1000 /\ Len(c) = 5 THEN 1 ELSE 0
             IN  [num |-> c[1 + k], a0 |-> c[2 + k], a1 |-> c[3 + k], a2 |-> c[4 + k]]
GuestCalls == FileCalls \cup OtherCalls

NoFile == 0
Tty    == 1

\* The three standard descriptors exist, files are told apart from the terminal
\* and from no file, and addresses, arguments and registers are numbers.
ASSUME SysConstants ==
  /\ TableSize \in Nat /\ TableSize >= 3
  /\ HostFDs \subseteq Nat /\ 0..2 \subseteq HostFDs
  /\ Files \subseteq Int /\ {NoFile, Tty} \cap Files = {}
  /\ Cells \subseteq Int /\ {ArgAddr, StackTop} \subseteq Int
  /\ Argvs \subseteq Seq(Seq(Int))
  /\ MaxFile \in Nat \ {0} /\ {MaxCalls, MaxOthers} \subseteq Nat /\ MaxOthers <= MaxCalls
  /\ \A c \in GuestCalls : c \in Seq(Int) /\ Len(c) = IF c[1] = 1000 THEN 5 ELSE 4

\* The guest hands over buffers that it has, of a length that is not negative.
ASSUME GuestBuffers == \A c \in GuestCalls : LET call == CallOf(c) IN
  /\ call.num \in {1003, 1004} => call.a2 >= 0 /\ call.a1..(call.a1 + call.a2 - 1) \subseteq Cells
  /\ call.num \in {1158, 1160} => call.a2 \in Cells

Closed == [file |-> NoFile, pos |-> 0, flags |-> {}]
ENOENT == 2
EBADF  == 9

UNIX_RETURN(s, x) == [s EXCEPT !.v0 = IF x < 0 THEN s.errno ELSE x, !.a3 = IF x < 0 THEN 1 ELSE 0]

Slot(x) == x % TableSize      \* 0xff & x
HostOf(s, x) == s.fdlist[Slot(x)]
FreeSlots(s) == {i \in DOMAIN s.fdlist : s.fdlist[i] = -1}

WriteCell(s, a, v) == IF a \in Cells THEN [s EXCEPT !.cell[a] = v] ELSE s
Deposit(s, a, seq) == [s EXCEPT !.cell = [c \in Cells |-> IF c - a \in 0..(Len(seq) - 1) THEN seq[1 + c - a] ELSE @[c]]]

----------------------------------------------------------------------------
(* External: calls of the host, each its outcome or the set of them, which *)
(* is the new state and the result.  Regular files never run into errors   *)
(* that POSIX does not tell apart; a full file takes no byte.              *)

Outcome(s, x)    == [s |-> s, x |-> x, bytes |-> <<>>]
HostError(s, e)  == Outcome([s EXCEPT !.errno = e], -1)
IsOpen(s, h)     == h \in HostFDs /\ s.host[h] # Closed
FreeHost(s)      == {h \in HostFDs : s.host[h] = Closed}

HostOpen(s, name, flags) ==
  {HostError(s, ENOENT)} \cup
  (IF name \in Files /\ FreeHost(s) # {}
   THEN LET h == Min(FreeHost(s))
        IN  {Outcome([s EXCEPT !.host[h] = [file |-> name, pos |-> 0, flags |-> flags],
                               !.data[name] = IF "TRUNC" \in flags THEN <<>> ELSE @], h)}
   ELSE {})

HostClose(s, h) == IF IsOpen(s, h) THEN Outcome([s EXCEPT !.host[h] = Closed], 0) ELSE HostError(s, EBADF)

HostRead(s, h, n) ==
  LET d == s.host[h]
      left == IF d.file = Tty THEN 1 ELSE Len(s.data[d.file]) - d.pos
      got(k) == IF d.file = Tty THEN <<1>> ELSE SubSeq(s.data[d.file], d.pos + 1, d.pos + k)
  IN  IF "WRONLY" \in d.flags THEN {HostError(s, EBADF)}
      ELSE IF left <= 0 THEN {Outcome(s, 0)}
      ELSE {[s |-> [s EXCEPT !.host[h].pos = IF d.file = Tty THEN 0 ELSE @ + k],
             x |-> k, bytes |-> got(k)] : k \in 1..Min({n, left})}

Stored(seq, p, b) == [i \in 1..Max({Len(seq), p + 1}) |->
                        IF i = p + 1 THEN b ELSE IF i <= Len(seq) THEN seq[i] ELSE 0]
HostWrite(s, h, b) ==
  LET d == s.host[h]
      p == IF "APPEND" \in d.flags THEN Len(s.data[d.file]) ELSE d.pos
  IN  IF d.file = Tty THEN Outcome(s, 1)
      ELSE IF d.flags \cap {"WRONLY", "RDWR"} = {} THEN HostError(s, EBADF)
      ELSE IF p >= MaxFile THEN Outcome(s, 0)
      ELSE Outcome([s EXCEPT !.host[h].pos = p + 1, !.data[d.file] = Stored(@, p, b)], 1)

HostSeek(s, h, off, whence) ==
  LET d == s.host[h]
      p == off + CASE whence = 0 -> 0 [] whence = 1 -> d.pos [] OTHER -> Len(s.data[d.file])
  IN  IF d.file = Tty \/ p \notin 0..MaxFile THEN HostError(s, EBADF)
      ELSE Outcome([s EXCEPT !.host[h].pos = p], p)

\* time, getpid, kill, access: an answer, or a refusal
HostAnswer(s, xs) == {UNIX_RETURN(s, x) : x \in xs}
HostRefusal(s) == {UNIX_RETURN([s EXCEPT !.errno = ENOENT], -1)}

----------------------------------------------------------------------------
(* The calls, each the set of states it may end in.                        *)

BadDescriptor(s) == HostOf(s, s.a0) < 0

SIM_O == [WRONLY |-> 1, RDWR |-> 2, NDELAY |-> 4, APPEND |-> 8, NONBLOCK |-> 128, CREAT |-> 256, TRUNC |-> 512]
mode_remap(x) == {f \in DOMAIN SIM_O : (x \div SIM_O[f]) % 2 = 1}

sys_exit(s) == {[s EXCEPT !.quit = TRUE]}

\* From host descriptor 0 one byte is read, whatever was asked for.
sys_read(s) ==
  IF BadDescriptor(s) THEN {UNIX_RETURN(s, -1)}
  ELSE IF s.a2 <= 0 THEN {UNIX_RETURN(s, 0)}
  ELSE LET h == HostOf(s, s.a0) IN
       {IF o.x < 0 THEN UNIX_RETURN(o.s, o.x) ELSE UNIX_RETURN(Deposit(o.s, s.a1, o.bytes), o.x) :
          o \in HostRead(s, h, IF h = 0 THEN 1 ELSE s.a2)}

AfterByte(o, i) == IF o.x = 1 THEN [done |-> FALSE, s |-> o.s]
                   ELSE [done |-> TRUE, s |-> UNIX_RETURN(o.s, IF o.x = 0 THEN i + 1 ELSE -1)]
WriteOneStuck(s, i) == AfterByte(HostWrite(s, HostOf(s, s.a0), s.cell[s.a1]), i)   \* the address is not advanced
WriteOne(s, i) == AfterByte(HostWrite(s, HostOf(s, s.a0), s.cell[s.a1 + i]), i)
\* Byte by byte; done says that the loop was left early.
WriteLoop(s) ==
  LET run[n \in 0..s.a2] == IF n = 0 THEN [done |-> FALSE, s |-> s]
                            ELSE LET r == run[n - 1] IN IF r.done THEN r ELSE WriteOne(r.s, n - 1)
  IN  run
sys_write(s) ==
  IF BadDescriptor(s) THEN {UNIX_RETURN(s, -1)}
  ELSE IF s.a2 <= 0 THEN {UNIX_RETURN(s, s.a2)}
  ELSE LET r == WriteLoop(s)[s.a2] IN {IF r.done THEN r.s ELSE UNIX_RETURN(r.s, s.a2)}

sys_open(s) ==
  LET i == Min(FreeSlots(s))
  IN  IF FreeSlots(s) = {} THEN {UNIX_RETURN(s, -1)}
      ELSE {UNIX_RETURN([o.s EXCEPT !.fdlist[i] = o.x], IF o.x < 0 THEN -1 ELSE i) :
              o \in HostOpen(s, s.a0, mode_remap(s.a1))}

\* The result is the slot, whether the host could create the file or not.
sys_creat(s) ==
  LET i == Min(FreeSlots(s))
  IN  IF FreeSlots(s) = {} THEN {UNIX_RETURN(s, -1)}
      ELSE {UNIX_RETURN([o.s EXCEPT !.fdlist[i] = o.x], i) :
              o \in HostOpen(s, s.a0, {"WRONLY", "CREAT", "TRUNC"})}

sys_close(s) ==
  LET o == HostClose([s EXCEPT !.fdlist[Slot(s.a0)] = -1], HostOf(s, s.a0)) IN {UNIX_RETURN(o.s, o.x)}

sys_ioctl(s) == {UNIX_RETURN(s, IF BadDescriptor(s) THEN -1 ELSE 0)}

sys_lseek(s) == IF BadDescriptor(s) THEN {UNIX_RETURN(s, -1)}
                ELSE LET o == HostSeek(s, HostOf(s, s.a0), s.a1, s.a2) IN {UNIX_RETURN(o.s, o.x)}

\* The structure is written back even if fstat failed, with what is on the
\* stack; a cell for its size stands for all of it.
_emulate_fxstat(s, h, addr) ==
  IF ~IsOpen(s, h)
  THEN {Outcome(WriteCell([s EXCEPT !.errno = EBADF], addr, garbage), -1) : garbage \in {0, 1}}
  ELSE {Outcome(WriteCell(s, addr, IF s.host[h].file = Tty THEN 0 ELSE Len(s.data[s.host[h].file])), 0)}

sys_fxstat(s) == {UNIX_RETURN(o.s, o.x) : o \in _emulate_fxstat(s, HostOf(s, s.a1), s.a2)}
sys_xstat_leaking(s) ==   \* forgets to close the host descriptor
  UNION {IF f.x < 0 THEN {UNIX_RETURN(f.s, -1)}
         ELSE {UNIX_RETURN(o.s, o.x) : o \in _emulate_fxstat(f.s, f.x, s.a2)} : f \in HostOpen(s, s.a1, {})}
sys_xstat(s) ==
  UNION {IF f.x < 0 THEN {UNIX_RETURN(f.s, -1)}
         ELSE {UNIX_RETURN(HostClose(o.s, f.x).s, o.x) : o \in _emulate_fxstat(f.s, f.x, s.a2)} :
           f \in HostOpen(s, s.a1, {})}

\* The second word of the time is the seconds again.
_emulate_gettime(s) == {UNIX_RETURN(WriteCell(WriteCell(s, s.a0, 1), s.a0 + 4, 1), 0)}
sys_time(s) == {UNIX_RETURN(IF s.a0 # 0 THEN WriteCell(s, s.a0, 1) ELSE s, 1)}

----------------------------------------------------------------------------
(* Back doors.                                                             *)

\* The strings go to _argaddr one behind the other, argc and the pointers to
\* the stack.
StringAt(argv, i) == ArgAddr + Len(FlattenSeq(SubSeq(argv, 1, i - 1)))
PutWords(s, a, words) ==
  [s EXCEPT !.cell = [c \in Cells |-> LET i == 1 + (c - a) \div 4
                                      IN  IF (c - a) % 4 = 0 /\ i \in DOMAIN words THEN words[i] ELSE @[c]]]
FillerOdd(argc) == argc % 2   \* argc & 1 for !(argc & 1)
Filler(argc) == IF argc % 2 = 0 THEN 1 ELSE 0
BackDoor_SetArgs(s) ==
  LET argc == Len(s.argv)
      sp   == s.sp - 4 * (argc + 1 + Filler(argc))
      words == <<argc>> \o [i \in 1..argc |-> StringAt(s.argv, i)]
  IN  IF argc = 0 THEN s
      ELSE Deposit(PutWords([s EXCEPT !.sp = sp], sp, words), ArgAddr, FlattenSeq(s.argv))

\* SetArgs 0, SimTime 1, CpuId 2; Delay only waits, nothing is behind the rest.
BackDoor(s) == {UNIX_RETURN(CASE s.a0 = 0 -> BackDoor_SetArgs(s)
                              [] s.a0 = 1 -> [s EXCEPT !.a0 = 7]
                              [] s.a0 = 2 -> [s EXCEPT !.a0 = 0]
                              [] OTHER -> s, 0)}

----------------------------------------------------------------------------
Direct(s) ==
  CASE s.v0 = 1001 -> sys_exit(s)
    [] s.v0 = 1003 -> sys_read(s)
    [] s.v0 = 1004 -> sys_write(s)
    [] s.v0 = 1005 -> sys_open(s)
    [] s.v0 = 1006 -> sys_close(s)
    [] s.v0 = 1008 -> sys_creat(s)
    [] s.v0 = 1013 -> sys_time(s)
    [] s.v0 = 1019 -> sys_lseek(s)
    [] s.v0 = 1020 -> HostAnswer(s, {1})                    \* getpid
    [] s.v0 \in {1033, 1037} -> HostAnswer(s, {0}) \cup HostRefusal(s)   \* access, kill
    [] s.v0 = 1040 -> {s}                                   \* syssgi
    [] s.v0 = 1054 -> sys_ioctl(s)
    [] s.v0 = 1056 -> {UNIX_RETURN(s, IF s.a0 = 14 THEN 4096 ELSE -1)}   \* sysmp, page size
    [] s.v0 = 1128 -> _emulate_gettime(s)
    [] s.v0 = 1130 -> {IF s.a0 = 14 THEN UNIX_RETURN(s, 0) ELSE s}       \* prctl
    [] s.v0 = 1158 -> sys_xstat(s)
    [] s.v0 = 1160 -> sys_fxstat(s)
    [] s.v0 = 1181 -> BackDoor(s)
    [] OTHER -> {UNIX_RETURN(s, 0)}                         \* brk, ksigaction, the rest

\* syscall(number, arguments): the registers are moved down for the call and
\* a0..a2 put back after it.
Indirect(s) ==
  IF s.a0 = 1000 THEN {[s EXCEPT !.fatal = TRUE]}
  ELSE {[t EXCEPT !.a0 = s.a0, !.a1 = s.a1, !.a2 = s.a2] :
          t \in Direct([s EXCEPT !.v0 = s.a0, !.a0 = s.a1, !.a1 = s.a2, !.a2 = s.a3])}

EmulateSysCall(s) == IF s.v0 = 1000 THEN Indirect(s) ELSE Direct(s)

----------------------------------------------------------------------------
NoCall == [num |-> 0, a0 |-> 0, a1 |-> 0, a2 |-> 0]

SysInit ==
  /\ sys = [v0 |-> 0, a0 |-> 0, a1 |-> 0, a2 |-> 0, a3 |-> 0, sp |-> StackTop,
            fdlist |-> [i \in 0..(TableSize - 1) |-> IF i < 3 THEN i ELSE -1],
            cell |-> [c \in Cells |-> c % 2], argv |-> <<>>, quit |-> FALSE, fatal |-> FALSE,
            host |-> [h \in HostFDs |-> IF h < 3 THEN [Closed EXCEPT !.file = Tty] ELSE Closed],
            data |-> [f \in Files |-> <<1>>], errno |-> 0, call |-> NoCall]
  /\ ncalls = 0

\* main.cc calls it before the program runs.
ArgumentSetup == \E argv \in Argvs :
  /\ ncalls = 0 /\ sys.argv = <<>>
  /\ sys' = [sys EXCEPT !.argv = argv] /\ ncalls' = MaxCalls - MaxOthers

\* The registers as the guest sets them.
Registers(c) ==
  LET s == [sys EXCEPT !.v0 = c[1], !.a0 = c[2], !.a1 = c[3], !.a2 = c[4], !.call = CallOf(c)]
  IN  IF Len(c) = 5 THEN [s EXCEPT !.a3 = c[5]] ELSE s

Call == \E c \in GuestCalls :
  /\ ~sys.quit /\ ~sys.fatal /\ ncalls < MaxCalls
  /\ c \in OtherCalls => ncalls \in {0, MaxCalls - MaxOthers}
  /\ sys' \in EmulateSysCall(Registers(c))
  /\ ncalls' = ncalls + 1

\* SysCall::Reset, between programs.
Reset ==
  /\ sys.quit
  /\ LET listed == {i \in 3..(TableSize - 1) : sys.fdlist[i] > 0}
     IN  sys' = [sys EXCEPT !.fdlist = [i \in DOMAIN @ |-> IF i \in listed THEN -1 ELSE @[i]],
                            !.host = [h \in HostFDs |-> IF \E i \in listed : sys.fdlist[i] = h THEN Closed ELSE @[h]],
                            !.quit = FALSE, !.call = NoCall]
  /\ UNCHANGED ncalls

SysNext == ArgumentSetup \/ Call \/ Reset
SysSpec == SysInit /\ [][SysNext]_scvars
=============================================================================
