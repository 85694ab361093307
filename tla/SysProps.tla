------------------------------ MODULE SysProps ------------------------------
(***************************************************************************)
(* What a guest program may rely on in its system calls.                   *)
(***************************************************************************)
EXTENDS SysCalls

\* A call was made in this step.
Called == ncalls' = ncalls + 1

Slots == 0..(TableSize - 1)

\* Every guest descriptor in use stands for an open host descriptor of its
\* own, and no host descriptor stays open that none stands for: not after a
\* failed open, a close, an xstat or Reset (syscall.cc:117-127, 742-815).
Linked(s) ==
  LET used == {i \in Slots : s.fdlist[i] # -1}
  IN  /\ \A i \in used : IsOpen(s, s.fdlist[i])
      /\ \A i, j \in used : i # j => s.fdlist[i] # s.fdlist[j]
      /\ \A h \in HostFDs : IsOpen(s, h) => \E i \in used : s.fdlist[i] = h
Descriptors == Linked(sys)

----------------------------------------------------------------------------
(* One call, from state s to state t, as POSIX describes it.               *)

Desc(s, g) == IF s.fdlist[g] = -1 THEN Closed ELSE s.host[s.fdlist[g]]
Moved(s, t)   == {g \in Slots : Desc(s, g) # Desc(t, g)}
Changed(s, t) == {f \in Files : s.data[f] # t.data[f]}
Touched(s, t) == {c \in Cells : s.cell[c] # t.cell[c]}
Buffer(s, a, n) == [k \in 1..n |-> s.cell[a + k - 1]]
Ok(t) == t.a3 = 0
Nothing(s, t) == Moved(s, t) = {} /\ Changed(s, t) = {} /\ Touched(s, t) = {}

\* A free descriptor now stands for the file, at its beginning.
Opened(s, t) == /\ Ok(t) /\ Moved(s, t) = {t.v0} /\ Desc(s, t.v0) = Closed
                /\ Desc(t, t.v0).file = t.call.a0 /\ Desc(t, t.v0).pos = 0
                /\ Changed(s, t) \subseteq {t.call.a0} /\ Touched(s, t) = {}

OpenPromise(s, t)  == IF Ok(t) THEN Opened(s, t) ELSE Nothing(s, t)
CreatPromise(s, t) == Opened(s, t) \/ Nothing(s, t)
ClosePromise(s, t) == LET g == Slot(t.call.a0) IN
  /\ Ok(t) <=> Desc(s, g) # Closed
  /\ Moved(s, t) = IF Ok(t) THEN {g} ELSE {}
  /\ Desc(t, g) = Closed /\ Changed(s, t) = {}

ReadPromise(s, t) ==
  LET c == t.call
      d == Desc(s, Slot(c.a0))
  IN  /\ Changed(s, t) = {}
      /\ IF ~Ok(t) THEN Nothing(s, t)
         ELSE /\ t.v0 \in 0..c.a2 /\ Touched(s, t) \subseteq c.a1..(c.a1 + t.v0 - 1)
              /\ Moved(s, t) \subseteq {Slot(c.a0)}
              /\ d.file \in Files =>
                   /\ Desc(t, Slot(c.a0)) = [d EXCEPT !.pos = @ + t.v0]
                   /\ Buffer(t, c.a1, t.v0) = SubSeq(s.data[d.file], d.pos + 1, d.pos + t.v0)
                   /\ t.v0 = 0 => c.a2 = 0 \/ d.pos >= Len(s.data[d.file])

WritePromise(s, t) ==
  LET c == t.call
      d == Desc(t, Slot(c.a0))
  IN  /\ Touched(s, t) = {} /\ Moved(s, t) \subseteq {Slot(c.a0)}
      /\ Changed(s, t) \subseteq {d.file}
      /\ Ok(t) /\ t.v0 = c.a2 /\ d.file \in Files =>
           \/ MaxFile \in {d.pos, Len(t.data[d.file])}   \* the file system is full
           \/ SubSeq(t.data[d.file], d.pos - c.a2 + 1, d.pos) = Buffer(s, c.a1, c.a2)

StatPromise(s, t, d) ==
  /\ Moved(s, t) = {} /\ Changed(s, t) = {} /\ Touched(s, t) \subseteq {t.call.a2}
  /\ Ok(t) /\ d.file \in Files => t.cell[t.call.a2] = Len(s.data[d.file])

Promise(s, t) == LET c == t.call IN
  CASE c.num = 1003 -> ReadPromise(s, t)
    [] c.num = 1004 -> WritePromise(s, t)
    [] c.num = 1005 -> OpenPromise(s, t)
    [] c.num = 1006 -> ClosePromise(s, t)
    [] c.num = 1008 -> CreatPromise(s, t)
    [] c.num = 1019 -> Moved(s, t) \subseteq {Slot(c.a0)} /\ Changed(s, t) = {} /\ Touched(s, t) = {}
    [] c.num = 1158 -> StatPromise(s, t, [Closed EXCEPT !.file = c.a1])
    [] c.num = 1160 -> StatPromise(s, t, Desc(s, Slot(c.a1)))
    [] OTHER -> Moved(s, t) = {} /\ Changed(s, t) = {}

\* A call, made directly or through syscall, has the effect of the POSIX call
\* on its own descriptor and buffer and on nothing else: the bytes read are
\* those of the file the descriptor was opened for (syscall.cc:646-1062).
FilesAsPromised == [][Called /\ ~sys'.fatal => Promise(sys, sys')]_scvars

----------------------------------------------------------------------------
\* Where the program finds its arguments: all below the old stack pointer, the
\* new one aligned to double words.
Arguments(s, t) ==
  LET argc == Len(s.argv)
      at(i) == t.cell[t.sp + 4 * i]
  IN  /\ t.sp % 8 = 0 /\ t.cell[t.sp] = argc
      /\ \A i \in 1..argc : Buffer(t, at(i), Len(s.argv[i])) = s.argv[i]
      /\ \A c \in Touched(s, t) : c < s.sp

SetsArgs(s, t) == t.call.num = 1181 /\ t.call.a0 = 0 /\ s.argv # <<>>

\* The registers a call takes its arguments from come back as they were, and
\* so does the stack pointer, unless the call is there to change them; after
\* SetArgs the program finds argc and argv (syscall.cc:861-883, 956-977).
CallFrame ==
  [][LET t == sys'
         c == t.call
         through == t.a0 = c.num /\ t.a1 = c.a0 /\ t.a2 = c.a1
         direct  == t.a1 = c.a1 /\ t.a2 = c.a2
                    /\ (t.a0 = c.a0 \/ (c.num = 1181 /\ c.a0 \in {1, 2}))
     IN  Called => /\ through \/ direct
                   /\ IF SetsArgs(sys, t) THEN Arguments(sys, t) ELSE t.sp = sys.sp]_scvars
=============================================================================
