----------------------------- MODULE SysProofs -----------------------------
(***************************************************************************)
(* Proofs about the system calls, for every size of the table, every host  *)
(* and every program: guest descriptors stay linked to host descriptors,   *)
(* and each call does what is promised of it and nothing else.             *)
(*                                                                         *)
(* What a single call does is said in one lemma per call (ReadEffect,      *)
(* WriteEffect, ...); DirectEffect and IndirectEffect put them together,   *)
(* and SysStep is the step of the inductive invariant SysInv.              *)
(***************************************************************************)
EXTENDS SysProps, SequenceTheorems, Loops

----------------------------------------------------------------------------
(* The least and the greatest of a set of numbers.                         *)

\* Min picks the first free slot and the lowest free host descriptor.
LEMMA MinIsLeast == ASSUME NEW T \in SUBSET Nat, T # {}
                    PROVE  Min(T) \in T /\ \A n \in T : Min(T) <= n
BY LeastExists DEF Min

\* Min and Max of two numbers.
LEMMA MinOfTwo == ASSUME NEW a \in Int, NEW b \in Int
                  PROVE  Min({a, b}) \in {a, b} /\ Min({a, b}) <= a /\ Min({a, b}) <= b
<1>1. \E x \in {a, b} : \A y \in {a, b} : x <= y
  <2>1. CASE a <= b BY <2>1
  <2>2. CASE b <= a BY <2>2
  <2> QED BY <2>1, <2>2
<1> QED BY <1>1 DEF Min

LEMMA MaxOfTwo == ASSUME NEW a \in Int, NEW b \in Int
                  PROVE  Max({a, b}) \in {a, b} /\ Max({a, b}) >= a /\ Max({a, b}) >= b
<1>1. \E x \in {a, b} : \A y \in {a, b} : x >= y
  <2>1. CASE a <= b BY <2>1
  <2>2. CASE b <= a BY <2>2
  <2> QED BY <2>1, <2>2
<1> QED BY <1>1 DEF Max

----------------------------------------------------------------------------
(* Types.                                                                  *)

Flags == DOMAIN SIM_O
Descs == [file : Files \cup {NoFile, Tty}, pos : Nat, flags : SUBSET Flags]

Fields == {"v0", "a0", "a1", "a2", "a3", "sp", "fdlist", "cell", "argv", "quit", "fatal",
           "host", "data", "errno", "call"}

\* What the parts of the state are; a host descriptor without a file is closed.
Typed(s) ==
  /\ DOMAIN s = Fields
  /\ s.v0 \in Int /\ s.a0 \in Int /\ s.a1 \in Int /\ s.a2 \in Int /\ s.a3 \in Int /\ s.sp \in Int
  /\ s.errno \in Nat
  /\ s.argv \in Seq(Seq(Int))
  /\ s.fdlist \in [Slots -> HostFDs \cup {-1}]
  /\ s.cell \in [Cells -> Int]
  /\ s.host \in [HostFDs -> Descs]
  /\ s.data \in [Files -> Seq(Int)]

\* Positions and lengths stay within the file system; no name, no descriptor.
Sound(s) ==
  /\ \A h \in HostFDs : s.host[h].pos <= MaxFile
  /\ \A h \in HostFDs : s.host[h].file = NoFile => s.host[h] = Closed
  /\ \A f \in Files : Len(s.data[f]) <= MaxFile

Good(s) == Typed(s) /\ Sound(s) /\ Linked(s)

\* What no call changes, except the back doors that are there to do so.
Frame(s, t) == /\ t.call = s.call /\ t.sp = s.sp /\ t.a0 = s.a0 /\ t.a1 = s.a1 /\ t.a2 = s.a2
               /\ t.argv = s.argv /\ t.quit = s.quit /\ t.fatal = s.fatal

SameFiles(s, t) == t.fdlist = s.fdlist /\ t.host = s.host /\ t.data = s.data

----------------------------------------------------------------------------
(* What a result leaves as it was.                                         *)

\* A call that touches no descriptor and no file keeps all that is said of them.
LEMMA SameFilesGood == ASSUME NEW s, NEW t, Sound(s), Linked(s), SameFiles(s, t)
                       PROVE  Sound(t) /\ Linked(t) /\ Moved(s, t) = {} /\ Changed(s, t) = {}
BY DEF Sound, Linked, IsOpen, SameFiles, Moved, Changed, Desc

\* UNIX_RETURN sets v0 and a3 and nothing else; a3 tells whether the call failed.
LEMMA UnixReturn == ASSUME NEW s, Typed(s), NEW x \in Int, NEW t, t = UNIX_RETURN(s, x)
  PROVE  /\ Typed(t) /\ SameFiles(s, t) /\ t.cell = s.cell /\ Frame(s, t)
         /\ Ok(t) <=> x >= 0
         /\ x >= 0 => t.v0 = x
BY DEF UNIX_RETURN, Typed, SameFiles, Frame, Ok, Fields

----------------------------------------------------------------------------
(* The three ways in which descriptors change.                             *)

\* The host descriptor of one guest descriptor moves within its file.
LEMMA DescriptorMoves ==
  ASSUME NEW s, Good(s), NEW g \in Slots, s.fdlist[g] # -1,
         NEW d \in Descs, d.file = s.host[s.fdlist[g]].file, d.pos <= MaxFile,
         NEW t, Typed(t), t.fdlist = s.fdlist, t.host = [s.host EXCEPT ![s.fdlist[g]] = d],
         \A f \in Files : Len(t.data[f]) <= MaxFile
  PROVE  Good(t) /\ Moved(s, t) \subseteq {g} /\ Desc(s, g) = s.host[s.fdlist[g]] /\ Desc(t, g) = d
<1> DEFINE h == s.fdlist[g]
<1>1. h \in HostFDs /\ s.host[h] # Closed BY DEF Good, Typed, Linked, IsOpen
<1>2. s.host[h].file # NoFile BY <1>1 DEF Good, Sound
<1>3. d # Closed BY <1>2 DEF Closed
<1>4. /\ s.host \in [HostFDs -> Descs] /\ s.fdlist \in [Slots -> HostFDs \cup {-1}]
      /\ t.host[h] = d /\ \A k \in HostFDs : k # h => t.host[k] = s.host[k]
  BY <1>1 DEF Good, Typed
<1>5. \A k \in HostFDs : IsOpen(t, k) <=> IsOpen(s, k) BY <1>1, <1>3, <1>4 DEF IsOpen
<1>6. Linked(t)
  <2>1. Linked(s) BY DEF Good
  <2> QED BY <2>1, <1>4, <1>5 DEF Linked
<1>7. Sound(t) BY <1>2, <1>4 DEF Good, Sound
<1>8. Moved(s, t) \subseteq {g} BY <1>4 DEF Good, Linked, Moved, Desc
<1> QED BY <1>1, <1>4, <1>6, <1>7, <1>8 DEF Good, Desc

\* A free slot gets a host descriptor that was closed.
LEMMA DescriptorOpens ==
  ASSUME NEW s, Good(s), NEW g \in Slots, s.fdlist[g] = -1, NEW h \in HostFDs, s.host[h] = Closed,
         NEW d \in Descs, d.file # NoFile, d.pos <= MaxFile,
         NEW t, Typed(t), t.fdlist = [s.fdlist EXCEPT ![g] = h], t.host = [s.host EXCEPT ![h] = d],
         \A f \in Files : Len(t.data[f]) <= MaxFile
  PROVE  Good(t) /\ Moved(s, t) = {g} /\ Desc(s, g) = Closed /\ Desc(t, g) = d
<1>1. d # Closed BY DEF Closed
<1>2. /\ s.host \in [HostFDs -> Descs] /\ s.fdlist \in [Slots -> HostFDs \cup {-1}]
      /\ t.host[h] = d /\ \A k \in HostFDs : k # h => t.host[k] = s.host[k]
      /\ t.fdlist[g] = h /\ \A i \in Slots : i # g => t.fdlist[i] = s.fdlist[i]
  BY DEF Good, Typed
<1>3. h # -1 BY SysConstants
<1>4. \A i \in Slots : s.fdlist[i] # h BY <1>3 DEF Good, Linked, IsOpen
<1>5. Linked(t)
  <2>1. Linked(s) BY DEF Good
  <2>2. \A i \in Slots : t.fdlist[i] # -1 => IsOpen(t, t.fdlist[i])
    BY <2>1, <1>1, <1>2, <1>4 DEF Linked, IsOpen
  <2>3. \A i, j \in Slots : t.fdlist[i] # -1 /\ t.fdlist[j] # -1 /\ i # j => t.fdlist[i] # t.fdlist[j]
    BY <2>1, <1>2, <1>4 DEF Linked
  <2>4. \A k \in HostFDs : IsOpen(t, k) => \E i \in Slots : t.fdlist[i] # -1 /\ t.fdlist[i] = k
    <3> SUFFICES ASSUME NEW k \in HostFDs, IsOpen(t, k)
                 PROVE  \E i \in Slots : t.fdlist[i] # -1 /\ t.fdlist[i] = k
      OBVIOUS
    <3>1. CASE k = h BY <3>1, <1>2, <1>3
    <3>2. CASE k # h
      <4>1. IsOpen(s, k) BY <3>2, <1>2 DEF IsOpen
      <4>2. PICK i \in Slots : s.fdlist[i] # -1 /\ s.fdlist[i] = k BY <4>1, <2>1 DEF Linked
      <4>3. i # g BY <4>2
      <4> QED BY <4>2, <4>3, <1>2
    <3> QED BY <3>1, <3>2
  <2> QED BY <2>2, <2>3, <2>4 DEF Linked
<1>6. Sound(t) BY <1>2 DEF Good, Sound
<1>7. Desc(s, g) = Closed /\ Desc(t, g) = d BY <1>2, <1>3 DEF Desc
<1>8. \A i \in Slots : i # g => Desc(t, i) = Desc(s, i) BY <1>2, <1>4 DEF Desc
<1>9. Moved(s, t) = {g} BY <1>1, <1>7, <1>8 DEF Moved
<1> QED BY <1>5, <1>6, <1>7, <1>9 DEF Good

\* A slot is cleared and its host descriptor closed.
LEMMA DescriptorCloses ==
  ASSUME NEW s, Good(s), NEW g \in Slots, s.fdlist[g] # -1,
         NEW t, Typed(t), t.fdlist = [s.fdlist EXCEPT ![g] = -1],
         t.host = [s.host EXCEPT ![s.fdlist[g]] = Closed], t.data = s.data
  PROVE  Good(t) /\ Moved(s, t) = {g} /\ Desc(s, g) # Closed /\ Desc(t, g) = Closed
<1> DEFINE h == s.fdlist[g]
<1>1. h \in HostFDs /\ s.host[h] # Closed BY DEF Good, Typed, Linked, IsOpen
<1>2. /\ s.host \in [HostFDs -> Descs] /\ s.fdlist \in [Slots -> HostFDs \cup {-1}]
      /\ t.host[h] = Closed /\ \A k \in HostFDs : k # h => t.host[k] = s.host[k]
      /\ t.fdlist[g] = -1 /\ \A i \in Slots : i # g => t.fdlist[i] = s.fdlist[i]
  BY <1>1 DEF Good, Typed
<1>3. \A i \in Slots : i # g /\ s.fdlist[i] # -1 => s.fdlist[i] # h BY DEF Good, Linked
<1>4. Linked(t)
  <2>1. Linked(s) BY DEF Good
  <2>2. \A i \in Slots : t.fdlist[i] # -1 => IsOpen(t, t.fdlist[i])
    BY <2>1, <1>2, <1>3 DEF Linked, IsOpen
  <2>3. \A i, j \in Slots : t.fdlist[i] # -1 /\ t.fdlist[j] # -1 /\ i # j => t.fdlist[i] # t.fdlist[j]
    BY <2>1, <1>2 DEF Linked
  <2>4. \A k \in HostFDs : IsOpen(t, k) => \E i \in Slots : t.fdlist[i] # -1 /\ t.fdlist[i] = k
    <3> SUFFICES ASSUME NEW k \in HostFDs, IsOpen(t, k)
                 PROVE  \E i \in Slots : t.fdlist[i] # -1 /\ t.fdlist[i] = k
      OBVIOUS
    <3>1. k # h /\ IsOpen(s, k) BY <1>2 DEF IsOpen
    <3>2. PICK i \in Slots : s.fdlist[i] # -1 /\ s.fdlist[i] = k BY <3>1, <2>1 DEF Linked
    <3> QED BY <3>1, <3>2, <1>2
  <2> QED BY <2>2, <2>3, <2>4 DEF Linked
<1>5. Sound(t)
  <2>1. Closed.pos <= MaxFile /\ Closed.file = NoFile BY SysConstants DEF Closed
  <2> QED BY <2>1, <1>2 DEF Good, Sound
<1>6. Desc(s, g) = s.host[h] /\ Desc(t, g) = Closed BY <1>2 DEF Desc
<1>7. \A i \in Slots : i # g => Desc(t, i) = Desc(s, i) BY <1>2, <1>3 DEF Desc, Good, Typed
<1>8. Moved(s, t) = {g} BY <1>1, <1>6, <1>7 DEF Moved
<1> QED BY <1>1, <1>4, <1>5, <1>6, <1>8 DEF Good

----------------------------------------------------------------------------
(* Reading.                                                                *)

\* The record of the call agrees with the registers it is taken from.
Recorded(s) == s.call = [num |-> s.v0, a0 |-> s.a0, a1 |-> s.a1, a2 |-> s.a2]

\* Bytes put into memory: they are found there, and only there is memory changed.
LEMMA DepositEffect ==
  ASSUME NEW s, Typed(s), NEW a \in Int, NEW seq \in Seq(Int)
  PROVE  LET t == Deposit(s, a, seq)
         IN  /\ Typed(t) /\ SameFiles(s, t) /\ Frame(s, t) /\ t.errno = s.errno /\ t.v0 = s.v0 /\ t.a3 = s.a3
             /\ Touched(s, t) \subseteq a..(a + Len(seq) - 1)
             /\ a..(a + Len(seq) - 1) \subseteq Cells => Buffer(t, a, Len(seq)) = seq
<1> DEFINE t == Deposit(s, a, seq)
<1>1. /\ DOMAIN t = Fields
      /\ t.cell = [c \in Cells |-> IF c - a \in 0..(Len(seq) - 1) THEN seq[1 + c - a] ELSE s.cell[c]]
      /\ \A x \in Fields \ {"cell"} : t[x] = s[x]
  BY DEF Deposit, Typed, Fields
<1> HIDE DEF t
<1>2. Len(seq) \in Nat /\ DOMAIN seq = 1..Len(seq) /\ \A i \in 1..Len(seq) : seq[i] \in Int
  BY LenProperties, ElementOfSeq
<1>3. \A c \in Cells : c \in Int BY SysConstants
<1>4. t.cell \in [Cells -> Int]
  <2> SUFFICES ASSUME NEW c \in Cells
               PROVE  (IF c - a \in 0..(Len(seq) - 1) THEN seq[1 + c - a] ELSE s.cell[c]) \in Int
    BY <1>1
  <2>1. s.cell[c] \in Int BY DEF Typed
  <2>2. ASSUME c - a \in 0..(Len(seq) - 1) PROVE seq[1 + c - a] \in Int
    <3>1. 1 + c - a \in 1..Len(seq) BY <1>2, <1>3, <2>2
    <3> QED BY <1>2, <3>1
  <2> QED BY <2>1, <2>2
<1>5. Typed(t) /\ SameFiles(s, t) /\ Frame(s, t) /\ t.errno = s.errno /\ t.v0 = s.v0 /\ t.a3 = s.a3
  BY <1>1, <1>4 DEF Typed, SameFiles, Frame, Fields
<1>6. Touched(s, t) \subseteq a..(a + Len(seq) - 1)
  BY <1>1, <1>2, <1>3 DEF Touched
<1>7. ASSUME a..(a + Len(seq) - 1) \subseteq Cells PROVE Buffer(t, a, Len(seq)) = seq
  <2>1. \A k \in 1..Len(seq) : t.cell[a + k - 1] = seq[k]
    <3> TAKE k \in 1..Len(seq)
    <3>1. a + k - 1 \in Cells BY <1>2, <1>7
    <3>2. (a + k - 1) - a = k - 1 /\ k - 1 \in 0..(Len(seq) - 1) /\ 1 + (a + k - 1) - a = k BY <1>2
    <3> QED BY <1>1, <3>1, <3>2
  <2>2. seq = [k \in 1..Len(seq) |-> seq[k]] BY LenProperties
  <2> QED BY <2>1, <2>2 DEF Buffer
<1> QED BY <1>5, <1>6, <1>7 DEF t

\* A stretch of k elements behind the first m.
LEMMA Stretch ==
  ASSUME NEW q \in Seq(Int), NEW m \in Nat, NEW k \in Nat, k > 0, m + k <= Len(q)
  PROVE  /\ SubSeq(q, m + 1, m + k) \in Seq(Int)
         /\ Len(SubSeq(q, m + 1, m + k)) = k
         /\ \A i \in 1..k : SubSeq(q, m + 1, m + k)[i] = q[m + i]
<1>1. \A i \in (m + 1)..(m + k) : q[i] \in Int
  <2> TAKE i \in (m + 1)..(m + k)
  <2>1. i \in 1..Len(q) BY LenProperties
  <2> QED BY <2>1, ElementOfSeq
<1> DEFINE a == m + 1
           b == m + k
<1>2. a \in Int /\ b \in Int /\ a <= b /\ b - a + 1 = k OBVIOUS
<1>3. \A i \in 1..k : a + i - 1 = m + i OBVIOUS
<1> HIDE DEF a, b
<1>4. /\ SubSeq(q, a, b) \in Seq(Int)
      /\ Len(SubSeq(q, a, b)) = IF a <= b THEN b - a + 1 ELSE 0
      /\ \A i \in 1..(b - a + 1) : SubSeq(q, a, b)[i] = q[a + i - 1]
  <2>1. \A i \in a..b : q[i] \in Int BY <1>1 DEF a, b
  <2> QED BY <1>2, <2>1, SubSeqProperties
<1>5. Len(SubSeq(q, a, b)) = k /\ \A i \in 1..k : SubSeq(q, a, b)[i] = q[m + i]
  BY <1>2, <1>3, <1>4
<1> QED BY <1>4, <1>5 DEF a, b

\* A guest descriptor in use stands for an open host descriptor with a file.
LEMMA InUse ==
  ASSUME NEW s, Good(s), NEW x \in Int
  PROVE  /\ Slot(x) \in Slots
         /\ HostOf(s, x) \in HostFDs \cup {-1}
         /\ HostOf(s, x) < 0 <=> HostOf(s, x) = -1
         /\ HostOf(s, x) # -1 => /\ IsOpen(s, HostOf(s, x)) /\ HostOf(s, x) \in Nat
                                 /\ s.host[HostOf(s, x)] \in Descs
                                 /\ s.host[HostOf(s, x)].file \in Files \cup {Tty}
                                 /\ s.host[HostOf(s, x)] # Closed
                                 /\ Desc(s, Slot(x)) = s.host[HostOf(s, x)]
         /\ HostOf(s, x) = -1 => Desc(s, Slot(x)) = Closed
<1> DEFINE h == HostOf(s, x)
<1>1. Slot(x) \in Slots BY SysConstants DEF Slot, Slots
<1>2. HostFDs \subseteq Nat BY SysConstants
<1>3. h \in HostFDs \cup {-1} BY <1>1 DEF HostOf, Good, Typed
<1>4. h < 0 <=> h = -1
  <2> HIDE DEF h
  <2> QED BY <1>2, <1>3
<1>5. ASSUME h # -1
      PROVE  h \in HostFDs /\ h \in Nat /\ IsOpen(s, h)
  <2>1. IsOpen(s, h) BY <1>1, <1>5 DEF Good, Linked, HostOf
  <2> HIDE DEF h
  <2> QED BY <1>2, <1>3, <1>5, <2>1
<1>6. ASSUME h # -1
      PROVE  s.host[h] \in Descs /\ s.host[h] # Closed /\ s.host[h].file \in Files \cup {Tty}
  <2>1. s.host[h] \in Descs BY <1>5, <1>6 DEF Good, Typed
  <2>2. s.host[h] # Closed BY <1>5, <1>6 DEF IsOpen
  <2>3. s.host[h].file # NoFile BY <1>5, <1>6, <2>2 DEF Good, Sound
  <2> QED BY <2>1, <2>2, <2>3 DEF Descs
<1> QED BY <1>1, <1>3, <1>4, <1>5, <1>6 DEF Desc, HostOf

\* The outcomes of read(2) on an open descriptor: an error, the end of the file,
\* or at most n bytes, those at the position, which moves behind them.
LEMMA HostReadEffect ==
  ASSUME NEW s, Good(s), NEW h \in HostFDs, s.host[h].file \in Files \cup {Tty},
         NEW n \in Nat, n > 0, NEW o \in HostRead(s, h, n)
  PROVE  LET d == s.host[h]
             t == o.s
         IN  /\ Typed(t) /\ Frame(s, t) /\ t.fdlist = s.fdlist /\ t.data = s.data /\ t.cell = s.cell
             /\ o.x = -1 => t.host = s.host
             /\ o.x # -1 =>
                  /\ o.x \in 0..n /\ o.bytes \in Seq(Int) /\ Len(o.bytes) = o.x
                  /\ d.file = Tty => t.host = [s.host EXCEPT ![h] = [d EXCEPT !.pos = 0]] \/ t.host = s.host
                  /\ d.file \in Files =>
                       /\ t.host = [s.host EXCEPT ![h] = [d EXCEPT !.pos = @ + o.x]]
                       /\ o.bytes = SubSeq(s.data[d.file], d.pos + 1, d.pos + o.x)
                       /\ o.x = 0 => d.pos >= Len(s.data[d.file])
                       /\ o.x > 0 => d.pos + o.x <= Len(s.data[d.file])
<1> DEFINE d == s.host[h]
           left == IF d.file = Tty THEN 1 ELSE Len(s.data[d.file]) - d.pos
           got(k) == IF d.file = Tty THEN <<1>> ELSE SubSeq(s.data[d.file], d.pos + 1, d.pos + k)
<1>1. d \in Descs /\ d.pos \in Nat /\ d.pos + 0 = d.pos BY DEF Good, Typed, Descs
<1>2. d.file \in Files => s.data[d.file] \in Seq(Int) /\ Len(s.data[d.file]) \in Nat
  BY LenProperties DEF Good, Typed
<1>3. Tty \notin Files BY SysConstants
<1>4. left \in Int /\ (d.file = Tty => left = 1)
      /\ (d.file \in Files => left = Len(s.data[d.file]) - d.pos)
  <2>1. CASE d.file = Tty BY <2>1, <1>3
  <2>2. CASE d.file \in Files
    <3>1. d.file # Tty BY <2>2, <1>3
    <3>2. left = Len(s.data[d.file]) - d.pos BY <3>1
    <3> HIDE DEF left, d
    <3> QED BY <2>2, <3>1, <3>2, <1>1, <1>2
  <2> QED BY <2>1, <2>2
<1>5. CASE "WRONLY" \in d.flags
  <2>1. o = HostError(s, EBADF) BY <1>5 DEF HostRead
  <2> QED BY <2>1 DEF HostError, Outcome, EBADF, Good, Typed, Fields, Frame
<1>6. CASE "WRONLY" \notin d.flags /\ left <= 0
  <2>1. o = Outcome(s, 0) BY <1>6 DEF HostRead
  <2>2. d.file \in Files BY <1>6
  <2>3. o.s = s /\ o.x = 0 /\ o.bytes = <<>> BY <2>1 DEF Outcome
  <2>4. d.pos + o.x = d.pos BY <1>1, <2>3
  <2>5. [d EXCEPT !.pos = @ + o.x] = d BY <1>1, <2>4 DEF Descs
  <2>6. s.host = [s.host EXCEPT ![h] = d] BY DEF Good, Typed
  <2>7. SubSeq(s.data[d.file], d.pos + 1, d.pos + o.x) = <<>>
    <3>1. d.pos + 1 \in Int /\ d.pos \in Int /\ d.pos + 1 > d.pos
      <4> HIDE DEF d
      <4> QED BY <1>1
    <3> QED BY <1>2, <2>2, <2>4, <3>1, SubSeqEmpty
  <2>8. <<>> \in Seq(Int) /\ Len(<<>>) = 0 BY EmptySeq
  <2>9. d.pos >= Len(s.data[d.file]) BY <1>6, <1>1, <1>2, <2>2, <1>3
  <2>10. Typed(s) /\ 0 \in 0..n /\ 0 # -1 /\ ~(0 > 0) /\ d.file # Tty BY <1>3, <2>2 DEF Good
  <2>11. Frame(s, s) BY DEF Frame
  <2>12. d = s.host[h] OBVIOUS
  <2>13. s.host = [s.host EXCEPT ![h] = [d EXCEPT !.pos = @ + o.x]] BY <2>5, <2>6
  <2> HIDE DEF d
  <2>14. o.x = 0 => d.pos >= Len(s.data[d.file]) BY <2>9
  <2>15. o.x > 0 => d.pos + o.x <= Len(s.data[d.file]) BY <2>3
  <2> QED BY <2>3, <2>7, <2>8, <2>10, <2>11, <2>12, <2>13, <2>14, <2>15, Zenon
<1>7. CASE "WRONLY" \notin d.flags /\ left > 0
  <2>1. PICK k \in 1..Min({n, left}) :
          o = [s |-> [s EXCEPT !.host[h].pos = IF d.file = Tty THEN 0 ELSE @ + k], x |-> k, bytes |-> got(k)]
    <3>1. ~(left <= 0) BY <1>4, <1>7
    <3> QED BY <1>7, <3>1 DEF HostRead
  <2>2. k \in 1..n /\ k <= left
    <3>1. n \in Int /\ left \in Int BY <1>4
    <3> HIDE DEF left
    <3>2. Min({n, left}) \in {n, left} /\ Min({n, left}) <= n /\ Min({n, left}) <= left BY <3>1, MinOfTwo
    <3> QED BY <3>1, <3>2
  <2>3. o.x = k /\ o.x # -1 /\ o.bytes = got(k) BY <2>1, <2>2
  <2>4. /\ DOMAIN o.s = Fields /\ \A x \in Fields \ {"host"} : o.s[x] = s[x]
        /\ o.s.host = [s.host EXCEPT ![h].pos = IF d.file = Tty THEN 0 ELSE @ + k]
    BY <2>1 DEF Good, Typed, Fields
  <2>5. d.file = Tty => o.s.host = [s.host EXCEPT ![h] = [d EXCEPT !.pos = 0]] BY <2>4
  <2>6. d.file \in Files => o.s.host = [s.host EXCEPT ![h] = [d EXCEPT !.pos = @ + k]] BY <2>4, <1>3
  <2>7. d.file \in Files => [d EXCEPT !.pos = @ + k] \in Descs BY <1>1, <2>2 DEF Descs
  <2>8. [d EXCEPT !.pos = 0] \in Descs BY <1>1 DEF Descs
  <2>9. o.s.host \in [HostFDs -> Descs] BY <2>5, <2>6, <2>7, <2>8 DEF Good, Typed
  <2>10. Typed(o.s) /\ Frame(s, o.s) BY <2>4, <2>9 DEF Good, Typed, Frame, Fields
  <2>11. d.file \in Files => /\ got(k) \in Seq(Int) /\ Len(got(k)) = k
                             /\ d.pos + k <= Len(s.data[d.file])
                             /\ got(k) = SubSeq(s.data[d.file], d.pos + 1, d.pos + k)
    <3> SUFFICES ASSUME d.file \in Files
                 PROVE  /\ SubSeq(s.data[d.file], d.pos + 1, d.pos + k) \in Seq(Int)
                        /\ Len(SubSeq(s.data[d.file], d.pos + 1, d.pos + k)) = k
                        /\ d.pos + k <= Len(s.data[d.file])
      BY <1>3
    <3> DEFINE q == s.data[d.file]
               len == Len(q)
               p == d.pos
    <3>1. q \in Seq(Int) /\ len \in Nat /\ p \in Nat /\ left = len - p BY <1>1, <1>2, <1>4
    <3>2. k \in Nat /\ k > 0 /\ p + k <= len
      <4> HIDE DEF left, d, len, p, q
      <4> QED BY <2>2, <3>1
    <3> HIDE DEF d, p, q
    <3>3. SubSeq(q, p + 1, p + k) \in Seq(Int) /\ Len(SubSeq(q, p + 1, p + k)) = k BY <3>1, <3>2, Stretch
    <3> QED BY <3>2, <3>3 DEF p, q
  <2>12. d.file = Tty => got(k) \in Seq(Int) /\ Len(got(k)) = k
    <3> SUFFICES ASSUME d.file = Tty PROVE <<1>> \in Seq(Int) /\ Len(<<1>>) = k
      OBVIOUS
    <3>1. k = 1 BY <2>2
    <3> QED BY <3>1
  <2>13. o.s.fdlist = s.fdlist /\ o.s.data = s.data /\ o.s.cell = s.cell BY <2>4 DEF Fields
  <2> HIDE DEF d, got, left
  <2> QED BY <2>2, <2>3, <2>5, <2>6, <2>10, <2>11, <2>12, <2>13 DEF d
<1> QED BY <1>4, <1>5, <1>6, <1>7

\* A call that only answers has touched nothing.
LEMMA Answer ==
  ASSUME NEW s, Good(s), NEW u, Typed(u), SameFiles(s, u), u.cell = s.cell, Frame(s, u),
         NEW x \in Int, NEW t, t = UNIX_RETURN(u, x)
  PROVE  Good(t) /\ Frame(s, t) /\ Nothing(s, t) /\ (Ok(t) <=> x >= 0) /\ (x >= 0 => t.v0 = x)
<1>1. /\ Typed(t) /\ SameFiles(u, t) /\ t.cell = u.cell /\ Frame(u, t)
      /\ Ok(t) <=> x >= 0
      /\ x >= 0 => t.v0 = x
  BY UnixReturn
<1>2. SameFiles(s, t) /\ Frame(s, t) BY <1>1 DEF SameFiles, Frame
<1>3. Sound(t) /\ Linked(t) /\ Moved(s, t) = {} /\ Changed(s, t) = {}
  BY <1>2, SameFilesGood DEF Good
<1>4. Touched(s, t) = {} BY <1>1 DEF Touched
<1> QED BY <1>1, <1>2, <1>3, <1>4 DEF Good, Nothing

\* read: the bytes behind the position go to the buffer, the position behind them.
LEMMA ReadEffect ==
  ASSUME NEW s, Good(s), Recorded(s), s.a2 >= 0, s.a1..(s.a1 + s.a2 - 1) \subseteq Cells,
         NEW t \in sys_read(s)
  PROVE  Good(t) /\ Frame(s, t) /\ ReadPromise(s, t)
<1> DEFINE g == Slot(s.a0)
           h == HostOf(s, s.a0)
           d == s.host[h]
<1>1. /\ s.call.a0 = s.a0 /\ s.call.a1 = s.a1 /\ s.call.a2 = s.a2
      /\ s.a0 \in Int /\ s.a1 \in Int /\ s.a2 \in Nat
  BY DEF Recorded, Good, Typed
<1>2. /\ g \in Slots /\ (BadDescriptor(s) <=> h = -1)
      /\ h # -1 => /\ h \in HostFDs /\ d \in Descs /\ d.file \in Files \cup {Tty}
                   /\ Desc(s, g) = d
      /\ h = -1 => Desc(s, g) = Closed
  BY <1>1, InUse DEF BadDescriptor
<1>3. Closed.file \notin Files /\ Tty \notin Files BY SysConstants DEF Closed
<1>4. Typed(s) /\ SameFiles(s, s) /\ Frame(s, s) BY DEF Good, SameFiles, Frame
<1>5. CASE BadDescriptor(s)
  <2>1. t = UNIX_RETURN(s, -1) BY <1>5 DEF sys_read
  <2>2. Good(t) /\ Frame(s, t) /\ Nothing(s, t) /\ (Ok(t) <=> -1 >= 0) BY <2>1, <1>4, Answer
  <2> QED BY <2>2 DEF ReadPromise, Nothing
<1>6. CASE ~BadDescriptor(s) /\ s.a2 = 0
  <2>1. t = UNIX_RETURN(s, 0) BY <1>6 DEF sys_read
  <2>2. Good(t) /\ Frame(s, t) /\ Nothing(s, t) /\ Ok(t) /\ t.v0 = 0 BY <2>1, <1>4, Answer
  <2>3. t.call = s.call BY <2>2 DEF Frame
  <2>4. Desc(t, g) = d BY <1>2, <1>6, <2>2 DEF Nothing, Moved
  <2>5. d.file \in Files => Desc(t, g) = [d EXCEPT !.pos = @ + t.v0]
    <3>1. d.pos + t.v0 = d.pos BY <1>2, <1>6, <2>2 DEF Descs
    <3>2. [d EXCEPT !.pos = @ + t.v0] = d BY <1>2, <1>6, <3>1 DEF Descs
    <3> QED BY <2>4, <3>2
  <2>6. d.file \in Files => Buffer(t, s.a1, t.v0) = SubSeq(s.data[d.file], d.pos + 1, d.pos + t.v0)
    <3>1. Buffer(t, s.a1, 0) = <<>> BY DEF Buffer
    <3>2. d.pos \in Int /\ d.pos + 1 \in Int /\ d.pos < d.pos + 1 /\ d.pos + 0 = d.pos
      BY <1>2, <1>6 DEF Descs
    <3>3. SubSeq(s.data[d.file], d.pos + 1, d.pos) = <<>> BY <3>2, SubSeqEmpty
    <3> QED BY <2>2, <3>1, <3>2, <3>3
  <2> QED BY <1>1, <1>2, <1>6, <2>2, <2>3, <2>5, <2>6 DEF ReadPromise, Nothing
<1>7. CASE ~BadDescriptor(s) /\ s.a2 > 0
  <2> DEFINE n == IF h = 0 THEN 1 ELSE s.a2
  <2>1. PICK o \in HostRead(s, h, n) :
          t = IF o.x < 0 THEN UNIX_RETURN(o.s, o.x) ELSE UNIX_RETURN(Deposit(o.s, s.a1, o.bytes), o.x)
    <3>1. ~(s.a2 <= 0) BY <1>1, <1>7
    <3> QED BY <1>7, <3>1 DEF sys_read
  <2>2. n \in Nat /\ n > 0 /\ n <= s.a2 BY <1>1, <1>7
  <2>3. h \in HostFDs /\ d \in Descs /\ d.file \in Files \cup {Tty} /\ Desc(s, g) = d BY <1>2, <1>7
  <2>4. /\ Typed(o.s) /\ Frame(s, o.s) /\ o.s.fdlist = s.fdlist /\ o.s.data = s.data /\ o.s.cell = s.cell
        /\ o.x = -1 => o.s.host = s.host
        /\ o.x # -1 =>
             /\ o.x \in 0..n /\ o.bytes \in Seq(Int) /\ Len(o.bytes) = o.x
             /\ d.file = Tty => o.s.host = [s.host EXCEPT ![h] = [d EXCEPT !.pos = 0]] \/ o.s.host = s.host
             /\ d.file \in Files =>
                  /\ o.s.host = [s.host EXCEPT ![h] = [d EXCEPT !.pos = @ + o.x]]
                  /\ o.bytes = SubSeq(s.data[d.file], d.pos + 1, d.pos + o.x)
                  /\ o.x = 0 => d.pos >= Len(s.data[d.file])
                  /\ o.x > 0 => d.pos + o.x <= Len(s.data[d.file])
    <3> HIDE DEF n, h
    <3> QED BY <2>2, <2>3, HostReadEffect
  <2>5. CASE o.x = -1
    <3>1. t = UNIX_RETURN(o.s, -1) BY <2>1, <2>5
    <3>2. SameFiles(s, o.s) BY <2>4, <2>5 DEF SameFiles
    <3>3. Good(t) /\ Frame(s, t) /\ Nothing(s, t) /\ (Ok(t) <=> -1 >= 0) BY <2>4, <3>1, <3>2, Answer
    <3> QED BY <3>3 DEF ReadPromise, Nothing
  <2>6. CASE o.x # -1
    <3> DEFINE u == Deposit(o.s, s.a1, o.bytes)
    <3>1. o.x \in Nat /\ o.x <= s.a2 /\ o.bytes \in Seq(Int) /\ Len(o.bytes) = o.x
      <4> HIDE DEF n
      <4> QED BY <1>1, <2>2, <2>4, <2>6
    <3>2. t = UNIX_RETURN(u, o.x) BY <2>1, <3>1
    <3>3. s.a1..(s.a1 + o.x - 1) \subseteq s.a1..(s.a1 + s.a2 - 1) BY <1>1, <3>1
    <3>4. /\ Typed(u) /\ SameFiles(o.s, u) /\ Frame(o.s, u)
          /\ Touched(o.s, u) \subseteq s.a1..(s.a1 + o.x - 1)
          /\ Buffer(u, s.a1, o.x) = o.bytes
      <4> HIDE DEF u
      <4>1. s.a1..(s.a1 + o.x - 1) \subseteq Cells BY <3>3
      <4> QED BY <1>1, <2>4, <3>1, <4>1, DepositEffect DEF u
    <3> HIDE DEF u
    <3>5. /\ Typed(t) /\ SameFiles(u, t) /\ t.cell = u.cell /\ Frame(u, t) /\ Ok(t) /\ t.v0 = o.x
      <4>1. o.x \in Int /\ o.x >= 0 BY <3>1
      <4> QED BY <3>2, <3>4, <4>1, UnixReturn
    <3>6. /\ t.fdlist = s.fdlist /\ t.data = s.data /\ t.host = o.s.host /\ Frame(s, t)
          /\ Touched(s, t) \subseteq s.a1..(s.a1 + o.x - 1)
          /\ Buffer(t, s.a1, o.x) = o.bytes
      BY <2>4, <3>4, <3>5 DEF SameFiles, Frame, Touched, Buffer
    <3>7. Changed(s, t) = {} BY <3>6 DEF Changed
    <3>8. \A f \in Files : Len(t.data[f]) <= MaxFile BY <3>6 DEF Good, Sound
    <3>9. s.fdlist[g] = h /\ h # -1 /\ g \in Slots BY <1>2, <1>7 DEF HostOf
    <3>10. t.call = s.call BY <3>6 DEF Frame
    <3>11. CASE d.file = Tty
      <4>1. Good(t) /\ Moved(s, t) \subseteq {g}
        <5>1. CASE o.s.host = s.host
          <6>1. SameFiles(s, t) BY <3>6, <5>1 DEF SameFiles
          <6> QED BY <3>5, <6>1, SameFilesGood DEF Good
        <5>2. CASE o.s.host = [s.host EXCEPT ![h] = [d EXCEPT !.pos = 0]]
          <6> DEFINE e == [d EXCEPT !.pos = 0]
          <6>1. e \in Descs /\ e.file = d.file /\ e.pos <= MaxFile
            <7>1. MaxFile \in Nat BY SysConstants
            <7> QED BY <2>3, <7>1 DEF Descs
          <6>2. t.host = [s.host EXCEPT ![s.fdlist[g]] = e] BY <3>6, <3>9, <5>2
          <6> HIDE DEF e
          <6> QED BY <3>5, <3>6, <3>8, <3>9, <6>1, <6>2, DescriptorMoves
        <5> QED BY <2>4, <2>6, <3>11, <5>1, <5>2
      <4> QED BY <1>1, <1>3, <2>3, <3>1, <3>5, <3>6, <3>7, <3>10, <3>11, <4>1 DEF ReadPromise
    <3>12. CASE d.file \in Files
      <4> DEFINE e == [d EXCEPT !.pos = @ + o.x]
      <4>1. e \in Descs /\ e.file = d.file /\ e.pos <= MaxFile
        <5>1. d.pos \in Nat /\ d.pos + o.x \in Nat BY <2>3, <3>1 DEF Descs
        <5>2. e \in Descs /\ e.file = d.file /\ e.pos = d.pos + o.x BY <2>3, <5>1 DEF Descs
        <5>3. Len(s.data[d.file]) <= MaxFile /\ d.pos <= MaxFile BY <2>3, <3>12 DEF Good, Sound
        <5>4. d.pos + o.x <= MaxFile
          <6>1. Len(s.data[d.file]) \in Nat BY <3>12, LenProperties DEF Good, Typed
          <6>2. MaxFile \in Nat BY SysConstants
          <6>3. o.x > 0 => d.pos + o.x <= Len(s.data[d.file]) BY <2>4, <2>6, <3>12
          <6> HIDE DEF d
          <6> QED BY <3>1, <5>1, <5>3, <6>1, <6>2, <6>3
        <5> QED BY <5>2, <5>4
      <4>2. t.host = [s.host EXCEPT ![s.fdlist[g]] = e] BY <2>4, <2>6, <3>6, <3>9, <3>12
      <4>3. Good(t) /\ Moved(s, t) \subseteq {g} /\ Desc(t, g) = e
        <5>1. e.file = s.host[s.fdlist[g]].file BY <3>9, <4>1
        <5> HIDE DEF e
        <5> QED BY <3>5, <3>6, <3>8, <3>9, <4>1, <4>2, <5>1, DescriptorMoves
      <4>4. /\ Buffer(t, s.a1, t.v0) = SubSeq(s.data[d.file], d.pos + 1, d.pos + t.v0)
            /\ t.v0 = 0 => d.pos >= Len(s.data[d.file])
            /\ Desc(t, g) = [d EXCEPT !.pos = @ + t.v0]
        BY <2>4, <2>6, <3>5, <3>6, <3>12, <4>3
      <4>5. Touched(s, t) \subseteq s.a1..(s.a1 + t.v0 - 1) /\ t.v0 \in 0..s.a2 BY <1>1, <3>1, <3>5, <3>6
      <4> HIDE DEF d
      <4> QED BY <1>1, <2>3, <3>5, <3>6, <3>7, <3>10, <4>3, <4>4, <4>5 DEF ReadPromise
    <3> QED BY <2>3, <3>11, <3>12
  <2> QED BY <2>5, <2>6
<1> QED BY <1>1, <1>5, <1>6, <1>7

----------------------------------------------------------------------------
(* Writing.                                                                *)

\* A function on 1..n is a sequence of length n.
LEMMA FunctionIsSeq == ASSUME NEW n \in Nat, NEW f \in [1..n -> Int]
                       PROVE  f \in Seq(Int) /\ Len(f) = n
<1>1. f \in Seq(Int) BY SeqDef
<1>2. Len(f) \in Nat /\ DOMAIN f = 1..Len(f) BY <1>1, LenProperties
<1>3. 1..Len(f) = 1..n BY <1>2
<1>4. Len(f) <= n
  <2>1. Len(f) > 0 => Len(f) \in 1..n BY <1>2, <1>3
  <2> QED BY <1>2, <2>1
<1>5. n <= Len(f)
  <2>1. n > 0 => n \in 1..Len(f) BY <1>3
  <2> QED BY <1>2, <2>1
<1> QED BY <1>1, <1>2, <1>4, <1>5

\* The loop of write exists: run[n] is what the n-th byte makes of run[n - 1].
LEMMA WriteLoopRuns ==
  ASSUME NEW s, s.a2 \in Nat
  PROVE  /\ WriteLoop(s)[0] = [done |-> FALSE, s |-> s]
         /\ \A n \in 1..s.a2 :
              LET r == WriteLoop(s)[n - 1]
              IN  WriteLoop(s)[n] = IF r.done THEN r ELSE WriteOne(r.s, n - 1)
<1> DEFINE start == [done |-> FALSE, s |-> s]
           Step(r, n) == IF r.done THEN r ELSE WriteOne(r.s, n - 1)
           Runs(f, k) == f = [n \in 0..k |-> IF n = 0 THEN start ELSE Step(f[n - 1], n)]
           NoRun == {k \in Nat : ~ \E f : Runs(f, k)}
<1>1. WriteLoop(s) = CHOOSE f : Runs(f, s.a2) BY DEF WriteLoop
<1> HIDE DEF start, Step
<1>2. NoRun = {}
  <2> SUFFICES ASSUME NoRun # {} PROVE FALSE
    OBVIOUS
  <2>1. PICK m \in NoRun : \A k \in NoRun : m <= k
    <3>1. NoRun \in SUBSET Nat OBVIOUS
    <3> HIDE DEF NoRun
    <3> QED BY <3>1, LeastExists
  <2>2. m \in Nat OBVIOUS
  <2>3. m # 0
    <3> DEFINE f == [n \in 0..0 |-> start]
    <3>1. f = [n \in 0..0 |-> IF n = 0 THEN start ELSE Step(f[n - 1], n)] OBVIOUS
    <3>2. Runs(f, 0) BY <3>1
    <3> QED BY <3>2
  <2>4. m - 1 \in Nat /\ m - 1 \notin NoRun
    <3> HIDE DEF NoRun
    <3> QED BY <2>1, <2>2, <2>3
  <2>5. PICK f : Runs(f, m - 1) BY <2>4
  <2> DEFINE g == [n \in 0..m |-> IF n = m THEN Step(f[m - 1], m) ELSE f[n]]
             h == [n \in 0..m |-> IF n = 0 THEN start ELSE Step(g[n - 1], n)]
  <2>6. ASSUME NEW n \in 0..m PROVE g[n] = h[n]
    <3>1. CASE n = 0
      <4>1. g[0] = f[0] /\ h[0] = start BY <2>2, <2>3
      <4>2. f[0] = start BY <2>4, <2>5
      <4> QED BY <3>1, <4>1, <4>2
    <3>2. CASE n = m
      <4>1. m - 1 \in 0..m /\ m - 1 # m BY <2>2, <2>3
      <4>2. g[m - 1] = f[m - 1] BY <4>1
      <4>3. g[m] = Step(f[m - 1], m) /\ h[m] = Step(g[m - 1], m) BY <2>2, <2>3
      <4> QED BY <3>2, <4>2, <4>3
    <3>3. CASE n # 0 /\ n # m
      <4>1. n - 1 \in 0..m /\ n - 1 # m /\ n \in 0..(m - 1) BY <2>2, <3>3
      <4>2. g[n - 1] = f[n - 1] /\ g[n] = f[n] BY <3>3, <4>1
      <4>3. h[n] = Step(f[n - 1], n) BY <3>3, <4>2
      <4>4. f[n] = Step(f[n - 1], n) BY <2>5, <3>3, <4>1
      <4> QED BY <4>2, <4>3, <4>4
    <3> QED BY <3>1, <3>2, <3>3
  <2>7. g = h BY <2>6
  <2>8. Runs(g, m) BY <2>7
  <2> QED BY <2>8
<1>3. Runs(WriteLoop(s), s.a2)
  <2>1. \E f : Runs(f, s.a2) BY <1>2
  <2> HIDE DEF Runs
  <2> QED BY <1>1, <2>1
<1>4. WriteLoop(s)[0] = start BY <1>3
<1>5. \A n \in 1..s.a2 : WriteLoop(s)[n] = Step(WriteLoop(s)[n - 1], n)
  <2> TAKE n \in 1..s.a2
  <2>1. n \in 0..s.a2 /\ n # 0 OBVIOUS
  <2> QED BY <1>3, <2>1
<1> QED BY <1>4, <1>5 DEF start, Step

\* Putting one byte at position p of a sequence.
LEMMA StoredByte ==
  ASSUME NEW q \in Seq(Int), NEW p \in Nat, NEW b \in Int
  PROVE  /\ Stored(q, p, b) \in Seq(Int)
         /\ Len(Stored(q, p, b)) \in {Len(q), p + 1}
         /\ Len(Stored(q, p, b)) >= Len(q) /\ Len(Stored(q, p, b)) >= p + 1
         /\ Stored(q, p, b)[p + 1] = b
         /\ \A i \in 1..Len(q) : i # p + 1 => Stored(q, p, b)[i] = q[i]
<1> DEFINE m == Max({Len(q), p + 1})
           f == [i \in 1..m |-> IF i = p + 1 THEN b ELSE IF i <= Len(q) THEN q[i] ELSE 0]
<1>1. Len(q) \in Nat /\ \A i \in 1..Len(q) : q[i] \in Int BY LenProperties, ElementOfSeq
<1>2. m \in {Len(q), p + 1} /\ m >= Len(q) /\ m >= p + 1
  <2>1. Len(q) \in Int /\ p + 1 \in Int BY <1>1
  <2> QED BY <2>1, MaxOfTwo
<1> HIDE DEF m
<1>3. m \in Nat BY <1>1, <1>2
<1>4. f \in [1..m -> Int]
  <2> SUFFICES ASSUME NEW i \in 1..m
               PROVE  (IF i = p + 1 THEN b ELSE IF i <= Len(q) THEN q[i] ELSE 0) \in Int
    OBVIOUS
  <2>1. i <= Len(q) => q[i] \in Int BY <1>1, <1>3
  <2> QED BY <2>1
<1>5. f \in Seq(Int) /\ Len(f) = m
  <2> HIDE DEF f
  <2> QED BY <1>3, <1>4, FunctionIsSeq
<1>6. p + 1 \in 1..m BY <1>2, <1>3
<1>7. f[p + 1] = b BY <1>6
<1>8. \A i \in 1..Len(q) : i # p + 1 => f[i] = q[i] BY <1>1, <1>2, <1>3
<1>9. Stored(q, p, b) = f BY DEF Stored, m
<1> HIDE DEF f
<1> QED BY <1>2, <1>5, <1>7, <1>8, <1>9

Appends(d) == "APPEND" \in d.flags
\* Where the host writes next.
WritesAt(s, d) == IF Appends(d) THEN Len(s.data[d.file]) ELSE d.pos

\* The outcomes of write(2) of one byte: an error, none because the file system is
\* full, or the byte is in the file and the position behind it.
LEMMA HostWriteEffect ==
  ASSUME NEW s, Typed(s), Sound(s), NEW h \in HostFDs, s.host[h].file \in Files \cup {Tty},
         NEW b \in Int, NEW o, o = HostWrite(s, h, b)
  PROVE  LET d == s.host[h]
             t == o.s
             p == WritesAt(s, d)
         IN  /\ Typed(t) /\ Sound(t) /\ Frame(s, t) /\ t.fdlist = s.fdlist /\ t.cell = s.cell
             /\ o.x \in {-1, 0, 1}
             /\ o.x # 1 \/ d.file = Tty => t.host = s.host /\ t.data = s.data
             /\ o.x = 0 => d.file \in Files /\ MaxFile \in {d.pos, Len(s.data[d.file])}
             /\ o.x = 1 /\ d.file \in Files =>
                  /\ p \in Nat /\ p < MaxFile
                  /\ t.host = [s.host EXCEPT ![h] = [d EXCEPT !.pos = p + 1]]
                  /\ t.data = [s.data EXCEPT ![d.file] = Stored(@, p, b)]
<1> DEFINE d == s.host[h]
           p == WritesAt(s, d)
<1>1. d \in Descs /\ d.pos \in Nat /\ d.pos <= MaxFile BY DEF Typed, Sound, Descs
<1>2. Tty \notin Files /\ MaxFile \in Nat BY SysConstants
<1>3. d.file \in Files => /\ s.data[d.file] \in Seq(Int) /\ Len(s.data[d.file]) \in Nat
                          /\ Len(s.data[d.file]) <= MaxFile
  BY LenProperties DEF Typed, Sound
<1>4. Frame(s, s) BY DEF Frame
<1>5. CASE d.file = Tty
  <2>1. o = Outcome(s, 1) BY <1>5 DEF HostWrite
  <2>2. o.s = s /\ o.x = 1 BY <2>1 DEF Outcome
  <2> QED BY <1>2, <1>4, <1>5, <2>2
<1>6. CASE d.file \in Files /\ d.flags \cap {"WRONLY", "RDWR"} = {}
  <2>1. o = HostError(s, EBADF) BY <1>2, <1>6 DEF HostWrite
  <2>2. /\ Typed(o.s) /\ Frame(s, o.s) /\ SameFiles(s, o.s) /\ o.s.cell = s.cell /\ o.x = -1
    <3>1. o.x = -1 /\ o.s = [s EXCEPT !.errno = EBADF] BY <2>1 DEF HostError, Outcome
    <3>2. EBADF \in Nat BY DEF EBADF
    <3> QED BY <3>1, <3>2 DEF Typed, Frame, SameFiles, Fields
  <2> QED BY <2>2 DEF SameFiles, Sound
<1>7. CASE d.file \in Files /\ d.flags \cap {"WRONLY", "RDWR"} # {} /\ p >= MaxFile
  <2>1. o = Outcome(s, 0) BY <1>2, <1>7 DEF HostWrite, WritesAt, Appends
  <2>2. o.s = s /\ o.x = 0 BY <2>1 DEF Outcome
  <2>3. p \in {d.pos, Len(s.data[d.file])} /\ p = MaxFile
    <3>1. p \in {d.pos, Len(s.data[d.file])} BY DEF WritesAt
    <3> HIDE DEF p, d
    <3> QED BY <1>1, <1>2, <1>3, <1>7, <3>1
  <2> QED BY <1>4, <1>7, <2>2, <2>3
<1>8. CASE d.file \in Files /\ d.flags \cap {"WRONLY", "RDWR"} # {} /\ ~(p >= MaxFile)
  <2>1. o = Outcome([s EXCEPT !.host[h].pos = p + 1, !.data[d.file] = Stored(@, p, b)], 1)
    BY <1>2, <1>8 DEF HostWrite, WritesAt, Appends
  <2>2. p \in Nat /\ p < MaxFile /\ p + 1 <= MaxFile /\ p + 1 \in Nat
    <3>1. p \in {d.pos, Len(s.data[d.file])} BY DEF WritesAt
    <3> HIDE DEF p, d
    <3> QED BY <1>1, <1>2, <1>3, <1>8, <3>1
  <2> DEFINE e == [d EXCEPT !.pos = p + 1]
             q == Stored(s.data[d.file], p, b)
  <2>3. o.x = 1 /\ o.s = [s EXCEPT !.host[h].pos = p + 1, !.data[d.file] = Stored(@, p, b)]
    BY <2>1 DEF Outcome
  <2> HIDE DEF p
  <2>4. /\ DOMAIN o.s = Fields /\ \A x \in Fields \ {"host", "data"} : o.s[x] = s[x]
        /\ o.s.host = [s.host EXCEPT ![h] = e] /\ o.s.data = [s.data EXCEPT ![d.file] = Stored(@, p, b)]
    BY <2>3 DEF Typed, Fields
  <2>5. e \in Descs /\ e.pos = p + 1 /\ e.file = d.file BY <1>1, <2>2 DEF Descs
  <2>6. q \in Seq(Int) /\ Len(q) <= MaxFile
    <3> HIDE DEF d
    <3>1. q \in Seq(Int) /\ Len(q) \in {Len(s.data[d.file]), p + 1} BY <1>3, <1>8, <2>2, StoredByte
    <3> QED BY <1>3, <1>8, <2>2, <3>1
  <2> HIDE DEF e, q
  <2>7. o.s.data = [s.data EXCEPT ![d.file] = q] BY <2>4 DEF q
  <2>8. Typed(o.s) /\ Frame(s, o.s) BY <1>8, <2>4, <2>5, <2>6, <2>7 DEF Typed, Frame, Fields
  <2>9. Sound(o.s)
    <3>1. e.file # NoFile BY <1>8, <2>5, SysConstants
    <3>2. \A k \in HostFDs : o.s.host[k] = IF k = h THEN e ELSE s.host[k] BY <2>4 DEF Typed
    <3>3. \A f \in Files : o.s.data[f] = IF f = d.file THEN q ELSE s.data[f] BY <2>7 DEF Typed
    <3> HIDE DEF d
    <3> QED BY <2>2, <2>5, <2>6, <3>1, <3>2, <3>3 DEF Sound
  <2>10. o.s.fdlist = s.fdlist /\ o.s.cell = s.cell BY <2>4 DEF Fields
  <2> QED BY <1>2, <1>8, <2>2, <2>3, <2>4, <2>8, <2>9, <2>10 DEF e, p
<1> QED BY <1>5, <1>6, <1>7, <1>8

\* The loop invariant of write: after n bytes only the one descriptor and its file
\* have changed, and the n bytes before the position are those of the buffer; if the
\* loop was left early, the call failed or the file system is full.
Writing(s, r, n) ==
  LET t == r.s
      h == HostOf(s, s.a0)
      d == s.host[h]
      e == t.host[h]
      q == t.data[d.file]
  IN  /\ Typed(t) /\ Sound(t) /\ Frame(s, t) /\ t.fdlist = s.fdlist /\ t.cell = s.cell
      /\ \A k \in HostFDs : k # h => t.host[k] = s.host[k]
      /\ e.file = d.file /\ e.flags = d.flags
      /\ \A f \in Files : f # d.file => t.data[f] = s.data[f]
      /\ r.done \in BOOLEAN
      /\ ~r.done /\ n > 0 /\ d.file \in Files =>
           /\ n <= e.pos /\ e.pos <= Len(q)
           /\ Appends(d) => e.pos = Len(q)
           /\ \A i \in 1..n : q[e.pos - n + i] = s.cell[s.a1 + i - 1]
      /\ r.done => ~Ok(t) \/ (d.file \in Files => MaxFile \in {e.pos, Len(q)})

\* One more byte keeps the loop invariant.
LEMMA WritingStep ==
  ASSUME NEW s, Good(s), HostOf(s, s.a0) # -1, s.a1..(s.a1 + s.a2 - 1) \subseteq Cells,
         NEW n \in 1..s.a2, NEW r, Writing(s, r, n - 1), ~r.done
  PROVE  Writing(s, WriteOne(r.s, n - 1), n)
<1> DEFINE t == r.s
           h == HostOf(s, s.a0)
           d == s.host[h]
           e == t.host[h]
           q == t.data[d.file]
           b == s.cell[s.a1 + (n - 1)]
           o == HostWrite(t, h, b)
           w == WriteOne(t, n - 1)
<1> SUFFICES Writing(s, w, n)
  OBVIOUS
<1>1. /\ Typed(t) /\ Sound(t) /\ Frame(s, t) /\ t.fdlist = s.fdlist /\ t.cell = s.cell
      /\ \A k \in HostFDs : k # h => t.host[k] = s.host[k]
      /\ e.file = d.file /\ e.flags = d.flags
      /\ \A f \in Files : f # d.file => t.data[f] = s.data[f]
      /\ n - 1 > 0 /\ d.file \in Files =>
           /\ n - 1 <= e.pos /\ e.pos <= Len(q)
           /\ Appends(d) => e.pos = Len(q)
           /\ \A i \in 1..(n - 1) : q[e.pos - (n - 1) + i] = s.cell[s.a1 + i - 1]
  BY DEF Writing
<1>2. s.a0 \in Int /\ s.a1 \in Int /\ s.a2 \in Int /\ n \in Nat /\ n >= 1 BY DEF Good, Typed
<1>3. h \in HostFDs /\ d.file \in Files \cup {Tty} BY <1>2, InUse
<1>4. b \in Int
  <2>1. s.a1 + (n - 1) \in Cells BY <1>2
  <2> QED BY <2>1 DEF Good, Typed
<1>5. w = AfterByte(o, n - 1)
  <2>1. HostOf(t, t.a0) = h /\ t.cell[t.a1 + (n - 1)] = b BY <1>1 DEF HostOf, Frame
  <2> QED BY <2>1 DEF WriteOne
<1> DEFINE u == o.s
           p == WritesAt(t, e)
<1>6. /\ Typed(u) /\ Sound(u) /\ Frame(t, u) /\ u.fdlist = t.fdlist /\ u.cell = t.cell
      /\ o.x \in {-1, 0, 1}
      /\ o.x # 1 \/ e.file = Tty => u.host = t.host /\ u.data = t.data
      /\ o.x = 0 => e.file \in Files /\ MaxFile \in {e.pos, Len(t.data[e.file])}
      /\ o.x = 1 /\ e.file \in Files =>
           /\ p \in Nat /\ p < MaxFile
           /\ u.host = [t.host EXCEPT ![h] = [e EXCEPT !.pos = p + 1]]
           /\ u.data = [t.data EXCEPT ![e.file] = Stored(@, p, b)]
  <2>1. e.file \in Files \cup {Tty} BY <1>1, <1>3
  <2> HIDE DEF b, h
  <2>2. o = HostWrite(t, h, b) OBVIOUS
  <2>3. Typed(t) /\ Sound(t) BY <1>1
  <2> HIDE DEF o, t
  <2> QED BY <1>3, <1>4, <2>1, <2>2, <2>3, HostWriteEffect
<1> HIDE DEF o
<1>7. CASE o.x # 1
  <2> DEFINE v == w.s
             x == IF o.x = 0 THEN n ELSE -1
  <2>1. w.done = TRUE /\ v = UNIX_RETURN(u, x)
    <3>1. (n - 1) + 1 = n BY <1>2
    <3> QED BY <1>5, <1>7, <3>1 DEF AfterByte
  <2>2. x \in Int /\ (x >= 0 <=> o.x = 0) BY <1>2, <1>6
  <2> HIDE DEF w, x, u, t
  <2>3. Typed(v) /\ SameFiles(u, v) /\ v.cell = u.cell /\ Frame(u, v) /\ (Ok(v) <=> x >= 0)
    BY <1>6, <2>1, <2>2, UnixReturn
  <2>4. /\ v.host = t.host /\ v.data = t.data /\ v.fdlist = s.fdlist /\ v.cell = s.cell /\ Frame(s, v)
    BY <1>1, <1>6, <1>7, <2>3 DEF SameFiles, Frame
  <2>5. Sound(v) BY <1>1, <2>4 DEF Sound
  <2>6. v.host[h] = e /\ v.data[d.file] = q BY <2>4
  <2>7. Ok(v) => MaxFile \in {e.pos, Len(q)} BY <1>1, <1>6, <2>2, <2>3
  <2>8. /\ \A k \in HostFDs : k # h => v.host[k] = s.host[k]
        /\ e.file = d.file /\ e.flags = d.flags
        /\ \A f \in Files : f # d.file => v.data[f] = s.data[f]
    BY <1>1, <2>4
  <2> HIDE DEF e, q
  <2> QED BY <2>1, <2>3, <2>4, <2>5, <2>6, <2>7, <2>8 DEF Writing
<1>8. CASE o.x = 1
  <2>1. w = [done |-> FALSE, s |-> u] BY <1>5, <1>8 DEF AfterByte
  <2>2. Frame(s, u) /\ u.fdlist = s.fdlist /\ u.cell = s.cell BY <1>1, <1>6 DEF Frame
  <2>3. CASE e.file = Tty
    <3>1. u.host = t.host /\ u.data = t.data BY <1>6, <2>3
    <3>2. d.file \notin Files BY <1>1, <2>3, SysConstants
    <3>3. w.done = FALSE /\ w.s = u BY <2>1
    <3> HIDE DEF w, u, t
    <3>4. u.host[h] = e BY <3>1
    <3>5. /\ \A k \in HostFDs : k # h => u.host[k] = s.host[k]
          /\ e.file = d.file /\ e.flags = d.flags
          /\ \A f \in Files : f # d.file => u.data[f] = s.data[f]
      BY <1>1, <3>1
    <3> HIDE DEF e
    <3> QED BY <1>6, <2>2, <3>2, <3>3, <3>4, <3>5 DEF Writing
  <2>4. CASE e.file \in Files
    <3>1. /\ p \in Nat /\ p < MaxFile
          /\ u.host = [t.host EXCEPT ![h] = [e EXCEPT !.pos = p + 1]]
          /\ u.data = [t.data EXCEPT ![d.file] = Stored(q, p, b)]
      BY <1>1, <1>6, <1>8, <2>4
    <3> DEFINE e2 == [e EXCEPT !.pos = p + 1]
               q2 == Stored(q, p, b)
    <3>2. /\ u.host[h] = e2 /\ e2.pos = p + 1 /\ e2.file = d.file /\ e2.flags = d.flags
          /\ \A k \in HostFDs : k # h => u.host[k] = s.host[k]
      <4>1. t.host \in [HostFDs -> Descs] /\ e \in Descs BY <1>1, <1>3 DEF Typed
      <4>2. u.host = [t.host EXCEPT ![h] = e2] BY <3>1
      <4>3. e2.pos = p + 1 /\ e2.file = e.file /\ e2.flags = e.flags BY <4>1 DEF Descs
      <4> HIDE DEF e2, t, u
      <4> QED BY <1>1, <1>3, <4>1, <4>2, <4>3
    <3>3. /\ u.data[d.file] = q2
          /\ \A f \in Files : f # d.file => u.data[f] = s.data[f]
      <4>1. t.data \in [Files -> Seq(Int)] BY <1>1 DEF Typed
      <4>2. u.data = [t.data EXCEPT ![d.file] = q2] BY <3>1
      <4>3. d.file \in Files BY <1>1, <2>4
      <4> HIDE DEF q2, t, u
      <4> QED BY <1>1, <4>1, <4>2, <4>3
    <3>4. q \in Seq(Int) /\ Len(q) \in Nat /\ e.pos \in Nat
      <4>1. q \in Seq(Int) BY <1>1, <2>4 DEF Typed
      <4>2. e.pos \in Nat BY <1>1, <1>3 DEF Typed, Descs
      <4> HIDE DEF q, e
      <4> QED BY <4>1, <4>2, LenProperties
    <3>5. /\ Len(q2) \in {Len(q), p + 1} /\ Len(q2) >= p + 1 /\ Len(q2) >= Len(q)
          /\ q2[p + 1] = b
          /\ \A i \in 1..Len(q) : i # p + 1 => q2[i] = q[i]
      <4>1. p \in Nat BY <3>1
      <4> HIDE DEF q, b, p
      <4> QED BY <1>4, <3>4, <4>1, StoredByte
    <3>6. n - 1 > 0 => p = e.pos BY <1>1, <2>4 DEF WritesAt, Appends
    <3>7. Appends(d) => Len(q2) = p + 1
      <4>1. Appends(d) => p = Len(q) BY <1>1 DEF WritesAt, Appends
      <4> HIDE DEF q, q2, p
      <4> QED BY <3>1, <3>4, <3>5, <4>1
    <3>8. n <= p + 1
      <4> HIDE DEF p, e, q
      <4> QED BY <1>1, <1>2, <2>4, <3>1, <3>4, <3>6
    <3>9. ASSUME NEW i \in 1..n PROVE q2[(p + 1) - n + i] = s.cell[s.a1 + i - 1]
      <4>1. CASE i = n
        <5>1. (p + 1) - n + i = p + 1 /\ s.a1 + i - 1 = s.a1 + (n - 1)
          <6> HIDE DEF p
          <6> QED BY <1>2, <3>1, <4>1
        <5> QED BY <3>5, <5>1
      <4>2. CASE i # n
        <5>1. i \in 1..(n - 1) /\ n - 1 > 0 BY <1>2, <4>2
        <5>2. p = e.pos /\ n - 1 <= e.pos /\ e.pos <= Len(q)
              /\ q[e.pos - (n - 1) + i] = s.cell[s.a1 + i - 1]
          BY <1>1, <2>4, <3>6, <5>1
        <5> HIDE DEF p, e, q, q2
        <5>3. (p + 1) - n + i = e.pos - (n - 1) + i BY <1>2, <3>4, <5>1, <5>2
        <5>4. e.pos - (n - 1) + i \in 1..Len(q) /\ e.pos - (n - 1) + i # p + 1
          <6> DEFINE j == e.pos
                     m == Len(q)
          <6>1. j \in Nat /\ m \in Nat /\ n - 1 <= j /\ j <= m /\ p = j BY <3>4, <5>2
          <6> HIDE DEF j, m
          <6>2. j - (n - 1) + i \in 1..m /\ j - (n - 1) + i # p + 1 BY <1>2, <5>1, <6>1
          <6> QED BY <6>2 DEF j, m
        <5> QED BY <3>5, <5>2, <5>3, <5>4
      <4> QED BY <4>1, <4>2
    <3>10. w.done = FALSE /\ w.s = u BY <2>1
    <3> HIDE DEF w, u, e2, q2, p
    <3> QED BY <1>6, <2>2, <3>2, <3>3, <3>5, <3>7, <3>8, <3>9, <3>10 DEF Writing
  <2> QED BY <1>1, <1>3, <2>3, <2>4
<1> QED BY <1>7, <1>8

\* The loop invariant holds after every byte.
LEMMA WritingHolds ==
  ASSUME NEW s, Good(s), HostOf(s, s.a0) # -1, s.a2 \in Nat, s.a1..(s.a1 + s.a2 - 1) \subseteq Cells
  PROVE  \A n \in 0..s.a2 : Writing(s, WriteLoop(s)[n], n)
<1> DEFINE run == WriteLoop(s)
           Wrong == {n \in 0..s.a2 : ~ Writing(s, run[n], n)}
<1>1. /\ run[0] = [done |-> FALSE, s |-> s]
      /\ \A n \in 1..s.a2 : run[n] = IF run[n - 1].done THEN run[n - 1] ELSE WriteOne(run[n - 1].s, n - 1)
  BY WriteLoopRuns
<1> HIDE DEF run
<1> SUFFICES Wrong = {} BY DEF run
<1> SUFFICES ASSUME Wrong # {} PROVE FALSE
  OBVIOUS
<1>2. PICK m \in Wrong : \A n \in Wrong : m <= n
  <2>1. Wrong \in SUBSET Nat OBVIOUS
  <2> HIDE DEF Wrong
  <2> QED BY <2>1, LeastExists
<1>3. m \in 0..s.a2 /\ ~ Writing(s, run[m], m) OBVIOUS
<1>4. m # 0
  <2> DEFINE r == run[0]
  <2>1. r.s = s /\ r.done = FALSE BY <1>1
  <2>2. Typed(s) /\ Sound(s) /\ Frame(s, s) /\ ~(0 > 0) BY DEF Good, Frame
  <2> HIDE DEF r
  <2>3. Writing(s, r, 0) BY <2>1, <2>2 DEF Writing
  <2> QED BY <1>3, <2>3 DEF r
<1>5. m - 1 \in 0..s.a2 /\ m \in 1..s.a2 /\ m - 1 < m BY <1>3, <1>4
<1>6. Writing(s, run[m - 1], m - 1)
  <2>1. m - 1 \notin Wrong
    <3> HIDE DEF Wrong
    <3> QED BY <1>2, <1>3, <1>5
  <2> QED BY <1>5, <2>1
<1>7. CASE run[m - 1].done
  <2>1. run[m] = run[m - 1] BY <1>1, <1>5, <1>7
  <2>2. Writing(s, run[m - 1], m) BY <1>6, <1>7 DEF Writing
  <2> QED BY <1>3, <2>1, <2>2
<1>8. CASE ~run[m - 1].done
  <2>1. run[m] = WriteOne(run[m - 1].s, m - 1) BY <1>1, <1>5, <1>8
  <2>2. Writing(s, WriteOne(run[m - 1].s, m - 1), m) BY <1>5, <1>6, <1>8, WritingStep
  <2> QED BY <1>3, <2>1, <2>2
<1> QED BY <1>7, <1>8

\* write: the bytes of the buffer go to the file and the position behind them, or
\* the caller is told that they did not, or the file system is full.
LEMMA WriteEffect ==
  ASSUME NEW s, Good(s), Recorded(s), s.a1..(s.a1 + s.a2 - 1) \subseteq Cells, NEW t \in sys_write(s)
  PROVE  Good(t) /\ Frame(s, t) /\ WritePromise(s, t)
<1> DEFINE g == Slot(s.a0)
           h == HostOf(s, s.a0)
           d == s.host[h]
<1>1. /\ s.call.a0 = s.a0 /\ s.call.a1 = s.a1 /\ s.call.a2 = s.a2
      /\ s.a0 \in Int /\ s.a1 \in Int /\ s.a2 \in Int
  BY DEF Recorded, Good, Typed
<1>2. /\ g \in Slots /\ (BadDescriptor(s) <=> h = -1)
      /\ h # -1 => /\ h \in HostFDs /\ d \in Descs /\ d.file \in Files \cup {Tty}
                   /\ Desc(s, g) = d
      /\ h = -1 => Desc(s, g) = Closed
  BY <1>1, InUse DEF BadDescriptor
<1>3. Typed(s) /\ SameFiles(s, s) /\ Frame(s, s) BY DEF Good, SameFiles, Frame
<1>4. Closed.file \notin Files BY SysConstants DEF Closed
<1>5. CASE BadDescriptor(s)
  <2>1. t = UNIX_RETURN(s, -1) BY <1>5 DEF sys_write
  <2>2. Good(t) /\ Frame(s, t) /\ Nothing(s, t) /\ (Ok(t) <=> -1 >= 0) BY <2>1, <1>3, Answer
  <2> QED BY <2>2 DEF WritePromise, Nothing
<1>6. CASE ~BadDescriptor(s) /\ s.a2 <= 0
  <2>1. t = UNIX_RETURN(s, s.a2) BY <1>6 DEF sys_write
  <2>2. Good(t) /\ Frame(s, t) /\ Nothing(s, t) /\ (Ok(t) <=> s.a2 >= 0) BY <1>1, <2>1, <1>3, Answer
  <2>3. t.call = s.call BY <2>2 DEF Frame
  <2>4. ASSUME Ok(t), Desc(t, g).file \in Files
        PROVE  LET e == Desc(t, g)
               IN  SubSeq(t.data[e.file], e.pos - s.a2 + 1, e.pos) = Buffer(s, s.a1, s.a2)
    <3>1. s.a2 = 0 BY <1>1, <1>6, <2>2, <2>4
    <3>2. Buffer(s, s.a1, s.a2) = <<>> BY <3>1 DEF Buffer
    <3>3. Desc(t, g) = d BY <1>2, <1>6, <2>2 DEF Nothing, Moved
    <3>4. d.pos \in Int /\ d.pos - 0 + 1 \in Int /\ d.pos < d.pos - 0 + 1 BY <1>2, <1>6 DEF Descs
    <3>5. SubSeq(t.data[d.file], d.pos - 0 + 1, d.pos) = <<>> BY <3>4, SubSeqEmpty
    <3> QED BY <3>1, <3>2, <3>3, <3>5
  <2> QED BY <1>1, <2>2, <2>3, <2>4 DEF WritePromise, Nothing
<1>7. CASE ~BadDescriptor(s) /\ s.a2 > 0
  <2> DEFINE r == WriteLoop(s)[s.a2]
             v == r.s
             e == v.host[h]
             q == v.data[d.file]
             n == s.a2
  <2>1. t = IF r.done THEN v ELSE UNIX_RETURN(v, n)
    <3>1. ~(s.a2 <= 0) BY <1>1, <1>7
    <3> QED BY <1>7, <3>1 DEF sys_write
  <2>2. n \in Nat /\ n > 0 /\ n \in 0..n BY <1>1, <1>7
  <2>3. Writing(s, r, n)
    <3>1. h # -1 BY <1>2, <1>7
    <3> QED BY <2>2, <3>1, WritingHolds
  <2> HIDE DEF r
  <2>4. /\ Typed(v) /\ Sound(v) /\ Frame(s, v) /\ v.fdlist = s.fdlist /\ v.cell = s.cell
        /\ \A k \in HostFDs : k # h => v.host[k] = s.host[k]
        /\ e.file = d.file
        /\ \A f \in Files : f # d.file => v.data[f] = s.data[f]
        /\ ~r.done /\ d.file \in Files =>
             /\ n <= e.pos /\ e.pos <= Len(q)
             /\ \A i \in 1..n : q[e.pos - n + i] = s.cell[s.a1 + i - 1]
        /\ r.done => ~Ok(v) \/ (d.file \in Files => MaxFile \in {e.pos, Len(q)})
    BY <2>2, <2>3 DEF Writing
  <2>5. h \in HostFDs /\ d.file \in Files \cup {Tty} /\ s.fdlist[g] = h /\ h # -1 BY <1>2, <1>7 DEF HostOf
  <2>6. /\ Typed(t) /\ SameFiles(v, t) /\ t.cell = v.cell /\ Frame(v, t)
        /\ r.done => t = v
    <3>1. CASE r.done BY <2>1, <2>4, <3>1 DEF SameFiles, Frame
    <3>2. CASE ~r.done
      <4>1. t = UNIX_RETURN(v, n) /\ n \in Int BY <2>1, <2>2, <3>2
      <4> HIDE DEF v, n
      <4> QED BY <2>4, <3>2, <4>1, UnixReturn
    <3> QED BY <3>1, <3>2
  <2> HIDE DEF v
  <2>7. e \in Descs /\ e.pos <= MaxFile BY <2>4, <2>5 DEF Typed, Sound
  <2>8. t.host = [s.host EXCEPT ![h] = e]
    <3>1. s.host \in [HostFDs -> Descs] /\ v.host \in [HostFDs -> Descs] BY <2>4 DEF Good, Typed
    <3>2. t.host = v.host BY <2>6 DEF SameFiles
    <3> HIDE DEF h
    <3> QED BY <2>4, <2>5, <3>1, <3>2
  <2>9. t.fdlist = s.fdlist /\ t.data = v.data /\ t.cell = s.cell /\ Frame(s, t)
    BY <2>4, <2>6 DEF SameFiles, Frame
  <2>10. \A f \in Files : Len(t.data[f]) <= MaxFile BY <2>4, <2>9 DEF Sound
  <2> HIDE DEF e
  <2>11. Good(t) /\ Moved(s, t) \subseteq {g} /\ Desc(t, g) = e
    <3>1. g \in Slots BY <1>2
    <3> HIDE DEF g, h
    <3> QED BY <2>4, <2>5, <2>6, <2>7, <2>8, <2>9, <2>10, <3>1, DescriptorMoves
  <2>12. Touched(s, t) = {} /\ t.call = s.call BY <2>9 DEF Touched, Frame
  <2>13. Changed(s, t) \subseteq {e.file} BY <2>4, <2>9 DEF Changed
  <2>14. ASSUME Ok(t), e.file \in Files
         PROVE  \/ MaxFile \in {e.pos, Len(t.data[e.file])}
                \/ SubSeq(t.data[e.file], e.pos - n + 1, e.pos) = Buffer(s, s.a1, n)
    <3>1. CASE r.done BY <2>4, <2>6, <2>9, <2>14, <3>1
    <3>2. CASE ~r.done
      <4>1. q = t.data[e.file] /\ q \in Seq(Int) BY <2>4, <2>9, <2>14 DEF Typed
      <4>2. /\ n <= e.pos /\ e.pos <= Len(q)
            /\ \A i \in 1..n : q[e.pos - n + i] = s.cell[s.a1 + i - 1]
        BY <2>4, <2>14, <3>2
      <4> DEFINE m == e.pos - n
                 z == SubSeq(q, m + 1, m + n)
      <4>3. e.pos \in Nat BY <2>7 DEF Descs
      <4>4. m \in Nat /\ m + n = e.pos
        <5> HIDE DEF n
        <5> QED BY <2>2, <4>2, <4>3
      <4>5. z \in Seq(Int) /\ Len(z) = n /\ \A i \in 1..n : z[i] = q[m + i]
        <5>1. m + n <= Len(q) BY <4>2, <4>4
        <5> HIDE DEF m, n, q
        <5> QED BY <2>2, <4>1, <4>4, <5>1, Stretch
      <4>6. z = [i \in 1..n |-> z[i]]
        <5> HIDE DEF z
        <5> QED BY <4>5, LenProperties
      <4>7. \A i \in 1..n : z[i] = s.cell[s.a1 + i - 1] BY <4>2, <4>5
      <4>8. z = Buffer(s, s.a1, n)
        <5> HIDE DEF z
        <5> QED BY <4>6, <4>7 DEF Buffer
      <4> QED BY <4>1, <4>4, <4>8
    <3> QED BY <3>1, <3>2
  <2> QED BY <1>1, <2>9, <2>11, <2>12, <2>13, <2>14 DEF WritePromise
<1> QED BY <1>1, <1>5, <1>6, <1>7

----------------------------------------------------------------------------
(* Opening and closing.                                                    *)

\* The outcomes of open(2): an error that changes nothing, or the lowest host
\* descriptor that was closed, at the beginning of the file.
LEMMA HostOpenEffect ==
  ASSUME NEW s, Good(s), NEW name, NEW flags \in SUBSET Flags, NEW o \in HostOpen(s, name, flags)
  PROVE  /\ Typed(o.s) /\ Frame(s, o.s) /\ o.s.fdlist = s.fdlist /\ o.s.cell = s.cell
         /\ \/ o.x = -1 /\ SameFiles(s, o.s)
            \/ /\ name \in Files /\ o.x \in HostFDs /\ s.host[o.x] = Closed
               /\ o.s.host = [s.host EXCEPT ![o.x] = [file |-> name, pos |-> 0, flags |-> flags]]
               /\ \A f \in Files : /\ f # name => o.s.data[f] = s.data[f]
                                   /\ Len(o.s.data[f]) <= MaxFile
               /\ "TRUNC" \notin flags => o.s.data = s.data
<1>1. CASE o = HostError(s, ENOENT)
  <2>1. o.x = -1 /\ o.s = [s EXCEPT !.errno = ENOENT] BY <1>1 DEF HostError, Outcome
  <2>2. ENOENT \in Nat BY DEF ENOENT
  <2>3. Typed(o.s) /\ Frame(s, o.s) /\ SameFiles(s, o.s) /\ o.s.cell = s.cell
    BY <2>1, <2>2 DEF Good, Typed, Frame, SameFiles, Fields
  <2> QED BY <2>1, <2>3 DEF SameFiles
<1>2. CASE o # HostError(s, ENOENT)
  <2> DEFINE h == Min(FreeHost(s))
             d == [file |-> name, pos |-> 0, flags |-> flags]
             q == IF "TRUNC" \in flags THEN <<>> ELSE s.data[name]
  <2>1. name \in Files /\ FreeHost(s) # {} BY <1>2 DEF HostOpen
  <2>2. o = Outcome([s EXCEPT !.host[h] = d, !.data[name] = IF "TRUNC" \in flags THEN <<>> ELSE @], h)
    BY <1>2, <2>1 DEF HostOpen
  <2>3. h \in HostFDs /\ s.host[h] = Closed
    <3>0. HostFDs \subseteq Nat BY SysConstants
    <3>1. FreeHost(s) \in SUBSET Nat BY <3>0 DEF FreeHost
    <3>2. h \in FreeHost(s) BY <2>1, <3>1, MinIsLeast
    <3> QED BY <3>2 DEF FreeHost
  <2>4. d \in Descs BY <2>1 DEF Descs
  <2> HIDE DEF h, d
  <2>5. /\ o.x = h /\ DOMAIN o.s = Fields /\ \A x \in Fields \ {"host", "data"} : o.s[x] = s[x]
        /\ o.s.host = [s.host EXCEPT ![h] = d] /\ o.s.data = [s.data EXCEPT ![name] = q]
    BY <2>2 DEF Outcome, Good, Typed, Fields
  <2>6. q \in Seq(Int) /\ Len(q) <= MaxFile
    <3>1. <<>> \in Seq(Int) /\ Len(<<>>) = 0 /\ MaxFile \in Nat BY EmptySeq, SysConstants
    <3>2. s.data[name] \in Seq(Int) /\ Len(s.data[name]) <= MaxFile BY <2>1 DEF Good, Typed, Sound
    <3> QED BY <3>1, <3>2
  <2>10. "TRUNC" \notin flags => o.s.data = s.data BY <2>1, <2>5 DEF Good, Typed
  <2> HIDE DEF q
  <2>7. Typed(o.s) /\ Frame(s, o.s) BY <2>1, <2>4, <2>5, <2>6 DEF Good, Typed, Frame, Fields
  <2>8. o.s.fdlist = s.fdlist /\ o.s.cell = s.cell BY <2>5 DEF Fields
  <2>9. \A f \in Files : /\ f # name => o.s.data[f] = s.data[f]
                         /\ Len(o.s.data[f]) <= MaxFile
    BY <2>1, <2>5, <2>6 DEF Good, Typed, Sound
  <2> QED BY <2>1, <2>3, <2>5, <2>7, <2>8, <2>9, <2>10 DEF d
<1> QED BY <1>1, <1>2

\* open and creat take the first free slot for what the host answers.
LEMMA SlotFilled ==
  ASSUME NEW s, Good(s), FreeSlots(s) # {}, NEW flags \in SUBSET Flags,
         NEW o \in HostOpen(s, s.a0, flags), NEW i, i = Min(FreeSlots(s)), NEW x \in {i, -1},
         NEW t, t = UNIX_RETURN([o.s EXCEPT !.fdlist[i] = o.x], x)
  PROVE  /\ Good(t) /\ Frame(s, t) /\ i \in Slots /\ i >= 0
         /\ (Ok(t) <=> x >= 0) /\ (x >= 0 => t.v0 = x)
         /\ o.x < 0 => Nothing(s, t)
         /\ ~(o.x < 0) => /\ Moved(s, t) = {i} /\ Desc(s, i) = Closed
                        /\ Desc(t, i).file = s.a0 /\ Desc(t, i).pos = 0
                        /\ Changed(s, t) \subseteq {s.a0} /\ Touched(s, t) = {}
<1> DEFINE u == [o.s EXCEPT !.fdlist[i] = o.x]
<1>1. i \in Slots /\ s.fdlist[i] = -1 /\ i \in Int /\ i >= 0
  <2>1. FreeSlots(s) \subseteq Slots BY DEF FreeSlots, Good, Typed
  <2>2. Slots \subseteq Nat BY SysConstants DEF Slots
  <2>3. FreeSlots(s) \in SUBSET Nat BY <2>1, <2>2
  <2>4. i \in FreeSlots(s) BY <2>3, MinIsLeast
  <2>5. s.fdlist[i] = -1 BY <2>4 DEF FreeSlots
  <2>6. i \in Nat BY <2>3, <2>4
  <2> QED BY <2>1, <2>4, <2>5, <2>6
<1>2. /\ Typed(o.s) /\ Frame(s, o.s) /\ o.s.fdlist = s.fdlist /\ o.s.cell = s.cell
      /\ \/ o.x = -1 /\ SameFiles(s, o.s)
         \/ /\ s.a0 \in Files /\ o.x \in HostFDs /\ s.host[o.x] = Closed
            /\ o.s.host = [s.host EXCEPT ![o.x] = [file |-> s.a0, pos |-> 0, flags |-> flags]]
            /\ \A f \in Files : /\ f # s.a0 => o.s.data[f] = s.data[f]
                                /\ Len(o.s.data[f]) <= MaxFile
  BY HostOpenEffect
<1>3. o.x \in HostFDs \cup {-1} BY <1>2
<1>4. /\ DOMAIN u = Fields /\ \A y \in Fields \ {"fdlist"} : u[y] = o.s[y]
      /\ u.fdlist = [s.fdlist EXCEPT ![i] = o.x]
  BY <1>2 DEF Typed, Fields
<1> HIDE DEF u
<1>5. Typed(u) /\ Frame(o.s, u)
  <2>1. u.fdlist \in [Slots -> HostFDs \cup {-1}] BY <1>1, <1>3, <1>4 DEF Good, Typed
  <2> QED BY <1>2, <1>4, <2>1 DEF Typed, Frame, Fields
<1>6. /\ Typed(t) /\ SameFiles(u, t) /\ t.cell = u.cell /\ Frame(u, t)
      /\ (Ok(t) <=> x >= 0) /\ (x >= 0 => t.v0 = x)
  <2>1. x \in Int /\ t = UNIX_RETURN(u, x) BY <1>1 DEF u
  <2> QED BY <1>5, <2>1, UnixReturn
<1>7. /\ t.fdlist = [s.fdlist EXCEPT ![i] = o.x] /\ t.host = o.s.host /\ t.data = o.s.data
      /\ t.cell = s.cell /\ Frame(s, t)
  BY <1>2, <1>4, <1>5, <1>6 DEF SameFiles, Frame, Fields
<1>8. CASE o.x = -1 /\ SameFiles(s, o.s)
  <2>1. t.fdlist = s.fdlist BY <1>1, <1>7, <1>8 DEF Good, Typed
  <2>2. SameFiles(s, t) BY <1>7, <1>8, <2>1 DEF SameFiles
  <2>3. Sound(t) /\ Linked(t) /\ Moved(s, t) = {} /\ Changed(s, t) = {} BY <2>2, SameFilesGood DEF Good
  <2>4. Touched(s, t) = {} BY <1>7 DEF Touched
  <2>5. o.x < 0 BY <1>8
  <2> QED BY <1>1, <1>6, <1>7, <2>3, <2>4, <2>5 DEF Good, Nothing
<1>9. CASE /\ s.a0 \in Files /\ o.x \in HostFDs /\ s.host[o.x] = Closed
           /\ o.s.host = [s.host EXCEPT ![o.x] = [file |-> s.a0, pos |-> 0, flags |-> flags]]
           /\ \A f \in Files : /\ f # s.a0 => o.s.data[f] = s.data[f]
                               /\ Len(o.s.data[f]) <= MaxFile
  <2> DEFINE d == [file |-> s.a0, pos |-> 0, flags |-> flags]
  <2>1. d \in Descs /\ d.file # NoFile /\ d.pos <= MaxFile /\ d.file = s.a0 /\ d.pos = 0
    BY <1>9, SysConstants DEF Descs
  <2>2. ~(o.x < 0)
    <3>1. o.x \in Nat BY <1>9, SysConstants
    <3> QED BY <3>1
  <2>3. t.host = [s.host EXCEPT ![o.x] = d] BY <1>7, <1>9
  <2> HIDE DEF d
  <2>4. \A f \in Files : Len(t.data[f]) <= MaxFile BY <1>7, <1>9
  <2>5. Good(t) /\ Moved(s, t) = {i} /\ Desc(s, i) = Closed /\ Desc(t, i) = d
    BY <1>1, <1>6, <1>7, <1>9, <2>1, <2>3, <2>4, DescriptorOpens
  <2>6. Changed(s, t) \subseteq {s.a0} BY <1>7, <1>9 DEF Changed
  <2>7. Touched(s, t) = {} BY <1>7 DEF Touched
  <2> QED BY <1>1, <1>6, <1>7, <2>1, <2>2, <2>5, <2>6, <2>7
<1> QED BY <1>2, <1>8, <1>9

\* open gives a free descriptor at the beginning of the file, or changes nothing.
LEMMA OpenEffect ==
  ASSUME NEW s, Good(s), Recorded(s), NEW t \in sys_open(s)
  PROVE  Good(t) /\ Frame(s, t) /\ OpenPromise(s, t)
<1>1. Typed(s) /\ SameFiles(s, s) /\ Frame(s, s) BY DEF Good, SameFiles, Frame
<1>2. CASE FreeSlots(s) = {}
  <2>1. t = UNIX_RETURN(s, -1) BY <1>2 DEF sys_open
  <2>2. Good(t) /\ Frame(s, t) /\ Nothing(s, t) /\ (Ok(t) <=> -1 >= 0) BY <1>1, <2>1, Answer
  <2> QED BY <2>2 DEF OpenPromise
<1>3. CASE FreeSlots(s) # {}
  <2> DEFINE i == Min(FreeSlots(s))
             flags == mode_remap(s.a1)
  <2>1. PICK o \in HostOpen(s, s.a0, flags) :
          t = UNIX_RETURN([o.s EXCEPT !.fdlist[i] = o.x], IF o.x < 0 THEN -1 ELSE i)
    BY <1>3 DEF sys_open
  <2> DEFINE x == IF o.x < 0 THEN -1 ELSE i
  <2>2. flags \in SUBSET Flags BY DEF mode_remap, Flags
  <2>3. x \in {i, -1} /\ t = UNIX_RETURN([o.s EXCEPT !.fdlist[i] = o.x], x) BY <2>1
  <2>4. /\ Good(t) /\ Frame(s, t) /\ i \in Slots /\ i >= 0
        /\ (Ok(t) <=> x >= 0) /\ (x >= 0 => t.v0 = x)
        /\ o.x < 0 => Nothing(s, t)
        /\ ~(o.x < 0) => /\ Moved(s, t) = {i} /\ Desc(s, i) = Closed
                       /\ Desc(t, i).file = s.a0 /\ Desc(t, i).pos = 0
                       /\ Changed(s, t) \subseteq {s.a0} /\ Touched(s, t) = {}
    <3> HIDE DEF x, flags
    <3> QED BY <1>3, <2>2, <2>3, SlotFilled
  <2>5. t.call.a0 = s.a0 BY <2>4 DEF Frame, Recorded
  <2>6. CASE o.x < 0 BY <2>4, <2>6 DEF OpenPromise
  <2>7. CASE ~(o.x < 0) BY <2>4, <2>5, <2>7 DEF OpenPromise, Opened
  <2> QED BY <2>6, <2>7
<1> QED BY <1>2, <1>3

\* creat gives a free descriptor on an empty file, or the host refuses and nothing
\* has changed, whatever the guest is told.
LEMMA CreatEffect ==
  ASSUME NEW s, Good(s), Recorded(s), NEW t \in sys_creat(s)
  PROVE  Good(t) /\ Frame(s, t) /\ CreatPromise(s, t)
<1>1. Typed(s) /\ SameFiles(s, s) /\ Frame(s, s) BY DEF Good, SameFiles, Frame
<1>2. CASE FreeSlots(s) = {}
  <2>1. t = UNIX_RETURN(s, -1) BY <1>2 DEF sys_creat
  <2>2. Good(t) /\ Frame(s, t) /\ Nothing(s, t) BY <1>1, <2>1, Answer
  <2> QED BY <2>2 DEF CreatPromise
<1>3. CASE FreeSlots(s) # {}
  <2> DEFINE i == Min(FreeSlots(s))
             flags == {"WRONLY", "CREAT", "TRUNC"}
  <2>1. PICK o \in HostOpen(s, s.a0, flags) : t = UNIX_RETURN([o.s EXCEPT !.fdlist[i] = o.x], i)
    BY <1>3 DEF sys_creat
  <2>2. flags \in SUBSET Flags BY DEF SIM_O, Flags
  <2> HIDE DEF flags
  <2>3. /\ Good(t) /\ Frame(s, t) /\ i \in Slots /\ i >= 0
        /\ (Ok(t) <=> i >= 0) /\ (i >= 0 => t.v0 = i)
        /\ o.x < 0 => Nothing(s, t)
        /\ ~(o.x < 0) => /\ Moved(s, t) = {i} /\ Desc(s, i) = Closed
                       /\ Desc(t, i).file = s.a0 /\ Desc(t, i).pos = 0
                       /\ Changed(s, t) \subseteq {s.a0} /\ Touched(s, t) = {}
    <3>1. i \in {i, -1} OBVIOUS
    <3> HIDE DEF i
    <3> QED BY <1>3, <2>1, <2>2, <3>1, SlotFilled DEF i
  <2>4. t.call.a0 = s.a0 BY <2>3 DEF Frame, Recorded
  <2>5. o.x < 0 \/ ~(o.x < 0) OBVIOUS
  <2> QED BY <2>3, <2>4, <2>5 DEF CreatPromise, Opened
<1> QED BY <1>2, <1>3

\* close frees the descriptor and the host's; of one not in use it says so.
LEMMA CloseEffect ==
  ASSUME NEW s, Good(s), Recorded(s), NEW t \in sys_close(s)
  PROVE  Good(t) /\ Frame(s, t) /\ ClosePromise(s, t)
<1> DEFINE g == Slot(s.a0)
           h == HostOf(s, s.a0)
           u == [s EXCEPT !.fdlist[g] = -1]
           o == HostClose(u, h)
<1>1. /\ s.call.a0 = s.a0 /\ s.a0 \in Int BY DEF Recorded, Good, Typed
<1>2. /\ g \in Slots /\ h = s.fdlist[g]
      /\ h # -1 => h \in HostFDs /\ IsOpen(s, h) /\ Desc(s, g) # Closed
      /\ h = -1 => Desc(s, g) = Closed
  BY <1>1, InUse DEF HostOf
<1>3. t = UNIX_RETURN(o.s, o.x) BY DEF sys_close
<1>4. /\ DOMAIN u = Fields /\ \A y \in Fields \ {"fdlist"} : u[y] = s[y]
      /\ u.fdlist = [s.fdlist EXCEPT ![g] = -1]
  BY DEF Good, Typed, Fields
<1>5. u.host = s.host BY <1>4 DEF Fields
<1>6. IsOpen(u, h) <=> IsOpen(s, h) BY <1>5 DEF IsOpen
<1>7. u.fdlist \in [Slots -> HostFDs \cup {-1}] BY <1>2, <1>4 DEF Good, Typed
<1>8. Typed(u) /\ Frame(s, u) BY <1>4, <1>7 DEF Good, Typed, Frame, Fields
<1>9. CASE h # -1
  <2>1. o.x = 0 /\ o.s = [u EXCEPT !.host[h] = Closed] BY <1>2, <1>6, <1>9 DEF HostClose, Outcome
  <2>2. Closed \in Descs BY DEF Closed, Descs
  <2>3. /\ DOMAIN o.s = Fields /\ \A y \in Fields \ {"host"} : o.s[y] = u[y]
        /\ o.s.host = [s.host EXCEPT ![h] = Closed]
    BY <1>4, <1>5, <2>1 DEF Fields
  <2> HIDE DEF o, u
  <2>4. o.s.host \in [HostFDs -> Descs] BY <1>2, <1>9, <2>2, <2>3 DEF Good, Typed
  <2>5. Typed(o.s) /\ Frame(s, o.s) BY <1>8, <2>3, <2>4 DEF Typed, Frame, Fields
  <2>6. /\ Typed(t) /\ SameFiles(o.s, t) /\ t.cell = o.s.cell /\ Frame(o.s, t) /\ Ok(t)
    <3>1. o.x \in Int /\ o.x >= 0 BY <2>1
    <3> QED BY <1>3, <2>5, <3>1, UnixReturn
  <2>7. /\ t.fdlist = [s.fdlist EXCEPT ![g] = -1] /\ t.host = [s.host EXCEPT ![s.fdlist[g]] = Closed]
        /\ t.data = s.data /\ Frame(s, t)
    BY <1>2, <1>4, <2>3, <2>5, <2>6 DEF SameFiles, Frame, Fields
  <2>8. Good(t) /\ Moved(s, t) = {g} /\ Desc(s, g) # Closed /\ Desc(t, g) = Closed
    <3>1. s.fdlist[g] # -1 BY <1>2, <1>9
    <3> HIDE DEF g
    <3> QED BY <1>2, <2>6, <2>7, <3>1, DescriptorCloses
  <2>9. Changed(s, t) = {} BY <2>7 DEF Changed
  <2>10. t.call.a0 = s.a0 BY <1>1, <2>7 DEF Frame
  <2> QED BY <2>6, <2>7, <2>8, <2>9, <2>10 DEF ClosePromise
<1>10. CASE h = -1
  <2>1. ~ IsOpen(u, h)
    <3>1. HostFDs \subseteq Nat BY SysConstants
    <3>2. h \notin HostFDs
      <4> HIDE DEF h
      <4> QED BY <1>10, <3>1
    <3> QED BY <3>2 DEF IsOpen
  <2>2. o.x = -1 /\ o.s = [u EXCEPT !.errno = EBADF] BY <2>1 DEF HostClose, HostError, Outcome
  <2>3. u.fdlist = s.fdlist BY <1>2, <1>4, <1>10 DEF Good, Typed
  <2>4. EBADF \in Nat BY DEF EBADF
  <2> HIDE DEF o
  <2>5. Typed(o.s) /\ Frame(s, o.s) /\ SameFiles(s, o.s) /\ o.s.cell = s.cell
    <3>1. u.data = s.data /\ u.cell = s.cell BY <1>4 DEF Fields
    <3> HIDE DEF u
    <3> QED BY <1>5, <1>8, <2>2, <2>3, <2>4, <3>1 DEF Typed, Frame, SameFiles, Fields
  <2>6. Good(t) /\ Frame(s, t) /\ Nothing(s, t) /\ (Ok(t) <=> -1 >= 0)
    <3>1. t = UNIX_RETURN(o.s, -1) BY <1>3, <2>2
    <3> QED BY <2>5, <3>1, Answer
  <2>7. Desc(t, g) = Closed BY <1>2, <1>10, <2>6 DEF Nothing, Moved
  <2>8. t.call.a0 = s.a0 BY <1>1, <2>6 DEF Frame
  <2> QED BY <1>2, <1>10, <2>6, <2>7, <2>8 DEF ClosePromise, Nothing
<1> QED BY <1>9, <1>10

----------------------------------------------------------------------------
(* Seeking and asking.                                                     *)

\* lseek moves the one descriptor and changes no file and no memory.
LEMMA SeekEffect ==
  ASSUME NEW s, Good(s), NEW t \in sys_lseek(s)
  PROVE  /\ Good(t) /\ Frame(s, t) /\ Moved(s, t) \subseteq {Slot(s.a0)}
         /\ Changed(s, t) = {} /\ Touched(s, t) = {}
<1> DEFINE g == Slot(s.a0)
           h == HostOf(s, s.a0)
           d == s.host[h]
           o == HostSeek(s, h, s.a1, s.a2)
<1>1. s.a0 \in Int BY DEF Good, Typed
<1>2. /\ g \in Slots /\ h = s.fdlist[g] /\ (BadDescriptor(s) <=> h = -1)
      /\ h # -1 => h \in HostFDs /\ d \in Descs
  BY <1>1, InUse DEF BadDescriptor, HostOf
<1>3. Typed(s) /\ SameFiles(s, s) /\ Frame(s, s) BY DEF Good, SameFiles, Frame
<1>4. CASE BadDescriptor(s)
  <2>1. t = UNIX_RETURN(s, -1) BY <1>4 DEF sys_lseek
  <2>2. Good(t) /\ Frame(s, t) /\ Nothing(s, t) BY <1>3, <2>1, Answer
  <2> QED BY <2>2 DEF Nothing
<1>5. CASE ~BadDescriptor(s)
  <2> DEFINE p == s.a1 + CASE s.a2 = 0 -> 0 [] s.a2 = 1 -> d.pos [] OTHER -> Len(s.data[d.file])
  <2>1. t = UNIX_RETURN(o.s, o.x) BY <1>5 DEF sys_lseek
  <2>2. CASE d.file = Tty \/ p \notin 0..MaxFile
    <3>1. o = HostError(s, EBADF) BY <2>2 DEF HostSeek
    <3>2. o.x = -1 /\ o.s = [s EXCEPT !.errno = EBADF] BY <3>1 DEF HostError, Outcome
    <3>3. EBADF \in Nat BY DEF EBADF
    <3> HIDE DEF o
    <3>4. Typed(o.s) /\ Frame(s, o.s) /\ SameFiles(s, o.s) /\ o.s.cell = s.cell
      BY <1>3, <3>2, <3>3 DEF Typed, Frame, SameFiles, Fields
    <3>5. t = UNIX_RETURN(o.s, -1) BY <2>1, <3>2
    <3>6. Good(t) /\ Frame(s, t) /\ Nothing(s, t) BY <3>4, <3>5, Answer
    <3> QED BY <3>6 DEF Nothing
  <2>3. CASE ~(d.file = Tty \/ p \notin 0..MaxFile)
    <3>1. o = Outcome([s EXCEPT !.host[h].pos = p], p) BY <2>3 DEF HostSeek
    <3>2. p \in 0..MaxFile BY <2>3
    <3> HIDE DEF p
    <3> DEFINE e == [d EXCEPT !.pos = p]
    <3>3. p \in Nat /\ p <= MaxFile BY <3>2
    <3>4. e \in Descs /\ e.pos <= MaxFile /\ e.file = d.file BY <1>2, <1>5, <3>3 DEF Descs
    <3>5. o.x = p /\ o.s = [s EXCEPT !.host[h].pos = p] BY <3>1 DEF Outcome
    <3>6. /\ DOMAIN o.s = Fields /\ \A y \in Fields \ {"host"} : o.s[y] = s[y]
          /\ o.s.host = [s.host EXCEPT ![h] = e]
      BY <1>3, <3>5 DEF Typed, Fields
    <3> HIDE DEF o, e
    <3>7. o.s.host \in [HostFDs -> Descs] BY <1>2, <1>3, <3>4, <3>6 DEF Typed
    <3>8. Typed(o.s) /\ Frame(s, o.s) BY <1>3, <3>6, <3>7 DEF Typed, Frame, Fields
    <3>9. /\ Typed(t) /\ SameFiles(o.s, t) /\ t.cell = o.s.cell /\ Frame(o.s, t)
      <4>1. o.x \in Int BY <3>3, <3>5
      <4> QED BY <2>1, <3>8, <4>1, UnixReturn
    <3>10. /\ t.fdlist = s.fdlist /\ t.data = s.data /\ t.cell = s.cell /\ Frame(s, t)
           /\ t.host = [s.host EXCEPT ![s.fdlist[g]] = e]
      BY <1>2, <3>6, <3>8, <3>9 DEF SameFiles, Frame, Fields
    <3>11. \A f \in Files : Len(t.data[f]) <= MaxFile BY <3>10 DEF Good, Sound
    <3>12. Good(t) /\ Moved(s, t) \subseteq {g}
      <4>1. s.fdlist[g] # -1 /\ g \in Slots /\ e.file = s.host[s.fdlist[g]].file BY <1>2, <1>5, <3>4
      <4> HIDE DEF g
      <4> QED BY <3>4, <3>9, <3>10, <3>11, <4>1, DescriptorMoves
    <3>13. Changed(s, t) = {} /\ Touched(s, t) = {} BY <3>10 DEF Changed, Touched
    <3> QED BY <3>10, <3>12, <3>13
  <2> QED BY <2>2, <2>3
<1> QED BY <1>4, <1>5

\* One cell of memory is written, if there is such a cell.
LEMMA CellWritten ==
  ASSUME NEW s, Typed(s), NEW a, NEW v \in Int, NEW t, t = WriteCell(s, a, v)
  PROVE  /\ Typed(t) /\ SameFiles(s, t) /\ Frame(s, t) /\ t.errno = s.errno
         /\ Touched(s, t) \subseteq {a}
         /\ a \in Cells => t.cell[a] = v
<1>1. CASE a \notin Cells
  <2>1. t = s BY <1>1 DEF WriteCell
  <2> QED BY <1>1, <2>1 DEF SameFiles, Frame, Touched
<1>2. CASE a \in Cells
  <2>1. t = [s EXCEPT !.cell[a] = v] BY <1>2 DEF WriteCell
  <2>2. /\ DOMAIN t = Fields /\ \A x \in Fields \ {"cell"} : t[x] = s[x]
        /\ t.cell = [s.cell EXCEPT ![a] = v]
    BY <2>1 DEF Typed, Fields
  <2>3. t.cell \in [Cells -> Int] /\ t.cell[a] = v /\ \A c \in Cells : c # a => t.cell[c] = s.cell[c]
    BY <1>2, <2>2 DEF Typed
  <2>4. Typed(t) /\ SameFiles(s, t) /\ Frame(s, t) /\ t.errno = s.errno
    BY <2>2, <2>3 DEF Typed, SameFiles, Frame, Fields
  <2> QED BY <2>3, <2>4 DEF Touched
<1> QED BY <1>1, <1>2

\* The outcomes of fstat on a host descriptor: an error, or the size of its file.
LEMMA StatEffect ==
  ASSUME NEW s, Typed(s), Sound(s), NEW h, NEW a, NEW o \in _emulate_fxstat(s, h, a)
  PROVE  /\ Typed(o.s) /\ SameFiles(s, o.s) /\ Frame(s, o.s) /\ Touched(s, o.s) \subseteq {a}
         /\ o.x \in {0, -1}
         /\ o.x = 0 => IsOpen(s, h)
         /\ o.x = 0 /\ a \in Cells /\ s.host[h].file \in Files =>
              o.s.cell[a] = Len(s.data[s.host[h].file])
<1>1. CASE ~IsOpen(s, h)
  <2> DEFINE u == [s EXCEPT !.errno = EBADF]
  <2>1. PICK garbage \in {0, 1} : o = Outcome(WriteCell(u, a, garbage), -1)
    BY <1>1 DEF _emulate_fxstat
  <2>2. EBADF \in Nat BY DEF EBADF
  <2>3. Typed(u) /\ SameFiles(s, u) /\ Frame(s, u) /\ u.cell = s.cell
    BY <2>2 DEF Typed, SameFiles, Frame, Fields
  <2> HIDE DEF u
  <2>4. o.x = -1 /\ o.s = WriteCell(u, a, garbage) BY <2>1 DEF Outcome
  <2>5. Typed(o.s) /\ SameFiles(u, o.s) /\ Frame(u, o.s) /\ Touched(u, o.s) \subseteq {a}
    <3>1. garbage \in Int OBVIOUS
    <3> QED BY <2>3, <2>4, <3>1, CellWritten
  <2> QED BY <2>3, <2>4, <2>5 DEF SameFiles, Frame, Touched
<1>2. CASE IsOpen(s, h)
  <2> DEFINE n == IF s.host[h].file = Tty THEN 0 ELSE Len(s.data[s.host[h].file])
  <2>1. o.x = 0 /\ o.s = WriteCell(s, a, n) BY <1>2 DEF _emulate_fxstat, Outcome
  <2>2. s.host[h].file \in Files \cup {Tty} BY <1>2 DEF IsOpen, Typed, Sound, Descs
  <2>3. n \in Int
    <3>1. CASE s.host[h].file = Tty BY <3>1
    <3>2. CASE s.host[h].file # Tty
      <4>1. s.data[s.host[h].file] \in Seq(Int) BY <2>2, <3>2 DEF Typed
      <4>2. Len(s.data[s.host[h].file]) \in Nat BY <4>1, LenProperties
      <4> QED BY <3>2, <4>2
    <3> QED BY <3>1, <3>2
  <2>4. s.host[h].file \in Files => n = Len(s.data[s.host[h].file])
    <3>1. Tty \notin Files BY SysConstants
    <3> QED BY <3>1
  <2> HIDE DEF n
  <2>5. /\ Typed(o.s) /\ SameFiles(s, o.s) /\ Frame(s, o.s) /\ Touched(s, o.s) \subseteq {a}
        /\ a \in Cells => o.s.cell[a] = n
    BY <2>1, <2>3, CellWritten
  <2> QED BY <1>2, <2>1, <2>4, <2>5
<1> QED BY <1>1, <1>2

\* A call that answers and may have written memory has moved no descriptor.
LEMMA AnswerInMemory ==
  ASSUME NEW s, Good(s), NEW u, Typed(u), SameFiles(s, u), Frame(s, u),
         NEW x \in Int, NEW t, t = UNIX_RETURN(u, x)
  PROVE  /\ Good(t) /\ Frame(s, t) /\ Moved(s, t) = {} /\ Changed(s, t) = {}
         /\ t.cell = u.cell /\ (Ok(t) <=> x >= 0)
<1>1. Typed(t) /\ SameFiles(u, t) /\ t.cell = u.cell /\ Frame(u, t) /\ (Ok(t) <=> x >= 0)
  BY UnixReturn
<1>2. SameFiles(s, t) /\ Frame(s, t) BY <1>1 DEF SameFiles, Frame
<1>3. Sound(t) /\ Linked(t) /\ Moved(s, t) = {} /\ Changed(s, t) = {} BY <1>2, SameFilesGood DEF Good
<1> QED BY <1>1, <1>2, <1>3 DEF Good

\* fxstat tells the size of the file of the descriptor and touches nothing else.
LEMMA FxstatEffect ==
  ASSUME NEW s, Good(s), Recorded(s), s.a2 \in Cells, NEW t \in sys_fxstat(s)
  PROVE  Good(t) /\ Frame(s, t) /\ StatPromise(s, t, Desc(s, Slot(s.a1)))
<1> DEFINE h == HostOf(s, s.a1)
           d == Desc(s, Slot(s.a1))
<1>1. PICK o \in _emulate_fxstat(s, h, s.a2) : t = UNIX_RETURN(o.s, o.x) BY DEF sys_fxstat
<1>2. s.a1 \in Int /\ s.call.a2 = s.a2 BY DEF Good, Typed, Recorded
<1>3. /\ Typed(o.s) /\ SameFiles(s, o.s) /\ Frame(s, o.s) /\ Touched(s, o.s) \subseteq {s.a2}
      /\ o.x \in {0, -1}
      /\ o.x = 0 => IsOpen(s, h)
      /\ o.x = 0 /\ s.host[h].file \in Files => o.s.cell[s.a2] = Len(s.data[s.host[h].file])
  <2>1. Typed(s) /\ Sound(s) BY DEF Good
  <2> HIDE DEF h
  <2>2. Typed(o.s) /\ SameFiles(s, o.s) /\ Frame(s, o.s) BY <2>1, StatEffect
  <2>3. Touched(s, o.s) \subseteq {s.a2} BY <2>1, StatEffect
  <2>4. o.x \in {0, -1} BY <2>1, StatEffect
  <2>5. o.x = 0 => IsOpen(s, h) BY <2>1, StatEffect
  <2>6. o.x = 0 /\ s.host[h].file \in Files => o.s.cell[s.a2] = Len(s.data[s.host[h].file])
    BY <2>1, StatEffect
  <2> QED BY <2>2, <2>3, <2>4, <2>5, <2>6
<1>4. /\ Good(t) /\ Frame(s, t) /\ Moved(s, t) = {} /\ Changed(s, t) = {}
      /\ t.cell = o.s.cell /\ (Ok(t) <=> o.x >= 0)
  <2>1. o.x \in Int BY <1>3
  <2> QED BY <1>1, <1>3, <2>1, AnswerInMemory
<1>5. Touched(s, t) \subseteq {s.a2} BY <1>3, <1>4 DEF Touched
<1>6. t.call.a2 = s.a2 BY <1>2, <1>4 DEF Frame
<1>7. ASSUME Ok(t), d.file \in Files PROVE t.cell[s.a2] = Len(s.data[d.file])
  <2>1. o.x = 0 BY <1>3, <1>4, <1>7
  <2>2. h # -1
    <3>1. h \in HostFDs BY <1>3, <2>1 DEF IsOpen
    <3>2. HostFDs \subseteq Nat BY SysConstants
    <3> HIDE DEF h
    <3> QED BY <3>1, <3>2
  <2>3. d = s.host[h] BY <1>2, <2>2, InUse
  <2> QED BY <1>3, <1>4, <1>7, <2>1, <2>3
<1> QED BY <1>4, <1>5, <1>6, <1>7 DEF StatPromise

\* Neither the table nor memory is the host's to change.
SameView(s, t) == t.fdlist = s.fdlist /\ t.cell = s.cell
LEMMA HostOpenView == ASSUME NEW s, Typed(s), NEW name, NEW flags, NEW o \in HostOpen(s, name, flags)
                      PROVE  SameView(s, o.s)
<1>1. CASE o = HostError(s, ENOENT) BY <1>1 DEF HostError, Outcome, Typed, Fields, SameView
<1>2. CASE o # HostError(s, ENOENT)
  <2> DEFINE h == Min(FreeHost(s))
             d == [file |-> name, pos |-> 0, flags |-> flags]
  <2>1. o = Outcome([s EXCEPT !.host[h] = d, !.data[name] = IF "TRUNC" \in flags THEN <<>> ELSE @], h)
    BY <1>2 DEF HostOpen
  <2> HIDE DEF h, d
  <2> QED BY <2>1 DEF Outcome, Typed, Fields, SameView
<1> QED BY <1>1, <1>2

\* xstat opens the file, asks for its size and closes it again.
LEMMA XstatEffect ==
  ASSUME NEW s, Good(s), Recorded(s), s.a2 \in Cells, NEW t \in sys_xstat(s)
  PROVE  Good(t) /\ Frame(s, t) /\ StatPromise(s, t, [Closed EXCEPT !.file = s.a1])
<1> DEFINE d == [Closed EXCEPT !.file = s.a1]
<1> SUFFICES Good(t) /\ Frame(s, t) /\ StatPromise(s, t, d)
  OBVIOUS
<1>1. PICK f \in HostOpen(s, s.a1, {}) :
        t \in IF f.x < 0 THEN {UNIX_RETURN(f.s, -1)}
              ELSE {UNIX_RETURN(HostClose(o.s, f.x).s, o.x) : o \in _emulate_fxstat(f.s, f.x, s.a2)}
  BY DEF sys_xstat
<1>2. s.call.a2 = s.a2 /\ d.file = s.a1 BY DEF Recorded, Closed
<1>3. /\ Typed(f.s) /\ Frame(s, f.s) /\ f.s.fdlist = s.fdlist /\ f.s.cell = s.cell
      /\ \/ f.x = -1 /\ SameFiles(s, f.s)
         \/ /\ s.a1 \in Files /\ f.x \in HostFDs /\ s.host[f.x] = Closed
            /\ f.s.host = [s.host EXCEPT ![f.x] = [file |-> s.a1, pos |-> 0, flags |-> {}]]
            /\ f.s.data = s.data
  <2> DEFINE none == {}
  <2>1. none \in SUBSET Flags /\ "TRUNC" \notin none /\ f \in HostOpen(s, s.a1, none) OBVIOUS
  <2> SUFFICES
        /\ Typed(f.s) /\ Frame(s, f.s) /\ f.s.fdlist = s.fdlist /\ f.s.cell = s.cell
        /\ \/ f.x = -1 /\ SameFiles(s, f.s)
           \/ /\ s.a1 \in Files /\ f.x \in HostFDs /\ s.host[f.x] = Closed
              /\ f.s.host = [s.host EXCEPT ![f.x] = [file |-> s.a1, pos |-> 0, flags |-> none]]
              /\ f.s.data = s.data
    OBVIOUS
  <2> HIDE DEF none
  <2>3. Typed(f.s) BY <2>1, HostOpenEffect
  <2>4. Frame(s, f.s) BY <2>1, HostOpenEffect
  <2>6. f.s.fdlist = s.fdlist /\ f.s.cell = s.cell
    <3>1. \A o \in HostOpen(s, s.a1, none) : SameView(s, o.s) BY HostOpenView DEF Good
    <3> QED BY <2>1, <3>1 DEF SameView
  <2>5. \/ f.x = -1 /\ SameFiles(s, f.s)
        \/ /\ s.a1 \in Files /\ f.x \in HostFDs /\ s.host[f.x] = Closed
           /\ f.s.host = [s.host EXCEPT ![f.x] = [file |-> s.a1, pos |-> 0, flags |-> none]]
           /\ f.s.data = s.data
    BY <2>1, HostOpenEffect
  <2> QED BY <2>3, <2>4, <2>5, <2>6
<1>4. CASE f.x = -1 /\ SameFiles(s, f.s)
  <2>1. t = UNIX_RETURN(f.s, -1) BY <1>1, <1>4
  <2>2. Good(t) /\ Frame(s, t) /\ Nothing(s, t) /\ (Ok(t) <=> -1 >= 0) BY <1>3, <1>4, <2>1, Answer
  <2> QED BY <2>2 DEF StatPromise, Nothing
<1>5. CASE /\ s.a1 \in Files /\ f.x \in HostFDs /\ s.host[f.x] = Closed
           /\ f.s.host = [s.host EXCEPT ![f.x] = [file |-> s.a1, pos |-> 0, flags |-> {}]]
           /\ f.s.data = s.data
  <2> DEFINE h == f.x
             e == [file |-> s.a1, pos |-> 0, flags |-> {}]
  <2>1. ~(f.x < 0)
    <3>1. HostFDs \subseteq Nat BY SysConstants
    <3>2. f.x \in Nat BY <1>5, <3>1
    <3> QED BY <3>2
  <2>2. PICK o \in _emulate_fxstat(f.s, h, s.a2) : t = UNIX_RETURN(HostClose(o.s, h).s, o.x) BY <1>1, <2>1
  <2>3. e # Closed /\ e.file = s.a1 /\ e.file # NoFile /\ e.pos <= MaxFile
    <3>1. s.a1 # NoFile /\ MaxFile \in Nat BY <1>5, SysConstants
    <3> QED BY <3>1 DEF Closed
  <2> HIDE DEF e
  <2>4. f.s.host = [s.host EXCEPT ![h] = e] /\ s.host \in [HostFDs -> Descs] BY <1>5 DEF e, Good, Typed
  <2>5. Sound(f.s) BY <1>5, <2>3, <2>4 DEF Good, Sound
  <2>6. /\ Typed(o.s) /\ SameFiles(f.s, o.s) /\ Frame(f.s, o.s) /\ Touched(f.s, o.s) \subseteq {s.a2}
        /\ o.x \in {0, -1}
        /\ o.x = 0 /\ f.s.host[h].file \in Files => o.s.cell[s.a2] = Len(f.s.data[f.s.host[h].file])
    <3>1. Typed(o.s) /\ SameFiles(f.s, o.s) /\ Frame(f.s, o.s) BY <1>3, <2>5, StatEffect
    <3>2. Touched(f.s, o.s) \subseteq {s.a2} BY <1>3, <2>5, StatEffect
    <3>3. o.x \in {0, -1} BY <1>3, <2>5, StatEffect
    <3>4. o.x = 0 /\ f.s.host[h].file \in Files => o.s.cell[s.a2] = Len(f.s.data[f.s.host[h].file])
      BY <1>3, <2>5, StatEffect
    <3> QED BY <3>1, <3>2, <3>3, <3>4
  <2>7. f.s.host[h] = e BY <1>5, <2>4
  <2> DEFINE u == HostClose(o.s, h).s
  <2>8. u = [o.s EXCEPT !.host[h] = Closed]
    <3>1. IsOpen(o.s, h) BY <1>5, <2>3, <2>6, <2>7 DEF IsOpen, SameFiles
    <3> QED BY <3>1 DEF HostClose, Outcome
  <2>9. /\ DOMAIN u = Fields /\ \A y \in Fields \ {"host"} : u[y] = o.s[y]
        /\ u.host = [o.s.host EXCEPT ![h] = Closed]
    BY <2>6, <2>8 DEF Typed, Fields
  <2> HIDE DEF u
  <2>10. u.host = s.host
    <3>1. o.s.host = [s.host EXCEPT ![h] = e] BY <2>4, <2>6 DEF SameFiles
    <3>2. [[s.host EXCEPT ![h] = e] EXCEPT ![h] = Closed] = s.host BY <1>5, <2>4
    <3> QED BY <2>9, <3>1, <3>2
  <2>11. Typed(u) /\ Frame(s, u) /\ SameFiles(s, u) /\ u.cell = o.s.cell
    <3>1. u.fdlist = s.fdlist /\ u.data = s.data /\ u.cell = o.s.cell
      BY <1>3, <1>5, <2>6, <2>9 DEF SameFiles, Fields
    <3>2. u.host \in [HostFDs -> Descs] BY <2>4, <2>10
    <3>3. Typed(u) BY <2>6, <2>9, <3>2 DEF Typed, Fields
    <3>4. Frame(s, u) BY <1>3, <2>6, <2>9 DEF Frame, Fields
    <3> QED BY <2>10, <3>1, <3>3, <3>4 DEF SameFiles
  <2>12. /\ Good(t) /\ Frame(s, t) /\ Moved(s, t) = {} /\ Changed(s, t) = {}
         /\ t.cell = u.cell /\ (Ok(t) <=> o.x >= 0)
    <3>1. o.x \in Int /\ t = UNIX_RETURN(u, o.x) BY <2>2, <2>6 DEF u
    <3> QED BY <2>11, <3>1, AnswerInMemory
  <2>13. Touched(s, t) \subseteq {s.a2} BY <1>3, <2>6, <2>11, <2>12 DEF Touched
  <2>14. t.call.a2 = s.a2 BY <1>2, <2>12 DEF Frame
  <2>15. Ok(t) /\ d.file \in Files => t.cell[s.a2] = Len(s.data[d.file])
    BY <1>2, <1>5, <2>3, <2>6, <2>7, <2>11, <2>12
  <2> HIDE DEF d
  <2> QED BY <2>12, <2>13, <2>14, <2>15 DEF StatPromise
<1> QED BY <1>3, <1>4, <1>5

----------------------------------------------------------------------------
(* The arguments of the program.                                           *)

\* Strings of numbers joined are a string of numbers.
LEMMA JoinedStrings == ASSUME NEW q \in Seq(Seq(Int)) PROVE FlattenSeq(q) \in Seq(Int)
<1> DEFINE Step(r, i) == IF i = 1 THEN q[i] ELSE r \o q[i]
           Runs(f, k) == f = [i \in 1..k |-> IF i = 1 THEN q[i] ELSE f[i - 1] \o q[i]]
           NoRun == {k \in Nat : k >= 1 /\ ~ \E f : Runs(f, k)}
<1>1. Len(q) \in Nat /\ \A i \in 1..Len(q) : q[i] \in Seq(Int) BY LenProperties, ElementOfSeq
<1>2. CASE Len(q) = 0
  <2>1. q = <<>> BY <1>2, EmptySeq, LenProperties
  <2> QED BY <1>2, <2>1, EmptySeq DEF FlattenSeq
<1>3. CASE Len(q) # 0
  <2>1. FlattenSeq(q) = (CHOOSE f : Runs(f, Len(q)))[Len(q)] BY <1>3 DEF FlattenSeq
  <2>2. NoRun = {}
    <3> SUFFICES ASSUME NoRun # {} PROVE FALSE
      OBVIOUS
    <3>1. PICK m \in NoRun : \A k \in NoRun : m <= k
      <4>1. NoRun \in SUBSET Nat OBVIOUS
      <4> HIDE DEF NoRun
      <4> QED BY <4>1, LeastExists
    <3>2. m \in Nat /\ m >= 1 OBVIOUS
    <3>3. m # 1
      <4> DEFINE f == [i \in 1..1 |-> q[1]]
                 g == [i \in 1..1 |-> IF i = 1 THEN q[i] ELSE f[i - 1] \o q[i]]
      <4>1. f = g OBVIOUS
      <4>2. Runs(f, 1) BY <4>1
      <4> QED BY <4>2
    <3>4. m - 1 \in Nat /\ m - 1 >= 1 /\ m - 1 \notin NoRun
      <4> HIDE DEF NoRun
      <4> QED BY <3>1, <3>2, <3>3
    <3>5. PICK f : Runs(f, m - 1) BY <3>4
    <3> DEFINE g == [i \in 1..m |-> IF i = m THEN f[m - 1] \o q[m] ELSE f[i]]
               h == [i \in 1..m |-> IF i = 1 THEN q[i] ELSE g[i - 1] \o q[i]]
    <3>6. ASSUME NEW i \in 1..m PROVE g[i] = h[i]
      <4>1. CASE i = 1
        <5>1. g[1] = f[1] /\ h[1] = q[1] BY <3>2, <3>3
        <5>2. f[1] = q[1] BY <3>4, <3>5
        <5> QED BY <4>1, <5>1, <5>2
      <4>2. CASE i = m
        <5>1. m - 1 \in 1..m /\ m - 1 # m BY <3>2, <3>3
        <5>2. g[m - 1] = f[m - 1] BY <5>1
        <5>3. m \in 1..m BY <3>2
        <5>4. g[m] = f[m - 1] \o q[m] BY <5>3
        <5>5. h[m] = g[m - 1] \o q[m] BY <3>3, <5>3
        <5> QED BY <4>2, <5>2, <5>4, <5>5
      <4>3. CASE i # 1 /\ i # m
        <5>1. i - 1 \in 1..m /\ i - 1 # m /\ i \in 1..(m - 1) BY <3>2, <4>3
        <5>2. g[i - 1] = f[i - 1] /\ g[i] = f[i] BY <4>3, <5>1
        <5>3. h[i] = f[i - 1] \o q[i] BY <4>3, <5>2
        <5>4. f[i] = f[i - 1] \o q[i] BY <3>5, <4>3, <5>1
        <5> QED BY <5>2, <5>3, <5>4
      <4> QED BY <4>1, <4>2, <4>3
    <3>7. g = h BY <3>6
    <3>8. Runs(g, m) BY <3>7
    <3> QED BY <3>8
  <2>3. PICK f : Runs(f, Len(q)) /\ FlattenSeq(q) = f[Len(q)]
    <3>1. Len(q) \in Nat /\ Len(q) >= 1 BY <1>1, <1>3
    <3>2. \E f : Runs(f, Len(q)) BY <2>2, <3>1
    <3> HIDE DEF Runs
    <3> QED BY <2>1, <3>2
  <2>4. f[1] = q[1] /\ \A i \in 2..Len(q) : f[i] = f[i - 1] \o q[i]
    <3>1. 1 \in 1..Len(q) BY <1>1, <1>3
    <3>2. f[1] = q[1] BY <2>3, <3>1
    <3>3. ASSUME NEW i \in 2..Len(q) PROVE f[i] = f[i - 1] \o q[i]
      <4>1. i \in 1..Len(q) /\ i # 1 OBVIOUS
      <4> QED BY <2>3, <4>1
    <3> QED BY <3>2, <3>3
  <2> HIDE DEF Runs
  <2> DEFINE Bad == {i \in 1..Len(q) : f[i] \notin Seq(Int)}
  <2>5. Bad = {}
    <3> SUFFICES ASSUME Bad # {} PROVE FALSE
      OBVIOUS
    <3>1. PICK m \in Bad : \A k \in Bad : m <= k
      <4>1. Bad \in SUBSET Nat BY <1>1
      <4> HIDE DEF Bad
      <4> QED BY <4>1, LeastExists
    <3>2. m \in 1..Len(q) /\ f[m] \notin Seq(Int) OBVIOUS
    <3>3. m # 1 BY <1>1, <2>4, <3>2
    <3>4. m - 1 \in 1..Len(q) /\ m \in 2..Len(q) BY <1>1, <3>2, <3>3
    <3>5. f[m - 1] \in Seq(Int)
      <4>1. m - 1 \notin Bad
        <5> HIDE DEF Bad
        <5> QED BY <1>1, <3>1, <3>2
      <4> QED BY <3>4, <4>1
    <3>6. f[m - 1] \o q[m] \in Seq(Int) BY <1>1, <3>2, <3>5, ConcatProperties
    <3> QED BY <2>4, <3>2, <3>4, <3>6
  <2>6. Len(q) \in 1..Len(q) BY <1>1, <1>3
  <2> QED BY <2>3, <2>5, <2>6
<1> QED BY <1>2, <1>3

\* The pointers that SetArgs stores are addresses.
LEMMA StringAddress == ASSUME NEW argv \in Seq(Seq(Int)), NEW i \in 1..Len(argv)
                       PROVE  StringAt(argv, i) \in Int
<1>1. Len(argv) \in Nat /\ \A k \in 1..Len(argv) : argv[k] \in Seq(Int) BY LenProperties, ElementOfSeq
<1> DEFINE before == SubSeq(argv, 1, i - 1)
<1>2. before \in Seq(Seq(Int))
  <2>1. 1 \in Int /\ i - 1 \in Int /\ \A k \in 1..(i - 1) : argv[k] \in Seq(Int) BY <1>1
  <2> QED BY <2>1, SubSeqProperties
<1> HIDE DEF before
<1>3. FlattenSeq(before) \in Seq(Int) BY <1>2, JoinedStrings
<1>4. Len(FlattenSeq(before)) \in Nat BY <1>3, LenProperties
<1>5. ArgAddr \in Int BY SysConstants
<1> QED BY <1>4, <1>5 DEF StringAt, before

\* Words stored in memory.
LEMMA WordsStored ==
  ASSUME NEW s, Typed(s), NEW a, NEW words \in Seq(Int), NEW t, t = PutWords(s, a, words)
  PROVE  Typed(t) /\ SameFiles(s, t) /\ Frame(s, t)
<1> DEFINE word(c) == 1 + (c - a) \div 4
           new == [c \in Cells |-> IF (c - a) % 4 = 0 /\ word(c) \in DOMAIN words
                                   THEN words[word(c)] ELSE s.cell[c]]
<1>1. /\ DOMAIN t = Fields /\ \A x \in Fields \ {"cell"} : t[x] = s[x]
      /\ t.cell = new
  BY DEF PutWords, Typed, Fields
<1>2. new \in [Cells -> Int]
  <2> SUFFICES ASSUME NEW c \in Cells PROVE new[c] \in Int
    OBVIOUS
  <2>1. s.cell[c] \in Int BY DEF Typed
  <2>2. \A i \in DOMAIN words : words[i] \in Int BY LenProperties, ElementOfSeq
  <2> HIDE DEF word
  <2> QED BY <2>1, <2>2
<1> HIDE DEF new
<1> QED BY <1>1, <1>2 DEF Typed, SameFiles, Frame, Fields

\* SetArgs moves the stack pointer and writes memory, nothing else.
LEMMA SetArgsEffect ==
  ASSUME NEW s, Typed(s)
  PROVE  LET t == BackDoor_SetArgs(s) IN Typed(t) /\ SameFiles(s, t) /\ t.call = s.call
<1> DEFINE argc == Len(s.argv)
           sp == s.sp - 4 * (argc + 1 + Filler(argc))
           words == <<argc>> \o [i \in 1..argc |-> StringAt(s.argv, i)]
           u == [s EXCEPT !.sp = sp]
           w == PutWords(u, sp, words)
           t == BackDoor_SetArgs(s)
<1> SUFFICES Typed(t) /\ SameFiles(s, t) /\ t.call = s.call
  OBVIOUS
<1>1. CASE argc = 0 BY <1>1 DEF BackDoor_SetArgs, SameFiles
<1>2. CASE argc # 0
  <2>1. s.argv \in Seq(Seq(Int)) BY DEF Typed
  <2>2. argc \in Nat BY <2>1, LenProperties
  <2>3. words \in Seq(Int)
    <3> DEFINE pointers == [i \in 1..argc |-> StringAt(s.argv, i)]
    <3>1. pointers \in [1..argc -> Int] BY <2>1, StringAddress
    <3> HIDE DEF pointers
    <3>2. pointers \in Seq(Int) BY <2>2, <3>1, FunctionIsSeq
    <3>3. <<argc>> \in Seq(Int) BY <2>2
    <3> QED BY <3>2, <3>3, ConcatProperties DEF pointers
  <2>4. sp \in Int
    <3>1. Filler(argc) \in Int BY DEF Filler
    <3>2. s.sp \in Int BY DEF Typed
    <3> QED BY <2>2, <3>1, <3>2
  <2>5. FlattenSeq(s.argv) \in Seq(Int) BY <2>1, JoinedStrings
  <2>6. t = Deposit(w, ArgAddr, FlattenSeq(s.argv)) BY <1>2 DEF BackDoor_SetArgs
  <2> HIDE DEF argc, sp, words, t
  <2>7. Typed(u) /\ SameFiles(s, u) /\ u.call = s.call BY <2>4 DEF Typed, SameFiles, Fields
  <2> HIDE DEF u
  <2>8. Typed(w) /\ SameFiles(u, w) /\ Frame(u, w) BY <2>3, <2>7, WordsStored
  <2> HIDE DEF w
  <2>9. ArgAddr \in Int BY SysConstants
  <2>10. Typed(t) /\ SameFiles(w, t) /\ Frame(w, t) BY <2>5, <2>6, <2>8, <2>9, DepositEffect
  <2> QED BY <2>7, <2>8, <2>10 DEF SameFiles, Frame
<1> QED BY <1>1, <1>2

----------------------------------------------------------------------------
(* Calls that answer from memory, or not at all.                           *)

\* What the remaining calls leave alone: every descriptor and every file.
Harmless(s, t) == Good(t) /\ t.call = s.call /\ Moved(s, t) = {} /\ Changed(s, t) = {}

LEMMA HarmlessAnswer ==
  ASSUME NEW s, Good(s), NEW u, Typed(u), SameFiles(s, u), u.call = s.call,
         NEW x \in Int, NEW t, t = UNIX_RETURN(u, x)
  PROVE  Harmless(s, t)
<1>1. Typed(t) /\ SameFiles(u, t) /\ Frame(u, t) BY UnixReturn
<1>2. SameFiles(s, t) /\ t.call = s.call BY <1>1 DEF SameFiles, Frame
<1>3. Sound(t) /\ Linked(t) /\ Moved(s, t) = {} /\ Changed(s, t) = {} BY <1>2, SameFilesGood DEF Good
<1> QED BY <1>1, <1>2, <1>3 DEF Good, Harmless

\* A state that differs in its registers only.
LEMMA HarmlessState ==
  ASSUME NEW s, Good(s), NEW t, Typed(t), SameFiles(s, t), t.call = s.call
  PROVE  Harmless(s, t)
BY SameFilesGood DEF Good, Harmless

\* time and gettime write the time to memory.
LEMMA ClockEffect ==
  ASSUME NEW s, Good(s), NEW t \in sys_time(s) \cup _emulate_gettime(s)
  PROVE  Harmless(s, t)
<1>0. Typed(s) /\ SameFiles(s, s) /\ Frame(s, s) BY DEF Good, SameFiles, Frame
<1> DEFINE u == WriteCell(s, s.a0, 1)
           v == WriteCell(u, s.a0 + 4, 1)
<1>1. Typed(u) /\ SameFiles(s, u) /\ Frame(s, u)
  <2>1. 1 \in Int OBVIOUS
  <2> QED BY <1>0, <2>1, CellWritten
<1>2. CASE t \in sys_time(s)
  <2>1. t = UNIX_RETURN(s, 1) \/ t = UNIX_RETURN(u, 1) BY <1>2 DEF sys_time
  <2> HIDE DEF u
  <2> QED BY <1>0, <1>1, <2>1, HarmlessAnswer DEF Frame
<1>3. CASE t \in _emulate_gettime(s)
  <2>1. t = UNIX_RETURN(v, 0) BY <1>3 DEF _emulate_gettime
  <2> HIDE DEF u
  <2>2. Typed(v) /\ SameFiles(u, v) /\ Frame(u, v)
    <3>1. 1 \in Int OBVIOUS
    <3> QED BY <1>1, <3>1, CellWritten
  <2> HIDE DEF v
  <2>3. SameFiles(s, v) /\ v.call = s.call BY <1>1, <2>2 DEF SameFiles, Frame
  <2> QED BY <2>1, <2>2, <2>3, HarmlessAnswer
<1> QED BY <1>2, <1>3

\* The back doors set registers, and SetArgs memory.
LEMMA BackDoorEffect == ASSUME NEW s, Good(s), NEW t \in BackDoor(s) PROVE Harmless(s, t)
<1>0. Typed(s) BY DEF Good
<1> DEFINE u == CASE s.a0 = 0 -> BackDoor_SetArgs(s)
                  [] s.a0 = 1 -> [s EXCEPT !.a0 = 7]
                  [] s.a0 = 2 -> [s EXCEPT !.a0 = 0]
                  [] OTHER -> s
<1>1. t = UNIX_RETURN(u, 0) BY DEF BackDoor
<1>2. Typed(u) /\ SameFiles(s, u) /\ u.call = s.call
  <2>1. CASE s.a0 = 0
    <3>1. u = BackDoor_SetArgs(s) BY <2>1
    <3> HIDE DEF u
    <3> QED BY <1>0, <3>1, SetArgsEffect
  <2>2. CASE s.a0 = 1
    <3>1. u = [s EXCEPT !.a0 = 7] BY <2>2
    <3> HIDE DEF u
    <3> QED BY <1>0, <3>1 DEF Typed, SameFiles, Fields
  <2>3. CASE s.a0 = 2
    <3>1. u = [s EXCEPT !.a0 = 0] BY <2>3
    <3> HIDE DEF u
    <3> QED BY <1>0, <3>1 DEF Typed, SameFiles, Fields
  <2>4. CASE s.a0 \notin {0, 1, 2}
    <3>1. u = s BY <2>4
    <3> HIDE DEF u
    <3> QED BY <1>0, <3>1 DEF SameFiles
  <2> QED BY <2>1, <2>2, <2>3, <2>4
<1> HIDE DEF u
<1>3. 0 \in Int OBVIOUS
<1> QED BY <1>1, <1>2, <1>3, HarmlessAnswer

----------------------------------------------------------------------------
(* One call.                                                               *)

\* The buffers that the calls with one are given.
Buffers(s) == /\ s.v0 \in {1003, 1004} => s.a2 >= 0 /\ s.a1..(s.a1 + s.a2 - 1) \subseteq Cells
              /\ s.v0 \in {1158, 1160} => s.a2 \in Cells

Kept(s, t) == Good(t) /\ t.call = s.call /\ Promise(s, t)

\* The calls on files.
LEMMA FileCallEffect ==
  ASSUME NEW s, Good(s), Recorded(s), Buffers(s), NEW t \in Direct(s),
         s.v0 \in {1003, 1004, 1005, 1006, 1008, 1019, 1158, 1160}
  PROVE  Kept(s, t)
<1>1. s.call.num = s.v0 /\ s.call.a0 = s.a0 /\ s.call.a1 = s.a1 BY DEF Recorded
<1>2. CASE s.v0 = 1003
  <2>1. t \in sys_read(s) BY <1>2 DEF Direct
  <2>2. s.a2 >= 0 /\ s.a1..(s.a1 + s.a2 - 1) \subseteq Cells BY <1>2 DEF Buffers
  <2>3. Good(t) /\ Frame(s, t) /\ ReadPromise(s, t) BY <2>1, <2>2, ReadEffect
  <2>4. t.call = s.call BY <2>3 DEF Frame
  <2> QED BY <1>1, <1>2, <2>3, <2>4 DEF Promise, Kept
<1>3. CASE s.v0 = 1004
  <2>1. t \in sys_write(s) BY <1>3 DEF Direct
  <2>2. s.a1..(s.a1 + s.a2 - 1) \subseteq Cells BY <1>3 DEF Buffers
  <2>3. Good(t) /\ Frame(s, t) /\ WritePromise(s, t) BY <2>1, <2>2, WriteEffect
  <2>4. t.call = s.call BY <2>3 DEF Frame
  <2> QED BY <1>1, <1>3, <2>3, <2>4 DEF Promise, Kept
<1>4. CASE s.v0 = 1005
  <2>1. t \in sys_open(s) BY <1>4 DEF Direct
  <2>2. Good(t) /\ Frame(s, t) /\ OpenPromise(s, t) BY <2>1, OpenEffect
  <2>3. t.call = s.call BY <2>2 DEF Frame
  <2> QED BY <1>1, <1>4, <2>2, <2>3 DEF Promise, Kept
<1>5. CASE s.v0 = 1006
  <2>1. t \in sys_close(s) BY <1>5 DEF Direct
  <2>2. Good(t) /\ Frame(s, t) /\ ClosePromise(s, t) BY <2>1, CloseEffect
  <2>3. t.call = s.call BY <2>2 DEF Frame
  <2> QED BY <1>1, <1>5, <2>2, <2>3 DEF Promise, Kept
<1>6. CASE s.v0 = 1008
  <2>1. t \in sys_creat(s) BY <1>6 DEF Direct
  <2>2. Good(t) /\ Frame(s, t) /\ CreatPromise(s, t) BY <2>1, CreatEffect
  <2>3. t.call = s.call BY <2>2 DEF Frame
  <2> QED BY <1>1, <1>6, <2>2, <2>3 DEF Promise, Kept
<1>7. CASE s.v0 = 1019
  <2>1. t \in sys_lseek(s) BY <1>7 DEF Direct
  <2>2. Good(t) /\ Frame(s, t) BY <2>1, SeekEffect
  <2>3. Moved(s, t) \subseteq {Slot(s.a0)} /\ Changed(s, t) = {} /\ Touched(s, t) = {} BY <2>1, SeekEffect
  <2>4. t.call = s.call BY <2>2 DEF Frame
  <2> QED BY <1>1, <1>7, <2>2, <2>3, <2>4 DEF Promise, Kept
<1>8. CASE s.v0 = 1158
  <2>1. t \in sys_xstat(s) BY <1>8 DEF Direct
  <2>2. s.a2 \in Cells BY <1>8 DEF Buffers
  <2>3. Good(t) /\ Frame(s, t) /\ StatPromise(s, t, [Closed EXCEPT !.file = s.a1])
    BY <2>1, <2>2, XstatEffect
  <2>4. t.call = s.call BY <2>3 DEF Frame
  <2> QED BY <1>1, <1>8, <2>3, <2>4 DEF Promise, Kept
<1>9. CASE s.v0 = 1160
  <2>1. t \in sys_fxstat(s) BY <1>9 DEF Direct
  <2>2. s.a2 \in Cells BY <1>9 DEF Buffers
  <2>3. Good(t) /\ Frame(s, t) /\ StatPromise(s, t, Desc(s, Slot(s.a1)))
    BY <2>1, <2>2, FxstatEffect
  <2>4. t.call = s.call BY <2>3 DEF Frame
  <2> QED BY <1>1, <1>9, <2>3, <2>4 DEF Promise, Kept
<1> QED BY <1>2, <1>3, <1>4, <1>5, <1>6, <1>7, <1>8, <1>9

\* The other calls.
LEMMA OtherCallEffect ==
  ASSUME NEW s, Good(s), Recorded(s), NEW t \in Direct(s),
         s.v0 \notin {1003, 1004, 1005, 1006, 1008, 1019, 1158, 1160}
  PROVE  Kept(s, t)
<1>0. Typed(s) /\ SameFiles(s, s) BY DEF Good, SameFiles
<1> SUFFICES Harmless(s, t)
  BY DEF Harmless, Kept, Promise, Recorded
<1>1. CASE s.v0 = 1001
  <2>1. t = [s EXCEPT !.quit = TRUE] BY <1>1 DEF Direct, sys_exit
  <2>2. Typed(t) /\ SameFiles(s, t) /\ t.call = s.call BY <1>0, <2>1 DEF Typed, SameFiles, Fields
  <2> QED BY <2>2, HarmlessState
<1>2. CASE s.v0 \in {1013, 1128}
  <2>1. t \in sys_time(s) \cup _emulate_gettime(s) BY <1>2 DEF Direct
  <2> QED BY <2>1, ClockEffect
<1>3. CASE s.v0 = 1181
  <2>1. t \in BackDoor(s) BY <1>3 DEF Direct
  <2> QED BY <2>1, BackDoorEffect
<1>4. CASE s.v0 \in {1033, 1037}
  <2> DEFINE u == [s EXCEPT !.errno = ENOENT]
  <2>1. t = UNIX_RETURN(s, 0) \/ t = UNIX_RETURN(u, -1) BY <1>4 DEF Direct, HostAnswer, HostRefusal
  <2>2. ENOENT \in Nat BY DEF ENOENT
  <2>3. Typed(u) /\ SameFiles(s, u) /\ u.call = s.call BY <1>0, <2>2 DEF Typed, SameFiles, Fields
  <2> HIDE DEF u
  <2>4. 0 \in Int /\ -1 \in Int OBVIOUS
  <2> QED BY <1>0, <2>1, <2>3, <2>4, HarmlessAnswer
<1>5. CASE s.v0 \notin {1001, 1013, 1128, 1181, 1033, 1037}
  <2>1. t = s \/ \E x \in {0, 1, -1, 4096} : t = UNIX_RETURN(s, x)
    <3>1. CASE s.v0 = 1020 BY <3>1 DEF Direct, HostAnswer
    <3>2. CASE s.v0 = 1040 BY <3>2 DEF Direct
    <3>3. CASE s.v0 = 1054 BY <3>3 DEF Direct, sys_ioctl
    <3>4. CASE s.v0 = 1056 BY <3>4 DEF Direct
    <3>5. CASE s.v0 = 1130 BY <3>5 DEF Direct
    <3>6. CASE s.v0 \notin {1020, 1040, 1054, 1056, 1130} BY <1>5, <3>6 DEF Direct
    <3> QED BY <3>1, <3>2, <3>3, <3>4, <3>5, <3>6
  <2>2. CASE t = s BY <1>0, <2>2, HarmlessState
  <2>3. CASE \E x \in {0, 1, -1, 4096} : t = UNIX_RETURN(s, x)
    <3>1. PICK x \in {0, 1, -1, 4096} : t = UNIX_RETURN(s, x) BY <2>3
    <3>2. x \in Int OBVIOUS
    <3> QED BY <1>0, <3>1, <3>2, HarmlessAnswer
  <2> QED BY <2>1, <2>2, <2>3
<1> QED BY <1>1, <1>2, <1>3, <1>4, <1>5

\* Every call that is made directly.
LEMMA DirectEffect == ASSUME NEW s, Good(s), Recorded(s), Buffers(s), NEW t \in Direct(s)
                      PROVE  Kept(s, t)
BY FileCallEffect, OtherCallEffect

\* The registers play no part in what a descriptor, a file or a cell is.
SameState(s, t) == SameFiles(s, t) /\ t.cell = s.cell /\ t.call = s.call /\ t.v0 = s.v0 /\ t.a3 = s.a3

\* What a call has done is not changed by moving registers before and after it.
LEMMA PromiseMoves ==
  ASSUME NEW s, NEW t, NEW u, NEW w, SameState(t, w), SameFiles(s, u), u.cell = s.cell, Promise(u, t)
  PROVE  Promise(s, w)
<1>1. \A g : Desc(s, g) = Desc(u, g) /\ Desc(t, g) = Desc(w, g) BY DEF Desc, SameState, SameFiles
<1>2. Moved(s, w) = Moved(u, t) /\ Changed(s, w) = Changed(u, t) /\ Touched(s, w) = Touched(u, t)
  BY <1>1 DEF Moved, Changed, Touched, SameState, SameFiles
<1>3. \A a, n : Buffer(s, a, n) = Buffer(u, a, n) /\ Buffer(t, a, n) = Buffer(w, a, n)
  BY DEF Buffer, SameState
<1>4. w.call = t.call /\ w.v0 = t.v0 /\ w.a3 = t.a3 /\ w.cell = t.cell /\ w.data = t.data /\ s.data = u.data
  BY DEF SameState, SameFiles
<1>5. Ok(w) = Ok(t) BY <1>4 DEF Ok
<1>6. Nothing(s, w) <=> Nothing(u, t) BY <1>2 DEF Nothing
<1>7. Opened(s, w) <=> Opened(u, t) BY <1>1, <1>2, <1>4, <1>5 DEF Opened
<1>8. ReadPromise(s, w) <=> ReadPromise(u, t)
  BY <1>1, <1>2, <1>3, <1>4, <1>5, <1>6 DEF ReadPromise
<1>9. WritePromise(s, w) <=> WritePromise(u, t)
  BY <1>1, <1>2, <1>3, <1>4, <1>5 DEF WritePromise
<1>10. OpenPromise(s, w) <=> OpenPromise(u, t) BY <1>5, <1>6, <1>7 DEF OpenPromise
<1>11. CreatPromise(s, w) <=> CreatPromise(u, t) BY <1>6, <1>7 DEF CreatPromise
<1>12. ClosePromise(s, w) <=> ClosePromise(u, t) BY <1>1, <1>2, <1>4, <1>5 DEF ClosePromise
<1>13. \A d : StatPromise(s, w, d) <=> StatPromise(u, t, d) BY <1>2, <1>4, <1>5 DEF StatPromise
<1>14. Promise(s, w) <=> Promise(u, t)
  BY <1>1, <1>2, <1>4, <1>8, <1>9, <1>10, <1>11, <1>12, <1>13 DEF Promise
<1> QED BY <1>14

\* The registers that syscall makes its call with.
Shifted(s) == [s EXCEPT !.v0 = s.a0, !.a0 = s.a1, !.a1 = s.a2, !.a2 = s.a3]
Ready(s) == Recorded(s) /\ Buffers(s)

\* What syscall does with the registers around the call it makes.
LEMMA IndirectEffect ==
  ASSUME NEW s, Good(s), NEW t \in Indirect(s), s.a0 # 1000, Ready(Shifted(s))
  PROVE  Kept(s, t)
<1> DEFINE r == Shifted(s)
<1>1. PICK u \in Direct(r) : t = [u EXCEPT !.a0 = s.a0, !.a1 = s.a1, !.a2 = s.a2]
  <2>1. Indirect(s) = {[u EXCEPT !.a0 = s.a0, !.a1 = s.a1, !.a2 = s.a2] : u \in Direct(r)}
    BY DEF Indirect, Shifted
  <2> QED BY <2>1
<1>2. Typed(r) /\ SameFiles(s, r) /\ r.cell = s.cell /\ r.call = s.call
  BY DEF Good, Typed, SameFiles, Fields, Shifted
<1> HIDE DEF r
<1>3. Good(r)
  <2>1. Sound(s) /\ Linked(s) BY DEF Good
  <2>2. Sound(r) /\ Linked(r) BY <1>2, <2>1, SameFilesGood
  <2> QED BY <1>2, <2>2 DEF Good
<1>4. Good(u) /\ u.call = r.call /\ Promise(r, u)
  <2>1. Recorded(r) /\ Buffers(r) BY DEF Ready, r
  <2>2. Kept(r, u) BY <1>1, <1>3, <2>1, DirectEffect
  <2> QED BY <2>2 DEF Kept
<1>5. s.a0 \in Int /\ s.a1 \in Int /\ s.a2 \in Int BY DEF Good, Typed
<1>6. Typed(t) /\ SameState(u, t)
  <2>1. Typed(u) BY <1>4 DEF Good
  <2> QED BY <1>1, <1>5, <2>1 DEF Typed, SameState, SameFiles, Fields
<1>7. Good(t)
  <2>1. SameFiles(u, t) BY <1>6 DEF SameState
  <2>2. Sound(t) /\ Linked(t) BY <1>4, <2>1, SameFilesGood DEF Good
  <2> QED BY <1>6, <2>2 DEF Good
<1>8. Promise(s, t)
  <2>1. SameState(u, t) BY <1>6
  <2>2. SameFiles(s, r) /\ r.cell = s.cell /\ Promise(r, u) BY <1>2, <1>4
  <2> QED BY ONLY <2>1, <2>2, PromiseMoves
<1>9. t.call = s.call BY <1>2, <1>4, <1>6 DEF SameState
<1> QED BY <1>7, <1>8, <1>9 DEF Kept

\* The registers as the guest sets them are those of the call.
LEMMA CallRegisters ==
  ASSUME Good(sys), NEW c \in GuestCalls, NEW s, s = Registers(c)
  PROVE  /\ Good(s) /\ SameFiles(sys, s) /\ s.cell = sys.cell
         /\ c[1] = s.v0
         /\ s.v0 # 1000 => Ready(s)
         /\ s.v0 = 1000 => Ready(Shifted(s))
<1>1. c \in Seq(Int) /\ Len(c) = IF c[1] = 1000 THEN 5 ELSE 4 BY SysConstants
<1>2. /\ c[1] \in Int /\ c[2] \in Int /\ c[3] \in Int /\ c[4] \in Int
      /\ c[1] = 1000 => c[5] \in Int
  BY <1>1, ElementOfSeq
<1>3. Typed(sys) /\ Sound(sys) /\ Linked(sys) BY DEF Good
<1> DEFINE k == CallOf(c)
           five == [sys EXCEPT !.v0 = c[1], !.a0 = c[2], !.a1 = c[3], !.a2 = c[4], !.call = k]
<1> HIDE DEF k
<1>4. /\ DOMAIN five = Fields /\ five.v0 = c[1] /\ five.a0 = c[2] /\ five.a1 = c[3] /\ five.a2 = c[4]
      /\ five.call = k
      /\ \A x \in Fields \ {"v0", "a0", "a1", "a2", "call"} : five[x] = sys[x]
  <2>1. DOMAIN sys = Fields BY <1>3 DEF Typed
  <2> QED BY ONLY <2>1 DEF Fields
<1>5. s = IF Len(c) = 5 THEN [five EXCEPT !.a3 = c[5]] ELSE five BY DEF Registers, k
<1> HIDE DEF five
<1>10. /\ DOMAIN s = Fields /\ s.v0 = c[1] /\ s.a0 = c[2] /\ s.a1 = c[3] /\ s.a2 = c[4]
       /\ s.a3 = IF c[1] = 1000 THEN c[5] ELSE sys.a3
       /\ s.call = k
       /\ \A x \in Fields \ {"v0", "a0", "a1", "a2", "a3", "call"} : s[x] = sys[x]
  <2>1. CASE c[1] = 1000
    <3>1. s = [five EXCEPT !.a3 = c[5]] BY <1>1, <1>5, <2>1
    <3> QED BY ONLY <1>4, <2>1, <3>1 DEF Fields
  <2>2. CASE c[1] # 1000
    <3>1. s = five BY <1>1, <1>5, <2>2
    <3> QED BY ONLY <1>4, <2>2, <3>1 DEF Fields
  <2> QED BY <2>1, <2>2
<1>11. Typed(s) /\ SameFiles(sys, s) /\ s.cell = sys.cell
  <2>1. s.a3 \in Int
    <3>1. sys.a3 \in Int BY <1>3 DEF Typed
    <3> QED BY ONLY <1>2, <1>10, <3>1
  <2>2. s.v0 \in Int /\ s.a0 \in Int /\ s.a1 \in Int /\ s.a2 \in Int BY ONLY <1>2, <1>10
  <2> QED BY ONLY <1>3, <1>10, <2>1, <2>2 DEF Typed, SameFiles, Fields
<1>6. Good(s) BY <1>3, <1>11, SameFilesGood DEF Good
<1>7. /\ k.num \in {1003, 1004} => k.a2 >= 0 /\ k.a1..(k.a1 + k.a2 - 1) \subseteq Cells
      /\ k.num \in {1158, 1160} => k.a2 \in Cells
  BY GuestBuffers DEF k
<1>8. ASSUME s.v0 # 1000 PROVE Ready(s)
  <2>1. k = [num |-> s.v0, a0 |-> s.a0, a1 |-> s.a1, a2 |-> s.a2]
    BY <1>10, <1>8 DEF CallOf, k
  <2>2. Recorded(s) BY <1>10, <2>1 DEF Recorded
  <2> QED BY ONLY <1>7, <2>1, <2>2 DEF Buffers, Ready
<1> DEFINE r == Shifted(s)
<1>9. ASSUME s.v0 = 1000 PROVE Ready(r)
  <2>1. Len(c) = 5 BY <1>1, <1>10, <1>9
  <2>2. k = [num |-> s.a0, a0 |-> s.a1, a1 |-> s.a2, a2 |-> s.a3]
    BY <1>10, <1>9, <2>1 DEF CallOf, k
  <2>3. r.v0 = s.a0 /\ r.a0 = s.a1 /\ r.a1 = s.a2 /\ r.a2 = s.a3 /\ r.call = s.call
    BY ONLY <1>10 DEF Fields, Shifted
  <2> HIDE DEF r
  <2>4. Recorded(r) BY <1>10, <2>2, <2>3 DEF Recorded
  <2> QED BY ONLY <1>7, <2>2, <2>3, <2>4 DEF Buffers, Ready
<1> QED BY <1>6, <1>8, <1>9, <1>10, <1>11

\* A call keeps what it should, unless it ends the program on an error.
LEMMA CallEffect ==
  ASSUME Good(sys), NEW c \in GuestCalls, NEW t \in EmulateSysCall(Registers(c))
  PROVE  Good(t) /\ (~t.fatal => Promise(sys, t))
<1> DEFINE s == Registers(c)
<1> HIDE DEF s
<1>1. /\ Good(s) /\ SameFiles(sys, s) /\ s.cell = sys.cell
      /\ s.v0 # 1000 => Ready(s)
      /\ s.v0 = 1000 => Ready(Shifted(s))
  <2>1. s = Registers(c) BY DEF s
  <2>2. Good(s) /\ SameFiles(sys, s) /\ s.cell = sys.cell BY <2>1, CallRegisters
  <2>3. s.v0 # 1000 => Ready(s) BY <2>1, CallRegisters
  <2>4. s.v0 = 1000 => Ready(Shifted(s)) BY <2>1, CallRegisters
  <2> QED BY <2>2, <2>3, <2>4
<1>2. ASSUME Kept(s, t) PROVE Good(t) /\ Promise(sys, t)
  <2>1. SameState(t, t) BY DEF SameState, SameFiles
  <2>2. SameFiles(sys, s) /\ s.cell = sys.cell /\ Promise(s, t) BY <1>1, <1>2 DEF Kept
  <2>3. Promise(sys, t) BY <2>1, <2>2, PromiseMoves
  <2> QED BY <1>2, <2>3 DEF Kept
<1>3. CASE s.v0 # 1000
  <2>1. t \in Direct(s) BY <1>3 DEF EmulateSysCall, s
  <2>2. Kept(s, t) BY <1>1, <1>3, <2>1, DirectEffect DEF Ready
  <2> QED BY <1>2, <2>2
<1>4. CASE s.v0 = 1000
  <2>1. t \in Indirect(s) BY <1>4 DEF EmulateSysCall, s
  <2>2. CASE s.a0 = 1000
    <3>1. t = [s EXCEPT !.fatal = TRUE] BY <2>1, <2>2 DEF Indirect
    <3>2. Typed(t) /\ SameFiles(s, t) /\ t.fatal BY <1>1, <3>1 DEF Good, Typed, SameFiles, Fields
    <3>3. Good(t) BY <1>1, <3>2, SameFilesGood DEF Good
    <3> QED BY <3>2, <3>3
  <2>3. CASE s.a0 # 1000
    <3>1. Ready(Shifted(s)) BY <1>1, <1>4
    <3>2. Kept(s, t) BY ONLY <1>1, <2>1, <2>3, <3>1, IndirectEffect
    <3> QED BY <1>2, <3>2
  <2> QED BY <2>2, <2>3
<1> QED BY <1>3, <1>4

----------------------------------------------------------------------------
(* The specification.                                                      *)

\* The inductive invariant; before the first call there is none on record.
SysInv == Good(sys) /\ ncalls \in Nat /\ (ncalls = 0 => sys.call = NoCall)

\* The three standard descriptors are open to begin with.
LEMMA SysInitially == ASSUME SysInit PROVE SysInv
<1>1. /\ TableSize \in Nat /\ TableSize >= 3 /\ HostFDs \subseteq Nat /\ 0..2 \subseteq HostFDs
      /\ Cells \subseteq Int /\ StackTop \in Int /\ MaxFile \in Nat \ {0}
  BY SysConstants
<1>2. Closed \in Descs /\ [Closed EXCEPT !.file = Tty] \in Descs BY DEF Closed, Descs
<1>3. /\ Closed.pos = 0 /\ Closed.file = NoFile
      /\ [Closed EXCEPT !.file = Tty].pos = 0 /\ [Closed EXCEPT !.file = Tty].file = Tty /\ Tty # NoFile
  BY DEF Closed, NoFile, Tty
<1> DEFINE terminal == [Closed EXCEPT !.file = Tty]
<1> HIDE DEF terminal
<1>4. /\ sys.fdlist = [i \in Slots |-> IF i < 3 THEN i ELSE -1]
      /\ sys.host = [h \in HostFDs |-> IF h < 3 THEN terminal ELSE Closed]
      /\ sys.data = [f \in Files |-> <<1>>] /\ sys.cell = [c \in Cells |-> c % 2]
      /\ sys.call = NoCall /\ sys.errno = 0 /\ sys.argv = <<>> /\ sys.sp = StackTop
      /\ sys.v0 = 0 /\ sys.a0 = 0 /\ sys.a1 = 0 /\ sys.a2 = 0 /\ sys.a3 = 0
      /\ DOMAIN sys = Fields
  BY DEF SysInit, Slots, Fields, terminal
<1>5. /\ terminal \in Descs /\ terminal # Closed /\ terminal.pos = 0 /\ terminal.file # NoFile
  BY <1>2, <1>3 DEF terminal
<1>6. Typed(sys)
  <2>1. sys.fdlist \in [Slots -> HostFDs \cup {-1}] BY <1>1, <1>4 DEF Slots
  <2>2. sys.host \in [HostFDs -> Descs] BY <1>2, <1>4, <1>5
  <2>3. sys.data \in [Files -> Seq(Int)]
    <3>1. <<1>> \in Seq(Int) OBVIOUS
    <3> QED BY <1>4, <3>1
  <2>4. sys.cell \in [Cells -> Int] BY <1>1, <1>4
  <2>5. sys.argv \in Seq(Seq(Int)) BY <1>4, EmptySeq
  <2> QED BY <1>1, <1>4, <2>1, <2>2, <2>3, <2>4, <2>5 DEF Typed
<1>7. Sound(sys)
  <2>1. \A f \in Files : Len(sys.data[f]) <= MaxFile
    <3>1. Len(<<1>>) = 1 OBVIOUS
    <3> QED BY <1>1, <1>4, <3>1
  <2> QED BY <1>1, <1>3, <1>4, <1>5, <2>1 DEF Sound
<1>8. Linked(sys) BY <1>1, <1>4, <1>5 DEF Linked, IsOpen, Slots
<1> QED BY <1>4, <1>6, <1>7, <1>8 DEF SysInv, Good, SysInit

\* Setting the arguments up and calling.
LEMMA SysStepCalls ==
  ASSUME SysInv, ArgumentSetup \/ Call
  PROVE  SysInv' /\ (Called /\ ~sys'.fatal => Promise(sys, sys'))
<1>1. Good(sys) /\ Typed(sys) /\ ncalls \in Nat BY DEF SysInv, Good
<1>2. CASE ArgumentSetup
  <2>1. PICK argv \in Argvs : sys' = [sys EXCEPT !.argv = argv] /\ ncalls = 0 /\ ncalls' = MaxCalls - MaxOthers
    BY <1>2 DEF ArgumentSetup
  <2>2. argv \in Seq(Seq(Int)) BY SysConstants
  <2>3. Typed(sys') /\ SameFiles(sys, sys') /\ sys'.call = sys.call
    BY <1>1, <2>1, <2>2 DEF Typed, SameFiles, Fields
  <2>4. Harmless(sys, sys') BY <1>1, <2>3, HarmlessState
  <2>5. sys.call = NoCall BY <2>1 DEF SysInv
  <2>6. ncalls' \in Nat
    <3>1. MaxCalls \in Nat /\ MaxOthers \in Nat /\ MaxOthers <= MaxCalls BY SysConstants
    <3> QED BY <2>1, <3>1
  <2>7. Promise(sys, sys') BY <2>3, <2>4, <2>5 DEF Harmless, Promise, NoCall
  <2> QED BY <2>3, <2>4, <2>5, <2>6, <2>7 DEF Harmless, SysInv
<1>3. CASE Call
  <2>1. PICK c \in GuestCalls : sys' \in EmulateSysCall(Registers(c)) /\ ncalls' = ncalls + 1
    BY <1>3 DEF Call
  <2>2. Good(sys') /\ (~sys'.fatal => Promise(sys, sys')) BY <1>1, <2>1, CallEffect
  <2>3. ncalls' \in Nat /\ ncalls' # 0 BY <1>1, <2>1
  <2> QED BY <2>2, <2>3 DEF SysInv
<1> QED BY <1>2, <1>3

\* Reset closes what stands behind the descriptors it forgets, nothing else.
LEMMA SysStepReset == ASSUME SysInv, Reset PROVE SysInv' /\ ~Called
<1>1. Typed(sys) /\ Sound(sys) /\ Linked(sys) /\ ncalls \in Nat BY DEF SysInv, Good
<1> DEFINE listed == {i \in 3..(TableSize - 1) : sys.fdlist[i] > 0}
           behind(h) == \E i \in listed : sys.fdlist[i] = h
<1>2. /\ DOMAIN sys' = Fields
      /\ sys'.fdlist = [i \in DOMAIN sys.fdlist |-> IF i \in listed THEN -1 ELSE sys.fdlist[i]]
      /\ sys'.host = [h \in HostFDs |-> IF behind(h) THEN Closed ELSE sys.host[h]]
      /\ \A x \in Fields \ {"fdlist", "host", "quit", "call"} : sys'[x] = sys[x]
      /\ sys'.call = NoCall /\ ncalls' = ncalls
  BY <1>1 DEF Reset, Typed, Fields
<1>3. TableSize \in Nat /\ HostFDs \subseteq Nat BY SysConstants
<1>4. \A i \in Slots : i \in listed => sys.fdlist[i] # -1
  BY <1>1, <1>3 DEF Typed
<1>5. listed \subseteq Slots BY <1>3 DEF Slots
<1> HIDE DEF listed
<1>6. /\ DOMAIN sys.fdlist = Slots /\ sys.fdlist \in [Slots -> HostFDs \cup {-1}]
      /\ sys.host \in [HostFDs -> Descs]
  BY <1>1 DEF Typed
<1>7. Closed \in Descs BY DEF Closed, Descs
<1>8. Typed(sys')
  <2>1. sys'.fdlist \in [Slots -> HostFDs \cup {-1}] BY <1>2, <1>6
  <2>2. sys'.host \in [HostFDs -> Descs] BY <1>2, <1>6, <1>7
  <2> QED BY <1>1, <1>2, <2>1, <2>2 DEF Typed, Fields
<1>9. Sound(sys')
  <2>1. Closed.pos = 0 /\ MaxFile \in Nat BY SysConstants DEF Closed
  <2>2. sys'.data = sys.data BY <1>2 DEF Fields
  <2> QED BY <1>1, <1>2, <2>1, <2>2 DEF Sound
<1>10. Linked(sys')
  <2>1. \A i \in Slots : /\ sys'.fdlist[i] # -1 <=> sys.fdlist[i] # -1 /\ i \notin listed
                         /\ i \notin listed => sys'.fdlist[i] = sys.fdlist[i]
    BY <1>2, <1>4, <1>6
  <2>2. \A h \in HostFDs : IsOpen(sys', h) <=> IsOpen(sys, h) /\ ~behind(h)
    BY <1>2 DEF IsOpen
  <2>3. ASSUME NEW i \in Slots, sys'.fdlist[i] # -1 PROVE IsOpen(sys', sys'.fdlist[i])
    <3>1. sys.fdlist[i] # -1 /\ i \notin listed /\ sys'.fdlist[i] = sys.fdlist[i] BY <2>1, <2>3
    <3>2. IsOpen(sys, sys.fdlist[i]) /\ sys.fdlist[i] \in HostFDs BY <1>1, <3>1 DEF Linked, IsOpen
    <3>3. \A j \in listed : sys.fdlist[j] # sys.fdlist[i] BY <1>1, <1>4, <1>5, <3>1 DEF Linked
    <3> QED BY <2>2, <3>1, <3>2, <3>3
  <2>4. ASSUME NEW i \in Slots, NEW j \in Slots, i # j, sys'.fdlist[i] # -1, sys'.fdlist[j] # -1
        PROVE  sys'.fdlist[i] # sys'.fdlist[j]
    BY <1>1, <2>1, <2>4 DEF Linked
  <2>5. ASSUME NEW h \in HostFDs, IsOpen(sys', h)
        PROVE  \E i \in Slots : sys'.fdlist[i] # -1 /\ sys'.fdlist[i] = h
    <3>1. IsOpen(sys, h) /\ ~behind(h) BY <2>2, <2>5
    <3>2. PICK i \in Slots : sys.fdlist[i] # -1 /\ sys.fdlist[i] = h BY <1>1, <3>1 DEF Linked
    <3>3. i \notin listed BY <3>1, <3>2
    <3> QED BY <2>1, <3>2, <3>3
  <2> QED BY <2>3, <2>4, <2>5 DEF Linked
<1>11. ~Called BY <1>1, <1>2 DEF Called
<1> QED BY <1>1, <1>2, <1>8, <1>9, <1>10, <1>11 DEF SysInv, Good

\* Every step keeps the invariant, and every call does what is promised.
LEMMA SysStep == ASSUME SysInv, [SysNext]_scvars
                 PROVE  SysInv' /\ (scvars' # scvars /\ Called /\ ~sys'.fatal => Promise(sys, sys'))
<1>1. CASE ArgumentSetup \/ Call BY <1>1, SysStepCalls
<1>2. CASE Reset BY <1>2, SysStepReset
<1>3. CASE UNCHANGED scvars BY <1>3 DEF scvars, SysInv, Good, Typed, Sound, Linked, IsOpen
<1> QED BY <1>1, <1>2, <1>3 DEF SysNext

\* Guest and host descriptors correspond one to one, whatever is opened,
\* refused, closed, asked for its state or forgotten between programs.
THEOREM DescriptorsHold == SysSpec => []Descriptors
<1>1. SysInit => SysInv BY SysInitially
<1>2. SysInv /\ [SysNext]_scvars => SysInv' BY SysStep
<1>3. SysInv => Descriptors BY DEF SysInv, Good, Descriptors
<1> QED BY <1>1, <1>2, <1>3, PTL DEF SysSpec

\* Every call has the effect POSIX describes, on its own descriptor, file and
\* buffer, and on nothing else.
THEOREM FilesAsPromisedHolds == SysSpec => FilesAsPromised
<1>1. SysInit => SysInv BY SysInitially
<1>2. SysInv /\ [SysNext]_scvars => SysInv' BY SysStep
<1>3. SysInv /\ [SysNext]_scvars => [Called /\ ~sys'.fatal => Promise(sys, sys')]_scvars BY SysStep
<1> QED BY <1>1, <1>2, <1>3, PTL DEF SysSpec, FilesAsPromised
=============================================================================
