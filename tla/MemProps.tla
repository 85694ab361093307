------------------------------ MODULE MemProps ------------------------------
(***************************************************************************)
(* Correctness of the simulated memory.                                    *)
(***************************************************************************)
EXTENDS MemStore

Mems == {"A", "B"}
Behind(m) == (m.chunks + 1)..Len(m.rows)

Ordered(m) ==
  /\ \A i \in 1..m.chunks : m.rows[i].data # <<>>
  /\ \A i \in 1..(m.chunks - 1) : End(m.rows[i]) <= m.rows[i + 1].addr
  /\ \A i \in Behind(m) : m.rows[i].data = <<>>
  /\ m.chunks \in 0..Len(m.rows) /\ {m.rd, m.wr} \subseteq 0..Len(m.rows)

\* The rows in use are sorted, disjoint and not empty, those behind them have
\* no length; the cached rows exist.  Everything the binary searches, the
\* splits and merges and the row caches (mem.cc:412-416, 512-517) rest on.
RowsOrdered == (\A x \in Mems : Ordered(mem[x])) /\ adjust.size \in ChunkSize..AdjLimit

\* What the image file says: the lanes as Read and BEGetByte, LEGetByte
\* (mem.h:79-84) number them.
LaneMeant(e) == IF e.kind = "+" THEN 7 - (e.addr % 8) ELSE e.addr % 8
Meaning(e)   == [unit |-> UnitOf(e), v |-> IF IsByte(e) THEN [l \in {LaneMeant(e)} |-> e.v] ELSE e.v]
ImageOf(items) == LET entries == Entries(items) IN [n \in 1..Len(entries) |-> Meaning(entries[n])]

\* MergeImage takes a byte's lane from two bits of its address (mem.cc:763-769),
\* units have eight: PlainMemory is about bytes in the half where they agree.
LanesAgree == \A items \in Images : \A n \in 1..Len(Entries(items)) :
  LET e == Entries(items)[n] IN IsByte(e) => LaneOf(e) = LaneMeant(e)

\* Memory as it is read, through whichever row is remembered, is a plain
\* function: only a write changes it, and only at its unit; a dump read back is
\* the same memory, memories said to be the same are (mem.cc:59-122, 405-583,
\* 642-1035).
Plain == INSTANCE Memory WITH Word <- Words, BadWord <- MEM_BAD,
           store <- [x \in Mems |-> [u \in Unit |-> ReadValue(mem[x], u)]], image <- ImageOf(file)
PlainMemory == Plain!Spec
=============================================================================
