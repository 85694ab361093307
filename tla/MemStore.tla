------------------------------ MODULE MemStore ------------------------------
(***************************************************************************)
(* Simulated memory, lib/mem.cc: sparse, kept as an array of rows, sorted  *)
(* chunks of consecutive units of eight bytes.  Reading and writing first  *)
(* try the row used last.  Addresses are unit numbers (addr >> MEM_ALIGN). *)
(*                                                                         *)
(* A memory is a record: rows (_mem, _mem_addr and _mem_len, the length of *)
(* data), chunks (_chunks: rows behind it are stale), rd and wr            *)
(* (_lastReadRow and _lastWriteRow; rows count from 1, so 0 is no row).    *)
(***************************************************************************)
EXTENDS Integers, Sequences, SequencesExt

CONSTANTS Unit,              \* the unit numbers a program uses
          Byte,              \* 0 and other byte values
          ChunkSize,         \* CHUNK_SIZE, at least 1
          AdjLimit,          \* ADJ_LIMIT, ChunkSize or twice as much
          DoubleThreshold,   \* DOUBLE_THRESHOLD
          Images,            \* image files, besides those dumped
          Words,             \* the words stored by the program
          MaxStores          \* bound: stores before an image is used

VARIABLES mem,      \* two memories, "A" and "B"
          adjust,   \* the static adj_merge_size and last_create (0: none)
          file,     \* an image file, a sequence of items
          same,     \* the answer of the last call, if that was Compare
          stores    \* counts stores and image calls
mvars == <<mem, adjust, file, same, stores>>

Lane == 0..7        \* bytes of a unit, the least significant one is 0
MEM_BAD == [i \in Lane |-> 0]
Bad(n)  == [i \in 1..n |-> MEM_BAD]

\* What is in a unit, and the items of an image file: a word, a run of one
\* word ('@'), a list of words ('*'), or single bytes ('+' big-endian, '-'
\* little-endian).
Value == [Lane -> Byte]
Item  == [kind : {"word", "@", "*"}, addr : Nat, data : Seq(Value)]
         \cup [kind : {"+", "-"}, addr : Nat, data : Seq(Byte)]

ASSUME MemAssumption ==
  /\ Unit \subseteq Nat /\ 0 \in Byte /\ Words \subseteq Value /\ Images \subseteq Seq(Item)
  /\ ChunkSize \in Nat \ {0} /\ AdjLimit \in Nat /\ AdjLimit >= ChunkSize
  /\ DoubleThreshold \in Nat /\ MaxStores \in Nat

Least(a, b) == IF a < b THEN a ELSE b
End(r)   == r.addr + Len(r.data)
In(r, a) == r.addr <= a /\ a < End(r)
At(r, a) == r.data[1 + a - r.addr]
Set(r, a, v) == [r EXCEPT !.data[1 + a - r.addr] = v]

EmptyMem == [rows |-> <<>>, chunks |-> 0, rd |-> 0, wr |-> 0]

----------------------------------------------------------------------------
(* Searching.                                                              *)

\* The last row at or below a among those from i up to the one before j; i if
\* there is none.
Halve(m, a) ==
  LET Places == 1..(m.chunks + 1)
      last[p \in Places \X Places] ==
        LET i == p[1]
            j == p[2]
            k == (i + j) \div 2
        IN  IF i + 1 >= j THEN i ELSE IF a < m.rows[k].addr THEN last[<<i, k>>] ELSE last[<<k, j>>]
  IN  last
LastAtOrBelow(m, a) == Halve(m, a)[<<1, m.chunks + 1>>]

_binsearch(m, a) == IF m.chunks = 0 THEN 0
                    ELSE LET i == LastAtOrBelow(m, a) IN IF In(m.rows[i], a) THEN i ELSE 0

\* The row that holds a or ends at a; else the place of a new one.
_binsearchw(m, a) ==
  IF m.chunks = 0 THEN 1
  ELSE LET i == LastAtOrBelow(m, a)
           r == m.rows[i]
       IN  IF r.addr <= a /\ a <= End(r)
           THEN IF i > 1 /\ End(m.rows[i - 1]) = a THEN i - 1 ELSE i
           ELSE IF a < m.rows[1].addr THEN 1
           ELSE IF a > End(m.rows[m.chunks]) THEN m.chunks + 1 ELSE i + 1

Hit(m, row, a) == row # 0 /\ In(m.rows[row], a)

ReadRow(m, a)   == IF Hit(m, m.rd, a) THEN m.rd ELSE _binsearch(m, a)
ReadValue(m, a) == IF ReadRow(m, a) = 0 THEN MEM_BAD ELSE At(m.rows[ReadRow(m, a)], a)

----------------------------------------------------------------------------
(* Growing.                                                                *)

\* get_more for one unit behind row ch: double it if there is room.
get_more(m, ch) ==
  LET r    == m.rows[ch]
      want == IF Len(r.data) < DoubleThreshold THEN Len(r.data) ELSE ChunkSize
      room == m.rows[ch + 1].addr - End(r)
  IN  [m EXCEPT !.rows[ch].data =
         @ \o Bad(IF ch < m.chunks THEN Least(want, room) ELSE want)]

Joined(r, q) == [r EXCEPT !.data = @ \o q.data]

\* A mutant: the row that is given up keeps its length.
merge_chunks_keeping_length(m, c) ==
  [m EXCEPT !.chunks = @ - 1,
            !.rows = [i \in 1..Len(@) |->
                        IF i = c THEN Joined(@[c], @[c + 1])
                        ELSE IF c < i /\ i < m.chunks THEN @[i + 1] ELSE @[i]]]

\* Rows c and c + 1 become one; those behind move down.
merge_chunks(m, c) ==
  [m EXCEPT !.chunks = @ - 1,
            !.rows = [i \in 1..Len(@) |->
                        IF i = c THEN Joined(@[c], @[c + 1])
                        ELSE IF c < i /\ i < m.chunks THEN @[i + 1]
                        ELSE IF i = m.chunks THEN [addr |-> @[i].addr, data |-> <<>>] ELSE @[i]]]

\* A pass of chunk_gc at row i; chunks passes are enough.
Collected(p) ==
  IF p.i >= p.m.chunks THEN p
  ELSE IF End(p.m.rows[p.i]) = p.m.rows[p.i + 1].addr THEN [p EXCEPT !.m = merge_chunks(@, p.i)]
  ELSE [p EXCEPT !.i = @ + 1]
Collect(m) ==
  LET pass[n \in 0..m.chunks] == IF n = 0 THEN [m |-> m, i |-> 1] ELSE Collected(pass[n - 1])
  IN  pass
chunk_gc(m) == Collect(m)[m.chunks].m

\* create_new_chunk when the next row is close and there is one before it:
\* the next row grows downward.
Near(m, a, ch) == ch > 1 /\ ch <= m.chunks /\ m.rows[ch].addr - a < ChunkSize

Adjusted(adj, ch) ==
  IF adj.last = ch THEN [adj EXCEPT !.size = Least(2 * @, AdjLimit)] ELSE [adj EXCEPT !.last = ch]

GrowDown(m, ch, size) ==
  LET gap == Least(m.rows[ch].addr - End(m.rows[ch - 1]), size)
  IN  [m EXCEPT !.rows[ch] = [addr |-> @.addr - gap, data |-> Bad(gap) \o @.data]]

\* A mutant: the new row may run into the next one.
NewRowTooLong(m, a, ch) == [addr |-> a, data |-> Bad(ChunkSize)]

NewRow(m, a, ch) ==
  [addr |-> a, data |-> Bad(IF ch <= m.chunks THEN Least(ChunkSize, m.rows[ch].addr - a)
                            ELSE ChunkSize)]

InsertRow(m, ch, r) ==
  [m EXCEPT !.chunks = @ + 1,
            !.rows = InsertAt(SubSeq(@, 1, m.chunks), ch, r) \o SubSeq(@, m.chunks + 2, Len(@))]

\* Mem::Write, w being the row found; adj are the statics.  The result has both.
Result(m, adj) == [m |-> m, adj |-> adj]
WriteAt(m, adj, a, v, w) ==
  LET in  == [m EXCEPT !.wr = w]
      put(x) == [x EXCEPT !.rows[w] = Set(@, a, v)]
  IN  IF Hit(m, m.wr, a) THEN Result([m EXCEPT !.rows[m.wr] = Set(@, a, v)], adj)
      ELSE IF w <= m.chunks /\ In(m.rows[w], a) THEN Result(put(in), adj)
      ELSE IF w <= m.chunks /\ a = End(m.rows[w])
           THEN IF w < m.chunks /\ m.rows[w + 1].addr = a
                THEN Result(put(merge_chunks(in, w)), adj)
                ELSE Result(put(get_more(in, w)), adj)
      ELSE IF Near(m, a, w)
           THEN LET now == Adjusted(adj, w)
                IN  Result(put(GrowDown(in, w, now.size)), now)
      ELSE Result(put(InsertRow(in, w, NewRow(m, a, w))), adj)
Write(m, adj, a, v) == WriteAt(m, adj, a, v, _binsearchw(m, a))

----------------------------------------------------------------------------
(* Image files.                                                            *)

\* The entries of the items in their order: a word and its unit, or a byte
\* and its address.
Entries(items) == FlattenSeq([i \in 1..Len(items) |->
  [j \in 1..Len(items[i].data) |->
     [kind |-> items[i].kind, addr |-> items[i].addr + j - 1, v |-> items[i].data[j]]]])

\* The lane of a byte is computed from two bits of its address.
IsByte(e) == e.kind \in {"+", "-"}
UnitOf(e) == IF IsByte(e) THEN e.addr \div 8 ELSE e.addr
LaneOf(e) == IF e.kind = "+" THEN 3 - (e.addr % 4) ELSE e.addr % 4

\* One entry of an image file; a byte is read, changed and written.
Put(r, e) ==
  IF IsByte(e)
  THEN Write([r.m EXCEPT !.rd = ReadRow(r.m, UnitOf(e))], r.adj, UnitOf(e),
             [ReadValue(r.m, UnitOf(e)) EXCEPT ![LaneOf(e)] = e.v])
  ELSE Write(r.m, r.adj, UnitOf(e), e.v)

Merging(m, adj, entries) ==
  LET after[n \in 0..Len(entries)] ==
        IF n = 0 THEN Result(m, adj) ELSE Put(after[n - 1], entries[n])
  IN  after
MergeImage(m, adj, items) == LET entries == Entries(items) IN Merging(m, adj, entries)[Len(entries)]

\* MergeImageAndDuplicate writes every word to the second memory too, a byte
\* with the rest of the unit as it is in the first one.
PutBoth(r, e) ==
  LET one == Put(Result(r.a, r.adj), e)
      two == Write(r.b, one.adj, UnitOf(e), ReadValue(one.m, UnitOf(e)))
  IN  [a |-> one.m, b |-> two.m, adj |-> two.adj]
Duplicating(a, b, adj, entries) ==
  LET after[n \in 0..Len(entries)] ==
        IF n = 0 THEN [a |-> a, b |-> b, adj |-> adj] ELSE PutBoth(after[n - 1], entries[n])
  IN  after
MergeImageAndDuplicate(a, b, adj, items) ==
  LET entries == Entries(items) IN Duplicating(a, b, adj, entries)[Len(entries)]

\* DumpImage after its chunk_gc: a row of one value is a run, others a list.
DumpImage(m) == [i \in 1..m.chunks |->
  [kind |-> IF \A j \in 1..Len(m.rows[i].data) : m.rows[i].data[j] = m.rows[i].data[1]
            THEN "@" ELSE "*",
   addr |-> m.rows[i].addr, data |-> m.rows[i].data]]

\* Compare after both chunk_gc: the rows must begin at the same units; what
\* only one of two rows has must be MEM_BAD.
Padding(r, n) == \A j \in (n + 1)..Len(r.data) : r.data[j] = MEM_BAD
SameRow(r, q) == LET n == Least(Len(r.data), Len(q.data))
                 IN  /\ r.addr = q.addr /\ Padding(r, n) /\ Padding(q, n)
                     /\ \A j \in 1..n : r.data[j] = q.data[j]
Compare(m, n) == m.chunks = n.chunks /\ \A i \in 1..m.chunks : SameRow(m.rows[i], n.rows[i])

----------------------------------------------------------------------------
MemInit == /\ mem = [x \in {"A", "B"} |-> EmptyMem]
           /\ adjust = [size |-> ChunkSize, last |-> 0]
           /\ file = <<>> /\ same = {} /\ stores = 0

Store == \E a \in Unit, v \in Words :
  /\ stores < MaxStores /\ stores' = stores + 1
  /\ LET r == Write(mem["A"], adjust, a, v) IN mem' = [mem EXCEPT !["A"] = r.m] /\ adjust' = r.adj
  /\ same' = {} /\ UNCHANGED file

\* Read: the only change is the row it remembers.
Load == \E a \in Unit :
  /\ stores <= MaxStores
  /\ mem' = [mem EXCEPT !["A"].rd = ReadRow(mem["A"], a)]
  /\ UNCHANGED <<adjust, file, same, stores>>

\* The image calls come after the stores.
ImageCall == stores \in MaxStores..(MaxStores + 1) /\ stores' = stores + 1

Dump == /\ ImageCall /\ file = <<>>
        /\ mem' = [mem EXCEPT !["A"] = chunk_gc(@)]
        /\ file' = DumpImage(mem'["A"])
        /\ same' = {} /\ UNCHANGED adjust

\* ReadImage and MergeImage: freemem does nothing, so they are the same.
Merge == \E items \in Images \cup {file} :
  /\ ImageCall
  /\ LET r == MergeImage(mem["B"], adjust, items)
     IN  mem' = [mem EXCEPT !["B"] = r.m] /\ adjust' = r.adj
  /\ file' = items /\ same' = {}

MergeDuplicate == \E items \in Images \cup {file} :
  /\ ImageCall
  /\ LET r == MergeImageAndDuplicate(mem["A"], mem["B"], adjust, items)
     IN  mem' = [x \in {"A", "B"} |-> IF x = "A" THEN r.a ELSE r.b] /\ adjust' = r.adj
  /\ file' = items /\ same' = {}

CompareBoth ==
  /\ stores > MaxStores
  /\ mem' = [x \in {"A", "B"} |-> chunk_gc(mem[x])]
  /\ same' = {Compare(mem'["A"], mem'["B"])}
  /\ UNCHANGED <<adjust, file, stores>>

MemNext == \/ Store \/ Load
           \/ Dump \/ Merge \/ MergeDuplicate \/ CompareBoth

MemSpec == MemInit /\ [][MemNext]_mvars
=============================================================================
